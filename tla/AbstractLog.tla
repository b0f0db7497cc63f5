------------------------------ MODULE AbstractLog ------------------------------
(***************************************************************************)
(* What the store promises its readers: a log that grows at its end with   *)
(* ever larger timestamps, from which single records may be taken out, and *)
(* in which nothing else ever changes.                                     *)
(***************************************************************************)
EXTENDS Integers, Sequences, SequencesExt

VARIABLES
    log,     \* the records readers may count on
    high     \* the largest timestamp ever given out

Init == log = <<>> /\ high = 0

Record == [id : Nat \ {0}, ts : Nat \ {0}]

\* A new record, later than every record there ever was.
Post ==
    /\ Len(log') = Len(log) + 1
    /\ LET r == log'[Len(log')]
       IN /\ r \in Record /\ r.ts > high
          /\ \A i \in 1..Len(log) : log[i].id # r.id
          /\ log' = Append(log, r)
          /\ high' = r.ts

\* One record goes, the others keep their order.
TakeOut ==
    \E i \in 1..Len(log) : log' = RemoveAt(log, i) /\ high' = high

Next == Post \/ TakeOut

Spec == Init /\ [][Next]_<<log, high>>
=============================================================================
