------------------------------- MODULE TornLog -------------------------------
(***************************************************************************)
(* The log when a write stops in the middle of a line: the server dies, or *)
(* the disk is full.  Appends go on at the end of the file, wherever that  *)
(* is.  file is what json.loads makes of the lines; a line that it refuses *)
(* is skipped by every reader and kept by every rewrite, and only whether  *)
(* the last one has its newline matters.  /group/clear, which would empty  *)
(* the file, is left out.                                                  *)
(***************************************************************************)
EXTENDS MessageLog

CONSTANT MaxTears  \* bound: writes that stop in the middle of a line

ASSUME TearsAssumption == MaxTears \in Nat

VARIABLES
    tail,         \* how the file ends
    cut,          \* whether it has a character of which bytes are missing
    tornAppends,  \* history: appends that were cut off
    tornRewrites  \* history: rewrites that were cut off

tornVars == <<tail, cut, tornAppends, tornRewrites>>
allVars == <<vars, tornVars>>

\* Where a write may stop: before the newline, in the line, in a character.
Cuts == {"newline", "line", "character"}

TornInit ==
    /\ Init
    /\ tail = "whole" /\ cut = FALSE
    /\ tornAppends = 0 /\ tornRewrites = 0

MayTear == tornAppends + tornRewrites < MaxTears

-----------------------------------------------------------------------------
(* What reaches the file.                                                  *)

\* The newline is not written with the line.
PutBare(r, upTo) ==
    /\ file' = IF tail # "whole" THEN (IF tail = "newline" THEN Front(file) ELSE file)
               ELSE IF upTo \in {"whole", "newline"} THEN Append(file, r) ELSE file
    /\ tail' = IF upTo = "whole" /\ tail = "whole" THEN "whole" ELSE "line"
    /\ cut' = (cut \/ upTo = "character")

\* A line, or what there is of it, goes to the end of the file.  Behind a line
\* without its newline the two are one line, and json.loads refuses it: also
\* the first, when all but its newline was there.
Put(r, upTo) ==
    /\ file' = CASE tail = "newline" -> Front(file)
                 [] tail = "line" -> file
                 [] OTHER -> IF upTo \in {"whole", "newline"} THEN Append(file, r) ELSE file
    /\ tail' = CASE upTo = "whole" -> "whole"
                 [] upTo = "newline" /\ tail = "whole" -> "newline"
                 [] OTHER -> "line"
    /\ cut' = (cut \/ upTo = "character")

PutLine(t) ==
    /\ pc[t] = "write" /\ Put(rec[t], "whole")
    /\ pc' = [pc EXCEPT ![t] = "save"]
    /\ UNCHANGED <<clock, lastTs, memTs, diskTs, lock, rec, lines, target, nextId,
                   acked, deleted, wiped, tornAppends, tornRewrites>>

\* The disk is full: the append raises and gives the lock back.
AppendTorn(t) ==
    /\ pc[t] = "write" /\ MayTear
    /\ \E upTo \in Cuts : Put(rec[t], upTo)
    /\ tornAppends' = tornAppends + 1
    /\ lock' = NoThread
    /\ rec' = [rec EXCEPT ![t] = NoRecord]
    /\ pc' = [pc EXCEPT ![t] = "idle"]
    /\ UNCHANGED <<clock, lastTs, memTs, diskTs, lines, target, nextId, acked,
                   deleted, wiped, tornRewrites>>

\* The end of the file is taken for what it was before the rewrite.
DeleteUnmended(t) ==
    \/ DeleteRead(t) /\ ~cut /\ UNCHANGED tornVars
    \/ (DeleteTruncate(t) \/ DeleteRewrite(t)) /\ UNCHANGED tornVars

\* delete gives every line it read its newline back, but gives up when a
\* character cannot be decoded.
MendingDelete(t) ==
    \/ DeleteRead(t) /\ ~cut /\ UNCHANGED tornVars
    \/ DeleteTruncate(t) /\ tail' = "whole" /\ UNCHANGED <<cut, tornAppends, tornRewrites>>
    \/ DeleteRewrite(t) /\ UNCHANGED tornVars

\* A rewrite stops in the middle of a line, which may be one that nobody can
\* read, when there is one.
TearRewrite(t) ==
    /\ pc[t] = "rewrite" /\ MayTear
    /\ \E upTo \in Cuts, n \in 0..Len(lines[t]) :
         /\ cut' = (upTo = "character")
         /\ \/ /\ n < Len(lines[t])
               /\ file' = SubSeq(lines[t], 1, IF upTo = "newline" THEN n + 1 ELSE n)
               /\ tail' = IF upTo = "newline" THEN "newline" ELSE "line"
            \/ /\ tornAppends + tornRewrites > 0
               /\ file' = SubSeq(lines[t], 1, n) /\ tail' = "line"
    /\ wiped' = wiped \cup (HeldIds \ IdSet(file'))
    /\ tornRewrites' = tornRewrites + 1
    /\ UNCHANGED tornAppends

\* The disk is full: the delete raises and gives the lock back.
DeleteTorn(t) ==
    /\ TearRewrite(t)
    /\ lock' = NoThread
    /\ lines' = [lines EXCEPT ![t] = <<>>]
    /\ target' = [target EXCEPT ![t] = 0]
    /\ pc' = [pc EXCEPT ![t] = "idle"]
    /\ UNCHANGED <<clock, lastTs, memTs, diskTs, rec, nextId, acked, deleted>>

-----------------------------------------------------------------------------
(* Deaths of the process.                                                  *)

\* The state file is not asked where the log ends.
RestartedAnew ==
    /\ lastTs' = 0 /\ memTs' = 0
    /\ lock' = NoThread
    /\ pc' = [t \in Threads |-> "idle"]
    /\ rec' = [t \in Threads |-> NoRecord]
    /\ lines' = [t \in Threads |-> <<>>]
    /\ target' = [t \in Threads |-> 0]
    /\ UNCHANGED <<clock, diskTs, nextId, acked, deleted>>

Restarted ==
    /\ lastTs' = diskTs /\ memTs' = diskTs
    /\ lock' = NoThread
    /\ pc' = [t \in Threads |-> "idle"]
    /\ rec' = [t \in Threads |-> NoRecord]
    /\ lines' = [t \in Threads |-> <<>>]
    /\ target' = [t \in Threads |-> 0]
    /\ UNCHANGED <<clock, diskTs, nextId, acked, deleted>>

\* Between two lines: a rewrite leaves the lines that it has flushed.
DiesBetweenLines ==
    /\ \/ Rewriting = {} /\ UNCHANGED <<file, tail>>
       \/ \E t \in Rewriting : \E n \in 0..Len(lines[t]) :
            file' = SubSeq(lines[t], 1, n) /\ tail' = "whole"
    /\ wiped' = wiped \cup (HeldIds \ IdSet(file'))
    /\ Restarted /\ UNCHANGED <<cut, tornAppends, tornRewrites>>

DiesInAppend ==
    /\ MayTear
    /\ \E t \in Threads, upTo \in Cuts : pc[t] = "write" /\ Put(rec[t], upTo)
    /\ tornAppends' = tornAppends + 1
    /\ Restarted /\ UNCHANGED <<wiped, tornRewrites>>

DiesInRewrite == Restarted /\ \E t \in Threads : TearRewrite(t)

-----------------------------------------------------------------------------

TornNext ==
    \/ \E t \in Threads :
         \/ (StartAppend(t) \/ AppendSave(t) \/ AppendFails(t)) /\ UNCHANGED tornVars
         \/ DeleteFails(t) /\ UNCHANGED tornVars
         \/ PutLine(t) \/ AppendTorn(t) \/ MendingDelete(t) \/ DeleteTorn(t)
    \/ (SaveState \/ SetClock) /\ UNCHANGED tornVars
    \/ DiesBetweenLines \/ DiesInAppend \/ DiesInRewrite

TornSpec == TornInit /\ [][TornNext]_allVars

-----------------------------------------------------------------------------
(* Properties.                                                             *)

\* The file ends whole, without a newline or in a piece, and it ends with a
\* record when only the newline is missing.
TornTypeOK ==
    /\ TypeOK
    /\ tail \in {"whole", "newline", "line"} /\ cut \in BOOLEAN
    /\ tail = "newline" => file # <<>>
    /\ tornAppends \in Nat /\ tornRewrites \in Nat

\* README: the chat log is the source of truth.  A write that was cut off spoils
\* at most one message that was answered 200: the next one to be appended.  A
\* rewrite that was cut off before a newline spoils one more, the message whose
\* newline it was.  A cut character spoils them all: every read raises.
LossPerTear ==
    ~cut => Cardinality(acked \ (IdSet(file) \cup HeldIds \cup deleted \cup wiped))
              <= tornAppends + 2 * tornRewrites

\* Whatever a message that was answered 200 stands before in the file is later
\* than it, also when crashes and failures forget timestamps that were given
\* out and the clock steps back: only a message whose append never answered may
\* be followed by one that is not later.
AckedInOrder ==
    \A i, j \in 1..Len(file) :
        i < j /\ file[i].id \in acked => file[i].ts < file[j].ts
=============================================================================
