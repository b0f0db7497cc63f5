--------------------------- MODULE MessageLogProofs ---------------------------
(***************************************************************************)
(* What holds of MessageLog for any set of threads and any bounds: with    *)
(* clears and faults no message is lost or comes back; without them the    *)
(* file stays in timestamp order and the store implements AbstractLog.     *)
(***************************************************************************)
EXTENDS MessageLog, SequenceTheorems, TLAPS

-----------------------------------------------------------------------------
(* The rows that append, delete and their writers handle.                  *)

\* The file after an append has one more id.
LEMMA IdSetAppend ==
    ASSUME NEW s \in Seq(Record), NEW r \in Record
    PROVE  /\ Append(s, r) \in Seq(Record)
           /\ IdSet(Append(s, r)) = IdSet(s) \cup {r.id}
<1>1. Append(s, r) \in Seq(Record) /\ Len(Append(s, r)) = Len(s) + 1
  OBVIOUS
<1>2. \A i \in 1..Len(s) : Append(s, r)[i] = s[i]
  OBVIOUS
<1>3. Append(s, r)[Len(s) + 1] = r
  OBVIOUS
<1>4. Len(s) \in Nat
  OBVIOUS
<1>5. IdSet(Append(s, r)) \subseteq IdSet(s) \cup {r.id}
  BY <1>1, <1>2, <1>3, <1>4 DEF IdSet
<1>6. IdSet(s) \cup {r.id} \subseteq IdSet(Append(s, r))
  BY <1>1, <1>2, <1>3, <1>4 DEF IdSet
<1> QED
  BY <1>1, <1>5, <1>6

\* The empty file is a file, without ids.
LEMMA EmptyFile == <<>> \in Seq(Record) /\ IdSet(<<>>) = {}
<1>1. <<>> \in Seq(Record)
  OBVIOUS
<1>2. IdSet(<<>>) = {}
  BY DEF IdSet
<1> QED
  BY <1>1, <1>2

\* Where the lines of a delete come from: those before the one it leaves out
\* keep their place, those after it move up by one.
LEMMA RemoveAtElements ==
    ASSUME NEW s \in Seq(Record), NEW i \in 1..Len(s)
    PROVE  /\ RemoveAt(s, i) \in Seq(Record)
           /\ Len(RemoveAt(s, i)) = Len(s) - 1
           /\ \A j \in 1..Len(s) - 1 :
                RemoveAt(s, i)[j] = IF j < i THEN s[j] ELSE s[j + 1]
<1> DEFINE a == SubSeq(s, 1, i - 1)
           b == SubSeq(s, i + 1, Len(s))
<1>1. a \in Seq(Record) /\ Len(a) = i - 1 /\ \A j \in 1..i - 1 : a[j] = s[j]
  OBVIOUS
<1>2. b \in Seq(Record) /\ Len(b) = Len(s) - i /\ \A j \in 1..Len(s) - i : b[j] = s[i + j]
  OBVIOUS
<1>3. RemoveAt(s, i) = a \o b
  BY DEF RemoveAt
<1> HIDE DEF a, b
<1>4. a \o b \in Seq(Record) /\ Len(a \o b) = Len(s) - 1
  <2>1. a \o b \in Seq(Record) /\ Len(a \o b) = Len(a) + Len(b)
    BY <1>1, <1>2, ConcatProperties
  <2> QED
    BY <1>1, <1>2, <2>1
<1>5. ASSUME NEW j \in 1..Len(s) - 1
      PROVE  (a \o b)[j] = IF j < i THEN s[j] ELSE s[j + 1]
  <2>1. CASE j < i
    BY <1>1, <1>2, <2>1
  <2>2. CASE ~(j < i)
    <3>1. (a \o b)[j] = b[j - (i - 1)]
      BY <1>1, <1>2, <2>2
    <3>2. j - (i - 1) \in 1..Len(s) - i
      BY <2>2
    <3> QED
      BY <1>2, <2>2, <3>1, <3>2
  <2> QED
    BY <2>1, <2>2
<1> QED
  BY <1>3, <1>4, <1>5

\* A delete holds every id but its target's.
LEMMA RemoveAtIds ==
    ASSUME NEW s \in Seq(Record), NEW i \in 1..Len(s)
    PROVE  IdSet(s) = IdSet(RemoveAt(s, i)) \cup {s[i].id}
<1> DEFINE d == RemoveAt(s, i)
<1>1. /\ Len(d) = Len(s) - 1
      /\ \A j \in 1..Len(s) - 1 : d[j] = IF j < i THEN s[j] ELSE s[j + 1]
  BY RemoveAtElements
<1> HIDE DEF d
<1>2. IdSet(d) \subseteq IdSet(s)
  BY <1>1 DEF IdSet
<1>3. ASSUME NEW k \in 1..Len(s), k # i
      PROVE  s[k].id \in IdSet(d)
  <2>1. CASE k < i
    <3>1. k \in 1..Len(s) - 1 /\ d[k] = s[k]
      BY <1>1, <2>1
    <3> QED
      BY <1>1, <3>1 DEF IdSet
  <2>2. CASE k > i
    <3>1. k - 1 \in 1..Len(s) - 1 /\ d[k - 1] = s[k]
      BY <1>1, <2>2
    <3> QED
      BY <1>1, <3>1 DEF IdSet
  <2> QED
    BY <1>3, <2>1, <2>2
<1>4. s[i].id \in IdSet(s)
  BY DEF IdSet
<1>5. IdSet(s) \subseteq IdSet(d) \cup {s[i].id}
  BY <1>3 DEF IdSet
<1> QED
  BY <1>2, <1>4, <1>5 DEF d

\* With unique ids the target is gone from the lines, which stay unique.
LEMMA RemoveAtUnique ==
    ASSUME NEW s \in Seq(Record), NEW i \in 1..Len(s), UniqueIds(s)
    PROVE  UniqueIds(RemoveAt(s, i)) /\ s[i].id \notin IdSet(RemoveAt(s, i))
<1> DEFINE d == RemoveAt(s, i)
           At(j) == IF j < i THEN j ELSE j + 1
<1>1. /\ Len(d) = Len(s) - 1
      /\ \A j \in 1..Len(s) - 1 : d[j] = s[At(j)] /\ At(j) \in 1..Len(s) /\ At(j) # i
  BY RemoveAtElements
<1>2. \A j, k \in 1..Len(s) - 1 : j # k => At(j) # At(k)
  OBVIOUS
<1> HIDE DEF d, At
<1>3. UniqueIds(d)
  BY <1>1, <1>2 DEF UniqueIds
<1>4. s[i].id \notin IdSet(d)
  BY <1>1 DEF UniqueIds, IdSet
<1> QED
  BY <1>3, <1>4 DEF d

\* A rewrite of an empty file leaves the lines that were held.
LEMMA OverwriteEmpty ==
    ASSUME NEW s \in Seq(Record)
    PROVE  Overwrite(s, <<>>) = s
<1>1. SubSeq(<<>>, Len(s) + 1, Len(<<>>)) = <<>>
  OBVIOUS
<1> QED
  BY <1>1 DEF Overwrite

\* A rewrite leaves records, whatever it finds in the file.
LEMMA OverwriteType ==
    ASSUME NEW s \in Seq(Record), NEW f \in Seq(Record)
    PROVE  Overwrite(s, f) \in Seq(Record)
<1>1. SubSeq(f, Len(s) + 1, Len(f)) \in Seq(Record)
  OBVIOUS
<1> QED
  BY <1>1, ConcatProperties DEF Overwrite

\* What was flushed before a crash is part of what was held.
LEMMA PrefixIds ==
    ASSUME NEW s \in Seq(Record), NEW n \in 0..Len(s)
    PROVE  /\ SubSeq(s, 1, n) \in Seq(Record)
           /\ Len(SubSeq(s, 1, n)) = n
           /\ \A j \in 1..n : SubSeq(s, 1, n)[j] = s[j]
           /\ IdSet(SubSeq(s, 1, n)) \subseteq IdSet(s)
<1>1. /\ SubSeq(s, 1, n) \in Seq(Record) /\ Len(SubSeq(s, 1, n)) = n
      /\ \A j \in 1..n : SubSeq(s, 1, n)[j] = s[j]
  OBVIOUS
<1> QED
  BY <1>1 DEF IdSet

\* Ids are positive.
LEMMA IdSetType ==
    ASSUME NEW s \in Seq(Record)
    PROVE  IdSet(s) \subseteq Nat \ {0}
<1>1. \A i \in 1..Len(s) : s[i] \in Record
  OBVIOUS
<1> QED
  BY <1>1 DEF IdSet, Record

-----------------------------------------------------------------------------
(* Type correctness.                                                       *)

\* The timestamp of a new record is never the empty one.
LEMMA NextTsType == TypeOK => NextTs \in Nat \ {0}
  BY DEF TypeOK, NextTs

\* A step of append keeps the types, if a record that is written has been
\* filled in.
LEMMA AppendType ==
    ASSUME TypeOK, NEW t \in Threads, AppendStep(t) \/ AppendFails(t),
           pc[t] = "write" => rec[t] \in Record
    PROVE  TypeOK'
<1> USE DEF TypeOK, Steps
<1>1. CASE StartAppend(t)
  <2>1. NextTs \in Nat \ {0}
    BY NextTsType
  <2>2. [id |-> nextId, ts |-> NextTs] \in Record
    BY <2>1 DEF Record
  <2>3. rec' \in [Threads -> Record \cup {NoRecord}]
    BY <1>1, <2>2 DEF StartAppend
  <2> QED
    BY <1>1, <2>1, <2>3 DEF StartAppend
<1>2. CASE AppendWrite(t)
  <2>1. rec[t] \in Record
    BY <1>2 DEF AppendWrite
  <2>2. file' \in Seq(Record)
    BY <1>2, <2>1 DEF AppendWrite
  <2> QED
    BY <1>2, <2>2 DEF AppendWrite
<1>3. CASE AppendSave(t)
  <2>1. rec[t].id \in Nat
    BY DEF Record, NoRecord
  <2> QED
    BY <1>3, <2>1 DEF AppendSave
<1>4. CASE AppendFails(t)
  BY <1>4 DEF AppendFails
<1> QED
  BY <1>1, <1>2, <1>3, <1>4 DEF AppendStep

\* A step of delete keeps the types.
LEMMA DeleteType ==
    ASSUME TypeOK, NEW t \in Threads, DeleteStep(t)
    PROVE  TypeOK'
<1> USE DEF TypeOK, Steps
<1>1. CASE DeleteRead(t)
  <2>1. PICK i \in 1..Len(file) :
          /\ lines' = [lines EXCEPT ![t] = RemoveAt(file, i)]
          /\ target' = [target EXCEPT ![t] = file[i].id]
    BY <1>1 DEF DeleteRead
  <2>2. RemoveAt(file, i) \in Seq(Record)
    BY RemoveAtElements
  <2>3. file[i].id \in Nat
    <3>1. file[i] \in Record
      OBVIOUS
    <3> QED
      BY <3>1 DEF Record
  <2> QED
    BY <1>1, <2>1, <2>2, <2>3 DEF DeleteRead
<1>2. CASE DeleteTruncate(t)
  BY <1>2 DEF DeleteTruncate
<1>3. CASE DeleteRewrite(t)
  <2>1. file' \in Seq(Record)
    BY <1>3, OverwriteType DEF DeleteRewrite
  <2>2. lines' \in [Threads -> Seq(Record)]
    BY <1>3, EmptyFile DEF DeleteRewrite
  <2>3. deleted' \subseteq Nat
    BY <1>3 DEF DeleteRewrite
  <2> QED
    BY <1>3, <2>1, <2>2, <2>3 DEF DeleteRewrite
<1> QED
  BY <1>1, <1>2, <1>3 DEF DeleteStep

\* A delete that fails keeps the types.
LEMMA DeleteFailsType ==
    ASSUME TypeOK, NEW t \in Threads, DeleteFails(t)
    PROVE  TypeOK'
<1> USE DEF TypeOK, Steps
<1>1. file' \in Seq(Record)
  <2>1. CASE UNCHANGED file
    BY <2>1
  <2>2. CASE \E n \in 0..Len(lines[t]) : file' = SubSeq(lines[t], 1, n)
    <3>1. lines[t] \in Seq(Record)
      OBVIOUS
    <3> QED
      BY <2>2, <3>1, PrefixIds
  <2> QED
    BY <2>1, <2>2 DEF DeleteFails
<1>2. HeldIds \subseteq Nat
  BY IdSetType DEF HeldIds, Rewriting
<1>3. wiped' \subseteq Nat
  BY <1>2 DEF DeleteFails
<1>4. lines' \in [Threads -> Seq(Record)]
  BY EmptyFile DEF DeleteFails
<1> QED
  BY <1>1, <1>3, <1>4 DEF DeleteFails

\* So do a clear, a restart, a clock step and a crash.
LEMMA OtherType ==
    ASSUME TypeOK,
           \/ \E t \in Threads : ClearStep(t)
           \/ SaveState \/ SetClock \/ Restart \/ Crash
    PROVE  TypeOK'
<1> USE DEF TypeOK, Steps
<1>1. ASSUME NEW t \in Threads, ClearTruncate(t)
      PROVE  TypeOK'
  <2>1. wiped' \subseteq Nat
    BY <1>1, IdSetType DEF ClearTruncate
  <2>2. file' \in Seq(Record)
    BY <1>1, EmptyFile DEF ClearTruncate
  <2> QED
    BY <1>1, <2>1, <2>2 DEF ClearTruncate
<1>2. ASSUME NEW t \in Threads, ClearReset(t)
      PROVE  TypeOK'
  BY <1>2 DEF ClearReset
<1>3. CASE SaveState
  BY <1>3 DEF SaveState
<1>4. CASE SetClock
  BY <1>4 DEF SetClock
<1>5. CASE Restart
  BY <1>5 DEF Restart
<1>6. CASE Crash
  <2>1. file' \in Seq(Record)
    <3>1. CASE UNCHANGED file
      BY <3>1
    <3>2. ASSUME NEW t \in Threads, NEW n \in Nat,
                 n <= Len(lines[t]), file' = SubSeq(lines[t], 1, n)
          PROVE  file' \in Seq(Record)
      <4>1. lines[t] \in Seq(Record) /\ n \in 0..Len(lines[t])
        BY <3>2
      <4> QED
        BY <3>2, <4>1, PrefixIds
    <3> QED
      BY <1>6, <3>1, <3>2, BoundsAssumption DEF Crash, Rewriting
  <2>2. HeldIds \subseteq Nat
    BY IdSetType DEF HeldIds, Rewriting
  <2>3. wiped' \subseteq Nat
    BY <1>6, <2>2 DEF Crash
  <2>4. lines' \in [Threads -> Seq(Record)]
    BY <1>6, EmptyFile DEF Crash
  <2>5. rec' \in [Threads -> Record \cup {NoRecord}]
    BY <1>6 DEF Crash
  <2> QED
    BY <1>6, <2>1, <2>3, <2>4, <2>5 DEF Crash
<1> QED
  BY <1>1, <1>2, <1>3, <1>4, <1>5, <1>6 DEF ClearStep

\* No step leaves the types.
LEMMA TypeStep == TypeOK /\ WriteFresh /\ [Next]_vars => TypeOK'
<1> SUFFICES ASSUME TypeOK, WriteFresh, [Next]_vars
             PROVE  TypeOK'
  OBVIOUS
<1>1. CASE UNCHANGED vars
  BY <1>1 DEF vars, TypeOK
<1>2. ASSUME NEW t \in Threads, AppendStep(t) \/ AppendFails(t)
      PROVE  TypeOK'
  BY <1>2, AppendType DEF WriteFresh
<1>3. ASSUME NEW t \in Threads, DeleteStep(t)
      PROVE  TypeOK'
  BY <1>3, DeleteType
<1>4. CASE \/ \E t \in Threads : ClearStep(t)
           \/ SaveState \/ SetClock \/ Restart \/ Crash
  BY <1>4, OtherType
<1>5. ASSUME NEW t \in Threads, DeleteFails(t)
      PROVE  TypeOK'
  BY <1>5, DeleteFailsType
<1> QED
  BY <1>1, <1>2, <1>3, <1>4, <1>5 DEF Next, ServerNext

-----------------------------------------------------------------------------
(* The inductive invariant.                                                *)

\* The invariant without the types, which TypeStep takes care of.
SafeInv ==
    /\ MutualExclusion /\ FileClean /\ WriteFresh /\ SaveKept
    /\ TruncateHolds /\ RewriteEmpty /\ LinesClean
    /\ NoLoss /\ NoResurrection

\* An append keeps the invariant: its id is new, and its thread has the lock.
LEMMA InvStartAppend ==
    ASSUME TypeOK, SafeInv, NEW t \in Threads, StartAppend(t)
    PROVE  SafeInv'
<1> USE DEF SafeInv, StartAppend, Holding
<1>1. MutualExclusion'
  BY ThreadsAssumption DEF MutualExclusion, TypeOK
<1>2. FileClean'
  <2>1. \A i \in 1..Len(file) : file[i].id \in Nat
    BY IdSetType DEF IdSet, TypeOK
  <2> QED
    BY <2>1 DEF FileClean, UniqueIds, OldIds, TypeOK
<1>3. \A u \in Threads : u # t => pc'[u] = pc[u] /\ pc[u] \notin Holding
  BY ThreadsAssumption DEF MutualExclusion, TypeOK
<1>4. pc'[t] = "write"
  BY DEF TypeOK
<1>5. WriteFresh'
  <2>1. rec'[t] \in Record /\ rec'[t].id = nextId
    BY NextTsType DEF TypeOK, Record
  <2>2. nextId \notin IdSet(file) \cup deleted
    BY DEF FileClean, OldIds, IdSet, TypeOK
  <2> QED
    BY <1>3, <2>1, <2>2 DEF WriteFresh, IdSet, TypeOK
<1>6. SaveKept' /\ TruncateHolds' /\ RewriteEmpty' /\ LinesClean'
  BY <1>3, <1>4 DEF SaveKept, TruncateHolds, RewriteEmpty, LinesClean
<1>7. NoLoss'
  <2>1. Rewriting = {} /\ Rewriting' = {}
    BY <1>3, <1>4 DEF Rewriting
  <2>2. HeldIds = {} /\ HeldIds' = {}
    BY <2>1 DEF HeldIds
  <2> QED
    BY <2>2 DEF NoLoss, IdSet
<1>8. NoResurrection'
  BY DEF NoResurrection, IdSet
<1> QED
  BY <1>1, <1>2, <1>5, <1>6, <1>7, <1>8

\* Once the line is written, the record is in the file.
LEMMA InvAppendWrite ==
    ASSUME TypeOK, SafeInv, NEW t \in Threads, AppendWrite(t)
    PROVE  SafeInv'
<1> USE DEF SafeInv, AppendWrite, Holding
<1>1. MutualExclusion'
  BY DEF MutualExclusion, TypeOK
<1>2. \A u \in Threads : u # t => pc'[u] = pc[u] /\ pc[u] \notin Holding
  BY DEF MutualExclusion, TypeOK
<1>3. pc'[t] = "save"
  BY DEF TypeOK
<1>4. /\ rec[t] \in Record /\ rec[t].id < nextId
      /\ rec[t].id \notin IdSet(file) \cup deleted
  BY DEF WriteFresh
<1>5. IdSet(file)' = IdSet(file) \cup {rec[t].id}
  <2>1. IdSet(Append(file, rec[t])) = IdSet(file) \cup {rec[t].id}
    BY <1>4, IdSetAppend DEF TypeOK
  <2> QED
    BY <2>1 DEF IdSet
<1>6. FileClean'
  <2>1. /\ Len(file') = Len(file) + 1
        /\ \A i \in 1..Len(file) : file'[i] = file[i]
        /\ file'[Len(file) + 1] = rec[t]
        /\ Len(file) \in Nat
    BY <1>4 DEF TypeOK
  <2>2. \A i \in 1..Len(file) : file[i].id # rec[t].id
    BY <1>4 DEF IdSet
  <2>3. UniqueIds(file)'
    BY <2>1, <2>2 DEF FileClean, UniqueIds
  <2>4. OldIds(file)'
    BY <1>4, <2>1 DEF FileClean, OldIds
  <2> QED
    BY <2>3, <2>4 DEF FileClean
<1>7. WriteFresh' /\ TruncateHolds' /\ RewriteEmpty' /\ LinesClean'
  BY <1>2, <1>3 DEF WriteFresh, TruncateHolds, RewriteEmpty, LinesClean
<1>8. SaveKept'
  BY <1>2, <1>3, <1>5 DEF SaveKept
<1>9. NoLoss'
  <2>1. Rewriting = {} /\ Rewriting' = {}
    BY <1>2, <1>3 DEF Rewriting
  <2>2. HeldIds = {} /\ HeldIds' = {}
    BY <2>1 DEF HeldIds
  <2> QED
    BY <1>5, <2>2 DEF NoLoss
<1>10. NoResurrection'
  BY <1>4, <1>5 DEF NoResurrection
<1> QED
  BY <1>1, <1>6, <1>7, <1>8, <1>9, <1>10

\* What is acknowledged is in the file or was cleared meanwhile.
LEMMA InvAppendEnd ==
    ASSUME TypeOK, SafeInv, NEW t \in Threads, AppendSave(t) \/ AppendFails(t)
    PROVE  SafeInv'
<1> USE DEF SafeInv, Holding
<1>1. /\ pc[t] \in {"write", "save"} /\ lock = t /\ lock' = NoThread
      /\ pc' = [pc EXCEPT ![t] = "idle"]
      /\ UNCHANGED <<file, lines, target, nextId, deleted, wiped>>
  BY DEF AppendSave, AppendFails, MutualExclusion
<1>2. \A u \in Threads : pc'[u] \notin Holding
  BY <1>1 DEF MutualExclusion, TypeOK
<1>3. MutualExclusion'
  BY <1>1, <1>2, ThreadsAssumption DEF MutualExclusion
<1>4. FileClean'
  BY <1>1 DEF FileClean, UniqueIds, OldIds
<1>5. WriteFresh' /\ SaveKept' /\ TruncateHolds' /\ RewriteEmpty' /\ LinesClean'
  BY <1>2 DEF WriteFresh, SaveKept, TruncateHolds, RewriteEmpty, LinesClean
<1>6. NoLoss'
  <2>1. acked' \subseteq acked \cup IdSet(file) \cup wiped
    BY DEF AppendSave, AppendFails, SaveKept
  <2>2. Rewriting = {} /\ Rewriting' = {}
    BY <1>1, <1>2 DEF Rewriting, MutualExclusion
  <2>3. HeldIds = {} /\ HeldIds' = {}
    BY <2>2 DEF HeldIds
  <2> QED
    BY <1>1, <2>1, <2>3 DEF NoLoss, IdSet
<1>7. NoResurrection'
  BY <1>1 DEF NoResurrection, IdSet
<1> QED
  BY <1>3, <1>4, <1>5, <1>6, <1>7

\* After its read a delete holds all of the file but its target.
LEMMA InvDeleteRead ==
    ASSUME TypeOK, SafeInv, NEW t \in Threads, DeleteRead(t)
    PROVE  SafeInv'
<1> USE DEF SafeInv, Holding
<1>1. PICK i \in 1..Len(file) :
        /\ lines' = [lines EXCEPT ![t] = RemoveAt(file, i)]
        /\ target' = [target EXCEPT ![t] = file[i].id]
  BY DEF DeleteRead
<1>2. /\ lock = NoThread /\ lock' = t
      /\ pc' = [pc EXCEPT ![t] = "truncate"]
      /\ UNCHANGED <<file, rec, nextId, acked, deleted, wiped>>
  BY DEF DeleteRead
<1>3. \A u \in Threads : u # t => pc'[u] = pc[u] /\ pc[u] \notin Holding
  BY <1>2, ThreadsAssumption DEF MutualExclusion, TypeOK
<1>4. pc'[t] = "truncate" /\ lines'[t] = RemoveAt(file, i) /\ target'[t] = file[i].id
  BY <1>1, <1>2 DEF TypeOK
<1>5. MutualExclusion'
  BY <1>2, <1>3, <1>4 DEF MutualExclusion
<1>6. FileClean' /\ NoResurrection'
  BY <1>2 DEF FileClean, UniqueIds, OldIds, NoResurrection, IdSet
<1>7. WriteFresh' /\ SaveKept' /\ RewriteEmpty'
  BY <1>3, <1>4 DEF WriteFresh, SaveKept, RewriteEmpty
<1>8. IdSet(file) = IdSet(RemoveAt(file, i)) \cup {file[i].id}
  BY RemoveAtIds DEF TypeOK
<1>9. TruncateHolds'
  <2>1. IdSet(file)' = IdSet(file) /\ IdSet(lines[t])' = IdSet(RemoveAt(file, i))
    BY <1>2, <1>4 DEF IdSet
  <2>2. \A u \in Threads : pc'[u] = "truncate" => u = t
    BY <1>3
  <2> QED
    BY <1>4, <1>8, <2>1, <2>2 DEF TruncateHolds
<1>10. LinesClean'
  <2>1. UniqueIds(RemoveAt(file, i)) /\ file[i].id \notin IdSet(RemoveAt(file, i))
    BY RemoveAtUnique DEF FileClean, TypeOK
  <2>2. \A d \in IdSet(file) : d < nextId
    BY DEF FileClean, OldIds, IdSet
  <2>3. \A d \in IdSet(RemoveAt(file, i)) : d < nextId
    BY <1>8, <2>2
  <2>4. OldIds(RemoveAt(file, i))
    BY <2>3 DEF OldIds, IdSet
  <2>5. file[i].id < nextId
    BY <1>8, <2>2
  <2>6. IdSet(RemoveAt(file, i)) \cap (deleted \cup {file[i].id}) = {}
    BY <1>8, <2>1 DEF NoResurrection
  <2>7. /\ UniqueIds(lines[t])' /\ OldIds(lines[t])' /\ target'[t] < nextId'
        /\ IdSet(lines[t])' \cap (deleted' \cup {target'[t]}) = {}
    BY <1>2, <1>4, <2>1, <2>4, <2>5, <2>6 DEF UniqueIds, OldIds, IdSet
  <2> QED
    BY <1>3, <2>7 DEF LinesClean
<1>11. NoLoss'
  <2>1. Rewriting = {} /\ Rewriting' = {}
    BY <1>2, <1>3, <1>4 DEF Rewriting, MutualExclusion, DeleteRead
  <2>2. HeldIds = {} /\ HeldIds' = {}
    BY <2>1 DEF HeldIds
  <2> QED
    BY <1>2, <2>2 DEF NoLoss, IdSet
<1> QED
  BY <1>5, <1>6, <1>7, <1>9, <1>10, <1>11

\* The records leave the file for the hands of the delete.
LEMMA InvDeleteTruncate ==
    ASSUME TypeOK, SafeInv, NEW t \in Threads, DeleteTruncate(t)
    PROVE  SafeInv'
<1> USE DEF SafeInv, Holding, DeleteTruncate
<1>1. \A u \in Threads : u # t => pc'[u] = pc[u] /\ pc[u] \notin Holding
  BY DEF MutualExclusion, TypeOK
<1>2. pc'[t] = "rewrite"
  BY DEF TypeOK
<1>3. MutualExclusion'
  BY <1>1, <1>2 DEF MutualExclusion
<1>4. FileClean'
  BY DEF FileClean, UniqueIds, OldIds
<1>5. WriteFresh' /\ SaveKept' /\ TruncateHolds' /\ RewriteEmpty'
  BY <1>1, <1>2 DEF WriteFresh, SaveKept, TruncateHolds, RewriteEmpty
<1>6. LinesClean'
  <2>1. /\ UniqueIds(lines[t]) /\ OldIds(lines[t]) /\ target[t] < nextId
        /\ IdSet(lines[t]) \cap (deleted \cup {target[t]}) = {}
    BY DEF LinesClean
  <2> QED
    BY <1>1, <2>1 DEF LinesClean, UniqueIds, OldIds, IdSet
<1>7. NoLoss'
  <2>1. Rewriting = {} /\ Rewriting' = {t}
    BY <1>1, <1>2 DEF Rewriting
  <2>2. HeldIds = {} /\ HeldIds' = IdSet(lines[t]) \cup {target[t]}
    BY <2>1 DEF HeldIds, IdSet
  <2>3. IdSet(file) \subseteq IdSet(lines[t]) \cup {target[t]}
    BY DEF TruncateHolds
  <2> QED
    BY <2>2, <2>3 DEF NoLoss
<1>8. NoResurrection'
  BY DEF NoResurrection, IdSet
<1> QED
  BY <1>3, <1>4, <1>5, <1>6, <1>7, <1>8

\* They come back, without the target.
LEMMA InvDeleteRewrite ==
    ASSUME TypeOK, SafeInv, NEW t \in Threads, DeleteRewrite(t)
    PROVE  SafeInv'
<1> USE DEF SafeInv, Holding
<1>1. /\ pc[t] = "rewrite" /\ lock = t /\ lock' = NoThread
      /\ pc' = [pc EXCEPT ![t] = "idle"]
      /\ deleted' = deleted \cup {target[t]}
      /\ UNCHANGED <<rec, nextId, acked, wiped>>
  BY DEF DeleteRewrite, MutualExclusion
<1>2. \A u \in Threads : pc'[u] \notin Holding
  BY <1>1 DEF MutualExclusion, TypeOK
<1>3. file' = lines[t]
  BY <1>1, OverwriteEmpty DEF DeleteRewrite, RewriteEmpty, TypeOK
<1>4. /\ UniqueIds(lines[t]) /\ OldIds(lines[t]) /\ target[t] < nextId
      /\ IdSet(lines[t]) \cap (deleted \cup {target[t]}) = {}
  BY <1>1 DEF LinesClean
<1>5. IdSet(file)' = IdSet(lines[t])
  BY <1>3 DEF IdSet
<1>6. MutualExclusion'
  BY <1>1, <1>2, ThreadsAssumption DEF MutualExclusion
<1>7. FileClean'
  <2>1. UniqueIds(file)' /\ OldIds(file)'
    BY <1>1, <1>3, <1>4 DEF UniqueIds, OldIds
  <2> QED
    BY <1>1, <1>4, <2>1 DEF FileClean
<1>8. WriteFresh' /\ SaveKept' /\ TruncateHolds' /\ RewriteEmpty' /\ LinesClean'
  BY <1>2 DEF WriteFresh, SaveKept, TruncateHolds, RewriteEmpty, LinesClean
<1>9. NoLoss'
  <2>1. Rewriting = {t} /\ Rewriting' = {}
    BY <1>1, <1>2 DEF Rewriting, MutualExclusion
  <2>2. HeldIds = IdSet(lines[t]) \cup {target[t]} /\ HeldIds' = {}
    BY <2>1 DEF HeldIds
  <2>3. IdSet(file) = {}
    BY <1>1, EmptyFile DEF RewriteEmpty
  <2> QED
    BY <1>1, <1>5, <2>2, <2>3 DEF NoLoss
<1>10. NoResurrection'
  BY <1>1, <1>4, <1>5 DEF NoResurrection
<1> QED
  BY <1>6, <1>7, <1>8, <1>9, <1>10

\* A delete that fails leaves the file as it was, or the part of its rewrite that
\* was flushed, and takes what it had in its hands beyond that.
LEMMA InvDeleteFails ==
    ASSUME TypeOK, SafeInv, NEW t \in Threads, DeleteFails(t)
    PROVE  SafeInv'
<1> USE DEF SafeInv, Holding
<1>1. /\ pc[t] \in {"truncate", "rewrite"} /\ lock = t /\ lock' = NoThread
      /\ pc' = [pc EXCEPT ![t] = "idle"]
      /\ wiped' = wiped \cup (HeldIds \ IdSet(file'))
      /\ UNCHANGED <<nextId, acked, deleted>>
  BY DEF DeleteFails, MutualExclusion
<1>2. \A u \in Threads : pc'[u] \notin Holding
  BY <1>1 DEF MutualExclusion, TypeOK
<1>3. MutualExclusion'
  BY <1>1, <1>2, ThreadsAssumption DEF MutualExclusion
<1>4. WriteFresh' /\ SaveKept' /\ TruncateHolds' /\ RewriteEmpty' /\ LinesClean'
  BY <1>2 DEF WriteFresh, SaveKept, TruncateHolds, RewriteEmpty, LinesClean
<1>5. HeldIds' = {}
  <2>1. Rewriting' = {}
    BY <1>2 DEF Rewriting
  <2> QED
    BY <2>1 DEF HeldIds
<1>6. CASE UNCHANGED file
  <2>1. FileClean' /\ NoResurrection'
    BY <1>1, <1>6 DEF FileClean, UniqueIds, OldIds, NoResurrection, IdSet
  <2>2. NoLoss'
    BY <1>1, <1>5, <1>6 DEF NoLoss, IdSet
  <2> QED
    BY <1>3, <1>4, <2>1, <2>2
<1>7. ASSUME pc[t] = "rewrite", NEW n \in 0..Len(lines[t]),
             file' = SubSeq(lines[t], 1, n)
      PROVE  SafeInv'
  <2>1. lines[t] \in Seq(Record)
    BY DEF TypeOK
  <2>2. /\ Len(file') = n
        /\ \A j \in 1..n : file'[j] = lines[t][j]
        /\ IdSet(file') \subseteq IdSet(lines[t])
    BY <1>7, <2>1, PrefixIds
  <2>3. /\ UniqueIds(lines[t]) /\ OldIds(lines[t])
        /\ IdSet(lines[t]) \cap deleted = {}
    BY <1>7 DEF LinesClean
  <2>4. FileClean'
    BY <1>1, <2>2, <2>3 DEF FileClean, UniqueIds, OldIds
  <2>5. NoResurrection'
    BY <1>1, <2>2, <2>3 DEF NoResurrection
  <2>6. NoLoss'
    <3>1. IdSet(file) = {}
      BY <1>7, EmptyFile DEF RewriteEmpty
    <3> QED
      BY <1>1, <1>5, <3>1 DEF NoLoss, IdSet
  <2> QED
    BY <1>3, <1>4, <2>4, <2>5, <2>6
<1> QED
  BY <1>6, <1>7 DEF DeleteFails

\* A clear takes the records of the file; what a delete holds stays held.
LEMMA InvClear ==
    ASSUME TypeOK, SafeInv, NEW t \in Threads, ClearStep(t)
    PROVE  SafeInv'
<1> USE DEF SafeInv, Holding
<1>1. /\ pc[t] \notin Holding /\ pc'[t] \notin Holding
      /\ \A u \in Threads : u # t => pc'[u] = pc[u]
      /\ UNCHANGED <<lock, rec, lines, target, nextId, acked, deleted>>
  BY DEF ClearStep, ClearTruncate, ClearReset, TypeOK
<1>2. \/ file' = <<>> /\ wiped' = wiped \cup IdSet(file)
      \/ UNCHANGED <<file, wiped>>
  BY DEF ClearStep, ClearTruncate, ClearReset
<1>3. IdSet(file)' \subseteq IdSet(file) /\ IdSet(file) \cup wiped \subseteq IdSet(file)' \cup wiped'
  BY <1>2, EmptyFile DEF IdSet
<1>4. MutualExclusion'
  BY <1>1 DEF MutualExclusion
<1>5. FileClean'
  BY <1>1, <1>2 DEF FileClean, UniqueIds, OldIds
<1>6. WriteFresh' /\ SaveKept'
  BY <1>1, <1>3 DEF WriteFresh, SaveKept
<1>7. TruncateHolds' /\ RewriteEmpty'
  BY <1>1, <1>2, <1>3 DEF TruncateHolds, RewriteEmpty, IdSet
<1>8. LinesClean'
  BY <1>1 DEF LinesClean, UniqueIds, OldIds, IdSet
<1>9. NoLoss'
  <2>1. Rewriting' = Rewriting
    BY <1>1 DEF Rewriting
  <2>2. HeldIds' = HeldIds
    BY <1>1, <2>1 DEF HeldIds, IdSet
  <2> QED
    BY <1>1, <1>3, <2>2 DEF NoLoss
<1>10. NoResurrection'
  BY <1>1, <1>3 DEF NoResurrection
<1> QED
  BY <1>4, <1>5, <1>6, <1>7, <1>8, <1>9, <1>10

\* A crash leaves the file, or the part of a rewrite that was flushed, and
\* takes what a delete had in its hands beyond that.
LEMMA InvCrash ==
    ASSUME TypeOK, SafeInv, Crash
    PROVE  SafeInv'
<1> USE DEF SafeInv, Holding
<1>1. /\ \A u \in Threads : pc'[u] = "idle"
      /\ lock' = NoThread
      /\ wiped' = wiped \cup (HeldIds \ IdSet(file'))
      /\ UNCHANGED <<nextId, acked, deleted>>
  BY DEF Crash
<1>2. MutualExclusion'
  BY <1>1, ThreadsAssumption DEF MutualExclusion
<1>3. WriteFresh' /\ SaveKept' /\ TruncateHolds' /\ RewriteEmpty' /\ LinesClean'
  BY <1>1 DEF WriteFresh, SaveKept, TruncateHolds, RewriteEmpty, LinesClean
<1>4. HeldIds' = {}
  <2>1. Rewriting' = {}
    BY <1>1 DEF Rewriting
  <2> QED
    BY <2>1 DEF HeldIds
<1>5. CASE UNCHANGED file
  <2>1. FileClean' /\ NoResurrection'
    BY <1>1, <1>5 DEF FileClean, UniqueIds, OldIds, NoResurrection, IdSet
  <2>2. NoLoss'
    BY <1>1, <1>4, <1>5 DEF NoLoss, IdSet
  <2> QED
    BY <1>2, <1>3, <2>1, <2>2
<1>6. ASSUME NEW t \in Rewriting, NEW n \in 0..Len(lines[t]),
             file' = SubSeq(lines[t], 1, n)
      PROVE  SafeInv'
  <2>1. t \in Threads /\ pc[t] = "rewrite" /\ lines[t] \in Seq(Record)
    BY DEF Rewriting, TypeOK
  <2>2. /\ Len(file') = n
        /\ \A j \in 1..n : file'[j] = lines[t][j]
        /\ IdSet(file') \subseteq IdSet(lines[t])
    BY <1>6, <2>1, PrefixIds
  <2>3. /\ UniqueIds(lines[t]) /\ OldIds(lines[t])
        /\ IdSet(lines[t]) \cap deleted = {}
    BY <2>1 DEF LinesClean
  <2>4. FileClean'
    BY <1>1, <2>2, <2>3 DEF FileClean, UniqueIds, OldIds
  <2>5. NoResurrection'
    BY <1>1, <2>2, <2>3 DEF NoResurrection
  <2>6. NoLoss'
    <3>1. IdSet(file) = {}
      BY <2>1, EmptyFile DEF RewriteEmpty
    <3> QED
      BY <1>1, <1>4, <3>1 DEF NoLoss, IdSet
  <2> QED
    BY <1>2, <1>3, <2>4, <2>5, <2>6
<1>7. \/ UNCHANGED file
      \/ \E t \in Rewriting, n \in 0..MaxRecords :
            n <= Len(lines[t]) /\ file' = SubSeq(lines[t], 1, n)
  BY DEF Crash
<1>8. ASSUME NEW t \in Rewriting, NEW n \in 0..MaxRecords,
             n <= Len(lines[t]), file' = SubSeq(lines[t], 1, n)
      PROVE  SafeInv'
  <2>1. n \in 0..Len(lines[t])
    BY <1>8, BoundsAssumption DEF Rewriting, TypeOK
  <2> QED
    BY <1>6, <1>8, <2>1
<1> QED
  BY <1>5, <1>7, <1>8

\* Saving the state, a clock step and a restart touch nothing of the log.
LEMMA InvOther ==
    ASSUME TypeOK, SafeInv, SaveState \/ SetClock \/ Restart \/ UNCHANGED vars
    PROVE  SafeInv'
<1>1. UNCHANGED <<file, lock, pc, rec, lines, target, nextId, acked, deleted, wiped>>
  BY DEF SaveState, SetClock, Restart, vars
<1>2. HeldIds' = HeldIds
  BY <1>1 DEF HeldIds, Rewriting, IdSet
<1>3. MutualExclusion' /\ FileClean'
  BY <1>1 DEF SafeInv, MutualExclusion, FileClean, UniqueIds, OldIds
<1>4. WriteFresh' /\ SaveKept' /\ TruncateHolds' /\ RewriteEmpty'
  <2>1. WriteFresh' /\ SaveKept'
    BY <1>1 DEF SafeInv, WriteFresh, SaveKept, IdSet
  <2>2. TruncateHolds'
    BY <1>1 DEF SafeInv, TruncateHolds, IdSet
  <2>3. RewriteEmpty'
    BY <1>1 DEF SafeInv, RewriteEmpty
  <2> QED
    BY <2>1, <2>2, <2>3
<1>5. LinesClean'
  BY <1>1 DEF SafeInv, LinesClean, UniqueIds, OldIds, IdSet
<1>6. NoLoss' /\ NoResurrection'
  BY <1>1, <1>2 DEF SafeInv, NoLoss, NoResurrection, IdSet
<1> QED
  BY <1>3, <1>4, <1>5, <1>6 DEF SafeInv

\* The invariant holds at the start and is kept by every step of the server,
\* by clears and by faults, for any number of threads and records.
LEMMA LogInvInit == Init => LogInv
<1> SUFFICES ASSUME Init PROVE LogInv
  OBVIOUS
<1>1. TypeOK
  BY EmptyFile, BoundsAssumption DEF Init, TypeOK, Steps
<1>2. MutualExclusion
  BY ThreadsAssumption DEF Init, MutualExclusion, Holding
<1>3. FileClean /\ WriteFresh /\ SaveKept /\ TruncateHolds /\ RewriteEmpty /\ LinesClean
  BY DEF Init, FileClean, UniqueIds, OldIds, WriteFresh, SaveKept, TruncateHolds,
     RewriteEmpty, LinesClean
<1>4. NoLoss /\ NoResurrection
  BY DEF Init, NoLoss, NoResurrection
<1> QED
  BY <1>1, <1>2, <1>3, <1>4 DEF LogInv

LEMMA LogInvStep == LogInv /\ [Next]_vars => LogInv'
<1> SUFFICES ASSUME LogInv, [Next]_vars
             PROVE  LogInv'
  OBVIOUS
<1>1. TypeOK /\ SafeInv
  BY DEF LogInv, SafeInv
<1>2. TypeOK'
  BY <1>1, TypeStep DEF SafeInv
<1>3. ASSUME NEW t \in Threads, AppendStep(t) \/ AppendFails(t)
      PROVE  SafeInv'
  BY <1>1, <1>3, InvStartAppend, InvAppendWrite, InvAppendEnd DEF AppendStep
<1>4. ASSUME NEW t \in Threads, DeleteStep(t)
      PROVE  SafeInv'
  BY <1>1, <1>4, InvDeleteRead, InvDeleteTruncate, InvDeleteRewrite DEF DeleteStep
<1>5. ASSUME NEW t \in Threads, ClearStep(t)
      PROVE  SafeInv'
  BY <1>1, <1>5, InvClear
<1>6. ASSUME Crash
      PROVE  SafeInv'
  BY <1>1, <1>6, InvCrash
<1>7. ASSUME SaveState \/ SetClock \/ Restart \/ UNCHANGED vars
      PROVE  SafeInv'
  BY <1>1, <1>7, InvOther
<1>8. ASSUME NEW t \in Threads, DeleteFails(t)
      PROVE  SafeInv'
  BY <1>1, <1>8, InvDeleteFails
<1>9. SafeInv'
  BY <1>3, <1>4, <1>5, <1>6, <1>7, <1>8 DEF Next, ServerNext
<1> QED
  BY <1>2, <1>9 DEF LogInv, SafeInv

\* LogInv is an invariant of the store with everything that can happen to it.
THEOREM LogInvariant == Spec => []LogInv
<1> QED
  BY LogInvInit, LogInvStep, PTL DEF Spec

\* Type correctness.
THEOREM Typing == Spec => []TypeOK
<1>1. LogInv => TypeOK
  BY DEF LogInv
<1> QED
  BY <1>1, LogInvariant, PTL

\* No acknowledged message is dropped, for any number of threads and messages.
THEOREM Durability == Spec => []NoLoss
<1>1. LogInv => NoLoss
  BY DEF LogInv
<1> QED
  BY <1>1, LogInvariant, PTL

\* No deleted message comes back, for any number of threads and messages.
THEOREM Deletion == Spec => []NoResurrection
<1>1. LogInv => NoResurrection
  BY DEF LogInv
<1> QED
  BY <1>1, LogInvariant, PTL


-----------------------------------------------------------------------------
(* Order of rows.                                                          *)

\* A record later than all others goes to the end of an ordered file.
LEMMA OrderedAppend ==
    ASSUME NEW s \in Seq(Record), NEW r \in Record, NEW n \in Nat,
           Ordered(s), UpTo(s, n), n < r.ts
    PROVE  Ordered(Append(s, r)) /\ UpTo(Append(s, r), r.ts)
<1>1. /\ Len(Append(s, r)) = Len(s) + 1 /\ Len(s) \in Nat
      /\ \A i \in 1..Len(s) : Append(s, r)[i] = s[i]
      /\ Append(s, r)[Len(s) + 1] = r
  OBVIOUS
<1>2. r.ts \in Nat /\ \A i \in 1..Len(s) : s[i].ts \in Nat
  <2>1. \A i \in 1..Len(s) : s[i] \in Record
    OBVIOUS
  <2> QED
    BY <2>1 DEF Record
<1>3. \A i \in 1..Len(s) : s[i].ts < r.ts
  BY <1>2 DEF UpTo
<1> QED
  BY <1>1, <1>2, <1>3 DEF Ordered, UpTo

\* Taking out a record leaves the others in order.
LEMMA OrderedRemoveAt ==
    ASSUME NEW s \in Seq(Record), NEW i \in 1..Len(s), NEW n \in Nat,
           Ordered(s), UpTo(s, n)
    PROVE  Ordered(RemoveAt(s, i)) /\ UpTo(RemoveAt(s, i), n)
<1> DEFINE d == RemoveAt(s, i)
           At(j) == IF j < i THEN j ELSE j + 1
<1>1. /\ Len(d) = Len(s) - 1
      /\ \A j \in 1..Len(s) - 1 : d[j] = s[At(j)] /\ At(j) \in 1..Len(s)
  BY RemoveAtElements
<1>2. \A j, k \in 1..Len(s) - 1 : j < k => At(j) < At(k)
  OBVIOUS
<1> HIDE DEF d, At
<1>3. Ordered(d) /\ UpTo(d, n)
  BY <1>1, <1>2 DEF Ordered, UpTo
<1> QED
  BY <1>3 DEF d

\* The next timestamp is later than the last, wherever the clock stands.
LEMMA NextTsGrows == TypeOK => NextTs \in Nat /\ lastTs < NextTs
  BY DEF TypeOK, NextTs

-----------------------------------------------------------------------------
(* The invariant of the store without clears and faults.                   *)

\* ServerInv without LogInv, which LogInvStep takes care of.
TsInv == TsCopies /\ TsFresh /\ FileInOrder /\ LinesInOrder

\* The lock holder is alone in its critical section.
LEMMA HolderAlone ==
    ASSUME TypeOK, MutualExclusion, NEW t \in Threads, pc[t] \in Holding
    PROVE  /\ lock = t
           /\ \A u \in Threads : u # t => pc[u] \notin Holding
           /\ Writing <=> pc[t] = "write"
           /\ Saving <=> pc[t] = "save"
           /\ pc[t] # "rewrite" => Rewriting = {}
           /\ pc[t] = "rewrite" => Rewriting = {t}
  BY DEF MutualExclusion, Holding, Writing, Saving, Rewriting

\* Nobody is in a critical section while the lock is free.
LEMMA NobodyHolds ==
    ASSUME TypeOK, MutualExclusion, lock = NoThread
    PROVE  /\ \A u \in Threads : pc[u] \notin Holding
           /\ ~Writing /\ ~Saving /\ Rewriting = {}
  BY ThreadsAssumption DEF MutualExclusion, Holding, Writing, Saving, Rewriting

\* The timestamp is drawn: the copies part, the files stay.
LEMMA TsStartAppend ==
    ASSUME LogInv, TsInv, NEW t \in Threads, StartAppend(t)
    PROVE  TsInv'
<1> USE DEF TsInv
<1>1. TypeOK /\ MutualExclusion
  BY DEF LogInv
<1>2. /\ lock = NoThread /\ lastTs' = NextTs /\ memTs' = NextTs
      /\ UNCHANGED <<file, diskTs, lines>>
      /\ pc' = [pc EXCEPT ![t] = "write"]
      /\ rec' = [rec EXCEPT ![t] = [id |-> nextId, ts |-> NextTs]]
  BY DEF StartAppend
<1>3. /\ \A u \in Threads : pc[u] \notin Holding
      /\ ~Writing /\ ~Saving
  BY <1>1, <1>2, NobodyHolds
<1>4. diskTs = lastTs /\ NextTs \in Nat /\ lastTs < NextTs
  BY <1>1, <1>3, NextTsGrows DEF TsCopies
<1>5. /\ pc'[t] = "write" /\ rec'[t].ts = NextTs
      /\ \A u \in Threads : u # t => pc'[u] = pc[u]
  BY <1>1, <1>2 DEF TypeOK
<1>6. Writing'
  BY <1>5 DEF Writing
<1>7. TsCopies'
  BY <1>2, <1>5, <1>6 DEF TsCopies
<1>8. TsFresh'
  BY <1>2, <1>3, <1>4, <1>5 DEF TsFresh, Holding
<1>9. FileInOrder'
  BY <1>2, <1>3, <1>4, <1>6 DEF FileInOrder, HighTs, Ordered, UpTo
<1>10. LinesInOrder'
  BY <1>3, <1>5 DEF LinesInOrder, Holding
<1> QED
  BY <1>7, <1>8, <1>9, <1>10

\* The line goes to the end of the file, later than all before it.
LEMMA TsAppendWrite ==
    ASSUME LogInv, TsInv, NEW t \in Threads, AppendWrite(t)
    PROVE  TsInv' /\ HighTs' = rec[t].ts /\ HighTs < rec[t].ts
<1> USE DEF TsInv
<1>1. TypeOK /\ MutualExclusion /\ rec[t] \in Record
  BY DEF LogInv, WriteFresh, AppendWrite
<1>2. /\ pc[t] = "write" /\ file' = Append(file, rec[t])
      /\ pc' = [pc EXCEPT ![t] = "save"]
      /\ UNCHANGED <<lastTs, memTs, diskTs, lines, rec>>
  BY DEF AppendWrite
<1>3. Writing /\ \A u \in Threads : u # t => pc[u] \notin Holding
  BY <1>1, <1>2, HolderAlone DEF Holding
<1>4. pc'[t] = "save" /\ \A u \in Threads : u # t => pc'[u] = pc[u]
  BY <1>1, <1>2 DEF TypeOK
<1>5. ~Writing' /\ Saving'
  BY <1>3, <1>4 DEF Writing, Saving, Holding
<1>6. rec[t].ts = lastTs /\ diskTs < lastTs
  BY <1>2 DEF TsFresh
<1>7. HighTs = diskTs /\ HighTs' = lastTs
  BY <1>2, <1>3, <1>5 DEF HighTs
<1>8. Ordered(Append(file, rec[t])) /\ UpTo(Append(file, rec[t]), rec[t].ts)
  <2>1. file \in Seq(Record) /\ diskTs \in Nat /\ Ordered(file) /\ UpTo(file, diskTs)
    BY <1>1, <1>7 DEF TypeOK, FileInOrder
  <2> QED
    BY <1>1, <1>6, <2>1, OrderedAppend
<1>9. FileInOrder'
  BY <1>2, <1>6, <1>7, <1>8 DEF FileInOrder, Ordered, UpTo
<1>10. TsCopies' /\ TsFresh' /\ LinesInOrder'
  BY <1>2, <1>3, <1>4, <1>5 DEF TsCopies, TsFresh, LinesInOrder, Holding
<1> QED
  BY <1>6, <1>7, <1>9, <1>10

\* The save brings the disk up to date.
LEMMA TsAppendSave ==
    ASSUME LogInv, TsInv, NEW t \in Threads, AppendSave(t)
    PROVE  TsInv' /\ HighTs' = HighTs
<1> USE DEF TsInv
<1>1. TypeOK /\ MutualExclusion
  BY DEF LogInv
<1>2. /\ pc[t] = "save" /\ diskTs' = memTs
      /\ pc' = [pc EXCEPT ![t] = "idle"]
      /\ UNCHANGED <<file, lastTs, memTs, lines>>
  BY DEF AppendSave
<1>3. ~Writing /\ \A u \in Threads : u # t => pc[u] \notin Holding
  BY <1>1, <1>2, HolderAlone DEF Holding
<1>4. \A u \in Threads : pc'[u] \notin Holding /\ (pc'[u] = "idle" \/ pc'[u] = pc[u])
  BY <1>1, <1>2, <1>3 DEF TypeOK, Holding
<1>5. ~Writing' /\ ~Saving'
  BY <1>4 DEF Writing, Saving, Holding
<1>6. HighTs' = HighTs
  BY <1>2, <1>3, <1>5 DEF HighTs
<1>7. TsCopies'
  BY <1>2, <1>4 DEF TsCopies
<1>8. FileInOrder'
  BY <1>2, <1>6 DEF FileInOrder, Ordered, UpTo
<1>9. TsFresh' /\ LinesInOrder'
  BY <1>4 DEF TsFresh, LinesInOrder, Holding
<1> QED
  BY <1>6, <1>7, <1>8, <1>9

\* A delete reads and truncates; its lines are the file less one record.
LEMMA TsDeleteRead ==
    ASSUME LogInv, TsInv, NEW t \in Threads, DeleteRead(t)
    PROVE  TsInv' /\ HighTs' = HighTs
<1> USE DEF TsInv
<1>1. TypeOK /\ MutualExclusion
  BY DEF LogInv
<1>2. /\ lock = NoThread /\ pc' = [pc EXCEPT ![t] = "truncate"]
      /\ UNCHANGED <<file, lastTs, memTs, diskTs, rec>>
  BY DEF DeleteRead
<1>3. PICK i \in 1..Len(file) : lines' = [lines EXCEPT ![t] = RemoveAt(file, i)]
  BY DEF DeleteRead
<1>4. /\ \A u \in Threads : pc[u] \notin Holding
      /\ ~Writing /\ ~Saving
  BY <1>1, <1>2, NobodyHolds
<1>5. /\ pc'[t] = "truncate" /\ lines'[t] = RemoveAt(file, i)
      /\ \A u \in Threads : u # t => pc'[u] = pc[u]
  BY <1>1, <1>2, <1>3 DEF TypeOK
<1>6. ~Writing' /\ ~Saving'
  BY <1>4, <1>5 DEF Writing, Saving, Holding
<1>7. HighTs' = HighTs
  BY <1>2, <1>4, <1>6 DEF HighTs
<1>8. TsCopies' /\ TsFresh'
  BY <1>2, <1>4, <1>5 DEF TsCopies, TsFresh, Holding
<1>9. FileInOrder'
  BY <1>2, <1>7 DEF FileInOrder, Ordered, UpTo
<1>10. LinesInOrder'
  BY <1>2, <1>4, <1>5 DEF LinesInOrder, Holding
<1> QED
  BY <1>7, <1>8, <1>9, <1>10

\* The file is empty, and the delete holds a log in order.
LEMMA TsDeleteTruncate ==
    ASSUME LogInv, TsInv, NEW t \in Threads, DeleteTruncate(t)
    PROVE  TsInv' /\ HighTs' = HighTs
<1> USE DEF TsInv
<1>1. TypeOK /\ MutualExclusion
  BY DEF LogInv
<1>2. /\ pc[t] = "truncate" /\ file' = <<>>
      /\ pc' = [pc EXCEPT ![t] = "rewrite"]
      /\ UNCHANGED <<lastTs, memTs, diskTs, lines, rec>>
  BY DEF DeleteTruncate
<1>3. /\ ~Writing /\ ~Saving
      /\ \A u \in Threads : u # t => pc[u] \notin Holding
  BY <1>1, <1>2, HolderAlone DEF Holding
<1>4. pc'[t] = "rewrite" /\ \A u \in Threads : u # t => pc'[u] = pc[u]
  BY <1>1, <1>2 DEF TypeOK
<1>5. ~Writing' /\ ~Saving'
  BY <1>3, <1>4 DEF Writing, Saving, Holding
<1>6. HighTs' = HighTs
  BY <1>2, <1>3, <1>5 DEF HighTs
<1>7. TsCopies' /\ TsFresh'
  BY <1>2, <1>3, <1>4 DEF TsCopies, TsFresh, Holding
<1>8. FileInOrder'
  BY <1>2 DEF FileInOrder, Ordered, UpTo
<1>9. LinesInOrder'
  <2>1. PICK i \in 1..Len(file) : lines[t] = RemoveAt(file, i)
    BY <1>2 DEF LinesInOrder
  <2>2. file \in Seq(Record) /\ HighTs \in Nat
    BY <1>1 DEF TypeOK, HighTs
  <2>3. Ordered(lines[t]) /\ UpTo(lines[t], HighTs)
    BY <2>1, <2>2, OrderedRemoveAt DEF FileInOrder
  <2>4. Ordered(lines[t])' /\ UpTo(lines[t], HighTs)'
    BY <1>2, <1>6, <2>3 DEF Ordered, UpTo
  <2> QED
    BY <1>3, <1>4, <2>4 DEF LinesInOrder, Holding
<1> QED
  BY <1>6, <1>7, <1>8, <1>9

\* The log in order is the file again.
LEMMA TsDeleteRewrite ==
    ASSUME LogInv, TsInv, NEW t \in Threads, DeleteRewrite(t)
    PROVE  TsInv' /\ HighTs' = HighTs /\ file' = lines[t]
<1> USE DEF TsInv
<1>1. TypeOK /\ MutualExclusion /\ RewriteEmpty
  BY DEF LogInv
<1>2. /\ pc[t] = "rewrite" /\ file' = Overwrite(lines[t], file)
      /\ pc' = [pc EXCEPT ![t] = "idle"]
      /\ UNCHANGED <<lastTs, memTs, diskTs>>
  BY DEF DeleteRewrite
<1>3. /\ ~Writing /\ ~Saving
      /\ \A u \in Threads : u # t => pc[u] \notin Holding
  BY <1>1, <1>2, HolderAlone DEF Holding
<1>4. \A u \in Threads : pc'[u] \notin Holding /\ (pc'[u] = "idle" \/ pc'[u] = pc[u])
  BY <1>1, <1>2, <1>3 DEF TypeOK, Holding
<1>5. ~Writing' /\ ~Saving'
  BY <1>4 DEF Writing, Saving, Holding
<1>6. HighTs' = HighTs
  BY <1>2, <1>3, <1>5 DEF HighTs
<1>7. file' = lines[t]
  BY <1>1, <1>2, OverwriteEmpty DEF RewriteEmpty, TypeOK
<1>8. FileInOrder'
  BY <1>2, <1>6, <1>7 DEF FileInOrder, LinesInOrder, Ordered, UpTo
<1>9. TsCopies' /\ TsFresh' /\ LinesInOrder'
  BY <1>2, <1>3, <1>4 DEF TsCopies, TsFresh, LinesInOrder, Holding
<1> QED
  BY <1>6, <1>7, <1>8, <1>9

\* Outside the critical sections the copies of the timestamp agree, so saving
\* the state and restarting change nothing; the clock is not among them.
LEMMA TsOther ==
    ASSUME LogInv, TsInv, SaveState \/ SetClock \/ Restart \/ UNCHANGED vars
    PROVE  TsInv' /\ UNCHANGED <<file, lines, pc, lastTs, diskTs>>
<1> USE DEF TsInv
<1>1. TypeOK /\ MutualExclusion
  BY DEF LogInv
<1>2. UNCHANGED <<file, lines, pc, rec>>
  BY DEF SaveState, SetClock, Restart, vars
<1>3. UNCHANGED <<lastTs, memTs, diskTs>>
  <2>1. CASE SaveState
    BY <1>1, <2>1, NobodyHolds DEF SaveState, TsCopies
  <2>2. CASE Restart
    <3>1. ~Writing /\ ~Saving
      BY <2>2 DEF Restart, Writing, Saving
    <3> QED
      BY <2>2, <3>1 DEF Restart, TsCopies
  <2>3. CASE SetClock \/ UNCHANGED vars
    BY <2>3 DEF SetClock, vars
  <2> QED
    BY <2>1, <2>2, <2>3
<1>4. (Writing' <=> Writing) /\ (Saving' <=> Saving)
  BY <1>2 DEF Writing, Saving
<1>5. HighTs' = HighTs
  BY <1>3, <1>4 DEF HighTs
<1>6. TsCopies' /\ TsFresh'
  BY <1>2, <1>3, <1>4 DEF TsCopies, TsFresh
<1>7. FileInOrder' /\ LinesInOrder'
  BY <1>2, <1>5 DEF FileInOrder, LinesInOrder, Ordered, UpTo
<1> QED
  BY <1>2, <1>3, <1>6, <1>7

\* The store starts in order.
LEMMA ServerInvInit == Init => ServerInv
<1> SUFFICES ASSUME Init PROVE ServerInv
  OBVIOUS
<1>1. LogInv
  BY LogInvInit
<1>2. TsCopies /\ TsFresh /\ FileInOrder /\ LinesInOrder
  BY DEF Init, TsCopies, TsFresh, FileInOrder, LinesInOrder, Ordered, UpTo
<1> QED
  BY <1>1, <1>2 DEF ServerInv

\* Every step of the store keeps it in order.
LEMMA ServerInvStep == ServerInv /\ [ServerNext]_vars => ServerInv'
<1> SUFFICES ASSUME ServerInv, [ServerNext]_vars
             PROVE  ServerInv'
  OBVIOUS
<1>1. LogInv /\ TsInv
  BY DEF ServerInv, TsInv
<1>2. LogInv'
  BY <1>1, LogInvStep DEF Next
<1>3. ASSUME NEW t \in Threads, AppendStep(t)
      PROVE  TsInv'
  BY <1>1, <1>3, TsStartAppend, TsAppendWrite, TsAppendSave DEF AppendStep
<1>4. ASSUME NEW t \in Threads, DeleteStep(t)
      PROVE  TsInv'
  BY <1>1, <1>4, TsDeleteRead, TsDeleteTruncate, TsDeleteRewrite DEF DeleteStep
<1>5. ASSUME SaveState \/ SetClock \/ Restart \/ UNCHANGED vars
      PROVE  TsInv'
  BY <1>1, <1>5, TsOther
<1>6. TsInv'
  BY <1>3, <1>4, <1>5 DEF ServerNext
<1> QED
  BY <1>2, <1>6 DEF ServerInv, TsInv

\* ServerInv is an invariant of the store without clears and faults.
THEOREM ServerInvariant == ServerSpec => []ServerInv
<1> QED
  BY ServerInvInit, ServerInvStep, PTL DEF ServerSpec

\* The file is in timestamp order, for any number of threads and messages and
\* whatever the clock does.
THEOREM Order == ServerSpec => []TsOrdered
<1>1. ServerInv => TsOrdered
  BY DEF ServerInv, FileInOrder, TsOrdered
<1> QED
  BY <1>1, ServerInvariant, PTL

-----------------------------------------------------------------------------
(* Refinement.                                                             *)

\* What readers may count on is the file, or the lines of the one delete that
\* has truncated it.
LEMMA ReaderLogCases ==
    /\ Rewriting = {} => ReaderLog = file
    /\ \A t \in Threads : Rewriting = {t} => ReaderLog = lines[t]
  BY DEF ReaderLog

\* The store starts as the abstract log does.
LEMMA RefineInit == Init => Abstract!Init
<1> SUFFICES ASSUME Init PROVE Abstract!Init
  OBVIOUS
<1>1. Rewriting = {} /\ ~Writing
  BY DEF Init, Rewriting, Writing
<1> QED
  BY <1>1, ReaderLogCases DEF Init, Abstract!Init, HighTs

\* Writing the line is the abstract post.
LEMMA RefineAppendWrite ==
    ASSUME LogInv, TsInv, NEW t \in Threads, AppendWrite(t)
    PROVE  Abstract!Post
<1>1. /\ TypeOK /\ MutualExclusion
      /\ rec[t] \in Record /\ rec[t].id \notin IdSet(file)
  BY DEF LogInv, WriteFresh, AppendWrite
<1>2. /\ pc[t] = "write" /\ file' = Append(file, rec[t])
      /\ pc' = [pc EXCEPT ![t] = "save"]
  BY DEF AppendWrite
<1>3. Rewriting = {} /\ \A u \in Threads : u # t => pc[u] \notin Holding
  BY <1>1, <1>2, HolderAlone DEF Holding
<1>4. Rewriting' = {}
  BY <1>1, <1>2, <1>3 DEF Rewriting, Holding, TypeOK
<1>5. ReaderLog = file
  BY <1>3 DEF ReaderLog
<1>6. ReaderLog' = Append(file, rec[t])
  BY <1>2, <1>4 DEF ReaderLog
<1>7. /\ Len(Append(file, rec[t])) = Len(file) + 1
      /\ Append(file, rec[t])[Len(Append(file, rec[t]))] = rec[t]
  BY <1>1 DEF TypeOK
<1>8. HighTs' = rec[t].ts /\ HighTs < rec[t].ts
  BY TsAppendWrite
<1>9. \A i \in 1..Len(file) : file[i].id # rec[t].id
  BY <1>1 DEF IdSet
<1>10. rec[t] \in Abstract!Record /\ rec[t].ts > HighTs
  BY <1>1, <1>8 DEF Record, Abstract!Record, HighTs, TypeOK
<1> QED
  BY <1>5, <1>6, <1>7, <1>8, <1>9, <1>10 DEF Abstract!Post

\* Truncating the file is the abstract removal.
LEMMA RefineDeleteTruncate ==
    ASSUME LogInv, TsInv, NEW t \in Threads, DeleteTruncate(t)
    PROVE  Abstract!TakeOut
<1>1. TypeOK /\ MutualExclusion
  BY DEF LogInv
<1>2. /\ pc[t] = "truncate" /\ pc' = [pc EXCEPT ![t] = "rewrite"]
      /\ UNCHANGED lines
  BY DEF DeleteTruncate
<1>3. Rewriting = {} /\ \A u \in Threads : u # t => pc[u] \notin Holding
  BY <1>1, <1>2, HolderAlone DEF Holding
<1>4. Rewriting' = {t}
  BY <1>1, <1>2, <1>3 DEF Rewriting, Holding, TypeOK
<1>5. ReaderLog = file
  BY <1>3 DEF ReaderLog
<1>6. ReaderLog' = lines[t]
  BY <1>2, <1>4 DEF ReaderLog
<1>7. \E i \in 1..Len(file) : lines[t] = RemoveAt(file, i)
  BY <1>2 DEF TsInv, LinesInOrder
<1>8. HighTs' = HighTs
  BY TsDeleteTruncate
<1> QED
  BY <1>5, <1>6, <1>7, <1>8 DEF Abstract!TakeOut, Abstract!RemoveAt, RemoveAt

\* Every other step of the store is none of the abstract log.
LEMMA RefineStutter ==
    ASSUME LogInv, TsInv,
           \/ \E t \in Threads : \/ StartAppend(t) \/ AppendSave(t)
                                 \/ DeleteRead(t) \/ DeleteRewrite(t)
           \/ SaveState \/ SetClock \/ Restart \/ UNCHANGED vars
    PROVE  ReaderLog' = ReaderLog /\ HighTs' = HighTs
<1>1. TypeOK /\ MutualExclusion
  BY DEF LogInv
<1>2. ASSUME NEW t \in Threads, StartAppend(t)
      PROVE  ReaderLog' = ReaderLog /\ HighTs' = HighTs
  <2>1. /\ lock = NoThread /\ pc' = [pc EXCEPT ![t] = "write"]
        /\ UNCHANGED <<file, diskTs>>
    BY <1>2 DEF StartAppend
  <2>2. /\ \A u \in Threads : pc[u] \notin Holding
        /\ ~Writing /\ ~Saving /\ Rewriting = {}
    BY <1>1, <2>1, NobodyHolds
  <2>3. Writing' /\ Rewriting' = {}
    BY <1>1, <2>1, <2>2 DEF Writing, Rewriting, TypeOK, Holding
  <2>4. diskTs = lastTs
    BY <2>2 DEF TsInv, TsCopies
  <2> QED
    BY <2>1, <2>2, <2>3, <2>4 DEF ReaderLog, HighTs
<1>3. ASSUME NEW t \in Threads, AppendSave(t)
      PROVE  ReaderLog' = ReaderLog /\ HighTs' = HighTs
  <2>1. pc[t] = "save" /\ pc' = [pc EXCEPT ![t] = "idle"] /\ UNCHANGED file
    BY <1>3 DEF AppendSave
  <2>2. Rewriting = {}
    BY <1>1, <2>1, HolderAlone DEF Holding
  <2>3. Rewriting' = {}
    BY <1>1, <2>1, <2>2 DEF Rewriting, TypeOK
  <2>4. HighTs' = HighTs
    BY <1>3, TsAppendSave
  <2> QED
    BY <2>1, <2>2, <2>3, <2>4 DEF ReaderLog
<1>4. ASSUME NEW t \in Threads, DeleteRead(t)
      PROVE  ReaderLog' = ReaderLog /\ HighTs' = HighTs
  <2>1. lock = NoThread /\ pc' = [pc EXCEPT ![t] = "truncate"] /\ UNCHANGED file
    BY <1>4 DEF DeleteRead
  <2>2. Rewriting = {}
    BY <1>1, <2>1, NobodyHolds
  <2>3. Rewriting' = {}
    BY <1>1, <2>1, <2>2 DEF Rewriting, TypeOK
  <2>4. HighTs' = HighTs
    BY <1>4, TsDeleteRead
  <2> QED
    BY <2>1, <2>2, <2>3, <2>4 DEF ReaderLog
<1>5. ASSUME NEW t \in Threads, DeleteRewrite(t)
      PROVE  ReaderLog' = ReaderLog /\ HighTs' = HighTs
  <2>1. pc[t] = "rewrite" /\ pc' = [pc EXCEPT ![t] = "idle"]
    BY <1>5 DEF DeleteRewrite
  <2>2. Rewriting = {t}
    BY <1>1, <2>1, HolderAlone DEF Holding
  <2>3. Rewriting' = {}
    BY <1>1, <2>1, <2>2 DEF Rewriting, TypeOK
  <2>4. HighTs' = HighTs /\ file' = lines[t]
    BY <1>5, TsDeleteRewrite
  <2> QED
    BY <2>2, <2>3, <2>4 DEF ReaderLog
<1>6. ASSUME SaveState \/ SetClock \/ Restart \/ UNCHANGED vars
      PROVE  ReaderLog' = ReaderLog /\ HighTs' = HighTs
  <2>1. UNCHANGED <<file, lines, pc, lastTs, diskTs>>
    BY <1>6, TsOther
  <2> QED
    BY <2>1 DEF ReaderLog, Rewriting, HighTs, Writing
<1> QED
  BY <1>2, <1>3, <1>4, <1>5, <1>6

\* Every step of the store is a post, a removal or nothing to its readers.
LEMMA RefineStep ==
    ServerInv /\ [ServerNext]_vars => [Abstract!Next]_<<ReaderLog, HighTs>>
<1> SUFFICES ASSUME ServerInv, [ServerNext]_vars
             PROVE  [Abstract!Next]_<<ReaderLog, HighTs>>
  OBVIOUS
<1>1. LogInv /\ TsInv
  BY DEF ServerInv, TsInv
<1>2. ASSUME NEW t \in Threads, AppendWrite(t)
      PROVE  Abstract!Next
  BY <1>1, <1>2, RefineAppendWrite DEF Abstract!Next
<1>3. ASSUME NEW t \in Threads, DeleteTruncate(t)
      PROVE  Abstract!Next
  BY <1>1, <1>3, RefineDeleteTruncate DEF Abstract!Next
<1>4. ASSUME \/ \E t \in Threads : \/ StartAppend(t) \/ AppendSave(t)
                                   \/ DeleteRead(t) \/ DeleteRewrite(t)
             \/ SaveState \/ SetClock \/ Restart \/ UNCHANGED vars
      PROVE  UNCHANGED <<ReaderLog, HighTs>>
  BY <1>1, <1>4, RefineStutter
<1> QED
  BY <1>2, <1>3, <1>4 DEF ServerNext, AppendStep, DeleteStep

\* The store implements the abstract log.
THEOREM Implementation == ServerSpec => ImplementsAbstractLog
<1> QED
  BY RefineInit, RefineStep, ServerInvariant, PTL
     DEF ServerSpec, ImplementsAbstractLog, Abstract!Spec
=============================================================================
