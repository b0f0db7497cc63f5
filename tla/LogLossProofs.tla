---------------------------- MODULE LogLossProofs ----------------------------
(***************************************************************************)
(* Proofs about what the log may lose: to a second process that rewrites   *)
(* it (ReminderProcess) and to writes that stop in the middle of a line    *)
(* (TornLog), for any threads, records, clock readings, runs and cuts.     *)
(***************************************************************************)
EXTENDS ReminderProcess, TornLog, MessageLogProofs, FiniteSetTheorems

-----------------------------------------------------------------------------
(* The inductive invariant behind LossConfined.                            *)

\* Where a message that was answered 200 may be.
Safe == Kept \cup late

RemindTypes ==
    /\ file \in Seq(Record) /\ rrows \in Seq(Record)
    /\ nextId \in Nat \ {0} /\ clock \in Nat \ {0}
    /\ lastTs \in Nat /\ memTs \in Nat /\ diskTs \in Nat
    /\ rLastTs \in Nat /\ rpos \in Nat
    /\ pc \in [Threads -> {"idle", "write", "save"}]
    /\ rec \in [Threads -> Record \cup {NoRecord}]
    /\ \A t \in Threads : pc[t] = "write" => rec[t] \in Record

\* What an append is about to acknowledge is in its place.
SaveSafe == \A t \in Threads : pc[t] = "save" => rec[t].id \in Safe

\* While it reads, the reminder holds the first lines of the file: appends
\* only make it longer.
ReadPrefix ==
    rpc = "read" => /\ rpos = Len(rrows) /\ rpos <= Len(file)
                    /\ \A i \in 1..rpos : rrows[i] = file[i]

\* When it stops reading it holds all of the file, and what is added from
\* then on is late.
TruncateKnows == rpc = "truncate" => IdSet(file) \subseteq IdSet(rrows) \cup late
RewriteLate == rpc = "rewrite" => IdSet(file) \subseteq late

RemindInv ==
    /\ RemindTypes /\ SaveSafe /\ ReadPrefix /\ TruncateKnows /\ RewriteLate
    /\ LossConfined

\* No thread of the server rewrites the file.
LEMMA NoRewriting == RemindTypes => HeldIds = {}
  BY DEF RemindTypes, HeldIds, Rewriting

\* A step after which every message is where one may be keeps what was
\* acknowledged, and what is about to be.
LEMMA SafeStep ==
    ASSUME RemindInv, Safe \subseteq Safe', UNCHANGED <<pc, rec, acked>>
    PROVE  SaveSafe' /\ LossConfined'
  BY DEF RemindInv, SaveSafe, LossConfined, Safe

-----------------------------------------------------------------------------
(* The server's steps.                                                     *)

\* A line is added to the file, and noted when the reminder has read already.
LEMMA AddLine ==
    ASSUME RemindInv, NEW r \in Record, file' = Append(file, r),
           UNCHANGED <<rpc, rpos, rrows, deleted, wiped>>,
           pc' \in [Threads -> {"idle", "write", "save"}],
           late' = IF rpc \in {"truncate", "rewrite"}
                     THEN late \cup (IdSet(file') \ IdSet(file)) ELSE late
    PROVE  /\ file' \in Seq(Record) /\ IdSet(file)' = IdSet(file) \cup {r.id}
           /\ Safe \subseteq Safe' /\ r.id \in Safe'
           /\ ReadPrefix' /\ TruncateKnows' /\ RewriteLate'
<1>1. file \in Seq(Record) /\ rpos \in Nat
  BY DEF RemindInv, RemindTypes
<1>2. file' \in Seq(Record) /\ IdSet(file') = IdSet(file) \cup {r.id}
  BY <1>1, IdSetAppend
<1>3. IdSet(file)' = IdSet(file') /\ IdSet(rrows)' = IdSet(rrows)
  BY DEF IdSet
<1>4. HeldIds = {}
  BY NoRewriting DEF RemindInv
<1>5. Safe \subseteq Safe' /\ r.id \in Safe'
  BY <1>2, <1>3, <1>4 DEF Safe, Kept
<1>6. ReadPrefix'
  <2>1. Len(file') = Len(file) + 1 /\ \A i \in 1..Len(file) : file'[i] = file[i]
    BY <1>1
  <2>2. Len(file) \in Nat
    BY <1>1
  <2> QED
    BY <1>1, <2>1, <2>2 DEF RemindInv, ReadPrefix
<1>7. TruncateKnows' /\ RewriteLate'
  BY <1>2, <1>3 DEF RemindInv, TruncateKnows, RewriteLate
<1> QED
  BY <1>2, <1>3, <1>5, <1>6, <1>7

LEMMA ServerStep ==
    ASSUME RemindInv, NEW t \in Threads, AppendStep(t), NoteLate
    PROVE  RemindInv'
<1> USE DEF RemindInv, RemindTypes
<1>1. /\ UNCHANGED <<rpc, item, rLastTs, rpos, rrows, clock, deleted, wiped>>
      /\ late' = IF rpc \in {"truncate", "rewrite"}
                   THEN late \cup (IdSet(file') \ IdSet(file)) ELSE late
  BY DEF NoteLate, AppendStep, StartAppend, AppendWrite, AppendSave
<1>2. CASE AppendWrite(t)
  <2>1. /\ pc[t] = "write" /\ rec[t] \in Record /\ file' = Append(file, rec[t])
        /\ pc' = [pc EXCEPT ![t] = "save"]
        /\ UNCHANGED <<lastTs, memTs, diskTs, rec, nextId, acked>>
    BY <1>2 DEF AppendWrite
  <2>2. pc' \in [Threads -> {"idle", "write", "save"}]
    BY <2>1
  <2>3. /\ file' \in Seq(Record) /\ Safe \subseteq Safe' /\ rec[t].id \in Safe'
        /\ ReadPrefix' /\ TruncateKnows' /\ RewriteLate'
    BY <1>1, <2>1, <2>2, AddLine
  <2>4. RemindTypes'
    BY <1>1, <2>1, <2>2, <2>3
  <2>5. SaveSafe' /\ LossConfined'
    BY <2>1, <2>3 DEF SaveSafe, LossConfined, Safe
  <2> QED
    BY <2>3, <2>4, <2>5
<1>3. ASSUME UNCHANGED file
      PROVE  Safe \subseteq Safe' /\ ReadPrefix' /\ TruncateKnows' /\ RewriteLate'
  <2>1. IdSet(file)' = IdSet(file) /\ IdSet(rrows)' = IdSet(rrows) /\ late' = late
    BY <1>1, <1>3 DEF IdSet
  <2>2. HeldIds = {}
    BY NoRewriting
  <2> QED
    BY <1>1, <1>3, <2>1, <2>2 DEF Safe, Kept, ReadPrefix, TruncateKnows, RewriteLate
<1>4. CASE StartAppend(t)
  <2>1. /\ UNCHANGED <<file, acked, diskTs>> /\ nextId' = nextId + 1
        /\ pc' = [pc EXCEPT ![t] = "write"] /\ lastTs' = NextTs /\ memTs' = NextTs
        /\ rec' = [rec EXCEPT ![t] = [id |-> nextId, ts |-> NextTs]]
    BY <1>4 DEF StartAppend
  <2>2. NextTs \in Nat \ {0}
    BY DEF NextTs
  <2>3. [id |-> nextId, ts |-> NextTs] \in Record
    BY <2>2 DEF Record
  <2>4. RemindTypes'
    BY <1>1, <2>1, <2>2, <2>3
  <2>5. SaveSafe' /\ LossConfined'
    BY <1>3, <2>1 DEF SaveSafe, LossConfined, Safe
  <2> QED
    BY <1>3, <2>1, <2>4, <2>5
<1>5. CASE AppendSave(t)
  <2>1. /\ UNCHANGED <<file, lastTs, memTs, nextId>> /\ diskTs' = memTs /\ pc[t] = "save"
        /\ acked' = acked \cup {rec[t].id}
        /\ pc' = [pc EXCEPT ![t] = "idle"] /\ rec' = [rec EXCEPT ![t] = NoRecord]
    BY <1>5 DEF AppendSave
  <2>2. RemindTypes'
    BY <1>1, <2>1
  <2>3. SaveSafe' /\ LossConfined'
    BY <1>3, <2>1 DEF SaveSafe, LossConfined, Safe
  <2> QED
    BY <1>3, <2>1, <2>2, <2>3
<1> QED
  BY <1>2, <1>4, <1>5 DEF AppendStep

-----------------------------------------------------------------------------
(* The reminder's steps.                                                   *)

\* Its reminder is a line like any other.
LEMMA ReminderAppends ==
    ASSUME RemindInv, RemindWrite
    PROVE  RemindInv'
<1> DEFINE r == [id |-> nextId, ts |-> RemindNextTs]
<1>1. /\ file' = Append(file, r) /\ rpc = "append" /\ rpc' = "save"
      /\ acked' = acked \cup {nextId} /\ nextId' = nextId + 1 /\ rLastTs' = RemindNextTs
      /\ UNCHANGED <<clock, lastTs, memTs, diskTs, pc, rec, lines, target, deleted, wiped,
                     rpos, rrows, late>>
  BY DEF RemindWrite, ServerMemory
<1>2. RemindNextTs \in Nat \ {0}
  BY DEF RemindInv, RemindTypes, RemindNextTs
<1>3. r \in Record /\ r.id = nextId
  BY <1>2 DEF RemindInv, RemindTypes, Record
<1> HIDE DEF r
<1>4. file' \in Seq(Record) /\ IdSet(file') = IdSet(file) \cup {nextId}
  BY <1>1, <1>3, IdSetAppend DEF RemindInv, RemindTypes
<1>5. IdSet(file)' = IdSet(file')
  BY DEF IdSet
<1>6. HeldIds = {}
  BY NoRewriting DEF RemindInv
<1>7. Safe \subseteq Safe' /\ nextId \in Safe'
  BY <1>1, <1>4, <1>5, <1>6 DEF Safe, Kept
<1>8. RemindTypes'
  BY <1>1, <1>2, <1>4 DEF RemindInv, RemindTypes
<1>9. SaveSafe' /\ LossConfined'
  BY <1>1, <1>7 DEF RemindInv, SaveSafe, LossConfined, Safe
<1> QED
  BY <1>1, <1>8, <1>9 DEF RemindInv, ReadPrefix, TruncateKnows, RewriteLate

\* What it read is kept while the file is empty, and what it did not read is
\* late.
LEMMA ReminderTruncates ==
    ASSUME RemindInv, RemindTruncate
    PROVE  RemindInv'
<1>1. /\ rpc = "truncate" /\ rpc' = "rewrite" /\ file' = <<>>
      /\ UNCHANGED <<nextId, acked, clock, lastTs, memTs, diskTs, rLastTs, pc, rec, lines,
                     target, deleted, wiped, rpos, rrows, late>>
  BY DEF RemindTruncate, ServerMemory
<1>2. file' \in Seq(Record) /\ IdSet(file)' = {} /\ IdSet(rrows)' = IdSet(rrows)
  BY <1>1, EmptyFile DEF IdSet
<1>3. HeldIds = {}
  BY NoRewriting DEF RemindInv
<1>4. Safe \subseteq Safe'
  BY <1>1, <1>2, <1>3 DEF RemindInv, TruncateKnows, Safe, Kept
<1>5. RemindTypes'
  BY <1>1, <1>2 DEF RemindInv, RemindTypes
<1>6. SaveSafe' /\ LossConfined'
  BY <1>1, <1>4, SafeStep
<1> QED
  BY <1>1, <1>2, <1>5, <1>6 DEF RemindInv, ReadPrefix, TruncateKnows, RewriteLate

\* An overwrite keeps every line that it writes.
LEMMA OverwriteKeeps ==
    ASSUME NEW s \in Seq(Record), NEW f \in Seq(Record)
    PROVE  IdSet(s) \subseteq IdSet(Overwrite(s, f))
<1> DEFINE remains == SubSeq(f, Len(s) + 1, Len(f))
<1>1. remains \in Seq(Record)
  OBVIOUS
<1> HIDE DEF remains
<1>2. /\ Len(s \o remains) = Len(s) + Len(remains) /\ Len(s) \in Nat /\ Len(remains) \in Nat
      /\ \A i \in 1..Len(s) : (s \o remains)[i] = s[i]
  BY <1>1
<1>3. Overwrite(s, f) = s \o remains
  BY DEF Overwrite, remains
<1> QED
  BY <1>2, <1>3 DEF IdSet

\* It puts back what it read.
LEMMA ReminderRewrites ==
    ASSUME RemindInv, RemindRewrite
    PROVE  RemindInv'
<1>1. /\ rpc = "rewrite" /\ rpc' = "idle" /\ file' = Overwrite(rrows, file)
      /\ UNCHANGED <<nextId, acked, clock, lastTs, memTs, diskTs, rLastTs, pc, rec, lines,
                     target, deleted, wiped, rpos, rrows, late>>
  BY DEF RemindRewrite, ServerMemory
<1>2. file \in Seq(Record) /\ rrows \in Seq(Record)
  BY DEF RemindInv, RemindTypes
<1>3. file' \in Seq(Record) /\ IdSet(rrows) \subseteq IdSet(file')
  BY <1>1, <1>2, OverwriteType, OverwriteKeeps
<1>4. IdSet(file)' = IdSet(file')
  BY DEF IdSet
<1>5. HeldIds = {}
  BY NoRewriting DEF RemindInv
<1>6. Safe \subseteq Safe'
  BY <1>1, <1>3, <1>4, <1>5 DEF RemindInv, RewriteLate, Safe, Kept
<1>7. RemindTypes'
  BY <1>1, <1>3 DEF RemindInv, RemindTypes
<1>8. SaveSafe' /\ LossConfined'
  BY <1>1, <1>6, SafeStep
<1> QED
  BY <1>1, <1>7, <1>8 DEF RemindInv, ReadPrefix, TruncateKnows, RewriteLate

\* One more line read.
LEMMA ReminderReads ==
    ASSUME RemindInv, RemindRead
    PROVE  ReadPrefix' /\ RemindTypes'
<1>1. /\ rpc = "read" /\ rpos < Len(file) /\ rpos' = rpos + 1 /\ rpc' = rpc
      /\ rrows' = Append(rrows, file[rpos + 1])
      /\ UNCHANGED <<file, nextId, clock, lastTs, memTs, diskTs, rLastTs, pc, rec>>
  BY DEF RemindRead, vars
<1>2. /\ file \in Seq(Record) /\ rrows \in Seq(Record) /\ rpos \in Nat /\ rpos = Len(rrows)
      /\ \A i \in 1..rpos : rrows[i] = file[i]
  BY <1>1 DEF RemindInv, RemindTypes, ReadPrefix
<1>3. file[rpos + 1] \in Record
  BY <1>1, <1>2
<1>4. /\ rrows' \in Seq(Record) /\ Len(rrows') = rpos + 1
      /\ \A i \in 1..rpos : rrows'[i] = rrows[i]
      /\ rrows'[rpos + 1] = file[rpos + 1]
  BY <1>1, <1>2, <1>3
<1>5. ReadPrefix'
  BY <1>1, <1>2, <1>4 DEF ReadPrefix
<1>6. RemindTypes'
  BY <1>1, <1>2, <1>4 DEF RemindInv, RemindTypes
<1> QED
  BY <1>5, <1>6

\* At the end of the file it has read all of it.
LEMMA ReadAll ==
    ASSUME RemindInv, RemindReadEnd
    PROVE  IdSet(file) \subseteq IdSet(rrows)
<1>1. rpc = "read" /\ rpos >= Len(file)
  BY DEF RemindReadEnd
<1>2. /\ file \in Seq(Record) /\ rpos \in Nat /\ rpos = Len(rrows) /\ rpos <= Len(file)
      /\ \A i \in 1..rpos : rrows[i] = file[i]
  BY <1>1 DEF RemindInv, RemindTypes, ReadPrefix
<1>3. Len(file) = Len(rrows)
  BY <1>1, <1>2
<1> QED
  BY <1>2, <1>3 DEF IdSet

LEMMA ReminderStep ==
    ASSUME RemindInv, RemindStep
    PROVE  RemindInv'
<1>1. ASSUME UNCHANGED <<file, nextId, acked, clock, lastTs, pc, rec, lines, target, deleted,
                         wiped, late>>,
             rpc # "rewrite", rpc' # "rewrite"
      PROVE  /\ SaveSafe' /\ LossConfined' /\ RewriteLate'
             /\ IdSet(file)' = IdSet(file)
  <2>1. IdSet(file)' = IdSet(file) /\ HeldIds = {}
    BY <1>1, NoRewriting DEF IdSet, RemindInv
  <2>2. Safe \subseteq Safe'
    BY <1>1, <2>1 DEF Safe, Kept
  <2> QED
    BY <1>1, <2>1, <2>2, SafeStep DEF RewriteLate
<1>2. CASE RemindStart
  <2>1. /\ rpc = "idle" /\ rpc' = "append" /\ rLastTs' \in {diskTs, rLastTs}
        /\ UNCHANGED <<vars, rpos, rrows, late>>
    BY <1>2 DEF RemindStart
  <2> QED
    BY <1>1, <2>1 DEF RemindInv, RemindTypes, ReadPrefix, TruncateKnows, vars
<1>3. CASE RemindSave
  <2>1. /\ rpc = "save" /\ rpc' = "read" /\ rpos' = 0 /\ rrows' = <<>>
        /\ diskTs' = rLastTs
        /\ UNCHANGED <<file, nextId, acked, clock, lastTs, memTs, pc, rec, lines, target, deleted,
                       wiped, late, rLastTs>>
    BY <1>3 DEF RemindSave, ServerMemory
  <2>2. file \in Seq(Record)
    BY DEF RemindInv, RemindTypes
  <2>3. rrows' \in Seq(Record) /\ Len(rrows') = 0 /\ Len(file') \in Nat
    BY <2>1, <2>2
  <2> QED
    BY <1>1, <2>1, <2>3 DEF RemindInv, RemindTypes, ReadPrefix, TruncateKnows
<1>4. CASE RemindRead
  <2>1. rpc = "read" /\ rpc' = "read" /\ UNCHANGED <<vars, late>>
    BY <1>4 DEF RemindRead
  <2> QED
    BY <1>1, <1>4, <2>1, ReminderReads DEF RemindInv, TruncateKnows, vars
<1>5. CASE RemindReadEnd
  <2>1. /\ rpc = "read" /\ rpc' \in {"truncate", "idle"} /\ UNCHANGED <<vars, late, rLastTs, rpos, rrows>>
    BY <1>5 DEF RemindReadEnd
  <2>2. IdSet(rrows)' = IdSet(rrows)
    BY <2>1 DEF IdSet
  <2> QED
    BY <1>1, <1>5, <2>1, <2>2, ReadAll DEF RemindInv, RemindTypes, ReadPrefix, TruncateKnows, vars
<1> QED
  BY <1>2, <1>3, <1>4, <1>5, ReminderAppends, ReminderTruncates, ReminderRewrites DEF RemindStep

LEMMA RemindInvInit == RemindInit => RemindInv
<1> SUFFICES ASSUME RemindInit PROVE RemindInv
  OBVIOUS
<1>1. /\ file = <<>> /\ clock = 1 /\ lastTs = 0 /\ memTs = 0 /\ diskTs = 0 /\ nextId = 1 /\ acked = {}
      /\ pc = [t \in Threads |-> "idle"] /\ rec = [t \in Threads |-> NoRecord]
      /\ rpc = "idle" /\ rLastTs = 0 /\ rpos = 0 /\ rrows = <<>>
  BY DEF RemindInit, Init
<1> QED
  BY <1>1, EmptyFile DEF RemindInv, RemindTypes, SaveSafe, ReadPrefix, TruncateKnows,
                         RewriteLate, LossConfined

LEMMA RemindInvStep == RemindInv /\ [RemindNext]_bothVars => RemindInv'
<1> SUFFICES ASSUME RemindInv, [RemindNext]_bothVars PROVE RemindInv'
  OBVIOUS
<1>1. ASSUME UNCHANGED <<file, nextId, acked, lastTs, memTs, diskTs, pc, rec, lines, target,
                         deleted, wiped>>,
             UNCHANGED remVars, clock' \in Nat \ {0}
      PROVE  RemindInv'
  <2>1. IdSet(file)' = IdSet(file) /\ IdSet(rrows)' = IdSet(rrows) /\ HeldIds = {}
    BY <1>1, NoRewriting DEF IdSet, RemindInv, remVars
  <2>2. Safe \subseteq Safe'
    BY <1>1, <2>1 DEF Safe, Kept, remVars
  <2>3. SaveSafe' /\ LossConfined'
    BY <1>1, <2>2, SafeStep
  <2> QED
    BY <1>1, <2>1, <2>3 DEF RemindInv, RemindTypes, ReadPrefix, TruncateKnows, RewriteLate, remVars
<1>2. CASE UNCHANGED bothVars
  BY <1>1, <1>2 DEF bothVars, vars, RemindInv, RemindTypes
<1>3. CASE SetClock /\ UNCHANGED remVars
  BY <1>1, <1>3, BoundsAssumption DEF SetClock
<1>4. CASE RemindStep
  BY <1>4, ReminderStep
<1>5. ASSUME NEW t \in Threads, AppendStep(t), NoteLate PROVE RemindInv'
  BY <1>5, ServerStep
<1> QED
  BY <1>2, <1>3, <1>4, <1>5 DEF RemindNext, AppendNext

\* A reminder run can drop only what the server wrote between the reminder's
\* last read and its rewrite, whatever appends run beside it and for however
\* many items.
THEOREM LossConfinedAlways == RemindSpec => []LossConfined
<1>1. RemindInv => LossConfined
  BY DEF RemindInv
<1> QED
  BY <1>1, RemindInvInit, RemindInvStep, PTL DEF RemindSpec

-----------------------------------------------------------------------------
(* How much the file and the reminder hold.                                *)

\* Records with an id that was drawn.
Numbered == [id : 1..MaxRecords, ts : Nat \ {0}]
Due == IF Writing THEN 1 ELSE 0

\* The server's critical section excludes its other threads; each line of the
\* file has an id of its own, the one about to be written included, and what
\* the reminder read was no longer than the file.
SizeInv ==
    /\ nextId \in 1..MaxRecords + 1 /\ item \in 0..MaxRecords
    /\ file \in Seq(Numbered) /\ rrows \in Seq(Numbered)
    /\ \A t \in Threads : pc[t] # "idle" => lock = t
    /\ \A t \in Threads : pc[t] = "write" => rec[t] \in Numbered
    /\ Len(rrows) = rpos
    /\ Len(file) + Due < nextId /\ Len(rrows) + Due < nextId
    /\ rpc \in {"idle", "append", "save", "read", "truncate", "rewrite"}

\* An overwrite is as long as the longer of the two.
LEMMA OverwriteLength ==
    ASSUME NEW T, NEW s \in Seq(T), NEW f \in Seq(T)
    PROVE  /\ Overwrite(s, f) \in Seq(T)
           /\ Len(Overwrite(s, f)) = IF Len(s) < Len(f) THEN Len(f) ELSE Len(s)
<1> DEFINE remains == SubSeq(f, Len(s) + 1, Len(f))
<1>1. Len(s) \in Nat /\ Len(f) \in Nat
  OBVIOUS
<1>2. remains \in Seq(T) /\ Len(remains) = IF Len(s) < Len(f) THEN Len(f) - Len(s) ELSE 0
  BY <1>1
<1> HIDE DEF remains
<1>3. s \o remains \in Seq(T) /\ Len(s \o remains) = Len(s) + Len(remains)
  BY <1>2
<1>4. Overwrite(s, f) = s \o remains
  BY DEF Overwrite, remains
<1> QED
  BY <1>1, <1>2, <1>3, <1>4

\* The server draws the id it will write while nobody else writes.
LEMMA ServerSize ==
    ASSUME RemindTypes, SizeInv, NEW t \in Threads, AppendStep(t), NoteLate
    PROVE  SizeInv'
<1>0. /\ Len(file) \in Nat /\ Len(rrows) \in Nat /\ MaxRecords \in Nat /\ nextId \in Nat
      /\ Due \in {0, 1} /\ nextId <= MaxRecords + 1
  BY BoundsAssumption DEF SizeInv, Due
<1>1. UNCHANGED <<rpc, item, rLastTs, rpos, rrows>>
  BY DEF NoteLate
<1> USE DEF SizeInv, RemindTypes
<1>2. CASE StartAppend(t)
  <2>1. /\ nextId <= MaxRecords /\ nextId' = nextId + 1 /\ lock = NoThread /\ lock' = t
        /\ pc' = [pc EXCEPT ![t] = "write"] /\ file' = file
        /\ rec' = [rec EXCEPT ![t] = [id |-> nextId, ts |-> NextTs]]
    BY <1>2 DEF StartAppend
  <2>2. NextTs \in Nat \ {0}
    BY DEF NextTs
  <2>3. nextId \in 1..MaxRecords /\ nextId' \in 1..MaxRecords + 1
    BY <1>0, <2>1
  <2>4. [id |-> nextId, ts |-> NextTs] \in Numbered
    BY <2>2, <2>3 DEF Numbered
  <2>5. \A u \in Threads : pc[u] = "idle"
    BY <2>1, ThreadsAssumption
  <2>6. Due = 0 /\ Due' \in {0, 1}
    BY <2>5 DEF Due, Writing
  <2>7. Len(file') + Due' < nextId' /\ Len(rrows') + Due' < nextId'
    BY <1>0, <1>1, <2>1, <2>6
  <2> QED
    BY <1>1, <2>1, <2>3, <2>4, <2>5, <2>7
<1>3. CASE AppendWrite(t)
  <2>1. /\ pc[t] = "write" /\ pc' = [pc EXCEPT ![t] = "save"]
        /\ file' = Append(file, rec[t]) /\ UNCHANGED <<lock, rec, nextId>>
    BY <1>3 DEF AppendWrite
  <2>2. Due = 1
    BY <2>1 DEF Due, Writing
  <2>3. \A u \in Threads : pc'[u] # "write"
    BY <2>1, ThreadsAssumption
  <2>4. Due' = 0
    BY <2>3 DEF Due, Writing
  <2>5. file' \in Seq(Numbered) /\ Len(file') = Len(file) + 1
    BY <2>1
  <2>6. Len(file') + Due' < nextId' /\ Len(rrows') + Due' < nextId'
    BY <1>0, <1>1, <2>1, <2>2, <2>4, <2>5
  <2> QED
    BY <1>1, <2>1, <2>5, <2>6
<1>4. CASE AppendSave(t)
  <2>1. /\ pc[t] = "save" /\ pc' = [pc EXCEPT ![t] = "idle"] /\ lock' = NoThread
        /\ rec' = [rec EXCEPT ![t] = NoRecord] /\ UNCHANGED <<file, nextId>>
    BY <1>4 DEF AppendSave
  <2>2. \A u \in Threads : pc'[u] = "idle"
    BY <2>1, ThreadsAssumption
  <2>3. Due' = 0
    BY <2>2 DEF Due, Writing
  <2>4. Len(file') + Due' < nextId' /\ Len(rrows') + Due' < nextId'
    BY <1>0, <1>1, <2>1, <2>3
  <2> QED
    BY <1>1, <2>1, <2>2, <2>4
<1> QED
  BY <1>2, <1>3, <1>4 DEF AppendStep

LEMMA ReminderSize ==
    ASSUME RemindInv, SizeInv, RemindStep
    PROVE  SizeInv'
<1>0. /\ Len(file) \in Nat /\ Len(rrows) \in Nat /\ MaxRecords \in Nat /\ nextId \in Nat
      /\ Due \in {0, 1} /\ nextId <= MaxRecords + 1
  BY BoundsAssumption DEF SizeInv, Due
<1>1. UNCHANGED <<pc, rec, lock>> /\ Due' = Due
  <2>1. UNCHANGED <<pc, rec, lock>>
    BY DEF RemindStep, RemindStart, RemindWrite, RemindSave, RemindRead, RemindReadEnd,
           RemindTruncate, RemindRewrite, ServerMemory, vars
  <2> QED
    BY <2>1 DEF Due, Writing
<1> USE DEF SizeInv
<1>2. CASE RemindStart
  <2>1. /\ item' \in IdSet(file) /\ rpc' = "append"
        /\ UNCHANGED <<file, nextId, rpos, rrows>>
    BY <1>2 DEF RemindStart, vars
  <2>2. \A i \in 1..Len(file) : file[i].id \in 1..MaxRecords
    <3>1. \A r \in Numbered : r.id \in 1..MaxRecords
      BY DEF Numbered
    <3> QED
      BY <3>1
  <2>3. item' \in 0..MaxRecords
    BY <1>0, <2>1, <2>2 DEF IdSet
  <2> QED
    BY <1>1, <2>1, <2>3
<1>3. CASE RemindWrite
  <2> DEFINE r == [id |-> nextId, ts |-> RemindNextTs]
  <2>1. /\ nextId <= MaxRecords /\ nextId' = nextId + 1 /\ file' = Append(file, r)
        /\ rpc' = "save" /\ UNCHANGED <<item, rpos, rrows>>
    BY <1>3 DEF RemindWrite
  <2>2. RemindNextTs \in Nat \ {0}
    BY DEF RemindInv, RemindTypes, RemindNextTs
  <2>3. r \in Numbered
    BY <1>0, <2>1, <2>2 DEF Numbered
  <2> HIDE DEF r
  <2>4. file' \in Seq(Numbered) /\ Len(file') = Len(file) + 1
    BY <2>1, <2>3
  <2>5. Len(file') + Due' < nextId' /\ Len(rrows') + Due' < nextId'
    BY <1>0, <1>1, <2>1, <2>4
  <2>6. nextId' \in 1..MaxRecords + 1
    BY <1>0, <2>1
  <2> QED
    BY <1>1, <2>1, <2>4, <2>5, <2>6
<1>4. CASE RemindSave
  <2>1. /\ rpc' = "read" /\ rpos' = 0 /\ rrows' = <<>> /\ UNCHANGED <<file, nextId, item>>
    BY <1>4 DEF RemindSave, ServerMemory
  <2>2. rrows' \in Seq(Numbered) /\ Len(rrows') = 0
    BY <2>1
  <2>3. Len(rrows') + Due' < nextId'
    BY <1>0, <1>1, <2>1, <2>2
  <2> QED
    BY <1>1, <2>1, <2>2, <2>3
<1>5. CASE RemindRead
  <2>1. /\ rpc = "read" /\ rpos < Len(file) /\ rpos' = rpos + 1
        /\ rrows' = Append(rrows, file[rpos + 1]) /\ UNCHANGED <<rpc, item, file, nextId>>
    BY <1>5 DEF RemindRead, vars
  <2>2. rpos \in Nat /\ file[rpos + 1] \in Numbered
    BY <1>0, <2>1
  <2>3. rrows' \in Seq(Numbered) /\ Len(rrows') = Len(rrows) + 1
    BY <2>1, <2>2
  <2>4. Len(rrows') + Due' < nextId' /\ Len(rrows') = rpos'
    BY <1>0, <1>1, <2>1, <2>3
  <2> QED
    BY <1>1, <2>1, <2>3, <2>4
<1>6. CASE RemindReadEnd
  <2>1. rpc' \in {"idle", "truncate"} /\ UNCHANGED <<item, file, nextId, rpos, rrows>>
    BY <1>6 DEF RemindReadEnd, vars
  <2> QED
    BY <1>1, <2>1
<1>7. CASE RemindTruncate
  <2>1. rpc' = "rewrite" /\ file' = <<>> /\ UNCHANGED <<item, nextId, rpos, rrows>>
    BY <1>7 DEF RemindTruncate
  <2>2. file' \in Seq(Numbered) /\ Len(file') = 0
    BY <2>1
  <2>3. Len(file') + Due' < nextId'
    BY <1>0, <1>1, <2>1, <2>2
  <2> QED
    BY <1>1, <2>1, <2>2, <2>3
<1>8. CASE RemindRewrite
  <2>1. /\ rpc' = "idle" /\ file' = Overwrite(rrows, file)
        /\ UNCHANGED <<item, nextId, rpos, rrows>>
    BY <1>8 DEF RemindRewrite
  <2>2. /\ file' \in Seq(Numbered)
        /\ Len(file') = IF Len(rrows) < Len(file) THEN Len(file) ELSE Len(rrows)
    BY <2>1, OverwriteLength
  <2>3. Len(file') + Due' < nextId'
    BY <1>0, <1>1, <2>1, <2>2
  <2> QED
    BY <1>1, <2>1, <2>2, <2>3
<1> QED
  BY <1>2, <1>3, <1>4, <1>5, <1>6, <1>7, <1>8 DEF RemindStep

LEMMA SizeInit == RemindInit => SizeInv
<1> SUFFICES ASSUME RemindInit PROVE SizeInv
  OBVIOUS
<1>1. /\ file = <<>> /\ nextId = 1 /\ pc = [t \in Threads |-> "idle"]
      /\ rpc = "idle" /\ item = 0 /\ rpos = 0 /\ rrows = <<>>
  BY DEF RemindInit, Init
<1>2. Due = 0 /\ Len(<<>>) = 0 /\ <<>> \in Seq(Numbered)
  BY <1>1 DEF Due, Writing
<1>3. 1 \in 1..MaxRecords + 1 /\ 0 \in 0..MaxRecords
  BY BoundsAssumption
<1> QED
  BY <1>1, <1>2, <1>3 DEF SizeInv

LEMMA SizeStep == RemindInv /\ SizeInv /\ [RemindNext]_bothVars => SizeInv'
<1> SUFFICES ASSUME RemindInv, SizeInv, [RemindNext]_bothVars PROVE SizeInv'
  OBVIOUS
<1>1. CASE UNCHANGED <<file, nextId, lock, pc, rec, remVars>>
  <2>1. Due' = Due
    BY <1>1 DEF Due, Writing
  <2> QED
    BY <1>1, <2>1 DEF SizeInv, remVars
<1>2. CASE RemindStep
  BY <1>2, ReminderSize
<1>3. ASSUME NEW t \in Threads, AppendStep(t), NoteLate PROVE SizeInv'
  BY <1>3, ServerSize DEF RemindInv
<1>4. CASE (SetClock /\ UNCHANGED remVars) \/ UNCHANGED bothVars
  BY <1>1, <1>4 DEF SetClock, bothVars, vars
<1> QED
  BY <1>2, <1>3, <1>4 DEF RemindNext, AppendNext

\* The reminder's variables stay in their types, and it holds as many lines
\* as it has read, no more than there are records.
THEOREM RemindTypesAlways == RemindSpec => []RemindTypeOK
<1>1. RemindInv /\ SizeInv => RemindTypeOK
  <2> SUFFICES ASSUME RemindInv, SizeInv PROVE RemindTypeOK
    OBVIOUS
  <2>1. /\ Len(rrows) \in Nat /\ Due \in {0, 1} /\ nextId \in Nat /\ MaxRecords \in Nat
        /\ nextId <= MaxRecords + 1 /\ Len(rrows) + Due < nextId
    BY BoundsAssumption DEF SizeInv, Due
  <2>2. Len(rrows) \in 0..MaxRecords
    BY <2>1
  <2> QED
    BY <2>2 DEF RemindInv, RemindTypes, SizeInv, RemindTypeOK
<1> QED
  BY <1>1, RemindInvInit, RemindInvStep, SizeInit, SizeStep, PTL DEF RemindSpec

-----------------------------------------------------------------------------
(* The inductive invariant behind AckedInOrder.                            *)

\* Lines with ids below n, of which those with an id in A have a timestamp of d
\* at most and are later than none that follows.
Fit(s, A, n, d) ==
    \A i \in 1..Len(s) :
        /\ s[i].id < n
        /\ s[i].id \in A => s[i].ts <= d /\ \A j \in 1..Len(s) : i < j => s[i].ts < s[j].ts
Sound(s) == Fit(s, acked, nextId, diskTs)

AckedOld == \A a \in acked : a < nextId

\* The state file, which a restart goes by, may be behind and is never ahead.
TsAhead == lastTs = memTs /\ diskTs <= lastTs

\* The record an append is about to write is later than all that the state
\* file covers, and so than all that was answered.
InHand ==
    \A t \in Threads : pc[t] = "write" =>
        /\ rec[t] \in Record /\ rec[t].id < nextId
        /\ rec[t].ts = lastTs /\ diskTs < lastTs
        /\ rec[t].id \notin IdSet(file) \cup acked

\* The record an append is about to answer for is the last line, if it is one.
OnItsWay ==
    \A t \in Threads : pc[t] = "save" =>
        /\ tail = "whole" /\ rec[t].id < nextId
        /\ \A i \in 1..Len(file) : file[i].id = rec[t].id => i = Len(file) /\ file[i].ts = lastTs

LinesSound ==
    \A t \in Threads : pc[t] \in {"truncate", "rewrite"} => Sound(lines[t]) /\ ~cut

\* What the lock holder has in its hands.
Hands == InHand /\ OnItsWay /\ LinesSound /\ RewriteEmpty /\ TruncateHolds

OrderInv ==
    /\ TornTypeOK /\ MutualExclusion /\ AckedOld /\ TsAhead /\ Sound(file) /\ Hands

-----------------------------------------------------------------------------
(* Lines.                                                                  *)

\* The timestamps and ids of the lines are numbers.
LEMMA Fields ==
    ASSUME NEW s \in Seq(Record)
    PROVE  Len(s) \in Nat /\ \A i \in 1..Len(s) : s[i].id \in Nat /\ s[i].ts \in Nat
<1>1. \A i \in 1..Len(s) : s[i] \in Record
  OBVIOUS
<1> QED
  BY <1>1 DEF Record

\* What is saved later, and what ids are given out, leaves lines as they are.
LEMMA FitLater ==
    ASSUME NEW s \in Seq(Record), NEW A, NEW n \in Nat, NEW m \in Nat,
           NEW d \in Nat, NEW e \in Nat, Fit(s, A, n, d), n <= m, d <= e
    PROVE  Fit(s, A, m, e)
<1>1. \A i \in 1..Len(s) : s[i].id \in Nat /\ s[i].ts \in Nat
  BY Fields
<1> QED
  BY <1>1 DEF Fit

\* The first lines are as good as all of them.
LEMMA FitPrefix ==
    ASSUME NEW s \in Seq(Record), NEW k \in 0..Len(s), NEW A, NEW n, NEW d, Fit(s, A, n, d)
    PROVE  Fit(SubSeq(s, 1, k), A, n, d)
<1>1. /\ Len(SubSeq(s, 1, k)) = k
      /\ \A j \in 1..k : SubSeq(s, 1, k)[j] = s[j]
  BY PrefixIds
<1>2. 1..k \subseteq 1..Len(s)
  BY Fields
<1> QED
  BY <1>1, <1>2 DEF Fit

\* So are they without one.
LEMMA FitRemoveAt ==
    ASSUME NEW s \in Seq(Record), NEW k \in 1..Len(s), NEW A, NEW n, NEW d, Fit(s, A, n, d)
    PROVE  Fit(RemoveAt(s, k), A, n, d)
<1> DEFINE r == RemoveAt(s, k)
           At(j) == IF j < k THEN j ELSE j + 1
<1>1. /\ Len(r) = Len(s) - 1
      /\ \A j \in 1..Len(s) - 1 : r[j] = s[At(j)] /\ At(j) \in 1..Len(s)
  BY RemoveAtElements
<1>2. \A i, j \in 1..Len(s) - 1 : i < j => At(i) < At(j)
  OBVIOUS
<1> HIDE DEF r, At
<1>3. Fit(r, A, n, d)
  BY <1>1, <1>2 DEF Fit
<1> QED
  BY <1>3 DEF r

\* A line that is later than all that was answered may follow any of them.
LEMMA FitAppend ==
    ASSUME NEW s \in Seq(Record), NEW r \in Record, NEW A, NEW n \in Nat, NEW d \in Nat,
           Fit(s, A, n, d), r.id < n, r.id \notin A, d < r.ts
    PROVE  Fit(Append(s, r), A, n, d)
<1>1. /\ Len(Append(s, r)) = Len(s) + 1 /\ Len(s) \in Nat
      /\ \A i \in 1..Len(s) : Append(s, r)[i] = s[i]
      /\ Append(s, r)[Len(s) + 1] = r
  OBVIOUS
<1>2. r.ts \in Nat /\ \A i \in 1..Len(s) : s[i].ts \in Nat
  BY Fields DEF Record
<1> SUFFICES ASSUME NEW i \in 1..Len(s) + 1
             PROVE  /\ Append(s, r)[i].id < n
                    /\ Append(s, r)[i].id \in A =>
                         /\ Append(s, r)[i].ts <= d
                         /\ \A j \in 1..Len(s) + 1 :
                              i < j => Append(s, r)[i].ts < Append(s, r)[j].ts
  BY <1>1 DEF Fit
<1>3. CASE i = Len(s) + 1
  BY <1>1, <1>3
<1>4. CASE i \in 1..Len(s)
  <2>1. Append(s, r)[i] = s[i]
    BY <1>1, <1>4
  <2>2. s[i].id < n
    BY <1>4 DEF Fit
  <2>3. ASSUME s[i].id \in A, NEW j \in 1..Len(s) + 1, i < j
        PROVE  s[i].ts < Append(s, r)[j].ts
    <3>1. s[i].ts <= d /\ (j \in 1..Len(s) => s[i].ts < s[j].ts)
      BY <1>4, <2>3 DEF Fit
    <3>2. CASE j \in 1..Len(s)
      BY <1>1, <3>1, <3>2
    <3>3. CASE j = Len(s) + 1
      BY <1>1, <1>2, <1>4, <3>1, <3>3
    <3> QED
      BY <1>1, <3>2, <3>3
  <2>4. s[i].id \in A => s[i].ts <= d
    BY <1>4 DEF Fit
  <2> QED
    BY <2>1, <2>2, <2>3, <2>4
<1> QED
  BY <1>1, <1>3, <1>4

\* The ids of all lines but the last.
LEMMA FrontIds ==
    ASSUME NEW s \in Seq(Record), s # <<>>
    PROVE  /\ Front(s) = SubSeq(s, 1, Len(s) - 1) /\ Len(s) - 1 \in 0..Len(s)
           /\ IdSet(s) \subseteq IdSet(Front(s)) \cup {s[Len(s)].id}
<1>1. Front(s) = SubSeq(s, 1, Len(s) - 1) /\ Len(s) - 1 \in 0..Len(s)
  BY DEF Front
<1>2. /\ Len(Front(s)) = Len(s) - 1
      /\ \A j \in 1..Len(s) - 1 : Front(s)[j] = s[j]
  BY <1>1, PrefixIds
<1>3. ASSUME NEW i \in 1..Len(s)
      PROVE  s[i].id \in IdSet(Front(s)) \cup {s[Len(s)].id}
  <2>1. i = Len(s) \/ i \in 1..Len(s) - 1
    OBVIOUS
  <2> QED
    BY <1>2, <2>1 DEF IdSet
<1> QED
  BY <1>1, <1>3 DEF IdSet

-----------------------------------------------------------------------------
(* The lock.                                                               *)

\* A thread that takes the free lock is the only one inside.
LEMMA LockTaken ==
    ASSUME TypeOK, MutualExclusion, NEW t \in Threads, NEW x \in Holding,
           lock = NoThread, lock' = t, pc' = [pc EXCEPT ![t] = x]
    PROVE  /\ MutualExclusion' /\ pc'[t] = x
           /\ \A u \in Threads : pc[u] \notin Holding
           /\ \A u \in Threads : u # t => pc'[u] = pc[u]
<1>1. pc'[t] = x /\ \A u \in Threads : u # t => pc'[u] = pc[u]
  BY DEF TypeOK
<1>2. \A u \in Threads : pc[u] \notin Holding
  BY ThreadsAssumption DEF MutualExclusion
<1> QED
  BY <1>1, <1>2 DEF MutualExclusion

\* The holder goes on to another step inside.
LEMMA LockKept ==
    ASSUME TypeOK, MutualExclusion, NEW t \in Threads, NEW x \in Holding,
           pc[t] \in Holding, lock' = lock, pc' = [pc EXCEPT ![t] = x]
    PROVE  /\ MutualExclusion' /\ pc'[t] = x
           /\ \A u \in Threads : u # t => pc'[u] = pc[u] /\ pc[u] \notin Holding
<1>1. pc'[t] = x /\ \A u \in Threads : u # t => pc'[u] = pc[u]
  BY DEF TypeOK
<1>2. lock = t /\ \A u \in Threads : u # t => pc[u] \notin Holding
  BY DEF MutualExclusion
<1> QED
  BY <1>1, <1>2 DEF MutualExclusion

\* The holder leaves: nobody is inside any more.
LEMMA LockGiven ==
    ASSUME TypeOK, MutualExclusion, NEW t \in Threads,
           pc[t] \in Holding, lock' = NoThread, pc' = [pc EXCEPT ![t] = "idle"]
    PROVE  MutualExclusion' /\ \A u \in Threads : pc'[u] \notin Holding
<1>1. pc'[t] = "idle" /\ \A u \in Threads : u # t => pc'[u] = pc[u]
  BY DEF TypeOK
<1>2. lock = t /\ \A u \in Threads : u # t => pc[u] \notin Holding
  BY DEF MutualExclusion
<1>3. \A u \in Threads : pc'[u] \notin Holding
  BY <1>1, <1>2 DEF Holding
<1> QED
  BY <1>3, ThreadsAssumption DEF MutualExclusion

\* With nobody inside there is nothing in anybody's hands.
LEMMA EmptyHands ==
    ASSUME \A u \in Threads : pc'[u] \notin Holding
    PROVE  Hands'
BY DEF Hands, InHand, OnItsWay, LinesSound, RewriteEmpty, TruncateHolds, Holding

-----------------------------------------------------------------------------
(* Append.                                                                 *)

\* The record gets an id and a timestamp beyond all others.
LEMMA OrderStart ==
    ASSUME OrderInv, NEW t \in Threads, StartAppend(t), UNCHANGED tornVars
    PROVE  OrderInv'
<1> USE DEF OrderInv
<1>1. TypeOK /\ pc[t] = "idle"
  BY DEF TornTypeOK, StartAppend
<1>2. TornTypeOK'
  BY <1>1, AppendType DEF TornTypeOK, AppendStep, StartAppend, tornVars
<1>3. /\ lock = NoThread /\ lock' = t /\ pc' = [pc EXCEPT ![t] = "write"]
      /\ lastTs' = NextTs /\ memTs' = NextTs /\ nextId' = nextId + 1
      /\ UNCHANGED <<file, diskTs, acked>>
      /\ rec'[t] = [id |-> nextId, ts |-> NextTs]
  BY <1>1 DEF StartAppend, TypeOK
<1>4. /\ MutualExclusion' /\ pc'[t] = "write"
      /\ \A u \in Threads : pc[u] \notin Holding
      /\ \A u \in Threads : u # t => pc'[u] = pc[u]
  <2>1. "write" \in Holding
    BY DEF Holding
  <2> QED
    BY <1>1, <1>3, <2>1, LockTaken
<1>5. NextTs \in Nat \ {0} /\ lastTs < NextTs /\ lastTs \in Nat /\ diskTs \in Nat /\ nextId \in Nat \ {0}
  BY <1>1, NextTsType, NextTsGrows DEF TypeOK
<1>6. TsAhead'
  BY <1>3, <1>5 DEF TsAhead
<1>7. AckedOld'
  BY <1>1, <1>3, <1>5 DEF AckedOld, TypeOK
<1>8. Sound(file)'
  <2>1. Fit(file, acked, nextId + 1, diskTs)
    BY <1>1, <1>5, FitLater DEF Sound, TypeOK
  <2> QED
    BY <1>3, <2>1 DEF Sound, Fit
<1>9. InHand'
  <2>1. rec'[t] \in Record /\ rec'[t].id = nextId /\ rec'[t].ts = lastTs'
    BY <1>3, <1>5 DEF Record
  <2>2. nextId \notin IdSet(file) \cup acked
    <3>1. \A i \in 1..Len(file) : file[i].id < nextId
      BY DEF Sound, Fit
    <3> QED
      BY <1>5, <3>1 DEF IdSet, AckedOld
  <2>3. diskTs' < lastTs' /\ nextId < nextId'
    BY <1>3, <1>5 DEF TsAhead
  <2>4. IdSet(file)' = IdSet(file)
    BY <1>3 DEF IdSet
  <2> QED
    BY <1>3, <1>4, <2>1, <2>2, <2>3, <2>4 DEF InHand, Holding
<1>10. OnItsWay' /\ LinesSound' /\ RewriteEmpty' /\ TruncateHolds'
  BY <1>4 DEF OnItsWay, LinesSound, RewriteEmpty, TruncateHolds, Holding
<1> QED
  BY <1>2, <1>4, <1>6, <1>7, <1>8, <1>9, <1>10 DEF Hands

\* What is answered is covered by the state file, and nothing follows it yet.
LEMMA OrderSave ==
    ASSUME OrderInv, NEW t \in Threads, AppendSave(t), UNCHANGED tornVars
    PROVE  OrderInv'
<1> USE DEF OrderInv
<1>1. TypeOK /\ pc[t] = "save"
  BY DEF TornTypeOK, AppendSave
<1>2. TornTypeOK'
  BY <1>1, AppendType DEF TornTypeOK, AppendStep, AppendSave, tornVars
<1>3. /\ lock' = NoThread /\ pc' = [pc EXCEPT ![t] = "idle"]
      /\ diskTs' = memTs /\ acked' = acked \cup {rec[t].id}
      /\ UNCHANGED <<file, lastTs, memTs, nextId>>
  BY DEF AppendSave
<1>4. MutualExclusion' /\ \A u \in Threads : pc'[u] \notin Holding
  <2>1. pc[t] \in Holding
    BY <1>1 DEF Holding
  <2> QED
    BY <1>1, <1>3, <2>1, LockGiven
<1>5. /\ lastTs \in Nat /\ memTs = lastTs /\ diskTs <= lastTs /\ diskTs \in Nat
      /\ file \in Seq(Record)
  BY <1>1 DEF TypeOK, TsAhead
<1>6. TsAhead'
  BY <1>3, <1>5 DEF TsAhead
<1>7. /\ rec[t].id < nextId
      /\ \A i \in 1..Len(file) : file[i].id = rec[t].id => i = Len(file) /\ file[i].ts = lastTs
  BY <1>1 DEF Hands, OnItsWay
<1>8. AckedOld'
  BY <1>3, <1>7 DEF AckedOld
<1>9. Sound(file)'
  <2> SUFFICES ASSUME NEW i \in 1..Len(file)
               PROVE  /\ file[i].id < nextId
                      /\ file[i].id \in acked' =>
                           /\ file[i].ts <= lastTs
                           /\ \A j \in 1..Len(file) : i < j => file[i].ts < file[j].ts
    BY <1>3, <1>5 DEF Sound, Fit
  <2>1. /\ file[i].id < nextId
        /\ file[i].id \in acked =>
             file[i].ts <= diskTs /\ \A j \in 1..Len(file) : i < j => file[i].ts < file[j].ts
    BY DEF Sound, Fit
  <2>2. file[i].ts \in Nat /\ Len(file) \in Nat
    BY <1>5, Fields
  <2>3. CASE file[i].id \in acked
    BY <1>5, <2>1, <2>2, <2>3
  <2>4. CASE file[i].id = rec[t].id
    BY <1>5, <1>7, <2>1, <2>2, <2>4
  <2> QED
    BY <1>3, <2>1, <2>3, <2>4
<1> QED
  BY <1>2, <1>4, <1>6, <1>8, <1>9, EmptyHands

\* An append that fails leaves what it wrote, and what was not answered yet.
LEMMA OrderFails ==
    ASSUME OrderInv, NEW t \in Threads, AppendFails(t), UNCHANGED tornVars
    PROVE  OrderInv'
<1> USE DEF OrderInv
<1>1. TypeOK /\ pc[t] \in {"write", "save"}
  BY DEF TornTypeOK, AppendFails
<1>2. TornTypeOK'
  <2>1. pc[t] = "write" => rec[t] \in Record
    BY DEF Hands, InHand
  <2>2. TypeOK'
    BY <1>1, <2>1, AppendType
  <2> QED
    BY <2>2 DEF TornTypeOK, AppendFails, tornVars
<1>3. /\ lock' = NoThread /\ pc' = [pc EXCEPT ![t] = "idle"]
      /\ UNCHANGED <<file, lastTs, memTs, diskTs, nextId, acked>>
  BY DEF AppendFails
<1>4. MutualExclusion' /\ \A u \in Threads : pc'[u] \notin Holding
  <2>1. pc[t] \in Holding
    BY <1>1 DEF Holding
  <2> QED
    BY <1>1, <1>3, <2>1, LockGiven
<1>5. TsAhead' /\ AckedOld' /\ Sound(file)'
  BY <1>3 DEF TsAhead, AckedOld, Sound, Fit
<1> QED
  BY <1>2, <1>4, <1>5, EmptyHands

\* What the writes of an append do to the file, however far they get: the line
\* is behind the last, or what there is of it makes the last unreadable if that
\* has no newline.
LEMMA PutEffect ==
    ASSUME OrderInv, NEW t \in Threads, pc[t] = "write",
           NEW upTo \in Cuts \cup {"whole"}, Put(rec[t], upTo)
    PROVE  /\ file' \in Seq(Record) /\ Fit(file', acked, nextId, diskTs)
           /\ tail' \in {"whole", "newline", "line"} /\ cut' \in BOOLEAN
           /\ (~cut' => ~cut)
           /\ (upTo = "whole" <=> tail' = "whole")
           /\ \/ tail = "whole" /\ upTo \in {"whole", "newline"} /\ file' = Append(file, rec[t])
              \/ tail # "whole" /\ rec[t].id \notin IdSet(file') /\ tail' # "newline"
              \/ tail = "whole" /\ file' = file /\ tail' = "line"
           /\ (tail = "newline" => file # <<>> /\ file' = Front(file))
           /\ (tail # "newline" => IdSet(file) \subseteq IdSet(file'))
<1> USE DEF OrderInv
<1>1. /\ file \in Seq(Record) /\ nextId \in Nat /\ diskTs \in Nat
      /\ tail \in {"whole", "newline", "line"} /\ cut \in BOOLEAN
      /\ (tail = "newline" => file # <<>>)
  BY DEF TornTypeOK, TypeOK
<1>2. /\ rec[t] \in Record /\ rec[t].id < nextId /\ rec[t].ts = lastTs /\ diskTs < lastTs
      /\ rec[t].id \notin IdSet(file) \cup acked
  BY DEF Hands, InHand
<1>3. Fit(file, acked, nextId, diskTs)
  BY DEF Sound
<1>4. cut' \in BOOLEAN /\ (~cut' => ~cut)
  BY <1>1 DEF Put
<1>5. CASE tail = "newline"
  <2>1. file' = Front(file) /\ tail' = IF upTo = "whole" THEN "whole" ELSE "line"
    BY <1>5 DEF Put, Cuts
  <2>2. Front(file) = SubSeq(file, 1, Len(file) - 1) /\ Len(file) - 1 \in 0..Len(file)
    BY <1>1, <1>5, FrontIds
  <2>3. Front(file) \in Seq(Record) /\ IdSet(Front(file)) \subseteq IdSet(file)
    BY <1>1, <2>2, PrefixIds
  <2>4. Fit(Front(file), acked, nextId, diskTs)
    BY <1>1, <1>3, <2>2, FitPrefix
  <2> QED
    BY <1>1, <1>2, <1>4, <1>5, <2>1, <2>3, <2>4
<1>6. CASE tail = "line"
  <2>1. file' = file /\ tail' = IF upTo = "whole" THEN "whole" ELSE "line"
    BY <1>6 DEF Put, Cuts
  <2> QED
    BY <1>1, <1>2, <1>3, <1>4, <1>6, <2>1
<1>7. CASE tail = "whole" /\ upTo \in {"whole", "newline"}
  <2>1. file' = Append(file, rec[t]) /\ tail' = upTo
    BY <1>7 DEF Put
  <2>2. /\ Append(file, rec[t]) \in Seq(Record)
        /\ IdSet(file) \subseteq IdSet(Append(file, rec[t]))
    BY <1>1, <1>2, IdSetAppend
  <2>3. Fit(Append(file, rec[t]), acked, nextId, diskTs)
    BY <1>1, <1>2, <1>3, FitAppend
  <2> QED
    BY <1>1, <1>4, <1>7, <2>1, <2>2, <2>3
<1>8. CASE tail = "whole" /\ upTo \notin {"whole", "newline"}
  <2>1. file' = file /\ tail' = "line"
    BY <1>8 DEF Put
  <2> QED
    BY <1>1, <1>3, <1>4, <1>8, <2>1
<1> QED
  BY <1>1, <1>5, <1>6, <1>7, <1>8

\* The whole line reaches the file, or spoils what it is put behind.
LEMMA OrderPut ==
    ASSUME OrderInv, NEW t \in Threads, PutLine(t)
    PROVE  OrderInv'
<1> USE DEF OrderInv
<1>1. /\ TypeOK /\ pc[t] = "write" /\ Put(rec[t], "whole")
      /\ lock' = lock /\ pc' = [pc EXCEPT ![t] = "save"]
      /\ UNCHANGED <<clock, lastTs, memTs, diskTs, rec, lines, target, nextId, acked,
                     deleted, wiped, tornAppends, tornRewrites>>
  BY DEF TornTypeOK, PutLine
<1>2. /\ file' \in Seq(Record) /\ Fit(file', acked, nextId, diskTs)
      /\ tail' = "whole" /\ cut' \in BOOLEAN
      /\ \/ tail = "whole" /\ file' = Append(file, rec[t])
         \/ rec[t].id \notin IdSet(file')
  <2>1. "whole" \in Cuts \cup {"whole"}
    OBVIOUS
  <2>2. tail' = "whole"
    BY <1>1, <2>1, PutEffect
  <2> QED
    BY <1>1, <2>1, <2>2, PutEffect
<1>3. TornTypeOK'
  BY <1>1, <1>2 DEF TornTypeOK, TypeOK, Steps
<1>4. /\ MutualExclusion' /\ pc'[t] = "save"
      /\ \A u \in Threads : u # t => pc'[u] = pc[u] /\ pc[u] \notin Holding
  <2>1. "save" \in Holding /\ pc[t] \in Holding
    BY <1>1 DEF Holding
  <2> QED
    BY <1>1, <2>1, LockKept
<1>5. TsAhead' /\ AckedOld'
  BY <1>1 DEF TsAhead, AckedOld
<1>6. Sound(file)'
  BY <1>1, <1>2 DEF Sound, Fit
<1>7. /\ rec[t] \in Record /\ rec[t].id < nextId /\ rec[t].ts = lastTs
      /\ rec[t].id \notin IdSet(file)
  BY <1>1 DEF Hands, InHand
<1>8. \A i \in 1..Len(file') : file'[i].id = rec[t].id => i = Len(file') /\ file'[i].ts = lastTs
  <2>1. CASE file' = Append(file, rec[t])
    <3>1. /\ file \in Seq(Record) /\ Len(file') = Len(file) + 1 /\ Len(file) \in Nat
          /\ \A i \in 1..Len(file) : file'[i] = file[i]
          /\ file'[Len(file) + 1] = rec[t]
      BY <1>1, <1>7, <2>1 DEF TypeOK
    <3>2. \A i \in 1..Len(file) : file'[i].id # rec[t].id
      BY <1>7, <3>1 DEF IdSet
    <3>3. \A i \in 1..Len(file') : i \in 1..Len(file) \/ i = Len(file')
      BY <3>1
    <3> QED
      BY <1>7, <3>1, <3>2, <3>3
  <2>2. CASE rec[t].id \notin IdSet(file')
    BY <2>2 DEF IdSet
  <2> QED
    BY <1>2, <2>1, <2>2
<1>9. OnItsWay'
  BY <1>1, <1>2, <1>4, <1>7, <1>8 DEF OnItsWay, Holding
<1>10. InHand' /\ LinesSound' /\ RewriteEmpty' /\ TruncateHolds'
  BY <1>4 DEF InHand, LinesSound, RewriteEmpty, TruncateHolds, Holding
<1> QED
  BY <1>3, <1>4, <1>5, <1>6, <1>9, <1>10 DEF Hands

\* Part of the line reaches the file, and the lock is free.
LEMMA OrderTorn ==
    ASSUME OrderInv, NEW t \in Threads, AppendTorn(t)
    PROVE  OrderInv'
<1> USE DEF OrderInv
<1>1. PICK upTo \in Cuts : Put(rec[t], upTo)
  BY DEF AppendTorn
<1>2. /\ TypeOK /\ pc[t] = "write"
      /\ lock' = NoThread /\ pc' = [pc EXCEPT ![t] = "idle"]
      /\ rec' = [rec EXCEPT ![t] = NoRecord]
      /\ tornAppends' = tornAppends + 1
      /\ UNCHANGED <<clock, lastTs, memTs, diskTs, lines, target, nextId, acked, deleted,
                     wiped, tornRewrites>>
  BY DEF TornTypeOK, AppendTorn
<1>3. /\ file' \in Seq(Record) /\ Fit(file', acked, nextId, diskTs)
      /\ tail' \in {"whole", "newline", "line"} /\ cut' \in BOOLEAN
      /\ (tail' = "newline" => file' # <<>>)
  <2>1. /\ file' \in Seq(Record) /\ Fit(file', acked, nextId, diskTs)
        /\ tail' \in {"whole", "newline", "line"} /\ cut' \in BOOLEAN
        /\ (tail' = "newline" => file' = Append(file, rec[t]))
    BY <1>1, <1>2, PutEffect
  <2>2. rec[t] \in Record /\ file \in Seq(Record)
    BY <1>2 DEF Hands, InHand, TypeOK
  <2>3. Append(file, rec[t]) # <<>>
    BY <2>2
  <2> QED
    BY <2>1, <2>3
<1>4. TornTypeOK'
  <2>1. rec' \in [Threads -> Record \cup {NoRecord}] /\ pc' \in [Threads -> Steps]
    BY <1>2 DEF TypeOK, Steps
  <2>2. TypeOK'
    BY <1>2, <1>3, <2>1 DEF TypeOK
  <2> QED
    BY <1>2, <1>3, <2>2 DEF TornTypeOK
<1>5. MutualExclusion' /\ \A u \in Threads : pc'[u] \notin Holding
  <2>1. pc[t] \in Holding
    BY <1>2 DEF Holding
  <2> QED
    BY <1>2, <2>1, LockGiven
<1>6. TsAhead' /\ AckedOld'
  BY <1>2 DEF TsAhead, AckedOld
<1>7. Sound(file)'
  BY <1>2, <1>3 DEF Sound, Fit
<1> QED
  BY <1>4, <1>5, <1>6, <1>7, EmptyHands

-----------------------------------------------------------------------------
(* Delete.                                                                 *)

\* The lines read are all but one of the file.
LEMMA OrderRead ==
    ASSUME OrderInv, NEW t \in Threads, DeleteRead(t), ~cut, UNCHANGED tornVars
    PROVE  OrderInv'
<1> USE DEF OrderInv
<1>1. PICK i \in 1..Len(file) :
        /\ lines' = [lines EXCEPT ![t] = RemoveAt(file, i)]
        /\ target' = [target EXCEPT ![t] = file[i].id]
  BY DEF DeleteRead
<1>2. /\ TypeOK /\ lock = NoThread /\ lock' = t /\ pc' = [pc EXCEPT ![t] = "truncate"]
      /\ UNCHANGED <<file, lastTs, memTs, diskTs, nextId, acked, cut>>
  BY DEF TornTypeOK, DeleteRead, tornVars
<1>3. TornTypeOK'
  <2>1. TypeOK'
    BY <1>2, DeleteType DEF DeleteStep
  <2> QED
    BY <1>2, <2>1 DEF TornTypeOK, tornVars
<1>4. /\ MutualExclusion' /\ pc'[t] = "truncate"
      /\ \A u \in Threads : pc[u] \notin Holding
      /\ \A u \in Threads : u # t => pc'[u] = pc[u]
  <2>1. "truncate" \in Holding
    BY DEF Holding
  <2> QED
    BY <1>2, <2>1, LockTaken
<1>5. TsAhead' /\ AckedOld' /\ Sound(file)'
  BY <1>2 DEF TsAhead, AckedOld, Sound, Fit
<1>6. lines'[t] = RemoveAt(file, i) /\ target'[t] = file[i].id /\ file \in Seq(Record)
  BY <1>1, <1>2 DEF TypeOK
<1>7. LinesSound'
  <2>1. Fit(RemoveAt(file, i), acked, nextId, diskTs)
    BY <1>6, FitRemoveAt DEF Sound
  <2>2. Sound(lines[t])'
    BY <1>2, <1>6, <2>1 DEF Sound, Fit
  <2> QED
    BY <1>2, <1>4, <2>2 DEF LinesSound, Holding
<1>8. TruncateHolds'
  <2>1. IdSet(file) = IdSet(RemoveAt(file, i)) \cup {file[i].id}
    BY <1>6, RemoveAtIds
  <2>2. IdSet(file)' = IdSet(file) /\ IdSet(lines[t])' = IdSet(RemoveAt(file, i))
    BY <1>2, <1>6 DEF IdSet
  <2> QED
    BY <1>4, <1>6, <2>1, <2>2 DEF TruncateHolds, Holding
<1>9. InHand' /\ OnItsWay' /\ RewriteEmpty'
  BY <1>4 DEF InHand, OnItsWay, RewriteEmpty, Holding
<1> QED
  BY <1>3, <1>4, <1>5, <1>7, <1>8, <1>9 DEF Hands

\* The file is empty and whole.
LEMMA OrderTruncate ==
    ASSUME OrderInv, NEW t \in Threads, DeleteTruncate(t), tail' = "whole",
           UNCHANGED <<cut, tornAppends, tornRewrites>>
    PROVE  OrderInv'
<1> USE DEF OrderInv
<1>1. /\ TypeOK /\ pc[t] = "truncate" /\ file' = <<>>
      /\ lock' = lock /\ pc' = [pc EXCEPT ![t] = "rewrite"]
      /\ UNCHANGED <<lastTs, memTs, diskTs, nextId, acked, cut, lines>>
  BY DEF TornTypeOK, DeleteTruncate
<1>2. TornTypeOK'
  <2>1. TypeOK'
    BY <1>1, DeleteType DEF DeleteStep
  <2> QED
    BY <1>1, <2>1 DEF TornTypeOK
<1>3. /\ MutualExclusion' /\ pc'[t] = "rewrite"
      /\ \A u \in Threads : u # t => pc'[u] = pc[u] /\ pc[u] \notin Holding
  <2>1. "rewrite" \in Holding /\ pc[t] \in Holding
    BY <1>1 DEF Holding
  <2> QED
    BY <1>1, <2>1, LockKept
<1>4. TsAhead' /\ AckedOld' /\ Sound(file)'
  BY <1>1 DEF TsAhead, AckedOld, Sound, Fit
<1>5. LinesSound'
  <2>1. Sound(lines[t]) /\ ~cut
    BY <1>1 DEF Hands, LinesSound
  <2>2. Sound(lines[t])'
    BY <1>1, <2>1 DEF Sound, Fit
  <2> QED
    BY <1>1, <1>3, <2>1, <2>2 DEF LinesSound, Holding
<1>6. InHand' /\ OnItsWay' /\ RewriteEmpty' /\ TruncateHolds'
  BY <1>1, <1>3 DEF InHand, OnItsWay, RewriteEmpty, TruncateHolds, Holding
<1> QED
  BY <1>2, <1>3, <1>4, <1>5, <1>6 DEF Hands

\* The lines that were held are the file.
LEMMA OrderRewrite ==
    ASSUME OrderInv, NEW t \in Threads, DeleteRewrite(t), UNCHANGED tornVars
    PROVE  OrderInv'
<1> USE DEF OrderInv
<1>1. /\ TypeOK /\ pc[t] = "rewrite" /\ file' = Overwrite(lines[t], file)
      /\ lock' = NoThread /\ pc' = [pc EXCEPT ![t] = "idle"]
      /\ UNCHANGED <<lastTs, memTs, diskTs, nextId, acked>>
  BY DEF TornTypeOK, DeleteRewrite
<1>2. file' = lines[t] /\ file = <<>>
  BY <1>1, OverwriteEmpty DEF Hands, RewriteEmpty, TypeOK
<1>3. tail # "newline"
  BY <1>2 DEF TornTypeOK
<1>4. TornTypeOK'
  <2>1. TypeOK'
    BY <1>1, DeleteType DEF DeleteStep
  <2> QED
    BY <1>3, <2>1 DEF TornTypeOK, tornVars
<1>5. MutualExclusion' /\ \A u \in Threads : pc'[u] \notin Holding
  <2>1. pc[t] \in Holding
    BY <1>1 DEF Holding
  <2> QED
    BY <1>1, <2>1, LockGiven
<1>6. TsAhead' /\ AckedOld'
  BY <1>1 DEF TsAhead, AckedOld
<1>7. Sound(file)'
  <2>1. Sound(lines[t])
    BY <1>1 DEF Hands, LinesSound
  <2> QED
    BY <1>1, <1>2, <2>1 DEF Sound, Fit
<1> QED
  BY <1>2, <1>3, <1>4, <1>5, <1>6, <1>7, EmptyHands

-----------------------------------------------------------------------------
(* The state file, the clock and deaths.                                   *)

\* The log is left alone, and what the state file covers only grows.
LEMMA OrderOther ==
    ASSUME OrderInv, ((SaveState \/ SetClock) /\ UNCHANGED tornVars) \/ UNCHANGED allVars
    PROVE  OrderInv'
<1> USE DEF OrderInv
<1>1. /\ UNCHANGED <<file, lastTs, memTs, lock, pc, rec, lines, target, nextId, acked>>
      /\ UNCHANGED <<tail, cut, tornAppends, tornRewrites>>
      /\ diskTs' = diskTs \/ (lock = NoThread /\ diskTs' = memTs)
  BY DEF SaveState, SetClock, allVars, vars, tornVars
<1>2. TypeOK /\ diskTs \in Nat /\ memTs = lastTs /\ diskTs <= lastTs /\ lastTs \in Nat
  BY DEF TornTypeOK, TypeOK, TsAhead
<1>3. TornTypeOK'
  <2>1. TypeOK'
    <3>1. CASE UNCHANGED allVars
      BY <1>2, <3>1 DEF allVars, vars, TypeOK
    <3>2. CASE SaveState \/ SetClock
      BY <1>2, <3>2, OtherType
    <3> QED
      BY <3>1, <3>2
  <2> QED
    BY <1>1, <2>1 DEF TornTypeOK
<1>4. MutualExclusion' /\ AckedOld' /\ TsAhead'
  BY <1>1, <1>2 DEF MutualExclusion, AckedOld, TsAhead
<1>5. ASSUME NEW s \in Seq(Record), Sound(s)
      PROVE  Fit(s, acked', nextId', diskTs')
  <2>1. nextId \in Nat /\ diskTs' \in Nat /\ diskTs <= diskTs'
    BY <1>1, <1>2 DEF TypeOK
  <2>2. Fit(s, acked, nextId, diskTs')
    BY <1>2, <1>5, <2>1, FitLater DEF Sound
  <2> QED
    BY <1>1, <2>2
<1>6. Sound(file)'
  <2>1. Fit(file, acked', nextId', diskTs')
    BY <1>2, <1>5 DEF TypeOK
  <2> QED
    BY <1>1, <2>1 DEF Sound
<1>7. LinesSound'
  <2> SUFFICES ASSUME NEW t \in Threads, pc[t] \in {"truncate", "rewrite"}
               PROVE  Sound(lines[t])' /\ ~cut'
    BY <1>1 DEF LinesSound
  <2>1. Sound(lines[t]) /\ ~cut /\ lines[t] \in Seq(Record)
    BY <1>2 DEF Hands, LinesSound, TypeOK
  <2>2. Fit(lines[t], acked', nextId', diskTs')
    BY <1>5, <2>1
  <2> QED
    BY <1>1, <2>1, <2>2 DEF Sound
<1>8. InHand'
  <2>1. ASSUME NEW t \in Threads, pc[t] = "write"
        PROVE  diskTs' = diskTs
    BY <1>1, <2>1, ThreadsAssumption DEF MutualExclusion, Holding
  <2> QED
    BY <1>1, <2>1 DEF Hands, InHand, IdSet
<1>9. OnItsWay' /\ RewriteEmpty'
  BY <1>1 DEF Hands, OnItsWay, RewriteEmpty
<1>10. TruncateHolds'
  BY <1>1 DEF Hands, TruncateHolds, IdSet
<1> QED
  BY <1>3, <1>4, <1>6, <1>7, <1>8, <1>9, <1>10 DEF Hands

\* A new server goes on with what the files have.
LEMMA OrderRestarted ==
    ASSUME OrderInv, Restarted, file' \in Seq(Record), Fit(file', acked, nextId, diskTs),
           wiped' \subseteq Nat,
           tail' \in {"whole", "newline", "line"}, cut' \in BOOLEAN,
           tail' = "newline" => file' # <<>>,
           tornAppends' \in Nat, tornRewrites' \in Nat
    PROVE  OrderInv'
<1> USE DEF OrderInv
<1>1. TypeOK /\ diskTs \in Nat
  BY DEF TornTypeOK, TypeOK
<1>2. TypeOK'
  <2>1. pc' \in [Threads -> Steps] /\ rec' \in [Threads -> Record \cup {NoRecord}]
    BY DEF Restarted, Steps
  <2>2. lines' \in [Threads -> Seq(Record)] /\ target' \in [Threads -> Nat]
    BY EmptyFile DEF Restarted
  <2> QED
    BY <1>1, <2>1, <2>2 DEF Restarted, TypeOK
<1>3. TornTypeOK'
  BY <1>2 DEF TornTypeOK
<1>4. \A u \in Threads : pc'[u] \notin Holding
  BY DEF Restarted, Holding
<1>5. MutualExclusion'
  BY <1>4, ThreadsAssumption DEF Restarted, MutualExclusion
<1>6. TsAhead' /\ AckedOld'
  BY <1>1 DEF Restarted, TsAhead, AckedOld
<1>7. Sound(file)'
  BY DEF Restarted, Sound, Fit
<1> QED
  BY <1>3, <1>4, <1>5, <1>6, <1>7, EmptyHands

\* Ids in the hands of a delete are numbers.
LEMMA HeldType == TypeOK => HeldIds \subseteq Nat /\ wiped \subseteq Nat
  BY IdSetType DEF HeldIds, Rewriting, TypeOK

\* The lines of a rewrite that were flushed are as good as all of them.
LEMMA Flushed ==
    ASSUME OrderInv, NEW t \in Rewriting, NEW n \in 0..Len(lines[t])
    PROVE  /\ SubSeq(lines[t], 1, n) \in Seq(Record)
           /\ Fit(SubSeq(lines[t], 1, n), acked, nextId, diskTs)
           /\ Len(SubSeq(lines[t], 1, n)) = n
<1>1. t \in Threads /\ pc[t] = "rewrite" /\ lines[t] \in Seq(Record)
  BY DEF OrderInv, TornTypeOK, TypeOK, Rewriting
<1>2. Fit(lines[t], acked, nextId, diskTs)
  BY <1>1 DEF OrderInv, Hands, LinesSound, Sound
<1> QED
  BY <1>1, <1>2, PrefixIds, FitPrefix

\* What a rewrite that stops in the middle of a line leaves.
LEMMA Torn ==
    ASSUME OrderInv, NEW t \in Threads, TearRewrite(t)
    PROVE  /\ file' \in Seq(Record) /\ Fit(file', acked, nextId, diskTs)
           /\ tail' \in {"whole", "newline", "line"} /\ (tail' = "newline" => file' # <<>>)
           /\ cut' \in BOOLEAN /\ wiped' \subseteq Nat
           /\ tornAppends' \in Nat /\ tornRewrites' \in Nat
<1>1. /\ TypeOK /\ tornAppends \in Nat /\ tornRewrites \in Nat
      /\ HeldIds \subseteq Nat /\ wiped \subseteq Nat
  BY HeldType DEF OrderInv, TornTypeOK
<1>2. t \in Rewriting
  BY DEF TearRewrite, Rewriting
<1>3. wiped' \subseteq Nat /\ tornAppends' \in Nat /\ tornRewrites' \in Nat
  <2>1. /\ wiped' = wiped \cup (HeldIds \ IdSet(file'))
        /\ tornAppends' = tornAppends /\ tornRewrites' = tornRewrites + 1
    BY DEF TearRewrite
  <2>2. tornAppends' \in Nat /\ tornRewrites' \in Nat
    BY <1>1, <2>1
  <2>3. wiped' \subseteq Nat
    BY <1>1, <2>1
  <2> QED
    BY <2>2, <2>3
<1>4. PICK upTo \in Cuts, n \in 0..Len(lines[t]) :
        /\ cut' = (upTo = "character")
        /\ \/ /\ n < Len(lines[t])
              /\ file' = SubSeq(lines[t], 1, IF upTo = "newline" THEN n + 1 ELSE n)
              /\ tail' = IF upTo = "newline" THEN "newline" ELSE "line"
           \/ file' = SubSeq(lines[t], 1, n) /\ tail' = "line"
  BY DEF TearRewrite
<1>5. Len(lines[t]) \in Nat
  BY <1>1 DEF TypeOK
<1>6. PICK k \in 0..Len(lines[t]) :
        /\ file' = SubSeq(lines[t], 1, k)
        /\ tail' = "line" \/ (tail' = "newline" /\ k > 0)
  <2>1. n < Len(lines[t]) => n + 1 \in 0..Len(lines[t]) /\ n + 1 > 0
    BY <1>5
  <2> QED
    BY <1>4, <2>1
<1>7. /\ file' \in Seq(Record) /\ Fit(file', acked, nextId, diskTs) /\ Len(file') = k
  BY <1>2, <1>6, Flushed
<1>8. /\ tail' \in {"whole", "newline", "line"}
      /\ (tail' = "newline" => file' # <<>>)
  <2>1. file' = <<>> => Len(file') = 0
    OBVIOUS
  <2> QED
    BY <1>6, <1>7, <2>1
<1> QED
  BY <1>3, <1>4, <1>7, <1>8

\* A delete that raises gives the lock back; the lines that stay are in order.
LEMMA OrderCutShort ==
    ASSUME OrderInv, NEW t \in Threads,
           DeleteTorn(t) \/ (DeleteFails(t) /\ UNCHANGED tornVars)
    PROVE  OrderInv'
<1> USE DEF OrderInv
<1>1. /\ TypeOK /\ MutualExclusion /\ pc[t] \in {"truncate", "rewrite"}
      /\ tail \in {"whole", "newline", "line"} /\ cut \in BOOLEAN
      /\ (tail = "newline" => file # <<>>)
      /\ tornAppends \in Nat /\ tornRewrites \in Nat
      /\ HeldIds \subseteq Nat /\ wiped \subseteq Nat
  BY HeldType DEF TornTypeOK, DeleteTorn, TearRewrite, DeleteFails
<1>2. /\ lock' = NoThread /\ pc' = [pc EXCEPT ![t] = "idle"]
      /\ lines' = [lines EXCEPT ![t] = <<>>] /\ target' = [target EXCEPT ![t] = 0]
      /\ UNCHANGED <<clock, lastTs, memTs, diskTs, rec, nextId, acked, deleted>>
  BY DEF DeleteTorn, DeleteFails
<1>3. /\ file' \in Seq(Record) /\ Fit(file', acked, nextId, diskTs)
      /\ tail' \in {"whole", "newline", "line"} /\ (tail' = "newline" => file' # <<>>)
      /\ cut' \in BOOLEAN /\ wiped' \subseteq Nat
      /\ tornAppends' \in Nat /\ tornRewrites' \in Nat
  <2>1. CASE DeleteTorn(t)
    BY <2>1, Torn DEF DeleteTorn
  <2>2. CASE DeleteFails(t) /\ UNCHANGED tornVars
    <3>1. wiped' \subseteq Nat
      BY <1>1, <2>2 DEF DeleteFails
    <3>2. CASE UNCHANGED file
      BY <1>1, <2>2, <3>1, <3>2 DEF tornVars, Sound, TypeOK
    <3>3. CASE pc[t] = "rewrite" /\ \E n \in 0..Len(lines[t]) : file' = SubSeq(lines[t], 1, n)
      <4>1. t \in Rewriting /\ file = <<>>
        BY <3>3 DEF Rewriting, Hands, RewriteEmpty
      <4>2. tail' # "newline"
        BY <1>1, <2>2, <4>1 DEF tornVars
      <4>3. file' \in Seq(Record) /\ Fit(file', acked, nextId, diskTs)
        BY <3>3, <4>1, Flushed
      <4> QED
        BY <1>1, <2>2, <3>1, <4>2, <4>3 DEF tornVars
    <3> QED
      BY <2>2, <3>2, <3>3 DEF DeleteFails
  <2> QED
    BY <2>1, <2>2
<1>4. TypeOK'
  <2>1. pc' \in [Threads -> Steps]
    BY <1>1, <1>2 DEF TypeOK, Steps
  <2>2. lines' \in [Threads -> Seq(Record)] /\ target' \in [Threads -> Nat]
    BY <1>1, <1>2, EmptyFile DEF TypeOK
  <2> QED
    BY <1>1, <1>2, <1>3, <2>1, <2>2 DEF TypeOK
<1>5. TornTypeOK'
  BY <1>3, <1>4 DEF TornTypeOK
<1>6. MutualExclusion' /\ \A u \in Threads : pc'[u] \notin Holding
  <2>1. pc[t] \in Holding
    BY <1>1 DEF Holding
  <2> QED
    BY <1>1, <1>2, <2>1, LockGiven
<1>7. TsAhead' /\ AckedOld'
  BY <1>2 DEF TsAhead, AckedOld
<1>8. Sound(file)'
  BY <1>2, <1>3 DEF Sound, Fit
<1> QED
  BY <1>5, <1>6, <1>7, <1>8, EmptyHands

\* Wherever the server dies, the lines that stay are in order.
LEMMA OrderDeath ==
    ASSUME OrderInv, DiesBetweenLines \/ DiesInAppend \/ DiesInRewrite
    PROVE  OrderInv'
<1>1. /\ TypeOK /\ file \in Seq(Record) /\ Fit(file, acked, nextId, diskTs)
      /\ tail \in {"whole", "newline", "line"} /\ cut \in BOOLEAN
      /\ (tail = "newline" => file # <<>>)
      /\ tornAppends \in Nat /\ tornRewrites \in Nat
      /\ HeldIds \subseteq Nat /\ wiped \subseteq Nat
  BY HeldType DEF OrderInv, TornTypeOK, TypeOK, Sound
<1>2. CASE DiesBetweenLines
  <2>1. /\ Restarted /\ UNCHANGED <<cut, tornAppends, tornRewrites>>
        /\ wiped' \subseteq Nat
    BY <1>1, <1>2 DEF DiesBetweenLines
  <2>2. /\ file' \in Seq(Record) /\ Fit(file', acked, nextId, diskTs)
        /\ tail' \in {"whole", "newline", "line"} /\ (tail' = "newline" => file' # <<>>)
    <3>1. CASE UNCHANGED <<file, tail>>
      BY <1>1, <3>1
    <3>2. CASE \E t \in Rewriting : \E n \in 0..Len(lines[t]) :
                 file' = SubSeq(lines[t], 1, n) /\ tail' = "whole"
      BY <3>2, Flushed
    <3> QED
      BY <1>2, <3>1, <3>2 DEF DiesBetweenLines
  <2> QED
    BY <1>1, <2>1, <2>2, OrderRestarted
<1>3. CASE DiesInAppend
  <2>1. PICK t \in Threads, upTo \in Cuts : pc[t] = "write" /\ Put(rec[t], upTo)
    BY <1>3 DEF DiesInAppend
  <2>2. /\ file' \in Seq(Record) /\ Fit(file', acked, nextId, diskTs)
        /\ tail' \in {"whole", "newline", "line"} /\ cut' \in BOOLEAN
        /\ (tail' = "newline" => file' = Append(file, rec[t]))
    BY <2>1, PutEffect
  <2>3. Append(file, rec[t]) # <<>>
    <3>1. rec[t] \in Record
      BY <2>1 DEF OrderInv, Hands, InHand
    <3> QED
      BY <1>1, <3>1
  <2>4. Restarted /\ wiped' \subseteq Nat /\ tornAppends' \in Nat /\ tornRewrites' \in Nat
    BY <1>1, <1>3 DEF DiesInAppend
  <2> QED
    BY <2>2, <2>3, <2>4, OrderRestarted
<1>4. CASE DiesInRewrite
  <2>1. PICK t \in Threads : TearRewrite(t)
    BY <1>4 DEF DiesInRewrite
  <2>2. Restarted
    BY <1>4 DEF DiesInRewrite
  <2> QED
    BY <2>1, <2>2, Torn, OrderRestarted
<1> QED
  BY <1>2, <1>3, <1>4

-----------------------------------------------------------------------------

\* The invariant holds at the start and after every step.
LEMMA OrderInvInit == TornInit => OrderInv
<1> SUFFICES ASSUME TornInit PROVE OrderInv
  OBVIOUS
<1>1. Init
  BY DEF TornInit
<1>2. TypeOK /\ MutualExclusion
  BY <1>1, LogInvInit DEF LogInv
<1>3. TornTypeOK
  BY <1>2 DEF TornInit, TornTypeOK
<1>4. AckedOld /\ TsAhead /\ Sound(file)
  BY <1>1 DEF Init, AckedOld, TsAhead, Sound, Fit
<1>5. Hands
  BY <1>1 DEF Init, Hands, InHand, OnItsWay, LinesSound, RewriteEmpty, TruncateHolds
<1> QED
  BY <1>2, <1>3, <1>4, <1>5 DEF OrderInv

LEMMA OrderInvStep == OrderInv /\ [TornNext]_allVars => OrderInv'
<1> SUFFICES ASSUME OrderInv, [TornNext]_allVars PROVE OrderInv'
  OBVIOUS
<1>1. ASSUME NEW t \in Threads,
             (StartAppend(t) \/ AppendSave(t) \/ AppendFails(t)) /\ UNCHANGED tornVars
      PROVE  OrderInv'
  BY <1>1, OrderStart, OrderSave, OrderFails
<1>2. ASSUME NEW t \in Threads, PutLine(t) \/ AppendTorn(t) PROVE OrderInv'
  BY <1>2, OrderPut, OrderTorn
<1>3. ASSUME NEW t \in Threads, MendingDelete(t) PROVE OrderInv'
  BY <1>3, OrderRead, OrderTruncate, OrderRewrite DEF MendingDelete
<1>4. CASE ((SaveState \/ SetClock) /\ UNCHANGED tornVars) \/ UNCHANGED allVars
  BY <1>4, OrderOther
<1>5. CASE DiesBetweenLines \/ DiesInAppend \/ DiesInRewrite
  BY <1>5, OrderDeath
<1>6. ASSUME NEW t \in Threads, DeleteTorn(t) \/ (DeleteFails(t) /\ UNCHANGED tornVars)
      PROVE  OrderInv'
  BY <1>6, OrderCutShort
<1> QED
  BY <1>1, <1>2, <1>3, <1>4, <1>5, <1>6 DEF TornNext

\* Types.
THEOREM TornTypes == TornSpec => []TornTypeOK
<1>1. OrderInv => TornTypeOK
  BY DEF OrderInv
<1> QED
  BY <1>1, OrderInvInit, OrderInvStep, PTL DEF TornSpec

\* What follows an answered message in the file is later than it, whatever
\* writes stopped in the middle, crashes and clock steps there were.
THEOREM AckedInOrderAlways == TornSpec => []AckedInOrder
<1>1. OrderInv => AckedInOrder
  BY DEF OrderInv, Sound, Fit, AckedInOrder
<1> QED
  BY <1>1, OrderInvInit, OrderInvStep, PTL DEF TornSpec

-----------------------------------------------------------------------------
(* The inductive invariant behind LossPerTear.                             *)

\* Answered messages that are gone.
Lost == acked \ (IdSet(file) \cup HeldIds \cup deleted \cup wiped)

\* Messages about to be answered whose line was spoiled.
Glued == {rec[t].id : t \in {u \in Threads : pc[u] = "save" /\ rec[u].id \notin IdSet(file)}}

\* An answered message that the next line will spoil.
Loose == IF tail = "newline" THEN {file[Len(file)].id} \cap acked ELSE {}

AtRisk == Lost \cup Glued \cup Loose

\* The next line is spoiled too, if the file does not end whole.
NextSpoiled == IF tail = "whole" THEN 0 ELSE 1
Allowed == tornAppends + 2 * tornRewrites

RiskInv == ~cut => IsFiniteSet(AtRisk) /\ Cardinality(AtRisk) + NextSpoiled <= Allowed

\* A set that grows by one element at most is paid for.
LEMMA Pay ==
    ASSUME NEW S, NEW T, NEW x, NEW k \in {0, 1},
           NEW f \in Nat, NEW g \in Nat, NEW m \in Nat, NEW n \in Nat,
           IsFiniteSet(S), Cardinality(S) + f <= m,
           T \subseteq S \cup (IF k = 0 THEN {} ELSE {x}), g + k + m <= n + f
    PROVE  IsFiniteSet(T) /\ Cardinality(T) + g <= n
<1> DEFINE U == S \cup (IF k = 0 THEN {} ELSE {x})
<1>1. Cardinality(S) \in Nat
  BY FS_CardinalityType
<1>2. IsFiniteSet(U) /\ Cardinality(U) <= Cardinality(S) + k
  <2>1. CASE k = 0
    <3>1. U = S
      BY <2>1
    <3> QED
      BY <1>1, <2>1, <3>1
  <2>2. CASE k = 1
    <3>1. U = S \cup {x}
      BY <2>2
    <3>2. /\ IsFiniteSet(U)
          /\ Cardinality(U) = IF x \in S THEN Cardinality(S) ELSE Cardinality(S) + 1
      BY <3>1, FS_AddElement
    <3> QED
      BY <1>1, <2>2, <3>2
  <2> QED
    BY <2>1, <2>2
<1>3. Cardinality(U) \in Nat
  BY <1>2, FS_CardinalityType
<1>4. T \in SUBSET U
  OBVIOUS
<1>5. IsFiniteSet(T) /\ Cardinality(T) <= Cardinality(U)
  BY <1>2, <1>4, FS_Subset
<1>6. Cardinality(T) \in Nat
  BY <1>5, FS_CardinalityType
<1> HIDE DEF U
<1> QED
  BY <1>1, <1>2, <1>3, <1>5, <1>6

LEMMA RiskPaid ==
    ASSUME RiskInv, TornTypeOK, TornTypeOK', ~cut' => ~cut, NEW x, NEW k \in {0, 1},
           AtRisk' \subseteq AtRisk \cup (IF k = 0 THEN {} ELSE {x}),
           NextSpoiled' + k + Allowed <= Allowed' + NextSpoiled
    PROVE  RiskInv'
<1>1. tornAppends \in Nat /\ tornRewrites \in Nat /\ tornAppends' \in Nat /\ tornRewrites' \in Nat
  BY DEF TornTypeOK
<1>2. Allowed \in Nat /\ Allowed' \in Nat
  <2>1. \A m, n \in Nat : m + 2 * n \in Nat
    OBVIOUS
  <2> QED
    BY <1>1, <2>1 DEF Allowed
<1>3. NextSpoiled \in Nat /\ NextSpoiled' \in Nat
  BY DEF NextSpoiled
<1> SUFFICES ASSUME ~cut'
             PROVE  IsFiniteSet(AtRisk') /\ Cardinality(AtRisk') + NextSpoiled' <= Allowed'
  BY DEF RiskInv
<1>4. IsFiniteSet(AtRisk) /\ Cardinality(AtRisk) + NextSpoiled <= Allowed
  BY DEF RiskInv
<1> QED
  BY ONLY <1>2, <1>3, <1>4, Pay, k \in {0, 1},
     AtRisk' \subseteq AtRisk \cup (IF k = 0 THEN {} ELSE {x}),
     NextSpoiled' + k + Allowed <= Allowed' + NextSpoiled

\* Nothing is at risk anew while the log and its holders are left alone.
LEMMA RiskQuiet ==
    ASSUME RiskInv, TornTypeOK, TornTypeOK',
           UNCHANGED <<file, acked, deleted, wiped, tail, cut, tornAppends, tornRewrites>>,
           \A t \in Threads : pc'[t] = "save" => pc[t] = "save" /\ rec'[t] = rec[t],
           \A t \in Threads : pc'[t] = "rewrite" <=> pc[t] = "rewrite",
           \A t \in Threads : pc[t] = "rewrite" =>
              lines'[t] = lines[t] /\ target'[t] = target[t]
    PROVE  RiskInv'
<1>1. IdSet(file)' = IdSet(file)
  BY DEF IdSet
<1>2. HeldIds' = HeldIds
  <2>1. Rewriting' = Rewriting
    BY DEF Rewriting
  <2>2. \A t \in Rewriting : IdSet(lines[t])' = IdSet(lines[t]) /\ target'[t] = target[t]
    BY DEF Rewriting, IdSet
  <2> QED
    BY <2>1, <2>2 DEF HeldIds
<1>3. Lost' = Lost
  BY <1>1, <1>2 DEF Lost
<1>4. Glued' \subseteq Glued
  BY <1>1 DEF Glued
<1>5. Loose' = Loose
  BY DEF Loose
<1>6. AtRisk' \subseteq AtRisk
  BY <1>3, <1>4, <1>5 DEF AtRisk
<1>7. NextSpoiled' = NextSpoiled /\ Allowed' = Allowed /\ NextSpoiled \in Nat /\ Allowed \in Nat
  BY DEF NextSpoiled, Allowed, TornTypeOK
<1> QED
  BY <1>6, <1>7, RiskPaid

\* Nobody is about to answer, and nobody holds lines.
LEMMA NobodyInside ==
    ASSUME \A u \in Threads : pc'[u] \notin Holding
    PROVE  Glued' = {} /\ HeldIds' = {}
<1>1. \A u \in Threads : pc'[u] # "save" /\ pc'[u] # "rewrite"
  BY DEF Holding
<1>2. Rewriting' = {}
  BY <1>1 DEF Rewriting
<1> QED
  BY <1>1, <1>2 DEF Glued, HeldIds

\* What is at risk when the holder of the lock is inside append.
LEMMA InAppend ==
    ASSUME OrderInv, NEW t \in Threads, pc[t] \in {"write", "save"}
    PROVE  /\ HeldIds = {}
           /\ pc[t] = "write" => Glued = {}
           /\ pc[t] = "save" => Glued = {rec[t].id} \ IdSet(file)
<1>1. \A u \in Threads : u # t => pc[u] \notin Holding
  BY DEF OrderInv, MutualExclusion, Holding
<1>2. Rewriting = {}
  BY <1>1 DEF Rewriting, Holding
<1>3. HeldIds = {}
  BY <1>2 DEF HeldIds
<1>4. \A u \in Threads : u # t => pc[u] # "save"
  BY <1>1 DEF Holding
<1> QED
  BY <1>3, <1>4 DEF Glued

\* What the writes of an append take from the file can be read before them, or
\* was at risk already.
LEMMA PutRisk ==
    ASSUME OrderInv, NEW t \in Threads, pc[t] = "write",
           NEW upTo \in Cuts \cup {"whole"}, Put(rec[t], upTo), UNCHANGED <<acked, deleted, wiped>>
    PROVE  Lost' \subseteq Lost \cup Loose /\ Loose' = {}
<1>1. /\ file \in Seq(Record)
      /\ rec[t] \in Record /\ rec[t].id \notin acked
  BY DEF OrderInv, TornTypeOK, TypeOK, Hands, InHand
<1>2. /\ (tail' = "newline" => file' = Append(file, rec[t]))
      /\ (tail = "newline" => file # <<>> /\ file' = Front(file))
      /\ (tail # "newline" => IdSet(file) \subseteq IdSet(file'))
  BY PutEffect
<1>3. Loose' = {}
  <2>1. tail' = "newline" => file'[Len(file')] = rec[t]
    BY <1>1, <1>2
  <2> QED
    BY <1>1, <2>1 DEF Loose
<1>4. acked \cap IdSet(file) \subseteq IdSet(file') \cup Loose
  <2>1. CASE tail = "newline"
    <3>1. IdSet(file) \subseteq IdSet(file') \cup {file[Len(file)].id}
      BY <1>1, <1>2, <2>1, FrontIds
    <3> QED
      BY <2>1, <3>1 DEF Loose
  <2>2. CASE tail # "newline"
    BY <1>2, <2>2
  <2> QED
    BY <2>1, <2>2
<1>5. HeldIds = {} /\ IdSet(file)' = IdSet(file')
  BY InAppend DEF IdSet
<1>6. Lost' \subseteq Lost \cup Loose
  BY <1>4, <1>5 DEF Lost
<1> QED
  BY <1>3, <1>6

\* A line that was cut off is paid for by its tear.
LEMMA RiskTorn ==
    ASSUME OrderInv, OrderInv', RiskInv, NEW t \in Threads, pc[t] = "write",
           NEW upTo \in Cuts, Put(rec[t], upTo), UNCHANGED <<acked, deleted, wiped>>,
           \A u \in Threads : pc'[u] \notin Holding,
           tornAppends' = tornAppends + 1, tornRewrites' = tornRewrites
    PROVE  RiskInv'
<1>1. TornTypeOK /\ TornTypeOK' /\ tornAppends \in Nat /\ tornRewrites \in Nat
  BY DEF OrderInv, TornTypeOK
<1>2. Lost' \subseteq Lost \cup Loose /\ Loose' = {} /\ (~cut' => ~cut)
  BY PutRisk, PutEffect
<1>3. Glued' = {}
  BY DEF Glued, Holding
<1>4. AtRisk' \subseteq AtRisk \cup {}
  BY <1>2, <1>3 DEF AtRisk
<1>5. Allowed' = Allowed + 1 /\ Allowed \in Nat
  BY <1>1 DEF Allowed
<1>6. NextSpoiled \in {0, 1} /\ NextSpoiled' \in {0, 1}
  BY DEF NextSpoiled
<1>7. NextSpoiled' + 0 + Allowed <= Allowed' + NextSpoiled
  <2>1. \A f, g \in {0, 1}, m \in Nat : g + 0 + m <= (m + 1) + f
    OBVIOUS
  <2> QED
    BY <1>5, <1>6, <2>1
<1> QED
  BY <1>1, <1>2, <1>4, <1>7, RiskPaid

\* Behind a file that does not end whole a line is spoiled, and the file ends
\* whole again.
LEMMA RiskPut ==
    ASSUME OrderInv, OrderInv', RiskInv, NEW t \in Threads, PutLine(t)
    PROVE  RiskInv'
<1>1. /\ pc[t] = "write" /\ Put(rec[t], "whole") /\ pc'[t] = "save" /\ rec' = rec
      /\ UNCHANGED <<acked, deleted, wiped, tornAppends, tornRewrites>>
  BY DEF OrderInv, TornTypeOK, TypeOK, PutLine
<1>2. "whole" \in Cuts \cup {"whole"} /\ TornTypeOK /\ TornTypeOK'
  BY DEF OrderInv
<1>3. Lost' \subseteq Lost \cup Loose /\ Loose' = {} /\ (~cut' => ~cut) /\ tail' = "whole"
  <2>1. Lost' \subseteq Lost \cup Loose /\ Loose' = {}
    BY <1>1, <1>2, PutRisk
  <2>2. (~cut' => ~cut) /\ ("whole" = "whole" <=> tail' = "whole")
    BY <1>1, <1>2, PutEffect
  <2> QED
    BY <2>1, <2>2
<1>4. Glued' = {rec[t].id} \ IdSet(file')
  <2>1. MutualExclusion'
    BY DEF OrderInv
  <2>2. \A u \in Threads : u # t => pc'[u] # "save"
    BY <1>1, <2>1 DEF MutualExclusion, Holding
  <2> QED
    BY <1>1, <2>2 DEF Glued, IdSet
<1>5. Allowed' = Allowed /\ Allowed \in Nat
  BY <1>1, <1>2 DEF Allowed, TornTypeOK
<1>6. CASE tail = "whole"
  <2>1. rec[t] \in Record /\ file \in Seq(Record)
    BY <1>1, <1>2 DEF OrderInv, Hands, InHand, TornTypeOK, TypeOK
  <2>2. file' = Append(file, rec[t])
    BY <1>1, <1>6 DEF Put
  <2>3. Glued' = {} /\ Loose = {}
    BY <1>4, <1>6, <2>1, <2>2, IdSetAppend DEF Loose
  <2>4. AtRisk' \subseteq AtRisk \cup {}
    BY <1>3, <2>3 DEF AtRisk
  <2>5. NextSpoiled = 0 /\ NextSpoiled' = 0
    BY <1>3, <1>6 DEF NextSpoiled
  <2>6. NextSpoiled' + 0 + Allowed <= Allowed' + NextSpoiled
    BY <1>5, <2>5
  <2> QED
    BY <1>2, <1>3, <2>4, <2>6, RiskPaid
<1>7. CASE tail # "whole"
  <2>1. AtRisk' \subseteq AtRisk \cup {rec[t].id}
    BY <1>3, <1>4 DEF AtRisk
  <2>2. NextSpoiled = 1 /\ NextSpoiled' = 0
    BY <1>3, <1>7 DEF NextSpoiled
  <2>3. NextSpoiled' + 1 + Allowed <= Allowed' + NextSpoiled
    BY <1>5, <2>2
  <2> QED
    BY <1>2, <1>3, <2>1, <2>3, RiskPaid
<1> QED
  BY <1>6, <1>7

\* What was about to be answered is answered.
LEMMA RiskSave ==
    ASSUME OrderInv, OrderInv', RiskInv, NEW t \in Threads, AppendSave(t), UNCHANGED tornVars
    PROVE  RiskInv'
<1>1. /\ pc[t] = "save" /\ acked' = acked \cup {rec[t].id}
      /\ UNCHANGED <<file, deleted, wiped, tail, cut, tornAppends, tornRewrites>>
      /\ pc' = [pc EXCEPT ![t] = "idle"] /\ lock' = NoThread
  BY DEF AppendSave, tornVars
<1>2. TornTypeOK /\ TornTypeOK' /\ TypeOK /\ MutualExclusion /\ tail = "whole"
  BY <1>1 DEF OrderInv, TornTypeOK, Hands, OnItsWay
<1>3. \A u \in Threads : pc'[u] \notin Holding
  <2>1. pc[t] \in Holding
    BY <1>1 DEF Holding
  <2> QED
    BY <1>1, <1>2, <2>1, LockGiven
<1>4. Glued' = {} /\ HeldIds' = {}
  BY <1>3, NobodyInside
<1>5. HeldIds = {} /\ Glued = {rec[t].id} \ IdSet(file)
  BY <1>1, InAppend
<1>6. IdSet(file)' = IdSet(file) /\ Loose' = {}
  BY <1>1, <1>2 DEF IdSet, Loose
<1>7. Lost' \subseteq Lost \cup Glued
  BY <1>1, <1>4, <1>5, <1>6 DEF Lost
<1>8. AtRisk' \subseteq AtRisk \cup {}
  BY <1>4, <1>6, <1>7 DEF AtRisk
<1>9. NextSpoiled' = NextSpoiled /\ Allowed' = Allowed /\ NextSpoiled \in Nat /\ Allowed \in Nat
  BY <1>1, <1>2 DEF NextSpoiled, Allowed, TornTypeOK
<1>10. NextSpoiled' + 0 + Allowed <= Allowed' + NextSpoiled
  BY <1>9
<1> QED
  BY <1>1, <1>2, <1>8, <1>10, RiskPaid

\* The records leave the file for the hands of the delete, and come back.
LEMMA RiskDelete ==
    ASSUME OrderInv, OrderInv', RiskInv, NEW t \in Threads,
           \/ /\ DeleteTruncate(t) /\ tail' = "whole"
              /\ UNCHANGED <<cut, tornAppends, tornRewrites>>
           \/ DeleteRewrite(t) /\ UNCHANGED tornVars
    PROVE  RiskInv'
<1>1. /\ TornTypeOK /\ TornTypeOK' /\ TypeOK /\ MutualExclusion /\ TypeOK' /\ MutualExclusion'
      /\ TruncateHolds /\ RewriteEmpty
  BY DEF OrderInv, TornTypeOK, Hands
<1>2. UNCHANGED <<acked, wiped, cut, tornAppends, tornRewrites>>
  BY DEF DeleteTruncate, DeleteRewrite, tornVars
<1>3. CASE DeleteTruncate(t) /\ tail' = "whole"
  <2>1. /\ pc[t] = "truncate" /\ pc'[t] = "rewrite" /\ file' = <<>>
        /\ UNCHANGED <<lines, target, deleted>>
    BY <1>1, <1>3 DEF DeleteTruncate, TypeOK
  <2>2. HeldIds = {} /\ HeldIds' = IdSet(lines[t]) \cup {target[t]}
    <3>1. Rewriting = {}
      BY <1>1, <2>1, HolderAlone DEF Holding
    <3>2. \A u \in Threads : u # t => pc'[u] # "rewrite"
      BY <1>1, <2>1 DEF MutualExclusion, Holding
    <3>3. Rewriting' = {t}
      BY <2>1, <3>2 DEF Rewriting
    <3> QED
      BY <2>1, <3>1, <3>3 DEF HeldIds, IdSet
  <2>3. IdSet(file) \subseteq HeldIds'
    BY <1>1, <2>1, <2>2 DEF TruncateHolds
  <2>4. Lost' \subseteq Lost /\ Loose' = {}
    BY <1>2, <1>3, <2>1, <2>2, <2>3 DEF Lost, Loose
  <2>5. Glued' = {}
    <3>1. \A u \in Threads : pc'[u] # "save"
      BY <1>1, <2>1 DEF MutualExclusion, Holding
    <3> QED
      BY <3>1 DEF Glued
  <2>6. AtRisk' \subseteq AtRisk \cup {}
    BY <2>4, <2>5 DEF AtRisk
  <2>7. NextSpoiled' = 0 /\ NextSpoiled \in Nat /\ Allowed' = Allowed /\ Allowed \in Nat
    BY <1>1, <1>2, <1>3 DEF NextSpoiled, Allowed, TornTypeOK
  <2>8. NextSpoiled' + 0 + Allowed <= Allowed' + NextSpoiled
    BY <2>7
  <2> QED
    BY <1>1, <1>2, <2>6, <2>8, RiskPaid
<1>4. CASE DeleteRewrite(t) /\ UNCHANGED tornVars
  <2>1. /\ pc[t] = "rewrite" /\ file = <<>> /\ deleted' = deleted \cup {target[t]}
        /\ lock' = NoThread /\ pc' = [pc EXCEPT ![t] = "idle"] /\ tail' = tail
        /\ file' = Overwrite(lines[t], file)
    BY <1>1, <1>4 DEF DeleteRewrite, RewriteEmpty, tornVars
  <2>2. file' = lines[t]
    BY <1>1, <2>1, OverwriteEmpty DEF TypeOK
  <2>3. \A u \in Threads : pc'[u] \notin Holding
    <3>1. pc[t] \in Holding
      BY <2>1 DEF Holding
    <3> QED
      BY <1>1, <2>1, <3>1, LockGiven
  <2>4. Glued' = {} /\ HeldIds' = {}
    BY <2>3, NobodyInside
  <2>5. HeldIds = IdSet(lines[t]) \cup {target[t]}
    <3>1. Rewriting = {t}
      BY <1>1, <2>1, HolderAlone DEF Holding
    <3> QED
      BY <3>1 DEF HeldIds
  <2>6. IdSet(file) = {} /\ IdSet(file)' = IdSet(lines[t])
    BY <2>1, <2>2, EmptyFile DEF IdSet
  <2>7. Lost' \subseteq Lost
    BY <1>2, <2>1, <2>4, <2>5, <2>6 DEF Lost
  <2>8. Loose' = {}
    BY <1>1, <2>1 DEF TornTypeOK, Loose
  <2>9. AtRisk' \subseteq AtRisk \cup {}
    BY <2>4, <2>7, <2>8 DEF AtRisk
  <2>10. NextSpoiled' = NextSpoiled /\ NextSpoiled \in Nat /\ Allowed' = Allowed /\ Allowed \in Nat
    BY <1>1, <1>2, <2>1 DEF NextSpoiled, Allowed, TornTypeOK
  <2>11. NextSpoiled' + 0 + Allowed <= Allowed' + NextSpoiled
    BY <2>10
  <2> QED
    BY <1>1, <1>2, <2>9, <2>11, RiskPaid
<1> QED
  BY <1>3, <1>4

\* A rewrite that ends short: what it had not flushed is wiped, and where the
\* flush ended in the middle of a line, the last line and the next may be spoiled.
LEMMA RiskCutShort ==
    ASSUME OrderInv, OrderInv', RiskInv,
           wiped' = wiped \cup (HeldIds \ IdSet(file')), UNCHANGED <<acked, deleted>>,
           \A u \in Threads : pc'[u] \notin Holding,
           \/ /\ UNCHANGED <<cut, tornAppends, tornRewrites>>
              /\ \/ UNCHANGED <<file, tail>>
                 \/ /\ \E t \in Rewriting : TRUE
                    /\ tail' = "whole" \/ (tail' = tail /\ tail # "newline")
           \/ \E t \in Threads : TearRewrite(t)
    PROVE  RiskInv'
<1>1. /\ TornTypeOK /\ TornTypeOK' /\ TypeOK
      /\ tornAppends \in Nat /\ tornRewrites \in Nat
      /\ RewriteEmpty /\ LinesSound
  BY DEF OrderInv, TornTypeOK, Hands
<1>2. Glued' = {} /\ HeldIds' = {}
  BY NobodyInside
<1>3. file' = file \/ file = <<>>
  <2>1. (\E t \in Rewriting : TRUE) => file = <<>>
    BY <1>1 DEF Rewriting, RewriteEmpty
  <2>2. (\E t \in Threads : TearRewrite(t)) => \E t \in Rewriting : TRUE
    BY DEF TearRewrite, Rewriting
  <2> QED
    BY <2>1, <2>2
<1>4. Lost' \subseteq Lost
  <2>1. IdSet(file) \subseteq IdSet(file')
    BY <1>3, EmptyFile
  <2>2. IdSet(file)' = IdSet(file')
    BY DEF IdSet
  <2> QED
    BY <1>2, <2>1, <2>2 DEF Lost
<1>5. NextSpoiled \in {0, 1} /\ NextSpoiled' \in {0, 1} /\ Allowed \in Nat
  BY <1>1 DEF NextSpoiled, Allowed
<1>6. CASE /\ UNCHANGED <<cut, tornAppends, tornRewrites>>
           /\ \/ UNCHANGED <<file, tail>>
              \/ tail' = "whole" \/ (tail' = tail /\ tail # "newline")
  <2>1. Loose' \subseteq Loose /\ (NextSpoiled' = NextSpoiled \/ NextSpoiled' = 0)
    BY <1>6 DEF Loose, NextSpoiled
  <2>2. AtRisk' \subseteq AtRisk \cup {}
    BY <1>2, <1>4, <2>1 DEF AtRisk
  <2>3. Allowed' = Allowed
    BY <1>6 DEF Allowed
  <2>4. NextSpoiled' + 0 + Allowed <= Allowed' + NextSpoiled
    <3>1. \A f, g \in {0, 1}, m \in Nat : g = f \/ g = 0 => g + 0 + m <= m + f
      OBVIOUS
    <3> QED
      BY <1>5, <2>1, <2>3, <3>1
  <2> QED
    BY <1>1, <1>6, <2>2, <2>4, RiskPaid
<1>7. ASSUME NEW t \in Threads, TearRewrite(t) PROVE RiskInv'
  <2>1. /\ tornRewrites' = tornRewrites + 1 /\ tornAppends' = tornAppends
        /\ pc[t] = "rewrite"
    BY <1>7 DEF TearRewrite
  <2>2. ~cut
    BY <1>1, <2>1 DEF LinesSound
  <2>3. Loose' \subseteq {file'[Len(file')].id}
    BY DEF Loose
  <2>4. AtRisk' \subseteq AtRisk \cup {file'[Len(file')].id}
    BY <1>2, <1>4, <2>3 DEF AtRisk
  <2>5. Allowed' = Allowed + 2
    BY <1>1, <2>1 DEF Allowed
  <2>6. NextSpoiled' + 1 + Allowed <= Allowed' + NextSpoiled
    <3>1. \A f, g \in {0, 1}, m \in Nat : g + 1 + m <= (m + 2) + f
      OBVIOUS
    <3> QED
      BY <1>5, <2>5, <3>1
  <2> QED
    BY <1>1, <2>2, <2>4, <2>6, RiskPaid
<1> QED
  BY <1>6, <1>7

\* A delete that raises is one, with the server alive.
LEMMA RiskDeleteFails ==
    ASSUME OrderInv, OrderInv', RiskInv, NEW t \in Threads,
           DeleteTorn(t) \/ (DeleteFails(t) /\ UNCHANGED tornVars)
    PROVE  RiskInv'
<1>1. /\ pc[t] \in {"truncate", "rewrite"} /\ pc' = [pc EXCEPT ![t] = "idle"]
      /\ lock' = NoThread /\ UNCHANGED <<acked, deleted>>
      /\ wiped' = wiped \cup (HeldIds \ IdSet(file'))
  BY DEF DeleteTorn, TearRewrite, DeleteFails
<1>2. \A u \in Threads : pc'[u] \notin Holding
  <2>1. pc[t] \in Holding /\ TypeOK /\ MutualExclusion
    BY <1>1 DEF Holding, OrderInv, TornTypeOK
  <2> QED
    BY <1>1, <2>1, LockGiven
<1>3. CASE DeleteTorn(t)
  BY <1>1, <1>2, <1>3, RiskCutShort DEF DeleteTorn
<1>4. CASE DeleteFails(t) /\ UNCHANGED tornVars
  <2>1. UNCHANGED <<cut, tornAppends, tornRewrites, tail>>
    BY <1>4 DEF tornVars
  <2>2. CASE UNCHANGED file
    BY <1>1, <1>2, <2>1, <2>2, RiskCutShort
  <2>3. CASE pc[t] = "rewrite"
    <3>1. t \in Rewriting /\ tail # "newline"
      BY <2>3 DEF Rewriting, OrderInv, TornTypeOK, Hands, RewriteEmpty
    <3> QED
      BY <1>1, <1>2, <2>1, <3>1, RiskCutShort
  <2> QED
    BY <1>4, <2>2, <2>3 DEF DeleteFails
<1> QED
  BY <1>3, <1>4

\* So is the death of the server.
LEMMA RiskDeath ==
    ASSUME OrderInv, OrderInv', RiskInv, DiesBetweenLines \/ DiesInRewrite
    PROVE  RiskInv'
<1>1. /\ wiped' = wiped \cup (HeldIds \ IdSet(file')) /\ UNCHANGED <<acked, deleted>>
      /\ \A u \in Threads : pc'[u] \notin Holding
  BY DEF DiesBetweenLines, DiesInRewrite, TearRewrite, Restarted, Holding
<1>2. CASE DiesBetweenLines
  <2>1. /\ UNCHANGED <<cut, tornAppends, tornRewrites>>
        /\ UNCHANGED <<file, tail>> \/ ((\E t \in Rewriting : TRUE) /\ tail' = "whole")
    BY <1>2 DEF DiesBetweenLines
  <2> QED
    BY <1>1, <2>1, RiskCutShort
<1>3. CASE DiesInRewrite
  <2>1. \E t \in Threads : TearRewrite(t)
    BY <1>3 DEF DiesInRewrite
  <2> QED
    BY <1>1, <2>1, RiskCutShort
<1> QED
  BY <1>2, <1>3

LEMMA RiskInvInit == TornInit => RiskInv
<1> SUFFICES ASSUME TornInit PROVE RiskInv
  OBVIOUS
<1>1. acked = {} /\ tail = "whole" /\ tornAppends = 0 /\ tornRewrites = 0
      /\ \A t \in Threads : pc[t] = "idle"
  BY DEF TornInit, Init
<1>2. AtRisk = {}
  BY <1>1 DEF AtRisk, Lost, Glued, Loose
<1>3. NextSpoiled = 0 /\ Allowed = 0
  BY <1>1 DEF NextSpoiled, Allowed
<1> QED
  BY <1>2, <1>3, FS_EmptySet DEF RiskInv

LEMMA RiskInvStep == OrderInv /\ OrderInv' /\ RiskInv /\ [TornNext]_allVars => RiskInv'
<1> SUFFICES ASSUME OrderInv, OrderInv', RiskInv, [TornNext]_allVars PROVE RiskInv'
  OBVIOUS
<1>1. TypeOK /\ TornTypeOK /\ TornTypeOK'
  BY DEF OrderInv, TornTypeOK
<1>2. ASSUME NEW t \in Threads,
             StartAppend(t) \/ AppendFails(t) \/ DeleteRead(t), UNCHANGED tornVars
      PROVE  RiskInv'
  <2>1. UNCHANGED <<file, acked, deleted, wiped, tail, cut, tornAppends, tornRewrites>>
    BY <1>2 DEF StartAppend, AppendFails, DeleteRead, tornVars
  <2>2. /\ pc[t] # "rewrite" /\ pc'[t] \notin {"save", "rewrite"}
        /\ \A u \in Threads : u # t =>
             /\ pc'[u] = pc[u] /\ rec'[u] = rec[u]
             /\ lines'[u] = lines[u] /\ target'[u] = target[u]
    BY <1>1, <1>2 DEF StartAppend, AppendFails, DeleteRead, TypeOK
  <2> QED
    BY <1>1, <2>1, <2>2, RiskQuiet
<1>3. CASE ((SaveState \/ SetClock) /\ UNCHANGED tornVars) \/ UNCHANGED allVars
  <2>1. UNCHANGED <<file, acked, deleted, wiped, tail, cut, tornAppends, tornRewrites,
                    pc, rec, lines, target>>
    BY <1>3 DEF SaveState, SetClock, allVars, vars, tornVars
  <2> QED
    BY <1>1, <2>1, RiskQuiet
<1>4. ASSUME NEW t \in Threads, AppendSave(t), UNCHANGED tornVars PROVE RiskInv'
  BY <1>4, RiskSave
<1>5. ASSUME NEW t \in Threads, PutLine(t) PROVE RiskInv'
  BY <1>5, RiskPut
<1>6. ASSUME NEW t \in Threads, AppendTorn(t) PROVE RiskInv'
  <2>1. PICK upTo \in Cuts : Put(rec[t], upTo)
    BY <1>6 DEF AppendTorn
  <2>2. /\ pc[t] = "write" /\ pc' = [pc EXCEPT ![t] = "idle"] /\ lock' = NoThread
        /\ UNCHANGED <<acked, deleted, wiped, tornRewrites>>
        /\ tornAppends' = tornAppends + 1
    BY <1>6 DEF AppendTorn
  <2>3. \A u \in Threads : pc'[u] \notin Holding
    <3>1. pc[t] \in Holding /\ MutualExclusion
      BY <2>2 DEF Holding, OrderInv
    <3> QED
      BY <1>1, <2>2, <3>1, LockGiven
  <2> QED
    BY <2>1, <2>2, <2>3, RiskTorn
<1>7. ASSUME NEW t \in Threads, MendingDelete(t) PROVE RiskInv'
  BY <1>2, <1>7, RiskDelete DEF MendingDelete
<1>8. CASE DiesInAppend
  <2>1. PICK t \in Threads, upTo \in Cuts : pc[t] = "write" /\ Put(rec[t], upTo)
    BY <1>8 DEF DiesInAppend
  <2>2. /\ UNCHANGED <<acked, deleted, wiped, tornRewrites>>
        /\ tornAppends' = tornAppends + 1
        /\ \A u \in Threads : pc'[u] \notin Holding
    BY <1>8 DEF DiesInAppend, Restarted, Holding
  <2> QED
    BY <2>1, <2>2, RiskTorn
<1>9. CASE DiesBetweenLines \/ DiesInRewrite
  BY <1>9, RiskDeath
<1>10. ASSUME NEW t \in Threads, DeleteTorn(t) \/ (DeleteFails(t) /\ UNCHANGED tornVars)
       PROVE  RiskInv'
  BY <1>10, RiskDeleteFails
<1> QED
  BY <1>2, <1>3, <1>4, <1>5, <1>6, <1>7, <1>8, <1>9, <1>10 DEF TornNext

\* A write that stopped in the middle costs at most one message that was
\* answered, a rewrite that stopped at most two, as long as no character was
\* cut; nothing else costs any, for any number of threads, messages and tears.
THEOREM LossPerTearAlways == TornSpec => []LossPerTear
<1>1. TornInit => OrderInv /\ RiskInv
  BY OrderInvInit, RiskInvInit
<1>2. OrderInv /\ RiskInv /\ [TornNext]_allVars => (OrderInv /\ RiskInv)'
  BY OrderInvStep, RiskInvStep
<1>3. OrderInv /\ RiskInv => LossPerTear
  <2> SUFFICES ASSUME OrderInv, RiskInv, ~cut
               PROVE  Cardinality(Lost) <= Allowed
    BY DEF LossPerTear, Lost, Allowed
  <2>1. IsFiniteSet(AtRisk) /\ Cardinality(AtRisk) + NextSpoiled <= Allowed
    BY DEF RiskInv
  <2>2. Lost \in SUBSET AtRisk
    BY DEF AtRisk
  <2>3. IsFiniteSet(Lost) /\ Cardinality(Lost) <= Cardinality(AtRisk)
    BY <2>1, <2>2, FS_Subset
  <2>4. Cardinality(Lost) \in Nat /\ Cardinality(AtRisk) \in Nat
    BY <2>1, <2>3, FS_CardinalityType
  <2>5. NextSpoiled \in Nat /\ Allowed \in Nat
    BY DEF NextSpoiled, Allowed, OrderInv, TornTypeOK
  <2> QED
    BY <2>1, <2>3, <2>4, <2>5
<1> QED
  BY <1>1, <1>2, <1>3, PTL DEF TornSpec

=============================================================================
