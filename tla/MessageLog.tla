------------------------------ MODULE MessageLog ------------------------------
(***************************************************************************)
(* The chat log of groupchat/store.py as the threads of one server process *)
(* use it: one JSONL file, one state file, one lock.  ThreadingHTTPServer  *)
(* runs every request on a thread of its own, so the steps of two requests *)
(* interleave wherever store._lock does not forbid it.                     *)
(*                                                                         *)
(* A record is its identity and its timestamp; what else a record carries  *)
(* is the business of the modules that fold the log.  Timestamps are       *)
(* naturals, 0 standing for the empty string, and one unit is the          *)
(* millisecond that _next_ts adds when the clock has not moved past the    *)
(* last timestamp.                                                         *)
(***************************************************************************)
EXTENDS Integers, Sequences, FiniteSets, SequencesExt

CONSTANTS
    Threads,     \* request threads of the server process
    NoThread,    \* owner of the free lock
    MaxRecords,  \* bound: records ever created
    MaxClock     \* bound: readings of the wall clock

ASSUME ThreadsAssumption == NoThread \notin Threads
ASSUME BoundsAssumption == MaxRecords \in Nat /\ MaxClock \in Nat \ {0}

VARIABLES
    file,     \* lines of the JSONL file
    clock,    \* wall clock; nothing keeps it from stepping back
    lastTs,   \* store._last_ts
    memTs,    \* store._state["last_ts"]
    diskTs,   \* "last_ts" of the state file
    lock,     \* owner of store._lock
    pc,       \* where the request of each thread is
    rec,      \* the record an append is writing
    lines,    \* the lines a delete read and will write back
    target,   \* the record a delete leaves out, 0 when none
    nextId,   \* next unused record id (a uuid in the code)
    acked,    \* history: ids whose append was answered 200
    deleted,  \* history: ids whose delete was answered ok
    wiped     \* history: ids that a clear, or a rewrite cut short, took

vars == <<file, clock, lastTs, memTs, diskTs, lock, pc, rec, lines, target,
          nextId, acked, deleted, wiped>>

Record == [id : Nat \ {0}, ts : Nat \ {0}]
NoRecord == [id |-> 0, ts |-> 0]
Steps == {"idle", "write", "save", "truncate", "rewrite", "reset"}

IdSet(rows) == {rows[i].id : i \in 1..Len(rows)}
Ordered(rows) == \A i, j \in 1..Len(rows) : i < j => rows[i].ts < rows[j].ts

\* Lines of requests that have truncated the file and not yet written it back.
Rewriting == {t \in Threads : pc[t] = "rewrite"}
HeldIds == UNION {IdSet(lines[t]) \cup {target[t]} : t \in Rewriting}

-----------------------------------------------------------------------------

Init ==
    /\ file = <<>>
    /\ clock = 1
    /\ lastTs = 0 /\ memTs = 0 /\ diskTs = 0
    /\ lock = NoThread
    /\ pc = [t \in Threads |-> "idle"]
    /\ rec = [t \in Threads |-> NoRecord]
    /\ lines = [t \in Threads |-> <<>>]
    /\ target = [t \in Threads |-> 0]
    /\ nextId = 1
    /\ acked = {} /\ deleted = {} /\ wiped = {}

-----------------------------------------------------------------------------
(* append: one critical section, cut where its effects reach a file.       *)

NextTsIgnoresTie == IF clock < lastTs THEN lastTs + 1 ELSE clock

NextTs == IF clock <= lastTs THEN lastTs + 1 ELSE clock

\* Takes the lock and the timestamp; the id was drawn before the lock.
StartAppend(t) ==
    /\ pc[t] = "idle" /\ lock = NoThread /\ nextId <= MaxRecords
    /\ lock' = t
    /\ pc' = [pc EXCEPT ![t] = "write"]
    /\ lastTs' = NextTs /\ memTs' = NextTs
    /\ rec' = [rec EXCEPT ![t] = [id |-> nextId, ts |-> NextTs]]
    /\ nextId' = nextId + 1
    /\ UNCHANGED <<file, clock, diskTs, lines, target, acked, deleted, wiped>>

AppendWrite(t) ==
    /\ pc[t] = "write"
    /\ file' = Append(file, rec[t])
    /\ pc' = [pc EXCEPT ![t] = "save"]
    /\ UNCHANGED <<clock, lastTs, memTs, diskTs, lock, rec, lines, target,
                   nextId, acked, deleted, wiped>>

\* A set_typing that saved would take the lock that the append already holds.
AppendSaveRelocks(t) ==
    /\ pc[t] = "save" /\ lock = NoThread
    /\ diskTs' = memTs
    /\ acked' = acked \cup {rec[t].id}
    /\ rec' = [rec EXCEPT ![t] = NoRecord]
    /\ pc' = [pc EXCEPT ![t] = "idle"]
    /\ UNCHANGED <<file, clock, lastTs, memTs, lock, lines, target, nextId,
                   deleted, wiped>>

\* Saves the state file, releases the lock and answers 200.
AppendSave(t) ==
    /\ pc[t] = "save"
    /\ diskTs' = memTs
    /\ lock' = NoThread
    /\ acked' = acked \cup {rec[t].id}
    /\ rec' = [rec EXCEPT ![t] = NoRecord]
    /\ pc' = [pc EXCEPT ![t] = "idle"]
    /\ UNCHANGED <<file, clock, lastTs, memTs, lines, target, nextId,
                   deleted, wiped>>

\* An open, a write or the json.dump of the state raises: the lock is
\* released on the way out and the client gets no answer, whether or not the
\* line is in the file by then.
AppendFails(t) ==
    /\ pc[t] \in {"write", "save"}
    /\ lock' = NoThread
    /\ rec' = [rec EXCEPT ![t] = NoRecord]
    /\ pc' = [pc EXCEPT ![t] = "idle"]
    /\ UNCHANGED <<file, clock, lastTs, memTs, diskTs, lines, target, nextId,
                   acked, deleted, wiped>>

-----------------------------------------------------------------------------
(* delete: reads every line, then truncates and rewrites the file, all     *)
(* under the lock.  A delete of an id that is not there changes nothing.   *)

\* Reading the lines before taking the lock, the way mark_reminded does.
DeleteReadUnlocked(t) ==
    /\ pc[t] = "idle"
    /\ \E i \in 1..Len(file) :
         /\ lines' = [lines EXCEPT ![t] = RemoveAt(file, i)]
         /\ target' = [target EXCEPT ![t] = file[i].id]
    /\ pc' = [pc EXCEPT ![t] = "truncate"]
    /\ UNCHANGED <<file, clock, lastTs, memTs, diskTs, lock, rec, nextId,
                   acked, deleted, wiped>>

DeleteRead(t) ==
    /\ pc[t] = "idle" /\ lock = NoThread
    /\ lock' = t
    /\ \E i \in 1..Len(file) :
         /\ lines' = [lines EXCEPT ![t] = RemoveAt(file, i)]
         /\ target' = [target EXCEPT ![t] = file[i].id]
    /\ pc' = [pc EXCEPT ![t] = "truncate"]
    /\ UNCHANGED <<file, clock, lastTs, memTs, diskTs, rec, nextId,
                   acked, deleted, wiped>>

\* open(path, "w")
DeleteTruncate(t) ==
    /\ pc[t] = "truncate"
    /\ file' = <<>>
    /\ pc' = [pc EXCEPT ![t] = "rewrite"]
    /\ UNCHANGED <<clock, lastTs, memTs, diskTs, lock, rec, lines, target,
                   nextId, acked, deleted, wiped>>

\* A descriptor opened with "w" writes from offset 0, over whatever another
\* writer put there since the truncation.  Lines count as equally long.
Overwrite(rows, f) == rows \o SubSeq(f, Len(rows) + 1, Len(f))

DeleteRewrite(t) ==
    /\ pc[t] = "rewrite"
    /\ file' = Overwrite(lines[t], file)
    /\ deleted' = deleted \cup {target[t]}
    /\ lock' = NoThread
    /\ lines' = [lines EXCEPT ![t] = <<>>]
    /\ target' = [target EXCEPT ![t] = 0]
    /\ pc' = [pc EXCEPT ![t] = "idle"]
    /\ UNCHANGED <<clock, lastTs, memTs, diskTs, rec, nextId, acked, wiped>>

\* The open or a write raises: the lock is released on the way out, the client
\* gets no answer, and the file is left with the lines that were flushed.
DeleteFails(t) ==
    /\ \/ pc[t] = "truncate" /\ UNCHANGED file
       \/ pc[t] = "rewrite" /\ \E n \in 0..Len(lines[t]) :
            file' = SubSeq(lines[t], 1, n)
    /\ wiped' = wiped \cup (HeldIds \ IdSet(file'))
    /\ lock' = NoThread
    /\ lines' = [lines EXCEPT ![t] = <<>>]
    /\ target' = [target EXCEPT ![t] = 0]
    /\ pc' = [pc EXCEPT ![t] = "idle"]
    /\ UNCHANGED <<clock, lastTs, memTs, diskTs, rec, nextId, acked, deleted>>

-----------------------------------------------------------------------------
(* clear: a handler of the server that writes the file and resets the last *)
(* timestamp without the lock.  The backup copy it takes first is read by  *)
(* no code and is left out.                                                *)

ClearTruncate(t) ==
    /\ pc[t] = "idle"
    /\ file' = <<>>
    /\ wiped' = wiped \cup IdSet(file)
    /\ pc' = [pc EXCEPT ![t] = "reset"]
    /\ UNCHANGED <<clock, lastTs, memTs, diskTs, lock, rec, lines, target,
                   nextId, acked, deleted>>

\* Only the attribute: _state keeps the old last_ts, and so does the file.
ClearReset(t) ==
    /\ pc[t] = "reset"
    /\ lastTs' = 0
    /\ pc' = [pc EXCEPT ![t] = "idle"]
    /\ UNCHANGED <<file, clock, memTs, diskTs, lock, rec, lines, target,
                   nextId, acked, deleted, wiped>>

-----------------------------------------------------------------------------
(* The rest of the process.                                                *)

\* set_typing and status_snapshot write the whole state file under the lock.
SaveState ==
    /\ lock = NoThread
    /\ diskTs' = memTs
    /\ UNCHANGED <<file, clock, lastTs, memTs, lock, pc, rec, lines, target,
                   nextId, acked, deleted, wiped>>

\* Time passes, or the clock is set back (NTP, the end of summer time: the
\* timestamps are local times compared as strings).
SetClock ==
    /\ clock' \in 1..MaxClock \ {clock}
    /\ UNCHANGED <<file, lastTs, memTs, diskTs, lock, pc, rec, lines, target,
                   nextId, acked, deleted, wiped>>

RestartForgetsTs ==
    /\ \A t \in Threads : pc[t] = "idle"
    /\ lastTs' = 0 /\ memTs' = 0
    /\ UNCHANGED <<file, clock, diskTs, lock, pc, rec, lines, target, nextId,
                   acked, deleted, wiped>>

\* The server is stopped between requests and started again.
Restart ==
    /\ \A t \in Threads : pc[t] = "idle"
    /\ lastTs' = diskTs /\ memTs' = diskTs
    /\ UNCHANGED <<file, clock, diskTs, lock, pc, rec, lines, target, nextId,
                   acked, deleted, wiped>>

\* The process dies at any point and is started again.  A rewrite that was
\* under way leaves the lines it had flushed.
Crash ==
    /\ \/ Rewriting = {} /\ UNCHANGED file
       \/ \E t \in Rewriting, n \in 0..MaxRecords :
            n <= Len(lines[t]) /\ file' = SubSeq(lines[t], 1, n)
    /\ wiped' = wiped \cup (HeldIds \ IdSet(file'))
    /\ lastTs' = diskTs /\ memTs' = diskTs
    /\ lock' = NoThread
    /\ pc' = [t \in Threads |-> "idle"]
    /\ rec' = [t \in Threads |-> NoRecord]
    /\ lines' = [t \in Threads |-> <<>>]
    /\ target' = [t \in Threads |-> 0]
    /\ UNCHANGED <<clock, diskTs, nextId, acked, deleted>>

-----------------------------------------------------------------------------

AppendStep(t) == StartAppend(t) \/ AppendWrite(t) \/ AppendSave(t)
DeleteStep(t) == DeleteRead(t) \/ DeleteTruncate(t) \/ DeleteRewrite(t)
ClearStep(t)  == ClearTruncate(t) \/ ClearReset(t)

\* Steps of a request that waits for nothing any more.
Continue(t) ==
    \/ AppendWrite(t) \/ AppendSave(t)
    \/ DeleteTruncate(t) \/ DeleteRewrite(t)
    \/ ClearReset(t)

\* What the store is written for: appends, deletes, restarts between
\* requests, and a clock that may step back.
ServerNext ==
    \/ \E t \in Threads : AppendStep(t) \/ DeleteStep(t)
    \/ SaveState \/ SetClock \/ Restart

\* The same with the handler that bypasses the lock, and with faults.
Next ==
    \/ ServerNext
    \/ \E t \in Threads : ClearStep(t) \/ AppendFails(t) \/ DeleteFails(t)
    \/ Crash

ServerSpec == Init /\ [][ServerNext]_vars
Spec == Init /\ [][Next]_vars

\* A thread that is past its last wait is eventually scheduled.
FairSpec == Spec /\ \A t \in Threads : WF_vars(Continue(t))

-----------------------------------------------------------------------------
(* Properties.                                                             *)

\* Every variable stays in its type; in particular every line of the file
\* and every line a delete holds has an id and a timestamp.
TypeOK ==
    /\ file \in Seq(Record)
    /\ clock \in Nat \ {0}
    /\ lastTs \in Nat /\ memTs \in Nat /\ diskTs \in Nat
    /\ lock \in Threads \cup {NoThread}
    /\ pc \in [Threads -> Steps]
    /\ rec \in [Threads -> Record \cup {NoRecord}]
    /\ lines \in [Threads -> Seq(Record)]
    /\ target \in [Threads -> Nat]
    /\ nextId \in Nat \ {0}
    /\ acked \subseteq Nat /\ deleted \subseteq Nat /\ wiped \subseteq Nat

\* A message whose append was answered 200 is in the file, or in the hands of
\* a delete that is rewriting the file, until a delete answers ok for it, a
\* clear takes it, or a rewrite is cut short before it has written it back: by
\* the death of the server, or by a failing disk with the server alive.  Other
\* than in these, no interleaving of appends, deletes, clears, failed saves
\* and restarts drops it.
NoLoss == acked \subseteq IdSet(file) \cup HeldIds \cup deleted \cup wiped

\* A message whose delete was answered ok is never in the file again, however
\* many deletes rewrite the file from the lines they read.
NoResurrection == deleted \cap IdSet(file) = {}

\* The file is in strictly increasing timestamp order, which is what lets a
\* client page through it with "since": clock steps back, records of the same
\* millisecond, deletes and restarts between requests do not disturb it.
TsOrdered == Ordered(file)

\* Whoever holds store._lock gives it back, whatever the others do and even
\* when the append or the rewrite fails: the lock is not reentrant, and nothing
\* times out on it, so a holder that waited for it would stop every later append.
LockReleased == \A t \in Threads : lock = t ~> lock # t
-----------------------------------------------------------------------------
(* The inductive invariant behind NoLoss and NoResurrection.               *)

Holding == {"write", "save", "truncate", "rewrite"}

UniqueIds(s) == \A i, j \in 1..Len(s) : i # j => s[i].id # s[j].id
OldIds(s) == \A i \in 1..Len(s) : s[i].id < nextId

\* The holder of the lock, and nobody else, is inside append or delete.
MutualExclusion == \A t \in Threads : lock = t <=> pc[t] \in Holding

FileClean == UniqueIds(file) /\ OldIds(file) /\ \A d \in deleted : d < nextId

\* A record about to be written is in Record and new to the file.
WriteFresh ==
    \A t \in Threads : pc[t] = "write" =>
        /\ rec[t] \in Record /\ rec[t].id < nextId
        /\ rec[t].id \notin IdSet(file) \cup deleted

\* A record about to be acknowledged is in the file, unless a clear took it.
SaveKept ==
    \A t \in Threads : pc[t] = "save" => rec[t].id \in IdSet(file) \cup wiped

\* Between its read and its truncation a delete holds all that is in the file.
TruncateHolds ==
    \A t \in Threads : pc[t] = "truncate" =>
        IdSet(file) \subseteq IdSet(lines[t]) \cup {target[t]}

RewriteEmpty == \A t \in Threads : pc[t] = "rewrite" => file = <<>>

\* What a delete will write back has neither its target nor anything deleted.
LinesClean ==
    \A t \in Threads : pc[t] \in {"truncate", "rewrite"} =>
        /\ UniqueIds(lines[t]) /\ OldIds(lines[t]) /\ target[t] < nextId
        /\ IdSet(lines[t]) \cap (deleted \cup {target[t]}) = {}

\* The conjunction is inductive: each record is where NoLoss and
\* NoResurrection say because of what the lock holder has in its hands.
LogInv ==
    /\ TypeOK /\ MutualExclusion /\ FileClean /\ WriteFresh /\ SaveKept
    /\ TruncateHolds /\ RewriteEmpty /\ LinesClean
    /\ NoLoss /\ NoResurrection

-----------------------------------------------------------------------------
(* The inductive invariant behind TsOrdered and the refinement, for the    *)
(* store without clears and faults.                                        *)

Writing == \E t \in Threads : pc[t] = "write"
Saving == \E t \in Threads : pc[t] = "save"

UpTo(s, n) == \A i \in 1..Len(s) : s[i].ts <= n

\* The largest timestamp of any record that was ever in the file.
HighTs == IF Writing THEN diskTs ELSE lastTs

\* The two copies in memory agree, and the one on disk lags behind only while
\* an append is on its way to the file or to its save.
TsCopies ==
    /\ lastTs = memTs
    /\ ~Writing /\ ~Saving => diskTs = lastTs
    /\ \A t \in Threads : pc[t] # "reset"

\* The timestamp of the record about to be written is new.
TsFresh ==
    \A t \in Threads : pc[t] = "write" => rec[t].ts = lastTs /\ diskTs < lastTs

FileInOrder == Ordered(file) /\ UpTo(file, HighTs)

\* A delete that is about to truncate holds the file less one record; one that
\* has truncated holds a log in order.
LinesInOrder ==
    \A t \in Threads :
        /\ pc[t] = "truncate" =>
              \E i \in 1..Len(file) : lines[t] = RemoveAt(file, i)
        /\ pc[t] = "rewrite" => Ordered(lines[t]) /\ UpTo(lines[t], HighTs)

ServerInv == LogInv /\ TsCopies /\ TsFresh /\ FileInOrder /\ LinesInOrder

-----------------------------------------------------------------------------
(* Refinement.                                                             *)

\* A delete takes effect when it truncates: from then on the lines it holds
\* are the log.  An append takes effect when its line is written: until then
\* the timestamp it drew does not count.
ReaderLog == IF Rewriting = {} THEN file ELSE lines[CHOOSE t \in Rewriting : TRUE]

Abstract == INSTANCE AbstractLog WITH log <- ReaderLog, high <- HighTs

\* Without clears and faults the store implements AbstractLog: a new record
\* is later than every record there ever was, also across restarts, and a
\* delete removes its record and disturbs no other, although the file is
\* empty for a while in between.
ImplementsAbstractLog == Abstract!Spec
=============================================================================
