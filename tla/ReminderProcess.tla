---------------------------- MODULE ReminderProcess ----------------------------
(***************************************************************************)
(* groupchat-ack-reminder --apply beside the server: a second process with *)
(* a store object, a lock and a last timestamp of its own over the same    *)
(* two files.  For an overdue item it appends a reminder record and then   *)
(* rewrites the whole log to put the reminded_at marker into the item.     *)
(* Neither lock keeps the other process out.                               *)
(***************************************************************************)
EXTENDS MessageLog

VARIABLES
    rpc,     \* where the reminder process is
    item,    \* the message it reminds of
    rLastTs, \* its store's _last_ts
    rpos,    \* lines mark_reminded has read
    rrows,   \* the lines it read and will write back
    late     \* history: ids written to the file after its last read

remVars == <<rpc, item, rLastTs, rpos, rrows, late>>
bothVars == <<vars, remVars>>

RemindInit ==
    /\ Init
    /\ rpc = "idle" /\ item = 0 /\ rLastTs = 0 /\ rpos = 0 /\ rrows = <<>>
    /\ late = {}

\* What the reminder leaves alone of the server's variables when it does not
\* touch the files; it never touches the rest.
ServerMemory == <<clock, lastTs, memTs, lock, pc, rec, lines, target, deleted, wiped>>

-----------------------------------------------------------------------------
(* One run of the program for one due item.                                *)

\* build_store loads the state file, once for all items of a run; the items
\* come from the delivery board.
RemindStart ==
    /\ rpc = "idle"
    /\ item' \in IdSet(file)
    /\ \/ rLastTs' = diskTs
       \/ rLastTs # 0 /\ UNCHANGED rLastTs
    /\ rpc' = "append"
    /\ UNCHANGED <<vars, rpos, rrows, late>>

RemindNextTs == IF clock <= rLastTs THEN rLastTs + 1 ELSE clock

\* The reminder counts as acknowledged from its write on.
RemindWrite ==
    /\ rpc = "append" /\ nextId <= MaxRecords
    /\ file' = Append(file, [id |-> nextId, ts |-> RemindNextTs])
    /\ nextId' = nextId + 1
    /\ acked' = acked \cup {nextId}
    /\ rLastTs' = RemindNextTs
    /\ rpc' = "save"
    /\ UNCHANGED <<ServerMemory, diskTs, item, rpos, rrows, late>>

\* The list of lines survives from the item before.
RemindSaveKeepsRows ==
    /\ rpc = "save"
    /\ diskTs' = rLastTs
    /\ rpc' = "read" /\ rpos' = 0
    /\ UNCHANGED <<ServerMemory, file, nextId, acked, item, rLastTs, rrows, late>>

\* Its whole _state goes to the state file, the server's entries included as
\* they were when it started.
RemindSave ==
    /\ rpc = "save"
    /\ diskTs' = rLastTs
    /\ rpc' = "read" /\ rpos' = 0 /\ rrows' = <<>>
    /\ UNCHANGED <<ServerMemory, file, nextId, acked, item, rLastTs, late>>

\* Stops reading at the item it was looking for.
RemindReadToItem ==
    /\ rpc = "read" /\ rpos < Len(file)
    /\ rrows' = Append(rrows, file[rpos + 1])
    /\ rpos' = IF file[rpos + 1].id = item THEN Len(file) ELSE rpos + 1
    /\ UNCHANGED <<vars, rpc, item, rLastTs, late>>

\* mark_reminded reads before it takes its lock, a line at a time.
RemindRead ==
    /\ rpc = "read" /\ rpos < Len(file)
    /\ rrows' = Append(rrows, file[rpos + 1])
    /\ rpos' = rpos + 1
    /\ UNCHANGED <<vars, rpc, item, rLastTs, late>>

\* End of file; without the item among the lines there is nothing to mark.
RemindReadEnd ==
    /\ rpc = "read" /\ rpos >= Len(file)
    /\ rpc' = IF item \in IdSet(rrows) THEN "truncate" ELSE "idle"
    /\ UNCHANGED <<vars, item, rLastTs, rpos, rrows, late>>

RemindTruncate ==
    /\ rpc = "truncate"
    /\ file' = <<>>
    /\ rpc' = "rewrite"
    /\ UNCHANGED <<ServerMemory, diskTs, nextId, acked, item, rLastTs, rpos, rrows, late>>

RemindRewrite ==
    /\ rpc = "rewrite"
    /\ file' = Overwrite(rrows, file)
    /\ rpc' = "idle"
    /\ UNCHANGED <<ServerMemory, diskTs, nextId, acked, item, rLastTs, rpos, rrows, late>>

RemindStep ==
    \/ RemindStart \/ RemindWrite \/ RemindSave
    \/ RemindRead \/ RemindReadEnd \/ RemindTruncate \/ RemindRewrite

-----------------------------------------------------------------------------

\* A line that the server writes after the reminder's last read.
NoteLate ==
    /\ late' = IF rpc \in {"truncate", "rewrite"}
                 THEN late \cup (IdSet(file') \ IdSet(file)) ELSE late
    /\ UNCHANGED <<rpc, item, rLastTs, rpos, rrows>>

AppendNext ==
    \/ \E t \in Threads : AppendStep(t) /\ NoteLate
    \/ SetClock /\ UNCHANGED remVars

RemindNext == AppendNext \/ RemindStep

\* The server appends while reminders run.
RemindSpec == RemindInit /\ [][RemindNext]_bothVars

-----------------------------------------------------------------------------
(* Properties.                                                             *)

\* The reminder's variables stay in their types, and it holds as many lines
\* as it has read.
RemindTypeOK ==
    /\ rpc \in {"idle", "append", "save", "read", "truncate", "rewrite"}
    /\ item \in 0..MaxRecords
    /\ rLastTs \in Nat
    /\ rpos \in 0..MaxRecords
    /\ rrows \in Seq(Record) /\ Len(rrows) = rpos

Kept == IdSet(file) \cup HeldIds \cup deleted \cup wiped
          \cup (IF rpc = "rewrite" THEN IdSet(rrows) ELSE {})

\* A message that was answered 200 is not always kept: a reminder run may drop
\* what the server wrote between the reminder's last read and its rewrite.  It
\* drops nothing older, and not the reminder itself.
LossConfined == acked \subseteq Kept \cup late
=============================================================================
