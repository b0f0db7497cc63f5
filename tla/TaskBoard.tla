------------------------------- MODULE TaskBoard -------------------------------
(***************************************************************************)
(* The task board of groupchat/store.py: a fold of the message log, never  *)
(* stored.  The log grows through the endpoints of groupchat/server.py,    *)
(* which decide what type a message is stored with and which thread it     *)
(* belongs to, and shrinks when a message is deleted.                      *)
(*                                                                         *)
(* An owner follows the same rule on the board as a priority and is left   *)
(* out, as are titles, texts and the order the rows are listed in.  A text *)
(* is what _infer_review_comment sees in it.  Records are known by their   *)
(* place in the log; parent_msg_id is used when a message is stored, and   *)
(* since a thread id never changes it does not matter that a delete may    *)
(* come between looking the parent up and writing the reply.               *)
(***************************************************************************)
EXTENDS Naturals, Sequences, FiniteSets, FiniteSetsExt, SequencesExt

CONSTANTS
    Rooms,       \* room ids, "main" among them
    TaskIds,     \* thread ids
    Senders,
    Priorities,  \* priorities a request may name; "p1" is the default
    Severities,  \* P0, P1 and P2: each is looked for and counted on its own
    MaxLog       \* bound: records in the log

None == "none"

ASSUME BoardAssumption ==
    /\ "main" \in Rooms /\ None \notin TaskIds
    /\ Severities \cap {None, "plain", "ALL_CLEAR"} = {}
    /\ MaxLog \in Nat

VARIABLE log

StartTypes == {"task", "review_request"}
Markers == {"plain", "ALL_CLEAR"} \cup Severities

StatusOf == [task |-> "open", review_request |-> "waiting_review",
             progress |-> "in-progress", ship |-> "done", block |-> "blocked",
             review_clear |-> "resolved"]

\* Types without a row in StatusOf; decision, question and broadcast are the
\* same to the board as chat.
MessageTypes == DOMAIN StatusOf \cup {"ack", "chat"}

\* What a request may ask for: None where the body is silent.
AskedTypes == MessageTypes \cup {None}
AskedThreads == TaskIds \cup {None}
AskedPriorities == Priorities \cup {None}
AskedSeverities == Severities \cup {None}

-----------------------------------------------------------------------------
(* What a message is stored as.                                            *)

\* A marker counts only under a thread; ALL_CLEAR is looked for first.
Inferred(marker, under) ==
    CASE under = None           -> None
      [] marker = "ALL_CLEAR"   -> "review_clear"
      [] marker \in Severities -> "progress"
      [] OTHER                  -> None

\* The meta of the request is stored, whoever it is from; what a marker under a
\* thread says goes before it.
StoredSeverity(severity, marker, under) ==
    IF under # None /\ marker \in Severities THEN marker ELSE severity

\* A type that the request asks for is kept, unless it is plain chat.
AppendType(asked, marker, under) ==
    IF asked \in {None, "chat"}
      THEN IF Inferred(marker, under) # None THEN Inferred(marker, under) ELSE "chat"
      ELSE asked

CommentType(asked, marker, under) ==
    CASE asked # None                   -> asked
      [] Inferred(marker, under) # None -> Inferred(marker, under)
      [] OTHER                          -> "progress"

\* parent_task_id of a reply that names a parent record but no thread.
InheritedThread(parent) == IF parent.task # None THEN parent.task ELSE parent.under

Used == UNION {{log[i].task, log[i].under} : i \in 1..Len(log)}

\* A start without a thread id is stored as it is.
StoreDrawsNoId(room, type, task, under, pri, sev, sender) ==
    log' = Append(log,
        [room |-> room, type |-> type, task |-> task, under |-> under,
         pri |-> IF type = "task" /\ pri = None THEN "p1" ELSE pri,
         sev |-> sev, sender |-> sender])

\* store.append: a start without a thread id gets a new one, a task without a
\* priority is p1.
Store(room, type, task, under, pri, sev, sender) ==
    \E tid \in IF type \in StartTypes /\ task = None THEN TaskIds \ Used ELSE {task} :
        log' = Append(log,
            [room |-> room, type |-> type, task |-> tid, under |-> under,
             pri |-> IF type = "task" /\ pri = None THEN "p1" ELSE pri,
             sev |-> sev, sender |-> sender])

-----------------------------------------------------------------------------
(* The endpoints.                                                          *)

Init == log = <<>>

\* POST /group/send looks for no marker.
Send(room, type, task, under, pri, sender) ==
    Store(room, type, task, under, pri, None, sender)

\* POST /group/append under the thread that was resolved for it.
AppendUnder(room, asked, task, under, pri, severity, marker, sender) ==
    Store(room, AppendType(asked, marker, under), task, under, pri,
          StoredSeverity(severity, marker, under), sender)

\* POST /group/reply, or an append with a parent: the thread is the parent's.
Reply(room, asked, parent, pri, severity, marker, sender) ==
    AppendUnder(room, asked, None, InheritedThread(log[parent]), pri, severity,
                marker, sender)

\* POST /group/ack passes on neither a priority nor a meta.
Ack(room, parent, marker, sender) ==
    Reply(room, "ack", parent, None, None, marker, sender)

\* POST /group/thread/<id>/comment: nothing asks whether there is such a
\* thread, a comment without a room goes to "main", and it has no priority.
Comment(room, asked, thread, severity, marker, sender) ==
    AppendUnder(IF room = None THEN "main" ELSE room,
                CommentType(asked, marker, thread), None, thread, None, severity,
                marker, sender)

Grow(sender) ==
    \/ \E room \in Rooms, type \in MessageTypes, task, under \in AskedThreads,
          pri \in AskedPriorities :
            Send(room, type, task, under, pri, sender)
    \/ \E room \in Rooms, asked \in AskedTypes, task, under \in AskedThreads,
          pri \in AskedPriorities, severity \in AskedSeverities, marker \in Markers :
            AppendUnder(room, asked, task, under, pri, severity, marker, sender)
    \/ \E room \in Rooms, asked \in AskedTypes, parent \in 1..Len(log),
          pri \in AskedPriorities, severity \in AskedSeverities, marker \in Markers :
            Reply(room, asked, parent, pri, severity, marker, sender)
    \/ \E room \in Rooms, parent \in 1..Len(log), marker \in Markers :
            Ack(room, parent, marker, sender)
    \/ \E room \in Rooms \cup {None}, asked \in AskedTypes, thread \in TaskIds,
          severity \in AskedSeverities, marker \in Markers :
            Comment(room, asked, thread, severity, marker, sender)

Delete(i) == log' = RemoveAt(log, i)

Next ==
    \/ Len(log) < MaxLog /\ \E sender \in Senders : Grow(sender)
    \/ \E i \in 1..Len(log) : Delete(i)

Spec == Init /\ [][Next]_log

-----------------------------------------------------------------------------
(* tasks_summary.  The board is a function from thread ids to rows, NoRow  *)
(* where there is no such thread; "last" is the place of last_event_id.    *)

NoRow == [kind |-> None]
NoRoom == "all"

Shown(r, room) == room = NoRoom \/ r.room = room
ThreadOf(r) == IF r.type \in StartTypes THEN r.task ELSE r.under
Counts(r, room) == Shown(r, room) /\ r.type \in DOMAIN StatusOf /\ ThreadOf(r) # None

\* setdefault: a thread that is already there keeps its kind.
FirstRow(r, i) ==
    [kind   |-> IF r.type \in StartTypes THEN r.type ELSE "task",
     status |-> StatusOf[r.type],
     pri    |-> IF r.type \in StartTypes /\ r.pri = None THEN "p1" ELSE r.pri,
     sev    |-> [s \in Severities |-> 0], clearBy |-> {}, last |-> i]

\* A start always takes the kind of the thread with it.
StartedRetypes(row, r) ==
    [row EXCEPT !.kind = r.type, !.status = StatusOf[r.type],
                !.pri = IF r.pri # None THEN r.pri ELSE @]

\* A later start sets the status but not the last event.
Started(row, r) ==
    [row EXCEPT !.status = StatusOf[r.type], !.pri = IF r.pri # None THEN r.pri ELSE @]

\* The latest event decides, in a review as well.
FollowedAsTask(row, r, i) ==
    [row EXCEPT
        !.pri = IF r.pri # None THEN r.pri ELSE @,
        !.sev = [s \in Severities |-> IF r.sev = s THEN row.sev[s] + 1 ELSE row.sev[s]],
        !.clearBy = IF r.type = "review_clear" THEN @ \cup {r.sender} ELSE @,
        !.status = StatusOf[r.type], !.last = i]

Followed(row, r, i) ==
    [row EXCEPT
        !.pri = IF r.pri # None THEN r.pri ELSE @,
        !.sev = [s \in Severities |-> IF r.sev = s THEN row.sev[s] + 1 ELSE row.sev[s]],
        !.clearBy = IF r.type = "review_clear" THEN @ \cup {r.sender} ELSE @,
        !.status = IF row.kind = "review_request" /\ r.type # "review_clear"
                     THEN "waiting_review" ELSE StatusOf[r.type],
        !.last = i]

Absorb(board, r, i) ==
    LET tid == ThreadOf(r)
        row == IF board[tid] = NoRow THEN FirstRow(r, i) ELSE board[tid]
    IN  [board EXCEPT ![tid] = IF r.type \in StartTypes
                                 THEN Started(row, r) ELSE Followed(row, r, i)]

\* The board of a room, or of the whole log.
Board(room) ==
    LET board[i \in 0..Len(log)] ==
          IF i = 0 THEN [tid \in TaskIds |-> NoRow]
          ELSE IF Counts(log[i], room) THEN Absorb(board[i - 1], log[i], i) ELSE board[i - 1]
    IN  board[Len(log)]

-----------------------------------------------------------------------------
(* What the rows should say, read off the log without folding it.          *)

Events(tid, room) == {i \in 1..Len(log) : Counts(log[i], room) /\ ThreadOf(log[i]) = tid}
Follows(tid, room) == {i \in Events(tid, room) : log[i].type \notin StartTypes}
Kind(tid, room) ==
    LET first == log[Min(Events(tid, room))]
    IN  IF first.type \in StartTypes THEN first.type ELSE "task"

\* The latest event decides, except that only an ALL_CLEAR takes a review out
\* of waiting_review.
StatusFrom(tid, room) ==
    LET r == log[Max(Events(tid, room))]
    IN  IF /\ Kind(tid, room) = "review_request"
           /\ r.type \notin StartTypes \cup {"review_clear"}
          THEN "waiting_review" ELSE StatusOf[r.type]

PriorityFrom(tid, room) ==
    LET named == {i \in Events(tid, room) : log[i].pri # None}
    IN  CASE named # {}                                                -> log[Max(named)].pri
          [] named = {} /\ log[Min(Events(tid, room))].type \in StartTypes -> "p1"
          [] OTHER                                                     -> None

RowFrom(tid, room) ==
    LET follows == Follows(tid, room)
    IN  [kind    |-> Kind(tid, room),
         status  |-> StatusFrom(tid, room),
         pri     |-> PriorityFrom(tid, room),
         sev     |-> [s \in Severities |-> Cardinality({i \in follows : log[i].sev = s})],
         clearBy |-> {log[i].sender : i \in {j \in follows : log[j].type = "review_clear"}},
         last    |-> IF follows # {} THEN Max(follows) ELSE Min(Events(tid, room))]
-----------------------------------------------------------------------------
(* Properties.                                                             *)

Records == [room : Rooms, type : MessageTypes, task : AskedThreads, under : AskedThreads,
            pri : AskedPriorities \cup {"p1"}, sev : AskedSeverities, sender : Senders]

\* Records keep their shape, and whichever endpoint stored them a start has a
\* thread id and a task a priority.  A severity may be on any of them, also on
\* one that is under no thread: it is the client's.
BoardTypeOK ==
    /\ log \in Seq(Records) /\ Len(log) <= MaxLog
    /\ \A i \in 1..Len(log) :
         /\ log[i].type \in StartTypes => log[i].task # None
         /\ log[i].type = "task" => log[i].pri # None

\* The one pass of tasks_summary over the log puts on the board what the log
\* says of each thread, in any order of starts, comments and deletes, with
\* threads started twice, commented on before they start, or bereft of their
\* start by a delete, and on a board of one room.
BoardIsReference ==
    \A room \in Rooms \cup {NoRoom}, tid \in TaskIds :
        Board(room)[tid] = IF Events(tid, room) = {} THEN NoRow ELSE RowFrom(tid, room)

\* README: a review request "stays `waiting_review` until the reviewer posts
\* `ALL_CLEAR`".  So it does, on the board of every room, whatever is said in
\* the thread and whatever else is deleted, as long as the thread began with
\* the request and no task is started under its id: one that began as a task,
\* or with a comment that was stored before its request, loses the status with
\* the next progress message.
ReviewHeld ==
    \A room \in Rooms \cup {NoRoom}, tid \in TaskIds :
        LET events == Events(tid, room)
        IN  /\ events # {} /\ log[Min(events)].type = "review_request"
            /\ \A i \in events : log[i].type \notin {"review_clear", "task"}
            => Board(room)[tid].status = "waiting_review"
=============================================================================
