---------------------------- MODULE DeliveryBoard ----------------------------
(***************************************************************************)
(* The delivery board, delivery_summary, over the log of Handoff, and the  *)
(* runs of groupchat-ack-reminder that work through what is overdue on it. *)
(* A run reads the board once, then appends and marks for one item after   *)
(* the other; agents answer, messages are deleted and a run may die in     *)
(* between.  A marker is written by a rewrite of the log, and so is a      *)
(* delete: each writes back the messages and the markers that it read,     *)
(* whatever was stored, deleted or marked since.  So here, unlike in       *)
(* Handoff, answers may vanish and deleted messages come back.  A rewrite  *)
(* is one step; ReminderProcess has the moment in which the file is empty. *)
(*                                                                         *)
(* Both the timeout of an acknowledgement and the interval of reminders    *)
(* are five minutes: time is whether a message or a marker is older.       *)
(***************************************************************************)
EXTENDS Handoff

CONSTANTS
    Runs,       \* reminder runs that may be under way at once
    Reminder,   \* --sender-id, a person
    MaxDeaths   \* bound: runs that die

\* The delete of the server, among those that rewrite the log.
Server == "server"

ASSUME BoardAssumption == Reminder \in People /\ MaxDeaths \in Nat /\ Server \notin Runs

VARIABLES
    late,       \* messages older than the timeout
    marked,     \* items whose reminded_at in the log is within the interval
    todo,       \* todo[r]: the due items a run has still to do, {} for no run
    current,    \* current[r]: the item it appended for and has not marked
    held,       \* what each rewrite under way has read
    doomed,     \* the message that a delete under way will leave out
    deaths,
    sent,       \* history: items reminded of within the interval
    excused,    \* history: those whose marker something got in the way of
    again       \* history: items reminded of twice within one, not excused

runVars == <<todo, current, deaths>>
boardVars == <<late, marked, runVars, held, doomed, sent, excused, again>>
allVars == <<handoffVars, boardVars>>

AllItems == Ids \X Agents
NoItem == <<0, "none">>
Unread == [rows |-> <<>>, markers |-> {NoItem}]

Overdue == {i \in Open : i[1] \in late}

BoardInit ==
    /\ Init
    /\ late = {} /\ marked = {}
    /\ todo = [r \in Runs |-> {}] /\ current = [r \in Runs |-> NoItem] /\ deaths = 0
    /\ held = [w \in Runs \cup {Server} |-> Unread] /\ doomed = NoParent
    /\ sent = {} /\ excused = {} /\ again = {}

-----------------------------------------------------------------------------
(* A reminder run                                                          *)

DueAnyway == Overdue
Due == Overdue \ marked

Running(r) == todo[r] # {}

\* due_items, once; a run with nothing to do is no step.  Two runs may be about
\* the same item.
RunStart(r) ==
    /\ ~Running(r) /\ Due # {}
    /\ todo' = [todo EXCEPT ![r] = Due]
    /\ excused' = excused \cup (Due \cap UNION {todo[q] : q \in Runs})
    /\ UNCHANGED <<handoffVars, late, marked, current, deaths, held, doomed, sent, again>>

\* Looks at the board again for every item.
RemindAppendAnew(r) ==
    /\ Running(r) /\ current[r] = NoItem
    /\ \E i \in Due :
         /\ current' = [current EXCEPT ![r] = i]
         /\ sent' = sent \cup {i}
         /\ again' = again \cup ({i} \cap (sent \ excused))
    /\ UNCHANGED <<handoffVars, late, marked, todo, deaths, held, doomed, excused>>

\* store.append: a record with the message as its parent and no targets.  It is
\* a person's and wakes nobody: nothing else ever reads it, and the log leaves
\* it out.
RemindAppend(r) ==
    /\ Running(r) /\ current[r] = NoItem
    /\ \E i \in todo[r] :
         /\ current' = [current EXCEPT ![r] = i]
         /\ sent' = sent \cup {i}
         /\ again' = again \cup ({i} \cap (sent \ excused))
    /\ UNCHANGED <<handoffVars, late, marked, todo, deaths, held, doomed, excused>>

\* store.mark_reminded reads the log, without any lock of the server's ...
MarkRead(r) ==
    /\ current[r] # NoItem /\ held[r] = Unread /\ current[r][1] \in KnownIds
    /\ held' = [held EXCEPT ![r] = [rows |-> log, markers |-> marked]]
    /\ UNCHANGED <<handoffVars, late, marked, runVars, doomed, sent, excused, again>>

Done(r) ==
    /\ todo' = [todo EXCEPT ![r] = @ \ {current[r]}]
    /\ current' = [current EXCEPT ![r] = NoItem]
    /\ UNCHANGED deaths

\* ... where a message that is gone gets no marker ...
MarkNothing(r) ==
    /\ current[r] # NoItem /\ held[r] = Unread /\ current[r][1] \notin KnownIds
    /\ Done(r)
    /\ excused' = excused \cup {current[r]}
    /\ UNCHANGED <<handoffVars, late, marked, held, doomed, sent, again>>

\* A rewrite undoes what happened to the log since it read.
WriteBack(w, rows, markers) ==
    /\ log' = rows /\ marked' = markers
    /\ excused' = excused \cup (marked \ markers)
    /\ held' = [held EXCEPT ![w] = Unread]
    /\ UNCHANGED <<nextId, online, inbox, answered>>

\* ... and writes all of it back with the marker.
MarkWrite(r) ==
    /\ held[r] # Unread
    /\ WriteBack(r, held[r].rows, held[r].markers \cup {current[r]})
    /\ Done(r)
    /\ UNCHANGED <<changes, late, doomed, sent, again>>

\* The run is killed, or the store raises.
RunDies(r) ==
    /\ Running(r) /\ deaths < MaxDeaths /\ deaths' = deaths + 1
    /\ todo' = [todo EXCEPT ![r] = {}] /\ current' = [current EXCEPT ![r] = NoItem]
    /\ held' = [held EXCEPT ![r] = Unread]
    /\ excused' = excused \cup ({current[r]} \ {NoItem})
    /\ UNCHANGED <<handoffVars, late, marked, doomed, sent, again>>

RunStep(r) ==
    RunStart(r) \/ RemindAppend(r) \/ MarkRead(r) \/ MarkNothing(r) \/ MarkWrite(r)

\* Any marker counts, however old.
TimePassesUnnoticed ==
    /\ doomed = NoParent /\ \A r \in Runs : ~Running(r)
    /\ late' = {r.id : r \in Range(log)}
    /\ sent' = {} /\ excused' = {}
    /\ UNCHANGED <<handoffVars, marked, runVars, held, doomed, again>>

\* Five minutes pass; a run and a delete take less.
TimePasses ==
    /\ doomed = NoParent /\ \A r \in Runs : ~Running(r)
    /\ late' = {r.id : r \in Range(log)}
    /\ marked' = {} /\ sent' = {} /\ excused' = {}
    /\ UNCHANGED <<handoffVars, runVars, held, doomed, again>>

-----------------------------------------------------------------------------
(* The server                                                              *)

\* store.delete reads and writes under store._lock, which every request that
\* stores a message waits for ...
DeleteRead(id) ==
    /\ doomed = NoParent /\ id \in KnownIds \ {NoParent} /\ changes < MaxChanges
    /\ doomed' = id
    /\ held' = [held EXCEPT ![Server] = [rows |-> log, markers |-> marked]]
    /\ UNCHANGED <<handoffVars, late, marked, runVars, sent, excused, again>>

\* ... and a reminder run does not.  A marker is a field of the message and goes
\* with it.
DeleteWrite ==
    /\ doomed # NoParent /\ Change
    /\ \E i \in 1..Len(held[Server].rows) :
         /\ held[Server].rows[i].id = doomed
         /\ WriteBack(Server, RemoveAt(held[Server].rows, i),
                      {m \in held[Server].markers : m[1] # doomed})
    /\ doomed' = NoParent
    /\ UNCHANGED <<late, runVars, sent, again>>

BoardNext ==
    \/ doomed = NoParent /\ Chat /\ UNCHANGED boardVars
    \/ \E id \in Ids : DeleteRead(id)
    \/ DeleteWrite
    \/ \E r \in Runs : RunStep(r) \/ RunDies(r)
    \/ TimePasses

BoardSpec == BoardInit /\ [][BoardNext]_allVars

\* Time passes, cron starts the reminder every minute and lets it end, and so
\* does a delete.  Nothing is assumed of people and agents.
FairSpec ==
    /\ BoardSpec
    /\ WF_allVars(TimePasses) /\ WF_allVars(DeleteWrite)
    /\ \A r \in Runs : WF_allVars(RunStep(r))

-----------------------------------------------------------------------------
(* Properties.                                                             *)

\* Items, runs, rewrites and histories stay in their types.
DeliveryTypeOK ==
    /\ late \subseteq Ids /\ doomed \in {NoParent} \cup Ids
    /\ marked \cup sent \cup again \cup excused \subseteq AllItems
    /\ todo \in [Runs -> SUBSET AllItems] /\ current \in [Runs -> {NoItem} \cup AllItems]
    /\ \A r \in Runs : current[r] \in todo[r] \cup {NoItem}
    /\ held \in [Runs \cup {Server} ->
                   {Unread} \cup [rows : Seq(Records), markers : SUBSET AllItems]]
    /\ doomed # NoParent => held[Server] # Unread
    /\ \A r \in Runs : held[r] # Unread => current[r] # NoItem

\* docs/ARCHITECTURE.md:202: a marker is written "so the same overdue item is
\* not reminded on every run": no item is reminded of twice in an interval,
\* unless a run died between the reminder and its marker, two runs were about
\* it at once, its message was gone when the marker was to be written, or a
\* rewrite took the marker away: a delete of the message, or one that read
\* before the marker was written.  Nothing else does it: an answer that a
\* rewrite drops, or a message that it brings back, is not enough.
RemindedOnce == again = {}

\* An item that stays open is reminded of again and again, in one interval
\* after the other, though runs die and markers and answers are lost.
StillReminded ==
    \A i \in AllItems : []<>(i \notin Open \/ i \in sent)
=============================================================================
