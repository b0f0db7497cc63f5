----------------------------- MODULE AgentStatus -----------------------------
(***************************************************************************)
(* The busy marks of the agents: GroupChatStore.set_typing and             *)
(* status_snapshot, and the requests that use them.  A dispatch marks its  *)
(* targets, hands the message to each, and unmarks the ones that failed;   *)
(* an agent's own post unmarks it; a status poll unmarks what is older     *)
(* than three minutes.                                                     *)
(*                                                                         *)
(* A mark is two fields of _state, written one after the other without the *)
(* lock; the lock only covers writing the state file.  Time is the age of  *)
(* a mark: fresh, or old enough to expire.                                 *)
(*                                                                         *)
(* The state file has a second writer: every reminder that the cron        *)
(* process groupchat-ack-reminder appends saves the marks that the process *)
(* read when it started.                                                   *)
(*                                                                         *)
(* The agents are external: each works on the messages it was handed, may  *)
(* post that it is at work, and answers, one request of its own at a time. *)
(***************************************************************************)
EXTENDS Naturals, Sequences, FiniteSets, SequencesExt

CONSTANTS
    Agents,    \* the roster's agents
    Lists,     \* the lists of targets that messages have
    Threads,   \* request threads
    NoThread,
    MaxCalls,  \* bound: targets of all dispatches, notices, posts that answer
               \* nothing, and twice the runs of the reminder process
    MaxFaults  \* bound: failed saves, dispatchers that raise, crashes

ASSUME StatusAssumption ==
    /\ IsFiniteSet(Agents)
    /\ Lists \subseteq SetToAllKPermutations(Agents) \ {<<>>}
    /\ NoThread \notin Threads
    /\ MaxCalls \in Nat /\ MaxFaults \in Nat

VARIABLES
    mark,      \* _state["agents"]: is_typing and typing_since
    stored,    \* the same in the state file
    dump,      \* what the thread that holds the lock will write there
    lock,      \* store._lock
    job,       \* what each thread is doing, and how far it got
    work,      \* work[a]: how many messages a was handed and has not answered
    copy,      \* the marks that the reminder process read from the state file,
               \* as long as it runs
    calls, faults,
    unsaved,   \* history: the last save failed, or a reminder wrote the file since
    odds       \* history: the worst that happened about each agent

requestVars == <<lock, job, dump>>
countVars == <<calls, faults>>
historyVars == <<unsaved, odds>>
vars == <<mark, stored, requestVars, work, copy, countVars, historyVars>>

Free == [typing |-> FALSE, since |-> "none"]
Marks == [typing : BOOLEAN, since : {"none", "fresh", "old"}]

NoMarks == <<>>

\* What may have happened about an agent, each worse than the one before: one
\* dispatch at a time; more than one, a mark that expired, or a post that the
\* agent sent in the middle of its work; a request that died with a write to it
\* undone, or a state file that the server started from without it; two requests
\* writing its mark at once.
Plain == 0
Crossed == 1
Aborted == 2
Torn == 3
Worse(S, odd) == [a \in Agents |-> IF a \in S /\ odds[a] < odd THEN odd ELSE odds[a]]

\* A request: its kind, the step it is at, the agents it still has to write in
\* this round, the value it writes, the targets of its dispatch and those that
\* failed.
Job(kind, at, todo, value) ==
    [kind |-> kind, at |-> at, todo |-> todo, value |-> value,
     targets |-> <<>>, failed |-> <<>>]
Idle == Job("none", "idle", <<>>, FALSE)

Init ==
    /\ mark = [a \in Agents |-> Free] /\ stored = mark /\ dump = mark
    /\ copy = NoMarks
    /\ lock = NoThread /\ job = [t \in Threads |-> Idle]
    /\ work = [a \in Agents |-> 0]
    /\ calls = 0 /\ faults = 0
    /\ unsaved = FALSE /\ odds = [a \in Agents |-> Plain]

-----------------------------------------------------------------------------
(* Who is at what.                                                         *)

Busy(t) == job[t].at # "idle"
Current(t) == Head(job[t].todo)

\* t has written is_typing of a and not yet typing_since.
Between(t, a) == job[t].at = "second" /\ Current(t) = a

\* A request that has something to do with a.
About(t, a) ==
    /\ Busy(t) /\ job[t].kind # "poll"
    /\ a \in Range(job[t].todo) \cup Range(job[t].targets)

\* The agents that t is to write yet, or has marked and not handed the message.
Unsettled(t) ==
    LET j == job[t]
        left == Range(j.todo)
    IN CASE j.kind = "dispatch" /\ j.at = "deliver" -> left \cup Range(j.failed)
         [] j.kind = "dispatch" /\ j.at # "deliver" /\ j.value -> Range(j.targets)
         [] j.kind = "dispatch" /\ j.at # "deliver" /\ ~j.value -> left
         [] j.kind \in {"post", "notice"} /\ j.at \in {"first", "second"} -> left
         [] OTHER -> {}

\* The request of t ends, or its thread dies.
End(t) == job' = [job EXCEPT ![t] = Idle]

\* Writes a field of a, perhaps between the two writes of another thread.
Touch(t, a) ==
    odds' = Worse(IF \E u \in Threads \ {t} : Between(u, a) THEN {a} ELSE {}, Torn)

-----------------------------------------------------------------------------
(* set_typing: is_typing, then typing_since, then the state file.          *)

First(t) ==
    /\ job[t].at = "first"
    /\ mark' = [mark EXCEPT ![Current(t)].typing = job[t].value]
    /\ job' = [job EXCEPT ![t].at = "second"]
    /\ Touch(t, Current(t))
    /\ UNCHANGED <<stored, lock, dump, work, copy, countVars, unsaved>>

Expired(m) == m.typing /\ m.since = "old"

\* Looks no further than the next agent.
OverdueNext(list) == IF list # <<>> /\ Expired(mark[Head(list)]) THEN list ELSE <<>>

\* What a status poll has still to clear when it goes on with these agents.
Overdue(list) ==
    LET i == SelectInSeq(list, LAMBDA a : Expired(mark[a]))
    IN IF i = 0 THEN <<>> ELSE SubSeq(list, i, Len(list))

\* Sets the time only when the mark changes.
SecondOnChange(t) ==
    /\ job[t].at = "second"
    /\ mark' = [mark EXCEPT ![Current(t)].since =
                   IF ~job[t].value THEN "none" ELSE IF stored[Current(t)].typing THEN @ ELSE "fresh"]
    /\ Touch(t, Current(t))
    /\ LET rest == Overdue(Tail(job[t].todo))
       IN job' = [job EXCEPT ![t] = IF @.kind = "poll" /\ rest # <<>>
                                      THEN [@ EXCEPT !.at = "first", !.todo = rest]
                                      ELSE [@ EXCEPT !.at = "save"]]
    /\ UNCHANGED <<stored, lock, dump, work, copy, countVars, unsaved>>

\* A poll does not save what it cleared.
SecondUnsaved(t) ==
    /\ job[t].at = "second"
    /\ mark' = [mark EXCEPT ![Current(t)].since = IF job[t].value THEN "fresh" ELSE "none"]
    /\ Touch(t, Current(t))
    /\ LET rest == Overdue(Tail(job[t].todo))
       IN job' = [job EXCEPT ![t] = IF @.kind # "poll" THEN [@ EXCEPT !.at = "save"]
                                    ELSE IF rest = <<>> THEN Idle
                                    ELSE [@ EXCEPT !.at = "first", !.todo = rest]]
    /\ UNCHANGED <<stored, lock, dump, work, copy, countVars, unsaved>>

\* A poll goes on to the next expired mark, and saves once after the last.
Second(t) ==
    /\ job[t].at = "second"
    /\ mark' = [mark EXCEPT ![Current(t)].since = IF job[t].value THEN "fresh" ELSE "none"]
    /\ Touch(t, Current(t))
    /\ LET rest == Overdue(Tail(job[t].todo))
       IN job' = [job EXCEPT ![t] = IF @.kind = "poll" /\ rest # <<>>
                                      THEN [@ EXCEPT !.at = "first", !.todo = rest]
                                      ELSE [@ EXCEPT !.at = "save"]]
    /\ UNCHANGED <<stored, lock, dump, work, copy, countVars, unsaved>>

\* "with self._lock"; an append has it already.
SaveOpen(t) ==
    /\ job[t].at = "save" /\ lock \in {NoThread, t}
    /\ lock' = t /\ dump' = mark
    /\ job' = [job EXCEPT ![t].at = "dump"]
    /\ UNCHANGED <<mark, stored, work, copy, countVars, historyVars>>

\* What follows a write: the next agent of the round, the dispatch once all
\* targets are marked, the end of the request otherwise.
AfterSave(j) ==
    LET rest == [j EXCEPT !.todo = Tail(@)]
    IN IF j.kind # "poll" /\ rest.todo # <<>> THEN [rest EXCEPT !.at = "first"]
       ELSE IF j.kind = "dispatch" /\ j.value
              THEN [j EXCEPT !.at = "deliver", !.todo = j.targets]
       ELSE IF j.kind = "post" THEN [j EXCEPT !.at = "route"]
       ELSE Idle

\* The temporary file replaces the state file.
SaveClose(t) ==
    /\ job[t].at = "dump"
    /\ stored' = dump /\ lock' = NoThread /\ unsaved' = FALSE
    /\ job' = [job EXCEPT ![t] = AfterSave(@)]
    /\ UNCHANGED <<mark, dump, work, copy, countVars, odds>>

\* json.dump or the file system raises: the state file stays as it was, the
\* lock is released, the request ends.
SaveFails(t) ==
    /\ job[t].at = "dump" /\ faults < MaxFaults /\ faults' = faults + 1
    /\ lock' = NoThread /\ dump' = stored /\ End(t) /\ unsaved' = TRUE
    /\ odds' = Worse(Unsettled(t), Aborted)
    /\ UNCHANGED <<mark, stored, work, copy, calls>>

-----------------------------------------------------------------------------
(* _dispatch.                                                              *)

\* Marks go first, in the order of the targets.
Begin(t, targets) ==
    /\ calls' = calls + Len(targets) /\ calls' <= MaxCalls
    /\ job' = [job EXCEPT ![t] = [Job("dispatch", "first", targets, TRUE)
                                    EXCEPT !.targets = targets]]
    /\ odds' = Worse({a \in Range(targets) :
                        work[a] > 0 \/ \E u \in Threads : About(u, a)}, Crossed)

\* A message of a person.
Dispatch(t) ==
    /\ ~Busy(t)
    /\ \E targets \in Lists : Begin(t, targets)
    /\ UNCHANGED <<mark, stored, lock, dump, work, copy, faults, unsaved>>

\* Keeps the marks of the failed ones; takes all marks away when one failed.
AfterDeliveryKeeps(j) == IF j.todo # <<>> THEN j ELSE Idle
AfterDeliveryClears(j) ==
    IF j.todo # <<>> THEN j
    ELSE IF j.failed = <<>> THEN Idle
    ELSE [j EXCEPT !.at = "first", !.todo = j.targets, !.value = FALSE]

\* Once every target was handed the message, the failed ones are unmarked.
AfterDelivery(j) ==
    IF j.todo # <<>> THEN j
    ELSE IF j.failed = <<>> THEN Idle
    ELSE [j EXCEPT !.at = "first", !.todo = j.failed, !.value = FALSE]

Handed(t, failed) ==
    LET rest == Tail(job[t].todo)
    IN job' = [job EXCEPT ![t] = AfterDelivery([@ EXCEPT !.todo = rest, !.failed = failed])]

\* Hands it over again after a success.
DeliveredRetries(t) ==
    /\ job[t].at = "deliver"
    /\ work' = [work EXCEPT ![Current(t)] = @ + 1]
    /\ UNCHANGED <<mark, stored, requestVars, copy, countVars, historyVars>>

\* The POST is answered, or the prompt is in the terminal.
Delivered(t) ==
    /\ job[t].at = "deliver"
    /\ work' = [work EXCEPT ![Current(t)] = @ + 1]
    /\ Handed(t, job[t].failed)
    /\ UNCHANGED <<mark, stored, lock, dump, copy, countVars, historyVars>>

\* No URL or session for the agent, or nobody there.
Undelivered(t) ==
    /\ job[t].at = "deliver"
    /\ Handed(t, Append(job[t].failed, Current(t)))
    /\ UNCHANGED <<mark, stored, lock, dump, work, copy, countVars, historyVars>>

\* The answer to the POST comes after the timeout, or Enter fails after the
\* paste: the agent has the message and counts as failed.
TimedOut(t) ==
    /\ job[t].at = "deliver"
    /\ work' = [work EXCEPT ![Current(t)] = @ + 1]
    /\ odds' = Worse({Current(t)}, Crossed)
    /\ Handed(t, Append(job[t].failed, Current(t)))
    /\ UNCHANGED <<mark, stored, lock, dump, copy, countVars, unsaved>>

\* The dispatcher raises: a context or trigger file that cannot be written.
DispatcherRaises(t) ==
    /\ job[t].at = "deliver" /\ faults < MaxFaults /\ faults' = faults + 1
    /\ End(t)
    /\ odds' = Worse(Unsettled(t), Aborted)
    /\ UNCHANGED <<mark, stored, lock, dump, work, copy, calls, unsaved>>

-----------------------------------------------------------------------------
(* The agents' requests.                                                   *)

Quiet(a) == \A t \in Threads : job[t].kind \in {"post", "notice"} => ~About(t, a)

\* POST /group/append by an agent at work: the answer to a message, or an ACK
\* or a progress comment, after which it works on.  Either way its mark is
\* cleared by append, under the lock, and once more after it.
Post(t, a) ==
    /\ ~Busy(t) /\ lock = NoThread /\ Quiet(a) /\ work[a] > 0
    /\ \/ work' = [work EXCEPT ![a] = @ - 1] /\ UNCHANGED <<calls, odds>>
       \/ /\ calls < MaxCalls /\ calls' = calls + 1
          /\ odds' = Worse({a}, Crossed) /\ UNCHANGED work
    /\ lock' = t
    /\ job' = [job EXCEPT ![t] = Job("post", "first", <<a, a>>, FALSE)]
    /\ UNCHANGED <<mark, stored, dump, copy, faults, unsaved>>

\* The append answers, or first hands the message on to agents it mentions,
\* never to its own sender.
Route(t) ==
    /\ job[t].at = "route"
    /\ \/ End(t) /\ UNCHANGED <<calls, odds>>
       \/ \E targets \in Lists :
            Current(t) \notin Range(targets) /\ Begin(t, targets)
    /\ UNCHANGED <<mark, stored, lock, dump, work, copy, faults, unsaved>>

\* POST /group/typing and /group/dispatch-state, from an agent at work.
Notice(t, a) ==
    /\ ~Busy(t) /\ Quiet(a) /\ work[a] > 0
    /\ calls < MaxCalls /\ calls' = calls + 1
    /\ \E v \in BOOLEAN :
         /\ job' = [job EXCEPT ![t] = Job("notice", "first", <<a>>, v)]
         /\ odds' = Worse(IF v THEN {} ELSE {a}, Crossed)
    /\ UNCHANGED <<mark, stored, lock, dump, work, copy, faults, unsaved>>

-----------------------------------------------------------------------------
(* status_snapshot, from the roster, status and poll handlers.             *)

Roster == SetToSeq(Agents)

\* Looks for an expired mark and then clears it, whatever mark that is by then.
\* A poll that finds none changes nothing and is not a step.
Poll(t) ==
    /\ ~Busy(t) /\ Overdue(Roster) # <<>>
    /\ job' = [job EXCEPT ![t] = Job("poll", "first", Overdue(Roster), FALSE)]
    /\ UNCHANGED <<mark, stored, lock, dump, work, copy, countVars, historyVars>>

-----------------------------------------------------------------------------
(* groupchat-ack-reminder --apply, a process of its own with its own lock. *)

\* GroupChatStore.__init__, each time cron starts the process.  A run that
\* finds nothing due writes nothing and is left out.
ReminderLoads ==
    /\ copy = NoMarks /\ copy' = stored
    /\ calls' = calls + 2 /\ calls' <= MaxCalls
    /\ UNCHANGED <<mark, stored, requestVars, work, faults, historyVars>>

\* A reminder, the last of this run or not: an append's _save_state.  Its sender
\* is a person, whose append changes no mark: the process writes back the marks
\* it read.
ReminderSaves ==
    /\ copy # NoMarks /\ copy' \in {copy, NoMarks}
    /\ stored' = copy /\ unsaved' = TRUE
    /\ UNCHANGED <<mark, requestVars, work, countVars, odds>>

-----------------------------------------------------------------------------
(* Time and faults.                                                        *)

Aged(m) == [a \in Agents |-> [m[a] EXCEPT !.since = IF @ = "fresh" THEN "old" ELSE @]]

\* Three minutes pass.
TimePasses ==
    /\ \E m \in {mark, stored, dump, copy} \ {NoMarks}, a \in Agents : m[a].since = "fresh"
    /\ mark' = Aged(mark) /\ stored' = Aged(stored) /\ dump' = Aged(dump)
    /\ copy' = IF copy = NoMarks THEN NoMarks ELSE Aged(copy)
    /\ odds' = Worse({a \in Agents : mark[a].typing}, Crossed)
    /\ UNCHANGED <<lock, job, work, countVars, unsaved>>

\* The server dies and starts again from the state file.
Crash ==
    /\ faults < MaxFaults /\ faults' = faults + 1
    /\ mark' = stored /\ dump' = stored
    /\ lock' = NoThread /\ job' = [t \in Threads |-> Idle]
    /\ LET undone == {a \in Agents : stored[a] # mark[a]}
                       \cup UNION {Unsettled(t) : t \in Threads}
           undated == {a \in Agents : stored[a].typing /\ stored[a].since = "none"}
       IN odds' = [a \in Agents |-> IF a \in undated THEN Torn ELSE Worse(undone, Aborted)[a]]
    /\ unsaved' = FALSE
    /\ UNCHANGED <<stored, work, copy, calls>>

-----------------------------------------------------------------------------

Serve(t) ==
    \/ First(t) \/ Second(t) \/ SaveOpen(t) \/ SaveClose(t)
    \/ Delivered(t) \/ Undelivered(t) \/ TimedOut(t) \/ Route(t)

Next ==
    \/ \E t \in Threads :
         \/ Serve(t) \/ Dispatch(t) \/ Poll(t)
         \/ SaveFails(t) \/ DispatcherRaises(t)
         \/ \E a \in Agents : Post(t, a) \/ Notice(t, a)
    \/ ReminderLoads \/ ReminderSaves \/ TimePasses \/ Crash

Spec == Init /\ [][Next]_vars

\* Requests under way are scheduled, somebody polls the status as long as there
\* is a mark to clear, and time passes.  Agents need not answer.
FairSpec ==
    /\ Spec
    /\ \A t \in Threads : WF_vars(Serve(t))
    /\ WF_vars(TimePasses)
    /\ WF_vars(\E t \in Threads : Poll(t))

-----------------------------------------------------------------------------
(* Properties.                                                             *)

\* Marks, their copies and what each thread is at stay in their types.
StatusTypeOK ==
    /\ mark \in [Agents -> Marks] /\ stored \in [Agents -> Marks]
    /\ dump \in [Agents -> Marks] /\ copy \in [Agents -> Marks] \cup {NoMarks}
    /\ lock \in Threads \cup {NoThread}
    /\ \A t \in Threads : job[t].todo \in Seq(Agents) /\ job[t].targets \in Lists \cup {<<>>}
    /\ \A a \in Agents : work[a] \in 0..MaxCalls
    /\ odds \in [Agents -> Plain..Torn]

\* A mark always has a time to expire by, unless two requests wrote the two
\* fields of it at once, or the server started from a file that was saved
\* between them.
UndatedNeedsRace ==
    \A a \in Agents :
        odds[a] < Torn /\ mark[a].typing /\ (\A t \in Threads : ~Between(t, a))
            => mark[a].since # "none"

\* An agent that has answered everything it was handed is not shown as busy,
\* once the requests about it are over: marks come before the delivery, so no
\* fast answer is followed by the mark of what it answers.
AnsweredIsIdle ==
    \A a \in Agents :
        odds[a] < Aborted /\ work[a] = 0 /\ (\A t \in Threads : ~About(t, a) /\ ~Between(t, a))
            => ~mark[a].typing

\* An agent at work on the one message it was handed, and that has posted
\* nothing in the middle of it, is shown as busy, whatever happens to the other
\* targets of the message, and also after a crash: its mark is in the state file
\* before it is woken, and there it stays unless a reminder writes the file.  An
\* ACK or a progress comment clears the mark while the agent works on.
BusyShown ==
    \A a \in Agents : odds[a] = Plain /\ work[a] > 0 => mark[a].typing

\* When all requests are over the state file has the marks that memory has,
\* though none of the writers held the lock while it changed them, unless the
\* last save failed or a reminder has written the file since.
FileFollows ==
    (\A t \in Threads : ~Busy(t)) /\ ~unsaved => stored = mark

\* docs/ARCHITECTURE.md:118: "Typing state older than three minutes is cleared
\* on status snapshots."  So no agent is busy for ever, whatever failed and
\* however often the server restarted, but for a mark that two requests wrote
\* at once and that has no time to expire by.
MarksExpire ==
    \A a \in Agents : []<>(~mark[a].typing) \/ <>(odds[a] = Torn)
=============================================================================
