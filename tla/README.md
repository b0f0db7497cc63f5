# TLA+ models of group-chat-oss

group-chat-oss is a work group for terminal coding agents: a small HTTP server
keeps one chat log, people and agents post to it, and the server wakes the
agents that a message is for.  What is hard about it is not the size of the
code but the number of parties that touch the same few files and screens
without a common lock: the request threads of the server, the reminder process,
a dispatcher and a watcher per agent, and clients that poll.

This directory holds TLA+ models of those parts, TLC configurations that check
them on small instances, and TLAPS proofs of the safety properties for every
instance.  Line numbers are those of `src/`.

## 1. The system

| Component | Code | State | Operations | Modelled by |
|---|---|---|---|---|
| message log | `groupchat/store.py`, `server.py` (`/group/delete`, `/group/clear`) | JSONL file, `state.json`, `_last_ts`, `_state`, `_lock` | `append`, `delete`, clear, `_save_state`, start | `MessageLog`, `AbstractLog`, `TornLog` (cut-off writes) |
| poll and history readers | `store.py` `_iter_records`, `read_since`; `server.py` `/group/poll`, `/group/history` | none on the server; a cursor (`last_ts`) and an oldest page in each client | poll, page back | `PollClients` |
| ACK reminder | `groupchat/ack_reminder.py`, `store.mark_reminded` | a second store over the same two files | remind, mark | `ReminderProcess` (what it does to the log), `DeliveryBoard` (whom it reminds) |
| duplicate window | `server.py` `_dedupe` | `_group_dedupe_cache` | check, mark, purge | `DuplicateWindow` |
| task board and review threads | `store.tasks_summary`, `server.py` append, reply, ack, comment handlers | none: a fold of the log | every endpoint that stores a message; delete | `TaskBoard` |
| tmux dispatcher and reply watcher | `adapters/tmux_dispatcher.py`, `tmux_reply_watcher.py` | terminal session, trigger file, `processed`, `last_digest` | dispatch, scrape, post, clear trigger | `TmuxTurn` |
| routing and handoffs | `store.targets_for`, `server.py` send, append and what ends in it | `delivery.targets` of a record, `hop_count` of a message | pick targets, wake, hand on | `Handoff` |
| delivery board | `store.delivery_summary` | none: a fold of the log; `reminded_at` in a record | items, acknowledged, overdue | `Handoff`, `DeliveryBoard` |
| agent status | `store.set_typing`, `status_snapshot`, `server.py` `_dispatch` | `_state["agents"]`, `state.json` | mark, unmark, three-minute expiry | `AgentStatus` |
| webhook dispatcher | `adapters/webhook_dispatcher.py` | none | one POST per target | `AgentStatus` (its outcomes) |
| presence | `groupchat/presence.py`, `adapters/tmux_presence.py` | none | who is online | `Handoff` (an input that changes) |
| HTTP front end, configuration, command line, bridges | the rest | none, or read once at start | | not modelled (section 8) |

How they interact:

- `ThreadingHTTPServer` runs each request on a thread of its own. Threads share
  the store and the duplicate cache. `append` and `delete` take `store._lock`;
  reads, `/group/clear`, `set_typing` from within append, and `_dedupe` do not.
- The reminder process opens the same log and state file with its own store
  object, so `_lock` does not keep the two processes apart: its rewrites of the
  log undo what the server did meanwhile, and its appends put the agents' marks
  in the state file back to what they were when it started.
- The log is the only source of truth. The task board and the delivery board
  are computed from it on every request, so that whatever goes wrong in the log
  goes wrong on the boards.
- A message to a tmux agent is pasted into its terminal; then a trigger file is
  written. The watcher, a process per agent, polls for the file, waits for the
  screen to settle, cuts the reply out of it, posts it to `/group/append` and
  unlinks the file. Two dispatches share one terminal and one file path, and
  the watcher finds the message on the screen by its words.
- A message is stored with its targets, then `_dispatch` marks them as busy,
  hands the message to each and unmarks the ones that failed.  Agents answer
  through the same endpoints as people, at any time, also before the dispatch is
  over; an answer may mention agents and so is dispatched in turn.

What makes each part correct:

- *message log*: what was answered 200 is kept until somebody deletes it, what
  was deleted stays deleted, and timestamps grow along the file;
- *readers*: a client that follows `last_ts` gets every message once;
- *reminders*: nothing of the server's is lost to a reminder;
- *duplicate window*: duplicates and only duplicates are refused;
- *task board*: rows say what the log says; a review waits for its ALL_CLEAR;
- *tmux turns*: a reply is the agent's own answer to the message it names, once,
  and no trigger is left or lost;
- *handoffs*: chains of agents end, and no work is lost from sight;
- *delivery board*: an item that stays open is reminded of, once per interval;
- *agent status*: who is at work is shown as busy, who is done is not, and no
  mark stays for ever.

`PROJECT.json` lists the hazards at their lines, with the property that guards
against each, or the reason why there is none yet.

## 2. Modules

```
AbstractLog <--refines-- MessageLog <--extends-- PollClients
                          ^   ^  ^------extends-- ReminderProcess
                          |   |---------extends-- TornLog
                          |
                   MessageLogProofs <-- PollProofs                    (TLAPS)
                          ^        (extends PollClients)
                          |
                    LogLossProofs                                     (TLAPS)
            (extends ReminderProcess, TornLog)

Handoff <--extends-- DeliveryBoard <-- DeliveryProofs                 (TLAPS)

DuplicateWindow <-- DuplicateProofs     TmuxTurn    <-- TmuxProofs    (TLAPS)
TaskBoard       <-- TaskBoardProofs     AgentStatus <-- AgentProofs   (TLAPS)
```

The `MC` modules declare model values, the inputs that a cfg cannot write down
and, where it is sound, a symmetry set; `TaskBoard` needs none.  No liveness run
uses symmetry.

### MessageLog

A step is one effect another party can see: `StartAppend` (lock, id, timestamp),
`AppendWrite` (the line reaches the file), `AppendSave` (state file, release,
200).  `delete` is `DeleteRead`, `DeleteTruncate` (`open(path, "w")`) and
`DeleteRewrite`.  `/group/clear` is `ClearTruncate` and `ClearReset`, neither
under the lock, as in the code.  `AppendFails` is an exception on the way,
before or after the line was written, `DeleteFails` one in the truncation or
the rewrite, which releases the lock and leaves any prefix of the lines with the
server alive, `Restart` a stop between requests, `Crash` a death at any step,
which leaves any prefix of a rewrite.  `SetClock` moves the clock forwards or
backwards: timestamps are local times compared as strings.

| Variable | Code |
|---|---|
| `file`, `diskTs` | the JSONL file; `last_ts` in `state.json` |
| `lastTs`, `memTs` | `_last_ts`; `_state["last_ts"]` |
| `lock`, `pc`, `rec`, `lines`, `target` | `_lock`, and the locals of the request on each thread |
| `acked`, `deleted`, `wiped` | what clients were told; what clears, crashes and failed rewrites took |

Three specifications over the same actions: `ServerSpec` (appends, deletes,
restarts between requests, a clock that moves), `Spec` (also clears, failures
and crashes), `FairSpec` (`Spec` with fairness).  `AbstractLog` says what the
store promises its readers: `Post` adds a record later than any before it,
`TakeOut` removes one record, nothing else changes.

### TornLog

Extends `MessageLog` (without clears) with writes that stop in the middle of a
line, since the disk is full (`AppendTorn`, `DeleteTorn`) or the server dies
(`DiesInAppend`, `DiesInRewrite`): before the newline, in the line, or within a
character; `TearRewrite` is what either leaves of a rewrite.
`file` is what `json.loads` makes of the lines, `tail` how the file ends, `cut`
whether bytes of a character are missing.  `Put` is a write at the end of the
file: behind a line without its newline both are one bad line.  A delete writes
every line back with a newline (`MendingDelete`), unless the file cannot be
decoded.

### PollClients

Extends `MessageLog` (appends, deletes, clock steps and restarts; not clears).
The client is external: it sends the `last_ts` of each answer as `since` of the
next poll, and the timestamp of its oldest record as `before` of the next page
back, which is what the two parameters are for.  A request is `PollOpen` or
`BackOpen`, a `ReadLine` for each line, then `PollAnswer` or `BackAnswer`; the
handlers take no lock, so a writer may come between any two lines, and a
position in the file is a number of lines, which a rewrite shifts.  A page with
a cursor holds the oldest rows, one without a cursor or with `before` the newest
(`read_since`).  History: `seen`, what each client was sent, and `crossed`, the
clients with a request under way while a delete truncated and rewrote the file.

### ReminderProcess

Extends `MessageLog` with the second process: `RemindStart`, `RemindWrite`,
`RemindSave` are its append, `RemindRead`, `RemindReadEnd`, `RemindTruncate`,
`RemindRewrite` are `mark_reminded`, which reads before it takes its lock.  Both
writers have file descriptors of their own: a rewrite starts at offset 0 and
covers what was appended since the truncation (`Overwrite`), with lines taken to
be equally long.

### DuplicateWindow

`_dedupe` with one dictionary operation per step: `Refuse` or `Pass`, `Mark`,
then the purge loop (`PurgeTest`, `PurgeDrop`, and `PurgeKeyError` for a key
that another thread's purge took).  `Store` and `Reject` are the ends of the
handler.  `SetClock` sets the clock to any reading: `time.time()` may be set
back.  `raced` is a history variable: the requests whose check or mark another
thread got in the way of, and those whose mark a purge removed.

### TaskBoard

One variable, the log. Every endpoint that stores a message is an operator that
decides, as the handler does, on the type, thread, room, priority and severity
of the record: `Send`, `AppendUnder`, `Reply`, `Ack`, `Comment`. A severity is
the client's own `meta.severity`, under a thread or not, unless the text of a
comment has a marker (`StoredSeverity`). `Board(room)` is `tasks_summary`, a
recursive function over the log (`FirstRow`, `Started`, `Followed`); `RowFrom`
is the same row defined by quantifiers over the log.

### TmuxTurn

Dispatch is `Inject`, `OpenTrigger` (which empties the file), `WriteTrigger`.
The terminal is a sequence of prompts and pieces of answers, each with its text.
Messages and answers choose from the same few texts, so that an answer may
repeat its message or another one's; `asks` is what each message says and
`wrapped` those whose text the terminal breaks over lines, so that it is not
found there.  The agent (external: it is whatever runs in the terminal) takes
prompts in order and answers each in any number of pieces, some of them noise.
`SessionGone`, `SessionBack` and `SessionReplaced` are what tmux says of the
session: not there, there again, or another one with another agent in it.

The watcher is `DropTrigger`, `Begin` (which keeps the trigger while there is
no session), `Settle`, `GiveUp` (`max_wait`), `PostStored`, `PostRefused` and
`Retry`, without limit, `Unlink`, `WatcherCrash`.  `Clean` and `Scraped` are
what `clean_reply` and `wait_for_reply` make of a capture, at the grain of whole
entries: what follows the last entry that has the words of the message
(`Shows`), be it the prompt or an answer that repeats it, and all of the capture
when there is none.  `Heard` is the filter of lines, a recursive function so
that it can be reasoned about.

History: `mixed`, the messages in play when turns overlapped; `halfRead`, those
whose trigger the watcher read while it was being written; `cut`, those in play
when the session was replaced.  `Plain(m)` is a message that is neither mixed
nor cut nor wrapped.

### Handoff

One step per request: `Send` of a person, `Answer` of an agent that was woken,
through any of the endpoints (`/group/reply`, `/group/append`, `/ack`, a thread
comment, the watcher's post), `Delete`, and `Presence`, an agent that comes or
goes.  `targets_for` is the code's function; `WithQuoted` is the rule that a
message of a person without mentions is for the agent that it quotes.
`SentBack` is what each endpoint makes of the hop count: the watcher adds one to
that of its trigger, a caller of `/group/reply` or `/group/append` sends it back
or leaves it out, `/group/ack` and the comments have no place for it.
`Items`, `Acknowledged` and `Open` are `delivery_summary` over the log.

| Variable | Code |
|---|---|
| `log` | the JSONL file: id, sender, `parent_msg_id`, `delivery.targets` |
| `online` | `_group_online_agents` |
| `inbox` | agents that were woken and may still answer, with the hop count they were told; history: the length of their chain, and whether an answer on it left the count out |
| `answered` | history: who answered what, with which record |

### DeliveryBoard

Extends `Handoff` with `groupchat-ack-reminder --apply`, run by cron, possibly
twice at once: `RunStart` is `due_items`, then for each item `RemindAppend`,
`MarkRead`, `MarkWrite`, or `MarkNothing` for a message that is gone; `RunDies`
at any point.  The delete of the server is `DeleteRead` and `DeleteWrite`.  Both
rewrites put back the messages and the markers that they read (`held`,
`WriteBack`): an answer stored meanwhile is gone, a message deleted meanwhile is
back.  So the log is not that of `Handoff` any more, and `WorkIsTracked`, which
holds there, does not hold beside a reminder run.  The moment in which the file
is empty is in `ReminderProcess`.  Time is whether a message is older than the
acknowledgement timeout and a marker younger than the interval, both five
minutes.

### AgentStatus

A mark is two fields of `_state`, written one after the other without the lock:
`First`, `Second`, then the state file, `SaveOpen` and `SaveClose`, which take
it.  A dispatch is a round of marks, the deliveries (`Delivered`, `Undelivered`,
`TimedOut`: the agent has the message and counts as failed) and a round of
unmarks; `Post` is an agent's `/group/append`, the answer to a message or an ACK
or a progress comment after which it works on, which unmarks it twice, once
under the lock, and may go on to dispatch; `Notice` is `/group/typing` and
`/group/dispatch-state`; `Poll` is `status_snapshot`, which looks at a mark and
then clears it.  `ReminderLoads` and `ReminderSaves` are the second writer of
the state file: `groupchat-ack-reminder --apply` reads it when it starts, and
each of its appends writes back the marks it read (`copy`).  `SaveFails`,
`DispatcherRaises` and `Crash` are the faults.  `odds` is a history variable:
the worst that has happened about each agent (nothing; overlapping requests, an
expired mark or a post in the middle of its work; a request that died half way,
or a server that started from a file without its mark; two requests writing the
fields at once).

## 3. Runs

| Run | Bounds | Result |
|---|---|---|
| `log_server` | 2 threads, 4 records, 3 clock readings, no faults | `TsOrdered`, `ServerInv`, refinement of `AbstractLog` hold |
| `log_faults` | 2 threads, 3 records, 2 readings; clears, failing appends and rewrites, crashes; fairness | `NoLoss`, `NoResurrection`, `LogInv` (with `TypeOK`), `LockReleased` hold |
| `torn_confined` | 2 threads, 4 records, 2 readings, 2 cut-off writes, any deaths and failed rewrites | `LossPerTear`, `AckedInOrder`, types hold |
| `poll_follow` | 2 threads, 1 client, page of 1, 4 records, 2 readings, deletes, restarts; fairness | `PollComplete`, `NothingTwice`, `EventuallySeen`, types hold |
| `reminder_confined` | 2 threads, 5 records, reminders one after the other | `LossConfined`, types hold |
| `dedupe_threads` | 2 threads, 4 requests, 2 keys, window 2, expiry 2, readings to 6 in any order | `DuplicatesNeedRace`, `RefusedHadMark`, types hold |
| `board_fold` | 2 rooms, 1 thread, 3 records, 1 severity of the client, deletes | `BoardIsReference`, `ReviewHeld`, types hold |
| `tmux_turns` | 2 threads, 2 messages, 2 texts, an answer in two pieces on an empty screen and in one later, any refused posts and lost sessions, 1 death of the watcher | `OwnAnswer`, `RepeatsNeedCrash`, `AnswerKept`, types hold |
| `tmux_cleared` | 2 threads, 2 messages, 1 text, answers of one piece, the same faults; fairness | `TriggerCleared`, `TakenUp` hold |
| `status_marks` | 2 threads, 2 agents, 3 deliveries, notices or posts that answer nothing, of which a reminder run takes 2, 1 fault; fairness | `UndatedNeedsRace`, `AnsweredIsIdle`, `BusyShown`, `FileFollows`, `MarksExpire`, types hold |
| `handoff_chains` | 1 person, 2 agents, all endpoints, 4 messages, 1 change of presence or delete | `ChainsEnd`, `WorkIsTracked`, types hold |
| `delivery_open` | 2 runs, 2 agents, 2 messages, 1 delete or change, 1 death; fairness | `RemindedOnce`, `StillReminded`, types hold |

Why the bounds are enough to be worth running. A lost or resurrected message
needs a rewriter and a writer that come between its steps: two threads, and
three records to have one deleted, one written and one that should be left
alone. An order violation needs a clock that repeats and one that steps back,
hence three readings with four records; the theorems of section 6 remove the
bounds of both runs. A cut-off write needs a record before it and one behind it,
and a second one may hit the line that the first has spoilt: two of them with
four records. Paging needs more records than fit a page on both sides of a first
answer, and one to delete: four records with a page of one. Clients share no
state with each other, so more of them add nothing, and section 6 removes the
bounds of the safety properties. A reminder appends one record of its own for
each item, so five records leave room for two reminders and the appends of the
server around them. `Window` and `Expiry` are small numbers in the order of the
code's 3 and 60 seconds; with four readings beyond the expiry the clock may pass
the window and the expiry, be set back, and pass them again. Three records reach
each case of the fold (a first event of either sort, a later start, a later
follow-up), and deletes take any of them away; a request names no priority
there, so that the two values of a priority are none and the default of a task.
Two messages to an agent may overlap or follow each other; two texts are what it
takes for an answer to repeat its own message, the other one, or the last reply,
or none of them, and three entries of the screen for an answer in two pieces
with the baseline between them. What a third message could add, two mixed turns
before a plain one, section 6 has without a bound. Marks need two targets in one
message, so that one may fail and the other not, a second dispatch to one of
them at the same time, and one fault on top. Four messages in a row are one more
than a chain of three handoffs; the theorems of section 6 remove the bounds of
that run. A marker is lost between two rewriters, two runs or a run and a
delete, and two messages are enough for one to stay while the other is deleted.
A reminder run counts for two of three calls, so that it may start while the
marks are set by one dispatch and write when they are gone or others are there.

Runs that check no deadlock: the models of `DuplicateWindow`, `TmuxTurn`,
`AgentStatus` and `Handoff` bound the requests and messages that arrive, and
stop when the last one is done.  The other runs have deadlock checking on.

## 4. Fairness

- `log_faults`: weak fairness of `Continue(t)`, the steps of a request that
  holds what it needs: a runnable thread is scheduled.  Nothing is assumed about
  acquiring the lock, about new requests, failures or crashes.
- `poll_follow`: the same, and that each client's polls are answered again and
  again, and its pages back as long as there is an older one: a client that
  follows the log polls in a loop, and the server runs its requests.  Restarts
  may cut any number of requests, as long as others get through; weak fairness
  of a request's steps would not say so, since a server that is restarted for
  ever can cut every one before its answer.
- `tmux_cleared`: weak fairness of a dispatch that is under way,
  of the agent and of the watcher, whose loop runs for ever.  The fairness of
  the watcher is on all its steps together, so it may always end a wait by
  `GiveUp`, as `max_wait` does.  Dispatches are not fair: messages may stop.
  The deaths of the watcher are bounded, and it is started again at once.
  Nothing is assumed of the session or of the server's answers: that the server
  refuses for ever (`TriggerCleared`) and that the session is gone again and
  again (both properties) are exceptions which the properties name.
- `status_marks`: weak fairness of a request that is under way, of time, and of
  somebody's status poll: every `/group/poll` takes a snapshot.  Agents need not
  answer, and nothing is assumed of faults.
- `delivery_open`: weak fairness of time, of a delete under way and of each
  reminder run: `docs/DEPLOY_SELF_HOSTED.md:176` has cron start one every
  minute.  Nothing is assumed of people and agents; deaths of runs are bounded.

## 5. What the runs found

All runs pass, but some of the properties carry a condition, and the condition
is where the code falls short of what one would like:

- `LossConfined`: a message that is stored between the read and the rewrite of
  `mark_reminded` is overwritten although its client was answered 200
  (`store.py:329`), against README.md:201, "the chat log is the source of
  truth".  Nothing written before the last read is lost, nor the reminder
  itself.
- `LossPerTear`: a message that is appended behind a cut-off line is glued to it
  and skipped by every reader (`store.py:254`, 296).  When the cut is within a
  character, the decoding of the file raises `UnicodeDecodeError`
  (`store.py:290`): no message can be read any more until the log is cleared,
  while appends go on being answered 200.
- `NoLoss`: a delete truncates the log before it writes it back
  (`store.py:583-585`).  When the server dies in between, or the rewrite fails,
  on a full disk for instance, messages that were answered 200 are gone, in the
  second case with the server alive and the lock released.  The property says
  that only a delete, a clear, a crash or a failed rewrite takes a message.
- `AckedInOrder`: the line is written before the state file
  (`store.py:254-258`), so after a crash or a failure in between the timestamp
  may be given out again or undercut; the record that it was given to first was
  never answered 200.
- `DuplicatesNeedRace`: two copies of a message that arrive together are both
  stored, since check and mark are separate steps without a lock.  So are two
  whose mark a purge removed between them, which takes threads that purge late
  or a clock that is set back (`server.py:275-281`).  Otherwise the window
  holds.
- `RefusedHadMark`: a request may be refused though nothing like it was stored,
  since the key is marked before the request is validated, and when the clock is
  set back it is refused until the clock has caught up: the window is one of
  readings, not of time.
- `OwnAnswer`: it speaks of turns that overlapped no other.  In overlapping ones
  the prompt of another message, or the answer to it, may be posted as the reply
  to the first.  It leaves out as well a message whose text the terminal wraps:
  `trim_to_current_reply` finds it nowhere and returns the whole capture
  (`tmux_reply_watcher.py:115-121`), so that, when nothing was added to the
  baseline, earlier answers are posted again; and a session that was replaced,
  for whose first screen the same is true.
- `AnswerKept`: an answer in the same words as the last reply is taken for that
  reply and is not posted (`tmux_reply_watcher.py:350`), so that the second of
  two plain ACKs leaves its message open on the delivery board.  An answer that
  repeats the text of its message ("ok" to "ok") is what the search from the
  end finds: it is cut after that, or not posted at all when nothing follows
  (line 115).  An answer that began before the baseline, with a fast agent or
  after a refused post, is posted from the baseline on when more of it follows
  (lines 238-243).
- `TriggerCleared`: a refused post is tried again for ever
  (`tmux_reply_watcher.py:373-375`), with a wrong token for instance, and while
  the session is missing the trigger is kept (lines 328-331).
- `PollComplete`, `EventuallySeen`: they leave out clients with a request under
  way while a delete rewrites the file.  `_iter_records` reads without `_lock`
  (`store.py:289`): such a poll goes on in the rewritten file, misses a record
  and still moves the client's cursor past it, and such a page of the history
  may look like the last one.
- `ReviewHeld`: it speaks of threads that began with their review request.  The
  kind of a thread is that of its first event (`store.py:500`), so a review
  requested on an existing task leaves `waiting_review` with the next progress
  message, although README.md:182-183 says that it stays "until the reviewer
  posts `ALL_CLEAR`".
- `TakenUp`: the watcher unlinks by path (`tmux_reply_watcher.py:370`), so a
  trigger that was written over or beside an older one, or read half-written,
  may go unread, and its message gets no reply.
- `BusyShown`: an agent that posts an ACK or a progress comment, as
  README.md:167-169 has it do, is shown idle from then on while it works
  (`store.py:256`, `server.py:415`).  The property leaves it out.
- `FileFollows`: each reminder that `groupchat-ack-reminder --apply` appends
  saves the marks that the process read when it started (`store.py:258`), so the
  file lacks what the server has marked since, and keeps what it has cleared,
  until the server saves again.
- `ChainsEnd`: it speaks of chains whose answers all carry the hop count.
  `/group/ack`, `/group/thread/<id>/comment` and the command line's `reply` send
  none, so that agents that mention each other through them never stop, although
  docs/ARCHITECTURE.md:468 says that "`hop_count >= 3` stops agent handoff
  loops". The watcher adds one to a count that the dispatch has increased
  already, so through it a chain is shorter than the `remaining_handoffs` that
  the prompt announces (`tmux_dispatcher.py:90`).
- `WorkIsTracked`: it speaks of agents that were woken.  A mention of an agent
  that is offline is filtered out before the message is stored and is on no
  board.  It is a property of `Handoff`, without reminders: `mark_reminded`
  rewrites every row it read (`store.py:349-352`), and drops an answer that was
  stored meanwhile, so that its item is open again, or brings back a message
  that was deleted.
- `MarksExpire`, `UndatedNeedsRace`: a mark and an unmark that cross may leave
  an agent busy without a time, and such a mark never expires
  (`store.py:632-633` and 657).
- `RemindedOnce`: a run that dies between the reminder and its marker, two runs
  at once, a message that is gone when its marker is to be written, or a rewrite
  that takes the marker away (a delete of the message, or one that read before
  the marker was written) make a later run remind of the item again.
- `BoardIsReference`: each room has a board of its own, and a comment without a
  room goes to `main`, so an ALL_CLEAR given that way is not seen on the board
  of the review's own room.

## 6. What is proved

The theorems hold for every value of the constants and assume only what the
modules assume.  For the message log: `NoThread \notin Threads`,
`MaxRecords \in Nat`, `MaxClock \in Nat \ {0}`.

`MessageLogProofs`, about `Spec` (clears, failures and crashes included):

- `LogInvariant == Spec => []LogInv`, and from it `Typing` (`TypeOK`),
  `Durability` (`NoLoss`), `Deletion` (`NoResurrection`).

`NoLoss` and `NoResurrection` are not inductive: whether a rewrite keeps all
records depends on what a delete read before it truncated. `LogInv` adds
`MutualExclusion` (the lock has one holder and it is inside append or delete),
`TruncateHolds` (between its read and its truncation a delete holds all that is
in the file, which is where the lock matters), `RewriteEmpty` (nobody writes
between truncation and rewrite), `LinesClean` (what is written back has no
deleted record), and that ids are unique and never used twice. A clear bypasses
the lock, but it only takes records out and they count as wiped, so the
invariant survives it, and so do a crash and a rewrite that fails; an append
that was cleared under its hands is covered by `SaveKept`. The proof has one
lemma per action.

The same module, about `ServerSpec`:

- `ServerInvariant == ServerSpec => []ServerInv` and `Order` (`TsOrdered`).
  `ServerInv` adds to `LogInv` what ties the three copies of `last_ts` to the
  file: they agree except while an append is on its way (`TsCopies`), the
  timestamp in hand is newer than all in the file (`TsFresh`), and file and
  lines held are in order and not above `HighTs`.
- `Implementation == ServerSpec => ImplementsAbstractLog`.  The abstract log is
  the file, or, while a delete has truncated it, the lines that delete holds
  (`ReaderLog`); the abstract high mark is `last_ts` as it was before the append
  that is under way (`HighTs`).  An append takes effect with `AppendWrite`, a
  delete with `DeleteTruncate`; every other step is a stutter, restarts
  included.

`DeliveryProofs`, about `Spec` of `Handoff`, for any people, agents, mentions,
endpoints and bounds, under `HandoffAssumption` (people are not agents, the
default responder is an agent, mentions are agents or `@all`):

- `HandoffTypes == Spec => []HandoffTypeOK`.
- `ChainsEndAlways == Spec => []ChainsEnd`.  The length of a chain is not
  bounded by anything in the code; the hop count is.  `HopsCount`, which is
  inductive, ties the two: unless an answer on the way left the count out, an
  agent was told a count no less than the length of its chain, and none above
  `MaxHops`.
- `WorkIsTrackedAlways == Spec => []WorkIsTracked`.  `TrackInv` adds that ids
  are new when they are given out (`Fresh`), that whoever was woken is a target
  of the record (`AskedAreTargets`), and that records of agents with a parent
  and answers given are the same thing (`AnswersAreKept`,
  `AnswersAreRecords`).  `TrackStore` is the one lemma about a message that is
  stored, whoever it is from; a delete only takes records away.

The same module, about `BoardSpec` of `DeliveryBoard`, for any set of reminder
runs, under `HandoffAssumption` and `BoardAssumption` (the reminder posts as a
person, and the server's rewrite is not one of the runs):

- `DeliveryTypes == BoardSpec => [](HandoffTypeOK /\ DeliveryTypeOK)`. A step of
  the board need not be one of `Handoff`, since a rewrite replaces the log, so
  the two type invariants are proved together: what a rewrite holds is rows and
  markers of the right types (`Copies`), because it read them from a log and
  markers that are.
- `RemindedOnceAlways == BoardSpec => []RemindedOnce`.  `BoardInv` says where
  the marker of a reminder may be: in the log, or with the run that has still to
  write it (`MarkerOrRun`); that two runs are about one item only when it is
  excused (`SharedExcused`); and that a run has nothing left on its list that
  somebody reminded of (`NotYetSent`).  Nothing is needed of the messages, which
  may vanish and return: what matters is that whoever takes a marker away
  excuses it (`WriteBackType`).

`ChainsEnd` and `WorkIsTracked` are proved of `Handoff` alone; the second is not
true of `BoardSpec` (section 5).

`PollProofs`, about `FollowSpec` of `PollClients`, for any number of clients and
any page size, under the assumptions of the log and `Limit \in Nat \ {0}`:

- `PollTypes`, `PollCompleteAlways` (`PollComplete`) and `NothingTwiceAlways`
  (`NothingTwice`).  Neither is inductive, since a page is built from lines that
  were read one by one from a file that changes.  `FollowInv` takes over
  `ServerInv`, so that new lines are past every cursor, and adds for a client
  that no delete got in the way of: its rows are just the lines it has read and
  wants (`Filtered`), and it was sent just what lies between its oldest page and
  its cursor (`Exact`), in the file and in the lines that a delete holds.
  `PageShape` says that a page is a stretch of the rows, from the first of them
  or to the last; `OnPage` which lines of the file that is.
- `FollowIsServer == FollowSpec => ServerSpec`, and so `ReadersKeepPromise`: the
  store implements `AbstractLog` with its clients as well.

`LogLossProofs`, about `RemindSpec` of `ReminderProcess`, under the assumptions
of the log:

- `LossConfinedAlways == RemindSpec => []LossConfined`.  `RemindInv` follows the
  rewrite: while the reminder reads it holds a prefix of the file
  (`ReadPrefix`), when it has read to the end all that it does not hold came
  late (`TruncateKnows`), and what is in the file it has truncated is late too
  (`RewriteLate`); an append about to be acknowledged is in its place
  (`SaveSafe`).
- `RemindTypesAlways == RemindSpec => []RemindTypeOK`, whose bounds on what the
  reminder holds need that the file is no longer than the ids that were given
  out, one of them still on its way while a thread writes (`SizeInv`).

The same module, about `TornSpec` of `TornLog`, under the assumptions of the log
and `MaxTears \in Nat`:

- `TornTypes` (`TornTypeOK`) and `AckedInOrderAlways` (`AckedInOrder`).  A
  restart may go back to the timestamp of the state file, so the order of the
  file says nothing by itself; `OrderInv` holds on to that timestamp instead.
  It is never ahead of memory (`TsAhead`), no answered record is above it, and a
  record in hand is (`InHand`), since it is written before it is answered
  (`OnItsWay`).  Both also hold of the lines that a delete writes back
  (`LinesSound`).
- `LossPerTearAlways == TornSpec => []LossPerTear`.  What is lost is not
  inductive: a cut takes nothing, the write after it does, and the answer to
  that write comes later still.  `RiskInv` therefore counts all that is at risk:
  what is lost (`Lost`), what was spoiled and is about to be answered
  (`Glued`), a last record without its newline (`Loose`), and one more for the
  next line when the file does not end whole (`NextSpoiled`).  Each cut pays
  for its own (`Pay`).

`DuplicateProofs`, about `Spec` of `DuplicateWindow`, for any threads and keys
(one at least), any readings of the clock in any order, and times with
`0 < Window <= Expiry < MaxClock`:

- `DedupeTypes`, `RefusedHadMarkAlways` (`RefusedHadMark`; what is in the cache
  was put there by a request that passed, `CacheTold`).
- `DuplicatesNeedRaceAlways == Spec => []DuplicatesNeedRace`.  `WindowInv`: the
  mark of a request that nobody raced with is in the cache or was replaced by a
  later one (`MarkStays`); so one that has passed the check and not marked yet
  is a window later than all of its key that were accepted (`PassedClear`), and
  two of them that are still purging are not close (`MarkedApart`).  None of
  this relates a reading to the clock, which may have been set since.

`TmuxProofs`, about `Spec` of `TmuxTurn`, under `TmuxAssumption`:

- `RepeatsNeedCrashAlways == Spec => []RepeatsNeedCrash`.  A message that the
  watcher has in its hands is not in `processed` (`CurIsOpen`), and one that is
  not there was replied to at most once for each death (`ReplyBound`).
- `TmuxTypesAlways == Spec => []TmuxTypeOK`, with the numbers of the messages
  that are on their way (`Ids`).
- `OwnAnswerAlways == Spec => []OwnAnswer` and `AnswerKeptAlways == Spec =>
  AnswerKept`.  Both come from what the terminal looks like in a turn of its
  own: `Solo` says that there is one place at which the prompt stands and
  nothing of anybody else after it (`Alone`); `Latest` that, of the messages
  that are plain, only the newest is in play.  The words of the message may
  stand elsewhere: `CleanIs` says that what is found last is the prompt or comes
  after it, so what is left is the agent's own, and all of it when no piece of
  the answer repeats the message (`ScrapedOwn`, `ScrapedAllOfIt`).  `HeardIs`
  says what the filter of lines returns, for lines of any length, and
  `WaitsAlone` that the watcher waits in such a turn, for any baseline and any
  earlier capture.

`AgentProofs`, about `Spec` of `AgentStatus`, for any finite roster, any lists
of targets without repetitions, any threads, calls and faults
(`StatusAssumption`):

- `StatusShapes == Spec => []Types` (what each step of a request may have in its
  hands, `Shape`) and `StatusTypes` (`StatusTypeOK`).  The bound on the work of
  an agent needs `PaidFor`: each delivery that is still to be made was counted
  as a call when its dispatch began.
- `FileFollowsAlways == Spec => []FileFollows`.  `FileInv`: the thread that
  writes the file holds the lock (`Locked`), and where the file, or what is
  being written to it, is not what memory has, somebody who changed memory has a
  save of its own to come, or a save failed or a reminder wrote the file since
  (`Upcoming`).
- `UndatedNeedsRaceAlways == Spec => []UndatedNeedsRace`.  `Dated`: no two
  requests are between the two fields of one mark, and one that is has written
  the first of them as it found it to be.  The files and copies that a restart
  may take over are no part of it: an undated mark in them is counted when the
  server starts from it.
- `AnsweredIsIdleAlways == Spec => []AnsweredIsIdle`.  `ExcuseInv`: whoever is
  shown as busy has work, or some request has still to hand it work or to clear
  its mark (`Excused`, by what each request `Owes`); a notice comes from an
  agent that is at work until it is over (`Noticed`).
- `BusyShownAlways == Spec => []BusyShown`.  `Plainly`, about an agent of which
  nothing out of the ordinary happened: one request at most is to hand it a
  message and none when it has one, what its own requests say is what it is
  doing, and no poll is about to clear it (`Orderly`); a mark that was written
  for it stands and is not old (`Shown`).  Without `Orderly` a second dispatch
  could unmark an agent at work when its delivery fails.

`TaskBoardProofs`, about `Spec` of `TaskBoard`, for any rooms, threads, senders,
priorities and logs of any length.  `BoardAssumption`: there is a room `main`,
the absence of a thread id is not a thread id, and `MaxLog` is a number.

- `BoardTypesAlways == Spec => []BoardTypeOK`, with a lemma for each endpoint.
- `BoardIsReferenceAlways == Spec => []BoardIsReference`.  The reference reads a
  row off a set of events (`RowIn`); `RowMore` says what one later event makes
  of it, field by field, and `AbsorbsOne` that this is what the loop of
  `tasks_summary` does, for a first event and for a later one.  `BoardIs`
  follows by induction over the places of the log.
- `ReviewHeldAlways == Spec => []ReviewHeld`, from the reference: the kind is
  that of the first event, and no event but an ALL_CLEAR or a start takes the
  status out of `waiting_review`.

Every invariant and action property that a run checks is a theorem here.  Only
model-checked are the liveness properties: `LockReleased`, `EventuallySeen`,
`TriggerCleared`, `TakenUp`, `MarksExpire`, `StillReminded` (liveness under
fairness and `ENABLED` are out of reach of the prover).  The
inductions over data (what the filter of lines and the board return for a
sequence of any length) do not use the induction theorems of the library, whose
operator parameter the provers cannot instantiate: they take the least element
of the set of counterexamples, which is first-order.

## 7. Plan

Done, in this order: `MessageLog` with its abstraction and proofs, what composes
with it (`PollClients`, `ReminderProcess`), the parts with state of their own
(`DuplicateWindow`, `TmuxTurn`, `AgentStatus`), the folds (`TaskBoard`, and the
delivery board in `Handoff`), and what composes with those (`DeliveryBoard`).

The safety properties of all of them are proved.

Next: an abstract specification of what a client of the log is promised, which
`PollClients` implements.  Extensions of the models: clients across a clear,
which resets `_last_ts` (`server.py:615`); clients and reminders on a log with
cut-off writes.

## 8. Not modelled

- The content of messages, titles, wording, sort orders, counters of the boards.
- Lines of different lengths under a rewrite; a clear of a log with cut-off
  writes, which starts it anew.
- The line rules of `clean_reply`, the limit of what it keeps of an answer, and
  lines that have scrolled out of the 260 that a capture takes; an Enter that
  fails after the paste in `TmuxTurn` (`AgentStatus` has it); `--once`.
- The temporary file of `_save_state`, whose name the server and the reminder
  process share (`store.py:123`): two saves at the same moment may fail or
  replace the state file by a mixture, which `_load_state` then ignores.
- A rewrite of the delivery board that is cut off (`ReminderProcess`, `TornLog`
  and `MessageLog` have what that costs the log).
- Room filters of polls and of the delivery board, `/group/stats`,
  `dispatch_id` and `status_text` (stored and shown, never read by the code).
- Presence as a program (one query of tmux or of a status URL; its answers are
  an input of `Handoff`), the HTTP front end and its token check, configuration
  and roster (read once at start), the command line client, the bridges and the
  examples (they only use the HTTP interface and keep no state).
