------------------------------- MODULE TmuxTurn -------------------------------
(***************************************************************************)
(* One tmux agent: the request threads that dispatch messages to it        *)
(* (adapters/tmux_dispatcher.py), the terminal session it lives in, and    *)
(* its reply watcher (adapters/tmux_reply_watcher.py), a process of its    *)
(* own.  They share the terminal and one trigger file, with no lock.       *)
(*                                                                         *)
(* The terminal is the sequence of what was shown on it: the prompt of a   *)
(* message, which ends with the message's text, a piece of the agent's     *)
(* answer to one, or what a session shows when it starts.  The agent is    *)
(* external: it takes prompts in order, shows a busy marker while it works *)
(* and answers each in pieces of text, Noise standing for output that      *)
(* cleaning removes.  A piece may repeat the text of a message, and the    *)
(* terminal may wrap a prompt so that its text is not found on it.         *)
(***************************************************************************)
EXTENDS Integers, Sequences, FiniteSets, SequencesExt

CONSTANTS
    Threads,     \* request threads that dispatch
    Texts,       \* what messages and agents may say
    Noise,       \* output of which clean_reply leaves nothing
    MaxMsgs,     \* bound: messages dispatched
    MaxLines,    \* bound: what the screen holds while an agent goes on talking
    MaxCrashes   \* bound: deaths of the watcher

ASSUME TmuxAssumption ==
    Noise \notin Texts /\ MaxMsgs \in Nat /\ MaxLines \in Nat /\ MaxCrashes \in Nat

VARIABLES
    asks,      \* the text of each message
    wrapped,   \* the messages whose text the terminal wraps
    pc,        \* what each request thread is about to do
    msg,       \* the message it dispatches
    open,      \* whether the trigger it opened is still the one at the path
    nextMsg,   \* next unused message id
    trigger,   \* the trigger file: NoFile, Torn, or the message it names
    session,   \* whether tmux finds the session
    screen,    \* what the terminal shows
    queue,     \* prompts the agent has not taken
    working,   \* the message the agent works on, 0 when none
    wpc,       \* what the watcher is about to do
    cur,       \* the message it waits for
    base,      \* how much of the screen it has in common with its baseline
    reply,     \* the lines it will post
    processed, \* its processed set
    lastReply, \* the texts behind its last_digest
    posts,     \* history: records that /group/append stored for it
    mixed,     \* history: messages in play when turns overlapped
    halfRead,  \* history: messages whose trigger was read half written
    cut,       \* history: messages in play when the session was replaced
    crashes    \* history: deaths of the watcher

textVars == <<asks, wrapped>>
dispatchVars == <<pc, msg, open, nextMsg, mixed, halfRead>>
screenVars == <<session, screen, cut>>
agentVars == <<queue, working>>
watchVars == <<wpc, cur, base, reply, processed, lastReply>>
vars == <<textVars, dispatchVars, trigger, screenVars, agentVars, watchVars, posts, crashes>>

NoFile == 0
Torn == -1
Prompt(m) == [kind |-> "prompt", msg |-> m, text |-> asks[m]]
Answer(m, x) == [kind |-> "answer", msg |-> m, text |-> x]
Banner == [kind |-> "banner", msg |-> 0, text |-> Noise]

Init ==
    /\ asks \in [1..MaxMsgs -> Texts] /\ wrapped \in SUBSET (1..MaxMsgs)
    /\ pc = [t \in Threads |-> "idle"] /\ msg = [t \in Threads |-> 0]
    /\ open = [t \in Threads |-> FALSE] /\ nextMsg = 1
    /\ trigger = NoFile /\ session = TRUE /\ screen = <<>> /\ queue = <<>> /\ working = 0
    /\ wpc = "look" /\ cur = 0 /\ base = 0 /\ reply = <<>>
    /\ processed = {} /\ lastReply = <<>>
    /\ posts = <<>> /\ mixed = {} /\ halfRead = {} /\ cut = {} /\ crashes = 0

-----------------------------------------------------------------------------
(* dispatch: the prompt goes to the terminal before the trigger is written *)

\* Nothing of an earlier dispatch is going on.
Quiet ==
    /\ \A t \in Threads : pc[t] = "idle"
    /\ trigger = NoFile /\ queue = <<>> /\ working = 0 /\ wpc = "look"

\* inject_tmux finds the session, pastes the prompt and presses Enter.
Inject(t) ==
    /\ pc[t] = "idle" /\ nextMsg <= MaxMsgs /\ session
    /\ msg' = [msg EXCEPT ![t] = nextMsg] /\ nextMsg' = nextMsg + 1
    /\ screen' = Append(screen, Prompt(nextMsg))
    /\ queue' = Append(queue, nextMsg)
    /\ mixed' = IF Quiet THEN mixed ELSE mixed \cup 1..nextMsg
    /\ pc' = [pc EXCEPT ![t] = "open"]
    /\ UNCHANGED <<textVars, open, halfRead, trigger, session, cut, working, watchVars, posts,
                   crashes>>

\* write_text opens the file, and that empties it ...
OpenTrigger(t) ==
    /\ pc[t] = "open"
    /\ trigger' = Torn
    /\ open' = [open EXCEPT ![t] = TRUE]
    /\ pc' = [pc EXCEPT ![t] = "write"]
    /\ UNCHANGED <<textVars, msg, nextMsg, mixed, halfRead, screenVars, agentVars, watchVars,
                   posts, crashes>>

\* ... and then writes it.  A file unlinked in between takes the text with
\* it; one that another thread has written meanwhile may keep a tail of it.
WriteTrigger(t) ==
    /\ pc[t] = "write"
    /\ IF ~open[t] THEN UNCHANGED trigger
       ELSE \/ trigger' = msg[t]
            \/ trigger # Torn /\ trigger' = Torn
    /\ open' = [open EXCEPT ![t] = FALSE]
    /\ msg' = [msg EXCEPT ![t] = 0]
    /\ pc' = [pc EXCEPT ![t] = "idle"]
    /\ UNCHANGED <<textVars, nextMsg, mixed, halfRead, screenVars, agentVars, watchVars, posts,
                   crashes>>

-----------------------------------------------------------------------------
(* The agent and its session.                                              *)

AgentTakes ==
    /\ working = 0 /\ queue # <<>>
    /\ working' = Head(queue) /\ queue' = Tail(queue)
    /\ UNCHANGED <<textVars, dispatchVars, trigger, screenVars, watchVars, posts, crashes>>

\* Shows a piece of its answer, the last one or not.
AgentAnswers ==
    /\ working # 0
    /\ \E x \in Texts \cup {Noise} : screen' = Append(screen, Answer(working, x))
    /\ working' \in {0} \cup (IF Len(screen) < MaxLines - 1 THEN {working} ELSE {})
    /\ UNCHANGED <<textVars, dispatchVars, trigger, session, cut, queue, watchVars, posts, crashes>>

\* tmux does not find the session, or does not answer in time.
SessionGone ==
    /\ session /\ session' = FALSE
    /\ UNCHANGED <<textVars, dispatchVars, trigger, screen, cut, agentVars, watchVars, posts, crashes>>

\* It does again ...
SessionBack ==
    /\ ~session /\ session' = TRUE
    /\ UNCHANGED <<textVars, dispatchVars, trigger, screen, cut, agentVars, watchVars, posts, crashes>>

\* ... or somebody starts another session and another agent in its place,
\* whose screen has nothing in common with a baseline.
SessionReplaced ==
    /\ ~session /\ session' = TRUE
    /\ screen' = <<Banner>> /\ queue' = <<>> /\ working' = 0 /\ base' = 0
    /\ cut' = IF Quiet THEN cut ELSE cut \cup 1..nextMsg - 1
    /\ UNCHANGED <<textVars, dispatchVars, trigger, wpc, cur, reply, processed, lastReply, posts,
                   crashes>>

-----------------------------------------------------------------------------
(* The watcher.                                                            *)

Watch(next, m, n, lines) == wpc' = next /\ cur' = m /\ base' = n /\ reply' = lines

\* A trigger that cannot be parsed, or that was answered already, goes.
DropTrigger ==
    /\ wpc = "look" /\ trigger # NoFile
    /\ trigger = Torn \/ trigger \in processed
    /\ wpc' = "unlink"
    /\ halfRead' = halfRead \cup
         IF trigger = Torn THEN {msg[t] : t \in {u \in Threads : pc[u] = "write"}} ELSE {}
    /\ UNCHANGED <<textVars, pc, msg, open, nextMsg, mixed, trigger, screenVars, agentVars, cur,
                   base, reply, processed, lastReply, posts, crashes>>

\* Reads the trigger and captures the baseline; while tmux does not find the
\* session it keeps the trigger, sleeps and looks again.
Begin ==
    /\ session /\ wpc = "look" /\ trigger \notin {NoFile, Torn} \cup processed
    /\ Watch("wait", trigger, Len(screen), <<>>)
    /\ UNCHANGED <<textVars, dispatchVars, trigger, screenVars, agentVars, processed, lastReply,
                   posts, crashes>>

\* What a message says, or a session when it starts, does not look like noise.
Said(e) == e.kind # "answer" \/ e.text # Noise

\* The lines without noise: SelectSeq(lines, Said), by a function.
Heard(lines) ==
    LET heard[i \in 0..Len(lines)] ==
          IF i = 0 THEN <<>>
          ELSE IF Said(lines[i]) THEN Append(heard[i - 1], lines[i]) ELSE heard[i - 1]
    IN heard[Len(lines)]

\* The words of an entry as they stand on the terminal.
Words(e) == <<e.text, e.kind = "prompt" /\ e.msg \in wrapped>>

\* Whether the text of message m is found in it: its own prompt unless that is
\* wrapped, and anything else that says the same.
Shows(e, m) == Words(e) = <<asks[m], FALSE>>

\* clean_reply: what is after the last place where the text of the message is
\* found, or everything when it is nowhere, without noise.
Clean(lines, m) ==
    Heard(SubSeq(lines, SelectLastInSeq(lines, LAMBDA e : Shows(e, m)) + 1, Len(lines)))

\* Does not look for the prompt.
ScrapedAll(n) == Heard(SubSeq(screen, 1, n))

\* Does not look before the baseline.
ScrapedDiff(n) == Clean(SubSeq(screen, base + 1, n), cur)

\* What wait_for_reply makes of a capture of the first n entries: what was
\* added to the baseline or, when that is nothing, what follows the prompt.
Scraped(n) ==
    LET diff == Clean(SubSeq(screen, base + 1, n), cur)
    IN  IF diff # <<>> THEN diff ELSE Clean(SubSeq(screen, 1, n), cur)

\* What last_digest is the digest of.
TextsOf(lines) == [i \in 1..Len(lines) |-> Words(lines[i])]

\* An empty reply leaves the trigger for another try.
ConcludeKeepsTrigger(lines) ==
    IF lines = <<>>
      THEN Watch("look", 0, 0, <<>>) /\ UNCHANGED processed
      ELSE IF TextsOf(lines) = lastReply
             THEN Watch("unlink", 0, 0, <<>>) /\ processed' = processed \cup {cur}
             ELSE Watch("post", cur, base, lines) /\ UNCHANGED processed

\* Posts whatever the cleaning left, be it nothing.
ConcludePostsEmpty(lines) ==
    IF TextsOf(lines) = lastReply
      THEN Watch("unlink", 0, 0, <<>>) /\ processed' = processed \cup {cur}
      ELSE Watch("post", cur, base, lines) /\ UNCHANGED processed

\* An empty reply, or the same as the last one, is not posted.
Conclude(lines) ==
    IF lines = <<>> \/ TextsOf(lines) = lastReply
      THEN Watch("unlink", 0, 0, <<>>) /\ processed' = processed \cup {cur}
      ELSE Watch("post", cur, base, lines) /\ UNCHANGED processed

\* The screen shows no busy marker and has stopped changing, be it before
\* the agent took the prompt, or because there is nothing to capture.
Settle ==
    /\ wpc = "wait" /\ (working = 0 \/ ~session)
    /\ Conclude(IF session THEN Scraped(Len(screen)) ELSE <<>>)
    /\ UNCHANGED <<textVars, dispatchVars, trigger, screenVars, agentVars, lastReply, posts, crashes>>

\* max_wait is over: nothing when the agent is busy, and otherwise what an
\* earlier capture had.
GiveUp ==
    /\ wpc = "wait"
    /\ \E n \in base..Len(screen) : Conclude(IF working # 0 THEN <<>> ELSE Scraped(n))
    /\ UNCHANGED <<textVars, dispatchVars, trigger, screenVars, agentVars, lastReply, posts, crashes>>

Post == [parent |-> cur, lines |-> reply]

\* Takes the answer to be a failure and leaves the trigger for another try.
PostRetried ==
    /\ wpc = "post"
    /\ posts' = Append(posts, Post)
    /\ Watch("look", 0, 0, <<>>)
    /\ UNCHANGED <<textVars, dispatchVars, trigger, screenVars, agentVars, processed, lastReply,
                   crashes>>

\* POST /group/append is answered 2xx.
PostStored ==
    /\ wpc = "post"
    /\ posts' = Append(posts, Post)
    /\ processed' = processed \cup {cur}
    /\ lastReply' = TextsOf(reply)
    /\ Watch("unlink", 0, 0, <<>>)
    /\ UNCHANGED <<textVars, dispatchVars, trigger, screenVars, agentVars, crashes>>

\* It is answered with an error, 429 or 401 for instance ...
PostRefused ==
    /\ wpc = "post"
    /\ Watch("refused", 0, 0, <<>>)
    /\ UNCHANGED <<textVars, dispatchVars, trigger, screenVars, agentVars, processed, lastReply,
                   posts, crashes>>

\* ... and after a sleep the watcher starts over from the trigger, with a new
\* baseline, as often as that happens.
Retry ==
    /\ wpc = "refused" /\ wpc' = "look"
    /\ UNCHANGED <<textVars, dispatchVars, trigger, screenVars, agentVars, cur, base, reply,
                   processed, lastReply, posts, crashes>>

\* Removes whatever trigger is at the path by now.
Unlink ==
    /\ wpc = "unlink"
    /\ trigger' = NoFile
    /\ open' = [t \in Threads |-> FALSE]
    /\ wpc' = "look"
    /\ UNCHANGED <<textVars, pc, msg, nextMsg, mixed, halfRead, screenVars, agentVars, cur, base,
                   reply, processed, lastReply, posts, crashes>>

\* Takes a trigger it finds when it starts for an old one.
WatcherCrashCleans ==
    /\ crashes < MaxCrashes
    /\ crashes' = crashes + 1
    /\ trigger' = NoFile /\ open' = [t \in Threads |-> FALSE]
    /\ Watch("look", 0, 0, <<>>)
    /\ processed' = {} /\ lastReply' = <<>>
    /\ UNCHANGED <<textVars, pc, msg, nextMsg, mixed, halfRead, screenVars, agentVars, posts>>

\* The watcher dies and is started again: by a kill, or because the server
\* does not answer the post, which may or may not have been stored.
WatcherCrash ==
    /\ crashes < MaxCrashes
    /\ crashes' = crashes + 1
    /\ posts' \in {posts} \cup (IF wpc = "post" THEN {Append(posts, Post)} ELSE {})
    /\ Watch("look", 0, 0, <<>>)
    /\ processed' = {} /\ lastReply' = <<>>
    /\ UNCHANGED <<textVars, dispatchVars, trigger, screenVars, agentVars>>

WatcherStep ==
    \/ DropTrigger \/ Begin \/ Settle \/ GiveUp
    \/ PostStored \/ PostRefused \/ Retry \/ Unlink

-----------------------------------------------------------------------------

Dispatch(t) == Inject(t) \/ OpenTrigger(t) \/ WriteTrigger(t)
Session == SessionGone \/ SessionBack \/ SessionReplaced

\* Messages come when they come, the session may go, and the watcher may die.
Next ==
    \/ \E t \in Threads : Dispatch(t)
    \/ AgentTakes \/ AgentAnswers \/ WatcherStep
    \/ Session \/ WatcherCrash

Spec == Init /\ [][Next]_vars

\* Threads, agent and watcher go on.
Fairness ==
    /\ \A t \in Threads : WF_vars(OpenTrigger(t) \/ WriteTrigger(t))
    /\ WF_vars(AgentTakes \/ AgentAnswers)
    /\ WF_vars(WatcherStep)

FairSpec == Spec /\ Fairness

-----------------------------------------------------------------------------
(* Properties.                                                             *)

Entries == [kind : {"prompt", "answer", "banner"}, msg : 0..MaxMsgs, text : Texts \cup {Noise}]

\* The variables stay in their types, and the watcher has something to post
\* only while it posts.
TmuxTypeOK ==
    /\ asks \in [1..MaxMsgs -> Texts] /\ wrapped \subseteq 1..MaxMsgs
    /\ pc \in [Threads -> {"idle", "open", "write"}]
    /\ msg \in [Threads -> 0..MaxMsgs] /\ open \in [Threads -> BOOLEAN]
    /\ nextMsg \in 1..MaxMsgs + 1
    /\ trigger \in 1..MaxMsgs \cup {NoFile, Torn} /\ session \in BOOLEAN
    /\ screen \in Seq(Entries) /\ queue \in Seq(1..MaxMsgs) /\ working \in 0..MaxMsgs
    /\ wpc \in {"look", "wait", "post", "refused", "unlink"}
    /\ cur \in 0..MaxMsgs /\ base \in 0..Len(screen)
    /\ reply \in Seq(Entries) /\ (reply # <<>> <=> wpc = "post")
    /\ processed \cup mixed \cup halfRead \cup cut \subseteq 1..MaxMsgs

\* No other turn was mixed with the message's, its session stayed, and its
\* text can be found on the terminal.
Plain(m) == m \notin mixed \cup cut \cup wrapped

\* What is posted as the reply to a message is the agent's answer to that
\* message: not its answer to another one, and not what someone else wrote.
\* This holds of every turn that no other one was mixed with, when the session
\* stayed and the terminal did not wrap the message, whatever was shown before
\* and whichever texts repeat each other, with early and late answers, noise,
\* refused posts, captures that failed and watchers that died.
OwnAnswer ==
    \A i \in 1..Len(posts) : Plain(posts[i].parent) =>
        \A j \in 1..Len(posts[i].lines) :
            posts[i].lines[j].kind = "answer" /\ posts[i].lines[j].msg = posts[i].parent

\* A message is replied to once, and once more at most for each time the
\* watcher died, however triggers are overwritten and posts refused.
RepeatsNeedCrash ==
    \A m \in 1..MaxMsgs :
        Cardinality({i \in 1..Len(posts) : posts[i].parent = m}) <= 1 + crashes

\* Entry i of the screen is a piece of the answer to message m.
IsAnswer(i, m) == screen[i].kind = "answer" /\ screen[i].msg = m /\ screen[i].text # Noise

\* What a step does that concludes with a screen that shows the answer: each
\* piece of it that came after the baseline, or each piece when none did.
KeepsAnswer ==
    \A i \in 1..Len(screen) :
        /\ Settle /\ session /\ Plain(cur) /\ IsAnswer(i, cur)
        /\ \A k \in 1..Len(screen) : IsAnswer(k, cur) => screen[k].text # asks[cur]
        /\ i > base \/ \A k \in base + 1..Len(screen) : ~IsAnswer(k, cur)
        => \/ wpc' = "post" /\ \E k \in 1..Len(reply') : reply'[k] = screen[i]
           \/ \E k \in 1..Len(lastReply) : lastReply[k] = <<screen[i].text, FALSE>>

\* An answer is not lost: when the screen has settled and shows the agent's
\* answer to the message that the watcher waits for, the watcher goes on to
\* post it, also when it came before the baseline and when it is tried again
\* after a refused post or a death.  An answer that began before the baseline
\* and went on after it is posted from there on.  Excepted are turns that
\* overlapped, a session that was replaced, a message that the terminal wraps
\* or that its answer repeats, and an answer in the words last posted.
AnswerKept == [][KeepsAnswer]_vars

\* A trigger does not stay, whatever the agent says or does not say and
\* whenever the watcher dies, unless the server refuses posts for ever or the
\* session is gone again and again.
TriggerCleared ==
    \/ trigger # NoFile ~> trigger = NoFile
    \/ []<>(wpc = "refused")
    \/ []<>~session

\* ARCHITECTURE: the trigger is written so that the watcher knows that this
\* turn of the terminal belongs to the group.  Once it is written the watcher
\* takes the message up, also when it dies meanwhile, unless another turn
\* overlapped this one, the watcher read the trigger half written, or the
\* session is gone again and again.
TakenUp ==
    \/ \A m \in 1..MaxMsgs :
          trigger = m ~> cur = m \/ m \in processed \cup mixed \cup halfRead
    \/ []<>~session
=============================================================================
