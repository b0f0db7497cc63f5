------------------------------- MODULE Handoff -------------------------------
(***************************************************************************)
(* Who is woken by a message, the chains of agents that hand work to each  *)
(* other, and what the delivery board says of them: targets_for and        *)
(* delivery_summary of GroupChatStore, and the handlers around them.  A    *)
(* message is stored with its targets, then the dispatcher wakes each of   *)
(* them and tells it the hop count.  The agents are external; how the hop  *)
(* count comes back depends on the endpoint they answer through.           *)
(***************************************************************************)
EXTENDS Naturals, Sequences, FiniteSets, SequencesExt

CONSTANTS
    People,      \* members of kind human
    Agents,      \* members that can reply
    Default,     \* the default responder
    All,         \* ALL_TOKEN
    Mentions,    \* whom messages may mention
    Endpoints,   \* what agents answer through
    Tail200,     \* how many of the last records a quoted message is looked for in
    MaxRecords,  \* bound: messages ever stored
    MaxChanges   \* bound: agents that come or go, and deletions

EveryEndpoint == {"reply", "append", "watcher", "ack", "comment"}

ASSUME HandoffAssumption ==
    /\ People \cap Agents = {} /\ All \notin People \cup Agents /\ Default \in Agents
    /\ Mentions \subseteq SUBSET (Agents \cup {All})
    /\ Endpoints \subseteq EveryEndpoint
    /\ Tail200 \in Nat /\ MaxRecords \in Nat /\ MaxChanges \in Nat

VARIABLES
    log,      \* the log
    nextId,   \* next unused message id
    online,   \* agents that presence or the webhook status reports
    inbox,    \* agents that were woken and have not answered for good
    changes,
    answered  \* history: <<message, agent, the answer that names it or NoParent>>

handoffVars == <<log, nextId, online, inbox, changes, answered>>

Ids == 1..MaxRecords
NoParent == 0
MaxHops == 3

Record(id, sender, parent, targets) ==
    [id |-> id, sender |-> sender, parent |-> parent, targets |-> targets]
Records == [id : Ids, sender : People \cup Agents, parent : {NoParent} \cup Ids,
            targets : SUBSET Agents]

\* An agent that was woken: by which message, with which hop count.  History:
\* how many agents the chain has woken one after the other, and whether an
\* answer on the way left the hop count out.
Wakes == [agent : Agents, msg : Ids, hop : Nat, depth : Nat, restarted : BOOLEAN]

Init ==
    /\ log = <<>> /\ nextId = 1 /\ online = Agents
    /\ inbox = {} /\ changes = 0 /\ answered = {}

-----------------------------------------------------------------------------
(* targets_for                                                             *)

FromPerson(mentions) ==
    IF mentions = {} THEN {Default} ELSE IF All \in mentions THEN Agents ELSE mentions

\* One handoff too many.
FromAgentMore(sender, mentions, hop) ==
    IF hop > MaxHops \/ All \in mentions THEN {} ELSE mentions \ {sender}

FromAgent(sender, mentions, hop) ==
    IF hop >= MaxHops \/ All \in mentions THEN {} ELSE mentions \ {sender}

\* Keeps @all among the targets when presence is not looked at.
TargetsAsMentioned(sender, mentions, up, hop) ==
    IF sender \in People THEN IF mentions = {} THEN {Default} ELSE mentions
    ELSE FromAgent(sender, mentions, hop) \cap up

targets_for(sender, mentions, up, hop) ==
    (IF sender \in People THEN FromPerson(mentions) ELSE FromAgent(sender, mentions, hop))
        \cap Agents \cap up

-----------------------------------------------------------------------------
(* /group/send                                                             *)

\* A message with no mention that quotes a recent one of an agent is for it.
WithQuoted(mentions, parent) ==
    LET recent == SubSeq(log, Len(log) - Tail200 + 1, Len(log))
        quoted == {r \in Range(IF Len(log) <= Tail200 THEN log ELSE recent) : r.id = parent}
    IN IF mentions = {} THEN {r.sender : r \in quoted} \cap Agents ELSE mentions

Store(sender, parent, targets) ==
    /\ nextId \in Ids /\ nextId' = nextId + 1
    /\ log' = Append(log, Record(nextId, sender, parent, targets))

\* _dispatch: whom the dispatcher reaches depends on what happened since the
\* targets were picked, and one that it reports as failed may have got the
\* message.  Agents are woken one after the other; here it is one step, since
\* an answer depends on nothing that the waking of the others changes.
Woken(targets, hop, depth, restarted) ==
    {[agent |-> a, msg |-> nextId, hop |-> hop + 1, depth |-> depth, restarted |-> restarted] :
       a \in targets}

Send(p, mentions, parent) ==
    LET targets == targets_for(p, WithQuoted(mentions, parent), online, 0)
    IN /\ Store(p, parent, targets)
       /\ \E reached \in SUBSET targets : inbox' = inbox \cup Woken(reached, 0, 1, FALSE)
       /\ UNCHANGED <<online, changes, answered>>

-----------------------------------------------------------------------------
(* An agent's message.                                                     *)

\* The watcher adds one to the hop count of the trigger.  Whoever calls the API
\* itself, /group/append or as well /group/send, sends the count back or, as the
\* command line's reply does, none; /group/ack and /group/thread/<id>/comment
\* build a payload that has none.
SentBack(endpoint, hop) ==
    CASE endpoint = "watcher" -> {hop + 1}
      [] endpoint \in {"reply", "append"} -> {hop, 0}
      [] endpoint \in {"ack", "comment"} -> {0}

\* Where the endpoint requires or sets parent_msg_id there is one.
Parents(endpoint, m) == IF endpoint \in {"append", "comment"} THEN {NoParent, m} ELSE {m}

\* _handle_group_append, which every one of the endpoints ends in.  An ACK says
\* that the agent has started, anything else that it is done with the message.
Answer(w, endpoint, mentions) ==
    \E hop \in SentBack(endpoint, w.hop), parent \in Parents(endpoint, w.msg) :
      LET targets == targets_for(w.agent, mentions, online, hop)
          restarted == w.restarted \/ hop < w.hop
      IN /\ Store(w.agent, parent, targets)
         /\ \E reached \in SUBSET targets :
              inbox' = (IF endpoint = "ack" THEN inbox ELSE inbox \ {w})
                         \cup Woken(reached, hop, w.depth + 1, restarted)
         /\ answered' = answered \cup
              {<<w.msg, w.agent, IF parent = NoParent THEN NoParent ELSE nextId>>}
         /\ UNCHANGED <<online, changes>>

-----------------------------------------------------------------------------

Change == changes < MaxChanges /\ changes' = changes + 1

\* An agent comes or goes.
Presence(a) ==
    /\ Change
    /\ online' = IF a \in online THEN online \ {a} ELSE online \cup {a}
    /\ UNCHANGED <<log, nextId, inbox, answered>>

\* /group/delete
Delete(id) ==
    /\ Change
    /\ \E i \in 1..Len(log) : log[i].id = id /\ log' = RemoveAt(log, i)
    /\ UNCHANGED <<nextId, online, inbox, answered>>

KnownIds == {NoParent} \cup {r.id : r \in Range(log)}

Chat ==
    \/ \E p \in People, mentions \in Mentions, parent \in KnownIds : Send(p, mentions, parent)
    \/ \E w \in inbox, e \in Endpoints, mentions \in Mentions : Answer(w, e, mentions)
    \/ \E a \in Agents : Presence(a)

Next == Chat \/ \E id \in Ids : Delete(id)

Spec == Init /\ [][Next]_handoffVars

-----------------------------------------------------------------------------
(* delivery_summary                                                        *)

\* Anybody's answer is everybody's.
AnyReplier(id) == IF \E x \in Range(log) : x.parent = id THEN Agents ELSE {}

\* Who has a record with this parent.
Repliers(id) == {r.sender : r \in {x \in Range(log) : x.parent = id}}

Items == UNION {{r.id} \X r.targets : r \in Range(log)}
Acknowledged == {i \in Items : i[2] \in Repliers(i[1])}
Open == Items \ Acknowledged

-----------------------------------------------------------------------------
(* Properties.                                                             *)

\* Records and wakes stay in their types.
HandoffTypeOK ==
    /\ log \in Seq(Records) /\ nextId \in 1..(MaxRecords + 1)
    /\ online \subseteq Agents /\ inbox \subseteq Wakes
    /\ answered \subseteq Ids \X Agents \X ({NoParent} \cup Ids)

\* docs/ARCHITECTURE.md:468: "`hop_count >= 3` stops agent handoff loops."  A
\* chain wakes at most three agents one after the other, whichever endpoints
\* they answer through and whoever comes, goes or fails, as long as every
\* answer on the way carries the hop count.  An ACK or a thread comment that
\* mentions somebody never does, and neither does the command line's reply.
ChainsEnd == \A w \in inbox : w.restarted \/ w.depth <= MaxHops

\* No work is lost from sight: a message that woke an agent is an item of the
\* board for as long as it is in the log, open until an answer of that agent
\* that names it is in the log too, and open again when that one is deleted.
\* Answers of others, reminders, handoffs, and answers that name no message
\* make no difference.
WorkIsTracked ==
    \A i \in {<<w.msg, w.agent>> : w \in inbox} \cup {<<x[1], x[2]>> : x \in answered} :
        i[1] \in KnownIds =>
            /\ i \in Items
            /\ i \in Open <=> \A r \in Range(log) : <<i[1], i[2], r.id>> \notin answered
=============================================================================
