---------------------------- MODULE DeliveryProofs ----------------------------
(***************************************************************************)
(* Proofs about Handoff, and about DeliveryBoard on top of it: for any     *)
(* people, agents, mentions, endpoints, reminder runs and bounds.          *)
(***************************************************************************)
EXTENDS DeliveryBoard, SequenceTheorems, TLAPS

-----------------------------------------------------------------------------
(* What the log holds after an append and after a removal.                 *)

\* An append adds its record and nothing else.
LEMMA RangeAppend ==
    ASSUME NEW s \in Seq(Records), NEW r \in Records
    PROVE  Append(s, r) \in Seq(Records) /\ Range(Append(s, r)) = Range(s) \cup {r}
<1>1. /\ Append(s, r) \in Seq(Records) /\ DOMAIN Append(s, r) = 1..Len(s) + 1
      /\ \A i \in 1..Len(s) : Append(s, r)[i] = s[i]
      /\ Append(s, r)[Len(s) + 1] = r
  OBVIOUS
<1>2. DOMAIN s = 1..Len(s) /\ Len(s) \in Nat
  OBVIOUS
<1> QED
  BY <1>1, <1>2 DEF Range

\* Where the lines of a removal come from.
LEMMA RemoveAtPlaces ==
    ASSUME NEW s \in Seq(Records), NEW i \in 1..Len(s)
    PROVE  /\ RemoveAt(s, i) \in Seq(Records) /\ Len(RemoveAt(s, i)) = Len(s) - 1
           /\ \A j \in 1..Len(s) - 1 : RemoveAt(s, i)[j] = IF j < i THEN s[j] ELSE s[j + 1]
<1> DEFINE a == SubSeq(s, 1, i - 1)
           b == SubSeq(s, i + 1, Len(s))
<1>1. a \in Seq(Records) /\ Len(a) = i - 1 /\ \A j \in 1..i - 1 : a[j] = s[j]
  OBVIOUS
<1>2. b \in Seq(Records) /\ Len(b) = Len(s) - i /\ \A j \in 1..Len(s) - i : b[j] = s[i + j]
  OBVIOUS
<1>3. RemoveAt(s, i) = a \o b
  BY DEF RemoveAt
<1> HIDE DEF a, b
<1>4. a \o b \in Seq(Records) /\ Len(a \o b) = Len(s) - 1
  <2>1. a \o b \in Seq(Records) /\ Len(a \o b) = Len(a) + Len(b)
    BY <1>1, <1>2, ConcatProperties
  <2> QED
    BY <1>1, <1>2, <2>1
<1>5. ASSUME NEW j \in 1..Len(s) - 1
      PROVE  (a \o b)[j] = IF j < i THEN s[j] ELSE s[j + 1]
  <2>1. CASE j < i
    BY <1>1, <1>2, <2>1
  <2>2. CASE ~(j < i)
    <3>1. (a \o b)[j] = b[j - (i - 1)]
      BY <1>1, <1>2, <2>2
    <3>2. j - (i - 1) \in 1..Len(s) - i
      BY <2>2
    <3> QED
      BY <1>2, <2>2, <3>1, <3>2
  <2> QED
    BY <2>1, <2>2
<1> QED
  BY <1>3, <1>4, <1>5

\* A removal leaves a log of records that were there.
LEMMA RangeRemoveAt ==
    ASSUME NEW s \in Seq(Records), NEW i \in 1..Len(s)
    PROVE  RemoveAt(s, i) \in Seq(Records) /\ Range(RemoveAt(s, i)) \subseteq Range(s)
<1> DEFINE d == RemoveAt(s, i)
<1>1. /\ d \in Seq(Records) /\ Len(d) = Len(s) - 1
      /\ \A j \in 1..Len(s) - 1 : d[j] = IF j < i THEN s[j] ELSE s[j + 1]
  BY RemoveAtPlaces
<1> HIDE DEF d
<1>2. \A j \in 1..Len(d) : \E k \in 1..Len(s) : d[j] = s[k]
  BY <1>1
<1>3. DOMAIN d = 1..Len(d) /\ DOMAIN s = 1..Len(s)
  BY <1>1
<1>4. Range(d) \subseteq Range(s)
  BY <1>2, <1>3 DEF Range
<1> QED
  BY <1>1, <1>4 DEF d

-----------------------------------------------------------------------------
(* Types                                                                   *)

\* targets_for picks agents.
LEMMA TargetsAreAgents ==
    ASSUME NEW sender, NEW mentions, NEW up, NEW hop
    PROVE  targets_for(sender, mentions, up, hop) \in SUBSET Agents
  BY DEF targets_for

\* A message that is stored.
LEMMA StoreType ==
    ASSUME HandoffTypeOK, NEW sender \in People \cup Agents,
           NEW parent \in {NoParent} \cup Ids, NEW targets \in SUBSET Agents,
           Store(sender, parent, targets)
    PROVE  /\ nextId \in Ids /\ nextId' = nextId + 1 /\ nextId' \in 1..(MaxRecords + 1)
           /\ Record(nextId, sender, parent, targets) \in Records
           /\ log' \in Seq(Records)
           /\ Range(log') = Range(log) \cup {Record(nextId, sender, parent, targets)}
<1>1. nextId \in Ids /\ nextId' = nextId + 1
  BY DEF Store
<1>2. nextId' \in 1..(MaxRecords + 1)
  BY <1>1, HandoffAssumption DEF Ids
<1>3. Record(nextId, sender, parent, targets) \in Records
  BY <1>1 DEF Record, Records
<1>4. log \in Seq(Records) /\ log' = Append(log, Record(nextId, sender, parent, targets))
  BY DEF HandoffTypeOK, Store
<1> QED
  BY <1>1, <1>2, <1>3, <1>4, RangeAppend

\* Those that a message wakes.
LEMMA WokenType ==
    ASSUME nextId \in Ids, NEW targets \in SUBSET Agents, NEW hop \in Nat, NEW depth \in Nat,
           NEW restarted \in BOOLEAN
    PROVE  Woken(targets, hop, depth, restarted) \subseteq Wakes
  BY DEF Woken, Wakes

\* A hop count that comes back is a number.
LEMMA SentBackType ==
    ASSUME NEW e \in Endpoints, NEW hop \in Nat
    PROVE  SentBack(e, hop) \subseteq Nat
<1>1. e \in {"reply", "append", "watcher", "ack", "comment"}
  BY HandoffAssumption DEF EveryEndpoint
<1> QED
  BY <1>1 DEF SentBack

\* The messages that are known are ids.
LEMMA KnownAreIds == HandoffTypeOK => KnownIds \subseteq {NoParent} \cup Ids
<1> SUFFICES ASSUME HandoffTypeOK, NEW r \in Range(log) PROVE r.id \in Ids
  BY DEF KnownIds
<1>1. r \in Records
  BY DEF HandoffTypeOK, Range
<1> QED
  BY <1>1 DEF Records

\* What a person's message does.
LEMMA SendStep ==
    ASSUME HandoffTypeOK, NEW p \in People, NEW mentions \in Mentions, NEW parent \in KnownIds,
           Send(p, mentions, parent)
    PROVE  \E targets \in SUBSET Agents, reached \in SUBSET Agents :
             /\ reached \subseteq targets /\ parent \in {NoParent} \cup Ids
             /\ Store(p, parent, targets)
             /\ inbox' = inbox \cup Woken(reached, 0, 1, FALSE)
             /\ UNCHANGED <<online, changes, answered>>
<1> DEFINE targets == targets_for(p, WithQuoted(mentions, parent), online, 0)
<1>1. targets \in SUBSET Agents
  BY TargetsAreAgents
<1>2. /\ Store(p, parent, targets)
      /\ \E reached \in SUBSET targets : inbox' = inbox \cup Woken(reached, 0, 1, FALSE)
      /\ UNCHANGED <<online, changes, answered>>
  BY DEF Send
<1> HIDE DEF targets
<1> QED
  BY <1>1, <1>2, KnownAreIds

\* What an agent's answer does.  With a hop count at the limit it has no targets.
LEMMA AnswerStep ==
    ASSUME HandoffTypeOK, NEW w \in inbox, NEW e \in Endpoints, NEW mentions \in Mentions,
           Answer(w, e, mentions)
    PROVE  \E hop \in Nat, parent \in {NoParent, w.msg}, targets \in SUBSET Agents,
              reached \in SUBSET Agents :
             /\ reached \subseteq targets
             /\ hop >= MaxHops => targets = {}
             /\ Store(w.agent, parent, targets)
             /\ inbox' \subseteq inbox \cup
                  Woken(reached, hop, w.depth + 1, w.restarted \/ hop < w.hop)
             /\ answered' = answered \cup
                  {<<w.msg, w.agent, IF parent = NoParent THEN NoParent ELSE nextId>>}
             /\ UNCHANGED <<online, changes>>
<1>1. w \in Wakes
  BY DEF HandoffTypeOK
<1>2. w.agent \in Agents /\ w.hop \in Nat /\ w.agent \notin People
  BY <1>1, HandoffAssumption DEF Wakes
<1>3. PICK hop \in SentBack(e, w.hop), parent \in Parents(e, w.msg) :
        LET targets == targets_for(w.agent, mentions, online, hop)
            restarted == w.restarted \/ hop < w.hop
        IN /\ Store(w.agent, parent, targets)
           /\ \E reached \in SUBSET targets :
                inbox' = (IF e = "ack" THEN inbox ELSE inbox \ {w})
                           \cup Woken(reached, hop, w.depth + 1, restarted)
           /\ answered' = answered \cup
                {<<w.msg, w.agent, IF parent = NoParent THEN NoParent ELSE nextId>>}
           /\ UNCHANGED <<online, changes>>
  BY DEF Answer
<1>4. hop \in Nat
  BY <1>2, SentBackType
<1>5. parent \in {NoParent, w.msg}
  BY DEF Parents
<1> DEFINE targets == targets_for(w.agent, mentions, online, hop)
<1>6. targets \in SUBSET Agents
  BY TargetsAreAgents
<1>7. hop >= MaxHops => targets = {}
  BY <1>2 DEF targets_for, FromAgent
<1>8. /\ Store(w.agent, parent, targets)
      /\ \E reached \in SUBSET targets :
           inbox' \subseteq inbox \cup
             Woken(reached, hop, w.depth + 1, w.restarted \/ hop < w.hop)
      /\ answered' = answered \cup
           {<<w.msg, w.agent, IF parent = NoParent THEN NoParent ELSE nextId>>}
      /\ UNCHANGED <<online, changes>>
  BY <1>3
<1> HIDE DEF targets
<1> QED
  BY <1>4, <1>5, <1>6, <1>7, <1>8

LEMMA TypeInit == Init => HandoffTypeOK
<1>1. <<>> \in Seq(Records)
  OBVIOUS
<1> QED
  BY <1>1, HandoffAssumption DEF Init, HandoffTypeOK

LEMMA TypeStep == HandoffTypeOK /\ [Next]_handoffVars => HandoffTypeOK'
<1> SUFFICES ASSUME HandoffTypeOK, [Next]_handoffVars
             PROVE  HandoffTypeOK'
  OBVIOUS
<1>1. ASSUME NEW p \in People, NEW mentions \in Mentions, NEW parent \in KnownIds,
             Send(p, mentions, parent)
      PROVE  HandoffTypeOK'
  <2>1. PICK targets \in SUBSET Agents, reached \in SUBSET Agents :
          /\ reached \subseteq targets /\ parent \in {NoParent} \cup Ids
          /\ Store(p, parent, targets)
          /\ inbox' = inbox \cup Woken(reached, 0, 1, FALSE)
          /\ UNCHANGED <<online, changes, answered>>
    BY <1>1, SendStep
  <2>2. nextId \in Ids /\ nextId' \in 1..(MaxRecords + 1) /\ log' \in Seq(Records)
    BY <2>1, StoreType
  <2>3. Woken(reached, 0, 1, FALSE) \subseteq Wakes
    BY <2>2, WokenType
  <2> QED
    BY <2>1, <2>2, <2>3 DEF HandoffTypeOK
<1>2. ASSUME NEW w \in inbox, NEW e \in Endpoints, NEW mentions \in Mentions,
             Answer(w, e, mentions)
      PROVE  HandoffTypeOK'
  <2>1. PICK hop \in Nat, parent \in {NoParent, w.msg}, targets \in SUBSET Agents,
             reached \in SUBSET Agents :
          /\ reached \subseteq targets
          /\ Store(w.agent, parent, targets)
          /\ inbox' \subseteq inbox \cup
               Woken(reached, hop, w.depth + 1, w.restarted \/ hop < w.hop)
          /\ answered' = answered \cup
               {<<w.msg, w.agent, IF parent = NoParent THEN NoParent ELSE nextId>>}
          /\ UNCHANGED <<online, changes>>
    BY <1>2, AnswerStep
  <2>2. w \in Wakes
    BY DEF HandoffTypeOK
  <2>3. /\ w.agent \in Agents /\ w.msg \in Ids /\ w.depth + 1 \in Nat
        /\ (w.restarted \/ hop < w.hop) \in BOOLEAN
    BY <2>2 DEF Wakes
  <2>4. nextId \in Ids /\ nextId' \in 1..(MaxRecords + 1) /\ log' \in Seq(Records)
    BY <2>1, <2>3, StoreType
  <2>5. Woken(reached, hop, w.depth + 1, w.restarted \/ hop < w.hop) \subseteq Wakes
    BY <2>3, <2>4, WokenType
  <2>6. answered' \subseteq Ids \X Agents \X ({NoParent} \cup Ids)
    BY <2>1, <2>3, <2>4 DEF HandoffTypeOK
  <2> QED
    BY <2>1, <2>4, <2>5, <2>6 DEF HandoffTypeOK
<1>3. ASSUME NEW a \in Agents, Presence(a) PROVE HandoffTypeOK'
  BY <1>3 DEF Presence, HandoffTypeOK
<1>4. ASSUME NEW id \in Ids, Delete(id) PROVE HandoffTypeOK'
  <2>1. PICK i \in 1..Len(log) : log' = RemoveAt(log, i)
    BY <1>4 DEF Delete
  <2>2. log' \in Seq(Records)
    BY <2>1, RangeRemoveAt DEF HandoffTypeOK
  <2> QED
    BY <1>4, <2>2 DEF Delete, HandoffTypeOK
<1>5. CASE UNCHANGED handoffVars
  BY <1>5 DEF handoffVars, HandoffTypeOK
<1> QED
  BY <1>1, <1>2, <1>3, <1>4, <1>5 DEF Next, Chat

\* Records and wakes stay in their types.
THEOREM HandoffTypes == Spec => []HandoffTypeOK
  BY TypeInit, TypeStep, PTL DEF Spec

-----------------------------------------------------------------------------
(* Chains                                                                  *)

\* What is inductive: as long as no answer on the way leaves it out, the hop
\* count is no less than the length of the chain, and nobody is woken with one
\* above the limit.
HopsCount == \A w \in inbox : w.restarted \/ (w.depth <= w.hop /\ w.hop <= MaxHops)

LEMMA HopsStep == HandoffTypeOK /\ HopsCount /\ [Next]_handoffVars => HopsCount'
<1> SUFFICES ASSUME HandoffTypeOK, HopsCount, [Next]_handoffVars
             PROVE  HopsCount'
  OBVIOUS
<1>1. ASSUME NEW p \in People, NEW mentions \in Mentions, NEW parent \in KnownIds,
             Send(p, mentions, parent)
      PROVE  HopsCount'
  <2>1. PICK reached \in SUBSET Agents : inbox' = inbox \cup Woken(reached, 0, 1, FALSE)
    BY <1>1, SendStep
  <2>2. \A w \in Woken(reached, 0, 1, FALSE) : w.depth <= w.hop /\ w.hop <= MaxHops
    BY DEF Woken, MaxHops
  <2> QED
    BY <2>1, <2>2 DEF HopsCount
<1>2. ASSUME NEW v \in inbox, NEW e \in Endpoints, NEW mentions \in Mentions,
             Answer(v, e, mentions)
      PROVE  HopsCount'
  <2> DEFINE restarted(hop) == v.restarted \/ hop < v.hop
  <2>1. PICK hop \in Nat, targets \in SUBSET Agents, reached \in SUBSET Agents :
          /\ reached \subseteq targets
          /\ hop >= MaxHops => targets = {}
          /\ inbox' \subseteq inbox \cup Woken(reached, hop, v.depth + 1, restarted(hop))
    BY <1>2, AnswerStep
  <2>2. v \in Wakes
    BY DEF HandoffTypeOK
  <2>3. v.depth \in Nat /\ v.hop \in Nat
    BY <2>2 DEF Wakes
  <2>4. v.restarted \/ v.depth <= v.hop
    BY DEF HopsCount
  <2>5. ASSUME NEW w \in Woken(reached, hop, v.depth + 1, restarted(hop))
        PROVE  w.restarted \/ (w.depth <= w.hop /\ w.hop <= MaxHops)
    <3>1. /\ w.hop = hop + 1 /\ w.depth = v.depth + 1 /\ w.restarted = restarted(hop)
          /\ reached # {}
      BY <2>5 DEF Woken
    <3>2. hop + 1 <= MaxHops
      BY <2>1, <3>1 DEF MaxHops
    <3>3. CASE restarted(hop)
      BY <3>1, <3>3
    <3>4. CASE ~restarted(hop)
      <4>1. v.depth <= v.hop /\ v.hop <= hop
        BY <2>3, <2>4, <3>4
      <4> QED
        BY <2>3, <3>1, <3>2, <4>1
    <3> QED
      BY <3>3, <3>4
  <2> HIDE DEF restarted
  <2> QED
    BY <2>1, <2>5 DEF HopsCount
<1>3. CASE UNCHANGED inbox
  BY <1>3 DEF HopsCount
<1>4. UNCHANGED handoffVars \/ (\E a \in Agents : Presence(a)) \/ (\E id \in Ids : Delete(id))
        => UNCHANGED inbox
  BY DEF handoffVars, Presence, Delete
<1> QED
  BY <1>1, <1>2, <1>3, <1>4 DEF Next, Chat

\* A chain of handoffs wakes at most three agents one after the other, as long
\* as every answer on the way carries the hop count.
THEOREM ChainsEndAlways == Spec => []ChainsEnd
<1>1. Init => HopsCount
  BY DEF Init, HopsCount
<1>2. HandoffTypeOK /\ HopsCount => ChainsEnd
  <2> SUFFICES ASSUME HandoffTypeOK, HopsCount, NEW w \in inbox
               PROVE  w.restarted \/ w.depth <= MaxHops
    BY DEF ChainsEnd
  <2>1. w \in Wakes
    BY DEF HandoffTypeOK
  <2>2. w.depth \in Nat /\ w.hop \in Nat
    BY <2>1 DEF Wakes
  <2>3. w.restarted \/ (w.depth <= w.hop /\ w.hop <= MaxHops)
    BY DEF HopsCount
  <2> QED
    BY <2>2, <2>3 DEF MaxHops
<1> QED
  BY <1>1, <1>2, HopsStep, HandoffTypes, PTL DEF Spec

-----------------------------------------------------------------------------
(* The board                                                               *)

\* The messages that woke an agent, with the agent.
Asked == {<<w.msg, w.agent>> : w \in inbox} \cup {<<x[1], x[2]>> : x \in answered}

\* Ids are new when they are given out, so that nothing refers to a message
\* before there is one.
Fresh ==
    /\ \A r \in Range(log) : r.id < nextId
    /\ \A i \in Asked : i[1] < nextId
    /\ \A x \in answered : x[3] < nextId

\* Whoever was woken is a target of the message.
AskedAreTargets == \A i \in Asked : \A r \in Range(log) : r.id = i[1] => i[2] \in r.targets

\* An agent's record that names a message is its answer to that message ...
AnswersAreKept ==
    \A r \in Range(log) : r.sender \in Agents /\ r.parent # NoParent =>
        <<r.parent, r.sender, r.id>> \in answered

\* ... and what counts as an answer is a record that says so.
AnswersAreRecords ==
    \A x \in answered : \A r \in Range(log) : r.id = x[3] => r.parent = x[1] /\ r.sender = x[2]

TrackInv == HandoffTypeOK /\ Fresh /\ AskedAreTargets /\ AnswersAreKept /\ AnswersAreRecords

\* Those asked, by number.
LEMMA AskedType == HandoffTypeOK => Asked \subseteq Ids \X Agents
<1> SUFFICES ASSUME HandoffTypeOK PROVE Asked \subseteq Ids \X Agents
  OBVIOUS
<1>1. ASSUME NEW w \in inbox PROVE <<w.msg, w.agent>> \in Ids \X Agents
  <2>1. w \in Wakes
    BY DEF HandoffTypeOK
  <2> QED
    BY <2>1 DEF Wakes
<1>2. ASSUME NEW x \in answered PROVE <<x[1], x[2]>> \in Ids \X Agents
  BY DEF HandoffTypeOK
<1> QED
  BY <1>1, <1>2 DEF Asked

\* A message of nobody's, or an answer w to a message, is stored and wakes some
\* of its targets: nothing of what holds of the others changes.
LEMMA TrackStore ==
    ASSUME TrackInv, HandoffTypeOK', NEW sender \in People \cup Agents,
           NEW parent \in {NoParent} \cup Ids, NEW targets \in SUBSET Agents,
           Store(sender, parent, targets),
           \A i \in Asked' : i \in Asked \/ (i[1] = nextId /\ i[2] \in targets),
           NEW new, answered' = answered \cup new,
           new = {} \/ new = {<<parent, sender, nextId>>} \/ \E m \in Ids : new = {<<m, sender, NoParent>>},
           sender \in Agents /\ parent # NoParent => new = {<<parent, sender, nextId>>}
    PROVE  TrackInv'
<1> USE DEF TrackInv
<1> DEFINE rec == Record(nextId, sender, parent, targets)
<1>1. /\ nextId \in Ids /\ nextId' = nextId + 1
      /\ Range(log') = Range(log) \cup {rec}
  BY StoreType
<1>2. rec.id = nextId /\ rec.sender = sender /\ rec.parent = parent /\ rec.targets = targets
  BY DEF Record
<1>3. \A r \in Range(log) : r.id < nextId /\ r.id \in Nat
  <2> SUFFICES ASSUME NEW r \in Range(log) PROVE r.id < nextId /\ r.id \in Nat
    OBVIOUS
  <2>1. r \in Records
    BY DEF HandoffTypeOK, Range
  <2>2. r.id \in Nat
    BY <2>1 DEF Records, Ids
  <2> QED
    BY <2>2 DEF Fresh
<1>4. \A i \in Asked : i[1] < nextId /\ i[1] \in Nat
  BY AskedType DEF Fresh, Ids
<1>5. \A x \in answered : x[3] < nextId /\ x[3] \in Nat
  <2>1. \A x \in answered : x[3] \in {NoParent} \cup Ids
    BY DEF HandoffTypeOK
  <2> QED
    BY <2>1 DEF Fresh, Ids, NoParent
<1>6. nextId \in Nat /\ nextId > 0
  BY <1>1 DEF Ids
<1>7. \A x \in new : x[3] \in {NoParent, nextId}
  OBVIOUS
<1> HIDE DEF rec
<1>8. Fresh'
  <2>1. \A r \in Range(log') : r.id < nextId'
    BY <1>1, <1>2, <1>3, <1>6
  <2>2. \A i \in Asked' : i[1] < nextId'
    BY <1>1, <1>4, <1>6
  <2>3. \A x \in answered' : x[3] < nextId'
    BY <1>1, <1>5, <1>6, <1>7 DEF NoParent
  <2> QED
    BY <2>1, <2>2, <2>3 DEF Fresh
<1>9. AskedAreTargets'
  <2> SUFFICES ASSUME NEW i \in Asked', NEW r \in Range(log'), r.id = i[1]
               PROVE  i[2] \in r.targets
    BY DEF AskedAreTargets
  <2>1. CASE i \in Asked /\ r \in Range(log)
    BY <2>1 DEF AskedAreTargets
  <2>2. CASE i \notin Asked /\ r = rec
    BY <1>2, <2>2
  <2>3. ~(i \in Asked /\ r = rec)
    BY <1>2, <1>4, <1>6
  <2>4. ~(i \notin Asked /\ r \in Range(log))
    BY <1>3, <1>6
  <2> QED
    BY <1>1, <2>1, <2>2, <2>3, <2>4
<1>10. AnswersAreKept'
  <2>1. \A r \in Range(log) : r.sender \in Agents /\ r.parent # NoParent =>
          <<r.parent, r.sender, r.id>> \in answered'
    BY DEF AnswersAreKept
  <2>2. rec.sender \in Agents /\ rec.parent # NoParent =>
          <<rec.parent, rec.sender, rec.id>> \in answered'
    BY <1>2
  <2> QED
    BY <1>1, <2>1, <2>2 DEF AnswersAreKept
<1>11. AnswersAreRecords'
  <2> SUFFICES ASSUME NEW x \in answered', NEW r \in Range(log'), r.id = x[3]
               PROVE  r.parent = x[1] /\ r.sender = x[2]
    BY DEF AnswersAreRecords
  <2>1. CASE x \in answered /\ r \in Range(log)
    BY <2>1 DEF AnswersAreRecords
  <2>2. CASE x \in answered /\ r = rec
    BY <1>2, <1>5, <1>6, <2>2
  <2>3. CASE x \in new
    <3>1. r.id > 0
      <4>1. r \in Records
        BY DEF HandoffTypeOK, Range
      <4> QED
        BY <4>1 DEF Records, Ids
    <3>2. x = <<parent, sender, nextId>>
      BY <2>3, <3>1 DEF NoParent
    <3>3. r = rec
      BY <1>1, <1>3, <1>6, <3>2
    <3> QED
      BY <1>2, <3>2, <3>3
  <2> QED
    BY <1>1, <2>1, <2>2, <2>3
<1> QED
  BY <1>8, <1>9, <1>10, <1>11

LEMMA TrackInit == Init => TrackInv
<1> SUFFICES ASSUME Init PROVE TrackInv
  OBVIOUS
<1>1. Range(log) = {} /\ inbox = {} /\ answered = {} /\ Asked = {}
  BY DEF Init, Range, Asked
<1> QED
  BY <1>1, TypeInit
     DEF TrackInv, Fresh, AskedAreTargets, AnswersAreKept, AnswersAreRecords

LEMMA TrackStep == TrackInv /\ [Next]_handoffVars => TrackInv'
<1> SUFFICES ASSUME TrackInv, [Next]_handoffVars
             PROVE  TrackInv'
  OBVIOUS
<1> USE DEF TrackInv
<1>0. HandoffTypeOK'
  BY TypeStep
<1>1. ASSUME NEW p \in People, NEW mentions \in Mentions, NEW parent \in KnownIds,
             Send(p, mentions, parent)
      PROVE  TrackInv'
  <2>1. PICK targets \in SUBSET Agents, reached \in SUBSET Agents :
          /\ reached \subseteq targets /\ parent \in {NoParent} \cup Ids
          /\ Store(p, parent, targets)
          /\ inbox' = inbox \cup Woken(reached, 0, 1, FALSE)
          /\ UNCHANGED <<online, changes, answered>>
    BY <1>1, SendStep
  <2>2. \A i \in Asked' : i \in Asked \/ (i[1] = nextId /\ i[2] \in targets)
    BY <2>1 DEF Asked, Woken
  <2>3. p \notin Agents /\ answered' = answered \cup {}
    BY <2>1, HandoffAssumption
  <2> QED
    BY <1>0, <2>1, <2>2, <2>3, TrackStore
<1>2. ASSUME NEW w \in inbox, NEW e \in Endpoints, NEW mentions \in Mentions,
             Answer(w, e, mentions)
      PROVE  TrackInv'
  <2>1. PICK hop \in Nat, parent \in {NoParent, w.msg}, targets \in SUBSET Agents,
             reached \in SUBSET Agents :
          /\ reached \subseteq targets
          /\ Store(w.agent, parent, targets)
          /\ inbox' \subseteq inbox \cup
               Woken(reached, hop, w.depth + 1, w.restarted \/ hop < w.hop)
          /\ answered' = answered \cup
               {<<w.msg, w.agent, IF parent = NoParent THEN NoParent ELSE nextId>>}
    BY <1>2, AnswerStep
  <2>2. w \in Wakes
    BY DEF HandoffTypeOK
  <2>3. w.agent \in Agents /\ w.msg \in Ids
    BY <2>2 DEF Wakes
  <2>4. <<w.msg, w.agent>> \in Asked
    BY DEF Asked
  <2>5. \A i \in Asked' : i \in Asked \/ (i[1] = nextId /\ i[2] \in targets)
    <3>1. ASSUME NEW v \in inbox'
          PROVE  v \in inbox \/ (v.msg = nextId /\ v.agent \in targets)
      BY <2>1 DEF Woken
    <3>2. ASSUME NEW x \in answered'
          PROVE  x \in answered \/ <<x[1], x[2]>> \in Asked
      BY <2>1, <2>4
    <3> QED
      BY <3>1, <3>2 DEF Asked
  <2>6. CASE parent = NoParent
    BY <1>0, <2>1, <2>3, <2>5, <2>6, TrackStore
  <2>7. CASE parent # NoParent
    <3>1. answered' = answered \cup {<<parent, w.agent, nextId>>}
      BY <2>1, <2>7
    <3> QED
      BY <1>0, <2>1, <2>3, <2>5, <2>7, <3>1, TrackStore
  <2> QED
    BY <2>6, <2>7
<1>3. ASSUME UNCHANGED <<nextId, inbox, answered>>, Range(log') \subseteq Range(log)
      PROVE  TrackInv'
  <2>1. Asked' = Asked
    BY <1>3 DEF Asked
  <2> QED
    BY <1>0, <1>3, <2>1 DEF Fresh, AskedAreTargets, AnswersAreKept, AnswersAreRecords
<1>4. ASSUME NEW a \in Agents, Presence(a) PROVE TrackInv'
  BY <1>3, <1>4 DEF Presence
<1>5. ASSUME NEW id \in Ids, Delete(id) PROVE TrackInv'
  <2>1. PICK i \in 1..Len(log) : log' = RemoveAt(log, i)
    BY <1>5 DEF Delete
  <2>2. Range(log') \subseteq Range(log)
    BY <2>1, RangeRemoveAt DEF HandoffTypeOK
  <2> QED
    BY <1>3, <1>5, <2>2 DEF Delete
<1>6. CASE UNCHANGED handoffVars
  BY <1>3, <1>6 DEF handoffVars
<1> QED
  BY <1>1, <1>2, <1>4, <1>5, <1>6 DEF Next, Chat

\* Whatever woke an agent is on the board while it is in the log, and open
\* exactly as long as no answer of that agent that names it is there.
THEOREM WorkIsTrackedAlways == Spec => []WorkIsTracked
<1>1. TrackInv => WorkIsTracked
  <2> SUFFICES ASSUME TrackInv, NEW i \in Asked, i[1] \in KnownIds
               PROVE  /\ i \in Items
                      /\ i \in Open <=> \A r \in Range(log) : <<i[1], i[2], r.id>> \notin answered
    BY DEF WorkIsTracked, Asked
  <2> USE DEF TrackInv
  <2>1. i = <<i[1], i[2]>> /\ i[1] \in Ids /\ i[2] \in Agents /\ i[1] # NoParent
    BY AskedType DEF Ids, NoParent
  <2>2. PICK m \in Range(log) : m.id = i[1]
    BY <2>1 DEF KnownIds
  <2>3. i[2] \in m.targets
    BY <2>2 DEF AskedAreTargets
  <2>4. i \in Items
    BY <2>1, <2>2, <2>3 DEF Items
  <2>5. i \in Open <=> i[2] \notin Repliers(i[1])
    BY <2>4 DEF Open, Acknowledged
  <2>6. i[2] \in Repliers(i[1]) <=> \E r \in Range(log) : r.parent = i[1] /\ r.sender = i[2]
    BY DEF Repliers
  <2>7. ASSUME NEW r \in Range(log)
        PROVE  (r.parent = i[1] /\ r.sender = i[2]) <=> <<i[1], i[2], r.id>> \in answered
    BY <2>1 DEF AnswersAreKept, AnswersAreRecords
  <2> QED
    BY <2>4, <2>5, <2>6, <2>7
<1> QED
  BY <1>1, TrackInit, TrackStep, PTL DEF Spec


-----------------------------------------------------------------------------
(* The board's steps.  Here the log is also what a rewrite has read, so    *)
(* the types of the chat are proved together with those of the rewrites.   *)

\* The items of the log are of its messages, for agents.
LEMMA ItemsType == HandoffTypeOK => Items \subseteq AllItems /\ KnownIds \subseteq {NoParent} \cup Ids
<1> SUFFICES ASSUME HandoffTypeOK PROVE Items \subseteq AllItems
  BY KnownAreIds
<1>1. \A r \in Range(log) : r.id \in Ids /\ r.targets \subseteq Agents
  <2> SUFFICES ASSUME NEW r \in Range(log) PROVE r.id \in Ids /\ r.targets \subseteq Agents
    OBVIOUS
  <2>1. r \in Records
    BY DEF HandoffTypeOK, Range
  <2> QED
    BY <2>1 DEF Records
<1> QED
  BY <1>1 DEF Items, AllItems

\* What is due is open, and so an item of the log.
LEMMA DueAreItems == Due \subseteq Items
  BY DEF Due, Overdue, Open

LEMMA NoItemIsNone == NoItem \notin AllItems
<1>1. 0 \notin Ids
  BY DEF Ids
<1> QED
  BY <1>1 DEF NoItem, AllItems

\* What a rewrite may hold.
Copies == [rows : Seq(Records), markers : SUBSET AllItems]

\* A rewrite under way has read something.
LEMMA UnreadIsNone == Unread \notin Copies
<1>1. Unread.markers = {NoItem}
  BY DEF Unread
<1> QED
  BY <1>1, NoItemIsNone DEF Copies

\* What is read is what is there.
LEMMA CopyType ==
    HandoffTypeOK /\ DeliveryTypeOK => [rows |-> log, markers |-> marked] \in Copies
<1> SUFFICES ASSUME HandoffTypeOK, DeliveryTypeOK
             PROVE  log \in Seq(Records) /\ marked \in SUBSET AllItems
  BY DEF Copies
<1> QED
  BY DEF HandoffTypeOK, DeliveryTypeOK

BoardTypes == HandoffTypeOK /\ DeliveryTypeOK

\* A rewrite puts back rows and markers of the right types, and takes away no
\* marker that it does not excuse.
LEMMA WriteBackType ==
    ASSUME BoardTypes, NEW w \in Runs \cup {Server}, NEW rows \in Seq(Records),
           NEW markers \in SUBSET AllItems, WriteBack(w, rows, markers)
    PROVE  /\ HandoffTypeOK' /\ marked' \subseteq AllItems /\ excused' \subseteq AllItems
           /\ held' \in [Runs \cup {Server} -> {Unread} \cup Copies]
           /\ \A v \in Runs \cup {Server} : v # w => held'[v] = held[v]
           /\ nextId' = nextId /\ excused \subseteq excused'
           /\ \A i \in marked : i \in marked' \/ i \in excused'
<1>1. /\ log' = rows /\ marked' = markers /\ excused' = excused \cup (marked \ markers)
      /\ held' = [held EXCEPT ![w] = Unread]
      /\ UNCHANGED <<nextId, online, inbox, answered>>
  BY DEF WriteBack
<1>2. HandoffTypeOK'
  BY <1>1 DEF BoardTypes, HandoffTypeOK
<1>3. marked \subseteq AllItems /\ excused \subseteq AllItems
      /\ held \in [Runs \cup {Server} -> {Unread} \cup Copies]
  BY DEF BoardTypes, DeliveryTypeOK, Copies
<1>4. /\ held' \in [Runs \cup {Server} -> {Unread} \cup Copies]
      /\ \A v \in Runs \cup {Server} : v # w => held'[v] = held[v]
  BY <1>1, <1>3
<1> QED
  BY <1>1, <1>2, <1>3, <1>4

\* A run that is done with an item.
LEMMA DoneType ==
    ASSUME BoardTypes, NEW r \in Runs, Done(r)
    PROVE  /\ todo' \in [Runs -> SUBSET AllItems] /\ current' \in [Runs -> {NoItem} \cup AllItems]
           /\ \A q \in Runs : current'[q] \in todo'[q] \cup {NoItem}
           /\ todo'[r] = todo[r] \ {current[r]} /\ current'[r] = NoItem
           /\ \A q \in Runs \ {r} : todo'[q] = todo[q] /\ current'[q] = current[q]
<1>1. /\ todo' = [todo EXCEPT ![r] = @ \ {current[r]}]
      /\ current' = [current EXCEPT ![r] = NoItem]
  BY DEF Done
<1>2. /\ todo \in [Runs -> SUBSET AllItems] /\ current \in [Runs -> {NoItem} \cup AllItems]
      /\ \A q \in Runs : current[q] \in todo[q] \cup {NoItem}
  BY DEF BoardTypes, DeliveryTypeOK
<1> QED
  BY <1>1, <1>2

\* The types after the steps of a run.
LEMMA RunTypeStep ==
    ASSUME BoardTypes, NEW r \in Runs, RunStep(r) \/ RunDies(r)
    PROVE  BoardTypes'
<1> USE DEF BoardTypes
<1>0. /\ Items \subseteq AllItems /\ Due \subseteq AllItems /\ r # Server
      /\ marked \cup sent \cup again \cup excused \subseteq AllItems
      /\ late \subseteq Ids /\ doomed \in {NoParent} \cup Ids
      /\ todo \in [Runs -> SUBSET AllItems] /\ current \in [Runs -> {NoItem} \cup AllItems]
      /\ \A q \in Runs : current[q] \in todo[q] \cup {NoItem}
      /\ held \in [Runs \cup {Server} -> {Unread} \cup Copies]
      /\ doomed # NoParent => held[Server] # Unread
      /\ \A q \in Runs : held[q] # Unread => current[q] # NoItem
  BY ItemsType, DueAreItems, BoardAssumption DEF DeliveryTypeOK, Copies
<1> DEFINE Typed ==
      /\ late \subseteq Ids /\ doomed \in {NoParent} \cup Ids
      /\ marked \cup sent \cup again \cup excused \subseteq AllItems
      /\ todo \in [Runs -> SUBSET AllItems] /\ current \in [Runs -> {NoItem} \cup AllItems]
      /\ \A q \in Runs : current[q] \in todo[q] \cup {NoItem}
      /\ held \in [Runs \cup {Server} -> {Unread} \cup Copies]
      /\ doomed # NoParent => held[Server] # Unread
      /\ \A q \in Runs : held[q] # Unread => current[q] # NoItem
<1>00. Typed' => DeliveryTypeOK'
  BY DEF DeliveryTypeOK, Copies
<1> HIDE DEF NoItem
<1>1. CASE RunStart(r)
  <2>1. /\ current[r] = NoItem /\ todo' = [todo EXCEPT ![r] = Due]
        /\ excused' = excused \cup (Due \cap UNION {todo[q] : q \in Runs})
        /\ UNCHANGED <<late, marked, current, held, doomed, sent, again>>
    BY <1>0, <1>1 DEF RunStart, Running
  <2>2. HandoffTypeOK'
    BY <1>1 DEF RunStart, handoffVars, HandoffTypeOK
  <2>3. todo' \in [Runs -> SUBSET AllItems]
    BY <1>0, <2>1
  <2>4. \A q \in Runs : current'[q] \in todo'[q] \cup {NoItem}
    BY <1>0, <2>1
  <2>5. excused' \subseteq AllItems
    BY <1>0, <2>1
  <2> QED
    BY <1>0, <1>00, <2>1, <2>2, <2>3, <2>4, <2>5
<1>2. CASE RemindAppend(r)
  <2>1. PICK i \in todo[r] :
          /\ current' = [current EXCEPT ![r] = i] /\ sent' = sent \cup {i}
          /\ again' = again \cup ({i} \cap (sent \ excused))
          /\ UNCHANGED <<late, marked, todo, held, doomed, excused>>
    BY <1>2 DEF RemindAppend
  <2>2. HandoffTypeOK'
    BY <1>2 DEF RemindAppend, handoffVars, HandoffTypeOK
  <2>3. \A q \in Runs : current'[q] \in todo'[q] \cup {NoItem}
    BY <1>0, <2>1
  <2>4. i \in AllItems
    BY <1>0, <2>1
  <2>5. current' \in [Runs -> {NoItem} \cup AllItems]
    BY <1>0, <2>1, <2>4
  <2>6. \A q \in Runs : held'[q] # Unread => current'[q] # NoItem
    BY <1>0, <2>1, <2>4, NoItemIsNone
  <2> QED
    BY <1>0, <1>00, <2>1, <2>2, <2>3, <2>4, <2>5, <2>6
<1>3. CASE MarkRead(r)
  <2> DEFINE copy == [rows |-> log, markers |-> marked]
  <2>1. /\ held' = [held EXCEPT ![r] = copy]
        /\ UNCHANGED <<late, marked, todo, current, doomed, sent, excused, again>>
    BY <1>3 DEF MarkRead, runVars
  <2>2. HandoffTypeOK'
    BY <1>3 DEF MarkRead, handoffVars, HandoffTypeOK
  <2>3. copy \in Copies
    BY CopyType
  <2> HIDE DEF copy
  <2>4. held' \in [Runs \cup {Server} -> {Unread} \cup Copies] /\ held'[Server] = held[Server]
    BY <1>0, <2>1, <2>3
  <2>5. \A q \in Runs : held'[q] # Unread => current'[q] # NoItem
    BY <1>0, <1>3, <2>1 DEF MarkRead
  <2> QED
    BY <1>0, <1>00, <2>1, <2>2, <2>4, <2>5
<1>4. CASE MarkNothing(r)
  <2>1. /\ Done(r) /\ excused' = excused \cup {current[r]} /\ current[r] # NoItem
        /\ UNCHANGED <<late, marked, held, doomed, sent, again>>
    BY <1>4 DEF MarkNothing
  <2>2. HandoffTypeOK'
    BY <1>4 DEF MarkNothing, handoffVars, HandoffTypeOK
  <2>3. /\ todo' \in [Runs -> SUBSET AllItems] /\ current' \in [Runs -> {NoItem} \cup AllItems]
        /\ \A q \in Runs : current'[q] \in todo'[q] \cup {NoItem}
    BY <2>1, DoneType
  <2>4. current[r] \in AllItems
    BY <1>0, <2>1
  <2>5. \A q \in Runs : held'[q] # Unread => current'[q] # NoItem
    BY <1>0, <1>4, <2>1, DoneType DEF MarkNothing
  <2> QED
    BY <1>0, <1>00, <2>1, <2>2, <2>3, <2>4, <2>5
<1>5. CASE MarkWrite(r)
  <2>1. /\ held[r] # Unread /\ WriteBack(r, held[r].rows, held[r].markers \cup {current[r]})
        /\ Done(r) /\ UNCHANGED <<late, doomed, sent, again>>
    BY <1>5 DEF MarkWrite
  <2>2. held[r].rows \in Seq(Records) /\ held[r].markers \subseteq AllItems
    <3>1. held[r] \in Copies
      BY <1>0, <2>1
    <3> QED
      BY <3>1 DEF Copies
  <2>3. current[r] \in AllItems
    BY <1>0, <2>1
  <2>4. /\ HandoffTypeOK' /\ marked' \subseteq AllItems /\ excused' \subseteq AllItems
        /\ held' \in [Runs \cup {Server} -> {Unread} \cup Copies] /\ held'[Server] = held[Server]
    BY <1>0, <2>1, <2>2, <2>3, WriteBackType
  <2>5. /\ todo' \in [Runs -> SUBSET AllItems] /\ current' \in [Runs -> {NoItem} \cup AllItems]
        /\ \A q \in Runs : current'[q] \in todo'[q] \cup {NoItem}
    BY <2>1, DoneType
  <2>6. \A q \in Runs : held'[q] # Unread => current'[q] # NoItem
    <3>1. held'[r] = Unread
      BY <1>0, <2>1 DEF WriteBack
    <3>2. \A q \in Runs \ {r} : held'[q] = held[q] /\ current'[q] = current[q]
      BY <1>0, <2>1, <2>2, <2>3, WriteBackType, DoneType
    <3> QED
      BY <1>0, <3>1, <3>2
  <2> QED
    BY <1>0, <1>00, <2>1, <2>4, <2>5, <2>6
<1>6. CASE RunDies(r)
  <2>1. /\ todo' = [todo EXCEPT ![r] = {}] /\ current' = [current EXCEPT ![r] = NoItem]
        /\ held' = [held EXCEPT ![r] = Unread]
        /\ excused' = excused \cup ({current[r]} \ {NoItem})
        /\ UNCHANGED <<late, marked, doomed, sent, again>>
    BY <1>6 DEF RunDies
  <2>2. HandoffTypeOK'
    BY <1>6 DEF RunDies, handoffVars, HandoffTypeOK
  <2>3. /\ todo' \in [Runs -> SUBSET AllItems] /\ current' \in [Runs -> {NoItem} \cup AllItems]
        /\ \A q \in Runs : current'[q] \in todo'[q] \cup {NoItem}
    BY <1>0, <2>1
  <2>4. excused' \subseteq AllItems
    BY <1>0, <2>1
  <2>5. held' \in [Runs \cup {Server} -> {Unread} \cup Copies] /\ held'[Server] = held[Server]
    BY <1>0, <2>1
  <2>6. \A q \in Runs : held'[q] # Unread => current'[q] # NoItem
    BY <1>0, <2>1
  <2> QED
    BY <1>0, <1>00, <2>1, <2>2, <2>3, <2>4, <2>5, <2>6
<1> QED
  BY <1>1, <1>2, <1>3, <1>4, <1>5, <1>6 DEF RunStep

\* The types after every step.
LEMMA BoardTypeStep == BoardTypes /\ [BoardNext]_allVars => BoardTypes'
<1> SUFFICES ASSUME BoardTypes, [BoardNext]_allVars
             PROVE  BoardTypes'
  OBVIOUS
<1> USE DEF BoardTypes
<1>1. CASE Chat /\ UNCHANGED boardVars
  <2>1. HandoffTypeOK'
    BY <1>1, TypeStep DEF Next
  <2>2. DeliveryTypeOK'
    BY <1>1 DEF boardVars, runVars, DeliveryTypeOK
  <2> QED
    BY <2>1, <2>2
<1>2. ASSUME NEW id \in Ids, DeleteRead(id) PROVE BoardTypes'
  <2> DEFINE copy == [rows |-> log, markers |-> marked]
  <2>1. /\ doomed' = id /\ held' = [held EXCEPT ![Server] = copy]
        /\ UNCHANGED <<late, marked, todo, current, sent, excused, again>>
    BY <1>2 DEF DeleteRead, runVars
  <2>2. HandoffTypeOK'
    BY <1>2 DEF DeleteRead, handoffVars, HandoffTypeOK
  <2>3. copy \in Copies /\ copy # Unread
    BY CopyType, UnreadIsNone
  <2> HIDE DEF copy
  <2>4. held \in [Runs \cup {Server} -> {Unread} \cup Copies]
    BY DEF DeliveryTypeOK, Copies
  <2>5. /\ held' \in [Runs \cup {Server} -> {Unread} \cup Copies] /\ held'[Server] = copy
        /\ \A q \in Runs : held'[q] = held[q]
    BY <2>1, <2>3, <2>4, BoardAssumption
  <2>6. DeliveryTypeOK'
    BY <2>1, <2>3, <2>5 DEF DeliveryTypeOK, Copies
  <2> QED
    BY <2>2, <2>6
<1>3. CASE DeleteWrite
  <2> DEFINE rows == held[Server].rows
             markers == {m \in held[Server].markers : m[1] # doomed}
  <2>1. PICK i \in 1..Len(rows) : WriteBack(Server, RemoveAt(rows, i), markers)
    BY <1>3 DEF DeleteWrite
  <2>2. held[Server] \in Copies
    <3>1. doomed # NoParent /\ held[Server] \in {Unread} \cup Copies
      BY <1>3 DEF DeleteWrite, DeliveryTypeOK, Copies
    <3> QED
      BY <3>1 DEF DeliveryTypeOK
  <2>3. rows \in Seq(Records) /\ markers \in SUBSET AllItems
    BY <2>2 DEF Copies
  <2>4. RemoveAt(rows, i) \in Seq(Records)
    BY <2>3, RemoveAtPlaces
  <2>5. /\ doomed' = NoParent /\ UNCHANGED <<late, todo, current, sent, again>>
    BY <1>3 DEF DeleteWrite, runVars
  <2> HIDE DEF rows, markers
  <2>6. /\ HandoffTypeOK' /\ marked' \subseteq AllItems /\ excused' \subseteq AllItems
        /\ held' \in [Runs \cup {Server} -> {Unread} \cup Copies]
        /\ \A v \in Runs \cup {Server} : v # Server => held'[v] = held[v]
    <3> DEFINE rest == RemoveAt(rows, i)
    <3>1. rest \in Seq(Records) /\ WriteBack(Server, rest, markers) /\ Server \in Runs \cup {Server}
      BY <2>1, <2>4
    <3> HIDE DEF rest
    <3>2. BoardTypes
      OBVIOUS
    <3> QED
      BY ONLY <2>3, <3>1, <3>2, WriteBackType
  <2>7. \A q \in Runs : held'[q] = held[q]
    BY <2>6, BoardAssumption
  <2>8. DeliveryTypeOK'
    BY <2>5, <2>6, <2>7 DEF DeliveryTypeOK, Copies
  <2> QED
    BY <2>6, <2>8
<1>4. ASSUME NEW r \in Runs, RunStep(r) \/ RunDies(r) PROVE BoardTypes'
  BY <1>4, RunTypeStep
<1>5. CASE TimePasses
  <2>1. /\ late' = {r.id : r \in Range(log)} /\ marked' = {} /\ sent' = {} /\ excused' = {}
        /\ UNCHANGED <<todo, current, held, doomed, again>>
    BY <1>5 DEF TimePasses, runVars
  <2>2. late' \subseteq Ids
    <3> SUFFICES ASSUME NEW r \in Range(log) PROVE r.id \in Ids
      BY <2>1
    <3>1. r \in Records
      BY DEF HandoffTypeOK, Range
    <3> QED
      BY <3>1 DEF Records
  <2>3. HandoffTypeOK'
    BY <1>5 DEF TimePasses, handoffVars, HandoffTypeOK
  <2> QED
    BY <2>1, <2>2, <2>3 DEF DeliveryTypeOK
<1>6. CASE UNCHANGED allVars
  BY <1>6 DEF allVars, boardVars, handoffVars, runVars, HandoffTypeOK, DeliveryTypeOK
<1> QED
  BY <1>1, <1>2, <1>3, <1>4, <1>5, <1>6 DEF BoardNext

LEMMA BoardTypeInit == BoardInit => BoardTypes
<1> SUFFICES ASSUME BoardInit PROVE BoardTypes
  OBVIOUS
<1>1. HandoffTypeOK
  BY TypeInit DEF BoardInit
<1>2. DeliveryTypeOK
  BY DEF BoardInit, DeliveryTypeOK
<1> QED
  BY <1>1, <1>2 DEF BoardTypes

\* Messages, items, runs, rewrites and histories stay in their types, though
\* rewrites put back whatever log they read.
THEOREM DeliveryTypes == BoardSpec => [](HandoffTypeOK /\ DeliveryTypeOK)
<1>1. BoardTypes => HandoffTypeOK /\ DeliveryTypeOK
  BY DEF BoardTypes
<1> QED
  BY <1>1, BoardTypeInit, BoardTypeStep, PTL DEF BoardSpec

-----------------------------------------------------------------------------
(* One reminder in an interval                                             *)

\* Two runs are about the same item only when it is excused.
SharedExcused == \A r, q \in Runs : r # q => todo[r] \cap todo[q] \subseteq excused

\* What a run has still to remind of was not reminded of yet.
NotYetSent ==
    \A r \in Runs : \A i \in todo[r] : i \in sent /\ i # current[r] => i \in excused

\* What was reminded of has its marker, or a run has still to write it: also
\* when its message is gone, since a rewrite may bring it back.
MarkerOrRun ==
    \A i \in sent : i \in excused \/ i \in marked \/ \E r \in Runs : current[r] = i

BoardInv == BoardTypes /\ SharedExcused /\ NotYetSent /\ MarkerOrRun /\ RemindedOnce

\* Steps that start, end or append no reminder: of markers only those vanish
\* that are excused.
LEMMA QuietStep ==
    ASSUME BoardInv, BoardTypes', UNCHANGED <<todo, current, sent, again>>,
           excused \subseteq excused', \A i \in marked : i \in marked' \/ i \in excused'
    PROVE  BoardInv'
  BY DEF BoardInv, SharedExcused, NotYetSent, MarkerOrRun, RemindedOnce

\* A run takes up what is due.
LEMMA RunStartStep ==
    ASSUME BoardInv, NEW r \in Runs, RunStart(r), BoardTypes'
    PROVE  BoardInv'
<1> USE DEF BoardInv, BoardTypes
<1>1. /\ todo[r] = {} /\ todo' = [todo EXCEPT ![r] = Due]
      /\ excused' = excused \cup (Due \cap UNION {todo[q] : q \in Runs})
      /\ UNCHANGED <<marked, current, sent, again>>
  BY DEF RunStart, Running
<1>2. todo'[r] = Due /\ \A q \in Runs \ {r} : todo'[q] = todo[q]
  BY <1>1 DEF DeliveryTypeOK
<1>3. SharedExcused'
  <2> SUFFICES ASSUME NEW p \in Runs, NEW q \in Runs, p # q, NEW i \in todo'[p] \cap todo'[q]
               PROVE  i \in excused'
    BY DEF SharedExcused
  <2>1. CASE p # r /\ q # r
    BY <1>1, <1>2, <2>1 DEF SharedExcused
  <2>2. CASE p = r \/ q = r
    BY <1>1, <1>2, <2>2
  <2> QED
    BY <2>1, <2>2
<1>4. NotYetSent'
  <2> SUFFICES ASSUME NEW q \in Runs, NEW i \in todo'[q], i \in sent, i # current[q]
               PROVE  i \in excused'
    BY <1>1 DEF NotYetSent
  <2>1. CASE q # r
    BY <1>1, <1>2, <2>1 DEF NotYetSent
  <2>2. CASE q = r
    <3>1. i \in Due /\ i \notin marked
      BY <1>2, <2>2 DEF Due
    <3>2. i \in excused \/ \E p \in Runs : current[p] = i
      BY <3>1 DEF MarkerOrRun
    <3>3. ASSUME NEW p \in Runs, current[p] = i PROVE i \in todo[p]
      <4>1. i # NoItem
        BY NoItemIsNone DEF DeliveryTypeOK
      <4> QED
        BY <3>3, <4>1 DEF DeliveryTypeOK
    <3> QED
      BY <1>1, <3>1, <3>2, <3>3
  <2> QED
    BY <2>1, <2>2
<1>5. MarkerOrRun'
  BY <1>1 DEF MarkerOrRun
<1> QED
  BY <1>1, <1>3, <1>4, <1>5 DEF RemindedOnce

\* A run reminds of an item that was not reminded of, unless it is excused.
LEMMA RemindAppendStep ==
    ASSUME BoardInv, NEW r \in Runs, RemindAppend(r), BoardTypes'
    PROVE  BoardInv'
<1> USE DEF BoardInv, BoardTypes
<1>1. PICK i \in todo[r] :
        /\ current[r] = NoItem /\ current' = [current EXCEPT ![r] = i]
        /\ sent' = sent \cup {i} /\ again' = again \cup ({i} \cap (sent \ excused))
        /\ UNCHANGED <<marked, todo, excused>>
  BY DEF RemindAppend
<1>2. current'[r] = i /\ \A q \in Runs \ {r} : current'[q] = current[q]
  BY <1>1 DEF DeliveryTypeOK
<1>3. \A j \in todo[r] : j # current[r]
  BY <1>1, NoItemIsNone DEF DeliveryTypeOK
<1>4. RemindedOnce'
  BY <1>1, <1>3 DEF NotYetSent, RemindedOnce
<1>5. SharedExcused'
  BY <1>1 DEF SharedExcused
<1>6. NotYetSent'
  <2> SUFFICES ASSUME NEW q \in Runs, NEW j \in todo[q], j \in sent', j # current'[q]
               PROVE  j \in excused
    BY <1>1 DEF NotYetSent
  <2>1. CASE j \in sent
    BY <1>2, <1>3, <2>1 DEF NotYetSent
  <2>2. CASE j = i
    <3>1. q # r
      BY <1>2, <2>2
    <3> QED
      BY <1>1, <2>2, <3>1 DEF SharedExcused
  <2> QED
    BY <1>1, <2>1, <2>2
<1>7. MarkerOrRun'
  <2> SUFFICES ASSUME NEW j \in sent', j \notin excused, j \notin marked
               PROVE  \E q \in Runs : current'[q] = j
    BY <1>1 DEF MarkerOrRun
  <2>1. CASE j = i
    BY <1>2, <2>1
  <2>2. CASE j \in sent
    <3>1. PICK q \in Runs : current[q] = j
      BY <2>2 DEF MarkerOrRun
    <3>2. j # NoItem
      BY <2>2, NoItemIsNone DEF DeliveryTypeOK
    <3> QED
      BY <1>1, <1>2, <3>1, <3>2
  <2> QED
    BY <1>1, <2>1, <2>2
<1> QED
  BY <1>4, <1>5, <1>6, <1>7

\* A run that is done with an item, which has its marker or is excused.
LEMMA DoneStep ==
    ASSUME BoardInv, NEW r \in Runs, Done(r), BoardTypes', UNCHANGED <<sent, again>>,
           excused \subseteq excused', \A i \in marked : i \in marked' \/ i \in excused',
           current[r] \in marked' \cup excused'
    PROVE  BoardInv'
<1> USE DEF BoardInv
<1>1. /\ todo'[r] = todo[r] \ {current[r]} /\ current'[r] = NoItem
      /\ \A q \in Runs \ {r} : todo'[q] = todo[q] /\ current'[q] = current[q]
  BY DoneType
<1>2. \A q \in Runs : todo'[q] \subseteq todo[q]
  BY <1>1
<1>3. SharedExcused'
  BY <1>2 DEF SharedExcused
<1>4. NotYetSent'
  BY <1>1 DEF NotYetSent
<1>5. MarkerOrRun'
  BY <1>1 DEF MarkerOrRun
<1> QED
  BY <1>3, <1>4, <1>5 DEF RemindedOnce

\* A run that dies leaves at most one item without its marker.
LEMMA RunDiesStep ==
    ASSUME BoardInv, NEW r \in Runs, RunDies(r), BoardTypes'
    PROVE  BoardInv'
<1> USE DEF BoardInv, BoardTypes
<1>1. /\ todo' = [todo EXCEPT ![r] = {}] /\ current' = [current EXCEPT ![r] = NoItem]
      /\ excused' = excused \cup ({current[r]} \ {NoItem})
      /\ UNCHANGED <<marked, sent, again>>
  BY DEF RunDies
<1>2. /\ todo'[r] = {} /\ current'[r] = NoItem
      /\ \A q \in Runs \ {r} : todo'[q] = todo[q] /\ current'[q] = current[q]
  BY <1>1 DEF DeliveryTypeOK
<1>3. SharedExcused'
  BY <1>1, <1>2 DEF SharedExcused
<1>4. NotYetSent'
  BY <1>1, <1>2 DEF NotYetSent
<1>5. MarkerOrRun'
  <2> SUFFICES ASSUME NEW i \in sent, i \notin excused', i \notin marked
               PROVE  \E q \in Runs : current'[q] = i
    BY <1>1 DEF MarkerOrRun
  <2>1. PICK q \in Runs : current[q] = i
    BY <1>1 DEF MarkerOrRun
  <2>2. i # NoItem
    BY NoItemIsNone DEF DeliveryTypeOK
  <2> QED
    BY <1>1, <1>2, <2>1, <2>2
<1> QED
  BY <1>1, <1>3, <1>4, <1>5 DEF RemindedOnce

LEMMA BoardInvStep == BoardInv /\ [BoardNext]_allVars => BoardInv'
<1> SUFFICES ASSUME BoardInv, [BoardNext]_allVars
             PROVE  BoardInv'
  OBVIOUS
<1>0. BoardTypes /\ BoardTypes'
  BY BoardTypeStep DEF BoardInv
<1>1. ASSUME UNCHANGED <<todo, current, sent, again, excused, marked>> PROVE BoardInv'
  BY <1>0, <1>1, QuietStep
<1>2. CASE Chat /\ UNCHANGED boardVars
  BY <1>1, <1>2 DEF boardVars, runVars
<1>3. ASSUME NEW id \in Ids, DeleteRead(id) PROVE BoardInv'
  BY <1>1, <1>3 DEF DeleteRead, runVars
<1>4. CASE DeleteWrite
  <2>1. /\ excused \subseteq excused' /\ \A i \in marked : i \in marked' \/ i \in excused'
        /\ UNCHANGED <<todo, current, sent, again>>
    BY <1>4 DEF DeleteWrite, WriteBack, runVars
  <2> QED
    BY <1>0, <2>1, QuietStep
<1>5. ASSUME NEW r \in Runs, RunStep(r) PROVE BoardInv'
  <2>1. CASE RunStart(r)
    BY <1>0, <2>1, RunStartStep
  <2>2. CASE RemindAppend(r)
    BY <1>0, <2>2, RemindAppendStep
  <2>3. CASE MarkRead(r)
    BY <1>1, <2>3 DEF MarkRead, runVars
  <2>4. CASE MarkNothing(r)
    <3>1. /\ Done(r) /\ UNCHANGED <<sent, again, marked>>
          /\ excused' = excused \cup {current[r]}
      BY <2>4 DEF MarkNothing
    <3> QED
      BY <1>0, <3>1, DoneStep
  <2>5. CASE MarkWrite(r)
    <3>1. /\ Done(r) /\ UNCHANGED <<sent, again>>
          /\ excused \subseteq excused' /\ \A i \in marked : i \in marked' \/ i \in excused'
          /\ current[r] \in marked'
      BY <2>5 DEF MarkWrite, WriteBack
    <3> QED
      BY <1>0, <3>1, DoneStep
  <2> QED
    BY <1>5, <2>1, <2>2, <2>3, <2>4, <2>5 DEF RunStep
<1>6. ASSUME NEW r \in Runs, RunDies(r) PROVE BoardInv'
  BY <1>0, <1>6, RunDiesStep
<1>7. CASE TimePasses
  <2>1. /\ \A r \in Runs : todo[r] = {}
        /\ sent' = {} /\ UNCHANGED <<todo, current, again>>
    BY <1>7 DEF TimePasses, Running, runVars
  <2>2. SharedExcused' /\ NotYetSent' /\ MarkerOrRun' /\ RemindedOnce'
    BY <2>1 DEF BoardInv, SharedExcused, NotYetSent, MarkerOrRun, RemindedOnce
  <2> QED
    BY <1>0, <2>2 DEF BoardInv
<1>8. CASE UNCHANGED allVars
  BY <1>1, <1>8 DEF allVars, boardVars, runVars
<1> QED
  BY <1>2, <1>3, <1>4, <1>5, <1>6, <1>7, <1>8 DEF BoardNext

\* No item is reminded of twice in an interval, however many runs there are and
\* whatever rewrites do to the log, unless its marker was got in the way of.
THEOREM RemindedOnceAlways == BoardSpec => []RemindedOnce
<1>1. BoardInit => BoardInv
  <2> SUFFICES ASSUME BoardInit PROVE BoardInv
    OBVIOUS
  <2>1. todo = [r \in Runs |-> {}] /\ sent = {} /\ again = {}
    BY DEF BoardInit
  <2>2. SharedExcused /\ NotYetSent /\ MarkerOrRun /\ RemindedOnce
    BY <2>1 DEF SharedExcused, NotYetSent, MarkerOrRun, RemindedOnce
  <2> QED
    BY <2>2, BoardTypeInit DEF BoardInv
<1>2. BoardInv => RemindedOnce
  BY DEF BoardInv
<1> QED
  BY <1>1, <1>2, BoardInvStep, PTL DEF BoardSpec
=============================================================================
