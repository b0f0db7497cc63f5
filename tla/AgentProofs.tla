----------------------------- MODULE AgentProofs -----------------------------
(***************************************************************************)
(* Proofs about AgentStatus: for any roster, lists of targets, threads and *)
(* bounds.                                                                 *)
(***************************************************************************)
EXTENDS AgentStatus, FiniteSetTheorems, TLAPS

-----------------------------------------------------------------------------
(* Lists of agents.                                                        *)

\* A set of numbers that is not empty has a least one.
LEMMA LeastOne ==
    ASSUME NEW S \in SUBSET Nat, S # {}
    PROVE  Min(S) \in S
<1>1. \E x \in S : \A y \in S : ~ (<<y, x>> \in OpToRel(<, Nat))
  BY NatLessThanWellFounded, WFMin
<1>2. PICK x \in S : \A y \in S : ~ (<<y, x>> \in OpToRel(<, Nat))
  BY <1>1
<1>3. \A y \in S : ~ (y < x)
  BY <1>2 DEF OpToRel
<1>4. \A y \in S : x <= y
  BY <1>3
<1> QED
  BY <1>4 DEF Min

\* A message's targets are agents, each named once.
LEMMA ListTypes ==
    ASSUME NEW l \in Lists
    PROVE  l \in Seq(Agents) /\ l # <<>> /\ IsInjective(l) /\ Len(l) >= 1
<1>1. PICK S \in SUBSET Agents : l \in SetToSeqs(S)
  BY StatusAssumption DEF SetToAllKPermutations
<1>2. l # <<>>
  BY StatusAssumption
<1>3. Cardinality(S) \in Nat
  BY StatusAssumption, FS_Subset, FS_CardinalityType
<1>4. /\ l \in [1..Cardinality(S) -> S]
      /\ \A i, j \in 1..Cardinality(S) : i # j => l[i] # l[j]
  BY <1>1 DEF SetToSeqs
<1>5. l \in Seq(Agents) /\ DOMAIN l = 1..Cardinality(S)
  BY <1>3, <1>4
<1>6. IsInjective(l)
  BY <1>4, <1>5 DEF IsInjective
<1> QED
  BY <1>2, <1>5, <1>6

\* The roster lists agents.
LEMMA RosterType == Roster \in Seq(Agents)
<1>1. Cardinality(Agents) \in Nat /\ ExistsBijection(1..Cardinality(Agents), Agents)
  BY StatusAssumption, FS_CardinalityType
<1>2. \E f \in [1..Cardinality(Agents) -> Agents] : IsInjective(f)
  BY <1>1 DEF ExistsBijection, Bijection, Injection
<1>3. Roster \in [1..Cardinality(Agents) -> Agents]
  BY <1>2 DEF Roster, SetToSeq
<1> QED
  BY <1>1, <1>3

\* What a poll has to clear begins with an expired mark.
LEMMA OverdueBegins ==
    ASSUME NEW l \in Seq(Agents)
    PROVE  /\ Overdue(l) \in Seq(Agents)
           /\ Overdue(l) # <<>> => Expired(mark[Head(Overdue(l))])
<1> DEFINE I == {k \in 1..Len(l) : Expired(mark[l[k]])}
           i == IF I # {} THEN Min(I) ELSE 0
<1>2. Overdue(l) = IF i = 0 THEN <<>> ELSE SubSeq(l, i, Len(l))
  BY DEF Overdue, SelectInSeq
<1>3. I \in SUBSET Nat
  OBVIOUS
<1>4. CASE I = {}
  BY <1>2, <1>4
<1>5. CASE I # {}
  <2>1. i \in I
    BY <1>3, <1>5, LeastOne
  <2>2. i \in 1..Len(l) /\ Expired(mark[l[i]])
    BY <2>1
  <2> HIDE DEF I, i
  <2>3. Overdue(l) = SubSeq(l, i, Len(l))
    BY <1>2, <2>2
  <2>4. SubSeq(l, i, Len(l)) \in Seq(Agents) /\ Head(SubSeq(l, i, Len(l))) = l[i]
    BY <2>2
  <2> QED
    BY <2>2, <2>3, <2>4
<1> QED
  BY <1>4, <1>5

\* A list of agents is its first agent and the rest.
LEMMA HeadAndTail ==
    ASSUME NEW s \in Seq(Agents), s # <<>>
    PROVE  /\ Head(s) \in Agents /\ Tail(s) \in Seq(Agents)
           /\ Range(s) = {Head(s)} \cup Range(Tail(s)) /\ Range(s) \subseteq Agents
           /\ IsInjective(s) => IsInjective(Tail(s)) /\ Head(s) \notin Range(Tail(s))
<1>1. /\ Len(s) \in Nat /\ Len(s) >= 1 /\ DOMAIN s = 1..Len(s)
      /\ \A i \in 1..Len(s) : s[i] \in Agents
  OBVIOUS
<1>2. /\ Head(s) = s[1] /\ Tail(s) \in Seq(Agents) /\ DOMAIN Tail(s) = 1..Len(s) - 1
      /\ \A i \in 1..Len(s) - 1 : Tail(s)[i] = s[i + 1]
  OBVIOUS
<1>3. \A i \in 1..Len(s) : i = 1 \/ i - 1 \in 1..Len(s) - 1
  BY <1>1
<1>4. \A i \in 1..Len(s) - 1 : i + 1 \in 1..Len(s) /\ i + 1 # 1
  BY <1>1
<1>5. Range(s) = {Head(s)} \cup Range(Tail(s))
  <2>1. ASSUME NEW a \in Range(s) PROVE a \in {Head(s)} \cup Range(Tail(s))
    <3>1. PICK i \in 1..Len(s) : a = s[i]
      BY <1>1 DEF Range
    <3>2. CASE i = 1
      BY <1>2, <3>1, <3>2
    <3>3. CASE i - 1 \in 1..Len(s) - 1
      <4>1. a = Tail(s)[i - 1]
        BY <1>1, <1>2, <3>1, <3>3
      <4> QED
        BY <1>2, <3>3, <4>1 DEF Range
    <3> QED
      BY <1>3, <3>2, <3>3
  <2>2. Head(s) \in Range(s)
    BY <1>1, <1>2 DEF Range
  <2>3. ASSUME NEW a \in Range(Tail(s)) PROVE a \in Range(s)
    <3>1. PICK i \in 1..Len(s) - 1 : a = Tail(s)[i]
      BY <1>2 DEF Range
    <3> QED
      BY <1>1, <1>2, <1>4, <3>1 DEF Range
  <2> QED
    BY <2>1, <2>2, <2>3
<1>6. ASSUME IsInjective(s) PROVE IsInjective(Tail(s)) /\ Head(s) \notin Range(Tail(s))
  <2>1. \A i, j \in 1..Len(s) : s[i] = s[j] => i = j
    BY <1>1, <1>6 DEF IsInjective
  <2>2. ASSUME NEW i \in 1..Len(s) - 1, NEW j \in 1..Len(s) - 1, Tail(s)[i] = Tail(s)[j] PROVE i = j
    <3>1. i + 1 = j + 1
      BY <1>2, <1>4, <2>1, <2>2
    <3> QED
      BY <1>1, <3>1
  <2>3. ASSUME NEW i \in 1..Len(s) - 1 PROVE Tail(s)[i] # Head(s)
    BY <1>1, <1>2, <1>4, <2>1
  <2> QED
    BY <1>2, <2>2, <2>3 DEF IsInjective, Range
<1> QED
  BY <1>1, <1>2, <1>5, <1>6 DEF Range

\* An append adds its agent and nobody else.
LEMMA RangeAppend ==
    ASSUME NEW s \in Seq(Agents), NEW a \in Agents
    PROVE  /\ Append(s, a) \in Seq(Agents) /\ Append(s, a) # <<>>
           /\ Range(Append(s, a)) = Range(s) \cup {a}
<1>1. /\ Append(s, a) \in Seq(Agents) /\ DOMAIN Append(s, a) = 1..Len(s) + 1
      /\ \A i \in 1..Len(s) : Append(s, a)[i] = s[i]
      /\ Append(s, a)[Len(s) + 1] = a
  OBVIOUS
<1>2. DOMAIN s = 1..Len(s) /\ Len(s) \in Nat
  OBVIOUS
<1> QED
  BY <1>1, <1>2 DEF Range

\* One agent, named once or twice.
LEMMA OneAgent ==
    ASSUME NEW a \in Agents
    PROVE  /\ <<a>> \in Seq(Agents) /\ <<a, a>> \in Seq(Agents) /\ <<>> \in Seq(Agents)
           /\ Head(<<a>>) = a /\ Head(<<a, a>>) = a
           /\ Range(<<a>>) = {a} /\ Range(<<a, a>>) = {a} /\ Range(<<>>) = {}
           /\ <<a>> # <<>> /\ <<a, a>> # <<>>
  BY DEF Range

-----------------------------------------------------------------------------
(* What the requests are at.                                               *)

JobSet ==
    [kind : {"none", "dispatch", "post", "notice", "poll"},
     at : {"idle", "first", "second", "save", "dump", "deliver", "route"},
     todo : Seq(Agents), value : BOOLEAN, targets : Seq(Agents), failed : Seq(Agents)]

\* A dispatch marks all of its targets, hands the message to each of them once
\* and unmarks the failed ones.
DispatchShape(j) ==
    /\ j.targets \in Lists
    /\ Range(j.todo) \subseteq Range(j.targets) /\ Range(j.failed) \subseteq Range(j.targets)
    /\ j.at = "deliver" => IsInjective(j.todo) /\ Range(j.todo) \cap Range(j.failed) = {}
    /\ j.value /\ j.at # "deliver" => j.failed = <<>>
    /\ ~j.value => Range(j.todo) \subseteq Range(j.failed)

Shape(j) ==
    /\ j.kind = "none" <=> j.at = "idle"
    /\ j.at # "idle" => j.todo # <<>>
    /\ j.at = "deliver" => j.kind = "dispatch" /\ j.value
    /\ j.at = "route" => j.kind = "post"
    /\ j.kind \in {"post", "poll"} => ~j.value
    /\ j.kind = "dispatch" => DispatchShape(j)
    /\ j.kind # "dispatch" => j.targets = <<>> /\ j.failed = <<>>

Jobs == job \in [Threads -> JobSet] /\ \A t \in Threads : Shape(job[t])

Types ==
    /\ mark \in [Agents -> Marks] /\ stored \in [Agents -> Marks] /\ dump \in [Agents -> Marks]
    /\ copy \in [Agents -> Marks] \cup {NoMarks}
    /\ lock \in Threads \cup {NoThread} /\ Jobs
    /\ work \in [Agents -> Nat] /\ odds \in [Agents -> Plain..Torn]
    /\ calls \in 0..MaxCalls

\* What a step leaves t at; the other threads stay where they are.
Turns(t, kind, at, todo, value, targets, failed) ==
    /\ job'[t] = [kind |-> kind, at |-> at, todo |-> todo, value |-> value,
                  targets |-> targets, failed |-> failed]
    /\ \A u \in Threads : u # t => job'[u] = job[u]
    /\ job' = [job EXCEPT ![t] = job'[t]]

\* t ends.
Ends(t) == Turns(t, "none", "idle", <<>>, FALSE, <<>>, <<>>)

\* t goes on with another step of the same request.
Goes(t, at, todo) ==
    Turns(t, job[t].kind, at, todo, job[t].value, job[t].targets, job[t].failed)

LEMMA Writes ==
    ASSUME job \in [Threads -> JobSet], NEW t \in Threads
    PROVE  /\ First(t) => Goes(t, "second", job[t].todo)
           /\ SaveOpen(t) => Goes(t, "dump", job[t].todo)
           /\ End(t) => Ends(t)
<1>1. job[t] \in JobSet /\ DOMAIN job = Threads
  OBVIOUS
<1>2. job[t] = [kind |-> job[t].kind, at |-> job[t].at, todo |-> job[t].todo, value |-> job[t].value,
                targets |-> job[t].targets, failed |-> job[t].failed]
  BY <1>1 DEF JobSet
<1>3. ASSUME First(t) PROVE Goes(t, "second", job[t].todo)
  BY <1>1, <1>2, <1>3 DEF First, Goes, Turns
<1>4. ASSUME SaveOpen(t) PROVE Goes(t, "dump", job[t].todo)
  BY <1>1, <1>2, <1>4 DEF SaveOpen, Goes, Turns
<1>5. ASSUME End(t) PROVE Ends(t)
  BY <1>1, <1>5 DEF End, Ends, Turns, Idle, Job
<1> QED
  BY <1>3, <1>4, <1>5

\* The writes of a field go on to the save, a poll to its next expired mark.
LEMMA SecondMoves ==
    ASSUME Types, NEW t \in Threads, Second(t)
    PROVE  \/ Goes(t, "save", job[t].todo)
           \/ /\ job[t].kind = "poll"
              /\ \E rest \in Seq(Agents) :
                    rest # <<>> /\ Expired(mark[Head(rest)]) /\ Goes(t, "first", rest)
<1> DEFINE rest == Overdue(Tail(job[t].todo))
<1>1. job[t] \in JobSet /\ DOMAIN job = Threads /\ job[t].todo \in Seq(Agents) /\ job[t].todo # <<>>
  BY DEF Types, Jobs, Shape, JobSet, Second
<1>2. rest \in Seq(Agents) /\ (rest # <<>> => Expired(mark[Head(rest)]))
  BY <1>1, HeadAndTail, OverdueBegins
<1>3. job' = [job EXCEPT ![t] = IF @.kind = "poll" /\ rest # <<>>
                                  THEN [@ EXCEPT !.at = "first", !.todo = rest]
                                  ELSE [@ EXCEPT !.at = "save"]]
  BY DEF Second
<1> HIDE DEF rest
<1>4. CASE job[t].kind = "poll" /\ rest # <<>>
  <2>1. Goes(t, "first", rest)
    BY <1>1, <1>3, <1>4 DEF Goes, Turns, JobSet
  <2> QED
    BY <1>2, <1>4, <2>1
<1>5. CASE ~ (job[t].kind = "poll" /\ rest # <<>>)
  <2>1. Goes(t, "save", job[t].todo)
    BY <1>1, <1>3, <1>5 DEF Goes, Turns, JobSet
  <2> QED
    BY <2>1
<1> QED
  BY <1>4, <1>5

\* What follows a write.
LEMMA SaveMoves ==
    ASSUME Types, NEW t \in Threads, SaveClose(t)
    PROVE  LET j == job[t]
               rest == Tail(j.todo)
           IN \/ j.kind # "poll" /\ rest # <<>> /\ Goes(t, "first", rest)
              \/ rest = <<>> /\ j.kind = "dispatch" /\ j.value /\ Goes(t, "deliver", j.targets)
              \/ rest = <<>> /\ j.kind = "post" /\ Goes(t, "route", j.todo)
              \/ /\ j.kind = "poll" \/ (rest = <<>> /\ j.kind # "post" /\ ~ (j.kind = "dispatch" /\ j.value))
                 /\ Ends(t)
<1> DEFINE j == job[t]
           rest == Tail(j.todo)
<1>1. j \in JobSet /\ DOMAIN job = Threads /\ j.todo \in Seq(Agents) /\ j.todo # <<>>
  BY DEF Types, Jobs, Shape, JobSet, SaveClose
<1>2. job' = [job EXCEPT ![t] = AfterSave(j)]
  BY DEF SaveClose
<1>3. /\ job'[t] = AfterSave(j)
      /\ \A u \in Threads : u # t => job'[u] = job[u]
      /\ job' = [job EXCEPT ![t] = job'[t]]
  BY <1>1, <1>2
<1>4. rest \in Seq(Agents)
  BY <1>1, HeadAndTail
<1> HIDE DEF j
<1>5. CASE j.kind # "poll" /\ rest # <<>>
  <2>1. AfterSave(j) = [kind |-> j.kind, at |-> "first", todo |-> rest, value |-> j.value,
                        targets |-> j.targets, failed |-> j.failed]
    BY <1>1, <1>4, <1>5 DEF AfterSave, JobSet
  <2> QED
    BY <1>3, <1>5, <2>1 DEF Goes, Turns, j
<1>6. CASE rest = <<>> /\ j.kind = "dispatch" /\ j.value
  <2>1. AfterSave(j) = [kind |-> j.kind, at |-> "deliver", todo |-> j.targets, value |-> j.value,
                        targets |-> j.targets, failed |-> j.failed]
    BY <1>1, <1>4, <1>6 DEF AfterSave, JobSet
  <2> QED
    BY <1>3, <1>6, <2>1 DEF Goes, Turns, j
<1>7. CASE rest = <<>> /\ j.kind = "post"
  <2>1. AfterSave(j) = [kind |-> j.kind, at |-> "route", todo |-> j.todo, value |-> j.value,
                        targets |-> j.targets, failed |-> j.failed]
    BY <1>1, <1>4, <1>7 DEF AfterSave, JobSet
  <2> QED
    BY <1>3, <1>7, <2>1 DEF Goes, Turns, j
<1>8. CASE j.kind = "poll" \/ (rest = <<>> /\ j.kind # "post" /\ ~ (j.kind = "dispatch" /\ j.value))
  <2>1. AfterSave(j) = Idle
    BY <1>1, <1>4, <1>8 DEF AfterSave, JobSet
  <2> QED
    BY <1>3, <1>8, <2>1 DEF Ends, Turns, Idle, Job, j
<1> QED
  BY <1>5, <1>6, <1>7, <1>8 DEF j

\* What follows a delivery, f being those that failed so far.
Follows(t, f) ==
    LET j == job[t]
        rest == Tail(j.todo)
    IN \/ rest # <<>> /\ Turns(t, j.kind, j.at, rest, j.value, j.targets, f)
       \/ rest = <<>> /\ f = <<>> /\ Ends(t)
       \/ rest = <<>> /\ f # <<>> /\ Turns(t, j.kind, "first", f, FALSE, j.targets, f)

LEMMA JobFields ==
    ASSUME NEW g \in JobSet
    PROVE  g = [kind |-> g.kind, at |-> g.at, todo |-> g.todo, value |-> g.value,
                targets |-> g.targets, failed |-> g.failed]
  BY DEF JobSet

LEMMA AfterDeliveryIs ==
    ASSUME NEW j \in JobSet, NEW f, NEW rest, NEW g \in JobSet,
           g.kind = j.kind, g.at = j.at, g.todo = rest, g.value = j.value,
           g.targets = j.targets, g.failed = f
    PROVE  AfterDelivery(g) =
              IF rest # <<>>
                THEN [kind |-> j.kind, at |-> j.at, todo |-> rest, value |-> j.value,
                      targets |-> j.targets, failed |-> f]
                ELSE IF f = <<>> THEN Idle
                ELSE [kind |-> j.kind, at |-> "first", todo |-> f, value |-> FALSE,
                      targets |-> j.targets, failed |-> f]
<1>1. g \in JobSet
  OBVIOUS
<1>2. /\ g.kind = j.kind /\ g.at = j.at /\ g.todo = rest /\ g.value = j.value
      /\ g.targets = j.targets /\ g.failed = f
  OBVIOUS
<1>3. CASE rest # <<>>
  <2>1. AfterDelivery(g) = g
    BY <1>2, <1>3 DEF AfterDelivery
  <2> QED
    BY <1>1, <1>2, <1>3, <2>1, JobFields
<1>4. CASE rest = <<>> /\ f = <<>>
  BY <1>2, <1>4 DEF AfterDelivery
<1>5. CASE rest = <<>> /\ f # <<>>
  <2>1. PICK h : h = [g EXCEPT !.at = "first", !.todo = g.failed, !.value = FALSE]
    OBVIOUS
  <2>2. AfterDelivery(g) = h
    BY <1>2, <1>5, <2>1 DEF AfterDelivery
  <2>3. h \in JobSet
    BY <1>1, <2>1 DEF JobSet
  <2>4. /\ h.kind = g.kind /\ h.at = "first" /\ h.todo = g.failed /\ h.value = FALSE
        /\ h.targets = g.targets /\ h.failed = g.failed
    BY <1>1, <2>1 DEF JobSet
  <2> QED
    BY <1>2, <1>5, <2>2, <2>3, <2>4, JobFields
<1> QED
  BY <1>3, <1>4, <1>5

LEMMA HandedMoves ==
    ASSUME Types, NEW t \in Threads, job[t].at = "deliver", NEW f \in Seq(Agents), Handed(t, f)
    PROVE  Follows(t, f)
<1> DEFINE j == job[t]
           rest == Tail(j.todo)
<1>1. /\ j \in JobSet /\ j.todo \in Seq(Agents) /\ j.todo # <<>>
      /\ DOMAIN job = Threads /\ rest \in Seq(Agents)
  BY HeadAndTail DEF Types, Jobs, Shape, JobSet
<1>2. PICK g : g = [j EXCEPT !.todo = rest, !.failed = f]
  OBVIOUS
<1>3. job' = [job EXCEPT ![t] = AfterDelivery(g)]
  BY <1>2 DEF Handed
<1>4. /\ job'[t] = AfterDelivery(g)
      /\ \A u \in Threads : u # t => job'[u] = job[u]
      /\ job' = [job EXCEPT ![t] = job'[t]]
  BY <1>1, <1>3
<1> HIDE DEF j, rest
<1>9. /\ g \in JobSet
      /\ g.kind = j.kind /\ g.at = j.at /\ g.todo = rest /\ g.value = j.value
      /\ g.targets = j.targets /\ g.failed = f
  BY <1>1, <1>2 DEF JobSet
<1>5. AfterDelivery(g) =
              IF rest # <<>>
                THEN [kind |-> j.kind, at |-> j.at, todo |-> rest, value |-> j.value,
                      targets |-> j.targets, failed |-> f]
                ELSE IF f = <<>> THEN Idle
                ELSE [kind |-> j.kind, at |-> "first", todo |-> f, value |-> FALSE,
                      targets |-> j.targets, failed |-> f]
  BY <1>1, <1>9, AfterDeliveryIs
<1>6. CASE rest # <<>>
  <2>1. Turns(t, j.kind, j.at, rest, j.value, j.targets, f)
    BY <1>4, <1>5, <1>6 DEF Turns
  <2> QED
    BY <1>6, <2>1 DEF Follows, j, rest
<1>7. CASE rest = <<>> /\ f = <<>>
  <2>1. Ends(t)
    BY <1>4, <1>5, <1>7 DEF Ends, Turns, Idle, Job
  <2> QED
    BY <1>7, <2>1 DEF Follows, j, rest
<1>8. CASE rest = <<>> /\ f # <<>>
  <2>1. Turns(t, j.kind, "first", f, FALSE, j.targets, f)
    BY <1>4, <1>5, <1>8 DEF Turns
  <2> QED
    BY <1>8, <2>1 DEF Follows, j, rest
<1> QED
  BY <1>6, <1>7, <1>8

\* A dispatch starts with its marks.
LEMMA BeginMoves ==
    ASSUME job \in [Threads -> JobSet], NEW t \in Threads, NEW l \in Lists, Begin(t, l)
    PROVE  Turns(t, "dispatch", "first", l, TRUE, l, <<>>)
  BY ListTypes DEF Begin, Turns, Job

\* A post, a notice and a poll start with their first write.
LEMMA OtherMoves ==
    ASSUME job \in [Threads -> JobSet], NEW t \in Threads
    PROVE  /\ \A a \in Agents : Post(t, a) => Turns(t, "post", "first", <<a, a>>, FALSE, <<>>, <<>>)
           /\ \A a \in Agents : Notice(t, a) =>
                 \E v \in BOOLEAN : /\ Turns(t, "notice", "first", <<a>>, v, <<>>, <<>>)
                                    /\ odds' = Worse(IF v THEN {} ELSE {a}, Crossed)
           /\ Poll(t) => \E l \in Seq(Agents) :
                           /\ l # <<>> /\ Expired(mark[Head(l)])
                           /\ Turns(t, "poll", "first", l, FALSE, <<>>, <<>>)
<1>1. DOMAIN job = Threads
  OBVIOUS
<1>2. ASSUME NEW a \in Agents, Post(t, a)
      PROVE  Turns(t, "post", "first", <<a, a>>, FALSE, <<>>, <<>>)
  BY <1>1, <1>2 DEF Post, Turns, Job
<1>3. ASSUME NEW a \in Agents, Notice(t, a)
      PROVE  \E v \in BOOLEAN : /\ Turns(t, "notice", "first", <<a>>, v, <<>>, <<>>)
                                /\ odds' = Worse(IF v THEN {} ELSE {a}, Crossed)
  <2>1. PICK v \in BOOLEAN : /\ job' = [job EXCEPT ![t] = Job("notice", "first", <<a>>, v)]
                             /\ odds' = Worse(IF v THEN {} ELSE {a}, Crossed)
    BY <1>3 DEF Notice
  <2>2. Turns(t, "notice", "first", <<a>>, v, <<>>, <<>>)
    BY <1>1, <2>1 DEF Turns, Job
  <2> QED
    BY <2>1, <2>2
<1>4. ASSUME Poll(t)
      PROVE  \E l \in Seq(Agents) :
                /\ l # <<>> /\ Expired(mark[Head(l)])
                /\ Turns(t, "poll", "first", l, FALSE, <<>>, <<>>)
  <2> DEFINE l == Overdue(Roster)
  <2>1. l \in Seq(Agents) /\ (l # <<>> => Expired(mark[Head(l)]))
    BY RosterType, OverdueBegins
  <2>2. l # <<>> /\ job' = [job EXCEPT ![t] = Job("poll", "first", l, FALSE)]
    BY <1>4 DEF Poll
  <2> HIDE DEF l
  <2>3. Turns(t, "poll", "first", l, FALSE, <<>>, <<>>)
    BY <1>1, <2>2 DEF Turns, Job
  <2> QED
    BY <2>1, <2>2, <2>3
<1> QED
  BY <1>2, <1>3, <1>4

\* The agent a request is to write next, and those after it.
LEMMA CurrentAgent ==
    ASSUME Types, NEW t \in Threads, job[t].at # "idle"
    PROVE  /\ Current(t) \in Agents /\ Tail(job[t].todo) \in Seq(Agents)
           /\ Range(job[t].todo) = {Current(t)} \cup Range(Tail(job[t].todo))
           /\ Range(job[t].todo) \subseteq Agents
           /\ IsInjective(job[t].todo) =>
                IsInjective(Tail(job[t].todo)) /\ Current(t) \notin Range(Tail(job[t].todo))
<1>1. job[t].todo \in Seq(Agents) /\ job[t].todo # <<>>
  BY DEF Types, Jobs, Shape, JobSet
<1> QED
  BY <1>1, HeadAndTail DEF Current

-----------------------------------------------------------------------------
(* Every step keeps the types.                                             *)

LEMMA TurnsKeepJobs ==
    ASSUME Jobs, NEW t \in Threads,
           NEW kind, NEW at, NEW todo, NEW value, NEW targets, NEW failed,
           Turns(t, kind, at, todo, value, targets, failed),
           [kind |-> kind, at |-> at, todo |-> todo, value |-> value,
            targets |-> targets, failed |-> failed] \in JobSet,
           Shape([kind |-> kind, at |-> at, todo |-> todo, value |-> value,
                  targets |-> targets, failed |-> failed])
    PROVE  Jobs'
<1>1. job' \in [Threads -> JobSet]
  BY DEF Jobs, Turns
<1>2. ASSUME NEW u \in Threads PROVE Shape(job'[u])
  BY DEF Jobs, Turns
<1> QED
  BY <1>1, <1>2 DEF Jobs

LEMMA EndKeepsJobs ==
    ASSUME Jobs, NEW t \in Threads, Ends(t)
    PROVE  Jobs'
<1> DEFINE r == [kind |-> "none", at |-> "idle", todo |-> <<>>, value |-> FALSE,
                 targets |-> <<>>, failed |-> <<>>]
<1>1. r \in JobSet /\ Shape(r)
  BY DEF JobSet, Shape
<1> QED
  BY <1>1, TurnsKeepJobs DEF Ends

LEMMA GoesKeepsJobs ==
    ASSUME Jobs, NEW t \in Threads, NEW at, NEW todo, Goes(t, at, todo),
           at \in {"first", "second", "save", "dump", "route"}, todo \in Seq(Agents), todo # <<>>,
           job[t].at \notin {"idle", "deliver"},
           at = "route" => job[t].kind = "post",
           job[t].kind = "dispatch" => Range(todo) \subseteq Range(job[t].todo)
    PROVE  Jobs'
<1> DEFINE r == [kind |-> job[t].kind, at |-> at, todo |-> todo, value |-> job[t].value,
                 targets |-> job[t].targets, failed |-> job[t].failed]
<1>1. job[t] \in JobSet /\ Shape(job[t])
  BY DEF Jobs
<1>2. r \in JobSet
  BY <1>1 DEF JobSet
<1>3. job[t].kind = "dispatch" => DispatchShape(r)
  BY <1>1 DEF DispatchShape, Shape
<1>4. Shape(r)
  BY <1>1, <1>3 DEF Shape
<1> HIDE DEF r
<1> QED
  BY <1>2, <1>4, TurnsKeepJobs DEF Goes, r

\* Every step of a request leaves it at a place that it can be at.
LEMMA WritesKeepJobs ==
    ASSUME Types, NEW t \in Threads, First(t) \/ Second(t) \/ SaveOpen(t)
    PROVE  Jobs'
<1>1. job[t] \in JobSet /\ Shape(job[t]) /\ Jobs /\ job \in [Threads -> JobSet]
  BY DEF Types, Jobs
<1>2. job[t].todo \in Seq(Agents) /\ job[t].todo # <<>> /\ job[t].at \notin {"idle", "deliver"}
  BY <1>1 DEF Shape, JobSet, First, Second, SaveOpen
<1>3. CASE First(t)
  BY <1>1, <1>2, <1>3, Writes, GoesKeepsJobs
<1>4. CASE SaveOpen(t)
  BY <1>1, <1>2, <1>4, Writes, GoesKeepsJobs
<1>5. CASE Second(t)
  <2>1. CASE Goes(t, "save", job[t].todo)
    BY <1>1, <1>2, <2>1, GoesKeepsJobs
  <2>2. CASE /\ job[t].kind = "poll"
             /\ \E rest \in Seq(Agents) :
                   rest # <<>> /\ Expired(mark[Head(rest)]) /\ Goes(t, "first", rest)
    BY <1>1, <1>2, <2>2, GoesKeepsJobs
  <2> QED
    BY <1>5, <2>1, <2>2, SecondMoves
<1> QED
  BY <1>3, <1>4, <1>5

LEMMA SaveKeepsJobs ==
    ASSUME Types, NEW t \in Threads, SaveClose(t)
    PROVE  Jobs'
<1> DEFINE j == job[t]
           rest == Tail(j.todo)
<1>1. j \in JobSet /\ Shape(j) /\ Jobs /\ job \in [Threads -> JobSet]
  BY DEF Types, Jobs
<1>2. j.todo \in Seq(Agents) /\ j.todo # <<>> /\ j.at = "dump"
  BY <1>1 DEF Shape, JobSet, SaveClose
<1>3. rest \in Seq(Agents) /\ Range(rest) \subseteq Range(j.todo)
  BY <1>2, HeadAndTail
<1>4. CASE j.kind # "poll" /\ rest # <<>> /\ Goes(t, "first", rest)
  BY <1>1, <1>2, <1>3, <1>4, GoesKeepsJobs
<1>5. CASE rest = <<>> /\ j.kind = "dispatch" /\ j.value /\ Goes(t, "deliver", j.targets)
  <2> DEFINE r == [kind |-> j.kind, at |-> "deliver", todo |-> j.targets, value |-> j.value,
                   targets |-> j.targets, failed |-> j.failed]
  <2>1. r \in JobSet
    BY <1>1 DEF JobSet
  <2>2. j.targets \in Lists /\ j.failed = <<>>
    BY <1>1, <1>2, <1>5 DEF Shape, DispatchShape
  <2>3. IsInjective(j.targets) /\ j.targets # <<>> /\ Range(<<>>) = {}
    BY <2>2, ListTypes DEF Range
  <2>4. Shape(r)
    BY <1>5, <2>2, <2>3 DEF Shape, DispatchShape
  <2> HIDE DEF r, j
  <2> QED
    BY <1>1, <1>5, <2>1, <2>4, TurnsKeepJobs DEF Goes, r, j
<1>6. CASE rest = <<>> /\ j.kind = "post" /\ Goes(t, "route", j.todo)
  BY <1>1, <1>2, <1>6, GoesKeepsJobs
<1>7. CASE Ends(t)
  BY <1>1, <1>7, EndKeepsJobs
<1> QED
  BY <1>4, <1>5, <1>6, <1>7, SaveMoves

LEMMA FollowsKeepsJobs ==
    ASSUME Types, NEW t \in Threads, job[t].at = "deliver",
           NEW f \in {job[t].failed, Append(job[t].failed, Head(job[t].todo))}, Follows(t, f)
    PROVE  Jobs'
<1> DEFINE j == job[t]
           rest == Tail(j.todo)
<1>1. j \in JobSet /\ Shape(j) /\ Jobs /\ job \in [Threads -> JobSet]
  BY DEF Types, Jobs
<1>2. /\ j.todo \in Seq(Agents) /\ j.todo # <<>> /\ j.failed \in Seq(Agents)
      /\ j.kind = "dispatch" /\ j.value /\ DispatchShape(j) /\ j.targets \in Seq(Agents)
  BY <1>1 DEF Shape, JobSet
<1>3. /\ Head(j.todo) \in Agents /\ rest \in Seq(Agents)
      /\ Range(j.todo) = {Head(j.todo)} \cup Range(rest)
      /\ IsInjective(rest) /\ Head(j.todo) \notin Range(rest)
  BY <1>2, HeadAndTail DEF DispatchShape
<1>4. f \in Seq(Agents) /\ Range(f) \subseteq Range(j.failed) \cup {Head(j.todo)}
  <2>1. CASE f = j.failed
    BY <1>2, <2>1
  <2>2. CASE f = Append(j.failed, Head(j.todo))
    BY <1>2, <1>3, <2>2, RangeAppend
  <2> QED
    BY <2>1, <2>2
<1>5. Range(f) \subseteq Range(j.targets) /\ Range(rest) \cap Range(f) = {}
  BY <1>2, <1>3, <1>4 DEF DispatchShape
<1>6. CASE rest # <<>> /\ Turns(t, j.kind, j.at, rest, j.value, j.targets, f)
  <2> DEFINE r == [kind |-> j.kind, at |-> j.at, todo |-> rest, value |-> j.value,
                   targets |-> j.targets, failed |-> f]
  <2>1. r \in JobSet
    BY <1>1, <1>3, <1>4 DEF JobSet
  <2>2. DispatchShape(r)
    BY <1>2, <1>3, <1>5 DEF DispatchShape
  <2>3. Shape(r)
    BY <1>2, <1>6, <2>2 DEF Shape
  <2> HIDE DEF r, j, rest
  <2> QED
    BY <1>1, <1>6, <2>1, <2>3, TurnsKeepJobs DEF r
<1>7. CASE f # <<>> /\ Turns(t, j.kind, "first", f, FALSE, j.targets, f)
  <2> DEFINE r == [kind |-> j.kind, at |-> "first", todo |-> f, value |-> FALSE,
                   targets |-> j.targets, failed |-> f]
  <2>1. r \in JobSet
    BY <1>1, <1>4 DEF JobSet
  <2>2. DispatchShape(r)
    BY <1>2, <1>5 DEF DispatchShape
  <2>3. Shape(r)
    BY <1>2, <1>7, <2>2 DEF Shape
  <2> HIDE DEF r, j, rest
  <2> QED
    BY <1>1, <1>7, <2>1, <2>3, TurnsKeepJobs DEF r
<1>8. CASE Ends(t)
  BY <1>1, <1>8, EndKeepsJobs
<1> QED
  BY <1>6, <1>7, <1>8 DEF Follows

LEMMA BeginKeepsJobs ==
    ASSUME Types, NEW t \in Threads, NEW l \in Lists, Begin(t, l)
    PROVE  Jobs'
<1> DEFINE r == [kind |-> "dispatch", at |-> "first", todo |-> l, value |-> TRUE,
                 targets |-> l, failed |-> <<>>]
<1>1. Turns(t, "dispatch", "first", l, TRUE, l, <<>>) /\ Jobs
  BY BeginMoves DEF Types, Jobs
<1>2. l \in Seq(Agents) /\ l # <<>> /\ Range(<<>>) = {}
  BY ListTypes DEF Range
<1>3. r \in JobSet /\ Shape(r)
  BY <1>2 DEF JobSet, Shape, DispatchShape
<1> HIDE DEF r
<1> QED
  BY <1>1, <1>3, TurnsKeepJobs DEF r

LEMMA StartKeepsJobs ==
    ASSUME Jobs, NEW t \in Threads, NEW kind \in {"post", "notice", "poll"},
           NEW l \in Seq(Agents), NEW v \in BOOLEAN, l # <<>>, kind # "notice" => ~v,
           Turns(t, kind, "first", l, v, <<>>, <<>>)
    PROVE  Jobs'
<1> DEFINE r == [kind |-> kind, at |-> "first", todo |-> l, value |-> v,
                 targets |-> <<>>, failed |-> <<>>]
<1>1. r \in JobSet /\ Shape(r)
  BY DEF JobSet, Shape
<1> HIDE DEF r
<1> QED
  BY <1>1, TurnsKeepJobs DEF r

LEMMA OthersKeepJobs ==
    ASSUME Types, NEW t \in Threads,
           Poll(t) \/ \E a \in Agents : Post(t, a) \/ Notice(t, a)
    PROVE  Jobs'
<1>1. Jobs /\ job \in [Threads -> JobSet]
  BY DEF Types, Jobs
<1>2. CASE Poll(t)
  <2>1. PICK l \in Seq(Agents) : l # <<>> /\ Turns(t, "poll", "first", l, FALSE, <<>>, <<>>)
    BY <1>1, <1>2, OtherMoves
  <2> QED
    BY <1>1, <2>1, StartKeepsJobs
<1>3. ASSUME NEW a \in Agents, Post(t, a) PROVE Jobs'
  BY <1>1, <1>3, OneAgent, OtherMoves, StartKeepsJobs
<1>4. ASSUME NEW a \in Agents, Notice(t, a) PROVE Jobs'
  <2>1. PICK v \in BOOLEAN : Turns(t, "notice", "first", <<a>>, v, <<>>, <<>>)
    BY <1>1, <1>4, OtherMoves
  <2>2. <<a>> \in Seq(Agents) /\ <<a>> # <<>>
    BY OneAgent
  <2> DEFINE l == <<a>>
  <2> HIDE DEF l
  <2>3. Turns(t, "notice", "first", l, v, <<>>, <<>>) /\ l \in Seq(Agents) /\ l # <<>>
    BY <2>1, <2>2 DEF l
  <2>4. "notice" \in {"post", "notice", "poll"} /\ ("notice" # "notice" => ~v)
    OBVIOUS
  <2> QED
    BY ONLY <1>1, <2>3, <2>4, StartKeepsJobs, v \in BOOLEAN, t \in Threads
<1> QED
  BY <1>2, <1>3, <1>4

\* What happens about an agent is remembered.
LEMMA WorseIs ==
    ASSUME odds \in [Agents -> Plain..Torn], NEW S, NEW odd \in Plain..Torn
    PROVE  /\ Worse(S, odd) \in [Agents -> Plain..Torn]
           /\ \A a \in Agents : /\ odds[a] <= Worse(S, odd)[a]
                                /\ a \in S => odd <= Worse(S, odd)[a]
  BY DEF Worse, Plain, Torn

\* The two fields of a mark, and time.
LEMMA MarkTypes ==
    ASSUME NEW m \in [Agents -> Marks]
    PROVE  /\ \A a \in Agents, v \in BOOLEAN :
                 /\ [m EXCEPT ![a].typing = v] \in [Agents -> Marks]
                 /\ [m EXCEPT ![a].typing = v][a].typing = v
                 /\ [m EXCEPT ![a].typing = v][a].since = m[a].since
                 /\ \A b \in Agents : b # a => [m EXCEPT ![a].typing = v][b] = m[b]
           /\ \A a \in Agents, s \in {"none", "fresh", "old"} :
                 /\ [m EXCEPT ![a].since = s] \in [Agents -> Marks]
                 /\ [m EXCEPT ![a].since = s][a].typing = m[a].typing
                 /\ [m EXCEPT ![a].since = s][a].since = s
                 /\ \A b \in Agents : b # a => [m EXCEPT ![a].since = s][b] = m[b]
           /\ Aged(m) \in [Agents -> Marks]
           /\ \A a \in Agents : /\ Aged(m)[a].typing = m[a].typing
                                /\ Aged(m)[a].since = IF m[a].since = "fresh" THEN "old" ELSE m[a].since
<1>1. ASSUME NEW a \in Agents, NEW v \in BOOLEAN
      PROVE  /\ [m EXCEPT ![a].typing = v] \in [Agents -> Marks]
             /\ [m EXCEPT ![a].typing = v][a].typing = v
             /\ [m EXCEPT ![a].typing = v][a].since = m[a].since
             /\ \A b \in Agents : b # a => [m EXCEPT ![a].typing = v][b] = m[b]
  BY DEF Marks
<1>2. ASSUME NEW a \in Agents, NEW s \in {"none", "fresh", "old"}
      PROVE  /\ [m EXCEPT ![a].since = s] \in [Agents -> Marks]
             /\ [m EXCEPT ![a].since = s][a].typing = m[a].typing
             /\ [m EXCEPT ![a].since = s][a].since = s
             /\ \A b \in Agents : b # a => [m EXCEPT ![a].since = s][b] = m[b]
  BY DEF Marks
<1>3. ASSUME NEW a \in Agents
      PROVE  LET x == [m[a] EXCEPT !.since = IF m[a].since = "fresh" THEN "old" ELSE m[a].since]
             IN /\ x \in Marks /\ x.typing = m[a].typing
                /\ x.since = IF m[a].since = "fresh" THEN "old" ELSE m[a].since
  BY DEF Marks
<1>4. /\ Aged(m) \in [Agents -> Marks]
      /\ \A a \in Agents : /\ Aged(m)[a].typing = m[a].typing
                           /\ Aged(m)[a].since = IF m[a].since = "fresh" THEN "old" ELSE m[a].since
  BY <1>3 DEF Aged
<1> QED
  BY <1>1, <1>2, <1>4

\* odds only get worse, but for a restart from the file.
Remembers == odds' \in [Agents -> Plain..Torn] /\ \A a \in Agents : odds[a] <= odds'[a]

\* What a write of a field does to the mark, and to what is remembered of it.
LEMMA TouchDoes ==
    ASSUME Types, NEW t \in Threads, NEW a \in Agents, Touch(t, a)
    PROVE  /\ Remembers
           /\ \A u \in Threads : u # t /\ Between(u, a) => odds'[a] = Torn
<1> DEFINE S == IF \E u \in Threads \ {t} : Between(u, a) THEN {a} ELSE {}
<1>1. odds \in [Agents -> Plain..Torn] /\ Torn \in Plain..Torn
  BY DEF Types, Plain, Torn
<1>2. odds' = Worse(S, Torn)
  BY DEF Touch
<1>3. \A u \in Threads : u # t /\ Between(u, a) => a \in S
  OBVIOUS
<1> HIDE DEF S
<1>4. Remembers /\ (a \in S => Torn <= odds'[a])
  BY <1>1, <1>2, WorseIs DEF Remembers
<1>5. \A n \in Plain..Torn : Torn <= n => n = Torn
  BY DEF Plain, Torn
<1> QED
  BY <1>3, <1>4, <1>5 DEF Remembers

LEMMA FirstDoes ==
    ASSUME Types, NEW t \in Threads, First(t)
    PROVE  LET c == Current(t)
           IN /\ c \in Agents /\ job[t].value \in BOOLEAN /\ Goes(t, "second", job[t].todo)
              /\ mark' \in [Agents -> Marks]
              /\ mark'[c].typing = job[t].value /\ mark'[c].since = mark[c].since
              /\ \A b \in Agents : b # c => mark'[b] = mark[b]
              /\ Remembers
              /\ \A u \in Threads : u # t /\ Between(u, c) => odds'[c] = Torn
<1>1. job \in [Threads -> JobSet] /\ job[t].value \in BOOLEAN /\ job[t].at # "idle"
  BY DEF Types, Jobs, JobSet, First
<1>2. Current(t) \in Agents
  BY <1>1, CurrentAgent
<1>3. mark' = [mark EXCEPT ![Current(t)].typing = job[t].value] /\ mark \in [Agents -> Marks]
  BY DEF First, Types
<1>4. Goes(t, "second", job[t].todo)
  BY <1>1, Writes
<1>5. Touch(t, Current(t))
  BY DEF First
<1> QED
  BY <1>1, <1>2, <1>3, <1>4, <1>5, MarkTypes, TouchDoes

LEMMA SecondDoes ==
    ASSUME Types, NEW t \in Threads, Second(t)
    PROVE  LET c == Current(t)
           IN /\ c \in Agents /\ job[t].value \in BOOLEAN
              /\ mark' \in [Agents -> Marks]
              /\ mark'[c].since = IF job[t].value THEN "fresh" ELSE "none"
              /\ mark'[c].typing = mark[c].typing
              /\ \A b \in Agents : b # c => mark'[b] = mark[b]
              /\ Remembers
              /\ \A u \in Threads : u # t /\ Between(u, c) => odds'[c] = Torn
<1>1. job \in [Threads -> JobSet] /\ job[t].value \in BOOLEAN /\ job[t].at # "idle"
  BY DEF Types, Jobs, JobSet, Second
<1>2. Current(t) \in Agents
  BY <1>1, CurrentAgent
<1> DEFINE s == IF job[t].value THEN "fresh" ELSE "none"
<1>3. mark' = [mark EXCEPT ![Current(t)].since = s] /\ mark \in [Agents -> Marks]
  BY DEF Second, Types
<1>4. Touch(t, Current(t))
  BY DEF Second
<1>5. s \in {"none", "fresh", "old"}
  OBVIOUS
<1> HIDE DEF s
<1>6. /\ mark' \in [Agents -> Marks]
      /\ mark'[Current(t)].since = s /\ mark'[Current(t)].typing = mark[Current(t)].typing
      /\ \A b \in Agents : b # Current(t) => mark'[b] = mark[b]
  <2>1. PICK c \in Agents : c = Current(t)
    BY <1>2
  <2>2. mark' = [mark EXCEPT ![c].since = s]
    BY <1>3, <2>1
  <2> QED
    BY ONLY <1>3, <1>5, <2>1, <2>2 DEF Marks
<1>7. mark'[Current(t)].since = IF job[t].value THEN "fresh" ELSE "none"
  BY <1>6 DEF s
<1>8. Remembers /\ \A u \in Threads : u # t /\ Between(u, Current(t)) => odds'[Current(t)] = Torn
  BY <1>2, <1>4, TouchDoes
<1> QED
  BY ONLY <1>1, <1>2, <1>6, <1>7, <1>8

\* Handing the message over, or failing to.
LEMMA HandDoes ==
    ASSUME Types, NEW t \in Threads
    PROVE  LET c == Current(t)
               j == job[t]
           IN /\ Delivered(t) =>
                   /\ j.at = "deliver" /\ c \in Agents /\ Follows(t, j.failed) /\ Jobs'
                   /\ work' \in [Agents -> Nat] /\ work'[c] = work[c] + 1
                   /\ \A b \in Agents : b # c => work'[b] = work[b]
                   /\ odds' = odds
              /\ Undelivered(t) =>
                   /\ j.at = "deliver" /\ c \in Agents /\ Follows(t, Append(j.failed, c)) /\ Jobs'
                   /\ odds' = odds /\ work' = work
              /\ TimedOut(t) =>
                   /\ j.at = "deliver" /\ c \in Agents /\ Follows(t, Append(j.failed, c)) /\ Jobs'
                   /\ work' \in [Agents -> Nat] /\ work'[c] = work[c] + 1
                   /\ \A b \in Agents : b # c => work'[b] = work[b]
                   /\ Remembers /\ Crossed <= odds'[c]
<1> DEFINE c == Current(t)
           j == job[t]
<1>1. work \in [Agents -> Nat] /\ odds \in [Agents -> Plain..Torn] /\ Crossed \in Plain..Torn
  BY DEF Types, Plain, Crossed, Torn
<1>2. ASSUME j.at = "deliver"
      PROVE  /\ c \in Agents /\ c = Head(j.todo)
             /\ j.failed \in Seq(Agents) /\ Append(j.failed, c) \in Seq(Agents)
  <2>1. c \in Agents /\ c = Head(j.todo)
    BY <1>2, CurrentAgent DEF Current
  <2>2. j.failed \in Seq(Agents)
    BY DEF Types, Jobs, JobSet
  <2> HIDE DEF c, j
  <2> QED
    BY <2>1, <2>2, RangeAppend
<1>3. ASSUME NEW b \in Agents, work' = [work EXCEPT ![b] = @ + 1]
      PROVE  /\ work' \in [Agents -> Nat] /\ work'[b] = work[b] + 1
             /\ \A a \in Agents : a # b => work'[a] = work[a]
  BY <1>1, <1>3
<1>4. ASSUME Delivered(t)
      PROVE  /\ j.at = "deliver" /\ Follows(t, j.failed) /\ Jobs'
             /\ work' = [work EXCEPT ![c] = @ + 1] /\ odds' = odds
  <2>1. /\ j.at = "deliver" /\ Handed(t, j.failed)
        /\ work' = [work EXCEPT ![c] = @ + 1] /\ odds' = odds
    BY <1>4 DEF Delivered, historyVars
  <2>2. Follows(t, j.failed)
    BY <1>2, <2>1, HandedMoves
  <2>3. Jobs'
    BY <1>2, <2>1, <2>2, FollowsKeepsJobs
  <2> QED
    BY <2>1, <2>2, <2>3
<1>5. ASSUME Undelivered(t)
      PROVE  j.at = "deliver" /\ Follows(t, Append(j.failed, c)) /\ Jobs' /\ odds' = odds /\ work' = work
  <2>1. j.at = "deliver" /\ Handed(t, Append(j.failed, c)) /\ odds' = odds /\ work' = work
    BY <1>5 DEF Undelivered, historyVars
  <2>2. Follows(t, Append(j.failed, c))
    BY <1>2, <2>1, HandedMoves
  <2>3. Jobs'
    BY <1>2, <2>1, <2>2, FollowsKeepsJobs
  <2> QED
    BY <2>1, <2>2, <2>3
<1>6. ASSUME TimedOut(t)
      PROVE  /\ j.at = "deliver" /\ Follows(t, Append(j.failed, c)) /\ Jobs'
             /\ work' = [work EXCEPT ![c] = @ + 1] /\ Remembers /\ Crossed <= odds'[c]
  <2>1. /\ j.at = "deliver" /\ Handed(t, Append(j.failed, c))
        /\ work' = [work EXCEPT ![c] = @ + 1] /\ odds' = Worse({c}, Crossed)
    BY <1>6 DEF TimedOut
  <2>2. Follows(t, Append(j.failed, c))
    BY <1>2, <2>1, HandedMoves
  <2>3. Jobs'
    BY <1>2, <2>1, <2>2, FollowsKeepsJobs
  <2>4. Remembers /\ Crossed <= odds'[c]
    BY <1>1, <1>2, <2>1, WorseIs DEF Remembers
  <2> QED
    BY <2>1, <2>2, <2>3, <2>4
<1> HIDE DEF c, j
<1>7. Delivered(t) => c \in Agents
  BY <1>2, <1>4
<1>8. Undelivered(t) => c \in Agents
  BY <1>2, <1>5
<1>9. TimedOut(t) => c \in Agents
  BY <1>2, <1>6
<1> QED
  BY <1>3, <1>4, <1>5, <1>6, <1>7, <1>8, <1>9 DEF c, j

\* A dispatch begins: it is paid for, and remembered of those with work to do
\* or requests about them.
LEMMA BeginDoes ==
    ASSUME Types, NEW t \in Threads, NEW l \in Lists, Begin(t, l)
    PROVE  /\ Turns(t, "dispatch", "first", l, TRUE, l, <<>>) /\ Jobs'
           /\ l \in Seq(Agents) /\ l # <<>> /\ IsInjective(l)
           /\ calls' \in 0..MaxCalls /\ calls + 1 <= calls'
           /\ Remembers
           /\ \A a \in Range(l) : odds'[a] = Plain =>
                 work[a] = 0 /\ \A u \in Threads : ~About(u, a)
<1> DEFINE S == {a \in Range(l) : work[a] > 0 \/ \E u \in Threads : About(u, a)}
<1>1. /\ job \in [Threads -> JobSet] /\ odds \in [Agents -> Plain..Torn] /\ Crossed \in Plain..Torn
      /\ work \in [Agents -> Nat] /\ calls \in 0..MaxCalls
  BY DEF Types, Jobs, Plain, Crossed, Torn
<1>2. Turns(t, "dispatch", "first", l, TRUE, l, <<>>) /\ Jobs'
  BY <1>1, BeginMoves, BeginKeepsJobs
<1>3. l \in Seq(Agents) /\ l # <<>> /\ IsInjective(l) /\ Len(l) >= 1 /\ Range(l) \subseteq Agents
  BY ListTypes, HeadAndTail
<1>4. calls' \in 0..MaxCalls /\ calls + 1 <= calls'
  <2>1. calls' = calls + Len(l) /\ calls' <= MaxCalls /\ Len(l) \in Nat /\ MaxCalls \in Nat
    BY <1>3, StatusAssumption DEF Begin
  <2>2. \A m, n, k \in Nat : n >= 1 /\ m + n <= k => m + n \in 0..k /\ m + 1 <= m + n
    OBVIOUS
  <2>3. calls \in Nat
    BY <1>1, <2>1
  <2> QED
    BY <1>3, <2>1, <2>2, <2>3
<1>5. odds' = Worse(S, Crossed)
  BY DEF Begin
<1> HIDE DEF S
<1>6. Remembers /\ \A a \in Agents : a \in S => Crossed <= odds'[a]
  BY <1>1, <1>5, WorseIs DEF Remembers
<1>7. ASSUME NEW a \in Range(l), odds'[a] = Plain
      PROVE  work[a] = 0 /\ \A u \in Threads : ~About(u, a)
  <2>1. a \notin S
    BY <1>3, <1>6, <1>7 DEF Plain, Crossed
  <2>2. work[a] \in Nat
    BY <1>1, <1>3
  <2> QED
    BY <2>1, <2>2 DEF S
<1> QED
  BY <1>2, <1>3, <1>4, <1>6, <1>7

\* A request that dies in the middle is remembered of those it leaves unsettled.
LEMMA AbortDoes ==
    ASSUME Types, NEW t \in Threads, SaveFails(t) \/ DispatcherRaises(t)
    PROVE  /\ Ends(t) /\ Jobs' /\ Remembers /\ job[t].at \in {"dump", "deliver"}
           /\ \A a \in Agents : a \in Unsettled(t) => Aborted <= odds'[a]
<1>1. /\ job \in [Threads -> JobSet] /\ Jobs
      /\ odds \in [Agents -> Plain..Torn] /\ Aborted \in Plain..Torn
  BY DEF Types, Jobs, Plain, Aborted, Torn
<1>2. End(t) /\ odds' = Worse(Unsettled(t), Aborted) /\ job[t].at \in {"dump", "deliver"}
  BY DEF SaveFails, DispatcherRaises
<1>3. Ends(t)
  BY <1>1, <1>2, Writes
<1> QED
  BY <1>1, <1>2, <1>3, EndKeepsJobs, WorseIs DEF Remembers

LEMMA TimeDoes ==
    ASSUME Types, TimePasses
    PROVE  /\ mark' \in [Agents -> Marks] /\ stored' \in [Agents -> Marks] /\ dump' \in [Agents -> Marks]
           /\ copy' \in [Agents -> Marks] \cup {NoMarks}
           /\ mark' = Aged(mark) /\ stored' = Aged(stored) /\ dump' = Aged(dump)
           /\ \A a \in Agents :
                 /\ mark'[a].typing = mark[a].typing
                 /\ mark'[a].since = IF mark[a].since = "fresh" THEN "old" ELSE mark[a].since
           /\ Remembers
           /\ \A a \in Agents : mark[a].typing => Crossed <= odds'[a]
           /\ job' = job /\ work' = work /\ lock' = lock /\ calls' = calls /\ unsaved' = unsaved
<1>1. /\ mark \in [Agents -> Marks] /\ stored \in [Agents -> Marks] /\ dump \in [Agents -> Marks]
      /\ copy \in [Agents -> Marks] \cup {NoMarks}
      /\ odds \in [Agents -> Plain..Torn] /\ Crossed \in Plain..Torn
  BY DEF Types, Plain, Crossed, Torn
<1>2. /\ mark' = Aged(mark) /\ stored' = Aged(stored) /\ dump' = Aged(dump)
      /\ copy' = IF copy = NoMarks THEN NoMarks ELSE Aged(copy)
      /\ odds' = Worse({a \in Agents : mark[a].typing}, Crossed)
      /\ job' = job /\ work' = work /\ lock' = lock /\ calls' = calls /\ unsaved' = unsaved
  BY DEF TimePasses, countVars
<1>3. Remembers /\ \A a \in Agents : a \in {b \in Agents : mark[b].typing} => Crossed <= odds'[a]
  BY <1>1, <1>2, WorseIs DEF Remembers
<1> QED
  BY <1>1, <1>2, <1>3, MarkTypes

\* A restart from the file.
LEMMA CrashDoes ==
    ASSUME Types, Crash
    PROVE  /\ mark' = stored /\ dump' = stored /\ stored' = stored /\ copy' = copy
           /\ Jobs' /\ \A t \in Threads : job'[t] = Idle
           /\ Remembers /\ work' = work /\ calls' = calls /\ lock' = NoThread
           /\ \A a \in Agents :
                 /\ odds'[a] < Torn => ~ (stored[a].typing /\ stored[a].since = "none")
                 /\ odds'[a] < Aborted => mark'[a] = mark[a] /\ \A t \in Threads : a \notin Unsettled(t)
<1> DEFINE undone == {a \in Agents : stored[a] # mark[a]} \cup UNION {Unsettled(t) : t \in Threads}
           undated == {a \in Agents : stored[a].typing /\ stored[a].since = "none"}
<1>1. odds \in [Agents -> Plain..Torn] /\ Aborted \in Plain..Torn /\ Torn \in Plain..Torn
  BY DEF Types, Plain, Aborted, Torn
<1>2. /\ mark' = stored /\ dump' = stored /\ stored' = stored /\ copy' = copy
      /\ job' = [t \in Threads |-> Idle] /\ work' = work /\ calls' = calls /\ lock' = NoThread
      /\ odds' = [a \in Agents |-> IF a \in undated THEN Torn ELSE Worse(undone, Aborted)[a]]
  BY DEF Crash
<1>3. Jobs'
  <2>1. Idle \in JobSet /\ Shape(Idle)
    BY DEF Idle, Job, JobSet, Shape
  <2> QED
    BY <1>2, <2>1 DEF Jobs
<1>4. \A a \in Agents : a \notin undone =>
        mark'[a] = mark[a] /\ \A t \in Threads : a \notin Unsettled(t)
  BY <1>2
<1>5. \A a \in Agents : a \notin undated => ~ (stored[a].typing /\ stored[a].since = "none")
  OBVIOUS
<1> HIDE DEF undone, undated
<1>6. /\ Worse(undone, Aborted) \in [Agents -> Plain..Torn]
      /\ \A a \in Agents : /\ odds[a] <= Worse(undone, Aborted)[a]
                           /\ a \in undone => Aborted <= Worse(undone, Aborted)[a]
  BY <1>1, WorseIs
<1>7. Remembers
  BY <1>1, <1>2, <1>6 DEF Remembers, Plain, Torn
<1>8. ASSUME NEW a \in Agents
      PROVE  /\ odds'[a] < Torn => a \notin undated
             /\ odds'[a] < Aborted => a \notin undone
  <2>1. odds'[a] = IF a \in undated THEN Torn ELSE Worse(undone, Aborted)[a]
    BY <1>2
  <2>2. Worse(undone, Aborted)[a] \in Plain..Torn /\ (a \in undone => Aborted <= Worse(undone, Aborted)[a])
    BY <1>6
  <2> QED
    BY <2>1, <2>2 DEF Plain, Aborted, Torn
<1> QED
  BY <1>2, <1>3, <1>4, <1>5, <1>7, <1>8

\* The agents' requests, and polls.
LEMMA OthersDo ==
    ASSUME Types, NEW t \in Threads
    PROVE  /\ \A a \in Agents : Post(t, a) =>
                 /\ Turns(t, "post", "first", <<a, a>>, FALSE, <<>>, <<>>) /\ Jobs' /\ Quiet(a)
                 /\ job[t].at = "idle" /\ lock = NoThread /\ lock' = t
                 /\ work' \in [Agents -> Nat] /\ work'[a] <= work[a]
                 /\ odds'[a] = Plain => work[a] = work'[a] + 1
                 /\ \A b \in Agents : b # a => work'[b] = work[b]
                 /\ mark' = mark /\ Remembers /\ calls' \in 0..MaxCalls /\ calls <= calls'
           /\ \A a \in Agents : Notice(t, a) =>
                 /\ \E v \in BOOLEAN : /\ Turns(t, "notice", "first", <<a>>, v, <<>>, <<>>)
                                       /\ odds'[a] = Plain => v
                 /\ Jobs' /\ Quiet(a) /\ job[t].at = "idle" /\ work[a] > 0 /\ Remembers
                 /\ mark' = mark /\ work' = work /\ calls' \in 0..MaxCalls /\ calls <= calls'
           /\ Poll(t) =>
                 /\ \E l \in Seq(Agents) : /\ l # <<>> /\ Expired(mark[Head(l)])
                                           /\ Turns(t, "poll", "first", l, FALSE, <<>>, <<>>)
                 /\ Jobs' /\ job[t].at = "idle"
                 /\ mark' = mark /\ odds' = odds /\ calls' = calls /\ work' = work
<1>1. /\ job \in [Threads -> JobSet] /\ odds \in [Agents -> Plain..Torn] /\ Crossed \in Plain..Torn
      /\ work \in [Agents -> Nat] /\ calls \in 0..MaxCalls /\ MaxCalls \in Nat
  BY StatusAssumption DEF Types, Jobs, Plain, Crossed, Torn
<1>2. ASSUME NEW a \in Agents, Post(t, a)
      PROVE  /\ Turns(t, "post", "first", <<a, a>>, FALSE, <<>>, <<>>) /\ Jobs' /\ Quiet(a)
             /\ job[t].at = "idle" /\ lock = NoThread /\ lock' = t
             /\ work' \in [Agents -> Nat] /\ work'[a] <= work[a]
             /\ odds'[a] = Plain => work[a] = work'[a] + 1
             /\ \A b \in Agents : b # a => work'[b] = work[b]
             /\ mark' = mark /\ Remembers /\ calls' \in 0..MaxCalls /\ calls <= calls'
  <2>1. Turns(t, "post", "first", <<a, a>>, FALSE, <<>>, <<>>) /\ Jobs'
    BY <1>1, <1>2, OtherMoves, OthersKeepJobs
  <2>2. /\ Quiet(a) /\ job[t].at = "idle" /\ lock = NoThread /\ lock' = t
        /\ mark' = mark /\ work[a] > 0
    BY <1>2 DEF Post, Busy
  <2>3. /\ work' \in [Agents -> Nat] /\ work'[a] <= work[a]
        /\ odds'[a] = Plain => work[a] = work'[a] + 1
        /\ \A b \in Agents : b # a => work'[b] = work[b]
        /\ Remembers /\ calls' \in 0..MaxCalls /\ calls <= calls'
    <3>1. CASE work' = [work EXCEPT ![a] = @ - 1] /\ calls' = calls /\ odds' = odds
      <4>1. work[a] \in Nat /\ work[a] - 1 \in Nat
        BY <1>1, <2>2
      <4>2. /\ work' \in [Agents -> Nat] /\ work'[a] <= work[a] /\ work[a] = work'[a] + 1
            /\ \A b \in Agents : b # a => work'[b] = work[b]
        BY <1>1, <3>1, <4>1
      <4>3. Remembers
        BY <1>1, <3>1 DEF Remembers, Plain, Torn
      <4>4. calls' \in 0..MaxCalls /\ calls <= calls'
        BY <1>1, <3>1
      <4> QED
        BY ONLY <4>2, <4>3, <4>4
    <3>2. CASE calls < MaxCalls /\ calls' = calls + 1 /\ odds' = Worse({a}, Crossed) /\ work' = work
      <4>1. Remembers /\ Crossed <= odds'[a]
        BY <1>1, <3>2, WorseIs DEF Remembers
      <4>2. odds'[a] # Plain
        BY <4>1 DEF Plain, Crossed
      <4>3. /\ work' \in [Agents -> Nat] /\ work'[a] <= work[a]
            /\ \A b \in Agents : b # a => work'[b] = work[b]
        BY <1>1, <3>2
      <4>4. calls' \in 0..MaxCalls /\ calls <= calls'
        BY <1>1, <3>2
      <4> QED
        BY ONLY <4>1, <4>2, <4>3, <4>4
    <3> QED
      BY <1>2, <3>1, <3>2 DEF Post
  <2> QED
    BY ONLY <2>1, <2>2, <2>3
<1>3. ASSUME NEW a \in Agents, Notice(t, a)
      PROVE  /\ \E v \in BOOLEAN : /\ Turns(t, "notice", "first", <<a>>, v, <<>>, <<>>)
                                   /\ odds'[a] = Plain => v
             /\ Jobs' /\ Quiet(a) /\ job[t].at = "idle" /\ work[a] > 0 /\ Remembers
             /\ mark' = mark /\ work' = work /\ calls' \in 0..MaxCalls /\ calls <= calls'
  <2>1. PICK v \in BOOLEAN : /\ Turns(t, "notice", "first", <<a>>, v, <<>>, <<>>)
                             /\ odds' = Worse(IF v THEN {} ELSE {a}, Crossed)
    BY <1>1, <1>3, OtherMoves
  <2>2. Remembers /\ (odds'[a] = Plain => v)
    <3>1. CASE v
      BY <1>1, <2>1, <3>1, WorseIs DEF Remembers
    <3>2. CASE ~v
      <4>1. odds' = Worse({a}, Crossed)
        BY <2>1, <3>2
      <4>2. Remembers /\ Crossed <= odds'[a]
        BY <1>1, <4>1, WorseIs DEF Remembers
      <4> QED
        BY <4>2 DEF Crossed, Plain
    <3> QED
      BY <3>1, <3>2
  <2>3. /\ Quiet(a) /\ job[t].at = "idle" /\ work[a] > 0 /\ mark' = mark /\ work' = work
        /\ calls < MaxCalls /\ calls' = calls + 1
    BY <1>3 DEF Notice, Busy
  <2>4. Jobs'
    BY <1>3, OthersKeepJobs
  <2>5. calls' \in 0..MaxCalls /\ calls <= calls'
    BY <1>1, <2>3
  <2>6. \E w \in BOOLEAN : Turns(t, "notice", "first", <<a>>, w, <<>>, <<>>) /\ (odds'[a] = Plain => w)
    BY <2>1, <2>2
  <2> QED
    BY ONLY <2>2, <2>3, <2>4, <2>5, <2>6
<1>4. ASSUME Poll(t)
      PROVE  /\ \E l \in Seq(Agents) : /\ l # <<>> /\ Expired(mark[Head(l)])
                                       /\ Turns(t, "poll", "first", l, FALSE, <<>>, <<>>)
             /\ Jobs' /\ job[t].at = "idle"
             /\ mark' = mark /\ odds' = odds /\ calls' = calls /\ work' = work
  <2>1. /\ job[t].at = "idle" /\ mark' = mark /\ odds' = odds /\ calls' = calls /\ work' = work
    BY <1>4 DEF Poll, Busy, countVars, historyVars
  <2> QED
    BY <1>1, <1>4, <2>1, OtherMoves, OthersKeepJobs
<1> QED
  BY <1>2, <1>3, <1>4

\* The reminder process changes nothing but the state file.
LEMMA RemindersDo ==
    ASSUME Types, ReminderLoads \/ ReminderSaves
    PROVE  /\ mark' = mark /\ dump' = dump /\ lock' = lock /\ job' = job
           /\ work' = work /\ odds' = odds /\ Remembers
           /\ stored' \in [Agents -> Marks] /\ copy' \in [Agents -> Marks] \cup {NoMarks}
           /\ calls' \in 0..MaxCalls /\ calls <= calls'
           /\ unsaved' \/ (stored' = stored /\ unsaved' = unsaved)
<1>1. /\ stored \in [Agents -> Marks] /\ copy \in [Agents -> Marks] \cup {NoMarks}
      /\ calls \in 0..MaxCalls /\ MaxCalls \in Nat /\ odds \in [Agents -> Plain..Torn]
  BY StatusAssumption DEF Types
<1>2. odds' = odds => Remembers
  BY <1>1 DEF Remembers, Plain, Torn
<1>3. CASE ReminderLoads
  <2>1. calls' \in 0..MaxCalls /\ calls <= calls'
    BY <1>1, <1>3 DEF ReminderLoads
  <2> QED
    BY <1>1, <1>2, <1>3, <2>1 DEF ReminderLoads, requestVars, historyVars
<1>4. CASE ReminderSaves
  <2>1. calls' \in 0..MaxCalls /\ calls <= calls'
    BY <1>1, <1>4 DEF ReminderSaves, countVars
  <2> QED
    BY <1>1, <1>2, <1>4, <2>1 DEF ReminderSaves, requestVars
<1> QED
  BY <1>3, <1>4

LEMMA TypesInit == Init => Types
<1> SUFFICES ASSUME Init PROVE Types
  OBVIOUS
<1>1. Idle \in JobSet /\ Shape(Idle)
  BY DEF Idle, Job, JobSet, Shape
<1>2. Jobs
  BY <1>1 DEF Init, Jobs
<1>3. Free \in Marks
  BY DEF Free, Marks
<1> QED
  BY <1>2, <1>3, StatusAssumption DEF Init, Types, Plain, Torn

LEMMA TypesStep == Types /\ [Next]_vars => Types'
<1> SUFFICES ASSUME Types, [Next]_vars PROVE Types'
  OBVIOUS
<1> USE DEF countVars, historyVars, requestVars
<1>t. /\ mark \in [Agents -> Marks] /\ stored \in [Agents -> Marks] /\ dump \in [Agents -> Marks]
      /\ copy \in [Agents -> Marks] \cup {NoMarks}
      /\ lock \in Threads \cup {NoThread} /\ Jobs
      /\ work \in [Agents -> Nat] /\ odds \in [Agents -> Plain..Torn]
      /\ calls \in 0..MaxCalls
  BY DEF Types
<1>1. ASSUME NEW t \in Threads, First(t) PROVE Types'
  BY <1>t, <1>1, FirstDoes, WritesKeepJobs DEF First, Types, Remembers
<1>2. ASSUME NEW t \in Threads, Second(t) PROVE Types'
  BY <1>t, <1>2, SecondDoes, WritesKeepJobs DEF Second, Types, Remembers
<1>3. ASSUME NEW t \in Threads, SaveOpen(t) PROVE Types'
  BY <1>t, <1>3, WritesKeepJobs DEF SaveOpen, Types
<1>4. ASSUME NEW t \in Threads, SaveClose(t) PROVE Types'
  BY <1>t, <1>4, SaveKeepsJobs DEF SaveClose, Types
<1>5. ASSUME NEW t \in Threads, Delivered(t) PROVE Types'
  BY <1>t, <1>5, HandDoes DEF Delivered, Types
<1>6. ASSUME NEW t \in Threads, Undelivered(t) PROVE Types'
  BY <1>t, <1>6, HandDoes DEF Undelivered, Types
<1>7. ASSUME NEW t \in Threads, TimedOut(t) PROVE Types'
  BY <1>t, <1>7, HandDoes DEF TimedOut, Types, Remembers
<1>8. ASSUME NEW t \in Threads, Route(t) PROVE Types'
  <2>1. CASE End(t) /\ UNCHANGED <<calls, odds>>
    BY <1>t, <1>8, <2>1, Writes, EndKeepsJobs DEF Route, Types, Jobs
  <2>2. ASSUME NEW l \in Lists, Begin(t, l) PROVE Types'
    BY <1>t, <1>8, <2>2, BeginDoes DEF Route, Types, Remembers
  <2> QED
    BY <1>8, <2>1, <2>2 DEF Route
<1>9. ASSUME NEW t \in Threads, Dispatch(t) PROVE Types'
  BY <1>t, <1>9, BeginDoes DEF Dispatch, Types, Remembers
<1>10. ASSUME NEW t \in Threads, Poll(t) PROVE Types'
  BY <1>t, <1>10, OthersDo DEF Poll, Types
<1>11. ASSUME NEW t \in Threads, SaveFails(t) PROVE Types'
  BY <1>t, <1>11, AbortDoes DEF SaveFails, Types, Remembers
<1>12. ASSUME NEW t \in Threads, DispatcherRaises(t) PROVE Types'
  BY <1>t, <1>12, AbortDoes DEF DispatcherRaises, Types, Remembers
<1>13. ASSUME NEW t \in Threads, NEW a \in Agents, Post(t, a) PROVE Types'
  BY <1>t, <1>13, OthersDo DEF Post, Types, Remembers
<1>14. ASSUME NEW t \in Threads, NEW a \in Agents, Notice(t, a) PROVE Types'
  BY <1>t, <1>14, OthersDo DEF Notice, Types, Remembers
<1>15. CASE TimePasses
  BY <1>t, <1>15, TimeDoes DEF Types, Remembers, Jobs
<1>16. CASE Crash
  BY <1>t, <1>16, CrashDoes DEF Types, Remembers
<1>17. CASE ReminderLoads \/ ReminderSaves
  BY <1>t, <1>17, RemindersDo DEF Types, Remembers, Jobs
<1>18. CASE UNCHANGED vars
  BY <1>t, <1>18 DEF vars, Types, Jobs
<1> QED
  BY <1>1, <1>2, <1>3, <1>4, <1>5, <1>6, <1>7, <1>8, <1>9, <1>10, <1>11, <1>12, <1>13,
     <1>14, <1>15, <1>16, <1>17, <1>18 DEF Next, Serve

\* What every thread is at, the marks and their copies stay in their types.
THEOREM StatusShapes == Spec => []Types
  BY TypesInit, TypesStep, PTL DEF Spec

-----------------------------------------------------------------------------
(* Nobody is handed more than was dispatched: every call is paid for when  *)
(* its dispatch begins.                                                    *)

\* The dispatch of t is yet to hand a message to a.
Pending(t, a) ==
    /\ job[t].kind = "dispatch" /\ job[t].value
    /\ a \in Range(IF job[t].at = "deliver" THEN job[t].todo ELSE job[t].targets)

PendingOn(a) == {t \in Threads : Pending(t, a)}

PaidFor ==
    \A a \in Agents :
        IsFiniteSet(PendingOn(a)) /\ Cardinality(PendingOn(a)) + work[a] <= calls

\* One pending delivery less for one more that was made, one more for a call.
LEMMA StillPaid ==
    ASSUME NEW S, NEW T, NEW t, NEW n \in Nat, NEW m \in Nat, NEW k \in Nat, NEW l \in Nat,
           IsFiniteSet(S), Cardinality(S) + n <= k,
           \/ T \subseteq S /\ m <= n /\ k <= l
           \/ T \subseteq S \cup {t} /\ m <= n /\ k + 1 <= l
           \/ T \subseteq S \ {t} /\ t \in S /\ m <= n + 1 /\ k <= l
    PROVE  IsFiniteSet(T) /\ Cardinality(T) + m <= l
<1>1. Cardinality(S) \in Nat
  BY FS_CardinalityType
<1>2. CASE T \subseteq S /\ m <= n /\ k <= l
  <2>1. IsFiniteSet(T) /\ Cardinality(T) <= Cardinality(S) /\ Cardinality(T) \in Nat
    BY <1>2, FS_Subset, FS_CardinalityType
  <2> QED
    BY <1>1, <1>2, <2>1
<1>3. CASE T \subseteq S \cup {t} /\ m <= n /\ k + 1 <= l
  <2>1. /\ IsFiniteSet(S \cup {t}) /\ Cardinality(S \cup {t}) \in Nat
        /\ Cardinality(S \cup {t}) <= Cardinality(S) + 1
    <3>1. /\ IsFiniteSet(S \cup {t})
          /\ Cardinality(S \cup {t}) = IF t \in S THEN Cardinality(S) ELSE Cardinality(S) + 1
      BY FS_AddElement
    <3> QED
      BY <1>1, <3>1
  <2>2. IsFiniteSet(T) /\ Cardinality(T) <= Cardinality(S \cup {t}) /\ Cardinality(T) \in Nat
    BY <1>3, <2>1, FS_Subset, FS_CardinalityType
  <2> QED
    BY <1>1, <1>3, <2>1, <2>2
<1>4. CASE T \subseteq S \ {t} /\ t \in S /\ m <= n + 1 /\ k <= l
  <2>1. /\ IsFiniteSet(S \ {t}) /\ Cardinality(S \ {t}) \in Nat
        /\ Cardinality(S \ {t}) = Cardinality(S) - 1
    BY <1>1, <1>4, FS_RemoveElement, FS_CardinalityType
  <2>2. IsFiniteSet(T) /\ Cardinality(T) <= Cardinality(S \ {t}) /\ Cardinality(T) \in Nat
    BY <1>4, <2>1, FS_Subset, FS_CardinalityType
  <2> QED
    BY <1>1, <1>4, <2>1, <2>2
<1> QED
  BY <1>2, <1>3, <1>4

\* A step that hands nothing over and begins no dispatch.
LEMMA NoneNewPending ==
    ASSUME Types, Types', PaidFor,
           \A u \in Threads, a \in Agents : Pending(u, a)' => Pending(u, a),
           \A a \in Agents : work'[a] <= work[a],
           calls <= calls'
    PROVE  PaidFor'
<1> SUFFICES ASSUME NEW a \in Agents
             PROVE  IsFiniteSet(PendingOn(a)') /\ Cardinality(PendingOn(a)') + work'[a] <= calls'
  BY DEF PaidFor
<1>1. PendingOn(a)' \subseteq PendingOn(a)
  BY DEF PendingOn
<1>2. work[a] \in Nat /\ work'[a] \in Nat /\ calls \in Nat /\ calls' \in Nat
  BY StatusAssumption DEF Types
<1>3. IsFiniteSet(PendingOn(a)) /\ Cardinality(PendingOn(a)) + work[a] <= calls
  BY DEF PaidFor
<1> QED
  BY ONLY <1>1, <1>2, <1>3, StillPaid, work'[a] <= work[a], calls <= calls'

\* A request that goes on with another write, or ends, has nothing new to hand
\* over.
LEMMA GoesPending ==
    ASSUME Types, NEW t \in Threads, NEW at, NEW todo,
           \/ Goes(t, at, todo) /\ job[t].at # "deliver" /\ at # "deliver"
           \/ Goes(t, at, todo) /\ at = "deliver" /\ todo = job[t].targets /\ job[t].at # "deliver"
           \/ Ends(t)
    PROVE  \A u \in Threads, a \in Agents : Pending(u, a)' => Pending(u, a)
  BY DEF Pending, Goes, Ends, Turns

LEMMA FollowsPending ==
    ASSUME Types, NEW t \in Threads, job[t].at = "deliver", NEW f, Follows(t, f)
    PROVE  /\ \A u \in Threads, a \in Agents : Pending(u, a)' => Pending(u, a)
           /\ \A c \in Agents : c = Current(t) => Pending(t, c) /\ ~Pending(t, c)'
<1> DEFINE j == job[t]
           rest == Tail(j.todo)
<1>1. /\ j.kind = "dispatch" /\ j.value /\ DispatchShape(j) /\ j.at = "deliver"
  BY DEF Types, Jobs, Shape
<1>2. /\ Range(j.todo) = {Current(t)} \cup Range(rest) /\ Current(t) \notin Range(rest)
  BY <1>1, CurrentAgent DEF DispatchShape
<1>3. Pending(t, Current(t))
  BY <1>1, <1>2 DEF Pending
<1>4. CASE Turns(t, j.kind, j.at, rest, j.value, j.targets, f)
  <2>1. \A u \in Threads, a \in Agents : Pending(u, a)' => Pending(u, a)
    <3>1. job'[t].at = "deliver" /\ job'[t].todo = rest
      BY <1>1, <1>4 DEF Turns
    <3>2. \A u \in Threads : u # t => job'[u] = job[u]
      BY <1>4 DEF Turns
    <3>3. \A a \in Agents : Pending(t, a)' => Pending(t, a)
      <4>1. \A a \in Agents : Pending(t, a)' => a \in Range(rest)
        BY <3>1 DEF Pending
      <4>2. \A a \in Range(j.todo) : Pending(t, a)
        BY <1>1 DEF Pending
      <4> QED
        BY <1>2, <4>1, <4>2
    <3>4. \A u \in Threads, a \in Agents : u # t => (Pending(u, a)' <=> Pending(u, a))
      BY <3>2 DEF Pending
    <3> QED
      BY <3>3, <3>4
  <2>2. ASSUME NEW c \in Agents, c = Current(t) PROVE ~Pending(t, c)'
    <3>1. job'[t].at = "deliver" /\ job'[t].todo = rest
      BY <1>1, <1>4 DEF Turns
    <3>2. c \notin Range(rest)
      BY <1>2, <2>2
    <3> HIDE DEF rest, j
    <3> QED
      BY <3>1, <3>2 DEF Pending
  <2> QED
    BY <1>3, <2>1, <2>2
<1>5. CASE Ends(t) \/ Turns(t, j.kind, "first", f, FALSE, j.targets, f)
  BY <1>3, <1>5 DEF Pending, Turns, Ends
<1> QED
  BY <1>4, <1>5 DEF Follows

\* Marking, saving, ending, posting and polling leave no more to hand over.
LEMMA QuietPending ==
    ASSUME Types, NEW t \in Threads,
           \/ First(t) \/ Second(t) \/ SaveOpen(t) \/ SaveClose(t)
           \/ SaveFails(t) \/ DispatcherRaises(t) \/ Poll(t)
           \/ \E a \in Agents : Post(t, a) \/ Notice(t, a)
    PROVE  \A u \in Threads, a \in Agents : Pending(u, a)' => Pending(u, a)
<1>1. CASE First(t)
  BY <1>1, FirstDoes, GoesPending DEF First
<1>2. CASE Second(t)
  <2>1. job[t].at = "second"
    BY <1>2 DEF Second
  <2>2. \E at \in {"save", "first"} : \E todo : Goes(t, at, todo)
    BY <1>2, SecondMoves
  <2> QED
    BY <2>1, <2>2, GoesPending
<1>3. CASE SaveOpen(t)
  BY <1>3, Writes, GoesPending DEF SaveOpen, Types, Jobs
<1>4. CASE SaveClose(t)
  <2>1. job[t].at = "dump"
    BY <1>4 DEF SaveClose
  <2>2. \/ Goes(t, "first", Tail(job[t].todo))
        \/ Goes(t, "deliver", job[t].targets)
        \/ Goes(t, "route", job[t].todo)
        \/ Ends(t)
    BY <1>4, SaveMoves
  <2> QED
    BY <2>1, <2>2, GoesPending
<1>5. CASE SaveFails(t) \/ DispatcherRaises(t)
  BY <1>5, AbortDoes, GoesPending
<1>6. ASSUME NEW kind \in {"post", "notice", "poll"}, NEW l, NEW v,
             Turns(t, kind, "first", l, v, <<>>, <<>>)
      PROVE  \A u \in Threads, a \in Agents : Pending(u, a)' => Pending(u, a)
  BY <1>6 DEF Pending, Turns
<1>7. CASE Poll(t)
  <2>1. PICK l \in Seq(Agents) : Turns(t, "poll", "first", l, FALSE, <<>>, <<>>)
    BY <1>7, OthersDo
  <2> QED
    BY <1>6, <2>1
<1>8. ASSUME NEW b \in Agents, Post(t, b)
      PROVE  \A u \in Threads, a \in Agents : Pending(u, a)' => Pending(u, a)
  BY <1>6, <1>8, OthersDo
<1>9. ASSUME NEW b \in Agents, Notice(t, b)
      PROVE  \A u \in Threads, a \in Agents : Pending(u, a)' => Pending(u, a)
  <2>1. PICK v \in BOOLEAN : Turns(t, "notice", "first", <<b>>, v, <<>>, <<>>)
    BY <1>9, OthersDo
  <2> QED
    BY <1>6, <2>1
<1> QED
  BY <1>1, <1>2, <1>3, <1>4, <1>5, <1>7, <1>8, <1>9

\* A delivery uses up what was paid for.
LEMMA HandPaid ==
    ASSUME Types, Types', PaidFor, NEW t \in Threads, Delivered(t) \/ TimedOut(t)
    PROVE  PaidFor'
<1> SUFFICES ASSUME NEW a \in Agents
             PROVE  IsFiniteSet(PendingOn(a)') /\ Cardinality(PendingOn(a)') + work'[a] <= calls'
  BY DEF PaidFor
<1>1. /\ work[a] \in Nat /\ work'[a] \in Nat /\ calls \in Nat /\ calls' = calls
      /\ IsFiniteSet(PendingOn(a)) /\ Cardinality(PendingOn(a)) + work[a] <= calls
  BY StatusAssumption DEF Types, PaidFor, Delivered, TimedOut, countVars
<1>2. /\ job[t].at = "deliver" /\ Current(t) \in Agents
      /\ \E f : Follows(t, f)
      /\ work'[Current(t)] = work[Current(t)] + 1
      /\ \A b \in Agents : b # Current(t) => work'[b] = work[b]
  BY HandDoes
<1>3. /\ \A u \in Threads, b \in Agents : Pending(u, b)' => Pending(u, b)
      /\ \A c \in Agents : c = Current(t) => Pending(t, c) /\ ~Pending(t, c)'
  BY <1>2, FollowsPending
<1>4. PendingOn(a)' \subseteq PendingOn(a)
  BY <1>3 DEF PendingOn
<1>5. CASE a = Current(t)
  <2>1. PendingOn(a)' \subseteq PendingOn(a) \ {t} /\ t \in PendingOn(a)
    BY <1>3, <1>4, <1>5 DEF PendingOn
  <2>2. work'[a] <= work[a] + 1 /\ calls <= calls'
    BY <1>1, <1>2, <1>5
  <2> QED
    BY ONLY <1>1, <2>1, <2>2, StillPaid
<1>6. CASE a # Current(t)
  <2>1. work'[a] <= work[a] /\ calls <= calls'
    BY <1>1, <1>2, <1>6
  <2> QED
    BY ONLY <1>1, <1>4, <2>1, StillPaid
<1> QED
  BY <1>5, <1>6

LEMMA BeginPaid ==
    ASSUME Types, Types', PaidFor, NEW t \in Threads, NEW l \in Lists, Begin(t, l), work' = work
    PROVE  PaidFor'
<1> SUFFICES ASSUME NEW a \in Agents
             PROVE  IsFiniteSet(PendingOn(a)') /\ Cardinality(PendingOn(a)') + work'[a] <= calls'
  BY DEF PaidFor
<1>1. /\ work[a] \in Nat /\ work'[a] \in Nat /\ work'[a] <= work[a] /\ calls \in Nat /\ calls' \in Nat
      /\ IsFiniteSet(PendingOn(a)) /\ Cardinality(PendingOn(a)) + work[a] <= calls
  BY StatusAssumption DEF Types, PaidFor
<1>2. calls + 1 <= calls' /\ Turns(t, "dispatch", "first", l, TRUE, l, <<>>)
  BY BeginDoes
<1>3. PendingOn(a)' \subseteq PendingOn(a) \cup {t}
  BY <1>2 DEF PendingOn, Pending, Turns
<1> QED
  BY ONLY <1>1, <1>2, <1>3, StillPaid

LEMMA PaidStep == Types /\ Types' /\ PaidFor /\ [Next]_vars => PaidFor'
<1> SUFFICES ASSUME Types, Types', PaidFor, [Next]_vars PROVE PaidFor'
  OBVIOUS
<1> USE DEF countVars, historyVars, requestVars
<1>w. work \in [Agents -> Nat] /\ calls \in Nat
  BY StatusAssumption DEF Types
<1>1. ASSUME NEW t \in Threads, First(t) \/ Second(t) \/ SaveOpen(t) \/ SaveClose(t)
                                \/ SaveFails(t) \/ DispatcherRaises(t) \/ Poll(t)
      PROVE  PaidFor'
  <2>1. work' = work /\ calls' = calls
    BY <1>1 DEF First, Second, SaveOpen, SaveClose, SaveFails, DispatcherRaises, Poll
  <2> QED
    BY <1>w, <1>1, <2>1, QuietPending, NoneNewPending
<1>2. ASSUME NEW t \in Threads, NEW b \in Agents, Post(t, b) PROVE PaidFor'
  <2>1. /\ work' \in [Agents -> Nat] /\ work'[b] <= work[b] /\ calls <= calls'
        /\ \A a \in Agents : a # b => work'[a] = work[a]
    BY <1>2, OthersDo
  <2>2. \A a \in Agents : work'[a] <= work[a]
    BY <1>w, <2>1
  <2>3. \A u \in Threads, a \in Agents : Pending(u, a)' => Pending(u, a)
    BY <1>2, QuietPending
  <2>4. calls <= calls'
    BY <1>w, <2>1
  <2> QED
    BY ONLY <2>2, <2>3, <2>4, NoneNewPending, Types, Types', PaidFor
<1>3. ASSUME NEW t \in Threads, NEW b \in Agents, Notice(t, b) PROVE PaidFor'
  <2>1. work' = work /\ calls <= calls'
    BY <1>3, OthersDo
  <2> QED
    BY <1>w, <1>3, <2>1, QuietPending, NoneNewPending
<1>4. ASSUME NEW t \in Threads, Delivered(t) \/ TimedOut(t) PROVE PaidFor'
  BY <1>4, HandPaid
<1>5. ASSUME NEW t \in Threads, Undelivered(t) PROVE PaidFor'
  <2>1. job[t].at = "deliver" /\ \E f : Follows(t, f)
    BY <1>5, HandDoes
  <2>2. \A u \in Threads, a \in Agents : Pending(u, a)' => Pending(u, a)
    BY <2>1, FollowsPending
  <2> QED
    BY <1>w, <1>5, <2>2, NoneNewPending DEF Undelivered
<1>6. ASSUME NEW t \in Threads, Dispatch(t) \/ Route(t) PROVE PaidFor'
  <2>1. work' = work
    BY <1>6 DEF Dispatch, Route
  <2>2. CASE \E l \in Lists : Begin(t, l)
    BY <2>1, <2>2, BeginPaid
  <2>3. CASE End(t) /\ calls' = calls
    <3>1. Ends(t)
      BY <2>3, Writes DEF Types, Jobs
    <3> QED
      BY <1>w, <2>1, <2>3, <3>1, GoesPending, NoneNewPending
  <2> QED
    BY <1>6, <2>2, <2>3 DEF Dispatch, Route
<1>7. CASE TimePasses
  <2>1. job' = job /\ work' = work /\ calls' = calls
    BY <1>7 DEF TimePasses
  <2> QED
    BY <1>w, <2>1, NoneNewPending DEF Pending
<1>8. CASE Crash
  <2>1. work' = work /\ calls' = calls /\ \A t \in Threads : job'[t] = Idle
    BY <1>8, CrashDoes
  <2>2. \A u \in Threads, a \in Agents : Pending(u, a)' => Pending(u, a)
    BY <2>1 DEF Pending, Idle, Job
  <2> QED
    BY <1>w, <2>1, <2>2, NoneNewPending
<1>9. CASE ReminderLoads \/ ReminderSaves
  <2>1. job' = job /\ work' = work /\ calls <= calls'
    BY <1>9, RemindersDo
  <2> QED
    BY <1>w, <2>1, NoneNewPending DEF Pending
<1>10. CASE UNCHANGED vars
  BY <1>w, <1>10, NoneNewPending DEF vars, Pending
<1> QED
  BY <1>1, <1>2, <1>3, <1>4, <1>5, <1>6, <1>7, <1>8, <1>9, <1>10 DEF Next, Serve

LEMMA PaidInit == Init => PaidFor
<1> SUFFICES ASSUME Init, NEW a \in Agents
             PROVE  IsFiniteSet(PendingOn(a)) /\ Cardinality(PendingOn(a)) + work[a] <= calls
  BY DEF PaidFor
<1>1. PendingOn(a) = {}
  BY DEF PendingOn, Pending, Init, Idle, Job
<1> QED
  BY <1>1, FS_EmptySet DEF Init

LEMMA PaidTypes == Types /\ PaidFor => StatusTypeOK
<1> SUFFICES ASSUME Types, PaidFor PROVE StatusTypeOK
  OBVIOUS
<1>1. ASSUME NEW t \in Threads
      PROVE  job[t].todo \in Seq(Agents) /\ job[t].targets \in Lists \cup {<<>>}
  BY DEF Types, Jobs, JobSet, Shape, DispatchShape
<1>2. ASSUME NEW a \in Agents PROVE work[a] \in 0..MaxCalls
  <2>1. /\ IsFiniteSet(PendingOn(a)) /\ Cardinality(PendingOn(a)) + work[a] <= calls
        /\ work[a] \in Nat /\ calls \in 0..MaxCalls /\ MaxCalls \in Nat
    BY StatusAssumption DEF Types, PaidFor
  <2>2. Cardinality(PendingOn(a)) \in Nat
    BY <2>1, FS_CardinalityType
  <2> QED
    BY ONLY <2>1, <2>2
<1> QED
  BY <1>1, <1>2 DEF Types, StatusTypeOK

\* For any roster, lists of targets and threads: types, and no agent is ever
\* handed more messages than dispatches were made to it.
THEOREM StatusTypes == Spec => []StatusTypeOK
  BY StatusShapes, PaidInit, PaidStep, PaidTypes, PTL DEF Spec

-----------------------------------------------------------------------------
(* The state file follows memory: whoever changed a mark after the last    *)
(* copy of memory was made has a save of its own to come.                  *)

\* Writing the file is for the one thread that holds the lock.
Locked == \A t \in Threads : job[t].at = "dump" => lock = t

\* A write is not saved yet; a poll that goes on has written before.
Dirty(t) == job[t].at \in {"second", "save"} \/ (job[t].kind = "poll" /\ job[t].at = "first")

Upcoming ==
    /\ (\E t \in Threads : job[t].at = "dump") => dump = mark \/ \E t \in Threads : Dirty(t)
    /\ (\A t \in Threads : job[t].at # "dump") =>
          unsaved \/ stored = mark \/ \E t \in Threads : Dirty(t)

FileInv == Locked /\ Upcoming

\* A step of a thread that neither holds the dump nor owes a save.
LEMMA FileUntouched ==
    ASSUME Types, FileInv, NEW t \in Threads,
           \A u \in Threads : u # t => job'[u] = job[u],
           job[t].at # "dump", job'[t].at # "dump", ~Dirty(t),
           mark' = mark, stored' = stored, dump' = dump, unsaved' = unsaved,
           lock' = lock \/ lock = NoThread
    PROVE  FileInv'
<1>1. \A u \in Threads : (job'[u].at = "dump") <=> (job[u].at = "dump")
  OBVIOUS
<1>2. \A u \in Threads : Dirty(u) => Dirty(u)'
  BY DEF Dirty
<1>3. Locked'
  BY <1>1, StatusAssumption DEF FileInv, Locked
<1>4. Upcoming'
  BY <1>1, <1>2 DEF FileInv, Upcoming
<1> QED
  BY <1>3, <1>4 DEF FileInv

\* A write of a field leaves a save to come.
LEMMA FileWritten ==
    ASSUME Types, FileInv, NEW t \in Threads,
           \A u \in Threads : u # t => job'[u] = job[u],
           job[t].at # "dump", job'[t].at # "dump", Dirty(t)', lock' = lock
    PROVE  FileInv'
<1>1. \A u \in Threads : (job'[u].at = "dump") <=> (job[u].at = "dump")
  OBVIOUS
<1>2. Locked'
  BY <1>1 DEF FileInv, Locked
<1>3. Upcoming'
  BY DEF Upcoming
<1> QED
  BY <1>2, <1>3 DEF FileInv

LEMMA FileInit == Init => FileInv
  BY DEF Init, FileInv, Locked, Upcoming, Idle, Job

LEMMA FileStep == Types /\ FileInv /\ [Next]_vars => FileInv'
<1> SUFFICES ASSUME Types, FileInv, [Next]_vars PROVE FileInv'
  OBVIOUS
<1> USE DEF countVars, historyVars, requestVars
<1>j. job \in [Threads -> JobSet] /\ \A t \in Threads : Shape(job[t])
  BY DEF Types, Jobs
<1>1. ASSUME NEW t \in Threads, First(t) PROVE FileInv'
  <2>1. Goes(t, "second", job[t].todo) /\ job[t].at = "first" /\ lock' = lock
    BY <1>1, FirstDoes DEF First
  <2> QED
    BY <2>1, FileWritten DEF Goes, Turns, Dirty
<1>2. ASSUME NEW t \in Threads, Second(t) PROVE FileInv'
  <2>1. job[t].at = "second" /\ lock' = lock
    BY <1>2 DEF Second
  <2>2. CASE Goes(t, "save", job[t].todo)
    BY <2>1, <2>2, FileWritten DEF Goes, Turns, Dirty
  <2>3. ASSUME NEW rest, job[t].kind = "poll", Goes(t, "first", rest) PROVE FileInv'
    BY <2>1, <2>3, FileWritten DEF Goes, Turns, Dirty
  <2> QED
    BY <1>2, <2>2, <2>3, SecondMoves
<1>3. ASSUME NEW t \in Threads, SaveOpen(t) PROVE FileInv'
  <2>1. /\ job'[t].at = "dump" /\ \A u \in Threads : u # t => job'[u] = job[u]
        /\ lock \in {NoThread, t} /\ lock' = t /\ dump' = mark /\ mark' = mark
    BY <1>3, <1>j, Writes DEF SaveOpen, Goes, Turns
  <2>2. \A u \in Threads : u # t => job[u].at # "dump"
    BY <2>1, StatusAssumption DEF FileInv, Locked
  <2> QED
    BY <2>1, <2>2 DEF FileInv, Locked, Upcoming
<1>4. ASSUME NEW t \in Threads, SaveClose(t) PROVE FileInv'
  <2>1. /\ job[t].at = "dump" /\ lock = t
        /\ stored' = dump /\ mark' = mark
    BY <1>4 DEF SaveClose, FileInv, Locked
  <2>2. job'[t].at # "dump" /\ \A u \in Threads : u # t => job'[u] = job[u]
    <3>1. \/ Goes(t, "first", Tail(job[t].todo))
          \/ Goes(t, "deliver", job[t].targets)
          \/ Goes(t, "route", job[t].todo)
          \/ Ends(t)
      BY <1>4, SaveMoves
    <3> QED
      BY <3>1 DEF Goes, Ends, Turns
  <2>3. \A u \in Threads : u # t => job[u].at # "dump"
    BY <2>1 DEF FileInv, Locked
  <2>4. ~Dirty(t)
    BY <2>1 DEF Dirty
  <2>5. \A u \in Threads : Dirty(u) => Dirty(u)'
    BY <2>2, <2>4 DEF Dirty
  <2>6. dump = mark \/ \E u \in Threads : Dirty(u)
    BY <2>1 DEF FileInv, Upcoming
  <2> QED
    BY <2>1, <2>2, <2>3, <2>5, <2>6 DEF FileInv, Locked, Upcoming
<1>5. ASSUME NEW t \in Threads, SaveFails(t) PROVE FileInv'
  <2>1. job[t].at = "dump" /\ lock = t /\ unsaved'
    BY <1>5 DEF SaveFails, FileInv, Locked
  <2>2. job'[t].at # "dump" /\ \A u \in Threads : u # t => job'[u] = job[u]
    BY <1>5, AbortDoes DEF Ends, Turns
  <2>3. \A u \in Threads : u # t => job[u].at # "dump"
    BY <2>1 DEF FileInv, Locked
  <2> QED
    BY <2>1, <2>2, <2>3 DEF FileInv, Locked, Upcoming
<1>6. ASSUME NEW t \in Threads, Delivered(t) \/ Undelivered(t) \/ TimedOut(t) PROVE FileInv'
  <2>1. job[t].at = "deliver" /\ \E f : Follows(t, f)
    BY <1>6, HandDoes
  <2>2. job'[t].at # "dump" /\ \A u \in Threads : u # t => job'[u] = job[u]
    BY <2>1 DEF Follows, Ends, Turns
  <2>3. ~Dirty(t)
    BY <1>j, <2>1 DEF Dirty, Shape
  <2> QED
    BY <1>6, <2>1, <2>2, <2>3, FileUntouched DEF Delivered, Undelivered, TimedOut
<1>7. ASSUME NEW t \in Threads, Dispatch(t) \/ Route(t) PROVE FileInv'
  <2>1. /\ job[t].at \in {"idle", "route"}
        /\ mark' = mark /\ stored' = stored /\ dump' = dump /\ unsaved' = unsaved /\ lock' = lock
    BY <1>7 DEF Dispatch, Route, Busy
  <2>2. ASSUME NEW l \in Lists, Begin(t, l)
        PROVE  job'[t].at = "first" /\ \A u \in Threads : u # t => job'[u] = job[u]
    <3>1. Turns(t, "dispatch", "first", l, TRUE, l, <<>>)
      BY <1>j, <2>2, BeginMoves
    <3> QED
      BY <3>1 DEF Turns
  <2>3. job'[t].at # "dump" /\ \A u \in Threads : u # t => job'[u] = job[u]
    <3>1. CASE End(t)
      BY <1>j, <3>1, Writes DEF Ends, Turns
    <3> QED
      BY <1>7, <2>2, <3>1 DEF Dispatch, Route
  <2> QED
    BY <2>1, <2>3, FileUntouched DEF Dirty
<1>8. ASSUME NEW t \in Threads, Poll(t) PROVE FileInv'
  <2>1. /\ job[t].at = "idle"
        /\ mark' = mark /\ stored' = stored /\ dump' = dump /\ unsaved' = unsaved /\ lock' = lock
    BY <1>8 DEF Poll, Busy
  <2>2. \E l \in Seq(Agents) : Turns(t, "poll", "first", l, FALSE, <<>>, <<>>)
    BY <1>8, OthersDo
  <2> QED
    BY <2>1, <2>2, FileUntouched DEF Dirty, Turns
<1>9. ASSUME NEW t \in Threads, DispatcherRaises(t) PROVE FileInv'
  <2>1. job[t].at = "deliver" /\ job[t].kind = "dispatch"
    BY <1>j, <1>9 DEF DispatcherRaises, Shape
  <2> QED
    BY <1>9, <2>1, AbortDoes, FileUntouched DEF DispatcherRaises, Dirty, Ends, Turns
<1>10. ASSUME NEW t \in Threads, NEW a \in Agents, Post(t, a) PROVE FileInv'
  <2>1. /\ job[t].at = "idle" /\ lock = NoThread
        /\ mark' = mark /\ stored' = stored /\ dump' = dump /\ unsaved' = unsaved
    BY <1>10 DEF Post, Busy
  <2>2. Turns(t, "post", "first", <<a, a>>, FALSE, <<>>, <<>>)
    BY <1>10, OthersDo
  <2> QED
    BY <2>1, <2>2, FileUntouched DEF Dirty, Turns
<1>11. ASSUME NEW t \in Threads, NEW a \in Agents, Notice(t, a) PROVE FileInv'
  <2>1. /\ job[t].at = "idle" /\ lock' = lock
        /\ mark' = mark /\ stored' = stored /\ dump' = dump /\ unsaved' = unsaved
    BY <1>11 DEF Notice, Busy
  <2>2. \E v \in BOOLEAN : Turns(t, "notice", "first", <<a>>, v, <<>>, <<>>)
    BY <1>11, OthersDo
  <2> QED
    BY <2>1, <2>2, FileUntouched DEF Dirty, Turns
<1>12. CASE TimePasses
  <2>1. /\ mark' = Aged(mark) /\ stored' = Aged(stored) /\ dump' = Aged(dump)
        /\ job' = job /\ lock' = lock /\ unsaved' = unsaved
    BY <1>12, TimeDoes
  <2>2. /\ dump = mark => dump' = mark'
        /\ stored = mark => stored' = mark'
    BY <2>1
  <2> QED
    BY <2>1, <2>2 DEF FileInv, Locked, Upcoming, Dirty
<1>13. CASE Crash
  <2>1. mark' = stored' /\ \A t \in Threads : job'[t].at # "dump"
    BY <1>13, CrashDoes DEF Idle, Job
  <2> QED
    BY <2>1 DEF FileInv, Locked, Upcoming
<1>14. CASE ReminderLoads \/ ReminderSaves
  <2>1. /\ mark' = mark /\ dump' = dump /\ job' = job /\ lock' = lock
        /\ unsaved' \/ (stored' = stored /\ unsaved' = unsaved)
    BY <1>14, RemindersDo
  <2> QED
    BY <2>1 DEF FileInv, Locked, Upcoming, Dirty
<1>15. CASE UNCHANGED vars
  BY <1>15 DEF vars, FileInv, Locked, Upcoming, Dirty
<1> QED
  BY <1>1, <1>2, <1>3, <1>4, <1>5, <1>6, <1>7, <1>8, <1>9, <1>10, <1>11, <1>12, <1>13,
     <1>14, <1>15 DEF Next, Serve

\* For any roster and threads: once all requests are over the state file has
\* the marks that memory has, unless the last save failed or a reminder has
\* written the file since.
THEOREM FileFollowsAlways == Spec => []FileFollows
<1>1. Types /\ FileInv => FileFollows
  <2> SUFFICES ASSUME Types, FileInv, \A t \in Threads : ~Busy(t), ~unsaved PROVE stored = mark
    BY DEF FileFollows
  <2>1. \A t \in Threads : job[t].at = "idle" /\ job[t].kind = "none"
    BY DEF Busy, Types, Jobs, Shape
  <2>2. \A t \in Threads : ~Dirty(t)
    BY <2>1 DEF Dirty
  <2> QED
    BY <2>1, <2>2 DEF FileInv, Upcoming
<1> QED
  BY <1>1, StatusShapes, FileInit, FileStep, PTL DEF Spec

-----------------------------------------------------------------------------
(* A mark has a time to expire by, unless two requests wrote it at once.   *)

DatedAgent(a) ==
    /\ \A t, u \in Threads : Between(t, a) /\ Between(u, a) => t = u
    /\ \A t \in Threads : Between(t, a) => mark[a].typing = job[t].value
    /\ (\A t \in Threads : ~Between(t, a)) /\ mark[a].typing => mark[a].since # "none"

Dated == \A a \in Agents : odds[a] < Torn => DatedAgent(a)

\* Nothing else is dated less than it was.
LEMMA StillDated ==
    ASSUME Types, Types', Dated, Remembers, NEW a \in Agents, odds'[a] < Torn,
           \A u \in Threads : Between(u, a)' => Between(u, a) /\ job'[u].value = job[u].value,
           \A u \in Threads : Between(u, a) => Between(u, a)',
           mark'[a].typing = mark[a].typing,
           mark'[a].since = "none" => mark[a].since = "none"
    PROVE  DatedAgent(a)'
<1>1. odds[a] < Torn
  BY DEF Types, Remembers, Plain, Torn
<1>2. DatedAgent(a)
  BY <1>1 DEF Dated
<1> QED
  BY <1>2 DEF DatedAgent

\* A step of a thread that is not between the two writes, before or after.
LEMMA DatedElsewhere ==
    ASSUME Types, Types', Dated, Remembers, NEW t \in Threads,
           \A u \in Threads : u # t => job'[u] = job[u],
           job[t].at # "second", job'[t].at # "second", mark' = mark
    PROVE  Dated'
<1> SUFFICES ASSUME NEW a \in Agents, odds'[a] < Torn PROVE DatedAgent(a)'
  BY DEF Dated
<1>1. \A u \in Threads : Between(u, a)' => Between(u, a) /\ job'[u].value = job[u].value
  BY DEF Between, Current
<1>2. \A u \in Threads : Between(u, a) => Between(u, a)'
  BY DEF Between, Current
<1> QED
  BY <1>1, <1>2, StillDated

LEMMA DatedInit == Init => Dated
  BY DEF Init, Dated, DatedAgent, Between, Idle, Job, Free

LEMMA FirstDated == ASSUME Types, Types', Dated, NEW t \in Threads, First(t) PROVE Dated'
<1> SUFFICES ASSUME NEW a \in Agents, odds'[a] < Torn PROVE DatedAgent(a)'
  BY DEF Dated
<1> DEFINE c == Current(t)
<1>1. /\ c \in Agents /\ Goes(t, "second", job[t].todo) /\ mark'[c].typing = job[t].value
      /\ \A b \in Agents : b # c => mark'[b] = mark[b]
      /\ Remembers /\ \A u \in Threads : u # t /\ Between(u, c) => odds'[c] = Torn
      /\ job[t].at = "first"
  BY FirstDoes DEF First
<1>2. /\ job'[t].at = "second" /\ job'[t].todo = job[t].todo /\ job'[t].value = job[t].value
      /\ \A u \in Threads : u # t => job'[u] = job[u]
  BY <1>1 DEF Goes, Turns
<1>3. \A u \in Threads : u # t => (Between(u, a)' <=> Between(u, a))
  BY <1>2 DEF Between, Current
<1>4. Between(t, a)' <=> a = c
  BY <1>2 DEF Between, Current
<1>5. ~Between(t, a)
  BY <1>1 DEF Between
<1> HIDE DEF c
<1>6. CASE a = c
  <2>1. \A u \in Threads : u # t => ~Between(u, a)'
    BY <1>1, <1>3, <1>6 DEF Torn
  <2>2. mark'[a].typing = job'[t].value
    BY <1>1, <1>2, <1>6
  <2> QED
    BY <1>4, <1>6, <2>1, <2>2 DEF DatedAgent
<1>7. CASE a # c
  <2>1. \A u \in Threads : Between(u, a)' => Between(u, a) /\ job'[u].value = job[u].value
    BY <1>2, <1>3, <1>4, <1>7
  <2>2. \A u \in Threads : Between(u, a) => Between(u, a)'
    BY <1>3, <1>5
  <2> QED
    BY <1>1, <1>7, <2>1, <2>2, StillDated
<1> QED
  BY <1>6, <1>7

LEMMA SecondDated == ASSUME Types, Types', Dated, NEW t \in Threads, Second(t) PROVE Dated'
<1> SUFFICES ASSUME NEW a \in Agents, odds'[a] < Torn PROVE DatedAgent(a)'
  BY DEF Dated
<1> DEFINE c == Current(t)
<1>1. /\ c \in Agents /\ mark'[c].typing = mark[c].typing
      /\ mark'[c].since = IF job[t].value THEN "fresh" ELSE "none"
      /\ \A b \in Agents : b # c => mark'[b] = mark[b]
      /\ Remembers /\ \A u \in Threads : u # t /\ Between(u, c) => odds'[c] = Torn
      /\ job[t].at = "second"
  BY SecondDoes DEF Second
<1>2. \E at \in {"save", "first"} : \E todo : Goes(t, at, todo)
  BY SecondMoves
<1>3. job'[t].at # "second" /\ \A u \in Threads : u # t => job'[u] = job[u]
  BY <1>2 DEF Goes, Turns
<1>4. \A u \in Threads : u # t => (Between(u, a)' <=> Between(u, a))
  BY <1>3 DEF Between, Current
<1>5. ~Between(t, a)' /\ (Between(t, a) <=> a = c)
  BY <1>1, <1>3 DEF Between
<1> HIDE DEF c
<1>6. CASE a = c
  <2>1. \A u \in Threads : ~Between(u, a)'
    BY <1>1, <1>4, <1>5, <1>6 DEF Torn
  <2>2. odds[a] < Torn
    BY <1>1 DEF Types, Remembers, Plain, Torn
  <2>3. mark[a].typing = job[t].value
    BY <1>5, <1>6, <2>2 DEF Dated, DatedAgent
  <2>4. mark'[a].typing => mark'[a].since # "none"
    BY <1>1, <1>6, <2>3
  <2> QED
    BY <2>1, <2>4 DEF DatedAgent
<1>7. CASE a # c
  <2>1. \A u \in Threads : Between(u, a)' => Between(u, a) /\ job'[u].value = job[u].value
    BY <1>3, <1>4, <1>5
  <2>2. \A u \in Threads : Between(u, a) => Between(u, a)'
    BY <1>4, <1>5, <1>7
  <2> QED
    BY <1>1, <1>7, <2>1, <2>2, StillDated
<1> QED
  BY <1>6, <1>7

LEMMA DatedStep == Types /\ Types' /\ Dated /\ [Next]_vars => Dated'
<1> SUFFICES ASSUME Types, Types', Dated, [Next]_vars PROVE Dated'
  OBVIOUS
<1> USE DEF countVars, historyVars, requestVars
<1>j. /\ job \in [Threads -> JobSet] /\ \A t \in Threads : Shape(job[t])
      /\ odds \in [Agents -> Plain..Torn]
  BY DEF Types, Jobs
<1>r. odds' = odds => Remembers
  BY <1>j DEF Remembers, Plain, Torn
<1>1. ASSUME NEW t \in Threads, First(t) PROVE Dated'
  BY <1>1, FirstDated
<1>2. ASSUME NEW t \in Threads, Second(t) PROVE Dated'
  BY <1>2, SecondDated
<1>3. ASSUME NEW t \in Threads, SaveOpen(t) PROVE Dated'
  <2>1. Goes(t, "dump", job[t].todo)
    BY <1>j, <1>3, Writes
  <2>2. job'[t].at # "second" /\ \A u \in Threads : u # t => job'[u] = job[u]
    BY <2>1 DEF Goes, Turns
  <2> QED
    BY <1>r, <1>3, <2>2, DatedElsewhere DEF SaveOpen
<1>4. ASSUME NEW t \in Threads, SaveClose(t) PROVE Dated'
  <2>1. \/ Goes(t, "first", Tail(job[t].todo))
        \/ Goes(t, "deliver", job[t].targets)
        \/ Goes(t, "route", job[t].todo)
        \/ Ends(t)
    BY <1>4, SaveMoves
  <2>2. job'[t].at # "second" /\ \A u \in Threads : u # t => job'[u] = job[u]
    BY <2>1 DEF Goes, Ends, Turns
  <2> QED
    BY <1>r, <1>4, <2>2, DatedElsewhere DEF SaveClose
<1>5. ASSUME NEW t \in Threads, SaveFails(t) \/ DispatcherRaises(t) PROVE Dated'
  <2>1. Ends(t) /\ Remembers /\ job[t].at # "second"
    BY <1>5, AbortDoes
  <2>2. job'[t].at # "second" /\ \A u \in Threads : u # t => job'[u] = job[u]
    BY <2>1 DEF Ends, Turns
  <2> QED
    BY <1>5, <2>1, <2>2, DatedElsewhere DEF SaveFails, DispatcherRaises
<1>6. ASSUME NEW t \in Threads, Delivered(t) \/ Undelivered(t) \/ TimedOut(t) PROVE Dated'
  <2>1. job[t].at = "deliver" /\ Remembers /\ \E f : Follows(t, f)
    BY <1>r, <1>6, HandDoes
  <2>2. job'[t].at # "second" /\ \A u \in Threads : u # t => job'[u] = job[u]
    BY <2>1 DEF Follows, Ends, Turns
  <2> QED
    BY <1>6, <2>1, <2>2, DatedElsewhere DEF Delivered, Undelivered, TimedOut
<1>7. ASSUME NEW t \in Threads, Dispatch(t) \/ Route(t) PROVE Dated'
  <2>1. job[t].at # "second" /\ mark' = mark
    BY <1>7 DEF Dispatch, Route, Busy
  <2>2. ASSUME NEW l \in Lists, Begin(t, l)
        PROVE  Remembers /\ job'[t].at # "second" /\ \A u \in Threads : u # t => job'[u] = job[u]
    <3>1. Turns(t, "dispatch", "first", l, TRUE, l, <<>>) /\ Remembers
      BY <2>2, BeginDoes
    <3> QED
      BY <3>1 DEF Turns
  <2>3. ASSUME End(t), odds' = odds
        PROVE  Remembers /\ job'[t].at # "second" /\ \A u \in Threads : u # t => job'[u] = job[u]
    BY <1>j, <1>r, <2>3, Writes DEF Ends, Turns
  <2> QED
    BY <1>7, <2>1, <2>2, <2>3, DatedElsewhere DEF Dispatch, Route
<1>8. ASSUME NEW t \in Threads, NEW kind \in {"post", "notice", "poll"}, NEW l, NEW v,
             Turns(t, kind, "first", l, v, <<>>, <<>>), job[t].at = "idle", mark' = mark, Remembers
      PROVE  Dated'
  <2>1. job'[t].at # "second" /\ \A u \in Threads : u # t => job'[u] = job[u]
    BY <1>8 DEF Turns
  <2> QED
    BY <1>8, <2>1, DatedElsewhere
<1>9. ASSUME NEW t \in Threads, Poll(t) PROVE Dated'
  <2>1. /\ job[t].at = "idle" /\ mark' = mark /\ odds' = odds
        /\ \E l \in Seq(Agents) : Turns(t, "poll", "first", l, FALSE, <<>>, <<>>)
    BY <1>9, OthersDo
  <2> QED
    BY <1>r, <1>8, <2>1
<1>10. ASSUME NEW t \in Threads, NEW a \in Agents, Post(t, a) PROVE Dated'
  BY <1>8, <1>10, OthersDo
<1>11. ASSUME NEW t \in Threads, NEW a \in Agents, Notice(t, a) PROVE Dated'
  <2>1. /\ job[t].at = "idle" /\ mark' = mark /\ Remembers
        /\ \E v \in BOOLEAN : Turns(t, "notice", "first", <<a>>, v, <<>>, <<>>)
    BY <1>11, OthersDo
  <2> QED
    BY <1>8, <2>1
<1>12. CASE TimePasses
  <2>1. /\ Remembers /\ job' = job
        /\ \A a \in Agents :
              /\ mark'[a].typing = mark[a].typing
              /\ mark'[a].since = IF mark[a].since = "fresh" THEN "old" ELSE mark[a].since
    BY <1>12, TimeDoes
  <2> SUFFICES ASSUME NEW a \in Agents, odds'[a] < Torn PROVE DatedAgent(a)'
    BY DEF Dated
  <2>2. mark'[a].typing = mark[a].typing /\ (mark'[a].since = "none" => mark[a].since = "none")
    BY <2>1
  <2>3. \A u \in Threads : Between(u, a)' <=> Between(u, a)
    BY <2>1 DEF Between, Current
  <2> QED
    BY <2>1, <2>2, <2>3, StillDated
<1>13. CASE Crash
  <2>1. /\ mark' = stored /\ \A t \in Threads : job'[t] = Idle
        /\ \A a \in Agents : odds'[a] < Torn => ~ (stored[a].typing /\ stored[a].since = "none")
    BY <1>13, CrashDoes
  <2>2. \A t \in Threads, a \in Agents : ~Between(t, a)'
    BY <2>1 DEF Between, Idle, Job
  <2> QED
    BY <2>1, <2>2 DEF Dated, DatedAgent
<1>14. CASE ReminderLoads \/ ReminderSaves
  <2>1. mark' = mark /\ job' = job /\ odds' = odds
    BY <1>14, RemindersDo
  <2> QED
    BY <2>1 DEF Dated, DatedAgent, Between, Current
<1>15. CASE UNCHANGED vars
  BY <1>15 DEF vars, Dated, DatedAgent, Between, Current
<1> QED
  BY <1>1, <1>2, <1>3, <1>4, <1>5, <1>6, <1>7, <1>9, <1>10, <1>11, <1>12, <1>13,
     <1>14, <1>15 DEF Next, Serve

\* For any roster and threads: a mark without a time to expire by is the work
\* of two requests at once, or of a restart from between two writes.
THEOREM UndatedNeedsRaceAlways == Spec => []UndatedNeedsRace
<1>1. Dated => UndatedNeedsRace
  BY DEF Dated, DatedAgent, UndatedNeedsRace
<1> QED
  BY <1>1, StatusShapes, DatedInit, DatedStep, PTL DEF Spec

-----------------------------------------------------------------------------
(* Who is shown as busy has work to do, or a request will see to it.       *)

\* The request of t is yet to hand a message to a, or to clear a's mark.
Owes(t, a) ==
    LET j == job[t]
    IN \/ j.kind = "dispatch" /\ j.at # "deliver" /\ j.value /\ a \in Range(j.targets)
       \/ j.kind = "dispatch" /\ j.at = "deliver" /\ a \in Range(j.todo) \cup Range(j.failed)
       \/ j.kind = "dispatch" /\ ~j.value /\ j.at = "first" /\ a \in Range(j.todo)
       \/ j.kind = "dispatch" /\ ~j.value /\ a \in Range(Tail(j.todo))
       \/ j.kind = "post" /\ j.at = "first" /\ a = Current(t)

\* Who gives notice is at work until its notice is over.
Noticed ==
    \A t \in Threads : job[t].kind = "notice" => \A a \in Range(job[t].todo) : work[a] > 0

Excused ==
    \A a \in Agents :
        odds[a] < Aborted /\ mark[a].typing => work[a] > 0 \/ \E t \in Threads : Owes(t, a)

ExcuseInv == Noticed /\ Excused

\* What is owed is unsettled, and about the agent.
LEMMA OwesMeans ==
    ASSUME Types, NEW t \in Threads, NEW a \in Agents, Owes(t, a)
    PROVE  a \in Unsettled(t) /\ About(t, a)
<1> DEFINE j == job[t]
<1>1. j.kind = "dispatch" \/ j.kind = "post"
  BY DEF Owes, Types, Jobs
<1>2. Shape(j) /\ j.value \in BOOLEAN /\ j.at # "idle"
  BY <1>1 DEF Types, Jobs, JobSet, Shape
<1>3. Range(j.todo) = {Current(t)} \cup Range(Tail(j.todo))
  BY <1>2, CurrentAgent
<1>4. CASE j.kind = "dispatch"
  <2>1. Range(j.todo) \subseteq Range(j.targets) /\ Range(j.failed) \subseteq Range(j.targets)
    BY <1>2, <1>4 DEF Shape, DispatchShape
  <2>2. About(t, a)
    BY <1>2, <1>3, <1>4, <2>1 DEF Owes, About, Busy
  <2>3. CASE j.at = "deliver"
    <3>1. j.value
      BY <1>2, <2>3 DEF Shape
    <3> QED
      BY <1>3, <1>4, <2>2, <2>3, <3>1 DEF Owes, Unsettled
  <2>4. CASE j.at # "deliver" /\ j.value
    BY <1>4, <2>2, <2>4 DEF Owes, Unsettled
  <2>5. CASE j.at # "deliver" /\ ~j.value
    BY <1>3, <1>4, <2>2, <2>5 DEF Owes, Unsettled
  <2> QED
    BY <2>3, <2>4, <2>5
<1>5. CASE j.kind = "post"
  BY <1>2, <1>3, <1>5 DEF Owes, Unsettled, About, Busy
<1> QED
  BY <1>1, <1>4, <1>5

\* A step of t after which it owes as much as before, or the work is there, or
\* the mark is gone.
LEMMA StillExcused ==
    ASSUME Types, Types', Excused, Remembers, NEW t \in Threads,
           \A u \in Threads : u # t => job'[u] = job[u],
           NEW a \in Agents, odds'[a] < Aborted, mark'[a].typing,
           mark[a].typing,
           work'[a] >= work[a] \/ work'[a] > 0 \/ Owes(t, a)',
           Owes(t, a) => Owes(t, a)' \/ work'[a] > 0
    PROVE  work'[a] > 0 \/ \E u \in Threads : Owes(u, a)'
<1>1. odds[a] < Aborted
  BY DEF Types, Remembers, Plain, Aborted, Torn
<1>2. work[a] > 0 \/ \E u \in Threads : Owes(u, a)
  BY <1>1 DEF Excused
<1>3. \A u \in Threads : u # t /\ Owes(u, a) => Owes(u, a)'
  BY DEF Owes, Current
<1>4. work[a] \in Nat /\ work'[a] \in Nat
  BY DEF Types
<1>5. CASE work[a] > 0 /\ work'[a] >= work[a]
  BY <1>4, <1>5
<1> QED
  BY <1>2, <1>3, <1>5

\* A step of t during which no mark is set, and all that t owed is still owed.
LEMMA ExcusedElsewhere ==
    ASSUME Types, Types', ExcuseInv, Remembers, NEW t \in Threads,
           \A u \in Threads : u # t => job'[u] = job[u],
           job'[t].kind = "notice" => \A a \in Range(job'[t].todo) : work[a] > 0,
           \A a \in Agents : mark'[a].typing => mark[a].typing,
           \A a \in Agents : work'[a] >= work[a],
           \A a \in Agents : Owes(t, a) =>
              Owes(t, a)' \/ work'[a] > 0 \/ odds'[a] >= Aborted \/ ~mark'[a].typing
    PROVE  ExcuseInv'
<1>1. Noticed'
  <2> SUFFICES ASSUME NEW u \in Threads, job'[u].kind = "notice", NEW a \in Range(job'[u].todo)
               PROVE  work'[a] > 0
    BY DEF Noticed
  <2>1. work[a] > 0
    BY DEF ExcuseInv, Noticed
  <2>2. a \in Agents
    <3>1. job'[u] \in JobSet /\ Shape(job'[u])
      BY DEF Types, Jobs
    <3>2. job'[u].todo \in Seq(Agents) /\ job'[u].todo # <<>>
      BY <3>1 DEF JobSet, Shape
    <3> QED
      BY <3>2, HeadAndTail
  <2>3. work[a] \in Nat /\ work'[a] \in Nat
    BY <2>2 DEF Types
  <2> QED
    BY <2>1, <2>2, <2>3
<1>2. Excused'
  <2> SUFFICES ASSUME NEW a \in Agents, odds'[a] < Aborted, mark'[a].typing
               PROVE  work'[a] > 0 \/ \E u \in Threads : Owes(u, a)'
    BY DEF Excused
  <2>1. ~ (odds'[a] >= Aborted)
    BY DEF Types, Plain, Aborted, Torn
  <2> QED
    BY <2>1, StillExcused DEF ExcuseInv
<1> QED
  BY <1>1, <1>2 DEF ExcuseInv

LEMMA ExcuseInit == Init => ExcuseInv
  BY DEF Init, ExcuseInv, Noticed, Excused, Idle, Job, Free

LEMMA SameOdds == Types /\ odds' = odds => Remembers
  BY DEF Types, Remembers, Plain, Torn

LEMMA FirstExcused ==
    ASSUME Types, Types', ExcuseInv, NEW t \in Threads, First(t)
    PROVE  ExcuseInv'
<1> DEFINE j == job[t]
           c == Current(t)
<1>1. /\ c \in Agents /\ j.value \in BOOLEAN /\ mark'[c].typing = j.value
      /\ \A b \in Agents : b # c => mark'[b] = mark[b]
      /\ Remembers /\ j.at = "first" /\ work' = work
      /\ Goes(t, "second", j.todo)
  BY FirstDoes DEF First
<1>2. /\ job'[t].at = "second" /\ job'[t].todo = j.todo /\ job'[t].value = j.value
      /\ job'[t].kind = j.kind /\ job'[t].targets = j.targets /\ job'[t].failed = j.failed
      /\ \A u \in Threads : u # t => job'[u] = job[u]
  BY <1>1 DEF Goes, Turns
<1>3. Shape(j) /\ Range(j.todo) = {c} \cup Range(Tail(j.todo)) /\ Range(j.todo) \subseteq Agents
  BY <1>1, CurrentAgent DEF Types, Jobs
<1>4. \A a \in Agents : work[a] \in Nat
  BY DEF Types
<1>5. \A a \in Agents : Owes(t, a) => Owes(t, a)' \/ (~j.value /\ a = c)
  <2> SUFFICES ASSUME NEW a \in Agents, Owes(t, a) PROVE Owes(t, a)' \/ (~j.value /\ a = c)
    OBVIOUS
  <2>1. CASE j.kind = "dispatch" /\ j.value
    BY <1>1, <1>2, <2>1 DEF Owes
  <2>2. CASE j.kind = "dispatch" /\ ~j.value
    BY <1>1, <1>2, <1>3, <2>2 DEF Owes
  <2>3. CASE j.kind = "post"
    BY <1>1, <1>3, <2>3 DEF Owes, Shape
  <2> QED
    BY <2>1, <2>2, <2>3 DEF Owes
<1> HIDE DEF c
<1>6. Noticed'
  BY <1>1, <1>2 DEF ExcuseInv, Noticed
<1>7. Excused'
  <2> SUFFICES ASSUME NEW a \in Agents, odds'[a] < Aborted, mark'[a].typing
               PROVE  work'[a] > 0 \/ \E u \in Threads : Owes(u, a)'
    BY DEF Excused
  <2>1. CASE a = c /\ j.kind = "dispatch"
    <3>1. j.value /\ a \in Range(j.targets)
      BY <1>1, <1>3, <2>1 DEF Shape, DispatchShape
    <3> QED
      BY <1>2, <2>1, <3>1 DEF Owes
  <2>2. CASE a = c /\ j.kind # "dispatch"
    <3>1. j.value
      BY <1>1, <2>2
    <3>2. j.kind = "notice"
      BY <1>1, <1>3, <2>2, <3>1 DEF Shape, Types, Jobs, JobSet
    <3> QED
      BY <1>1, <1>3, <2>2, <3>2 DEF ExcuseInv, Noticed
  <2>3. CASE a # c
    <3>1. mark[a].typing /\ work'[a] >= work[a]
      BY <1>1, <1>4, <2>3
    <3>2. Owes(t, a) => Owes(t, a)'
      BY <1>5, <2>3
    <3> QED
      BY <1>1, <1>2, <3>1, <3>2, StillExcused DEF ExcuseInv
  <2> QED
    BY <2>1, <2>2, <2>3
<1> QED
  BY <1>6, <1>7 DEF ExcuseInv

LEMMA SaveExcused ==
    ASSUME Types, Types', ExcuseInv, NEW t \in Threads, SaveClose(t)
    PROVE  ExcuseInv'
<1> DEFINE j == job[t]
           rest == Tail(j.todo)
<1>1. j.at = "dump" /\ mark' = mark /\ odds' = odds /\ work' = work
  BY DEF SaveClose
<1>2. /\ Shape(j) /\ Range(j.todo) = {Current(t)} \cup Range(rest)
      /\ \A a \in Agents : work[a] \in Nat /\ odds[a] \in Plain..Torn
      /\ rest \in Seq(Agents)
  BY <1>1, CurrentAgent DEF Types, Jobs
<1>3. Remembers
  BY <1>1, SameOdds
<1>4. /\ \A u \in Threads : u # t => job'[u] = job[u]
      /\ job'[t].kind = "notice" => j.kind = "notice" /\ Range(job'[t].todo) \subseteq Range(j.todo)
      /\ \A a \in Agents : Owes(t, a) => Owes(t, a)'
  <2>1. CASE j.kind # "poll" /\ Goes(t, "first", rest)
    <3>1. /\ job'[t].at = "first" /\ job'[t].todo = rest /\ job'[t].value = j.value
          /\ job'[t].kind = j.kind /\ job'[t].targets = j.targets
          /\ \A u \in Threads : u # t => job'[u] = job[u]
      BY <2>1 DEF Goes, Turns
    <3>2. \A a \in Agents : Owes(t, a) => Owes(t, a)'
      BY <1>1, <1>2, <3>1 DEF Owes
    <3> QED
      BY <1>2, <3>1, <3>2
  <2>2. CASE j.kind = "dispatch" /\ j.value /\ Goes(t, "deliver", j.targets)
    <3>1. /\ job'[t].at = "deliver" /\ job'[t].todo = j.targets /\ job'[t].value = j.value
          /\ job'[t].kind = j.kind
          /\ \A u \in Threads : u # t => job'[u] = job[u]
      BY <2>2 DEF Goes, Turns
    <3>2. \A a \in Agents : Owes(t, a) => Owes(t, a)'
      BY <1>1, <2>2, <3>1 DEF Owes
    <3> QED
      BY <2>2, <3>1, <3>2
  <2>3. CASE j.kind = "post" /\ Goes(t, "route", j.todo)
    BY <1>1, <2>3 DEF Goes, Turns, Owes
  <2>4. CASE (j.kind = "poll" \/ (rest = <<>> /\ j.kind # "post" /\ ~ (j.kind = "dispatch" /\ j.value)))
             /\ Ends(t)
    <3>1. Range(<<>>) = {}
      BY DEF Range
    <3>2. j.kind = "dispatch" => ~j.value /\ Range(rest) = {}
      BY <2>4, <3>1
    <3>3. \A a \in Agents : ~Owes(t, a)
      BY <1>1, <3>2 DEF Owes
    <3>4. job'[t].kind = "none" /\ \A u \in Threads : u # t => job'[u] = job[u]
      BY <2>4 DEF Ends, Turns
    <3> QED
      BY <3>3, <3>4
  <2> QED
    BY <2>1, <2>2, <2>3, <2>4, SaveMoves
<1>5. job'[t].kind = "notice" => \A a \in Range(job'[t].todo) : work[a] > 0
  BY <1>4 DEF ExcuseInv, Noticed
<1>6. \A a \in Agents : work'[a] >= work[a]
  BY <1>1, <1>2
<1> QED
  BY <1>1, <1>3, <1>4, <1>5, <1>6, ExcusedElsewhere

LEMMA HandExcused ==
    ASSUME Types, Types', ExcuseInv, NEW t \in Threads, Delivered(t) \/ Undelivered(t) \/ TimedOut(t)
    PROVE  ExcuseInv'
<1> DEFINE j == job[t]
           rest == Tail(j.todo)
<1>1. /\ \A a \in Agents : work[a] \in Nat /\ odds[a] \in Plain..Torn
      /\ odds \in [Agents -> Plain..Torn] /\ j \in JobSet /\ Shape(j)
  BY DEF Types, Jobs
<1>2. /\ j.at = "deliver" /\ Current(t) \in Agents /\ Remembers /\ mark' = mark
      /\ \A a \in Agents : work'[a] >= work[a]
  <2>1. j.at = "deliver" /\ Current(t) \in Agents /\ Remembers /\ mark' = mark
    BY HandDoes, SameOdds DEF Delivered, Undelivered, TimedOut
  <2>2. /\ work' = work \/ work'[Current(t)] = work[Current(t)] + 1
        /\ \A b \in Agents : b # Current(t) => work'[b] = work[b]
    BY HandDoes
  <2> QED
    BY <1>1, <2>1, <2>2
<1>3. /\ Range(j.todo) = {Current(t)} \cup Range(rest) /\ j.failed \in Seq(Agents) /\ j.value
      /\ Range(<<>>) = {} /\ j.kind = "dispatch"
  <2>1. Range(j.todo) = {Current(t)} \cup Range(rest)
    BY <1>2, CurrentAgent
  <2>2. j.failed \in Seq(Agents) /\ j.value /\ j.kind = "dispatch"
    BY <1>1, <1>2 DEF JobSet, Shape
  <2>3. Range(<<>>) = {}
    BY DEF Range
  <2> QED
    BY <2>1, <2>2, <2>3
<1>4. \E f \in {j.failed, Append(j.failed, Current(t))} :
         /\ Follows(t, f) /\ Range(j.failed) \subseteq Range(f)
         /\ Current(t) \in Range(f) \/ work'[Current(t)] > 0
  <2>1. Range(Append(j.failed, Current(t))) = Range(j.failed) \cup {Current(t)}
    BY <1>2, <1>3, RangeAppend
  <2>2. CASE Delivered(t)
    <3>1. Follows(t, j.failed) /\ work'[Current(t)] > 0
      BY <1>1, <1>2, <2>2, HandDoes
    <3> QED
      BY <3>1
  <2>3. CASE Undelivered(t) \/ TimedOut(t)
    BY <2>1, <2>3, HandDoes
  <2> QED
    BY <2>2, <2>3
<1>5. PICK f : /\ Follows(t, f) /\ Range(j.failed) \subseteq Range(f)
               /\ Current(t) \in Range(f) \/ work'[Current(t)] > 0
  BY <1>4
<1>6. \A u \in Threads : u # t => job'[u] = job[u]
  BY <1>5 DEF Follows, Ends, Turns
<1>7. job'[t].kind # "notice"
  BY <1>3, <1>5 DEF Follows, Ends, Turns
<1>8. ASSUME NEW a \in Agents, Owes(t, a) PROVE Owes(t, a)' \/ work'[a] > 0
  <2>1. a \in {Current(t)} \cup Range(rest) \cup Range(j.failed)
    BY <1>2, <1>3, <1>8 DEF Owes
  <2>2. a \in Range(rest) \cup Range(f) \/ work'[a] > 0
    BY <1>5, <2>1
  <2>3. CASE rest # <<>> /\ Turns(t, j.kind, j.at, rest, j.value, j.targets, f)
    <3>1. job'[t].kind = "dispatch" /\ job'[t].at = "deliver" /\ job'[t].todo = rest /\ job'[t].failed = f
      BY <1>2, <1>3, <2>3 DEF Turns
    <3> QED
      BY <2>2, <3>1 DEF Owes
  <2>4. CASE rest = <<>> /\ f = <<>> /\ Ends(t)
    BY <1>3, <2>2, <2>4
  <2>5. CASE rest = <<>> /\ f # <<>> /\ Turns(t, j.kind, "first", f, FALSE, j.targets, f)
    <3>1. job'[t].kind = "dispatch" /\ job'[t].at = "first" /\ job'[t].todo = f /\ ~job'[t].value
      BY <1>3, <2>5 DEF Turns
    <3>2. a \in Range(f) \/ work'[a] > 0
      BY <1>3, <2>2, <2>5
    <3> QED
      BY <3>1, <3>2 DEF Owes
  <2> QED
    BY <1>5, <2>3, <2>4, <2>5 DEF Follows
<1> QED
  BY <1>2, <1>6, <1>7, <1>8, ExcusedElsewhere

LEMMA PostExcused ==
    ASSUME Types, Types', ExcuseInv, NEW t \in Threads, NEW b \in Agents, Post(t, b)
    PROVE  ExcuseInv'
<1>1. /\ Turns(t, "post", "first", <<b, b>>, FALSE, <<>>, <<>>)
      /\ job[t].at = "idle" /\ Quiet(b)
      /\ \A a \in Agents : a # b => work'[a] = work[a]
      /\ mark' = mark /\ Remembers
  BY OthersDo
<1>2. /\ job'[t].kind = "post" /\ job'[t].at = "first" /\ job'[t].todo = <<b, b>>
      /\ \A u \in Threads : u # t => job'[u] = job[u]
  BY <1>1 DEF Turns
<1>3. Noticed'
  <2> SUFFICES ASSUME NEW u \in Threads, job'[u].kind = "notice", NEW a \in Range(job'[u].todo)
               PROVE  work'[a] > 0
    BY DEF Noticed
  <2>1. u # t /\ job'[u] = job[u]
    BY <1>2
  <2>2. job[u] \in JobSet /\ Shape(job[u])
    BY DEF Types, Jobs
  <2>3. job[u].at # "idle" /\ a \in Range(job[u].todo) /\ job[u].kind = "notice"
    BY <2>1, <2>2 DEF Shape
  <2>4. About(u, a) /\ a \in Agents
    BY <2>3, CurrentAgent DEF About, Busy
  <2>5. a # b
    BY <1>1, <2>3, <2>4 DEF Quiet
  <2>6. work[a] > 0
    BY <2>3 DEF ExcuseInv, Noticed
  <2> QED
    BY <1>1, <2>4, <2>5, <2>6
<1>4. Owes(t, b)'
  <2>1. Head(<<b, b>>) = b
    BY OneAgent
  <2> QED
    BY <1>2, <2>1 DEF Owes, Current
<1>5. \A a \in Agents : ~Owes(t, a)
  <2>1. job[t].kind = "none"
    BY <1>1 DEF Types, Jobs, Shape
  <2> QED
    BY <2>1 DEF Owes
<1>6. Excused'
  <2> SUFFICES ASSUME NEW a \in Agents, odds'[a] < Aborted, mark'[a].typing
               PROVE  work'[a] > 0 \/ \E u \in Threads : Owes(u, a)'
    BY DEF Excused
  <2>1. CASE a = b
    BY <1>4, <2>1
  <2>2. CASE a # b
    <3>1. work'[a] >= work[a] /\ mark[a].typing
      BY <1>1, <2>2 DEF Types
    <3> QED
      BY <1>1, <1>2, <1>5, <3>1, StillExcused DEF ExcuseInv
  <2> QED
    BY <2>1, <2>2
<1> QED
  BY <1>3, <1>6 DEF ExcuseInv

LEMMA ExcuseStep == Types /\ Types' /\ ExcuseInv /\ [Next]_vars => ExcuseInv'
<1> SUFFICES ASSUME Types, Types', ExcuseInv, [Next]_vars PROVE ExcuseInv'
  OBVIOUS
<1> USE DEF countVars, historyVars, requestVars
<1>j. job \in [Threads -> JobSet] /\ \A t \in Threads : Shape(job[t])
  BY DEF Types, Jobs
<1>w. \A a \in Agents : work[a] \in Nat
  BY DEF Types
<1>1. ASSUME NEW t \in Threads, First(t) PROVE ExcuseInv'
  BY <1>1, FirstExcused
<1>2. ASSUME NEW t \in Threads, Second(t) \/ SaveOpen(t) PROVE ExcuseInv'
  <2>0. PICK at \in {"save", "first", "dump"} :
           \E todo : Goes(t, at, todo) /\ (job[t].kind = "poll" \/ (at # "first" /\ todo = job[t].todo))
    BY <1>j, <1>2, SecondMoves, Writes
  <2>1. PICK todo : Goes(t, at, todo) /\ (job[t].kind = "poll" \/ (at # "first" /\ todo = job[t].todo))
    BY <2>0
  <2>2. /\ job'[t].at = at /\ job'[t].todo = todo /\ job'[t].kind = job[t].kind
        /\ job'[t].value = job[t].value /\ job'[t].targets = job[t].targets
        /\ \A u \in Threads : u # t => job'[u] = job[u]
    BY <2>1 DEF Goes, Turns
  <2>3. job[t].at \in {"second", "save"} /\ work' = work
    BY <1>2 DEF Second, SaveOpen
  <2>4. Remembers /\ \A a \in Agents : mark'[a].typing = mark[a].typing
    <3>1. CASE Second(t)
      BY <3>1, SecondDoes
    <3>2. CASE SaveOpen(t)
      BY <3>2, SameOdds DEF SaveOpen
    <3> QED
      BY <1>2, <3>1, <3>2
  <2>5. \A a \in Agents : Owes(t, a) => Owes(t, a)'
    BY <2>1, <2>2, <2>3 DEF Owes
  <2>6. job'[t].kind = "notice" => \A a \in Range(job'[t].todo) : work[a] > 0
    BY <2>1, <2>2 DEF ExcuseInv, Noticed
  <2>7. \A a \in Agents : work'[a] >= work[a]
    BY <1>w, <2>3
  <2> QED
    BY <2>2, <2>4, <2>5, <2>6, <2>7, ExcusedElsewhere
<1>3. ASSUME NEW t \in Threads, SaveClose(t) PROVE ExcuseInv'
  BY <1>3, SaveExcused
<1>4. ASSUME NEW t \in Threads, SaveFails(t) \/ DispatcherRaises(t) PROVE ExcuseInv'
  <2>1. Ends(t) /\ Remembers /\ \A a \in Agents : a \in Unsettled(t) => Aborted <= odds'[a]
    BY <1>4, AbortDoes
  <2>2. job'[t].kind = "none" /\ \A u \in Threads : u # t => job'[u] = job[u]
    BY <2>1 DEF Ends, Turns
  <2>3. mark' = mark /\ work' = work
    BY <1>4 DEF SaveFails, DispatcherRaises
  <2>4. \A a \in Agents : Owes(t, a) => odds'[a] >= Aborted
    BY <2>1, OwesMeans DEF Types, Plain, Aborted, Torn
  <2>5. \A a \in Agents : work'[a] >= work[a]
    BY <1>w, <2>3
  <2> QED
    BY <2>1, <2>2, <2>3, <2>4, <2>5, ExcusedElsewhere
<1>5. ASSUME NEW t \in Threads, Delivered(t) \/ Undelivered(t) \/ TimedOut(t) PROVE ExcuseInv'
  BY <1>5, HandExcused
<1>6. ASSUME NEW t \in Threads, Dispatch(t) \/ Route(t) PROVE ExcuseInv'
  <2>1. job[t].at \in {"idle", "route"} /\ mark' = mark /\ work' = work
    BY <1>6 DEF Dispatch, Route, Busy
  <2>2. job[t].kind \in {"none", "post"}
    BY <1>j, <2>1 DEF Shape
  <2>3. \A a \in Agents : ~Owes(t, a)
    BY <2>1, <2>2 DEF Owes
  <2>4. ASSUME NEW l \in Lists, Begin(t, l)
        PROVE  /\ Remembers /\ job'[t].kind # "notice"
               /\ \A u \in Threads : u # t => job'[u] = job[u]
    <3>1. Turns(t, "dispatch", "first", l, TRUE, l, <<>>) /\ Remembers
      BY <2>4, BeginDoes
    <3> QED
      BY <3>1 DEF Turns
  <2>5. ASSUME End(t), odds' = odds
        PROVE  /\ Remembers /\ job'[t].kind # "notice"
               /\ \A u \in Threads : u # t => job'[u] = job[u]
    BY <1>j, <2>5, SameOdds, Writes DEF Ends, Turns
  <2>6. /\ Remembers /\ job'[t].kind # "notice" /\ \A u \in Threads : u # t => job'[u] = job[u]
    BY <1>6, <2>4, <2>5 DEF Dispatch, Route
  <2>7. \A a \in Agents : work'[a] >= work[a]
    BY <1>w, <2>1
  <2> QED
    BY <2>1, <2>3, <2>6, <2>7, ExcusedElsewhere
<1>7. ASSUME NEW t \in Threads, Poll(t) PROVE ExcuseInv'
  <2>1. /\ job[t].at = "idle" /\ mark' = mark /\ odds' = odds /\ work' = work
        /\ \E l \in Seq(Agents) : Turns(t, "poll", "first", l, FALSE, <<>>, <<>>)
    BY <1>7, OthersDo
  <2>2. job'[t].kind = "poll" /\ \A u \in Threads : u # t => job'[u] = job[u]
    BY <2>1 DEF Turns
  <2>3. \A a \in Agents : ~Owes(t, a)
    BY <1>j, <2>1 DEF Owes, Shape
  <2>4. \A a \in Agents : work'[a] >= work[a]
    BY <1>w, <2>1
  <2> QED
    BY <2>1, <2>2, <2>3, <2>4, SameOdds, ExcusedElsewhere
<1>8. ASSUME NEW t \in Threads, NEW b \in Agents, Post(t, b) PROVE ExcuseInv'
  BY <1>8, PostExcused
<1>9. ASSUME NEW t \in Threads, NEW b \in Agents, Notice(t, b) PROVE ExcuseInv'
  <2>1. /\ job[t].at = "idle" /\ mark' = mark /\ Remembers /\ work' = work /\ work[b] > 0
        /\ \E v \in BOOLEAN : Turns(t, "notice", "first", <<b>>, v, <<>>, <<>>)
    BY <1>9, OthersDo
  <2>2. job'[t].todo = <<b>> /\ \A u \in Threads : u # t => job'[u] = job[u]
    BY <2>1 DEF Turns
  <2>3. \A a \in Range(job'[t].todo) : work[a] > 0
    BY <2>1, <2>2, OneAgent
  <2>4. \A a \in Agents : ~Owes(t, a)
    BY <1>j, <2>1 DEF Owes, Shape
  <2>5. \A a \in Agents : work'[a] >= work[a]
    BY <1>w, <2>1
  <2> QED
    BY <2>1, <2>2, <2>3, <2>4, <2>5, ExcusedElsewhere
<1>10. CASE TimePasses
  <2>1. /\ Remembers /\ job' = job /\ work' = work
        /\ \A a \in Agents : mark'[a].typing = mark[a].typing
    BY <1>10, TimeDoes
  <2>2. \A u \in Threads, a \in Agents : Owes(u, a) => Owes(u, a)'
    BY <2>1 DEF Owes, Current
  <2>3. \A a \in Agents : odds'[a] < Aborted => odds[a] < Aborted
    BY <2>1 DEF Types, Remembers, Plain, Aborted, Torn
  <2> QED
    BY <2>1, <2>2, <2>3 DEF ExcuseInv, Noticed, Excused
<1>11. CASE Crash
  <2>1. /\ Remembers /\ work' = work /\ \A t \in Threads : job'[t] = Idle
        /\ \A a \in Agents : odds'[a] < Aborted =>
              mark'[a] = mark[a] /\ \A t \in Threads : a \notin Unsettled(t)
    BY <1>11, CrashDoes
  <2>2. \A a \in Agents : odds'[a] < Aborted => odds[a] < Aborted
    BY <2>1 DEF Types, Remembers, Plain, Aborted, Torn
  <2>3. Noticed'
    BY <2>1 DEF Noticed, Idle, Job
  <2>4. ASSUME NEW a \in Agents, odds'[a] < Aborted, mark'[a].typing PROVE work'[a] > 0
    <3>1. work[a] > 0 \/ \E t \in Threads : Owes(t, a)
      BY <2>1, <2>2, <2>4 DEF ExcuseInv, Excused
    <3>2. \A t \in Threads : ~Owes(t, a)
      BY <2>1, <2>4, OwesMeans
    <3> QED
      BY <2>1, <3>1, <3>2
  <2> QED
    BY <2>3, <2>4 DEF ExcuseInv, Excused
<1>12. CASE ReminderLoads \/ ReminderSaves
  <2>1. mark' = mark /\ job' = job /\ work' = work /\ odds' = odds
    BY <1>12, RemindersDo
  <2> QED
    BY <2>1 DEF ExcuseInv, Noticed, Excused, Owes, Current
<1>13. CASE UNCHANGED vars
  BY <1>13 DEF vars, ExcuseInv, Noticed, Excused, Owes, Current
<1> QED
  BY <1>1, <1>2, <1>3, <1>4, <1>5, <1>6, <1>7, <1>8, <1>9, <1>10, <1>11, <1>12,
     <1>13 DEF Next, Serve

\* For any roster and threads: an agent that has answered everything it was
\* handed is not shown as busy, once the requests about it are over.
THEOREM AnsweredIsIdleAlways == Spec => []AnsweredIsIdle
<1>1. Types /\ ExcuseInv => AnsweredIsIdle
  <2> SUFFICES ASSUME Types, ExcuseInv, NEW a \in Agents, odds[a] < Aborted, work[a] = 0,
                      \A t \in Threads : ~About(t, a), mark[a].typing
               PROVE  FALSE
    BY DEF AnsweredIsIdle
  <2>1. \E t \in Threads : Owes(t, a)
    BY DEF ExcuseInv, Excused
  <2> QED
    BY <2>1, OwesMeans
<1> QED
  BY <1>1, StatusShapes, ExcuseInit, ExcuseStep, PTL DEF Spec

-----------------------------------------------------------------------------
(* As long as nothing out of the ordinary happened about an agent, it is   *)
(* shown as busy while it is at work.                                      *)

\* The dispatch of t has a for itself, to hand the message to or to unmark.
Reserved(t, a) == Pending(t, a) \/ a \in Range(job[t].failed)

\* An agent's own request.
Speaks(t, a) == job[t].kind \in {"post", "notice"} /\ a \in Range(job[t].todo)

\* A poll is about to clear the mark of a.
Clears(t, a) == job[t].kind = "poll" /\ job[t].at \in {"first", "second"} /\ Current(t) = a

\* The dispatch of t has marked a.
Written(t, a) ==
    /\ Pending(t, a)
    /\ \/ job[t].at = "deliver"
       \/ a \notin Range(job[t].todo)
       \/ job[t].at \in {"second", "save", "dump"} /\ a = Current(t)

\* One dispatch at a time, one message at a time, and what an agent sends while
\* it works on a message comes neither before it was handed over nor after the
\* answer.
Orderly(a) ==
    /\ \A t, u \in Threads :
          a \in Range(job[t].targets) /\ a \in Range(job[u].targets) => t = u
    /\ \A t \in Threads : Reserved(t, a) => work[a] = 0 /\ \A u \in Threads : ~Speaks(u, a)
    /\ work[a] <= 1
    /\ \A t \in Threads :
          Speaks(t, a) => IF job[t].kind = "post" THEN work[a] = 0 ELSE job[t].value
    /\ \A t \in Threads : ~Clears(t, a)

\* The mark is there before the message is, is never old, and a mark that was
\* taken away has left no time behind that would make the next one old.
Shown(a) ==
    /\ \A t \in Threads : Written(t, a) => mark[a].typing
    /\ mark[a].typing => mark[a].since # "old"
    /\ ~mark[a].typing => mark[a].since = "none" \/ \E t \in Threads : Between(t, a)
    /\ work[a] > 0 => mark[a].typing

Plainly == \A a \in Agents : odds[a] = Plain => Orderly(a) /\ Shown(a)

\* A step of t that neither takes a up nor changes its work.
LEMMA StillOrderly ==
    ASSUME NEW a \in Agents, Orderly(a), NEW t \in Threads,
           \A u \in Threads : u # t => job'[u] = job[u],
           work'[a] = work[a],
           a \in Range(job'[t].targets) => a \in Range(job[t].targets),
           Reserved(t, a)' => Reserved(t, a),
           Speaks(t, a)' => /\ Speaks(t, a)
                            /\ job'[t].kind = job[t].kind /\ job'[t].value = job[t].value,
           ~Clears(t, a)'
    PROVE  Orderly(a)'
<1>1. \A u \in Threads : u # t =>
        /\ Reserved(u, a)' <=> Reserved(u, a)
        /\ Speaks(u, a)' <=> Speaks(u, a)
        /\ Clears(u, a)' <=> Clears(u, a)
  BY DEF Reserved, Pending, Speaks, Clears, Current
<1>2. \A u \in Threads : Reserved(u, a)' => Reserved(u, a)
  BY <1>1
<1>3. \A u \in Threads : Speaks(u, a)' =>
        Speaks(u, a) /\ job'[u].kind = job[u].kind /\ job'[u].value = job[u].value
  BY <1>1
<1>4. \A u \in Threads : ~Clears(u, a)'
  BY <1>1 DEF Orderly
<1>5. \A u, v \in Threads :
        a \in Range(job'[u].targets) /\ a \in Range(job'[v].targets) => u = v
  <2>1. \A u \in Threads : a \in Range(job'[u].targets) => a \in Range(job[u].targets)
    OBVIOUS
  <2> QED
    BY <2>1 DEF Orderly
<1> QED
  BY <1>2, <1>3, <1>4, <1>5 DEF Orderly

\* A step of t that leaves a's mark alone.
LEMMA StillShown ==
    ASSUME NEW a \in Agents, Shown(a), NEW t \in Threads,
           \A u \in Threads : u # t => job'[u] = job[u],
           work'[a] = work[a] \/ work'[a] = 0, mark'[a] = mark[a],
           Written(t, a)' => Written(t, a),
           Between(t, a) => Between(t, a)'
    PROVE  Shown(a)'
<1>1. \A u \in Threads : u # t =>
        (Written(u, a)' <=> Written(u, a)) /\ (Between(u, a)' <=> Between(u, a))
  BY DEF Written, Pending, Between, Current
<1>2. \A u \in Threads : Written(u, a)' => Written(u, a)
  BY <1>1
<1>3. \A u \in Threads : Between(u, a) => Between(u, a)'
  BY <1>1
<1> QED
  BY <1>2, <1>3 DEF Shown

\* A request that goes on with the agents that it has.
LEMMA GoesOrderly ==
    ASSUME Types, NEW a \in Agents, Orderly(a), NEW t \in Threads, NEW at, NEW todo,
           Goes(t, at, todo), job[t].at # "deliver", at # "deliver" \/ todo = job[t].targets,
           job[t].kind \in {"post", "notice"} => Range(todo) \subseteq Range(job[t].todo),
           job[t].kind = "poll" /\ at \in {"first", "second"} => Head(todo) # a,
           work'[a] = work[a]
    PROVE  Orderly(a)'
<1>1. /\ job'[t].kind = job[t].kind /\ job'[t].at = at /\ job'[t].todo = todo
      /\ job'[t].value = job[t].value /\ job'[t].targets = job[t].targets
      /\ job'[t].failed = job[t].failed
      /\ \A u \in Threads : u # t => job'[u] = job[u]
  BY DEF Goes, Turns
<1>2. Reserved(t, a)' => Reserved(t, a)
  <2>1. Pending(t, a)' => Pending(t, a)
    BY GoesPending
  <2> QED
    BY <1>1, <2>1 DEF Reserved
<1>3. Speaks(t, a)' => Speaks(t, a)
  BY <1>1 DEF Speaks
<1>4. ~Clears(t, a)'
  BY <1>1 DEF Clears, Current
<1> QED
  BY <1>1, <1>2, <1>3, <1>4, StillOrderly

\* A request that ends has no agent for itself.
LEMMA EndsPlainly ==
    ASSUME NEW a \in Agents, Orderly(a) /\ Shown(a), NEW t \in Threads, Ends(t),
           work'[a] = work[a], mark'[a] = mark[a], job[t].at # "second"
    PROVE  Orderly(a)' /\ Shown(a)'
<1>1. /\ job'[t].kind = "none" /\ job'[t].targets = <<>> /\ job'[t].failed = <<>>
      /\ \A u \in Threads : u # t => job'[u] = job[u]
  BY DEF Ends, Turns
<1>2. Range(<<>>) = {}
  BY DEF Range
<1>3. ~Pending(t, a)' /\ ~Speaks(t, a)' /\ ~Clears(t, a)'
  BY <1>1 DEF Pending, Speaks, Clears
<1>4. ~Reserved(t, a)' /\ ~Written(t, a)'
  BY <1>1, <1>2, <1>3 DEF Reserved, Written
<1>5. ~Between(t, a)
  BY DEF Between
<1> QED
  BY <1>1, <1>2, <1>3, <1>4, <1>5, StillOrderly, StillShown

LEMMA FirstPlainly ==
    ASSUME Types, Types', NEW a \in Agents, odds[a] = Plain, odds'[a] = Plain,
           Orderly(a) /\ Shown(a), NEW t \in Threads, First(t)
    PROVE  Orderly(a)' /\ Shown(a)'
<1> DEFINE j == job[t]
<1>1. /\ j.at = "first" /\ work' = work
      /\ Goes(t, "second", j.todo)
      /\ \A c \in Agents : c = Current(t) =>
            /\ mark'[c].typing = j.value /\ mark'[c].since = mark[c].since
            /\ \A u \in Threads : u # t /\ Between(u, c) => odds'[c] = Torn
      /\ a # Current(t) => mark'[a] = mark[a]
  BY FirstDoes DEF First
<1>2. /\ j \in JobSet /\ Shape(j) /\ Range(j.todo) = {Current(t)} \cup Range(Tail(j.todo))
  BY <1>1, CurrentAgent DEF Types, Jobs
<1>3. /\ job'[t].kind = j.kind /\ job'[t].at = "second" /\ job'[t].todo = j.todo
      /\ job'[t].value = j.value /\ job'[t].targets = j.targets
      /\ \A u \in Threads : u # t => job'[u] = job[u]
  BY <1>1 DEF Goes, Turns
<1>4. j.kind = "poll" => Current(t) # a
  BY <1>1 DEF Orderly, Clears
<1>5. Orderly(a)'
  BY <1>1, <1>4, GoesOrderly DEF Current
<1>6. CASE a # Current(t)
  <2>1. Written(t, a)' => Written(t, a)
    BY <1>1, <1>3, <1>6 DEF Written, Pending, Current
  <2>2. ~Between(t, a)
    BY <1>1 DEF Between
  <2> QED
    BY <1>1, <1>3, <1>5, <1>6, <2>1, <2>2, StillShown
<1>7. CASE a = Current(t)
  <2>1. /\ mark'[a].typing = j.value /\ mark'[a].since = mark[a].since
        /\ \A u \in Threads : u # t => ~Between(u, a)
        /\ Between(t, a)' /\ a \in Range(j.todo) /\ ~Between(t, a)
    BY <1>1, <1>2, <1>3, <1>7 DEF Between, Current, Plain, Torn
  <2>2. mark'[a].since # "old"
    BY <2>1 DEF Shown
  <2>3. CASE j.value
    BY <1>5, <2>1, <2>2, <2>3 DEF Shown
  <2>4. CASE ~j.value
    <3>1. work[a] = 0 /\ \A u \in Threads : ~Pending(u, a)
      <4>1. CASE j.kind = "dispatch"
        <5>1. a \in Range(j.failed) /\ a \in Range(j.targets)
          BY <1>2, <2>1, <2>4, <4>1 DEF Shape, DispatchShape
        <5>2. \A u \in Threads : Pending(u, a) => a \in Range(job[u].targets)
          BY DEF Pending, Types, Jobs, Shape, DispatchShape
        <5>3. ~Pending(t, a)
          BY <2>4 DEF Pending
        <5> QED
          BY <5>1, <5>2, <5>3 DEF Orderly, Reserved
      <4>2. CASE j.kind # "dispatch"
        <5>1. j.kind \in {"post", "notice"}
          BY <1>1, <1>2, <1>4, <1>7, <4>2 DEF JobSet, Shape
        <5>2. Speaks(t, a)
          BY <2>1, <5>1 DEF Speaks
        <5> QED
          BY <2>4, <5>2 DEF Orderly, Reserved
      <4> QED
        BY <4>1, <4>2
    <3>2. \A u \in Threads : Pending(u, a)' => Pending(u, a)
      BY <1>1, GoesPending
    <3> QED
      BY <1>1, <1>5, <2>1, <2>4, <3>1, <3>2 DEF Shown, Written
  <2> QED
    BY <1>2, <1>5, <2>3, <2>4 DEF JobSet
<1> QED
  BY <1>6, <1>7

LEMMA SecondPlainly ==
    ASSUME Types, Types', Dated, NEW a \in Agents, odds[a] = Plain, odds'[a] = Plain,
           Orderly(a) /\ Shown(a), NEW t \in Threads, Second(t)
    PROVE  Orderly(a)' /\ Shown(a)'
<1> DEFINE j == job[t]
<1>1. /\ j.at = "second" /\ work' = work /\ mark'[a].typing = mark[a].typing
      /\ \A c \in Agents : c = Current(t) => mark'[c].since = IF j.value THEN "fresh" ELSE "none"
      /\ a # Current(t) => mark'[a] = mark[a]
  BY SecondDoes DEF Second
<1>2. j.kind = "poll" => Current(t) # a
  BY <1>1 DEF Orderly, Clears
<1>0. PICK at \in {"save", "first"} :
          \E todo : /\ Goes(t, at, todo)
                    /\ at = "save" => todo = j.todo
                    /\ at = "first" => j.kind = "poll" /\ Expired(mark[Head(todo)])
  BY SecondMoves
<1>3. PICK todo : /\ Goes(t, at, todo)
                  /\ at = "save" => todo = j.todo
                  /\ at = "first" => j.kind = "poll" /\ Expired(mark[Head(todo)])
  BY <1>0
<1>4. /\ job'[t].kind = j.kind /\ job'[t].at = at /\ job'[t].todo = todo
      /\ job'[t].value = j.value /\ job'[t].targets = j.targets
      /\ \A u \in Threads : u # t => job'[u] = job[u]
  BY <1>3 DEF Goes, Turns
<1>5. ~Expired(mark[a])
  BY DEF Shown, Expired
<1>6. Orderly(a)'
  BY <1>1, <1>3, <1>5, GoesOrderly
<1>7. Written(t, a)' => Written(t, a)
  BY <1>1, <1>3, <1>4 DEF Written, Pending, Current
<1>8. CASE a # Current(t)
  <2>1. ~Between(t, a)
    BY <1>8 DEF Between
  <2> QED
    BY <1>1, <1>4, <1>6, <1>7, <1>8, <2>1, StillShown
<1>9. CASE a = Current(t)
  <2>1. mark'[a].since = IF j.value THEN "fresh" ELSE "none"
    BY <1>1, <1>9
  <2>2. Between(t, a)
    BY <1>1, <1>9 DEF Between
  <2>3. mark[a].typing = j.value
    BY <2>2 DEF Dated, DatedAgent, Plain, Torn
  <2>4. \A u \in Threads : u # t => (Written(u, a)' <=> Written(u, a))
    BY <1>4 DEF Written, Pending, Current
  <2>5. \A u \in Threads : Written(u, a)' => Written(u, a)
    BY <1>7, <2>4
  <2> QED
    BY <1>1, <1>6, <2>1, <2>3, <2>5 DEF Shown
<1> QED
  BY <1>8, <1>9

LEMMA SavePlainly ==
    ASSUME Types, NEW a \in Agents, Orderly(a) /\ Shown(a),
           NEW t \in Threads, SaveOpen(t) \/ SaveClose(t)
    PROVE  Orderly(a)' /\ Shown(a)'
<1> DEFINE j == job[t]
           rest == Tail(j.todo)
<1>1. /\ j.at \in {"save", "dump"} /\ work'[a] = work[a] /\ mark'[a] = mark[a]
      /\ SaveClose(t) => j.at = "dump"
  BY DEF SaveOpen, SaveClose
<1>2. /\ Range(j.todo) = {Current(t)} \cup Range(rest) /\ job \in [Threads -> JobSet]
      /\ ~Between(t, a)
  BY <1>1, CurrentAgent DEF Types, Jobs, Between
<1>3. ASSUME NEW at, NEW todo, Goes(t, at, todo),
             \/ at \in {"dump", "route"} /\ todo = j.todo
             \/ at = "first" /\ todo = rest /\ j.kind # "poll" /\ j.at = "dump"
             \/ at = "deliver" /\ todo = j.targets /\ rest = <<>> /\ j.at = "dump" /\ j.kind = "dispatch"
      PROVE  Orderly(a)' /\ Shown(a)'
  <2>1. /\ job'[t].kind = j.kind /\ job'[t].at = at /\ job'[t].todo = todo
        /\ job'[t].value = j.value /\ job'[t].targets = j.targets
        /\ \A u \in Threads : u # t => job'[u] = job[u]
    BY <1>3 DEF Goes, Turns
  <2>2. Orderly(a)'
    BY <1>1, <1>2, <1>3, GoesOrderly
  <2>3. Pending(t, a)' => Pending(t, a)
    BY <1>1, <1>3, GoesPending
  <2>4. rest = <<>> => Range(rest) = {}
    BY DEF Range
  <2>5. Written(t, a)' => Written(t, a)
    BY <1>1, <1>2, <1>3, <2>1, <2>3, <2>4 DEF Written, Current
  <2> QED
    BY <1>1, <1>2, <2>1, <2>2, <2>5, StillShown
<1>4. CASE SaveOpen(t)
  BY <1>2, <1>3, <1>4, Writes
<1>5. CASE SaveClose(t)
  <2>1. CASE Ends(t)
    BY <1>1, <2>1, EndsPlainly
  <2> QED
    BY <1>1, <1>3, <1>5, <2>1, SaveMoves
<1> QED
  BY <1>4, <1>5

LEMMA HandPlainly ==
    ASSUME Types, Types', NEW a \in Agents, odds[a] = Plain, odds'[a] = Plain,
           Orderly(a) /\ Shown(a), NEW t \in Threads, Delivered(t) \/ Undelivered(t) \/ TimedOut(t)
    PROVE  Orderly(a)' /\ Shown(a)'
<1> DEFINE j == job[t]
           rest == Tail(j.todo)
<1>1. /\ j.at = "deliver" /\ Current(t) \in Agents /\ mark' = mark
      /\ j \in JobSet /\ Shape(j)
  BY HandDoes DEF Delivered, Undelivered, TimedOut, Types, Jobs
<1>2. /\ j.kind = "dispatch" /\ j.value /\ DispatchShape(j) /\ j.failed \in Seq(Agents)
  BY <1>1 DEF Shape, JobSet
<1>3. /\ Range(j.todo) = {Current(t)} \cup Range(rest) /\ Current(t) \notin Range(rest)
      /\ rest \in Seq(Agents)
  BY <1>1, <1>2, CurrentAgent DEF DispatchShape
<1>4. \E f \in {j.failed, Append(j.failed, Current(t))} :
         /\ Follows(t, f)
         /\ a # Current(t) => work'[a] = work[a]
         /\ a = Current(t) => \/ f = j.failed /\ work'[a] = work[a] + 1
                              \/ work'[a] = work[a]
  <2>1. CASE Delivered(t)
    BY <2>1, HandDoes
  <2>2. CASE Undelivered(t)
    BY <2>2, HandDoes
  <2>3. CASE TimedOut(t)
    <3>1. a # Current(t)
      BY <2>3, HandDoes DEF Plain, Crossed
    <3> QED
      BY <2>3, <3>1, HandDoes
  <2> QED
    BY <2>1, <2>2, <2>3
<1>5. PICK f \in {j.failed, Append(j.failed, Current(t))} :
         /\ Follows(t, f)
         /\ a # Current(t) => work'[a] = work[a]
         /\ a = Current(t) => \/ f = j.failed /\ work'[a] = work[a] + 1
                              \/ work'[a] = work[a]
  BY <1>4
<1>6. Range(f) \subseteq Range(j.failed) \cup {Current(t)} /\ Range(<<>>) = {}
  BY <1>1, <1>2, RangeAppend, OneAgent
<1>7. /\ \A u \in Threads : u # t => job'[u] = job[u]
      /\ job'[t].at # "second" /\ job'[t].kind \in {"dispatch", "none"}
      /\ job'[t].targets \in {j.targets, <<>>}
      /\ job'[t].failed \in {f, <<>>}
      /\ job'[t].kind = "none" \/ ~job'[t].value \/ (job'[t].at = "deliver" /\ job'[t].todo = rest)
  <2>1. CASE Turns(t, j.kind, j.at, rest, j.value, j.targets, f)
    BY <1>1, <1>2, <2>1 DEF Turns
  <2>2. CASE Ends(t)
    BY <2>2 DEF Ends, Turns
  <2>3. CASE Turns(t, j.kind, "first", f, FALSE, j.targets, f)
    BY <1>2, <2>3 DEF Turns
  <2> QED
    BY <1>5, <2>1, <2>2, <2>3 DEF Follows
<1>8. Pending(t, a)' => a \in Range(rest)
  BY <1>7 DEF Pending
<1>9. ~Speaks(t, a)' /\ ~Clears(t, a)' /\ ~Between(t, a)'
  BY <1>7 DEF Speaks, Clears, Between
<1>10. a \in Range(j.todo) => Pending(t, a) /\ Written(t, a)
  BY <1>1, <1>2 DEF Pending, Written
<1>11. a \in Range(job'[t].targets) => a \in Range(j.targets)
  BY <1>6, <1>7
<1>12. ~Between(t, a)
  BY <1>1 DEF Between
<1>13. CASE work'[a] = work[a]
  <2>1. Reserved(t, a)' => Reserved(t, a)
    BY <1>3, <1>6, <1>7, <1>8, <1>10 DEF Reserved
  <2>2. Written(t, a)' => Written(t, a)
    BY <1>3, <1>8, <1>10 DEF Written
  <2> QED
    BY <1>1, <1>7, <1>9, <1>11, <1>12, <1>13, <2>1, <2>2, StillOrderly, StillShown
<1>14. CASE a = Current(t) /\ f = j.failed /\ work'[a] = work[a] + 1
  <2>1. Reserved(t, a) /\ mark[a].typing
    BY <1>3, <1>10, <1>14 DEF Reserved, Shown
  <2>2. work'[a] = 1 /\ (\A u \in Threads : ~Speaks(u, a)) /\ a \in Range(j.targets)
    BY <1>2, <1>3, <1>14, <2>1 DEF Orderly, DispatchShape
  <2>3. a \notin Range(rest) /\ a \notin Range(j.failed)
    BY <1>1, <1>2, <1>3, <1>14 DEF DispatchShape
  <2>4. ~Reserved(t, a)'
    BY <1>6, <1>7, <1>8, <1>14, <2>3 DEF Reserved
  <2>5. \A u \in Threads : u # t => ~Reserved(u, a)
    <3>1. \A u \in Threads : Reserved(u, a) => a \in Range(job[u].targets)
      BY <1>6 DEF Reserved, Pending, Types, Jobs, Shape, DispatchShape
    <3> QED
      BY <2>2, <3>1 DEF Orderly
  <2>6. \A u \in Threads : ~Reserved(u, a)'
    BY <1>7, <2>4, <2>5 DEF Reserved, Pending
  <2>7. \A u \in Threads : ~Speaks(u, a)' /\ ~Clears(u, a)'
    BY <1>7, <1>9, <2>2 DEF Speaks, Orderly, Clears, Current
  <2>8. \A u, v \in Threads :
          a \in Range(job'[u].targets) /\ a \in Range(job'[v].targets) => u = v
    <3>1. \A u \in Threads : a \in Range(job'[u].targets) => a \in Range(job[u].targets)
      BY <1>7, <1>11
    <3> QED
      BY <3>1 DEF Orderly
  <2>9. work'[a] <= 1
    BY <2>2
  <2>10. Orderly(a)'
    BY <2>6, <2>7, <2>8, <2>9 DEF Orderly
  <2>11. Shown(a)'
    BY <1>1, <2>1, <2>6 DEF Shown, Written, Reserved
  <2> QED
    BY <2>10, <2>11
<1> QED
  BY <1>5, <1>13, <1>14

LEMMA BeginPlainly ==
    ASSUME Types, Types', NEW a \in Agents, odds[a] = Plain, odds'[a] = Plain,
           Orderly(a) /\ Shown(a), NEW t \in Threads, job[t].at \in {"idle", "route"},
           NEW l \in Lists, Begin(t, l), mark' = mark, work' = work
    PROVE  Orderly(a)' /\ Shown(a)'
<1>1. /\ Turns(t, "dispatch", "first", l, TRUE, l, <<>>)
      /\ \A b \in Range(l) : odds'[b] = Plain => work[b] = 0 /\ \A u \in Threads : ~About(u, b)
  BY BeginDoes
<1>2. /\ job'[t].kind = "dispatch" /\ job'[t].at = "first" /\ job'[t].todo = l
      /\ job'[t].targets = l /\ job'[t].failed = <<>>
      /\ \A u \in Threads : u # t => job'[u] = job[u]
  BY <1>1 DEF Turns
<1>3. Range(<<>>) = {}
  BY DEF Range
<1>4. /\ ~Speaks(t, a)' /\ ~Clears(t, a)' /\ ~Between(t, a)' /\ ~Written(t, a)'
      /\ ~Between(t, a)
      /\ Reserved(t, a)' => a \in Range(l)
  BY <1>2, <1>3 DEF Speaks, Clears, Between, Written, Pending, Reserved, Current
<1>5. Shown(a)'
  BY <1>2, <1>4, StillShown
<1>6. CASE a \notin Range(l)
  BY <1>2, <1>4, <1>5, <1>6, StillOrderly
<1>7. CASE a \in Range(l)
  <2>1. work[a] = 0 /\ \A u \in Threads : ~About(u, a)
    BY <1>1, <1>7
  <2>2. \A u \in Threads : Speaks(u, a) => About(u, a)
    BY DEF Speaks, About, Busy, Types, Jobs, Shape
  <2>3. \A u \in Threads : a \in Range(job[u].targets) => About(u, a)
    BY <1>3 DEF About, Busy, Types, Jobs, Shape
  <2>4. \A u \in Threads : u # t => a \notin Range(job'[u].targets)
    BY <1>2, <2>1, <2>3
  <2>5. \A u \in Threads : ~Speaks(u, a)'
    BY <1>2, <1>4, <2>1, <2>2 DEF Speaks
  <2>6. \A u \in Threads : ~Clears(u, a)'
    BY <1>2, <1>4 DEF Orderly, Clears, Current
  <2> QED
    BY <1>5, <2>1, <2>4, <2>5, <2>6 DEF Orderly
<1> QED
  BY <1>6, <1>7

LEMMA PostPlainly ==
    ASSUME Types, Types', NEW a \in Agents, odds'[a] = Plain, Orderly(a) /\ Shown(a),
           NEW t \in Threads, NEW b \in Agents, Post(t, b)
    PROVE  Orderly(a)' /\ Shown(a)'
<1>1. /\ Turns(t, "post", "first", <<b, b>>, FALSE, <<>>, <<>>)
      /\ job[t].at = "idle" /\ Quiet(b) /\ mark' = mark
      /\ odds'[b] = Plain => work[b] = work'[b] + 1
      /\ a # b => work'[a] = work[a]
      /\ work' \in [Agents -> Nat]
  BY OthersDo
<1>2. Range(<<>>) = {} /\ Range(<<b, b>>) = {b}
  BY OneAgent
<1>3. /\ job'[t].kind = "post" /\ job'[t].at = "first" /\ job'[t].todo = <<b, b>>
      /\ job'[t].targets = <<>> /\ job'[t].failed = <<>>
      /\ \A u \in Threads : u # t => job'[u] = job[u]
  BY <1>1 DEF Turns
<1>4. /\ ~Between(t, a) /\ ~Clears(t, a)' /\ ~Reserved(t, a)' /\ ~Written(t, a)'
      /\ a \notin Range(job'[t].targets)
      /\ Speaks(t, a)' => a = b
  BY <1>1, <1>2, <1>3 DEF Between, Clears, Reserved, Written, Pending, Speaks
<1>5. CASE a # b
  BY <1>1, <1>3, <1>4, <1>5, StillOrderly, StillShown
<1>6. CASE a = b
  <2>1. work[a] = work'[a] + 1 /\ work'[a] \in Nat /\ work[a] <= 1
    BY <1>1, <1>6 DEF Orderly
  <2>2. work[a] = 1 /\ work'[a] = 0
    BY ONLY <2>1
  <2>3. Shown(a)'
    BY <1>1, <1>3, <1>4, <2>2, StillShown
  <2>4. \A u \in Threads : ~Reserved(u, a)'
    BY <1>3, <1>4, <2>2 DEF Orderly, Reserved, Pending
  <2>5. \A u \in Threads : u # t => ~Speaks(u, a)
    <3>1. \A u \in Threads : Speaks(u, a) => About(u, a)
      BY DEF Speaks, About, Busy, Types, Jobs, Shape
    <3> QED
      BY <1>1, <1>6, <3>1 DEF Quiet, Speaks
  <2>6. \A u \in Threads : Speaks(u, a)' => job'[u].kind = "post"
    BY <1>3, <2>5 DEF Speaks
  <2>7. \A u \in Threads : ~Clears(u, a)'
    BY <1>3, <1>4 DEF Orderly, Clears, Current
  <2>8. \A u, v \in Threads :
          a \in Range(job'[u].targets) /\ a \in Range(job'[v].targets) => u = v
    BY <1>3, <1>4 DEF Orderly
  <2> QED
    BY <2>2, <2>3, <2>4, <2>6, <2>7, <2>8 DEF Orderly
<1> QED
  BY <1>5, <1>6

LEMMA NoticePlainly ==
    ASSUME Types, Types', NEW a \in Agents, odds'[a] = Plain, Orderly(a) /\ Shown(a),
           NEW t \in Threads, NEW b \in Agents, Notice(t, b)
    PROVE  Orderly(a)' /\ Shown(a)'
<1>1. PICK v \in BOOLEAN : /\ Turns(t, "notice", "first", <<b>>, v, <<>>, <<>>)
                           /\ odds'[b] = Plain => v
  BY OthersDo
<1>2. /\ job[t].at = "idle" /\ work[b] > 0 /\ mark' = mark /\ work' = work
  BY OthersDo
<1>3. Range(<<>>) = {} /\ Range(<<b>>) = {b}
  BY OneAgent
<1>4. /\ job'[t].kind = "notice" /\ job'[t].at = "first" /\ job'[t].todo = <<b>>
      /\ job'[t].targets = <<>> /\ job'[t].failed = <<>> /\ job'[t].value = v
      /\ \A u \in Threads : u # t => job'[u] = job[u]
  BY <1>1 DEF Turns
<1>5. /\ ~Between(t, a) /\ ~Clears(t, a)' /\ ~Reserved(t, a)' /\ ~Written(t, a)'
      /\ a \notin Range(job'[t].targets)
      /\ Speaks(t, a)' => a = b
  BY <1>2, <1>3, <1>4 DEF Between, Clears, Reserved, Written, Pending, Speaks
<1>6. Shown(a)'
  BY <1>2, <1>4, <1>5, StillShown
<1>7. CASE a # b
  BY <1>2, <1>4, <1>5, <1>6, <1>7, StillOrderly
<1>8. CASE a = b
  <2>1. work[a] # 0 /\ v
    BY <1>1, <1>2, <1>8
  <2>2. \A u \in Threads : ~Reserved(u, a)'
    BY <1>4, <1>5, <2>1 DEF Orderly, Reserved, Pending
  <2>3. \A u \in Threads : u # t /\ Speaks(u, a)' => Speaks(u, a)
    BY <1>4 DEF Speaks
  <2>4. \A u \in Threads : Speaks(u, a)' => IF job'[u].kind = "post" THEN work'[a] = 0 ELSE job'[u].value
    BY <1>2, <1>4, <2>1, <2>3 DEF Orderly
  <2>5. \A u \in Threads : ~Clears(u, a)'
    BY <1>4, <1>5 DEF Orderly, Clears, Current
  <2>6. \A u, w \in Threads :
          a \in Range(job'[u].targets) /\ a \in Range(job'[w].targets) => u = w
    BY <1>4, <1>5 DEF Orderly
  <2>7. work'[a] <= 1
    BY <1>2 DEF Orderly
  <2> QED
    BY <1>6, <2>2, <2>4, <2>5, <2>6, <2>7 DEF Orderly
<1> QED
  BY <1>7, <1>8

LEMMA PollPlainly ==
    ASSUME Types, NEW a \in Agents, Orderly(a) /\ Shown(a), NEW t \in Threads, Poll(t)
    PROVE  Orderly(a)' /\ Shown(a)'
<1>1. PICK l \in Seq(Agents) : /\ l # <<>> /\ Expired(mark[Head(l)])
                               /\ Turns(t, "poll", "first", l, FALSE, <<>>, <<>>)
  BY OthersDo
<1>2. job[t].at = "idle" /\ mark' = mark /\ work' = work
  BY OthersDo
<1>3. Range(<<>>) = {}
  BY DEF Range
<1>4. Head(l) # a
  BY <1>1 DEF Shown, Expired
<1>5. /\ job'[t].kind = "poll" /\ job'[t].at = "first" /\ job'[t].todo = l
      /\ job'[t].targets = <<>> /\ job'[t].failed = <<>>
      /\ \A u \in Threads : u # t => job'[u] = job[u]
  BY <1>1 DEF Turns
<1>6. /\ ~Between(t, a) /\ ~Clears(t, a)' /\ ~Reserved(t, a)' /\ ~Written(t, a)'
      /\ a \notin Range(job'[t].targets) /\ ~Speaks(t, a)'
  BY <1>2, <1>3, <1>4, <1>5 DEF Between, Clears, Reserved, Written, Pending, Speaks, Current
<1> QED
  BY <1>2, <1>5, <1>6, StillOrderly, StillShown

LEMMA TimePlainly ==
    ASSUME Types, NEW a \in Agents, odds'[a] = Plain, Orderly(a) /\ Shown(a), TimePasses
    PROVE  Orderly(a)' /\ Shown(a)'
<1>1. /\ job' = job /\ work' = work
      /\ mark'[a].typing = mark[a].typing
      /\ mark'[a].since = IF mark[a].since = "fresh" THEN "old" ELSE mark[a].since
      /\ mark[a].typing => Crossed <= odds'[a]
  BY TimeDoes
<1>2. ~mark[a].typing
  BY <1>1 DEF Plain, Crossed
<1>3. \A u \in Threads :
        /\ Reserved(u, a)' <=> Reserved(u, a)
        /\ Speaks(u, a)' <=> Speaks(u, a)
        /\ Clears(u, a)' <=> Clears(u, a)
        /\ Written(u, a)' <=> Written(u, a)
        /\ Between(u, a)' <=> Between(u, a)
  BY <1>1 DEF Reserved, Pending, Speaks, Clears, Written, Between, Current
<1>4. Orderly(a)'
  BY <1>1, <1>3 DEF Orderly
<1>5. Shown(a)'
  BY <1>1, <1>2, <1>3 DEF Shown
<1> QED
  BY <1>4, <1>5

LEMMA CrashPlainly ==
    ASSUME Types, NEW a \in Agents, odds'[a] = Plain, Orderly(a) /\ Shown(a), Crash
    PROVE  Orderly(a)' /\ Shown(a)'
<1>1. /\ work' = work /\ mark'[a] = mark[a]
      /\ \A u \in Threads : a \notin Unsettled(u) /\ job'[u] = Idle
  BY CrashDoes DEF Plain, Aborted
<1>2. Range(<<>>) = {}
  BY DEF Range
<1>3. \A u \in Threads :
        /\ ~Reserved(u, a)' /\ ~Speaks(u, a)' /\ ~Clears(u, a)' /\ ~Written(u, a)'
        /\ a \notin Range(job'[u].targets)
  BY <1>1, <1>2 DEF Idle, Job, Reserved, Pending, Speaks, Clears, Written
<1>4. ASSUME NEW u \in Threads PROVE ~Between(u, a)
  <2> SUFFICES ASSUME Between(u, a) PROVE FALSE
    OBVIOUS
  <2> DEFINE j == job[u]
  <2>1. j.at = "second" /\ Current(u) = a /\ j \in JobSet /\ Shape(j)
    BY DEF Between, Types, Jobs
  <2>2. a \in Range(j.todo) /\ j.kind # "poll"
    BY <2>1, CurrentAgent DEF Orderly, Clears
  <2>3. CASE j.kind = "dispatch"
    <3>1. a \in Range(j.targets)
      BY <2>1, <2>2, <2>3 DEF Shape, DispatchShape
    <3> QED
      BY <1>1, <2>1, <2>2, <2>3, <3>1 DEF Unsettled, JobSet
  <2>4. CASE j.kind \in {"post", "notice"}
    BY <1>1, <2>1, <2>2, <2>4 DEF Unsettled
  <2> QED
    BY <2>1, <2>2, <2>3, <2>4 DEF JobSet, Shape
<1> QED
  BY <1>1, <1>3, <1>4 DEF Orderly, Shown

LEMMA PlainlyStep == Types /\ Types' /\ Dated /\ Plainly /\ [Next]_vars => Plainly'
<1> SUFFICES ASSUME Types, Types', Dated, Plainly, [Next]_vars, NEW a \in Agents, odds'[a] = Plain
             PROVE  Orderly(a)' /\ Shown(a)'
  BY DEF Plainly
<1> USE DEF countVars, historyVars, requestVars
<1>j. job \in [Threads -> JobSet]
  BY DEF Types, Jobs
<1>p. ASSUME Remembers PROVE odds[a] = Plain /\ Orderly(a) /\ Shown(a)
  <2>1. odds[a] = Plain
    BY <1>p DEF Types, Remembers, Plain, Torn
  <2> QED
    BY <2>1 DEF Plainly
<1>1. ASSUME NEW t \in Threads, First(t) PROVE Orderly(a)' /\ Shown(a)'
  BY <1>p, <1>1, FirstDoes, FirstPlainly
<1>2. ASSUME NEW t \in Threads, Second(t) PROVE Orderly(a)' /\ Shown(a)'
  BY <1>p, <1>2, SecondDoes, SecondPlainly
<1>3. ASSUME NEW t \in Threads, SaveOpen(t) \/ SaveClose(t) PROVE Orderly(a)' /\ Shown(a)'
  <2>1. odds' = odds
    BY <1>3 DEF SaveOpen, SaveClose
  <2> QED
    BY <1>p, <1>3, <2>1, SameOdds, SavePlainly
<1>4. ASSUME NEW t \in Threads, Delivered(t) \/ Undelivered(t) \/ TimedOut(t)
      PROVE  Orderly(a)' /\ Shown(a)'
  BY <1>p, <1>4, HandDoes, SameOdds, HandPlainly
<1>5. ASSUME NEW t \in Threads, SaveFails(t) \/ DispatcherRaises(t) PROVE Orderly(a)' /\ Shown(a)'
  <2>1. work' = work /\ mark' = mark
    BY <1>5 DEF SaveFails, DispatcherRaises
  <2>2. Ends(t) /\ Remembers /\ job[t].at # "second"
    BY <1>5, AbortDoes
  <2> QED
    BY <1>p, <2>1, <2>2, EndsPlainly
<1>6. ASSUME NEW t \in Threads, Dispatch(t) \/ Route(t) PROVE Orderly(a)' /\ Shown(a)'
  <2>1. job[t].at \in {"idle", "route"} /\ work' = work /\ mark' = mark
    BY <1>6 DEF Dispatch, Route, Busy
  <2>2. ASSUME NEW l \in Lists, Begin(t, l) PROVE Orderly(a)' /\ Shown(a)'
    BY <1>p, <2>1, <2>2, BeginDoes, BeginPlainly
  <2>3. ASSUME End(t), odds' = odds PROVE Orderly(a)' /\ Shown(a)'
    BY <1>j, <1>p, <2>1, <2>3, SameOdds, Writes, EndsPlainly
  <2> QED
    BY <1>6, <2>2, <2>3 DEF Dispatch, Route
<1>7. ASSUME NEW t \in Threads, Poll(t) PROVE Orderly(a)' /\ Shown(a)'
  BY <1>p, <1>7, OthersDo, SameOdds, PollPlainly
<1>8. ASSUME NEW t \in Threads, NEW b \in Agents, Post(t, b) PROVE Orderly(a)' /\ Shown(a)'
  BY <1>p, <1>8, OthersDo, PostPlainly
<1>9. ASSUME NEW t \in Threads, NEW b \in Agents, Notice(t, b) PROVE Orderly(a)' /\ Shown(a)'
  BY <1>p, <1>9, OthersDo, NoticePlainly
<1>10. CASE TimePasses
  BY <1>p, <1>10, TimeDoes, TimePlainly
<1>11. CASE Crash
  BY <1>p, <1>11, CrashDoes, CrashPlainly
<1>12. CASE ReminderLoads \/ ReminderSaves \/ UNCHANGED vars
  <2>1. mark' = mark /\ job' = job /\ work' = work /\ odds' = odds
    BY <1>12, RemindersDo DEF vars
  <2>2. Orderly(a) /\ Shown(a)
    BY <1>p, <2>1, SameOdds
  <2> QED
    BY <2>1, <2>2 DEF Orderly, Shown, Reserved, Pending, Speaks, Clears, Written, Between, Current
<1> QED
  BY <1>1, <1>2, <1>3, <1>4, <1>5, <1>6, <1>7, <1>8, <1>9, <1>10, <1>11, <1>12 DEF Next, Serve

LEMMA PlainlyInit == Init => Plainly
<1> SUFFICES ASSUME Init, NEW a \in Agents PROVE Orderly(a) /\ Shown(a)
  BY DEF Plainly
<1>1. Range(<<>>) = {}
  BY DEF Range
<1>2. \A t \in Threads : job[t] = Idle
  BY DEF Init
<1>3. \A t \in Threads :
        ~Reserved(t, a) /\ ~Speaks(t, a) /\ ~Clears(t, a) /\ ~Written(t, a) /\ a \notin Range(job[t].targets)
  BY <1>1, <1>2 DEF Idle, Job, Reserved, Pending, Speaks, Clears, Written
<1>4. work[a] = 0 /\ mark[a].since = "none" /\ ~mark[a].typing
  BY DEF Init, Free
<1> QED
  BY <1>3, <1>4 DEF Orderly, Shown

\* For any roster and threads: an agent at work on the one message it was handed,
\* that has posted nothing in the middle of it, is shown as busy, whatever fails
\* beside it and also after a crash from a state file that has its mark.
THEOREM BusyShownAlways == Spec => []BusyShown
<1>1. Plainly => BusyShown
  BY DEF Plainly, Shown, BusyShown
<1> QED
  BY <1>1, StatusShapes, DatedInit, DatedStep, PlainlyInit, PlainlyStep, PTL DEF Spec

=============================================================================
