------------------------------ MODULE TmuxProofs ------------------------------
(***************************************************************************)
(* Proofs about TmuxTurn: for any threads, texts, messages, wrapped       *)
(* prompts, lost sessions, refused posts and deaths of the watcher.        *)
(***************************************************************************)
EXTENDS TmuxTurn, FiniteSetTheorems, TLAPS

-----------------------------------------------------------------------------
(* How often a message is replied to.                                      *)

\* Posts are a sequence, and a message is replied to by these of them.
PostsAreSeq == \E S : posts \in Seq(S)
Replies(m) == {i \in 1..Len(posts) : posts[i].parent = m}

\* A message that is still to be answered was replied to once at most for
\* each death of the watcher; the one it goes on with is such a message.
ReplyBound ==
    \A m \in 1..MaxMsgs :
        Cardinality(Replies(m)) <= crashes + (IF m \in processed THEN 1 ELSE 0)
CurIsOpen == wpc \in {"wait", "post"} => cur \notin processed
ReplyInv == crashes \in Nat /\ PostsAreSeq /\ ReplyBound /\ CurIsOpen

LEMMA RepliesFinite ==
    ASSUME PostsAreSeq, NEW m
    PROVE  IsFiniteSet(Replies(m)) /\ Cardinality(Replies(m)) \in Nat
<1>1. PICK S : posts \in Seq(S)
  BY DEF PostsAreSeq
<1>2. Len(posts) \in Nat /\ IsFiniteSet(1..Len(posts))
  BY <1>1, FS_Interval
<1>3. Replies(m) \in SUBSET (1..Len(posts))
  BY DEF Replies
<1> QED
  BY <1>2, <1>3, FS_Subset, FS_CardinalityType

\* A post is one more reply to its parent, and none to any other message.
LEMMA PostCounts ==
    ASSUME PostsAreSeq, posts' = Append(posts, Post)
    PROVE  /\ PostsAreSeq'
           /\ \A m : Cardinality(Replies(m)') =
                     Cardinality(Replies(m)) + (IF m = cur THEN 1 ELSE 0)
<1>1. PICK S : posts \in Seq(S)
  BY DEF PostsAreSeq
<1>2. Post.parent = cur
  BY DEF Post
<1> DEFINE T == S \cup {Post}
           p == Post
<1>3. posts \in Seq(T) /\ p \in T
  BY <1>1
<1> HIDE DEF T, p
<1>4. /\ Append(posts, p) \in Seq(T) /\ Len(Append(posts, p)) = Len(posts) + 1
      /\ \A i \in 1..Len(posts) : Append(posts, p)[i] = posts[i]
      /\ Append(posts, p)[Len(posts) + 1] = p
      /\ Len(posts) \in Nat
  BY <1>3
<1>5. posts' = Append(posts, p) /\ p.parent = cur
  BY <1>2 DEF p
<1>6. PostsAreSeq'
  BY <1>4, <1>5 DEF PostsAreSeq
<1>7. ASSUME NEW m
      PROVE  Cardinality(Replies(m)') = Cardinality(Replies(m)) + (IF m = cur THEN 1 ELSE 0)
  <2>1. IsFiniteSet(Replies(m)) /\ Cardinality(Replies(m)) \in Nat
    BY RepliesFinite
  <2>2. CASE m = cur
    <3>1. Replies(m)' = Replies(m) \cup {Len(posts) + 1}
      BY <1>4, <1>5, <2>2 DEF Replies
    <3>2. Len(posts) + 1 \notin Replies(m)
      BY <1>4 DEF Replies
    <3> QED
      BY <2>1, <2>2, <3>1, <3>2, FS_AddElement
  <2>3. CASE m # cur
    <3>1. Replies(m)' = Replies(m)
      BY <1>4, <1>5, <2>3 DEF Replies
    <3> QED
      BY <2>1, <2>3, <3>1
  <2> QED
    BY <2>2, <2>3
<1> QED
  BY <1>6, <1>7

\* Where a step leaves the posts, the deaths and the processed set alone.
LEMMA NoPost ==
    ASSUME ReplyInv, UNCHANGED <<posts, crashes>>, processed \subseteq processed', CurIsOpen'
    PROVE  ReplyInv'
<1>1. PostsAreSeq' /\ crashes' \in Nat
  BY DEF ReplyInv, PostsAreSeq
<1>2. ASSUME NEW m \in 1..MaxMsgs
      PROVE  Cardinality(Replies(m)') <= crashes' + (IF m \in processed' THEN 1 ELSE 0)
  <2>1. Replies(m)' = Replies(m) /\ Cardinality(Replies(m)) \in Nat
    BY RepliesFinite DEF ReplyInv, Replies
  <2>2. Cardinality(Replies(m)) <= crashes + (IF m \in processed THEN 1 ELSE 0)
    BY DEF ReplyInv, ReplyBound
  <2> QED
    BY <2>1, <2>2 DEF ReplyInv
<1> QED
  BY <1>1, <1>2 DEF ReplyInv, ReplyBound

\* The watcher has the answer of the server, and will not post again.
LEMMA StoredStep == ReplyInv /\ PostStored => ReplyInv'
<1> SUFFICES ASSUME ReplyInv, PostStored PROVE ReplyInv'
  OBVIOUS
<1>1. /\ posts' = Append(posts, Post) /\ processed' = processed \cup {cur}
      /\ wpc = "post" /\ wpc' = "unlink" /\ crashes' = crashes
  BY DEF PostStored, Watch
<1>2. cur \notin processed
  BY <1>1 DEF ReplyInv, CurIsOpen
<1>3. ASSUME NEW m \in 1..MaxMsgs
      PROVE  Cardinality(Replies(m)') <= crashes' + (IF m \in processed' THEN 1 ELSE 0)
  <2>1. /\ Cardinality(Replies(m)') = Cardinality(Replies(m)) + (IF m = cur THEN 1 ELSE 0)
        /\ Cardinality(Replies(m)) \in Nat
    BY <1>1, PostCounts, RepliesFinite DEF ReplyInv
  <2>2. Cardinality(Replies(m)) <= crashes + (IF m \in processed THEN 1 ELSE 0)
    BY DEF ReplyInv, ReplyBound
  <2> QED
    BY <1>1, <1>2, <2>1, <2>2 DEF ReplyInv
<1>4. PostsAreSeq'
  BY <1>1, PostCounts DEF ReplyInv
<1> QED
  BY <1>1, <1>3, <1>4 DEF ReplyInv, ReplyBound, CurIsOpen

\* A watcher that dies forgets what it processed, and may have posted.
LEMMA CrashStep == ReplyInv /\ WatcherCrash => ReplyInv'
<1> SUFFICES ASSUME ReplyInv, WatcherCrash PROVE ReplyInv'
  OBVIOUS
<1>1. /\ crashes' = crashes + 1 /\ processed' = {} /\ wpc' = "look"
      /\ (posts' = posts \/ (wpc = "post" /\ posts' = Append(posts, Post)))
  BY DEF WatcherCrash, Watch
<1>2. PostsAreSeq'
  BY <1>1, PostCounts DEF ReplyInv, PostsAreSeq
<1>3. ASSUME NEW m \in 1..MaxMsgs
      PROVE  Cardinality(Replies(m)') <= crashes' + (IF m \in processed' THEN 1 ELSE 0)
  <2>1. Cardinality(Replies(m)) <= crashes + (IF m \in processed THEN 1 ELSE 0)
    BY DEF ReplyInv, ReplyBound
  <2>2. Cardinality(Replies(m)) \in Nat /\ crashes \in Nat
    BY RepliesFinite DEF ReplyInv
  <2>3. CASE posts' = posts
    <3>1. Replies(m)' = Replies(m)
      BY <2>3 DEF Replies
    <3> QED
      BY <1>1, <2>1, <2>2, <3>1
  <2>4. CASE wpc = "post" /\ posts' = Append(posts, Post)
    <3>1. Cardinality(Replies(m)') = Cardinality(Replies(m)) + (IF m = cur THEN 1 ELSE 0)
      BY <2>4, PostCounts DEF ReplyInv
    <3>2. m = cur => m \notin processed
      BY <2>4 DEF ReplyInv, CurIsOpen
    <3> QED
      BY <1>1, <2>1, <2>2, <3>1, <3>2
  <2> QED
    BY <1>1, <2>3, <2>4
<1> QED
  BY <1>1, <1>2, <1>3 DEF ReplyInv, ReplyBound, CurIsOpen

LEMMA ReplyInvStep == ReplyInv /\ [Next]_vars => ReplyInv'
<1> SUFFICES ASSUME ReplyInv, [Next]_vars PROVE ReplyInv'
  OBVIOUS
<1>1. ASSUME NEW t \in Threads, Dispatch(t) PROVE ReplyInv'
  <2>1. UNCHANGED <<posts, crashes, processed, wpc, cur>>
    BY <1>1 DEF Dispatch, Inject, OpenTrigger, WriteTrigger, watchVars
  <2> QED
    BY <2>1, NoPost DEF ReplyInv, CurIsOpen
<1>2. ASSUME AgentTakes \/ AgentAnswers \/ Session PROVE ReplyInv'
  <2>1. UNCHANGED <<posts, crashes, processed, wpc, cur>>
    BY <1>2 DEF AgentTakes, AgentAnswers, Session, SessionGone, SessionBack, SessionReplaced,
                watchVars
  <2> QED
    BY <2>1, NoPost DEF ReplyInv, CurIsOpen
<1>3. CASE DropTrigger
  <2>1. UNCHANGED <<posts, crashes, processed>> /\ wpc' = "unlink"
    BY <1>3 DEF DropTrigger
  <2> QED
    BY <2>1, NoPost DEF CurIsOpen
<1>4. CASE Begin
  <2>1. UNCHANGED <<posts, crashes, processed>> /\ cur' \notin processed
    BY <1>4 DEF Begin, Watch
  <2> QED
    BY <2>1, NoPost DEF CurIsOpen
<1>5. ASSUME NEW lines, wpc = "wait", Conclude(lines), UNCHANGED <<posts, crashes>>
      PROVE  ReplyInv'
  <2>1. \/ processed' = processed \cup {cur} /\ wpc' = "unlink"
        \/ processed' = processed /\ wpc' = "post" /\ cur' = cur
    BY <1>5 DEF Conclude, Watch
  <2> QED
    BY <1>5, <2>1, NoPost DEF ReplyInv, CurIsOpen
<1>6. CASE Settle
  BY <1>5, <1>6 DEF Settle
<1>7. CASE GiveUp
  BY <1>5, <1>7 DEF GiveUp
<1>8. CASE PostStored
  BY <1>8, StoredStep
<1>9. CASE PostRefused \/ Retry
  <2>1. UNCHANGED <<posts, crashes, processed>> /\ wpc' \in {"refused", "look"}
    BY <1>9 DEF PostRefused, Retry, Watch
  <2> QED
    BY <2>1, NoPost DEF CurIsOpen
<1>10. CASE Unlink
  <2>1. UNCHANGED <<posts, crashes, processed>> /\ wpc' = "look"
    BY <1>10 DEF Unlink
  <2> QED
    BY <2>1, NoPost DEF CurIsOpen
<1>11. CASE WatcherCrash
  BY <1>11, CrashStep
<1>12. CASE UNCHANGED vars
  <2>1. UNCHANGED <<posts, crashes, processed, wpc, cur>>
    BY <1>12 DEF vars, watchVars
  <2> QED
    BY <2>1, NoPost DEF ReplyInv, CurIsOpen
<1> QED
  BY <1>1, <1>2, <1>3, <1>4, <1>6, <1>7, <1>8, <1>9, <1>10, <1>11, <1>12 DEF Next, WatcherStep

LEMMA ReplyInit == Init => ReplyInv
<1> SUFFICES ASSUME Init PROVE ReplyInv
  OBVIOUS
<1>1. posts = <<>> /\ crashes = 0 /\ processed = {} /\ wpc = "look"
  BY DEF Init
<1>2. \A m : Replies(m) = {}
  BY <1>1 DEF Replies
<1>3. PostsAreSeq
  <2>1. posts \in Seq({})
    BY <1>1
  <2> QED
    BY <2>1 DEF PostsAreSeq
<1> QED
  BY <1>1, <1>2, <1>3, FS_EmptySet DEF ReplyInv, ReplyBound, CurIsOpen

\* A message is replied to once, and once more at most for each time the
\* watcher died, whatever triggers, screens, posts and other dispatches do.
THEOREM RepeatsNeedCrashAlways == Spec => []RepeatsNeedCrash
<1>1. ReplyInv => RepeatsNeedCrash
  <2> SUFFICES ASSUME ReplyInv, NEW m \in 1..MaxMsgs
               PROVE  Cardinality(Replies(m)) <= 1 + crashes
    BY DEF RepeatsNeedCrash, Replies
  <2>1. Cardinality(Replies(m)) <= crashes + (IF m \in processed THEN 1 ELSE 0)
    BY DEF ReplyInv, ReplyBound
  <2>2. Cardinality(Replies(m)) \in Nat /\ crashes \in Nat
    BY RepliesFinite DEF ReplyInv
  <2> QED
    BY <2>1, <2>2
<1> QED
  BY <1>1, ReplyInit, ReplyInvStep, PTL DEF Spec

-----------------------------------------------------------------------------
(* What cleaning makes of the lines of the terminal.                       *)

\* A set of numbers that is not empty has a least one.
LEMMA Least ==
    ASSUME NEW S \in SUBSET Nat, S # {}
    PROVE  \E x \in S : \A y \in S : x <= y
<1>1. \E x \in S : \A y \in S : ~ (<<y, x>> \in OpToRel(<, Nat))
  BY NatLessThanWellFounded, WFMin
<1>2. PICK x \in S : \A y \in S : ~ (<<y, x>> \in OpToRel(<, Nat))
  BY <1>1
<1>3. \A y \in S : ~ (y < x)
  BY <1>2 DEF OpToRel
<1> QED
  BY <1>3

\* Induction over the numbers, for a set of them.
LEMMA Induction ==
    ASSUME NEW S \in SUBSET Nat, 0 \in S, \A n \in S : n + 1 \in S
    PROVE  S = Nat
<1> SUFFICES ASSUME Nat \ S # {} PROVE FALSE
  OBVIOUS
<1>1. PICK x \in Nat \ S : \A y \in Nat \ S : x <= y
  BY Least
<1>2. x # 0 /\ x - 1 \in Nat /\ x - 1 < x /\ (x - 1) + 1 = x
  OBVIOUS
<1> QED
  BY <1>1, <1>2

\* What a step function does when it is repeated.
LEMMA Iterates ==
    ASSUME NEW Q, NEW q \in Q, NEW N \in Nat, NEW F \in [1..N -> [Q -> Q]]
    PROVE  \E g \in [0..N -> Q] : g[0] = q /\ \A i \in 1..N : g[i] = F[i][g[i - 1]]
<1> DEFINE Upto(n) == \E g \in [0..n -> Q] : g[0] = q /\ \A i \in 1..n : g[i] = F[i][g[i - 1]]
           S == {n \in Nat : n <= N => Upto(n)}
<1>1. Upto(0)
  <2>1. [i \in 0..0 |-> q] \in [0..0 -> Q] /\ [i \in 0..0 |-> q][0] = q
    OBVIOUS
  <2>2. \A i \in 1..0 : FALSE
    OBVIOUS
  <2> QED
    BY <2>1, <2>2
<1>2. ASSUME NEW n \in Nat, n + 1 <= N, Upto(n) PROVE Upto(n + 1)
  <2>1. PICK g \in [0..n -> Q] : g[0] = q /\ \A i \in 1..n : g[i] = F[i][g[i - 1]]
    BY <1>2
  <2>2. n + 1 \in 1..N /\ g[n] \in Q
    BY <1>2
  <2>3. F[n + 1][g[n]] \in Q
    BY <2>2
  <2>4. PICK next \in Q : next = F[n + 1][g[n]]
    BY <2>3
  <2>5. PICK h : h = [i \in 0..n + 1 |-> IF i <= n THEN g[i] ELSE next]
    OBVIOUS
  <2>6. h \in [0..n + 1 -> Q] /\ h[0] = q /\ h[n + 1] = next
    BY <2>1, <2>5
  <2>7. \A i \in 0..n : h[i] = g[i]
    BY <2>5
  <2>8. ASSUME NEW i \in 1..n + 1 PROVE h[i] = F[i][h[i - 1]]
    <3>1. CASE i = n + 1
      <4>1. i - 1 = n /\ n \in 0..n
        BY <3>1
      <4> QED
        BY <2>4, <2>6, <2>7, <3>1, <4>1
    <3>2. CASE i # n + 1
      <4>1. i \in 1..n /\ i \in 0..n /\ i - 1 \in 0..n
        BY <3>2
      <4> QED
        BY <2>1, <2>7, <4>1
    <3> QED
      BY <3>1, <3>2
  <2> QED
    BY <2>6, <2>8
<1> HIDE DEF Upto
<1>3. ASSUME NEW n \in S PROVE n + 1 \in S
  <2>1. n + 1 <= N => n <= N
    OBVIOUS
  <2> QED
    BY <1>2, <2>1
<1>4. S \in SUBSET Nat /\ 0 \in S
  BY <1>1
<1> HIDE DEF S
<1>5. S = Nat
  BY <1>3, <1>4, Induction
<1>6. Upto(N)
  BY <1>5 DEF S
<1> QED
  BY <1>6 DEF Upto

\* The sequence s has the first n lines that are not noise, and no others.
Keeps(s, lines, n) ==
    /\ \A j \in 1..Len(s) : Said(s[j]) /\ \E i \in 1..n : s[j] = lines[i]
    /\ \A i \in 1..n : Said(lines[i]) => \E j \in 1..Len(s) : s[j] = lines[i]

\* Cleaning keeps the lines that are not noise of those it was given.
LEMMA HeardIs ==
    ASSUME NEW T, NEW lines \in Seq(T)
    PROVE  Heard(lines) \in Seq(T) /\ Keeps(Heard(lines), lines, Len(lines))
<1> DEFINE N == Len(lines)
           Adds(s, i) == IF Said(lines[i]) THEN Append(s, lines[i]) ELSE s
           F == [i \in 1..N |-> [s \in Seq(T) |-> Adds(s, i)]]
           Body(g) == [i \in 0..N |-> IF i = 0 THEN <<>>
                                      ELSE IF Said(lines[i]) THEN Append(g[i - 1], lines[i])
                                      ELSE g[i - 1]]
           heard == CHOOSE g : g = Body(g)
           R == {n \in Nat : n <= N => heard[n] \in Seq(T) /\ Keeps(heard[n], lines, n)}
<1>1. Heard(lines) = heard[N]
  BY DEF Heard
<1>2. N \in Nat /\ \A i \in 1..N : lines[i] \in T
  OBVIOUS
<1>3. \A s \in Seq(T), i \in 1..N : Adds(s, i) \in Seq(T)
  BY <1>2
<1>a. ASSUME NEW s \in Seq(T), NEW n \in 0..N, n + 1 <= N, Keeps(s, lines, n)
      PROVE  Keeps(Adds(s, n + 1), lines, n + 1)
  <2>1. n + 1 \in 1..N /\ n \in Nat /\ \A i \in 1..n + 1 : i = n + 1 \/ i \in 1..n
    BY <1>2, <1>a
  <2>2. PICK e \in T : e = lines[n + 1]
    BY <1>2, <2>1
  <2>3. CASE Said(e)
    <3>0. Append(s, e) \in Seq(T)
      BY ONLY s \in Seq(T), e \in T
    <3>1. PICK a \in Seq(T) : a = Append(s, e)
      BY ONLY <3>0
    <3>2. /\ Len(a) = Len(s) + 1 /\ Len(s) \in Nat /\ a[Len(s) + 1] = e
          /\ \A j \in 1..Len(s) : a[j] = s[j]
      BY <3>1
    <3>3. Adds(s, n + 1) = a
      BY <2>2, <2>3, <3>1
    <3>4. \A j \in 1..Len(a) : Said(a[j]) /\ \E i \in 1..n + 1 : a[j] = lines[i]
      <4> SUFFICES ASSUME NEW j \in 1..Len(a)
                   PROVE  Said(a[j]) /\ \E i \in 1..n + 1 : a[j] = lines[i]
        OBVIOUS
      <4>1. CASE j = Len(s) + 1
        BY <2>1, <2>2, <2>3, <3>2, <4>1
      <4>2. CASE j \in 1..Len(s)
        <5>1. a[j] = s[j] /\ Said(s[j]) /\ \E i \in 1..n : s[j] = lines[i]
          BY <1>a, <3>2, <4>2 DEF Keeps
        <5>2. 1..n \subseteq 1..n + 1
          BY <2>1
        <5> QED
          BY <5>1, <5>2
      <4> QED
        BY <3>2, <4>1, <4>2
    <3>5. \A i \in 1..n + 1 : Said(lines[i]) => \E j \in 1..Len(a) : a[j] = lines[i]
      <4> SUFFICES ASSUME NEW i \in 1..n + 1, Said(lines[i])
                   PROVE  \E j \in 1..Len(a) : a[j] = lines[i]
        OBVIOUS
      <4>1. CASE i = n + 1
        BY <2>2, <3>2, <4>1
      <4>2. CASE i \in 1..n
        <5>1. PICK j \in 1..Len(s) : s[j] = lines[i]
          BY <1>a, <4>2 DEF Keeps
        <5>2. j \in 1..Len(a) /\ a[j] = lines[i]
          BY <3>2, <5>1
        <5> QED
          BY <5>2
      <4> QED
        BY <2>1, <4>1, <4>2
    <3> QED
      BY <3>3, <3>4, <3>5 DEF Keeps
  <2>4. CASE ~Said(e)
    <3>1. Adds(s, n + 1) = s
      BY <2>2, <2>4
    <3>2. \A j \in 1..Len(s) : Said(s[j]) /\ \E i \in 1..n + 1 : s[j] = lines[i]
      <4>1. 1..n \subseteq 1..n + 1
        BY <2>1
      <4> QED
        BY <1>a, <4>1 DEF Keeps
    <3>3. \A i \in 1..n + 1 : Said(lines[i]) => \E j \in 1..Len(s) : s[j] = lines[i]
      BY <1>a, <2>1, <2>2, <2>4 DEF Keeps
    <3> QED
      BY <3>1, <3>2, <3>3 DEF Keeps
  <2> QED
    BY <2>3, <2>4
<1>4. \A g : Body(g) = [i \in 0..N |-> IF i = 0 THEN <<>> ELSE Adds(g[i - 1], i)]
  OBVIOUS
<1> HIDE DEF Adds, Body
<1>5. \E g : g = Body(g)
  <2>1. F \in [1..N -> [Seq(T) -> Seq(T)]] /\ <<>> \in Seq(T)
    BY <1>3
  <2>2. \A i \in 1..N, s \in Seq(T) : F[i][s] = Adds(s, i)
    OBVIOUS
  <2> HIDE DEF F, N
  <2>3. \E g \in [0..N -> Seq(T)] : g[0] = <<>> /\ \A i \in 1..N : g[i] = F[i][g[i - 1]]
    <3>1. \A Q : \A q \in Q, n \in Nat : \A H \in [1..n -> [Q -> Q]] :
             \E g \in [0..n -> Q] : g[0] = q /\ \A i \in 1..n : g[i] = H[i][g[i - 1]]
      BY ONLY Iterates
    <3>2. PICK Q : Q = Seq(T)
      OBVIOUS
    <3>3. PICK q \in Q : q = <<>>
      BY <2>1, <3>2
    <3>4. F \in [1..N -> [Q -> Q]] /\ N \in Nat
      BY <1>2, <2>1, <3>2
    <3>5. \E g \in [0..N -> Q] : g[0] = q /\ \A i \in 1..N : g[i] = F[i][g[i - 1]]
      <4>1. \A n \in Nat : \A H \in [1..n -> [Q -> Q]] :
               \E g \in [0..n -> Q] : g[0] = q /\ \A i \in 1..n : g[i] = H[i][g[i - 1]]
        BY ONLY <3>1, q \in Q
      <4>2. \A H \in [1..N -> [Q -> Q]] :
               \E g \in [0..N -> Q] : g[0] = q /\ \A i \in 1..N : g[i] = H[i][g[i - 1]]
        BY ONLY <3>4, <4>1, Zenon
      <4> QED
        BY ONLY <3>4, <4>2, Zenon
    <3> QED
      BY <3>2, <3>3, <3>5
  <2>4. PICK g \in [0..N -> Seq(T)] : g[0] = <<>> /\ \A i \in 1..N : g[i] = F[i][g[i - 1]]
    BY <2>3
  <2>5. \A i \in 0..N : g[i] = IF i = 0 THEN <<>> ELSE Adds(g[i - 1], i)
    <3> SUFFICES ASSUME NEW i \in 0..N, i # 0 PROVE g[i] = Adds(g[i - 1], i)
      BY <2>4
    <3>1. i \in 1..N /\ i - 1 \in 0..N
      BY <1>2
    <3> QED
      BY <2>2, <2>4, <3>1
  <2>6. g = [i \in 0..N |-> IF i = 0 THEN <<>> ELSE Adds(g[i - 1], i)]
    BY <2>5
  <2> QED
    BY <1>4, <2>6
<1>6. heard = Body(heard)
  BY <1>5
<1> HIDE DEF heard, N
<1>7. heard[0] = <<>> /\ \A i \in 1..N : heard[i] = Adds(heard[i - 1], i)
  BY <1>2, <1>4, <1>6
<1>8. R = Nat
  <2>1. 0 \in R
    <3>1. <<>> \in Seq(T) /\ Keeps(<<>>, lines, 0)
      BY DEF Keeps
    <3> QED
      BY <1>7, <3>1
  <2>2. ASSUME NEW n \in R PROVE n + 1 \in R
    <3> SUFFICES ASSUME n + 1 <= N
                 PROVE  heard[n + 1] \in Seq(T) /\ Keeps(heard[n + 1], lines, n + 1)
      OBVIOUS
    <3>1. n <= N /\ n \in 0..N /\ n + 1 \in 1..N /\ (n + 1) - 1 = n
      BY <1>2
    <3>2. heard[n] \in Seq(T) /\ Keeps(heard[n], lines, n)
      BY <3>1
    <3>3. heard[n + 1] = Adds(heard[n], n + 1)
      BY <1>7, <3>1
    <3>4. Keeps(Adds(heard[n], n + 1), lines, n + 1)
      BY <1>a, <3>1, <3>2
    <3> QED
      BY <1>3, <3>1, <3>2, <3>3, <3>4
  <2>3. R \in SUBSET Nat
    OBVIOUS
  <2> HIDE DEF R
  <2> QED
    BY <2>1, <2>2, <2>3, Induction
<1>9. heard[N] \in Seq(T) /\ Keeps(heard[N], lines, N)
  BY <1>2, <1>8
<1> QED
  BY <1>1, <1>9 DEF N

\* A set of places in a sequence that is not empty has a last one.
LEMMA LastOne ==
    ASSUME NEW n \in Nat, NEW I \in SUBSET (1..n), I # {}
    PROVE  Max(I) \in I /\ \A i \in I : i <= Max(I)
<1> DEFINE S == {k \in Nat : \A i \in I : i <= k}
<1>1. n \in S /\ S \in SUBSET Nat
  OBVIOUS
<1>2. PICK k \in S : \A j \in S : k <= j
  BY <1>1, Least
<1>3. k \in I
  <2> SUFFICES ASSUME k \notin I PROVE FALSE
    OBVIOUS
  <2>1. \A i \in I : i <= k - 1 /\ k - 1 \in Nat
    BY <1>2
  <2>2. k - 1 \in S
    BY <2>1
  <2> QED
    BY <1>2, <2>2
<1>4. \A i \in I : k >= i
  BY <1>2
<1>5. Max(I) \in I /\ \A i \in I : Max(I) >= i
  BY <1>3, <1>4 DEF Max
<1> QED
  BY <1>5

\* Cleaning cuts after the last place that shows the text, if there is one.
LEMMA CleanCuts ==
    ASSUME NEW T, NEW lines \in Seq(T), NEW m
    PROVE  \E k \in 0..Len(lines) :
              /\ Clean(lines, m) = Heard(SubSeq(lines, k + 1, Len(lines)))
              /\ k = 0 \/ Shows(lines[k], m)
              /\ \A i \in k + 1..Len(lines) : ~Shows(lines[i], m)
<1> DEFINE I == {i \in 1..Len(lines) : Shows(lines[i], m)}
           k == SelectLastInSeq(lines, LAMBDA e : Shows(e, m))
<1>1. k = IF I # {} THEN Max(I) ELSE 0
  BY DEF SelectLastInSeq
<1>2. Clean(lines, m) = Heard(SubSeq(lines, k + 1, Len(lines)))
  BY DEF Clean
<1>3. Len(lines) \in Nat /\ I \in SUBSET (1..Len(lines))
  OBVIOUS
<1> HIDE DEF k
<1>4. CASE I = {}
  <2>1. k = 0 /\ \A i \in 1..Len(lines) : ~Shows(lines[i], m)
    BY <1>1, <1>4
  <2> QED
    BY <1>2, <1>3, <2>1
<1>5. CASE I # {}
  <2>1. Max(I) \in I /\ \A i \in I : i <= Max(I)
    BY <1>3, <1>5, LastOne
  <2>2. k \in I /\ \A i \in I : i <= k
    BY <1>1, <1>5, <2>1
  <2>3. k \in 1..Len(lines) /\ Shows(lines[k], m)
    BY <2>2
  <2>4. \A i \in k + 1..Len(lines) : ~Shows(lines[i], m)
    BY <1>3, <2>2, <2>3
  <2> QED
    BY <1>2, <1>3, <2>3, <2>4
<1> QED
  BY <1>4, <1>5

\* The sequence c has lines that are not noise, from after every place that
\* shows the text of message m.
KeptAfter(c, lines, m) ==
    \A j \in 1..Len(c) :
        /\ Said(c[j])
        /\ \E i \in 1..Len(lines) : /\ c[j] = lines[i]
                                   /\ \A q \in 1..Len(lines) : Shows(lines[q], m) => q < i

\* The sequence c has every line that is not noise after the last place that
\* shows the text of message m.
KeepsRest(c, lines, m) ==
    \A i \in 1..Len(lines) :
        Said(lines[i]) /\ (\A q \in i..Len(lines) : ~Shows(lines[q], m))
        => \E j \in 1..Len(c) : c[j] = lines[i]

\* What cleaning keeps comes after every place that shows the text, and it
\* keeps all that comes after them and is not noise.
LEMMA CleanIs ==
    ASSUME NEW T, NEW lines \in Seq(T), NEW m
    PROVE  /\ Clean(lines, m) \in Seq(T)
           /\ KeptAfter(Clean(lines, m), lines, m)
           /\ KeepsRest(Clean(lines, m), lines, m)
<1>1. PICK k \in 0..Len(lines) :
         /\ Clean(lines, m) = Heard(SubSeq(lines, k + 1, Len(lines)))
         /\ k = 0 \/ Shows(lines[k], m)
         /\ \A i \in k + 1..Len(lines) : ~Shows(lines[i], m)
  BY CleanCuts
<1>2. PICK N \in Nat : N = Len(lines)
  OBVIOUS
<1>3. PICK rest : rest = SubSeq(lines, k + 1, N)
  OBVIOUS
<1>4. /\ rest \in Seq(T) /\ Len(rest) = N - k
      /\ \A i \in 1..N - k : rest[i] = lines[k + i]
  BY <1>2, <1>3
<1>5. PICK c : c = Heard(rest)
  OBVIOUS
<1>6. c \in Seq(T) /\ Keeps(c, rest, N - k) /\ Clean(lines, m) = c
  BY <1>1, <1>2, <1>3, <1>4, <1>5, HeardIs
<1>7. ASSUME NEW j \in 1..Len(c)
      PROVE  Said(c[j]) /\ \E i \in 1..N : /\ c[j] = lines[i]
                                           /\ \A q \in 1..N : Shows(lines[q], m) => q < i
  <2>1. PICK i \in 1..N - k : c[j] = rest[i]
    BY <1>6 DEF Keeps
  <2>2. k + i \in 1..N /\ c[j] = lines[k + i]
    BY <1>2, <1>4, <2>1
  <2>3. \A q \in 1..N : Shows(lines[q], m) => q < k + i
    <3> SUFFICES ASSUME NEW q \in 1..N, Shows(lines[q], m), ~(q < k + i) PROVE FALSE
      OBVIOUS
    <3>1. q \in k + 1..Len(lines)
      BY <1>2
    <3> QED
      BY <1>1, <3>1
  <2>4. Said(c[j])
    BY <1>6 DEF Keeps
  <2> QED
    BY <2>2, <2>3, <2>4
<1>8. ASSUME NEW i \in 1..N, Said(lines[i]), \A q \in i..N : ~Shows(lines[q], m)
      PROVE  \E j \in 1..Len(c) : c[j] = lines[i]
  <2>1. k < i
    <3> SUFFICES ASSUME i <= k PROVE FALSE
      BY <1>2
    <3>1. k \in i..N /\ k # 0
      BY <1>2
    <3> QED
      BY <1>1, <1>8, <3>1
  <2>2. PICK h \in 1..N - k : h = i - k
    BY <1>2, <2>1
  <2>3. rest[h] = lines[i]
    BY <1>2, <1>4, <2>2
  <2> QED
    BY <1>6, <1>8, <2>3 DEF Keeps
<1> QED
  BY <1>2, <1>6, <1>7, <1>8 DEF KeptAfter, KeepsRest

-----------------------------------------------------------------------------
(* The variables stay in their types.                                      *)

\* Who goes on with a message has one.
Ids ==
    /\ \A t \in Threads : pc[t] # "idle" => msg[t] \in 1..MaxMsgs
    /\ wpc \in {"wait", "post"} => cur \in 1..MaxMsgs

Types == TmuxTypeOK /\ Ids

\* What the watcher makes of a capture is lines of the terminal.
LEMMA ScrapedType ==
    ASSUME Types, NEW n \in base..Len(screen)
    PROVE  Scraped(n) \in Seq(Entries)
<1>1. screen \in Seq(Entries) /\ base \in 0..Len(screen)
  BY DEF Types, TmuxTypeOK
<1>2. n \in 0..Len(screen)
  BY <1>1
<1>3. SubSeq(screen, base + 1, n) \in Seq(Entries) /\ SubSeq(screen, 1, n) \in Seq(Entries)
  BY <1>1, <1>2
<1>4. Clean(SubSeq(screen, base + 1, n), cur) \in Seq(Entries) /\ Clean(SubSeq(screen, 1, n), cur) \in Seq(Entries)
  BY <1>3, CleanIs
<1> QED
  BY <1>4 DEF Scraped

\* It goes on to post something, or is done with the message.
LEMMA Concludes ==
    ASSUME NEW lines, Conclude(lines)
    PROVE  \/ /\ wpc' = "unlink" /\ cur' = 0 /\ base' = 0 /\ reply' = <<>>
              /\ processed' = processed \cup {cur}
              /\ lines = <<>> \/ TextsOf(lines) = lastReply
           \/ /\ wpc' = "post" /\ cur' = cur /\ base' = base /\ reply' = lines
              /\ processed' = processed /\ lines # <<>>
  BY DEF Conclude, Watch

LEMMA ConcludeTypes ==
    ASSUME Types, wpc = "wait", NEW lines \in Seq(Entries), Conclude(lines),
           UNCHANGED <<textVars, dispatchVars, trigger, screenVars, agentVars, lastReply, posts, crashes>>
    PROVE  Types'
<1>1. cur \in 1..MaxMsgs /\ MaxMsgs \in Nat
  BY TmuxAssumption DEF Types, Ids
<1>2. CASE /\ wpc' = "unlink" /\ cur' = 0 /\ base' = 0 /\ reply' = <<>>
           /\ processed' = processed \cup {cur}
  <2>1. base' \in 0..Len(screen) /\ 0 \in 0..MaxMsgs
    BY <1>1, <1>2 DEF Types, TmuxTypeOK
  <2>2. reply' \in Seq(Entries)
    BY <1>2
  <2> QED
    BY <1>1, <1>2, <2>1, <2>2 DEF Types, TmuxTypeOK, Ids, textVars, dispatchVars, screenVars, agentVars
<1>3. CASE /\ wpc' = "post" /\ cur' = cur /\ base' = base /\ reply' = lines
           /\ processed' = processed /\ lines # <<>>
  BY <1>1, <1>3 DEF Types, TmuxTypeOK, Ids, textVars, dispatchVars, screenVars, agentVars
<1> QED
  BY <1>2, <1>3, Concludes

LEMMA TmuxTypesStep == Types /\ [Next]_vars => Types'
<1> SUFFICES ASSUME Types, [Next]_vars PROVE Types'
  OBVIOUS
<1> USE DEF Types, TmuxTypeOK, Ids, textVars, dispatchVars, screenVars, agentVars, watchVars, Watch
<1>m. MaxMsgs \in Nat /\ 0 \in 0..MaxMsgs
  BY TmuxAssumption
<1>1. ASSUME NEW t \in Threads, Inject(t) PROVE Types'
  <2>1. nextMsg \in 1..MaxMsgs /\ nextMsg + 1 \in 1..MaxMsgs + 1
    BY <1>m, <1>1 DEF Inject
  <2>2. Prompt(nextMsg) \in Entries
    BY <1>m, <2>1 DEF Prompt, Entries
  <2>3. /\ screen' \in Seq(Entries) /\ Len(screen') = Len(screen) + 1
        /\ queue' \in Seq(1..MaxMsgs)
    BY <1>1, <2>1, <2>2 DEF Inject
  <2>4. base' \in 0..Len(screen')
    BY <1>1, <2>3 DEF Inject
  <2>5. mixed' \subseteq 1..MaxMsgs
    BY <1>m, <1>1, <2>1 DEF Inject
  <2> QED
    BY <1>1, <2>1, <2>3, <2>4, <2>5 DEF Inject
<1>2. ASSUME NEW t \in Threads, OpenTrigger(t) PROVE Types'
  BY <1>2 DEF OpenTrigger, Torn
<1>3. ASSUME NEW t \in Threads, WriteTrigger(t) PROVE Types'
  <2>1. trigger' \in 1..MaxMsgs \cup {NoFile, Torn}
    <3>1. msg[t] \in 1..MaxMsgs /\ trigger \in 1..MaxMsgs \cup {NoFile, Torn}
      BY <1>m, <1>3 DEF WriteTrigger
    <3>2. trigger' \in {trigger, msg[t], Torn}
      BY <1>3 DEF WriteTrigger
    <3> QED
      BY ONLY <3>1, <3>2
  <2>2. msg' \in [Threads -> 0..MaxMsgs] /\ open' \in [Threads -> BOOLEAN]
    BY <1>m, <1>3 DEF WriteTrigger
  <2>3. pc' \in [Threads -> {"idle", "open", "write"}]
    BY <1>3 DEF WriteTrigger
  <2>4. \A u \in Threads : pc'[u] # "idle" => msg'[u] \in 1..MaxMsgs
    BY <1>3 DEF WriteTrigger
  <2>5. UNCHANGED <<textVars, nextMsg, mixed, halfRead, screenVars, agentVars, watchVars>>
    BY <1>3 DEF WriteTrigger
  <2> QED
    BY <2>1, <2>2, <2>3, <2>4, <2>5
<1>4. CASE AgentTakes
  <2>1. queue \in Seq(1..MaxMsgs) /\ queue # <<>>
    BY <1>4 DEF AgentTakes, screenVars
  <2>2. Head(queue) \in 1..MaxMsgs /\ Tail(queue) \in Seq(1..MaxMsgs)
    <3>1. PICK S : S = 1..MaxMsgs
      OBVIOUS
    <3>2. queue \in Seq(S) /\ queue # <<>>
      BY ONLY <2>1, <3>1
    <3>3. Head(queue) \in S /\ Tail(queue) \in Seq(S)
      BY ONLY <3>2
    <3> QED
      BY ONLY <3>1, <3>3
  <2>3. working' \in 0..MaxMsgs /\ queue' \in Seq(1..MaxMsgs)
    BY <1>m, <1>4, <2>2 DEF AgentTakes
  <2> QED
    BY <1>4, <2>3 DEF AgentTakes
<1>5. CASE AgentAnswers
  <2>1. PICK x \in Texts \cup {Noise} : screen' = Append(screen, Answer(working, x))
    BY <1>5 DEF AgentAnswers
  <2>2. working \in 1..MaxMsgs
    BY <1>m, <1>5 DEF AgentAnswers
  <2>3. Answer(working, x) \in Entries
    BY <1>m, <2>2 DEF Answer, Entries
  <2>4. screen' \in Seq(Entries) /\ Len(screen') = Len(screen) + 1
    BY <2>1, <2>3
  <2>5. base' \in 0..Len(screen')
    BY <1>5, <2>4 DEF AgentAnswers
  <2> QED
    BY <1>m, <1>5, <2>4, <2>5 DEF AgentAnswers
<1>6. CASE DropTrigger
  <2>1. halfRead' \subseteq 1..MaxMsgs
    BY <1>6 DEF DropTrigger
  <2> QED
    BY <1>6, <2>1 DEF DropTrigger
<1>7. CASE Begin
  <2>1. cur' \in 1..MaxMsgs /\ base' \in 0..Len(screen) /\ reply' = <<>>
    BY <1>7 DEF Begin, NoFile, Torn
  <2> QED
    BY <1>m, <1>7, <2>1 DEF Begin
<1>8. CASE Settle
  <2>1. Len(screen) \in base..Len(screen)
    OBVIOUS
  <2>2. PICK lines : lines = IF session THEN Scraped(Len(screen)) ELSE <<>>
    OBVIOUS
  <2>3. lines \in Seq(Entries)
    BY <2>1, <2>2, ScrapedType
  <2> QED
    BY <1>8, <2>2, <2>3, ConcludeTypes DEF Settle
<1>9. CASE GiveUp
  <2>1. PICK n \in base..Len(screen) : Conclude(IF working # 0 THEN <<>> ELSE Scraped(n))
    BY <1>9 DEF GiveUp
  <2>2. PICK lines : lines = IF working # 0 THEN <<>> ELSE Scraped(n)
    OBVIOUS
  <2>3. lines \in Seq(Entries)
    BY <2>2, ScrapedType
  <2> QED
    BY <1>9, <2>1, <2>2, <2>3, ConcludeTypes DEF GiveUp
<1>10. CASE PostStored
  BY <1>m, <1>10 DEF PostStored
<1>11. CASE PostRefused \/ Retry
  <2>1. CASE PostRefused
    BY <1>m, <2>1 DEF PostRefused
  <2>2. CASE Retry
    BY <1>m, <2>2 DEF Retry
  <2> QED
    BY <1>11, <2>1, <2>2
<1>12. CASE Unlink
  BY <1>m, <1>12 DEF Unlink, NoFile
<1>13. CASE WatcherCrash
  BY <1>m, <1>13 DEF WatcherCrash
<1>14. CASE SessionGone \/ SessionBack
  BY <1>14 DEF SessionGone, SessionBack
<1>15. CASE SessionReplaced
  <2>1. Banner \in Entries
    BY <1>m DEF Banner, Entries
  <2>2. screen' \in Seq(Entries) /\ Len(screen') = 1 /\ base' = 0
    BY <1>15, <2>1 DEF SessionReplaced
  <2>3. base' \in 0..Len(screen')
    BY <2>2
  <2>4. cut' \subseteq 1..MaxMsgs
    BY <1>m, <1>15 DEF SessionReplaced
  <2>5. queue' \in Seq(1..MaxMsgs) /\ working' \in 0..MaxMsgs /\ session' \in BOOLEAN
    BY <1>m, <1>15 DEF SessionReplaced
  <2> QED
    BY <1>15, <2>2, <2>3, <2>4, <2>5 DEF SessionReplaced
<1>16. CASE UNCHANGED vars
  BY <1>16 DEF vars
<1> QED
  BY <1>1, <1>2, <1>3, <1>4, <1>5, <1>6, <1>7, <1>8, <1>9, <1>10, <1>11, <1>12, <1>13,
     <1>14, <1>15, <1>16 DEF Next, Dispatch, WatcherStep, Session

LEMMA TmuxTypesInit == Init => Types
  BY TmuxAssumption DEF Init, Types, TmuxTypeOK, Ids, NoFile, Entries

\* For any threads, texts and bounds: the variables stay in their types, and
\* the watcher has something to post only while it posts.
THEOREM TmuxTypesAlways == Spec => []TmuxTypeOK
<1>1. Types => TmuxTypeOK
  BY DEF Types
<1> QED
  BY <1>1, TmuxTypesInit, TmuxTypesStep, PTL DEF Spec

-----------------------------------------------------------------------------
(* Whose answer is posted.                                                 *)

\* Some thread, the trigger, the agent or the watcher has the message.
InPlay(m) ==
    \/ \E t \in Threads : pc[t] # "idle" /\ msg[t] = m
    \/ trigger = m
    \/ wpc \in {"wait", "post"} /\ cur = m
    \/ working = m
    \/ \E i \in 1..Len(queue) : queue[i] = m

\* Of those that nobody mixed only the newest is in play.
Latest ==
    \A m \in 1..MaxMsgs :
        InPlay(m) => m < nextMsg /\ (m \in mixed \/ m = nextMsg - 1)

\* The prompt of message m was shown at place p, as the first thing of its
\* turn; what came after it is the answer to it; the agent has no other
\* message; and the watcher that waits for it began after that.
Alone(m, p) ==
    /\ p \in 1..Len(screen) /\ screen[p] = Prompt(m)
    /\ \A i \in 1..p - 1 : screen[i].msg # m
    /\ \A i \in p + 1..Len(screen) : screen[i].kind = "answer" /\ screen[i].msg = m
    /\ queue \in {<<>>, <<m>>} /\ working \in {0, m}
    /\ wpc \in {"wait", "post"} /\ cur = m => p <= base

Solo ==
    LET m == nextMsg - 1
    IN  InPlay(m) /\ m \in 1..MaxMsgs \ (mixed \cup cut) => \E p \in Nat : Alone(m, p)

\* Nothing is shown of messages still to come.
Older == \A i \in 1..Len(screen) : screen[i].msg < nextMsg

\* What the watcher goes on to post is the agent's answer.
Own(lines, m) == \A j \in 1..Len(lines) : lines[j].kind = "answer" /\ lines[j].msg = m
OwnReply == wpc = "post" /\ Plain(cur) => Own(reply, cur)

TurnInv == Latest /\ Solo /\ Older /\ OwnReply /\ OwnAnswer

\* A message the watcher waits for, unless it was mixed or lost its session,
\* is the newest, and has its turn of the terminal.
LEMMA WaitsAlone ==
    ASSUME Types, Latest, Solo, wpc \in {"wait", "post"}, cur \notin mixed \cup cut
    PROVE  cur \in 1..MaxMsgs /\ \E p \in Nat : Alone(cur, p) /\ p <= base
<1>1. cur \in 1..MaxMsgs /\ MaxMsgs \in Nat /\ nextMsg \in 1..MaxMsgs + 1
  BY TmuxAssumption DEF Types, TmuxTypeOK, Ids
<1>2. InPlay(cur)
  BY DEF InPlay
<1>3. cur = nextMsg - 1
  BY <1>1, <1>2 DEF Latest
<1>4. PICK p \in Nat : Alone(cur, p)
  BY <1>1, <1>2, <1>3 DEF Solo
<1>5. p <= base
  BY <1>4 DEF Alone
<1> QED
  BY <1>1, <1>4, <1>5

\* What comes after its prompt shows the text of a message only where the
\* answer repeats it.
LEMMA ShownBy ==
    ASSUME Types, NEW p \in Nat, cur \in 1..MaxMsgs, Alone(cur, p), cur \notin wrapped
    PROVE  /\ Shows(screen[p], cur)
           /\ \A i \in p + 1..Len(screen) :
                 Shows(screen[i], cur) => IsAnswer(i, cur) /\ screen[i].text = asks[cur]
<1>1. asks[cur] \in Texts /\ Noise \notin Texts
  BY TmuxAssumption DEF Types, TmuxTypeOK
<1>2. screen[p] = Prompt(cur)
  BY DEF Alone
<1>3. Shows(screen[p], cur)
  <2>1. PICK e : e = screen[p] /\ e.kind = "prompt" /\ e.msg = cur /\ e.text = asks[cur]
    BY <1>2 DEF Prompt
  <2>2. (e.kind = "prompt" /\ e.msg \in wrapped) = FALSE
    BY <2>1
  <2>3. Words(e) = <<asks[cur], FALSE>>
    BY <2>1, <2>2 DEF Words
  <2> QED
    BY <2>1, <2>3 DEF Shows
<1>4. ASSUME NEW i \in p + 1..Len(screen), Shows(screen[i], cur)
      PROVE  IsAnswer(i, cur) /\ screen[i].text = asks[cur]
  <2>1. screen[i].kind = "answer" /\ screen[i].msg = cur
    BY DEF Alone
  <2>2. screen[i].text = asks[cur]
    BY <1>4 DEF Shows, Words
  <2> QED
    BY <1>1, <2>1, <2>2 DEF IsAnswer
<1> QED
  BY <1>3, <1>4

\* From whichever capture it takes it, and whether the answer came before the
\* baseline or after it, the watcher gets pieces of that answer or nothing.
LEMMA ScrapedOwn ==
    ASSUME Types, NEW p \in Nat, cur \in 1..MaxMsgs, Alone(cur, p), p <= base,
           cur \notin wrapped, NEW n \in base..Len(screen)
    PROVE  Own(Scraped(n), cur)
<1>1. /\ screen \in Seq(Entries) /\ Len(screen) \in Nat /\ base \in 0..Len(screen)
      /\ n \in 0..Len(screen) /\ base <= n /\ p <= n /\ p \in 1..Len(screen)
  BY DEF Types, TmuxTypeOK, Alone
<1>2. \A i \in p + 1..Len(screen) : screen[i].kind = "answer" /\ screen[i].msg = cur
  BY DEF Alone
<1>3. Own(Clean(SubSeq(screen, base + 1, n), cur), cur)
  <2>1. PICK late : late = SubSeq(screen, base + 1, n)
    OBVIOUS
  <2>2. /\ late \in Seq(Entries) /\ Len(late) = n - base
        /\ \A i \in 1..n - base : late[i] = screen[base + i]
    BY <1>1, <2>1
  <2>3. PICK c : c = Clean(late, cur)
    OBVIOUS
  <2>4. KeptAfter(c, late, cur)
    BY <2>2, <2>3, CleanIs
  <2>5. ASSUME NEW j \in 1..Len(c) PROVE c[j].kind = "answer" /\ c[j].msg = cur
    <3>1. PICK i \in 1..n - base : c[j] = screen[base + i]
      BY <2>2, <2>4 DEF KeptAfter
    <3>2. base + i \in p + 1..Len(screen)
      BY <1>1
    <3> QED
      BY <1>2, <3>1, <3>2
  <2> QED
    BY <2>1, <2>3, <2>5 DEF Own
<1>4. Own(Clean(SubSeq(screen, 1, n), cur), cur)
  <2>1. PICK all : all = SubSeq(screen, 1, n)
    OBVIOUS
  <2>2. all \in Seq(Entries) /\ Len(all) = n /\ \A i \in 1..n : all[i] = screen[i]
    BY <1>1, <2>1
  <2>3. PICK c : c = Clean(all, cur)
    OBVIOUS
  <2>4. KeptAfter(c, all, cur)
    BY <2>2, <2>3, CleanIs
  <2>5. p \in 1..n /\ Shows(all[p], cur)
    BY <1>1, <2>2, ShownBy
  <2>6. ASSUME NEW j \in 1..Len(c) PROVE c[j].kind = "answer" /\ c[j].msg = cur
    <3>1. PICK i \in 1..n : c[j] = screen[i] /\ p < i
      BY <2>2, <2>4, <2>5 DEF KeptAfter
    <3>2. i \in p + 1..Len(screen)
      BY <1>1, <3>1
    <3> QED
      BY <1>2, <3>1, <3>2
  <2> QED
    BY <2>1, <2>3, <2>6 DEF Own
<1> QED
  BY <1>3, <1>4 DEF Scraped

\* When the answer does not repeat the message, the watcher gets every piece
\* that came after the baseline, or every piece when none did.
LEMMA ScrapedAllOfIt ==
    ASSUME Types, NEW p \in Nat, cur \in 1..MaxMsgs, Alone(cur, p), p <= base,
           cur \notin wrapped, NEW i \in 1..Len(screen), IsAnswer(i, cur),
           \A k \in 1..Len(screen) : IsAnswer(k, cur) => screen[k].text # asks[cur],
           i > base \/ \A k \in base + 1..Len(screen) : ~IsAnswer(k, cur)
    PROVE  \E j \in 1..Len(Scraped(Len(screen))) : Scraped(Len(screen))[j] = screen[i]
<1>1. PICK n \in Nat : n = Len(screen)
  BY DEF Types, TmuxTypeOK
<1>2. screen \in Seq(Entries) /\ base \in 0..n /\ p \in 1..n /\ p <= base /\ i \in 1..n
  BY <1>1 DEF Types, TmuxTypeOK, Alone
<1>3. \A k \in p + 1..n : ~Shows(screen[k], cur)
  BY <1>1, <1>2, ShownBy
<1>4. p < i
  <2>1. screen[p].kind = "prompt" /\ screen[i].kind = "answer" /\ screen[i].msg = cur
    BY DEF Alone, Prompt, IsAnswer
  <2>2. i \notin 1..p - 1
    BY <2>1 DEF Alone
  <2> QED
    BY <1>2, <2>1, <2>2
<1>5. Said(screen[i])
  BY DEF Said, IsAnswer
<1>6. PICK late : late = SubSeq(screen, base + 1, n)
  OBVIOUS
<1>7. /\ late \in Seq(Entries) /\ Len(late) = n - base
      /\ \A k \in 1..n - base : late[k] = screen[base + k]
  BY <1>1, <1>2, <1>6
<1>8. PICK diff : diff = Clean(late, cur)
  OBVIOUS
<1>9. diff \in Seq(Entries) /\ Len(diff) \in Nat
  BY <1>7, <1>8, CleanIs
<1>10. CASE i > base
  <2>1. PICK h \in 1..n - base : h = i - base
    BY <1>2, <1>10
  <2>2. late[h] = screen[i]
    BY <1>2, <1>7, <2>1
  <2>3. \A q \in h..n - base : ~Shows(late[q], cur)
    <3> SUFFICES ASSUME NEW q \in h..n - base PROVE ~Shows(late[q], cur)
      OBVIOUS
    <3>1. q \in 1..n - base /\ base + q \in p + 1..n
      BY <1>2
    <3> QED
      BY <1>3, <1>7, <3>1
  <2>4. \E j \in 1..Len(diff) : diff[j] = screen[i]
    <3>1. KeepsRest(diff, late, cur)
      BY <1>7, <1>8, CleanIs
    <3>2. h \in 1..Len(late) /\ Said(late[h]) /\ \A q \in h..Len(late) : ~Shows(late[q], cur)
      BY <1>5, <1>7, <2>2, <2>3
    <3>3. \E j \in 1..Len(diff) : diff[j] = late[h]
      BY ONLY <3>1, <3>2 DEF KeepsRest
    <3> QED
      BY <2>2, <3>3
  <2>5. diff # <<>>
    BY <1>9, <2>4
  <2>6. Scraped(n) = diff
    BY <1>6, <1>8, <2>5 DEF Scraped
  <2> QED
    BY <1>1, <2>4, <2>6
<1>11. CASE \A k \in base + 1..n : ~IsAnswer(k, cur)
  <2>1. diff = <<>>
    <3> SUFFICES ASSUME Len(diff) # 0 PROVE FALSE
      BY <1>9
    <3>1. 1 \in 1..Len(diff)
      BY <1>9
    <3>a. KeptAfter(diff, late, cur)
      BY <1>7, <1>8, CleanIs
    <3>2. PICK k \in 1..n - base : diff[1] = late[k] /\ Said(diff[1])
      BY <1>7, <3>1, <3>a DEF KeptAfter
    <3>3. PICK l \in base + 1..n : l = base + k /\ l \in p + 1..n
      BY <1>2
    <3>4. diff[1] = screen[l] /\ Said(screen[l])
      BY <1>7, <3>2, <3>3
    <3>5. screen[l].kind = "answer" /\ screen[l].msg = cur
      BY <1>1, <3>3 DEF Alone
    <3>6. IsAnswer(l, cur)
      BY <3>4, <3>5 DEF Said, IsAnswer
    <3> QED
      BY <1>11, <3>3, <3>6
  <2>2. PICK all : all = SubSeq(screen, 1, n)
    OBVIOUS
  <2>3. all \in Seq(Entries) /\ Len(all) = n /\ \A k \in 1..n : all[k] = screen[k]
    BY <1>1, <1>2, <2>2
  <2>4. \A q \in i..n : ~Shows(all[q], cur)
    BY <1>2, <1>3, <1>4, <2>3
  <2>5. PICK c : c = Clean(all, cur)
    OBVIOUS
  <2>6. \E j \in 1..Len(c) : c[j] = screen[i]
    <3>1. KeepsRest(c, all, cur)
      BY <2>3, <2>5, CleanIs
    <3>2. i \in 1..Len(all) /\ Said(all[i]) /\ \A q \in i..Len(all) : ~Shows(all[q], cur)
      BY <1>2, <1>5, <2>3, <2>4
    <3>3. \E j \in 1..Len(c) : c[j] = all[i]
      BY ONLY <3>1, <3>2 DEF KeepsRest
    <3> QED
      BY <1>2, <2>3, <3>3
  <2>7. Scraped(n) = c
    BY <1>6, <1>8, <2>1, <2>2, <2>5 DEF Scraped
  <2> QED
    BY <1>1, <2>6, <2>7
<1> QED
  BY <1>1, <1>10, <1>11

\* Steps that put nobody else in play, and those that leave the terminal.
LEMMA LatestStays ==
    ASSUME Latest, UNCHANGED <<nextMsg, mixed>>,
           \A m \in 1..MaxMsgs : InPlay(m)' => InPlay(m)
    PROVE  Latest'
BY DEF Latest

LEMMA SoloStays ==
    ASSUME Types, Solo, UNCHANGED <<asks, nextMsg, mixed, cut, screen, queue, working>>,
           \A m \in 1..MaxMsgs : InPlay(m)' => InPlay(m),
           wpc' \in {"wait", "post"} => \/ wpc \in {"wait", "post"} /\ cur' = cur /\ base' = base
                                        \/ base' = Len(screen)
    PROVE  Solo'
<1>1. PICK m : m = nextMsg - 1
  OBVIOUS
<1> SUFFICES ASSUME InPlay(m)', m \in 1..MaxMsgs \ (mixed \cup cut)
             PROVE  \E p \in Nat : Alone(m, p)'
  BY <1>1 DEF Solo
<1>2. PICK p \in Nat : Alone(m, p)
  BY <1>1 DEF Solo
<1>3. p \in 1..Len(screen) /\ Len(screen) \in Nat
  BY <1>2 DEF Alone, Types, TmuxTypeOK
<1>4. wpc' \in {"wait", "post"} /\ cur' = m => p <= base'
  BY <1>2, <1>3 DEF Alone
<1>5. Alone(m, p)'
  BY <1>2, <1>3, <1>4 DEF Alone, Prompt
<1> QED
  BY <1>5

LEMMA ReplyStays ==
    ASSUME OwnReply, mixed \subseteq mixed', cut \subseteq cut', UNCHANGED wrapped,
           wpc' = "post" => UNCHANGED <<wpc, cur, reply>>
    PROVE  OwnReply'
BY DEF OwnReply, Own, Plain

LEMMA AnswerStays ==
    ASSUME OwnAnswer, mixed \subseteq mixed', cut \subseteq cut', UNCHANGED <<wrapped, posts>>
    PROVE  OwnAnswer'
BY DEF OwnAnswer, Plain

\* What is posted is the reply the watcher has.
LEMMA Posted ==
    ASSUME PostsAreSeq, OwnAnswer, OwnReply, wpc = "post",
           posts' = Append(posts, Post), UNCHANGED <<mixed, cut, wrapped>>
    PROVE  OwnAnswer'
<1>1. PICK S : posts \in Seq(S)
  BY DEF PostsAreSeq
<1>2. PICK b : b = Post
  OBVIOUS
<1>3. b.parent = cur /\ b.lines = reply
  BY <1>2 DEF Post
<1>4. PICK T : posts \in Seq(T) /\ b \in T
  <2> DEFINE T == S \cup {b}
  <2>1. posts \in Seq(T) /\ b \in T
    BY <1>1
  <2> QED
    BY <2>1
<1>5. /\ Len(posts) \in Nat /\ Len(Append(posts, b)) = Len(posts) + 1
      /\ \A i \in 1..Len(posts) : Append(posts, b)[i] = posts[i]
      /\ Append(posts, b)[Len(posts) + 1] = b
  BY <1>4
<1> SUFFICES ASSUME NEW i \in 1..Len(posts)', Plain(posts[i]'.parent)
             PROVE  \A j \in 1..Len(posts[i].lines)' :
                       /\ posts[i]'.lines[j].kind = "answer"
                       /\ posts[i]'.lines[j].msg = posts[i]'.parent
  BY DEF OwnAnswer, Plain
<1>6. CASE i = Len(posts) + 1
  <2>1. posts'[i] = b
    BY <1>2, <1>5, <1>6
  <2>2. Own(reply, cur)
    BY <1>3, <2>1 DEF OwnReply
  <2> QED
    BY <1>3, <2>1, <2>2 DEF Own
<1>7. CASE i \in 1..Len(posts)
  <2>1. posts'[i] = posts[i]
    BY <1>2, <1>5, <1>7
  <2> QED
    BY <1>7, <2>1 DEF OwnAnswer
<1> QED
  BY <1>2, <1>5, <1>6, <1>7

\* The watcher concludes with the agent's answer, or with nothing.
LEMMA ConcludeTurn ==
    ASSUME Types, TurnInv, wpc = "wait", NEW lines, Conclude(lines),
           \/ lines = <<>>
           \/ \E n \in base..Len(screen) : lines = Scraped(n),
           UNCHANGED <<textVars, dispatchVars, trigger, screenVars, agentVars, lastReply, posts, crashes>>
    PROVE  TurnInv'
<1> USE DEF textVars, dispatchVars, screenVars, agentVars, TurnInv
<1>1. \/ wpc' = "unlink"
      \/ wpc' = "post" /\ cur' = cur /\ base' = base /\ reply' = lines /\ lines # <<>>
  BY Concludes
<1>2. Latest'
  <2>1. \A m \in 1..MaxMsgs : InPlay(m)' => InPlay(m)
    BY <1>1 DEF InPlay
  <2> QED
    BY <2>1, LatestStays
<1>3. Solo'
  <2>1. \A m \in 1..MaxMsgs : InPlay(m)' => InPlay(m)
    BY <1>1 DEF InPlay
  <2> QED
    BY <1>1, <2>1, SoloStays
<1>4. OwnReply'
  <2> SUFFICES ASSUME wpc' = "post", Plain(cur) PROVE Own(lines, cur)
    BY <1>1 DEF OwnReply, Own, Plain
  <2>1. PICK n \in base..Len(screen) : lines = Scraped(n)
    BY <1>1
  <2>2. PICK p \in Nat : Alone(cur, p) /\ p <= base
    BY WaitsAlone DEF Plain
  <2>3. cur \in 1..MaxMsgs /\ cur \notin wrapped
    BY DEF Plain, Types, Ids
  <2> QED
    BY <2>1, <2>2, <2>3, ScrapedOwn
<1>5. OwnAnswer'
  BY AnswerStays
<1>6. Older'
  BY DEF Older
<1> QED
  BY <1>2, <1>3, <1>4, <1>5, <1>6

\* A prompt that comes when nothing is going on begins a turn of its own; any
\* other mixes all that there are.
LEMMA InjectTurn ==
    ASSUME Types, TurnInv, NEW t \in Threads, Inject(t)
    PROVE  TurnInv'
<1>1. /\ nextMsg \in 1..MaxMsgs /\ nextMsg' = nextMsg + 1 /\ MaxMsgs \in Nat
      /\ screen' = Append(screen, Prompt(nextMsg)) /\ screen \in Seq(Entries)
      /\ queue' = Append(queue, nextMsg) /\ queue \in Seq(1..MaxMsgs)
      /\ UNCHANGED <<asks, wrapped, cut, trigger, working, wpc, cur, base, reply, posts>>
  BY TmuxAssumption DEF Inject, textVars, watchVars, Types, TmuxTypeOK
<1>2. Prompt(nextMsg) \in Entries /\ Prompt(nextMsg).msg = nextMsg
  BY <1>1 DEF Prompt, Entries, Types, TmuxTypeOK
<1>3. /\ Len(screen) \in Nat /\ Len(screen') = Len(screen) + 1
      /\ \A i \in 1..Len(screen) : screen'[i] = screen[i]
      /\ screen'[Len(screen) + 1] = Prompt(nextMsg)
  BY <1>1, <1>2
<1>4. (mixed' = mixed /\ Quiet) \/ (mixed' = mixed \cup 1..nextMsg /\ ~Quiet)
  <2>1. mixed' = IF Quiet THEN mixed ELSE mixed \cup 1..nextMsg
    BY DEF Inject
  <2> QED
    BY <2>1
<1>9. \A i \in 1..Len(screen) : screen[i].msg \in 0..MaxMsgs
  <2>1. \A i \in 1..Len(screen) : screen[i] \in Entries
    BY <1>1
  <2>2. \A e \in Entries : e.msg \in 0..MaxMsgs
    BY DEF Entries
  <2> QED
    BY <2>1, <2>2
<1>5. Latest'
  <2> SUFFICES ASSUME NEW m \in 1..MaxMsgs, InPlay(m)'
               PROVE  m < nextMsg + 1 /\ (m \in mixed' \/ m = nextMsg)
    BY <1>1 DEF Latest
  <2>1. InPlay(m) \/ m = nextMsg
    <3>1. \A i \in 1..Len(queue') : queue'[i] = nextMsg \/ \E k \in 1..Len(queue) : queue[k] = queue'[i]
      BY <1>1
    <3>2. \A u \in Threads : pc'[u] # "idle" => \/ pc[u] # "idle" /\ msg'[u] = msg[u]
                                                \/ msg'[u] = nextMsg
      BY DEF Inject, Types, TmuxTypeOK
    <3>3. CASE \E u \in Threads : pc'[u] # "idle" /\ msg'[u] = m
      BY <3>2, <3>3 DEF InPlay
    <3>4. CASE \E i \in 1..Len(queue') : queue'[i] = m
      BY <3>1, <3>4 DEF InPlay
    <3>5. CASE trigger = m \/ (wpc \in {"wait", "post"} /\ cur = m) \/ working = m
      BY <3>5 DEF InPlay
    <3> QED
      BY <1>1, <3>3, <3>4, <3>5 DEF InPlay
  <2>2. m <= nextMsg
    BY <1>1, <2>1 DEF Latest, TurnInv
  <2>3. CASE mixed' = mixed \cup 1..nextMsg
    BY <1>1, <2>2, <2>3
  <2>4. CASE Quiet
    <3>1. ~InPlay(m)
      BY <2>4, <1>1 DEF Quiet, InPlay, NoFile
    <3> QED
      BY <1>1, <2>1, <3>1
  <2> QED
    BY <1>4, <2>3, <2>4
<1>6. Solo'
  <2>1. nextMsg' - 1 = nextMsg
    BY <1>1
  <2>2. CASE nextMsg \in mixed'
    BY <2>1, <2>2 DEF Solo
  <2>3. CASE Quiet
    <3>1. PICK p \in Nat : p = Len(screen) + 1
      BY <1>3
    <3>2. queue' = <<nextMsg>> /\ working' = 0 /\ wpc' = "look"
      <4>1. queue = <<>> /\ working = 0 /\ wpc = "look"
        BY <2>3 DEF Quiet
      <4> QED
        BY <1>1, <4>1
    <3>0. PICK m : m = nextMsg
      OBVIOUS
    <3>3. p \in 1..Len(screen') /\ Len(screen') = p /\ screen'[p] = Prompt(m)'
      BY <1>1, <1>3, <3>0, <3>1 DEF Prompt
    <3>4. \A i \in 1..p - 1 : screen'[i].msg # nextMsg
      <4>1. \A i \in 1..Len(screen) : screen[i].msg \in 0..MaxMsgs /\ screen[i].msg < nextMsg
        BY <1>9 DEF Older, TurnInv
      <4>2. p - 1 = Len(screen)
        BY <1>3, <3>1
      <4> QED
        BY <1>1, <1>3, <4>1, <4>2
    <3>5. p + 1..Len(screen') = {}
      BY <3>3
    <3>6. Alone(m, p)'
      BY <3>0, <3>2, <3>3, <3>4, <3>5 DEF Alone
    <3> QED
      BY <2>1, <3>0, <3>6 DEF Solo
  <2> QED
    BY <1>1, <1>4, <2>2, <2>3
<1>7. Older'
  <2>1. \A i \in 1..Len(screen) : screen[i].msg \in 0..MaxMsgs /\ screen[i].msg < nextMsg
    BY <1>9 DEF Older, TurnInv
  <2>2. nextMsg < nextMsg + 1 /\ \A k \in 0..MaxMsgs : k < nextMsg => k < nextMsg + 1
    BY <1>1
  <2>3. \A i \in 1..Len(screen') : screen'[i].msg < nextMsg + 1
    <3> SUFFICES ASSUME NEW i \in 1..Len(screen') PROVE screen'[i].msg < nextMsg + 1
      OBVIOUS
    <3>1. i \in 1..Len(screen) \/ i = Len(screen) + 1
      BY <1>3
    <3> QED
      BY <1>2, <1>3, <2>1, <2>2, <3>1
  <2> QED
    BY <1>1, <2>3 DEF Older
<1>8. OwnReply' /\ OwnAnswer'
  <2>1. mixed \subseteq mixed'
    BY <1>4
  <2> QED
    BY <1>1, <2>1, ReplyStays, AnswerStays DEF TurnInv
<1> QED
  BY <1>5, <1>6, <1>7, <1>8 DEF TurnInv

\* The agent works on the newest message alone, and answers it after its
\* prompt.
LEMMA AgentTurn ==
    ASSUME Types, TurnInv, AgentTakes \/ AgentAnswers
    PROVE  TurnInv'
<1>1. /\ screen \in Seq(Entries) /\ queue \in Seq(1..MaxMsgs) /\ working \in 0..MaxMsgs
      /\ Len(screen) \in Nat /\ nextMsg \in 1..MaxMsgs + 1 /\ MaxMsgs \in Nat
  BY TmuxAssumption DEF Types, TmuxTypeOK
<1>2. UNCHANGED <<asks, wrapped, pc, msg, nextMsg, mixed, cut, trigger, wpc, cur, base, reply,
                  posts>>
  BY DEF AgentTakes, AgentAnswers, textVars, dispatchVars, screenVars, watchVars
<1>3. OwnReply' /\ OwnAnswer'
  BY <1>2, ReplyStays, AnswerStays DEF TurnInv
<1>4. CASE AgentTakes
  <2>1. /\ screen' = screen /\ working = 0 /\ queue # <<>>
        /\ working' = Head(queue) /\ queue' = Tail(queue)
    BY <1>4 DEF AgentTakes, screenVars
  <2>5. \A m \in 1..MaxMsgs : InPlay(m)' => InPlay(m)
    <3>1. /\ working' = queue[1] /\ 1 \in 1..Len(queue)
          /\ \A i \in 1..Len(queue') : i + 1 \in 1..Len(queue) /\ queue'[i] = queue[i + 1]
      BY <1>1, <2>1
    <3>2. ASSUME NEW m \in 1..MaxMsgs, InPlay(m)' PROVE InPlay(m)
      <4>1. CASE working' = m
        BY <3>1, <4>1 DEF InPlay
      <4>2. CASE \E i \in 1..Len(queue') : queue'[i] = m
        BY <3>1, <4>2 DEF InPlay
      <4> QED
        BY <1>2, <3>2, <4>1, <4>2 DEF InPlay
    <3> QED
      BY <3>2
  <2>2. Latest'
    BY <1>2, <2>5, LatestStays DEF TurnInv
  <2>3. Solo'
    <3>1. PICK m : m = nextMsg - 1
      OBVIOUS
    <3> SUFFICES ASSUME m \in 1..MaxMsgs \ (mixed \cup cut), InPlay(m)'
                 PROVE  \E p \in Nat : Alone(m, p)'
      BY <1>2, <3>1 DEF Solo
    <3>2. InPlay(m)
      BY <2>5
    <3>3. PICK p \in Nat : Alone(m, p)
      BY <3>1, <3>2 DEF Solo, TurnInv
    <3>4. queue = <<m>>
      BY <2>1, <3>3 DEF Alone
    <3>5. queue' = <<>> /\ working' = m
      BY <2>1, <3>4
    <3>6. Alone(m, p)'
      BY <1>2, <2>1, <3>3, <3>5 DEF Alone, Prompt
    <3> QED
      BY <3>6
  <2>4. Older'
    BY <1>2, <2>1 DEF Older, TurnInv
  <2> QED
    BY <1>3, <2>2, <2>3, <2>4 DEF TurnInv
<1>5. CASE AgentAnswers
  <2>1. PICK x \in Texts \cup {Noise} : screen' = Append(screen, Answer(working, x))
    BY <1>5 DEF AgentAnswers
  <2>2. working \in 1..MaxMsgs /\ working' \in {0, working} /\ queue' = queue
    <3>1. working' \in {0} \cup (IF Len(screen) < MaxLines - 1 THEN {working} ELSE {})
      BY <1>5 DEF AgentAnswers
    <3> QED
      BY <1>1, <1>5, <3>1 DEF AgentAnswers
  <2>3. PICK e \in Entries : e = Answer(working, x) /\ e.kind = "answer" /\ e.msg = working
    <3>1. /\ Answer(working, x) \in Entries
          /\ Answer(working, x).kind = "answer" /\ Answer(working, x).msg = working
      BY <2>2 DEF Answer, Entries
    <3> QED
      BY <3>1
  <2>4. /\ Len(screen') = Len(screen) + 1 /\ screen'[Len(screen) + 1] = e
        /\ \A i \in 1..Len(screen) : screen'[i] = screen[i]
    BY <1>1, <2>1, <2>3
  <2>5. working < nextMsg
    BY <2>2 DEF TurnInv, Latest, InPlay
  <2>9. \A m \in 1..MaxMsgs : InPlay(m)' => InPlay(m)
    <3>1. \A m \in 1..MaxMsgs : working' = m => working = m
      BY <2>2
    <3> QED
      BY <1>2, <2>2, <3>1 DEF InPlay
  <2>6. Latest'
    BY <1>2, <2>9, LatestStays DEF TurnInv
  <2>7. Solo'
    <3>1. PICK m : m = nextMsg - 1
      OBVIOUS
    <3> SUFFICES ASSUME m \in 1..MaxMsgs \ (mixed \cup cut), InPlay(m)'
                 PROVE  \E p \in Nat : Alone(m, p)'
      BY <1>2, <3>1 DEF Solo
    <3>2. PICK p \in Nat : Alone(m, p)
      BY <2>9, <3>1 DEF Solo, TurnInv
    <3>3. working = m /\ p \in 1..Len(screen)
      BY <2>2, <3>2 DEF Alone
    <3>4. p \in 1..Len(screen') /\ \A i \in 1..p : screen'[i] = screen[i]
      BY <1>1, <2>4, <3>3
    <3>5. screen'[p] = Prompt(m)' /\ \A i \in 1..p - 1 : screen'[i].msg # m
      BY <1>2, <3>2, <3>4 DEF Alone, Prompt
    <3>6. \A i \in p + 1..Len(screen') : screen'[i].kind = "answer" /\ screen'[i].msg = m
      <4> SUFFICES ASSUME NEW i \in p + 1..Len(screen')
                   PROVE  screen'[i].kind = "answer" /\ screen'[i].msg = m
        OBVIOUS
      <4>1. CASE i = Len(screen) + 1
        BY <2>3, <2>4, <3>3, <4>1
      <4>2. CASE i \in p + 1..Len(screen) /\ i \in 1..Len(screen)
        BY <2>4, <3>2, <4>2 DEF Alone
      <4>3. PICK l \in Nat : l = Len(screen)
        BY <1>1
      <4>4. i = l + 1 \/ (i \in p + 1..l /\ i \in 1..l)
        BY <2>4, <3>3, <4>3
      <4> QED
        BY <4>1, <4>2, <4>3, <4>4
    <3>7. working' \in {0, m} /\ queue' \in {<<>>, <<m>>}
      BY <2>2, <3>2, <3>3 DEF Alone
    <3>8. Alone(m, p)'
      BY <1>2, <3>2, <3>4, <3>5, <3>6, <3>7 DEF Alone
    <3> QED
      BY <3>8
  <2>8. Older'
    <3> SUFFICES ASSUME NEW i \in 1..Len(screen') PROVE screen'[i].msg < nextMsg
      BY <1>2 DEF Older
    <3>1. i \in 1..Len(screen) \/ i = Len(screen) + 1
      BY <1>1, <2>4
    <3> QED
      BY <2>3, <2>4, <2>5, <3>1 DEF Older, TurnInv
  <2> QED
    BY <1>3, <2>6, <2>7, <2>8 DEF TurnInv
<1> QED
  BY <1>4, <1>5

\* What leaves the terminal and the agent alone leaves the turn as it is.
LEMMA TurnStays ==
    ASSUME Types, TurnInv,
           UNCHANGED <<asks, wrapped, nextMsg, mixed, cut, screen, queue, working>>,
           \A m \in 1..MaxMsgs : InPlay(m)' => InPlay(m),
           wpc' \in {"wait", "post"} => \/ wpc \in {"wait", "post"} /\ cur' = cur /\ base' = base
                                        \/ base' = Len(screen),
           wpc' = "post" => UNCHANGED <<wpc, cur, reply>>,
           OwnAnswer'
    PROVE  TurnInv'
<1>1. Older' /\ mixed \subseteq mixed' /\ cut \subseteq cut'
  BY DEF TurnInv, Older
<1> QED
  BY <1>1, LatestStays, SoloStays, ReplyStays DEF TurnInv

\* What came with the session that was replaced is nobody's turn any more.
LEMMA ReplacedTurn ==
    ASSUME Types, TurnInv, SessionReplaced
    PROVE  TurnInv'
<1>1. /\ UNCHANGED <<asks, wrapped, pc, msg, nextMsg, mixed, trigger, wpc, cur, reply, posts>>
      /\ screen' = <<Banner>> /\ queue' = <<>> /\ working' = 0
      /\ nextMsg \in 1..MaxMsgs + 1 /\ MaxMsgs \in Nat
  BY TmuxAssumption DEF SessionReplaced, textVars, dispatchVars, Types, TmuxTypeOK
<1>2. (cut' = cut /\ Quiet) \/ (cut' = cut \cup 1..nextMsg - 1)
  BY DEF SessionReplaced
<1>3. cut \subseteq cut' /\ mixed \subseteq mixed'
  BY <1>1, <1>2
<1>4. \A m \in 1..MaxMsgs : InPlay(m)' => InPlay(m)
  BY <1>1 DEF InPlay
<1>5. Latest'
  BY <1>1, <1>4, LatestStays DEF TurnInv
<1>6. Solo'
  <2> SUFFICES ASSUME nextMsg - 1 \in 1..MaxMsgs, nextMsg - 1 \notin cut', InPlay(nextMsg - 1)'
               PROVE  FALSE
    BY <1>1 DEF Solo
  <2>1. Quiet
    BY <1>1, <1>2
  <2> QED
    BY <1>1, <1>4, <2>1 DEF Quiet, InPlay, NoFile
<1>7. Older'
  <2>1. Len(screen') = 1 /\ screen'[1] = Banner /\ Banner.msg = 0
    BY <1>1 DEF Banner
  <2> QED
    BY <1>1, <2>1 DEF Older
<1>8. OwnReply' /\ OwnAnswer'
  BY <1>1, <1>3, ReplyStays, AnswerStays DEF TurnInv
<1> QED
  BY <1>5, <1>6, <1>7, <1>8 DEF TurnInv

LEMMA TurnStep ==
    ASSUME Types, PostsAreSeq, TurnInv, [Next]_vars
    PROVE  TurnInv'
<1>0. mixed \subseteq mixed /\ Len(screen) \in Nat
  BY DEF Types, TmuxTypeOK
<1> USE DEF textVars, dispatchVars, screenVars, agentVars, watchVars, Watch
<1>1. ASSUME NEW t \in Threads, Inject(t) PROVE TurnInv'
  BY <1>1, InjectTurn
<1>2. ASSUME NEW t \in Threads, OpenTrigger(t) PROVE TurnInv'
  <2>1. \A m \in 1..MaxMsgs : InPlay(m)' => InPlay(m)
    BY <1>2 DEF OpenTrigger, InPlay, Torn, Types, TmuxTypeOK
  <2> QED
    BY <1>2, <2>1, AnswerStays, TurnStays DEF OpenTrigger, TurnInv
<1>3. ASSUME NEW t \in Threads, WriteTrigger(t) PROVE TurnInv'
  <2>1. \A m \in 1..MaxMsgs : InPlay(m)' => InPlay(m)
    <3>1. trigger' \in {trigger, msg[t], Torn} /\ pc[t] # "idle"
      BY <1>3 DEF WriteTrigger
    <3>2. \A u \in Threads : pc'[u] # "idle" => pc[u] # "idle" /\ msg'[u] = msg[u]
      BY <1>3 DEF WriteTrigger, Types, TmuxTypeOK
    <3>3. UNCHANGED <<wpc, cur, working, queue>>
      BY <1>3 DEF WriteTrigger
    <3> QED
      BY <3>1, <3>2, <3>3 DEF InPlay, Torn
  <2> QED
    BY <1>3, <2>1, AnswerStays, TurnStays DEF WriteTrigger, TurnInv
<1>4. CASE AgentTakes \/ AgentAnswers
  BY <1>4, AgentTurn
<1>5. CASE DropTrigger
  <2>1. \A m \in 1..MaxMsgs : InPlay(m)' => InPlay(m)
    BY <1>5 DEF DropTrigger, InPlay
  <2> QED
    BY <1>5, <2>1, AnswerStays, TurnStays DEF DropTrigger, TurnInv
<1>6. CASE Begin
  <2>1. \A m \in 1..MaxMsgs : InPlay(m)' => InPlay(m)
    BY <1>6 DEF Begin, InPlay
  <2> QED
    BY <1>6, <2>1, AnswerStays, TurnStays DEF Begin, TurnInv
<1>7. CASE Settle
  <2>1. Len(screen) \in base..Len(screen)
    BY DEF Types, TmuxTypeOK
  <2>2. PICK lines : lines = IF session THEN Scraped(Len(screen)) ELSE <<>>
    OBVIOUS
  <2> QED
    BY <1>7, <2>1, <2>2, ConcludeTurn DEF Settle
<1>8. CASE GiveUp
  <2>1. PICK n \in base..Len(screen) : Conclude(IF working # 0 THEN <<>> ELSE Scraped(n))
    BY <1>8 DEF GiveUp
  <2>2. PICK lines : lines = IF working # 0 THEN <<>> ELSE Scraped(n)
    OBVIOUS
  <2> QED
    BY <1>8, <2>1, <2>2, ConcludeTurn DEF GiveUp
<1>9. CASE PostStored
  <2>1. \A m \in 1..MaxMsgs : InPlay(m)' => InPlay(m)
    BY <1>9 DEF PostStored, InPlay
  <2>2. OwnAnswer'
    BY <1>9, Posted DEF PostStored, TurnInv
  <2> QED
    BY <1>9, <2>1, <2>2, TurnStays DEF PostStored
<1>10. CASE PostRefused \/ Retry \/ SessionGone \/ SessionBack
  <2>1. \A m \in 1..MaxMsgs : InPlay(m)' => InPlay(m)
    BY <1>10 DEF PostRefused, Retry, SessionGone, SessionBack, InPlay
  <2> QED
    BY <1>10, <2>1, AnswerStays, TurnStays
       DEF PostRefused, Retry, SessionGone, SessionBack, TurnInv
<1>11. CASE Unlink
  <2>1. \A m \in 1..MaxMsgs : InPlay(m)' => InPlay(m)
    BY <1>11 DEF Unlink, InPlay, NoFile
  <2> QED
    BY <1>11, <2>1, AnswerStays, TurnStays DEF Unlink, TurnInv
<1>12. CASE WatcherCrash
  <2>1. \A m \in 1..MaxMsgs : InPlay(m)' => InPlay(m)
    BY <1>12 DEF WatcherCrash, InPlay
  <2>2. \/ posts' = posts
        \/ wpc = "post" /\ posts' = Append(posts, Post)
    <3>1. posts' \in {posts} \cup (IF wpc = "post" THEN {Append(posts, Post)} ELSE {})
      BY <1>12 DEF WatcherCrash
    <3> QED
      BY <3>1
  <2>3. OwnAnswer'
    BY <1>12, <2>2, AnswerStays, Posted DEF WatcherCrash, TurnInv
  <2> QED
    BY <1>12, <2>1, <2>3, TurnStays DEF WatcherCrash
<1>14. CASE SessionReplaced
  BY <1>14, ReplacedTurn
<1>13. CASE UNCHANGED vars
  <2>1. \A m \in 1..MaxMsgs : InPlay(m)' => InPlay(m)
    BY <1>13 DEF vars, InPlay
  <2> QED
    BY <1>13, <2>1, AnswerStays, TurnStays DEF vars, TurnInv
<1> QED
  BY <1>1, <1>2, <1>3, <1>4, <1>5, <1>6, <1>7, <1>8, <1>9, <1>10, <1>11, <1>12, <1>13, <1>14
     DEF Next, Dispatch, WatcherStep, Session

LEMMA TurnInit == Init => TurnInv
<1> SUFFICES ASSUME Init PROVE TurnInv
  OBVIOUS
<1>1. Latest
  BY DEF Init, Latest, InPlay, NoFile
<1>2. Solo /\ Older /\ OwnReply /\ OwnAnswer
  BY DEF Init, Solo, Older, OwnReply, OwnAnswer
<1> QED
  BY <1>1, <1>2 DEF TurnInv

\* For any threads, texts, lost sessions, refused posts and deaths of the
\* watcher: of a turn that no other one was mixed with, in a session that was
\* not replaced, what is posted as the reply to a message that the terminal
\* does not wrap is the agent's answer to it.
THEOREM OwnAnswerAlways == Spec => []OwnAnswer
<1> DEFINE Inv == Types /\ ReplyInv /\ TurnInv
<1>1. Init => Inv
  BY TmuxTypesInit, ReplyInit, TurnInit
<1>2. Inv /\ [Next]_vars => Inv'
  BY TmuxTypesStep, ReplyInvStep, TurnStep DEF ReplyInv
<1>3. Inv => OwnAnswer
  BY DEF TurnInv
<1> QED
  BY <1>1, <1>2, <1>3, PTL DEF Spec

\* When the screen settles, the answer it shows to the message waited for is
\* what the watcher goes on to post.
LEMMA SettleKeeps ==
    ASSUME Types, TurnInv, NEW i \in 1..Len(screen),
           Settle, session, Plain(cur), IsAnswer(i, cur),
           \A k \in 1..Len(screen) : IsAnswer(k, cur) => screen[k].text # asks[cur],
           i > base \/ \A k \in base + 1..Len(screen) : ~IsAnswer(k, cur)
    PROVE  \/ wpc' = "post" /\ \E k \in 1..Len(reply') : reply'[k] = screen[i]
           \/ \E k \in 1..Len(lastReply) : lastReply[k] = <<screen[i].text, FALSE>>
<1>1. PICK lines : lines = Scraped(Len(screen))
  OBVIOUS
<1>2. wpc = "wait" /\ Conclude(lines)
  BY <1>1 DEF Settle
<1>3. cur \notin mixed \cup cut /\ cur \notin wrapped
  BY DEF Plain
<1>4. cur \in 1..MaxMsgs /\ \E p \in Nat : Alone(cur, p) /\ p <= base
  BY <1>2, <1>3, WaitsAlone DEF TurnInv
<1>5. PICK j \in 1..Len(lines) : lines[j] = screen[i]
  BY <1>1, <1>3, <1>4, ScrapedAllOfIt
<1>6. lines \in Seq(Entries)
  <2>1. Len(screen) \in base..Len(screen)
    BY DEF Types, TmuxTypeOK
  <2> QED
    BY <1>1, <2>1, ScrapedType
<1>7. CASE TextsOf(lines) = lastReply
  <2>1. Words(screen[i]) = <<screen[i].text, FALSE>>
    <3>1. PICK e : e = screen[i] /\ e.kind = "answer"
      BY DEF IsAnswer
    <3>2. (e.kind = "prompt" /\ e.msg \in wrapped) = FALSE
      BY <3>1
    <3>3. Words(e) = <<e.text, FALSE>>
      BY <3>2 DEF Words
    <3> QED
      BY <3>1, <3>3
  <2>2. PICK n \in Nat : n = Len(lines)
    BY <1>6
  <2>3. PICK T : T = {Words(lines[k]) : k \in 1..n}
    OBVIOUS
  <2>4. PICK t : t = [k \in 1..n |-> Words(lines[k])]
    OBVIOUS
  <2>5. t \in Seq(T) /\ Len(t) = n
    BY ONLY <2>2, <2>3, <2>4, n \in Nat
  <2>6. t = lastReply /\ j \in 1..n /\ t[j] = Words(lines[j])
    BY <1>5, <1>7, <2>2, <2>4 DEF TextsOf
  <2> QED
    BY <1>5, <2>1, <2>5, <2>6
<1>8. CASE TextsOf(lines) # lastReply
  <2>1. lines # <<>>
    BY <1>5, <1>6
  <2>2. wpc' = "post" /\ reply' = lines
    BY <1>2, <1>8, <2>1, Concludes
  <2> QED
    BY <1>5, <2>2
<1> QED
  BY <1>7, <1>8

\* For any threads, texts, lost sessions, refused posts and deaths of the
\* watcher: the answer to a message is not lost once the screen has settled,
\* unless turns overlapped, the session was replaced, the terminal wraps the
\* message, the answer repeats it, or its words were the last posted.
THEOREM AnswerKeptAlways == Spec => AnswerKept
<1> DEFINE Inv == Types /\ ReplyInv /\ TurnInv
<1>1. Init => Inv
  BY TmuxTypesInit, ReplyInit, TurnInit
<1>2. Inv /\ [Next]_vars => Inv'
  BY TmuxTypesStep, ReplyInvStep, TurnStep DEF ReplyInv
<1>3. Inv => [KeepsAnswer]_vars
  BY SettleKeeps DEF KeepsAnswer
<1> HIDE DEF Inv
<1> QED
  BY <1>1, <1>2, <1>3, PTL DEF Spec, AnswerKept

=============================================================================
