---------------------------- MODULE TaskBoardProofs ----------------------------
(***************************************************************************)
(* Proofs about TaskBoard: for any rooms, threads, senders and priorities, *)
(* and logs of any length.                                                 *)
(***************************************************************************)
EXTENDS TaskBoard, FiniteSetTheorems, SequenceTheorems, TLAPS

-----------------------------------------------------------------------------
(* Numbers and sets of them.                                               *)

\* A set of numbers that is not empty has a least one.
LEMMA Least ==
    ASSUME NEW S \in SUBSET Nat, S # {}
    PROVE  \E x \in S : \A y \in S : x <= y
<1>1. \E x \in S : \A y \in S : ~ (<<y, x>> \in OpToRel(<, Nat))
  BY NatLessThanWellFounded, WFMin
<1>2. PICK x \in S : \A y \in S : ~ (<<y, x>> \in OpToRel(<, Nat))
  BY <1>1
<1>3. \A y \in S : ~ (y < x)
  BY <1>2 DEF OpToRel
<1> QED
  BY <1>3

\* Induction over the numbers, for a set of them.
LEMMA Induction ==
    ASSUME NEW S \in SUBSET Nat, 0 \in S, \A n \in S : n + 1 \in S
    PROVE  S = Nat
<1> SUFFICES ASSUME Nat \ S # {} PROVE FALSE
  OBVIOUS
<1>1. PICK x \in Nat \ S : \A y \in Nat \ S : x <= y
  BY Least
<1>2. x # 0 /\ x - 1 \in Nat /\ x - 1 < x /\ (x - 1) + 1 = x
  OBVIOUS
<1> QED
  BY <1>1, <1>2

\* A set of places in a log that is not empty has a first and a last one.
LEMMA FirstAndLast ==
    ASSUME NEW n \in Nat, NEW I \in SUBSET (1..n), I # {}
    PROVE  /\ Min(I) \in I /\ \A i \in I : Min(I) <= i
           /\ Max(I) \in I /\ \A i \in I : i <= Max(I)
<1> DEFINE S == {k \in Nat : \A i \in I : i <= k}
<1>1. PICK least \in I : \A i \in I : least <= i
  <2>1. I \in SUBSET Nat
    OBVIOUS
  <2> QED
    BY <2>1, Least
<1>2. Min(I) \in I /\ \A i \in I : Min(I) <= i
  BY <1>1 DEF Min
<1>3. n \in S /\ S \in SUBSET Nat
  OBVIOUS
<1>4. PICK k \in S : \A j \in S : k <= j
  BY <1>3, Least
<1>5. k \in I
  <2> SUFFICES ASSUME k \notin I PROVE FALSE
    OBVIOUS
  <2>1. \A i \in I : i <= k - 1 /\ k - 1 \in Nat
    BY <1>4
  <2>2. k - 1 \in S
    BY <2>1
  <2> QED
    BY <1>4, <2>2
<1>6. \A i \in I : k >= i
  BY <1>4
<1>7. Max(I) \in I /\ \A i \in I : Max(I) >= i
  BY <1>5, <1>6 DEF Max
<1> QED
  BY <1>2, <1>7

\* A place behind all the others is the last one, and changes the first one
\* only when there was none.
LEMMA OneMore ==
    ASSUME NEW n \in Nat, NEW I \in SUBSET (1..n)
    PROVE  /\ Max(I \cup {n + 1}) = n + 1
           /\ Min(I \cup {n + 1}) = IF I = {} THEN n + 1 ELSE Min(I)
<1> DEFINE J == I \cup {n + 1}
<1>1. n + 1 \in Nat /\ J \in SUBSET (1..n + 1) /\ J # {}
  OBVIOUS
<1>2. \A i \in I : i \in Nat /\ i <= n
  OBVIOUS
<1>3. PICK mx, mn : mx = Max(J) /\ mn = Min(J)
  OBVIOUS
<1>4. /\ mn \in J /\ \A i \in J : mn <= i
      /\ mx \in J /\ \A i \in J : i <= mx
  BY <1>1, <1>3, FirstAndLast
<1>5. mx = n + 1
  BY <1>2, <1>4
<1>6. CASE I = {}
  BY <1>3, <1>4, <1>5, <1>6
<1>7. CASE I # {}
  <2>1. PICK old : old = Min(I)
    OBVIOUS
  <2>2. old \in I /\ \A i \in I : old <= i
    BY <1>7, <2>1, FirstAndLast
  <2>3. mn = old
    BY <1>2, <1>4, <2>2
  <2> QED
    BY <1>3, <1>5, <1>7, <2>1, <2>3
<1> QED
  BY <1>6, <1>7

-----------------------------------------------------------------------------
(* The row of a set of events.                                             *)

\* The parts of RowFrom, for events S of a thread.
FollowsIn(S) == {i \in S : log[i].type \notin StartTypes}
KindIn(S) ==
    LET first == log[Min(S)]
    IN  IF first.type \in StartTypes THEN first.type ELSE "task"
StatusIn(S) ==
    LET r == log[Max(S)]
    IN  IF /\ KindIn(S) = "review_request"
           /\ r.type \notin StartTypes \cup {"review_clear"}
          THEN "waiting_review" ELSE StatusOf[r.type]
NamedIn(S) == {i \in S : log[i].pri # None}
PriorityIn(S) ==
    CASE NamedIn(S) # {}                                    -> log[Max(NamedIn(S))].pri
      [] NamedIn(S) = {} /\ log[Min(S)].type \in StartTypes -> "p1"
      [] OTHER                                              -> None
SevereIn(S, x) == {i \in FollowsIn(S) : log[i].sev = x}
SeverityIn(S) == [x \in Severities |-> Cardinality(SevereIn(S, x))]
ClearedIn(S) == {log[i].sender : i \in {j \in FollowsIn(S) : log[j].type = "review_clear"}}
LastIn(S) == IF FollowsIn(S) # {} THEN Max(FollowsIn(S)) ELSE Min(S)

Row(k, s, p, v, c, l) ==
    [kind |-> k, status |-> s, pri |-> p, sev |-> v, clearBy |-> c, last |-> l]
RowIn(S) ==
    Row(KindIn(S), StatusIn(S), PriorityIn(S), SeverityIn(S), ClearedIn(S), LastIn(S))

LEMMA RowFromIs ==
    ASSUME NEW tid, NEW room
    PROVE  RowFrom(tid, room) = RowIn(Events(tid, room))
<1>1. Follows(tid, room) = FollowsIn(Events(tid, room))
  BY DEF Follows, FollowsIn
<1>2. Kind(tid, room) = KindIn(Events(tid, room))
  BY DEF Kind, KindIn
<1>3. StatusFrom(tid, room) = StatusIn(Events(tid, room))
  BY <1>2 DEF StatusFrom, StatusIn
<1>4. PriorityFrom(tid, room) = PriorityIn(Events(tid, room))
  BY DEF PriorityFrom, PriorityIn, NamedIn
<1> QED
  BY <1>1, <1>2, <1>3, <1>4 DEF RowFrom, RowIn, Row, SeverityIn, SevereIn, ClearedIn, LastIn

\* One more event, that of place n + 1.
LEMMA KindMore ==
    ASSUME NEW n \in Nat, NEW S \in SUBSET (1..n)
    PROVE  KindIn(S \cup {n + 1}) =
             IF S = {} THEN IF log[n + 1].type \in StartTypes THEN log[n + 1].type ELSE "task"
             ELSE KindIn(S)
<1>1. Min(S \cup {n + 1}) = IF S = {} THEN n + 1 ELSE Min(S)
  BY OneMore
<1> QED
  BY <1>1 DEF KindIn

LEMMA StatusMore ==
    ASSUME NEW n \in Nat, NEW S \in SUBSET (1..n)
    PROVE  StatusIn(S \cup {n + 1}) =
             IF /\ KindIn(S \cup {n + 1}) = "review_request"
                /\ log[n + 1].type \notin StartTypes \cup {"review_clear"}
               THEN "waiting_review" ELSE StatusOf[log[n + 1].type]
<1>1. Max(S \cup {n + 1}) = n + 1
  BY OneMore
<1> QED
  BY <1>1 DEF StatusIn

LEMMA PriorityMore ==
    ASSUME NEW n \in Nat, NEW S \in SUBSET (1..n)
    PROVE  PriorityIn(S \cup {n + 1}) =
             IF log[n + 1].pri # None THEN log[n + 1].pri
             ELSE IF S = {} THEN IF log[n + 1].type \in StartTypes THEN "p1" ELSE None
             ELSE PriorityIn(S)
<1> DEFINE T == S \cup {n + 1}
<1>1. Min(T) = IF S = {} THEN n + 1 ELSE Min(S)
  BY OneMore
<1>2. CASE log[n + 1].pri # None
  <2>1. NamedIn(T) = NamedIn(S) \cup {n + 1} /\ NamedIn(S) \in SUBSET (1..n)
    BY <1>2 DEF NamedIn
  <2>2. Max(NamedIn(T)) = n + 1 /\ NamedIn(T) # {}
    BY <2>1, OneMore
  <2> QED
    BY <1>2, <2>2 DEF PriorityIn
<1>3. CASE log[n + 1].pri = None
  <2>1. NamedIn(T) = NamedIn(S)
    BY <1>3 DEF NamedIn
  <2>2. CASE S = {}
    <3>1. NamedIn(T) = {} /\ Min(T) = n + 1
      BY <1>1, <2>1, <2>2 DEF NamedIn
    <3> QED
      BY <1>3, <2>2, <3>1 DEF PriorityIn
  <2>3. CASE S # {}
    BY <1>1, <1>3, <2>1, <2>3 DEF PriorityIn
  <2> QED
    BY <2>2, <2>3
<1> QED
  BY <1>2, <1>3

LEMMA CountMore ==
    ASSUME NEW n \in Nat, NEW S \in SUBSET (1..n), NEW x
    PROVE  Cardinality(SevereIn(S \cup {n + 1}, x)) =
             IF log[n + 1].type \notin StartTypes /\ log[n + 1].sev = x
               THEN Cardinality(SevereIn(S, x)) + 1 ELSE Cardinality(SevereIn(S, x))
<1>1. SevereIn(S, x) \in SUBSET (1..n) /\ n + 1 \notin SevereIn(S, x)
  <2>1. SevereIn(S, x) \subseteq S
    BY DEF SevereIn, FollowsIn
  <2>2. S \in SUBSET (1..n) /\ n + 1 \notin S
    OBVIOUS
  <2> QED
    BY <2>1, <2>2
<1>2. IsFiniteSet(SevereIn(S, x))
  BY <1>1, FS_Interval, FS_Subset
<1>3. CASE log[n + 1].type \notin StartTypes /\ log[n + 1].sev = x
  <2>1. SevereIn(S \cup {n + 1}, x) = SevereIn(S, x) \cup {n + 1}
    BY <1>3 DEF SevereIn, FollowsIn
  <2>2. Cardinality(SevereIn(S, x) \cup {n + 1}) = Cardinality(SevereIn(S, x)) + 1
    BY <1>1, <1>2, FS_AddElement
  <2> QED
    BY <1>3, <2>1, <2>2
<1>4. CASE ~(log[n + 1].type \notin StartTypes /\ log[n + 1].sev = x)
  <2>1. SevereIn(S \cup {n + 1}, x) = SevereIn(S, x)
    BY <1>4 DEF SevereIn, FollowsIn
  <2> QED
    BY <1>4, <2>1
<1> QED
  BY <1>3, <1>4

LEMMA SevereMore ==
    ASSUME NEW n \in Nat, NEW S \in SUBSET (1..n)
    PROVE  SeverityIn(S \cup {n + 1}) =
             IF log[n + 1].type \notin StartTypes
               THEN [x \in Severities |-> IF log[n + 1].sev = x
                                            THEN SeverityIn(S)[x] + 1 ELSE SeverityIn(S)[x]]
               ELSE SeverityIn(S)
<1>1. ASSUME NEW x \in Severities
      PROVE  Cardinality(SevereIn(S \cup {n + 1}, x)) =
               IF log[n + 1].type \notin StartTypes /\ log[n + 1].sev = x
                 THEN SeverityIn(S)[x] + 1 ELSE SeverityIn(S)[x]
  BY CountMore DEF SeverityIn
<1>2. CASE log[n + 1].type \notin StartTypes
  <2>1. \A x \in Severities : Cardinality(SevereIn(S \cup {n + 1}, x)) =
          IF log[n + 1].sev = x THEN SeverityIn(S)[x] + 1 ELSE SeverityIn(S)[x]
    BY <1>1, <1>2
  <2>2. SeverityIn(S \cup {n + 1}) =
          [x \in Severities |-> IF log[n + 1].sev = x
                                  THEN SeverityIn(S)[x] + 1 ELSE SeverityIn(S)[x]]
    <3>1. SeverityIn(S \cup {n + 1}) =
            [x \in Severities |-> Cardinality(SevereIn(S \cup {n + 1}, x))]
      BY DEF SeverityIn
    <3> QED
      BY ONLY <2>1, <3>1
  <2> QED
    BY <1>2, <2>2
<1>3. CASE log[n + 1].type \in StartTypes
  <2>1. \A x \in Severities : Cardinality(SevereIn(S \cup {n + 1}, x)) = SeverityIn(S)[x]
    BY <1>1, <1>3
  <2>2. /\ SeverityIn(S \cup {n + 1}) =
             [x \in Severities |-> Cardinality(SevereIn(S \cup {n + 1}, x))]
        /\ SeverityIn(S) = [x \in Severities |-> SeverityIn(S)[x]]
    BY DEF SeverityIn
  <2>3. SeverityIn(S \cup {n + 1}) = SeverityIn(S)
    BY ONLY <2>1, <2>2
  <2> QED
    BY <1>3, <2>3
<1> QED
  BY <1>2, <1>3

LEMMA ClearedMore ==
    ASSUME NEW n \in Nat, NEW S \in SUBSET (1..n)
    PROVE  ClearedIn(S \cup {n + 1}) =
             IF log[n + 1].type = "review_clear"
               THEN ClearedIn(S) \cup {log[n + 1].sender} ELSE ClearedIn(S)
  BY DEF ClearedIn, FollowsIn, StartTypes

LEMMA LastMore ==
    ASSUME NEW n \in Nat, NEW S \in SUBSET (1..n)
    PROVE  LastIn(S \cup {n + 1}) =
             IF log[n + 1].type \notin StartTypes \/ S = {} THEN n + 1 ELSE LastIn(S)
<1>1. Min(S \cup {n + 1}) = IF S = {} THEN n + 1 ELSE Min(S)
  BY OneMore
<1>2. FollowsIn(S) \in SUBSET (1..n)
  BY DEF FollowsIn
<1>3. CASE log[n + 1].type \notin StartTypes
  <2>1. FollowsIn(S \cup {n + 1}) = FollowsIn(S) \cup {n + 1}
    BY <1>3 DEF FollowsIn
  <2>2. Max(FollowsIn(S) \cup {n + 1}) = n + 1
    BY <1>2, OneMore
  <2> QED
    BY <1>3, <2>1, <2>2 DEF LastIn
<1>4. CASE log[n + 1].type \in StartTypes
  <2>1. FollowsIn(S \cup {n + 1}) = FollowsIn(S) /\ (S = {} => FollowsIn(S) = {})
    BY <1>4 DEF FollowsIn
  <2> QED
    BY <1>1, <1>4, <2>1 DEF LastIn
<1> QED
  BY <1>3, <1>4

\* What the two cases of the fold do to a row.
IsRow(row) ==
    row = Row(row.kind, row.status, row.pri, row.sev, row.clearBy, row.last)

LEMMA RowFields ==
    ASSUME NEW row, IsRow(row), NEW g, DOMAIN g = DOMAIN row, g = [f \in DOMAIN g |-> g[f]]
    PROVE  IsRow(g)
<1>1. DOMAIN g = {"kind", "status", "pri", "sev", "clearBy", "last"}
  BY DEF IsRow, Row
<1>2. g = [f \in {"kind", "status", "pri", "sev", "clearBy", "last"} |-> g[f]]
  BY <1>1
<1> QED
  BY <1>2 DEF IsRow, Row

LEMMA StartedRow ==
    ASSUME NEW row, IsRow(row), NEW r
    PROVE  Started(row, r) =
             Row(row.kind, StatusOf[r.type], IF r.pri # None THEN r.pri ELSE row.pri,
                 row.sev, row.clearBy, row.last)
<1>1. PICK x, y : x = StatusOf[r.type] /\ y = IF r.pri # None THEN r.pri ELSE row.pri
  OBVIOUS
<1>2. PICK g : g = [row EXCEPT !.status = x, !.pri = y]
  OBVIOUS
<1>3. /\ g.kind = row.kind /\ g.status = x /\ g.pri = y /\ g.sev = row.sev
      /\ g.clearBy = row.clearBy /\ g.last = row.last
  BY <1>2 DEF IsRow, Row
<1>4. DOMAIN g = DOMAIN row /\ g = [f \in DOMAIN g |-> g[f]]
  BY <1>2
<1>5. IsRow(g)
  BY <1>4, RowFields
<1>6. Started(row, r) = g
  BY <1>1, <1>2 DEF Started
<1> QED
  BY <1>1, <1>3, <1>5, <1>6 DEF IsRow

LEMMA FollowedRow ==
    ASSUME NEW row, IsRow(row), NEW r, NEW i
    PROVE  Followed(row, r, i) =
             Row(row.kind,
                 IF row.kind = "review_request" /\ r.type # "review_clear"
                   THEN "waiting_review" ELSE StatusOf[r.type],
                 IF r.pri # None THEN r.pri ELSE row.pri,
                 [x \in Severities |-> IF r.sev = x THEN row.sev[x] + 1 ELSE row.sev[x]],
                 IF r.type = "review_clear" THEN row.clearBy \cup {r.sender} ELSE row.clearBy,
                 i)
<1>1. PICK a : a = IF r.pri # None THEN r.pri ELSE row.pri
  OBVIOUS
<1>2. PICK b : b = [x \in Severities |-> IF r.sev = x THEN row.sev[x] + 1 ELSE row.sev[x]]
  OBVIOUS
<1>3. PICK d : d = IF r.type = "review_clear" THEN row.clearBy \cup {r.sender} ELSE row.clearBy
  OBVIOUS
<1>4. PICK e : e = IF row.kind = "review_request" /\ r.type # "review_clear"
                     THEN "waiting_review" ELSE StatusOf[r.type]
  OBVIOUS
<1>5. PICK g : g = [row EXCEPT !.pri = a, !.sev = b, !.clearBy = d, !.status = e, !.last = i]
  OBVIOUS
<1>6. /\ g.kind = row.kind /\ g.status = e /\ g.pri = a /\ g.sev = b /\ g.clearBy = d
      /\ g.last = i
  BY <1>5 DEF IsRow, Row
<1>7. DOMAIN g = DOMAIN row /\ g = [f \in DOMAIN g |-> g[f]]
  BY <1>5
<1>8. IsRow(g)
  BY <1>7, RowFields
<1>9. Followed(row, r, i) = g
  BY <1>1, <1>2, <1>3, <1>4, <1>5 DEF Followed
<1> QED
  BY <1>1, <1>2, <1>3, <1>4, <1>6, <1>8, <1>9 DEF IsRow

\* Taking an event into the row of those before it makes the row of them all.
LEMMA RowMore ==
    ASSUME NEW n \in Nat, NEW S \in SUBSET (1..n), NEW r, r = log[n + 1],
           r.type \in DOMAIN StatusOf,
           NEW row, row = IF S = {} THEN FirstRow(r, n + 1) ELSE RowIn(S)
    PROVE  RowIn(S \cup {n + 1}) = IF r.type \in StartTypes
                                     THEN Started(row, r) ELSE Followed(row, r, n + 1)
<1> DEFINE k == IF S = {} THEN IF r.type \in StartTypes THEN r.type ELSE "task" ELSE KindIn(S)
           s == IF S = {} THEN StatusOf[r.type] ELSE StatusIn(S)
           p == IF S = {} THEN IF r.type \in StartTypes /\ r.pri = None THEN "p1" ELSE r.pri
                ELSE PriorityIn(S)
           v == IF S = {} THEN [x \in Severities |-> 0] ELSE SeverityIn(S)
           c == IF S = {} THEN {} ELSE ClearedIn(S)
           l == IF S = {} THEN n + 1 ELSE LastIn(S)
<1>1. /\ row.kind = k /\ row.status = s /\ row.pri = p /\ row.sev = v
      /\ row.clearBy = c /\ row.last = l
      /\ IsRow(row)
  <2>1. row = Row(k, s, p, v, c, l)
    BY DEF FirstRow, Row, RowIn
  <2> HIDE DEF k, s, p, v, c, l
  <2>2. /\ row.kind = k /\ row.status = s /\ row.pri = p /\ row.sev = v
        /\ row.clearBy = c /\ row.last = l
    BY <2>1 DEF Row
  <2> QED
    BY <2>1, <2>2 DEF IsRow
<1>2. KindIn(S \cup {n + 1}) = k
  BY KindMore
<1>3. PriorityIn(S \cup {n + 1}) = IF r.pri # None THEN r.pri ELSE p
  BY PriorityMore
<1>4. SeverityIn(S) = v
  <2>1. ASSUME S = {} PROVE \A x \in Severities : Cardinality(SevereIn(S, x)) = 0
    <3>1. \A x \in Severities : SevereIn(S, x) = {}
      BY <2>1 DEF SevereIn, FollowsIn
    <3> QED
      BY <3>1, FS_EmptySet
  <2>2. S = {} => SeverityIn(S) = [x \in Severities |-> 0]
    BY <2>1 DEF SeverityIn
  <2> QED
    BY <2>2
<1>5. ClearedIn(S) = c
  <2>1. S = {} => ClearedIn(S) = {}
    BY DEF ClearedIn, FollowsIn
  <2> QED
    BY <2>1
<1>6. StatusIn(S \cup {n + 1}) = IF k = "review_request" /\ r.type \notin StartTypes \cup {"review_clear"}
                                   THEN "waiting_review" ELSE StatusOf[r.type]
  BY <1>2, StatusMore
<1>7. SeverityIn(S \cup {n + 1}) =
        IF r.type \notin StartTypes
          THEN [x \in Severities |-> IF r.sev = x THEN v[x] + 1 ELSE v[x]] ELSE v
  <2>1. PICK w : w = SeverityIn(S)
    OBVIOUS
  <2>2. SeverityIn(S \cup {n + 1}) =
          IF log[n + 1].type \notin StartTypes
            THEN [x \in Severities |-> IF log[n + 1].sev = x THEN w[x] + 1 ELSE w[x]] ELSE w
    BY ONLY SevereMore, <2>1, n \in Nat, S \in SUBSET (1..n)
  <2>3. w = v
    BY <1>4, <2>1
  <2> HIDE DEF v
  <2> QED
    BY <2>2, <2>3
<1>8. ClearedIn(S \cup {n + 1}) = IF r.type = "review_clear" THEN c \cup {r.sender} ELSE c
  BY <1>5, ClearedMore
<1>9. LastIn(S \cup {n + 1}) = IF r.type \notin StartTypes THEN n + 1 ELSE l
  BY LastMore
<1> HIDE DEF k, s, p, v, c, l
<1>10. CASE r.type \in StartTypes
  <2>1. Started(row, r) =
          Row(row.kind, StatusOf[r.type], IF r.pri # None THEN r.pri ELSE row.pri,
              row.sev, row.clearBy, row.last)
    BY <1>1, StartedRow
  <2>2. r.type # "review_clear"
    BY <1>10 DEF StartTypes
  <2> QED
    BY <1>1, <1>2, <1>3, <1>6, <1>7, <1>8, <1>9, <1>10, <2>1, <2>2 DEF RowIn
<1>11. CASE r.type \notin StartTypes
  <2>1. Followed(row, r, n + 1) =
          Row(row.kind,
              IF row.kind = "review_request" /\ r.type # "review_clear"
                THEN "waiting_review" ELSE StatusOf[r.type],
              IF r.pri # None THEN r.pri ELSE row.pri,
              [x \in Severities |-> IF r.sev = x THEN row.sev[x] + 1 ELSE row.sev[x]],
              IF r.type = "review_clear" THEN row.clearBy \cup {r.sender} ELSE row.clearBy,
              n + 1)
    BY ONLY <1>1, FollowedRow, Zenon
  <2> QED
    BY <1>1, <1>2, <1>3, <1>6, <1>7, <1>8, <1>9, <1>11, <2>1 DEF RowIn
<1> QED
  BY <1>10, <1>11

-----------------------------------------------------------------------------
(* The fold.                                                               *)

\* The events among the first n records, and the board that they should make.
Upto(n, tid, room) == {i \in 1..n : Counts(log[i], room) /\ ThreadOf(log[i]) = tid}
Reference(n, room) ==
    [tid \in TaskIds |-> IF Upto(n, tid, room) = {} THEN NoRow ELSE RowIn(Upto(n, tid, room))]

\* A thread that is there has a row.
LEMMA RowIsThere ==
    ASSUME NEW S
    PROVE  RowIn(S) # NoRow
<1>1. KindIn(S) \in {"task", "review_request"}
  BY DEF KindIn, StartTypes
<1>2. RowIn(S).kind = KindIn(S) /\ NoRow.kind = "none"
  BY DEF RowIn, Row, NoRow, None
<1> QED
  BY <1>1, <1>2

\* A record that counts is about a thread.
LEMMA ThreadIsThere ==
    ASSUME BoardTypeOK, NEW i \in 1..Len(log), NEW room, Counts(log[i], room)
    PROVE  ThreadOf(log[i]) \in TaskIds /\ log[i].type \in DOMAIN StatusOf
<1>1. log[i] \in Records
  BY DEF BoardTypeOK
<1>2. log[i].task \in AskedThreads /\ log[i].under \in AskedThreads
  BY <1>1 DEF Records
<1>3. ThreadOf(log[i]) \in AskedThreads
  BY <1>2 DEF ThreadOf
<1> QED
  BY <1>3 DEF Counts, AskedThreads

\* One step of the fold.
LEMMA AbsorbsOne ==
    ASSUME BoardTypeOK, NEW room, NEW n \in Nat, n + 1 \in 1..Len(log)
    PROVE  Reference(n + 1, room) =
             IF Counts(log[n + 1], room)
               THEN Absorb(Reference(n, room), log[n + 1], n + 1) ELSE Reference(n, room)
<1> DEFINE r == log[n + 1]
           t == ThreadOf(r)
           old == Reference(n, room)
<1>1. 1..n + 1 = (1..n) \cup {n + 1}
  OBVIOUS
<1>2. ASSUME NEW tid, ~(Counts(r, room) /\ t = tid)
      PROVE  Upto(n + 1, tid, room) = Upto(n, tid, room)
  BY <1>1, <1>2 DEF Upto
<1>3. CASE ~Counts(r, room)
  <2>1. \A tid \in TaskIds : Upto(n + 1, tid, room) = Upto(n, tid, room)
    BY <1>2, <1>3
  <2>2. Reference(n + 1, room) = Reference(n, room)
    BY <2>1 DEF Reference
  <2> QED
    BY <1>3, <2>2
<1>4. CASE Counts(r, room)
  <2>1. t \in TaskIds /\ r.type \in DOMAIN StatusOf
    BY <1>4, ThreadIsThere
  <2>2. PICK S : S = Upto(n, t, room)
    OBVIOUS
  <2>3. Upto(n + 1, t, room) = S \cup {n + 1} /\ S \in SUBSET (1..n)
    BY <1>1, <1>4, <2>2 DEF Upto
  <2>4. old[t] = IF S = {} THEN NoRow ELSE RowIn(S)
    BY <2>1, <2>2 DEF Reference
  <2>5. PICK row : row = IF S = {} THEN FirstRow(r, n + 1) ELSE RowIn(S)
    OBVIOUS
  <2>6. row = IF old[t] = NoRow THEN FirstRow(r, n + 1) ELSE old[t]
    BY <2>4, <2>5, RowIsThere
  <2>7. PICK new : new = IF r.type \in StartTypes THEN Started(row, r) ELSE Followed(row, r, n + 1)
    OBVIOUS
  <2>8. RowIn(S \cup {n + 1}) = new
    <3>1. PICK q : q = r
      OBVIOUS
    <3>2. /\ q = log[n + 1] /\ q.type \in DOMAIN StatusOf
          /\ row = IF S = {} THEN FirstRow(q, n + 1) ELSE RowIn(S)
          /\ new = IF q.type \in StartTypes THEN Started(row, q) ELSE Followed(row, q, n + 1)
      BY <2>1, <2>5, <2>7, <3>1
    <3> HIDE DEF r
    <3>3. RowIn(S \cup {n + 1}) = IF q.type \in StartTypes
                                    THEN Started(row, q) ELSE Followed(row, q, n + 1)
      <4>1. \A I \in SUBSET (1..n) : \A e : e = log[n + 1] /\ e.type \in DOMAIN StatusOf =>
              \A w : w = (IF I = {} THEN FirstRow(e, n + 1) ELSE RowIn(I)) =>
                 RowIn(I \cup {n + 1}) = IF e.type \in StartTypes
                                           THEN Started(w, e) ELSE Followed(w, e, n + 1)
        BY ONLY RowMore, n \in Nat
      <4>2. \A e : e = log[n + 1] /\ e.type \in DOMAIN StatusOf =>
              \A w : w = (IF S = {} THEN FirstRow(e, n + 1) ELSE RowIn(S)) =>
                 RowIn(S \cup {n + 1}) = IF e.type \in StartTypes
                                           THEN Started(w, e) ELSE Followed(w, e, n + 1)
        BY ONLY <2>3, <4>1, Zenon
      <4> QED
        BY ONLY <3>2, <4>2, Zenon
    <3> QED
      BY ONLY <3>2, <3>3
  <2>9. Absorb(old, r, n + 1) = [old EXCEPT ![t] = new]
    BY <2>6, <2>7 DEF Absorb
  <2>10. Reference(n + 1, room) = [old EXCEPT ![t] = new]
    <3>1. ASSUME NEW tid \in TaskIds
          PROVE  Reference(n + 1, room)[tid] = IF tid = t THEN new ELSE old[tid]
      <4>1. CASE tid = t
        BY <2>3, <2>8, <4>1 DEF Reference
      <4>2. CASE tid # t
        BY <1>2, <4>2 DEF Reference
      <4> QED
        BY <4>1, <4>2
    <3>2. /\ Reference(n + 1, room) = [tid \in TaskIds |-> Reference(n + 1, room)[tid]]
          /\ old = [tid \in TaskIds |-> old[tid]]
      BY DEF Reference
    <3> HIDE DEF old
    <3> QED
      BY <3>1, <3>2
  <2> QED
    BY <1>4, <2>9, <2>10
<1> QED
  BY <1>3, <1>4

\* tasks_summary makes the board that it should.
LEMMA BoardIs ==
    ASSUME BoardTypeOK, NEW room
    PROVE  Board(room) = Reference(Len(log), room)
<1> DEFINE N == Len(log)
           Body(g) == [i \in 0..N |->
                         IF i = 0 THEN [tid \in TaskIds |-> NoRow]
                         ELSE IF Counts(log[i], room) THEN Absorb(g[i - 1], log[i], i)
                         ELSE g[i - 1]]
           ref == [i \in 0..N |-> Reference(i, room)]
           board == CHOOSE g : g = Body(g)
           R == {n \in Nat : n <= N => board[n] = Reference(n, room)}
<1>1. Board(room) = board[N]
  BY DEF Board
<1>2. N \in Nat
  BY DEF BoardTypeOK
<1>3. Reference(0, room) = [tid \in TaskIds |-> NoRow]
  <2>1. \A tid : Upto(0, tid, room) = {}
    BY DEF Upto
  <2> QED
    BY <2>1 DEF Reference
<1>4. ASSUME NEW i \in 0..N, i # 0
      PROVE  /\ i - 1 \in 0..N
             /\ Reference(i, room) = IF Counts(log[i], room)
                                       THEN Absorb(Reference(i - 1, room), log[i], i)
                                       ELSE Reference(i - 1, room)
  <2>1. PICK n \in Nat : n + 1 = i /\ i - 1 = n /\ n \in 0..N /\ i \in 1..N
    BY <1>2, <1>4
  <2>2. Reference(n + 1, room) = IF Counts(log[n + 1], room)
                                   THEN Absorb(Reference(n, room), log[n + 1], n + 1)
                                   ELSE Reference(n, room)
    BY <2>1, AbsorbsOne
  <2> QED
    BY <2>1, <2>2
<1>5. ref = Body(ref)
  <2>1. ASSUME NEW i \in 0..N
        PROVE  ref[i] = IF i = 0 THEN [tid \in TaskIds |-> NoRow]
                        ELSE IF Counts(log[i], room) THEN Absorb(ref[i - 1], log[i], i)
                        ELSE ref[i - 1]
    BY <1>3, <1>4
  <2>2. ref = [i \in 0..N |-> ref[i]]
    OBVIOUS
  <2> HIDE DEF ref
  <2> QED
    BY <2>1, <2>2
<1>6. board = Body(board)
  BY <1>5
<1>7. ASSUME NEW i \in 0..N
      PROVE  board[i] = IF i = 0 THEN [tid \in TaskIds |-> NoRow]
                        ELSE IF Counts(log[i], room) THEN Absorb(board[i - 1], log[i], i)
                        ELSE board[i - 1]
  <2> HIDE DEF board
  <2> QED
    BY <1>6
<1> HIDE DEF board, ref
<1>8. R = Nat
  <2>1. 0 \in R
    BY <1>2, <1>3, <1>7
  <2>2. ASSUME NEW n \in R PROVE n + 1 \in R
    <3> SUFFICES ASSUME n + 1 <= N PROVE board[n + 1] = Reference(n + 1, room)
      OBVIOUS
    <3>1. n + 1 \in 0..N /\ n + 1 # 0 /\ (n + 1) - 1 = n /\ n <= N
      BY <1>2
    <3>2. board[n] = Reference(n, room)
      BY <3>1
    <3> QED
      BY <1>4, <1>7, <3>1, <3>2
  <2>3. R \in SUBSET Nat
    OBVIOUS
  <2> HIDE DEF R
  <2> QED
    BY <2>1, <2>2, <2>3, Induction
<1> QED
  BY <1>1, <1>2, <1>8

-----------------------------------------------------------------------------
(* Records keep their shape.                                               *)

Shaped(r) ==
    /\ r \in Records
    /\ r.type \in StartTypes => r.task # None
    /\ r.type = "task" => r.pri # None

LEMMA TypeIsShaped ==
    BoardTypeOK <=> /\ log \in Seq(Records) /\ Len(log) <= MaxLog
                    /\ \A i \in 1..Len(log) : Shaped(log[i])
  BY DEF BoardTypeOK, Shaped

LEMMA StoreShapes ==
    ASSUME BoardTypeOK, Len(log) < MaxLog,
           NEW room \in Rooms, NEW type \in MessageTypes, NEW task \in AskedThreads,
           NEW under \in AskedThreads, NEW pri \in AskedPriorities, NEW sev \in AskedSeverities,
           NEW sender \in Senders,
           Store(room, type, task, under, pri, sev, sender)
    PROVE  BoardTypeOK'
<1>1. PICK tid \in IF type \in StartTypes /\ task = None THEN TaskIds \ Used ELSE {task} :
        log' = Append(log,
            [room |-> room, type |-> type, task |-> tid, under |-> under,
             pri |-> IF type = "task" /\ pri = None THEN "p1" ELSE pri,
             sev |-> sev, sender |-> sender])
  BY DEF Store
<1>2. PICK p : p = IF type = "task" /\ pri = None THEN "p1" ELSE pri
  OBVIOUS
<1>3. PICK r : r = [room |-> room, type |-> type, task |-> tid, under |-> under,
                    pri |-> p, sev |-> sev, sender |-> sender]
  OBVIOUS
<1>4. tid \in AskedThreads /\ (type \in StartTypes => tid # None)
  BY <1>1, BoardAssumption DEF AskedThreads
<1>5. p \in AskedPriorities \cup {"p1"} /\ (type = "task" => p # None)
  BY <1>2 DEF None
<1>6. Shaped(r)
  BY <1>3, <1>4, <1>5 DEF Shaped, Records
<1>7. log' = Append(log, r)
  BY <1>1, <1>2, <1>3
<1>8. r \in Records /\ log \in Seq(Records) /\ MaxLog \in Nat
  BY <1>6, BoardAssumption DEF Shaped, BoardTypeOK
<1>9. /\ log' \in Seq(Records) /\ Len(log') = Len(log) + 1 /\ Len(log) \in Nat
      /\ \A i \in 1..Len(log) : log'[i] = log[i]
      /\ log'[Len(log) + 1] = r
  BY <1>7, <1>8
<1>10. \A i \in 1..Len(log') : Shaped(log'[i])
  <2> SUFFICES ASSUME NEW i \in 1..Len(log') PROVE Shaped(log'[i])
    OBVIOUS
  <2>1. i \in 1..Len(log) \/ i = Len(log) + 1
    BY <1>9
  <2> QED
    BY <1>6, <1>9, <2>1, TypeIsShaped
<1>11. Len(log') <= MaxLog
  BY <1>8, <1>9
<1> QED
  BY <1>9, <1>10, <1>11 DEF BoardTypeOK, Shaped

LEMMA GrowShapes ==
    ASSUME BoardTypeOK, Len(log) < MaxLog, NEW sender \in Senders, Grow(sender)
    PROVE  BoardTypeOK'
<1>1. ASSUME NEW room \in Rooms, NEW asked \in AskedTypes, NEW task \in AskedThreads,
             NEW under \in AskedThreads, NEW pri \in AskedPriorities,
             NEW severity \in AskedSeverities, NEW marker \in Markers,
             AppendUnder(room, asked, task, under, pri, severity, marker, sender)
      PROVE  BoardTypeOK'
  <2>1. PICK type : type = AppendType(asked, marker, under)
    OBVIOUS
  <2>2. PICK sev : sev = StoredSeverity(severity, marker, under)
    OBVIOUS
  <2>3. type \in MessageTypes
    <3>1. Inferred(marker, under) \in {None, "review_clear", "progress"}
      BY DEF Inferred
    <3> QED
      BY <2>1, <3>1 DEF AppendType, AskedTypes, MessageTypes, StatusOf
  <2>4. sev \in AskedSeverities
    BY <2>2 DEF StoredSeverity, AskedSeverities
  <2>5. Store(room, type, task, under, pri, sev, sender)
    BY <1>1, <2>1, <2>2 DEF AppendUnder
  <2> QED
    BY <2>3, <2>4, <2>5, StoreShapes
<1>2. ASSUME NEW parent \in 1..Len(log) PROVE InheritedThread(log[parent]) \in AskedThreads
  <2>1. log[parent] \in Records
    BY DEF BoardTypeOK
  <2> QED
    BY <2>1 DEF InheritedThread, Records
<1>3. /\ None \in AskedThreads /\ None \in AskedPriorities /\ None \in AskedSeverities
      /\ "ack" \in AskedTypes
  BY DEF AskedThreads, AskedPriorities, AskedSeverities, AskedTypes, MessageTypes
<1>4. ASSUME NEW room \in Rooms, NEW type \in MessageTypes, NEW task \in AskedThreads,
             NEW under \in AskedThreads, NEW pri \in AskedPriorities,
             Send(room, type, task, under, pri, sender)
      PROVE  BoardTypeOK'
  <2>1. Store(room, type, task, under, pri, None, sender)
    BY <1>4 DEF Send
  <2> QED
    BY <1>3, <2>1, StoreShapes
<1>5. ASSUME NEW room \in Rooms, NEW asked \in AskedTypes, NEW parent \in 1..Len(log),
             NEW pri \in AskedPriorities, NEW severity \in AskedSeverities,
             NEW marker \in Markers,
             Reply(room, asked, parent, pri, severity, marker, sender)
      PROVE  BoardTypeOK'
  <2>1. PICK under \in AskedThreads : under = InheritedThread(log[parent])
    BY <1>2
  <2>2. AppendUnder(room, asked, None, under, pri, severity, marker, sender)
    BY <1>5, <2>1 DEF Reply
  <2> QED
    BY <1>1, <1>3, <2>2
<1>6. ASSUME NEW room \in Rooms, NEW parent \in 1..Len(log), NEW marker \in Markers,
             Ack(room, parent, marker, sender)
      PROVE  BoardTypeOK'
  <2>1. Reply(room, "ack", parent, None, None, marker, sender)
    BY <1>6 DEF Ack
  <2> QED
    BY <1>3, <1>5, <2>1
<1>7. ASSUME NEW room \in Rooms \cup {None}, NEW asked \in AskedTypes, NEW thread \in TaskIds,
             NEW severity \in AskedSeverities, NEW marker \in Markers,
             Comment(room, asked, thread, severity, marker, sender)
      PROVE  BoardTypeOK'
  <2>1. PICK where \in Rooms : where = IF room = None THEN "main" ELSE room
    BY BoardAssumption
  <2>2. PICK type : type = CommentType(asked, marker, thread)
    OBVIOUS
  <2>3. type \in AskedTypes
    <3>1. Inferred(marker, thread) \in {None, "review_clear", "progress"}
      BY DEF Inferred
    <3>2. {"review_clear", "progress"} \subseteq AskedTypes
      BY DEF AskedTypes, MessageTypes, StatusOf
    <3> QED
      BY <2>2, <3>1, <3>2 DEF CommentType
  <2>4. AppendUnder(where, type, None, thread, None, severity, marker, sender)
    BY <1>7, <2>1, <2>2 DEF Comment
  <2>5. thread \in AskedThreads
    BY DEF AskedThreads
  <2> QED
    BY <1>1, <1>3, <2>3, <2>4, <2>5
<1> QED
  BY <1>1, <1>4, <1>5, <1>6, <1>7 DEF Grow

LEMMA DeleteShapes ==
    ASSUME BoardTypeOK, NEW i \in 1..Len(log), Delete(i)
    PROVE  BoardTypeOK'
<1>1. log \in Seq(Records) /\ Len(log) \in Nat /\ MaxLog \in Nat /\ Len(log) <= MaxLog
  BY BoardAssumption DEF BoardTypeOK
<1>2. log' = SubSeq(log, 1, i - 1) \o SubSeq(log, i + 1, Len(log))
  BY DEF Delete, RemoveAt
<1> DEFINE a == SubSeq(log, 1, i - 1)
           b == SubSeq(log, i + 1, Len(log))
<1>3. /\ a \in Seq(Records) /\ Len(a) = i - 1
      /\ \A j \in 1..i - 1 : a[j] = log[j]
  BY <1>1
<1>4. /\ b \in Seq(Records) /\ Len(b) = Len(log) - i
      /\ \A j \in 1..Len(log) - i : b[j] = log[i + j]
  BY <1>1
<1> HIDE DEF a, b
<1>5. /\ a \o b \in Seq(Records) /\ Len(a \o b) = Len(log) - 1
      /\ \A j \in 1..Len(log) - 1 : (a \o b)[j] = IF j < i THEN a[j] ELSE b[j - (i - 1)]
  <2>1. /\ a \o b \in Seq(Records) /\ Len(a \o b) = Len(a) + Len(b)
        /\ \A j \in 1..Len(a) + Len(b) :
             (a \o b)[j] = IF j <= Len(a) THEN a[j] ELSE b[j - Len(a)]
    BY <1>3, <1>4, ConcatProperties
  <2>2. Len(a) + Len(b) = Len(log) - 1
    BY <1>1, <1>3, <1>4
  <2>3. \A j \in 1..Len(log) - 1 : j <= Len(a) <=> j < i
    BY <1>1, <1>3
  <2> QED
    BY <1>3, <2>1, <2>2, <2>3
<1>6. log' = a \o b
  BY <1>2 DEF a, b
<1>7. \A j \in 1..Len(log') : \E k \in 1..Len(log) : log'[j] = log[k]
  <2> SUFFICES ASSUME NEW j \in 1..Len(log) - 1 PROVE \E k \in 1..Len(log) : log'[j] = log[k]
    BY <1>5, <1>6
  <2>1. CASE j < i
    BY <1>1, <1>3, <1>5, <1>6, <2>1
  <2>2. CASE ~(j < i)
    <3>1. j - (i - 1) \in 1..Len(log) - i /\ i + (j - (i - 1)) \in 1..Len(log)
      BY <1>1, <2>2
    <3> QED
      BY <1>4, <1>5, <1>6, <2>2, <3>1
  <2> QED
    BY <2>1, <2>2
<1>8. \A j \in 1..Len(log') : Shaped(log'[j])
  BY <1>7, TypeIsShaped
<1>9. log' \in Seq(Records) /\ Len(log') <= MaxLog
  BY <1>1, <1>5, <1>6
<1> QED
  BY <1>8, <1>9 DEF BoardTypeOK, Shaped

\* For any rooms, threads, senders, priorities and severities: a start always
\* has a thread id and a task a priority, whichever endpoint stored it.
THEOREM BoardTypesAlways == Spec => []BoardTypeOK
<1>1. Init => BoardTypeOK
  <2>1. <<>> \in Seq(Records) /\ Len(<<>>) = 0 /\ 0 <= MaxLog
    BY BoardAssumption
  <2> QED
    BY <2>1 DEF Init, BoardTypeOK
<1>2. BoardTypeOK /\ [Next]_log => BoardTypeOK'
  <2>1. CASE UNCHANGED log
    BY <2>1 DEF BoardTypeOK
  <2>2. CASE Next
    BY <2>2, GrowShapes, DeleteShapes DEF Next
  <2> QED
    BY <2>1, <2>2
<1> QED
  BY <1>1, <1>2, PTL DEF Spec

LEMMA ReferenceHolds == BoardTypeOK => BoardIsReference
<1> SUFFICES ASSUME BoardTypeOK, NEW room, NEW tid \in TaskIds
             PROVE  Board(room)[tid] = IF Events(tid, room) = {} THEN NoRow
                                       ELSE RowFrom(tid, room)
  BY DEF BoardIsReference
<1>1. Board(room)[tid] = Reference(Len(log), room)[tid]
  BY BoardIs
<1>2. Upto(Len(log), tid, room) = Events(tid, room)
  BY DEF Upto, Events
<1> QED
  BY <1>1, <1>2, RowFromIs DEF Reference

\* For logs of any length: the one pass of tasks_summary puts on the board
\* what the log says of each thread, whatever was stored and deleted.
THEOREM BoardIsReferenceAlways == Spec => []BoardIsReference
BY BoardTypesAlways, ReferenceHolds, PTL

\* For logs of any length: a thread that began with its review request waits
\* for review until an ALL_CLEAR, on the board of every room.
THEOREM ReviewHeldAlways == Spec => []ReviewHeld
<1>1. BoardTypeOK /\ BoardIsReference => ReviewHeld
  <2> SUFFICES ASSUME BoardTypeOK, BoardIsReference, NEW room \in Rooms \cup {NoRoom},
                      NEW tid \in TaskIds, Events(tid, room) # {},
                      log[Min(Events(tid, room))].type = "review_request",
                      \A i \in Events(tid, room) : log[i].type \notin {"review_clear", "task"}
               PROVE  Board(room)[tid].status = "waiting_review"
    BY DEF ReviewHeld
  <2>1. Board(room)[tid] = RowFrom(tid, room)
    BY DEF BoardIsReference
  <2>2. Board(room)[tid].status = StatusFrom(tid, room)
    BY <2>1 DEF RowFrom
  <2>3. Max(Events(tid, room)) \in Events(tid, room)
    <3>1. Len(log) \in Nat /\ Events(tid, room) \in SUBSET (1..Len(log))
      BY DEF BoardTypeOK, Events
    <3> QED
      BY <3>1, FirstAndLast
  <2>4. Kind(tid, room) = "review_request"
    BY DEF Kind, StartTypes
  <2>5. StatusFrom(tid, room) = "waiting_review"
    BY <2>3, <2>4 DEF StatusFrom, StartTypes, StatusOf
  <2> QED
    BY <2>2, <2>5
<1> QED
  BY <1>1, BoardTypesAlways, BoardIsReferenceAlways, PTL

=============================================================================
