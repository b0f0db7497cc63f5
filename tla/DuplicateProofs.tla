---------------------------- MODULE DuplicateProofs ----------------------------
(***************************************************************************)
(* Proofs about DuplicateWindow: for any threads, keys, windows and        *)
(* requests.                                                               *)
(***************************************************************************)
EXTENDS DuplicateWindow, TLAPS

-----------------------------------------------------------------------------
(* Types.                                                                  *)

LEMMA Numbers ==
    ASSUME DedupeTypeOK
    PROVE  /\ Window \in Nat \ {0} /\ Expiry \in Nat /\ Window <= Expiry
           /\ \A k \in Keys : cache[k] \in Nat
           /\ \A t \in Threads : /\ req[t].at \in Nat /\ req[t].at > Expiry
                                 /\ req[t].key \in Keys /\ victim[t] \in Keys
           /\ \A a \in accepted : a.at \in Nat /\ a.key \in Keys
  BY DedupeAssumption DEF DedupeTypeOK, Request, Times

LEMMA TypeInit == Init => DedupeTypeOK
<1> SUFFICES ASSUME Init PROVE DedupeTypeOK
  OBVIOUS
<1>1. Expiry + 1 \in Times
  BY DedupeAssumption DEF Times
<1>2. AnyKey \in Keys
  BY DedupeAssumption DEF AnyKey
<1>3. NoRequest \in Request
  BY <1>1, <1>2 DEF NoRequest, Request
<1>4. stored \in Seq(Request)
  BY DEF Init
<1> QED
  BY <1>1, <1>2, <1>3, <1>4 DEF Init, DedupeTypeOK

LEMMA TypeStep == DedupeTypeOK /\ [Next]_vars => DedupeTypeOK'
<1> SUFFICES ASSUME DedupeTypeOK, [Next]_vars PROVE DedupeTypeOK'
  OBVIOUS
<1> USE DEF DedupeTypeOK
<1>1. CASE UNCHANGED vars
  BY <1>1 DEF vars
<1>2. CASE SetClock
  BY <1>2 DEF SetClock
<1>3. ASSUME NEW t \in Threads, Arrive(t) PROVE DedupeTypeOK'
  <2>1. PICK k \in Keys : req' = [req EXCEPT ![t] = [key |-> k, at |-> clock]]
    BY <1>3 DEF Arrive
  <2>2. [key |-> k, at |-> clock] \in Request
    BY DEF Request
  <2> QED
    BY <1>3, <2>1, <2>2 DEF Arrive
<1>4. ASSUME NEW t \in Threads, Refuse(t) \/ Pass(t) \/ PurgeKeyError(t) \/ Reject(t)
      PROVE  DedupeTypeOK'
  BY <1>4 DEF Refuse, Pass, PurgeKeyError, Reject
<1>5. ASSUME NEW t \in Threads, Mark(t) PROVE DedupeTypeOK'
  <2>1. req[t].at \in Times
    BY DEF Request
  <2>2. Racing(t) \subseteq Request
    BY DEF Racing
  <2>3. cache' = [cache EXCEPT ![req[t].key] = req[t].at]
    BY <1>5 DEF Mark
  <2>4. cache' \in [Keys -> Times \cup {0}]
    BY <2>1, <2>3
  <2> QED
    BY <1>5, <2>2, <2>4 DEF Mark
<1>6. ASSUME NEW t \in Threads, PurgeTest(t) PROVE DedupeTypeOK'
  <2>1. PICK k \in todo[t] :
          /\ todo' = [todo EXCEPT ![t] = @ \ {k}]
          /\ \/ victim' = [victim EXCEPT ![t] = k] /\ pc' = [pc EXCEPT ![t] = "drop"]
             \/ UNCHANGED <<victim, pc>>
    BY <1>6 DEF PurgeTest
  <2> QED
    BY <1>6, <2>1 DEF PurgeTest
<1>7. ASSUME NEW t \in Threads, PurgeDrop(t) PROVE DedupeTypeOK'
  <2>1. cache' = [cache EXCEPT ![victim[t]] = 0]
    BY <1>7 DEF PurgeDrop
  <2>2. cache' \in [Keys -> Times \cup {0}]
    BY <2>1
  <2> QED
    BY <1>7, <2>2 DEF PurgeDrop
<1>8. ASSUME NEW t \in Threads, Store(t) PROVE DedupeTypeOK'
  BY <1>8 DEF Store
<1> QED
  BY <1>1, <1>2, <1>3, <1>4, <1>5, <1>6, <1>7, <1>8 DEF Next, Step

\* Requests, marks and histories stay in their types.
THEOREM DedupeTypes == Spec => []DedupeTypeOK
BY TypeInit, TypeStep, PTL DEF Spec

-----------------------------------------------------------------------------
(* Refusals.                                                               *)

\* What the cache holds of a key is the time of a request that was accepted.
CacheTold ==
    \A k \in Keys : cache[k] # 0 => \E a \in accepted : a.key = k /\ a.at = cache[k]

RefusalInv == DedupeTypeOK /\ CacheTold /\ RefusedHadMark

LEMMA RefusalStep == RefusalInv /\ [Next]_vars => RefusalInv'
<1> SUFFICES ASSUME RefusalInv, [Next]_vars PROVE RefusalInv'
  OBVIOUS
<1> USE DEF RefusalInv
<1>1. DedupeTypeOK'
  BY TypeStep
<1>2. ASSUME UNCHANGED <<cache, accepted, refused>>
      PROVE  CacheTold' /\ RefusedHadMark'
  BY <1>2 DEF CacheTold, RefusedHadMark
<1>3. CASE UNCHANGED vars \/ SetClock
  BY <1>1, <1>2, <1>3 DEF vars, SetClock
<1>4. ASSUME NEW t \in Threads,
             Arrive(t) \/ Pass(t) \/ PurgeTest(t) \/ PurgeKeyError(t) \/ Store(t) \/ Reject(t)
      PROVE  RefusalInv'
  <2>1. UNCHANGED <<cache, accepted, refused>>
    BY <1>4 DEF Arrive, Pass, PurgeTest, PurgeKeyError, Store, Reject
  <2> QED
    BY <1>1, <1>2, <2>1
<1>5. ASSUME NEW t \in Threads, Refuse(t) PROVE RefusalInv'
  <2>1. /\ refused' = refused \cup {req[t]} /\ UNCHANGED <<cache, accepted>>
        /\ req[t].at - cache[req[t].key] < Window
    BY <1>5 DEF Refuse, Recent
  <2>2. cache[req[t].key] # 0
    BY <2>1, Numbers
  <2>3. PICK a \in accepted : a.key = req[t].key /\ a.at = cache[req[t].key]
    BY <2>2, Numbers DEF CacheTold
  <2>4. RefusedHadMark'
    BY <2>1, <2>3 DEF RefusedHadMark
  <2> QED
    BY <1>1, <2>1, <2>4 DEF CacheTold
<1>6. ASSUME NEW t \in Threads, Mark(t) PROVE RefusalInv'
  <2>1. /\ cache' = [cache EXCEPT ![req[t].key] = req[t].at]
        /\ accepted' = accepted \cup {req[t]} /\ UNCHANGED refused
    BY <1>6 DEF Mark
  <2>2. cache \in [Keys -> Times \cup {0}]
    BY DEF DedupeTypeOK
  <2>3. CacheTold'
    BY <2>1, <2>2 DEF CacheTold
  <2>4. RefusedHadMark'
    BY <2>1 DEF RefusedHadMark
  <2> QED
    BY <1>1, <2>3, <2>4
<1>7. ASSUME NEW t \in Threads, PurgeDrop(t) PROVE RefusalInv'
  <2>1. cache' = [cache EXCEPT ![victim[t]] = 0] /\ UNCHANGED <<accepted, refused>>
    BY <1>7 DEF PurgeDrop
  <2>2. cache \in [Keys -> Times \cup {0}]
    BY DEF DedupeTypeOK
  <2> QED
    BY <1>1, <2>1, <2>2 DEF CacheTold, RefusedHadMark
<1> QED
  BY <1>3, <1>4, <1>5, <1>6, <1>7 DEF Next, Step

\* A request is refused only when one of its key passed the check less than a
\* window before, or at a time that the clock has still to reach again, whatever
\* the purges of other threads do in between.
THEOREM RefusedHadMarkAlways == Spec => []RefusedHadMark
<1>1. Init => RefusalInv
  BY TypeInit DEF Init, RefusalInv, CacheTold, RefusedHadMark
<1>2. RefusalInv => RefusedHadMark
  BY DEF RefusalInv
<1> QED
  BY <1>1, <1>2, RefusalStep, PTL DEF Spec

-----------------------------------------------------------------------------
(* Duplicates: the inductive invariant.                                    *)

\* A time that is clear of a request's.
Clear(n, a) == n - a.at >= Window

\* Marks that did not race and were not purged.
Clean == accepted \ raced

\* Such a mark stays in the cache, or a greater one does.
MarkStays == \A a \in Clean : cache[a.key] >= a.at

\* A request past its check is clear of these marks.
PassedClear ==
    \A u \in Threads : \A a \in Clean :
        pc[u] = "mark" /\ req[u].key = a.key => Clear(req[u].at, a)

\* Who has marked its key and is still to store its record.
Marked(t) == pc[t] \in {"purge", "drop"}
Apart(a, b) == Close(a, b) => a \in raced \/ b \in raced

\* Among the requests that marked their keys, stored or not, no two are close
\* and both clean.
MarkedApart ==
    /\ \A t \in Threads : Marked(t) => req[t] \in accepted
    /\ \A i \in 1..Len(stored) : stored[i] \in accepted
    /\ \A t, u \in Threads : t # u /\ Marked(t) /\ Marked(u) => Apart(req[t], req[u])
    /\ \A t \in Threads : \A i \in 1..Len(stored) : Marked(t) => Apart(stored[i], req[t])

WindowInv == DedupeTypeOK /\ MarkStays /\ PassedClear /\ MarkedApart /\ DuplicatesNeedRace

-----------------------------------------------------------------------------
(* Steps that leave the marks alone.                                       *)

\* A request arrives, ends, or is still to mark or has marked its key as before.
LEMMA QuietStep ==
    ASSUME WindowInv, DedupeTypeOK', UNCHANGED <<cache, accepted, raced, stored>>,
           \A t \in Threads : \/ pc'[t] \in {"idle", "check"}
                              \/ pc'[t] = pc[t] /\ req'[t] = req[t]
                              \/ Marked(t) /\ Marked(t)' /\ req'[t] = req[t]
    PROVE  WindowInv'
<1> USE DEF WindowInv
<1>1. MarkStays' /\ PassedClear'
  BY DEF MarkStays, PassedClear, Clear, Clean, Marked
<1>2. \A t \in Threads : Marked(t)' => Marked(t) /\ req'[t] = req[t]
  BY DEF Marked
<1>3. MarkedApart' /\ DuplicatesNeedRace'
  BY <1>2 DEF MarkedApart, Apart, Close, DuplicatesNeedRace
<1> QED
  BY <1>1, <1>3

\* It finds no recent mark.
LEMMA PassStep ==
    ASSUME WindowInv, DedupeTypeOK', NEW t \in Threads, Pass(t)
    PROVE  WindowInv'
<1> USE Numbers DEF WindowInv
<1>1. /\ pc[t] = "check" /\ pc' = [pc EXCEPT ![t] = "mark"]
      /\ UNCHANGED <<cache, req, accepted, stored, raced>>
      /\ req[t].at - cache[req[t].key] >= Window
  BY DEF Pass, Recent, DedupeTypeOK
<1>2. pc'[t] = "mark" /\ \A u \in Threads : u # t => pc'[u] = pc[u]
  BY <1>1 DEF DedupeTypeOK
<1>3. MarkStays'
  BY <1>1 DEF MarkStays, Clean
<1>4. PassedClear'
  BY <1>1, <1>2 DEF PassedClear, MarkStays, Clear, Clean
<1>5. MarkedApart' /\ DuplicatesNeedRace'
  BY <1>1, <1>2 DEF MarkedApart, Marked, Apart, Close, DuplicatesNeedRace
<1> QED
  BY <1>3, <1>4, <1>5

LEMMA StoreStep ==
    ASSUME WindowInv, DedupeTypeOK', NEW t \in Threads, Store(t)
    PROVE  WindowInv'
<1> USE DEF WindowInv
<1>1. /\ pc[t] = "purge" /\ pc' = [pc EXCEPT ![t] = "idle"]
      /\ stored' = Append(stored, req[t])
      /\ UNCHANGED <<cache, req, accepted, raced>>
  BY DEF Store
<1>2. pc'[t] = "idle" /\ \A u \in Threads : u # t => pc'[u] = pc[u]
  BY <1>1 DEF DedupeTypeOK
<1>3. MarkStays' /\ PassedClear'
  BY <1>1, <1>2 DEF MarkStays, PassedClear, Clear, Clean
<1>4. /\ Len(stored) \in Nat /\ Len(stored') = Len(stored) + 1
      /\ \A i \in 1..Len(stored) : stored'[i] = stored[i]
      /\ stored'[Len(stored) + 1] = req[t]
  <2>1. stored \in Seq(Request) /\ req[t] \in Request
    BY DEF DedupeTypeOK
  <2> QED
    BY <1>1, <2>1
<1>5. Marked(t)
  BY <1>1 DEF Marked
<1>6. MarkedApart'
  BY <1>1, <1>2, <1>4, <1>5 DEF MarkedApart, Marked, Apart, Close
<1>7. DuplicatesNeedRace'
  BY <1>1, <1>4, <1>5 DEF MarkedApart, Apart, Close, DuplicatesNeedRace
<1> QED
  BY <1>3, <1>6, <1>7

-----------------------------------------------------------------------------
(* Steps that change the marks.                                            *)

\* A purge takes the marks of a key.
LEMMA PurgeDropStep ==
    ASSUME WindowInv, DedupeTypeOK', NEW t \in Threads, PurgeDrop(t)
    PROVE  WindowInv'
<1> USE Numbers DEF WindowInv, Clean
<1>1. /\ pc[t] = "drop" /\ pc' = [pc EXCEPT ![t] = "purge"]
      /\ cache' = [cache EXCEPT ![victim[t]] = 0]
      /\ raced' = raced \cup {a \in accepted : a.key = victim[t]}
      /\ UNCHANGED <<req, accepted, stored>>
  BY DEF PurgeDrop
<1>2. /\ pc'[t] = "purge" /\ \A u \in Threads : u # t => pc'[u] = pc[u]
      /\ \A k \in Keys : k # victim[t] => cache'[k] = cache[k]
  BY <1>1 DEF DedupeTypeOK
<1>3. MarkStays'
  BY <1>1, <1>2 DEF MarkStays
<1>4. PassedClear'
  BY <1>1, <1>2 DEF PassedClear, Clear
<1>5. MarkedApart' /\ DuplicatesNeedRace'
  BY <1>1, <1>2 DEF MarkedApart, Marked, Apart, Close, DuplicatesNeedRace
<1> QED
  BY <1>3, <1>4, <1>5

\* A request marks its key: who else is past the check races with it.
LEMMA MarkStep ==
    ASSUME WindowInv, DedupeTypeOK', NEW t \in Threads, Mark(t)
    PROVE  WindowInv'
<1> USE Numbers DEF WindowInv
<1> DEFINE a == req[t]
<1>1. /\ pc[t] = "mark" /\ pc' = [pc EXCEPT ![t] = "purge"]
      /\ cache' = [cache EXCEPT ![a.key] = a.at]
      /\ accepted' = accepted \cup {a} /\ raced' = raced \cup Racing(t)
      /\ UNCHANGED <<req, stored>>
  BY DEF Mark
<1>2. /\ pc'[t] = "purge" /\ \A u \in Threads : u # t => pc'[u] = pc[u]
      /\ \A k \in Keys : k # a.key => cache'[k] = cache[k]
      /\ cache'[a.key] = a.at /\ a.key \in Keys /\ a.at \in Nat
  BY <1>1 DEF DedupeTypeOK
<1>3. a \notin raced' => \A u \in Threads : u # t /\ pc[u] = "mark" => req[u].key # a.key
  BY <1>1 DEF Racing
<1>4. Clean' \subseteq Clean \cup {a} /\ raced \subseteq raced'
  BY <1>1 DEF Clean
<1>5. \A b \in Clean : b.at \in Nat /\ b.key \in Keys
  BY DEF Clean
<1>6. a \in Clean' => a \notin raced'
  BY DEF Clean
<1>7. \A b \in Clean : b.key = a.key => Clear(a.at, b)
  BY <1>1 DEF PassedClear
<1> HIDE DEF a
<1>8. MarkStays'
  <2> SUFFICES ASSUME NEW b \in Clean' PROVE cache'[b.key] >= b.at
    BY DEF MarkStays
  <2>1. CASE b = a
    BY <1>2, <2>1
  <2>2. CASE b \in Clean /\ b.key = a.key
    BY <1>2, <1>5, <1>7, <2>2 DEF Clear
  <2>3. CASE b \in Clean /\ b.key # a.key
    BY <1>2, <1>5, <2>3 DEF MarkStays
  <2> QED
    BY <1>4, <2>1, <2>2, <2>3
<1>9. PassedClear'
  <2> SUFFICES ASSUME NEW u \in Threads, NEW b \in Clean', pc'[u] = "mark", req[u].key = b.key
               PROVE  Clear(req[u].at, b)
    BY <1>1 DEF PassedClear, Clear
  <2>1. u # t /\ pc[u] = "mark"
    BY <1>2
  <2>2. b \in Clean
    BY <1>3, <1>4, <1>6, <2>1
  <2> QED
    BY <2>1, <2>2 DEF PassedClear
<1>10. \A b \in accepted : Close(a, b) => a \in raced' \/ b \in raced'
  <2> SUFFICES ASSUME NEW b \in accepted, b \notin raced', a \notin raced', Close(a, b)
               PROVE  FALSE
    OBVIOUS
  <2>1. b \in Clean /\ b.key = a.key
    BY <1>4 DEF Clean, Close
  <2>2. Clear(a.at, b)
    BY <1>7, <2>1
  <2> QED
    BY <1>2, <1>5, <2>1, <2>2 DEF Clear, Close
<1>11. MarkedApart' /\ DuplicatesNeedRace'
  <2>1. \A u \in Threads : Marked(u)' <=> u = t \/ Marked(u)
    BY <1>2 DEF Marked
  <2> QED
    BY <1>1, <1>4, <1>10, <2>1 DEF MarkedApart, Apart, Close, DuplicatesNeedRace, a
<1> QED
  BY <1>8, <1>9, <1>11

LEMMA WindowInvStep == WindowInv /\ [Next]_vars => WindowInv'
<1> SUFFICES ASSUME WindowInv, [Next]_vars PROVE WindowInv'
  OBVIOUS
<1>1. DedupeTypeOK /\ DedupeTypeOK'
  BY TypeStep DEF WindowInv
<1>2. CASE UNCHANGED vars \/ SetClock
  BY <1>1, <1>2, QuietStep DEF vars, SetClock
<1>3. ASSUME NEW t \in Threads, Refuse(t) \/ PurgeKeyError(t) \/ Reject(t)
      PROVE  WindowInv'
  <2>1. /\ UNCHANGED <<cache, req, accepted, raced, stored>>
        /\ pc' = [pc EXCEPT ![t] = "idle"]
    BY <1>3 DEF Refuse, PurgeKeyError, Reject
  <2>2. \A u \in Threads : pc'[u] = "idle" \/ pc'[u] = pc[u]
    BY <1>1, <2>1 DEF DedupeTypeOK
  <2> QED
    BY <1>1, <2>1, <2>2, QuietStep
<1>4. ASSUME NEW t \in Threads, Arrive(t) PROVE WindowInv'
  <2>1. PICK k \in Keys : req' = [req EXCEPT ![t] = [key |-> k, at |-> clock]]
    BY <1>4 DEF Arrive
  <2>2. pc' = [pc EXCEPT ![t] = "check"] /\ UNCHANGED <<cache, accepted, raced, stored>>
    BY <1>4 DEF Arrive
  <2>3. \A u \in Threads : pc'[u] = "check" \/ (pc'[u] = pc[u] /\ req'[u] = req[u])
    BY <1>1, <2>1, <2>2 DEF DedupeTypeOK
  <2> QED
    BY <1>1, <2>2, <2>3, QuietStep
<1>5. ASSUME NEW t \in Threads, PurgeTest(t) PROVE WindowInv'
  <2>1. /\ pc[t] = "purge" /\ UNCHANGED <<cache, req, accepted, raced, stored>>
        /\ pc' = [pc EXCEPT ![t] = "drop"] \/ UNCHANGED pc
    BY <1>5 DEF PurgeTest
  <2>2. \A u \in Threads : pc'[u] = pc[u] \/ (Marked(u) /\ Marked(u)')
    BY <1>1, <2>1 DEF DedupeTypeOK, Marked
  <2> QED
    BY <1>1, <2>1, <2>2, QuietStep
<1> QED
  BY <1>1, <1>2, <1>3, <1>4, <1>5, PassStep, MarkStep, PurgeDropStep, StoreStep DEF Next, Step

\* Two records of one key are stored within a window only if the mark of one
\* of them raced or was purged, for any number of threads and however the clock
\* is set.
THEOREM DuplicatesNeedRaceAlways == Spec => []DuplicatesNeedRace
<1>1. Init => WindowInv
  <2> SUFFICES ASSUME Init PROVE WindowInv
    OBVIOUS
  <2>1. DedupeTypeOK
    BY TypeInit
  <2>2. /\ accepted = {} /\ stored = <<>> /\ \A t \in Threads : pc[t] = "idle"
    BY DEF Init
  <2> QED
    BY <2>1, <2>2 DEF WindowInv, MarkStays, PassedClear, MarkedApart, Marked,
                      DuplicatesNeedRace, Clean
<1>2. WindowInv => DuplicatesNeedRace
  BY DEF WindowInv
<1> QED
  BY <1>1, <1>2, WindowInvStep, PTL DEF Spec
=============================================================================
