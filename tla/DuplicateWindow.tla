---------------------------- MODULE DuplicateWindow ----------------------------
(***************************************************************************)
(* _dedupe of groupchat/server.py: a dictionary of keys and the times they *)
(* were last accepted, shared by the handler threads of /group/send,       *)
(* /group/append and everything that ends in _handle_group_append, without *)
(* a lock.  One dictionary operation is one step.                          *)
(***************************************************************************)
EXTENDS Integers, Sequences, FiniteSets, SequencesExt

CONSTANTS
    Threads,     \* handler threads
    Keys,        \* "cmid:<id>" or "<sender>|<text>"
    Window,      \* 3.0 seconds in the code
    Expiry,      \* 60 seconds in the code
    MaxClock,    \* bound: readings of time.time()
    MaxRequests  \* bound: requests that arrive

ASSUME DedupeAssumption ==
    /\ Window \in Nat \ {0} /\ Expiry \in Nat /\ MaxClock \in Nat
    /\ Window <= Expiry /\ Expiry < MaxClock /\ Keys # {}

VARIABLES
    clock,     \* time.time()
    cache,     \* _group_dedupe_cache; 0 for a key that is not in it
    pc,        \* where the request of each thread is
    req,       \* the request of each thread
    todo,      \* keys the purge loop has still to look at
    victim,    \* the key the purge loop found too old
    issued,    \* requests that have arrived
    accepted,  \* history: requests that passed the check
    raced,     \* history: requests whose mark raced or was purged
    stored,    \* history: requests whose record was appended, in order
    refused    \* history: requests answered 429

vars == <<clock, cache, pc, req, todo, victim, issued, accepted, raced, stored,
          refused>>

\* time.time() is far larger than the window: a key that is not in the cache
\* reads as 0 and is never recent.
Times == Expiry + 1 .. MaxClock
Request == [key : Keys, at : Times]
AnyKey == CHOOSE k \in Keys : TRUE
NoRequest == [key |-> AnyKey, at |-> Expiry + 1]

Init ==
    /\ clock = Expiry + 1
    /\ cache = [k \in Keys |-> 0]
    /\ pc = [t \in Threads |-> "idle"]
    /\ req = [t \in Threads |-> NoRequest]
    /\ todo = [t \in Threads |-> {}]
    /\ victim = [t \in Threads |-> AnyKey]
    /\ issued = 0
    /\ accepted = {} /\ raced = {} /\ stored = <<>> /\ refused = {}

-----------------------------------------------------------------------------

\* The handler computes the key and the time, and calls _dedupe.
Arrive(t) ==
    /\ pc[t] = "idle" /\ issued < MaxRequests
    /\ \E k \in Keys : req' = [req EXCEPT ![t] = [key |-> k, at |-> clock]]
    /\ issued' = issued + 1
    /\ pc' = [pc EXCEPT ![t] = "check"]
    /\ UNCHANGED <<clock, cache, todo, victim, accepted, stored, refused, raced>>

RecentShort(t) == req[t].at - cache[req[t].key] < Window - 1

Recent(t) == req[t].at - cache[req[t].key] < Window

RefuseRefreshes(t) ==
    /\ pc[t] = "check" /\ Recent(t)
    /\ cache' = [cache EXCEPT ![req[t].key] = req[t].at]
    /\ refused' = refused \cup {req[t]}
    /\ pc' = [pc EXCEPT ![t] = "idle"]
    /\ UNCHANGED <<clock, req, todo, victim, issued, accepted, stored, raced>>

Refuse(t) ==
    /\ pc[t] = "check" /\ Recent(t)
    /\ refused' = refused \cup {req[t]}
    /\ pc' = [pc EXCEPT ![t] = "idle"]
    /\ UNCHANGED <<clock, cache, req, todo, victim, issued, accepted, stored, raced>>

Pass(t) ==
    /\ pc[t] = "check" /\ ~Recent(t)
    /\ pc' = [pc EXCEPT ![t] = "mark"]
    /\ UNCHANGED <<clock, cache, req, todo, victim, issued, accepted, stored, refused, raced>>

\* Who is about to mark the same key; with t's own request when there is
\* anybody.
Racing(t) ==
    LET others == {u \in Threads \ {t} : pc[u] = "mark" /\ req[u].key = req[t].key}
    IN  {req[u] : u \in others} \cup (IF others # {} THEN {req[t]} ELSE {})

\* Stores when the window ends instead of when it began.
MarkEnd(t) ==
    /\ pc[t] = "mark"
    /\ cache' = [cache EXCEPT ![req[t].key] = req[t].at + Window]
    /\ todo' = [todo EXCEPT ![t] = {k \in Keys : cache'[k] # 0}]
    /\ accepted' = accepted \cup {req[t]}
    /\ raced' = raced \cup Racing(t)
    /\ pc' = [pc EXCEPT ![t] = "purge"]
    /\ UNCHANGED <<clock, req, victim, issued, stored, refused>>

\* Sets the key and lists the keys for the purge.
Mark(t) ==
    /\ pc[t] = "mark"
    /\ cache' = [cache EXCEPT ![req[t].key] = req[t].at]
    /\ todo' = [todo EXCEPT ![t] = {k \in Keys : cache'[k] # 0}]
    /\ accepted' = accepted \cup {req[t]}
    /\ raced' = raced \cup Racing(t)
    /\ pc' = [pc EXCEPT ![t] = "purge"]
    /\ UNCHANGED <<clock, req, victim, issued, stored, refused>>

PurgeTest(t) ==
    /\ pc[t] = "purge"
    /\ \E k \in todo[t] :
         /\ cache[k] # 0
         /\ todo' = [todo EXCEPT ![t] = @ \ {k}]
         /\ IF req[t].at - cache[k] > Expiry
              THEN /\ victim' = [victim EXCEPT ![t] = k]
                   /\ pc' = [pc EXCEPT ![t] = "drop"]
              ELSE UNCHANGED <<victim, pc>>
    /\ UNCHANGED <<clock, cache, req, issued, accepted, stored, refused, raced>>

\* Whatever was marked there since the test goes too.  A request that took its
\* time before, or takes it after the clock was set back, does not find the mark
\* it should.
PurgeDrop(t) ==
    /\ pc[t] = "drop" /\ cache[victim[t]] # 0
    /\ cache' = [cache EXCEPT ![victim[t]] = 0]
    /\ raced' = raced \cup {a \in accepted : a.key = victim[t]}
    /\ pc' = [pc EXCEPT ![t] = "purge"]
    /\ UNCHANGED <<clock, req, todo, victim, issued, accepted, stored, refused>>

\* Another thread's purge took the key: KeyError ends the handler, and the
\* key of the request stays marked although nothing was stored for it.
PurgeKeyError(t) ==
    /\ \/ pc[t] = "purge" /\ \E k \in todo[t] : cache[k] = 0
       \/ pc[t] = "drop" /\ cache[victim[t]] = 0
    /\ todo' = [todo EXCEPT ![t] = {}]
    /\ pc' = [pc EXCEPT ![t] = "idle"]
    /\ UNCHANGED <<clock, cache, req, victim, issued, accepted, stored, refused, raced>>

\* The rest of the handler: the record is appended.
Store(t) ==
    /\ pc[t] = "purge" /\ todo[t] = {}
    /\ stored' = Append(stored, req[t])
    /\ pc' = [pc EXCEPT ![t] = "idle"]
    /\ UNCHANGED <<clock, cache, req, todo, victim, issued, accepted, refused, raced>>

\* append raises ValueError (bad message_type, bad priority, unknown sender):
\* 400, with the key marked.
Reject(t) ==
    /\ pc[t] = "purge" /\ todo[t] = {}
    /\ pc' = [pc EXCEPT ![t] = "idle"]
    /\ UNCHANGED <<clock, cache, req, todo, victim, issued, accepted, stored, refused, raced>>

\* time.time() follows the wall clock, which may be set back.
SetClock ==
    /\ clock' \in Times \ {clock}
    /\ UNCHANGED <<cache, pc, req, todo, victim, issued, accepted, stored, refused, raced>>

Step(t) ==
    \/ Arrive(t) \/ Refuse(t) \/ Pass(t) \/ Mark(t)
    \/ PurgeTest(t) \/ PurgeDrop(t) \/ PurgeKeyError(t)
    \/ Store(t) \/ Reject(t)

Next == SetClock \/ \E t \in Threads : Step(t)

Spec == Init /\ [][Next]_vars

-----------------------------------------------------------------------------
(* Properties.                                                             *)

\* Every variable stays in its type.
DedupeTypeOK ==
    /\ clock \in Times
    /\ cache \in [Keys -> Times \cup {0}]
    /\ pc \in [Threads -> {"idle", "check", "mark", "purge", "drop"}]
    /\ req \in [Threads -> Request]
    /\ todo \in [Threads -> SUBSET Keys]
    /\ victim \in [Threads -> Keys]
    /\ accepted \subseteq Request /\ raced \subseteq Request
    /\ stored \in Seq(Request) /\ refused \subseteq Request

Close(a, b) == a.key = b.key /\ a.at - b.at < Window /\ b.at - a.at < Window

\* Two records of one key are stored within a window only if the mark of one
\* of them raced, another thread having passed the check and not yet marked the
\* key, or a purge took the mark.  Nothing else does it, a clock that is set
\* back included.
DuplicatesNeedRace ==
    \A i, j \in 1..Len(stored) :
        i # j /\ Close(stored[i], stored[j]) =>
            stored[i] \in raced \/ stored[j] \in raced

\* A request is refused only when one of the same key passed the check less
\* than a window before, or at a time that the clock has still to reach again,
\* be it one whose own append was rejected later: refusals do not extend the
\* window, the purge does not invent marks, and races do not change that.
RefusedHadMark ==
    \A r \in refused : \E a \in accepted :
        a.key = r.key /\ r.at - a.at < Window
=============================================================================
