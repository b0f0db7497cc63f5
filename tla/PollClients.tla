------------------------------ MODULE PollClients ------------------------------
(***************************************************************************)
(* Clients that follow the log with GET /group/poll, each sending the      *)
(* last_ts of the answer before as "since", and that page back through     *)
(* GET /group/history, sending the timestamp of their oldest record as     *)
(* "before".  The handlers read the file without the lock, a block at a    *)
(* time; a block is one line here, so that a writer may come between any   *)
(* two lines.                                                              *)
(***************************************************************************)
EXTENDS MessageLog

CONSTANTS
    Pollers,  \* the clients
    Limit     \* the "limit" they ask with, 1..500 in the code, 1..1000 back

ASSUME LimitAssumption == Limit \in Nat \ {0}

VARIABLES
    cursor,   \* cursor[p]: "since" of the next poll of p, 0 for none
    low,      \* low[p]: "before" of the next page back, 0 when none is left
    asks,     \* asks[p]: what p's request asks for, or "no" request
    pos,      \* pos[p]: lines the request has read
    rows,     \* rows[p]: lines it keeps
    seen,     \* history: ids p was sent
    crossed   \* history: clients with a request that a delete got in the way of

requestVars == <<asks, pos, rows>>
pollVars == <<cursor, low, requestVars, seen, crossed>>
allVars == <<vars, pollVars>>

PollInit ==
    /\ Init
    /\ cursor = [p \in Pollers |-> 0] /\ low = [p \in Pollers |-> 0]
    /\ asks = [p \in Pollers |-> "no"]
    /\ pos = [p \in Pollers |-> 0]
    /\ rows = [p \in Pollers |-> <<>>]
    /\ seen = [p \in Pollers |-> {}] /\ crossed = {}

-----------------------------------------------------------------------------
(* read_since                                                              *)

Open(p, what) ==
    /\ asks[p] = "no"
    /\ asks' = [asks EXCEPT ![p] = what]
    /\ UNCHANGED <<vars, cursor, low, pos, rows, seen, crossed>>

PollOpen(p) == Open(p, "since")
BackOpen(p) == low[p] > 0 /\ Open(p, "before")

\* "Since" taken as inclusive.
KeptInclusive(p, line) ==
    IF asks[p] = "since" THEN line.ts >= cursor[p] ELSE line.ts < low[p]

\* "Since" and "before" both leave out the record they name.
Kept(p, line) == IF asks[p] = "since" THEN line.ts > cursor[p] ELSE line.ts < low[p]

\* The file position is a line count: a rewrite under the reader shifts the
\* lines but not the position.
ReadLine(p) ==
    /\ asks[p] # "no" /\ pos[p] < Len(file)
    /\ LET line == file[pos[p] + 1]
       IN rows' = [rows EXCEPT ![p] = IF Kept(p, line) THEN Append(@, line) ELSE @]
    /\ pos' = [pos EXCEPT ![p] = @ + 1]
    /\ UNCHANGED <<vars, cursor, low, asks, seen, crossed>>

FirstRows(p) == SubSeq(rows[p], 1, Limit)
LastRows(p) == SubSeq(rows[p], Len(rows[p]) - Limit + 1, Len(rows[p]))

\* The newest rows whatever was asked.
PageNewest(p) == IF Len(rows[p]) <= Limit THEN rows[p] ELSE LastRows(p)

\* With a cursor the oldest rows are sent, so that the next poll continues
\* where this one ends; without one, and back from one, the newest.
Page(p) ==
    IF Len(rows[p]) <= Limit THEN rows[p]
    ELSE IF asks[p] = "since" /\ cursor[p] # 0 THEN FirstRows(p) ELSE LastRows(p)

EndOfFile(p, what) == asks[p] = what /\ pos[p] >= Len(file)

\* The client has the answer.
Answered(p) ==
    /\ seen' = [seen EXCEPT ![p] = @ \cup IdSet(Page(p))]
    /\ asks' = [asks EXCEPT ![p] = "no"]
    /\ pos' = [pos EXCEPT ![p] = 0] /\ rows' = [rows EXCEPT ![p] = <<>>]
    /\ UNCHANGED vars

\* An empty answer without the "since" it was asked with.
PollAnswerNull(p) ==
    /\ EndOfFile(p, "since") /\ Answered(p)
    /\ LET page == Page(p)
       IN /\ cursor' = [cursor EXCEPT ![p] = IF page = <<>> THEN -1 ELSE Last(page).ts]
          /\ low' = [low EXCEPT ![p] = IF cursor[p] = 0 /\ page # <<>> THEN Head(page).ts ELSE @]
    /\ UNCHANGED crossed

\* The client takes the answer's last_ts, and from its first page on knows
\* where to page back from.
PollAnswer(p) ==
    /\ EndOfFile(p, "since") /\ Answered(p)
    /\ LET page == Page(p)
       IN /\ cursor' = [cursor EXCEPT ![p] = IF page = <<>> THEN @ ELSE Last(page).ts]
          /\ low' = [low EXCEPT ![p] = IF cursor[p] = 0 /\ page # <<>> THEN Head(page).ts ELSE @]
    /\ UNCHANGED crossed

\* Nothing before a timestamp: there is no older page.
BackAnswer(p) ==
    /\ EndOfFile(p, "before") /\ Answered(p)
    /\ LET page == Page(p)
       IN low' = [low EXCEPT ![p] = IF page = <<>> THEN 0 ELSE Head(page).ts]
    /\ crossed' = IF Rewriting = {} THEN crossed ELSE crossed \cup {p}
    /\ UNCHANGED cursor

PollStep(p) == PollOpen(p) \/ BackOpen(p) \/ ReadLine(p) \/ PollAnswer(p) \/ BackAnswer(p)

-----------------------------------------------------------------------------
(* The server around them.                                                 *)

\* A restart ends the requests under way unanswered; their clients ask again.
PollRestart ==
    /\ Restart
    /\ asks' = [p \in Pollers |-> "no"]
    /\ pos' = [p \in Pollers |-> 0] /\ rows' = [p \in Pollers |-> <<>>]
    /\ UNCHANGED <<cursor, low, seen, crossed>>

\* A request that has read some lines goes on in the rewritten file.
PollTruncate(t) ==
    /\ DeleteTruncate(t)
    /\ crossed' = crossed \cup {p \in Pollers : pos[p] > 0}
    /\ UNCHANGED <<cursor, low, requestVars, seen>>

\* Appends, deletes, clock steps, restarts and the clients' requests.
FollowNext ==
    \/ \E t \in Threads :
         \/ (AppendStep(t) \/ DeleteRead(t) \/ DeleteRewrite(t)) /\ UNCHANGED pollVars
         \/ PollTruncate(t)
    \/ SetClock /\ UNCHANGED pollVars
    \/ \E p \in Pollers : PollStep(p)
    \/ PollRestart

FollowSpec == PollInit /\ [][FollowNext]_allVars

\* Requests under way are scheduled, and every client keeps polling and, while
\* there is an older page, paging back, and gets answers, however many of its
\* requests a restart cuts.
PollFairness ==
    /\ \A t \in Threads : WF_allVars(Continue(t) /\ FollowNext)
    /\ \A p \in Pollers :
         /\ []<><<PollAnswer(p)>>_allVars
         /\ []<>(low[p] = 0) \/ []<><<BackAnswer(p)>>_allVars

LiveSpec == FollowSpec /\ PollFairness

-----------------------------------------------------------------------------
(* Properties.                                                             *)

\* Cursors, read positions and rows stay in their types.
PollTypeOK ==
    /\ cursor \in [Pollers -> Nat] /\ low \in [Pollers -> Nat]
    /\ asks \in [Pollers -> {"no", "since", "before"}]
    /\ pos \in [Pollers -> Nat]
    /\ rows \in [Pollers -> Seq(Record)]
    /\ seen \in [Pollers -> SUBSET (1..MaxRecords)]
    /\ crossed \subseteq Pollers

\* Between its oldest page and its cursor a client has no gaps: whatever is in
\* the file there the client was sent, so nothing is hidden from its later
\* polls and pages.  Pages, concurrent appends, deletes between requests, clock
\* steps and restarts included, but for a client with a request that was under
\* way while a delete truncated and rewrote the file.
PollComplete ==
    \A p \in Pollers \ crossed : \A i \in 1..Len(file) :
        low[p] <= file[i].ts /\ file[i].ts <= cursor[p] => file[i].id \in seen[p]

\* A request never keeps a record that its client was sent before: together
\* with PollComplete, every record reaches a client exactly once.
NothingTwice == \A p \in Pollers \ crossed : IdSet(rows[p]) \cap seen[p] = {}

\* A message that was answered 200 reaches every client that keeps polling and
\* paging back, unless it is deleted first.
EventuallySeen ==
    \A p \in Pollers, id \in 1..MaxRecords :
        id \in acked ~> id \in seen[p] \cup deleted \/ p \in crossed
=============================================================================
