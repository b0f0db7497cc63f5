------------------------------ MODULE PollProofs ------------------------------
(***************************************************************************)
(* Proofs about PollClients: for any threads, clients, page sizes and      *)
(* records, on top of the invariant of the store (MessageLogProofs).       *)
(***************************************************************************)
EXTENDS PollClients, MessageLogProofs

-----------------------------------------------------------------------------
(* The inductive invariant.                                                *)

\* What a client was sent and what is on record s agree: it was sent all from
\* its oldest page up to its cursor, and nothing outside.
Exact(p, s) ==
    \A i \in 1..Len(s) :
        s[i].id \in seen[p] <=> low[p] <= s[i].ts /\ s[i].ts <= cursor[p]

\* The rows of a request are the lines it has read and wants, in order.
Filtered(p) ==
    /\ \A k \in 1..Len(rows[p]) : \E i \in 1..pos[p] :
         rows[p][k] = file[i] /\ Kept(p, file[i])
    /\ \A i \in 1..pos[p] : Kept(p, file[i]) =>
         \E k \in 1..Len(rows[p]) : rows[p][k] = file[i]
    /\ Ordered(rows[p])

\* A client no delete got in the way of.
ClientInv(p) ==
    /\ pos[p] <= Len(file) /\ Filtered(p)
    /\ low[p] <= cursor[p] /\ cursor[p] <= HighTs
    /\ Exact(p, file)
    /\ \A t \in Rewriting : Exact(p, lines[t])
    /\ \A t \in Threads : pc[t] = "write" => rec[t].id \notin seen[p]
    /\ \A id \in seen[p] : id < nextId

\* Any client: a request starts from nothing, and its rows have known ids.
RequestInv(p) ==
    /\ asks[p] = "no" => pos[p] = 0 /\ rows[p] = <<>>
    /\ \A k \in 1..Len(rows[p]) : rows[p][k].id \in 1..MaxRecords

FollowInv ==
    /\ ServerInv /\ PollTypeOK /\ nextId <= MaxRecords + 1
    /\ \A p \in Pollers : RequestInv(p)
    /\ \A p \in Pollers \ crossed : ClientInv(p)

-----------------------------------------------------------------------------
(* What the server does to the log.                                        *)

LEMMA ServerSteps == FollowNext => [ServerNext]_vars
<1>1. ASSUME NEW t \in Threads,
             \/ (AppendStep(t) \/ DeleteRead(t) \/ DeleteRewrite(t)) /\ UNCHANGED pollVars
             \/ PollTruncate(t)
      PROVE  ServerNext
  BY <1>1 DEF ServerNext, DeleteStep, PollTruncate
<1>2. SetClock /\ UNCHANGED pollVars => ServerNext
  BY DEF ServerNext
<1>3. ASSUME NEW p \in Pollers, PollStep(p) PROVE UNCHANGED vars
  BY <1>3 DEF PollStep, PollOpen, BackOpen, Open, ReadLine, PollAnswer, BackAnswer, Answered
<1>4. PollRestart => ServerNext
  BY DEF PollRestart, ServerNext
<1> QED
  BY <1>1, <1>2, <1>3, <1>4 DEF FollowNext

\* What the invariant of the store says that is needed here.
LEMMA StoreFacts ==
    ASSUME ServerInv
    PROVE  /\ file \in Seq(Record) /\ UniqueIds(file) /\ OldIds(file) /\ Ordered(file)
           /\ UpTo(file, HighTs) /\ HighTs \in Nat /\ nextId \in Nat \ {0}
           /\ \A t \in Threads : lines[t] \in Seq(Record)
           /\ Rewriting # {} => file = <<>>
  BY DEF ServerInv, LogInv, TypeOK, FileClean, FileInOrder, HighTs, RewriteEmpty, Rewriting

\* Steps that leave the log as it is, or as a delete holds it.
Quiet ==
    /\ UNCHANGED <<file, HighTs>> /\ nextId' >= nextId
    /\ Rewriting' = Rewriting /\ \A t \in Rewriting : lines'[t] = lines[t]

LEMMA QuietSteps ==
    ASSUME ServerInv,
           \/ \E t \in Threads : StartAppend(t) \/ AppendSave(t) \/ DeleteRead(t)
           \/ SetClock \/ Restart \/ UNCHANGED vars
    PROVE  Quiet
<1>1. TypeOK /\ MutualExclusion /\ LogInv /\ TsInv
  BY DEF ServerInv, LogInv, TsInv
<1>2. HighTs' = HighTs
  BY <1>1, RefineStutter
<1>3. CASE SetClock \/ Restart \/ UNCHANGED vars
  BY <1>1, <1>2, <1>3 DEF SetClock, Restart, vars, Quiet, Rewriting, TypeOK
<1>4. ASSUME NEW t \in Threads, StartAppend(t) \/ AppendSave(t) \/ DeleteRead(t)
      PROVE  Quiet
  <2>1. pc[t] # "rewrite" /\ pc' \in [Threads -> Steps] /\ pc'[t] # "rewrite"
        /\ \A u \in Threads : u # t => pc'[u] = pc[u]
    BY <1>1, <1>4 DEF StartAppend, AppendSave, DeleteRead, TypeOK, Steps
  <2>2. file' = file /\ nextId' >= nextId /\ \A u \in Threads : u # t => lines'[u] = lines[u]
    BY <1>1, <1>4 DEF StartAppend, AppendSave, DeleteRead, TypeOK
  <2> QED
    BY <1>2, <2>1, <2>2 DEF Quiet, Rewriting
<1> QED
  BY <1>3, <1>4

\* Ids that are being written were never sent.
LEMMA WriteUnsent ==
    ASSUME ServerInv, NEW p, \A t \in Threads : pc[t] = "write" => rec[t].id \notin seen[p],
           \A id \in seen[p] : id < nextId,
           [ServerNext]_vars, seen'[p] = seen[p], nextId' >= nextId
    PROVE  /\ \A t \in Threads : pc'[t] = "write" => rec'[t].id \notin seen[p]
           /\ seen[p] \subseteq Nat => \A id \in seen[p] : id < nextId'
<1>1. TypeOK
  BY DEF ServerInv, LogInv
<1>2. nextId \notin seen[p]
  BY <1>1 DEF TypeOK
<1>3. ASSUME NEW t \in Threads, StartAppend(t), NEW u \in Threads, pc'[u] = "write"
      PROVE  rec'[u].id \notin seen[p]
  <2>1. CASE u = t
    <3>1. rec'[t].id = nextId
      BY <1>1, <1>3 DEF StartAppend, TypeOK
    <3> QED
      BY <1>2, <2>1, <3>1
  <2>2. CASE u # t
    BY <1>1, <1>3, <2>2 DEF StartAppend, TypeOK
  <2> QED
    BY <2>1, <2>2
<1>4. ASSUME NEW t \in Threads, AppendWrite(t) \/ AppendSave(t) \/ DeleteStep(t),
             NEW u \in Threads, pc'[u] = "write"
      PROVE  rec'[u].id \notin seen[p]
  BY <1>1, <1>4 DEF AppendWrite, AppendSave, DeleteStep, DeleteRead, DeleteTruncate,
                    DeleteRewrite, TypeOK
<1>5. ASSUME SaveState \/ SetClock \/ Restart \/ UNCHANGED vars
      PROVE  \A u \in Threads : pc'[u] = "write" => rec'[u].id \notin seen[p]
  BY <1>5 DEF SaveState, SetClock, Restart, vars
<1>6. \A t \in Threads : pc'[t] = "write" => rec'[t].id \notin seen[p]
  BY <1>3, <1>4, <1>5 DEF ServerNext, AppendStep
<1>7. seen[p] \subseteq Nat => \A id \in seen[p] : id < nextId'
  <2>1. nextId \in Nat /\ nextId' \in Nat
    <3>1. TypeOK'
      BY ServerInvStep DEF ServerInv, LogInv
    <3> QED
      BY <1>1, <3>1 DEF TypeOK
  <2> QED
    BY <2>1
<1> QED
  BY <1>6, <1>7

\* Ids are given out up to the bound.
LEMMA IdBound ==
    ASSUME ServerInv, nextId <= MaxRecords + 1, [ServerNext]_vars
    PROVE  nextId' <= MaxRecords + 1 /\ nextId' >= nextId
<1>1. nextId \in Nat
  BY StoreFacts
<1>2. nextId' = nextId \/ (nextId <= MaxRecords /\ nextId' = nextId + 1)
  BY DEF ServerNext, AppendStep, StartAppend, AppendWrite, AppendSave, DeleteStep, DeleteRead,
         DeleteTruncate, DeleteRewrite, SaveState, SetClock, Restart, vars
<1> QED
  BY <1>1, <1>2, BoundsAssumption

-----------------------------------------------------------------------------
(* Steps of the server, as a client sees them.                             *)

\* A request whose lines stay where they are.
LEMMA SameRequest ==
    ASSUME NEW p, Filtered(p), asks'[p] = asks[p], cursor'[p] = cursor[p], low'[p] = low[p],
           pos'[p] = pos[p], rows'[p] = rows[p], \A i \in 1..pos[p] : file'[i] = file[i]
    PROVE  Filtered(p)'
<1>1. ASSUME NEW i \in 1..pos[p]
      PROVE  Kept(p, file[i])' <=> Kept(p, file[i])
  <2>1. file'[i] = file[i]
    OBVIOUS
  <2> QED
    BY <2>1 DEF Kept
<1>2. ASSUME NEW k \in 1..Len(rows'[p])
      PROVE  \E i \in 1..pos'[p] : rows'[p][k] = file'[i] /\ Kept(p, file[i])'
  <2>1. PICK i \in 1..pos[p] : rows[p][k] = file[i] /\ Kept(p, file[i])
    BY DEF Filtered
  <2>2. i \in 1..pos'[p] /\ rows'[p][k] = file'[i]
    BY <2>1
  <2> QED
    BY <1>1, <2>1, <2>2
<1>3. ASSUME NEW i \in 1..pos'[p], Kept(p, file[i])'
      PROVE  \E k \in 1..Len(rows'[p]) : rows'[p][k] = file'[i]
  <2>1. PICK k \in 1..Len(rows[p]) : rows[p][k] = file[i]
    BY <1>1, <1>3 DEF Filtered
  <2> QED
    BY <2>1
<1>4. Ordered(rows[p])'
  BY DEF Filtered, Ordered
<1> QED
  BY <1>2, <1>3, <1>4, Zenon DEF Filtered

\* A client that waits, or whose request was cut, sees what it saw.
LEMMA ClientQuiet ==
    ASSUME FollowInv, NEW p \in Pollers \ crossed, Quiet, [ServerNext]_vars,
           UNCHANGED <<cursor, low, seen>>,
           \/ UNCHANGED <<asks, pos, rows>>
           \/ pos'[p] = 0 /\ rows'[p] = <<>>
    PROVE  ClientInv(p)'
<1> USE DEF FollowInv
<1>1. ClientInv(p) /\ file' = file /\ HighTs' = HighTs
  BY DEF Quiet
<1>2. Filtered(p)' /\ pos'[p] <= Len(file)'
  <2>1. CASE UNCHANGED <<asks, pos, rows>>
    <3>1. Filtered(p) /\ pos[p] <= Len(file)
      BY <1>1 DEF ClientInv
    <3> QED
      BY <1>1, <2>1, <3>1, SameRequest
  <2>2. CASE pos'[p] = 0 /\ rows'[p] = <<>>
    <3>1. Len(file) \in Nat
      BY StoreFacts
    <3> QED
      BY <1>1, <2>2, <3>1 DEF Filtered, Ordered
  <2> QED
    BY <2>1, <2>2
<1>3. Exact(p, file)' /\ \A t \in Rewriting' : Exact(p, lines[t])'
  BY <1>1 DEF Quiet, ClientInv, Exact
<1>4. /\ \A t \in Threads : pc'[t] = "write" => rec'[t].id \notin seen[p]
      /\ \A id \in seen[p] : id < nextId'
  <2>1. seen[p] \subseteq Nat
    BY DEF PollTypeOK
  <2> QED
    BY <1>1, <2>1, WriteUnsent DEF ClientInv, Quiet
<1> QED
  BY <1>1, <1>2, <1>3, <1>4 DEF ClientInv

\* A new line is past every cursor and was never sent.
LEMMA ClientWrite ==
    ASSUME FollowInv, NEW p \in Pollers \ crossed, NEW t \in Threads, AppendWrite(t),
           UNCHANGED pollVars
    PROVE  ClientInv(p)'
<1> USE DEF FollowInv
<1>1. ClientInv(p) /\ LogInv /\ TsInv /\ TypeOK /\ MutualExclusion
  BY DEF ServerInv, LogInv, TsInv
<1>2. /\ file' = Append(file, rec[t]) /\ pc[t] = "write" /\ UNCHANGED <<nextId, rec>>
      /\ pc' = [pc EXCEPT ![t] = "save"]
      /\ UNCHANGED <<cursor, low, asks, pos, rows, seen>>
  BY DEF AppendWrite, pollVars, requestVars
<1>3. rec[t] \in Record /\ file \in Seq(Record) /\ HighTs \in Nat
  BY <1>1, <1>2, StoreFacts DEF LogInv, WriteFresh
<1>4. HighTs' = rec[t].ts /\ HighTs < rec[t].ts
  BY <1>1, TsAppendWrite
<1>5. /\ Len(file') = Len(file) + 1 /\ Len(file) \in Nat
      /\ \A i \in 1..Len(file) : file'[i] = file[i]
      /\ file'[Len(file) + 1] = rec[t]
  BY <1>2, <1>3
<1>6. cursor[p] \in Nat /\ low[p] \in Nat /\ pos[p] \in Nat /\ rec[t].ts \in Nat
  BY <1>3 DEF PollTypeOK, Record
<1>7. Filtered(p)' /\ pos'[p] <= Len(file')
  <2>1. Filtered(p) /\ pos[p] <= Len(file)
    BY <1>1 DEF ClientInv
  <2>2. 1..pos[p] \subseteq 1..Len(file) /\ pos[p] <= Len(file')
    BY <1>5, <1>6, <2>1
  <2> QED
    BY <1>2, <1>5, <2>1, <2>2, SameRequest
<1>8. Exact(p, file)'
  <2>1. cursor[p] < rec[t].ts /\ rec[t].id \notin seen[p]
    BY <1>1, <1>2, <1>3, <1>4, <1>6 DEF ClientInv
  <2>2. \A i \in 1..Len(file) : /\ file'[i].id \in seen[p] <=>
                                     low[p] <= file'[i].ts /\ file'[i].ts <= cursor[p]
    BY <1>1, <1>5 DEF ClientInv, Exact
  <2>3. ~(rec[t].ts <= cursor[p])
    BY <1>6, <2>1
  <2>4. \A i \in 1..Len(file') : i \in 1..Len(file) \/ i = Len(file) + 1
    BY <1>5
  <2> QED
    BY <1>2, <1>5, <2>1, <2>2, <2>3, <2>4 DEF Exact
<1>9. Rewriting' = {}
  <2>1. Rewriting = {} /\ pc[t] \in Holding
    BY <1>1, <1>2, HolderAlone DEF Holding
  <2> QED
    BY <1>1, <1>2, <2>1 DEF Rewriting, TypeOK
<1>10. \A u \in Threads : pc'[u] = "write" => rec'[u].id \notin seen[p]
  BY <1>1, <1>2 DEF ClientInv, TypeOK
<1>11. cursor[p] <= HighTs'
  BY <1>1, <1>3, <1>4, <1>6 DEF ClientInv
<1> QED
  BY <1>1, <1>2, <1>7, <1>8, <1>9, <1>10, <1>11 DEF ClientInv

\* A truncation gets in the way of requests that have read; to others the
\* lines that the delete holds are the log.
LEMMA ClientTruncate ==
    ASSUME FollowInv, NEW t \in Threads, PollTruncate(t), NEW p \in Pollers \ crossed'
    PROVE  ClientInv(p)'
<1> USE DEF FollowInv
<1>1. LogInv /\ TsInv /\ TypeOK /\ MutualExclusion
  BY DEF ServerInv, LogInv, TsInv
<1>2. /\ pc[t] = "truncate" /\ file' = <<>> /\ pc' = [pc EXCEPT ![t] = "rewrite"]
      /\ UNCHANGED <<nextId, rec, lines, cursor, low, asks, pos, rows, seen>>
      /\ crossed' = crossed \cup {q \in Pollers : pos[q] > 0}
  BY DEF PollTruncate, DeleteTruncate, requestVars
<1>3. p \notin crossed /\ pos[p] = 0 /\ ClientInv(p)
  BY <1>2 DEF PollTypeOK
<1>4. HighTs' = HighTs
  BY <1>1, TsDeleteTruncate DEF PollTruncate
<1>5. Rewriting' = {t}
  <2>1. Rewriting = {} /\ pc[t] \in Holding
    BY <1>1, <1>2, HolderAlone DEF Holding
  <2> QED
    BY <1>1, <1>2, <2>1 DEF Rewriting, TypeOK
<1>6. Exact(p, lines[t])
  <2>1. PICK i \in 1..Len(file) : lines[t] = RemoveAt(file, i)
    BY <1>1, <1>2 DEF TsInv, LinesInOrder
  <2>2. file \in Seq(Record)
    BY <1>1 DEF TypeOK
  <2>3. /\ Len(lines[t]) = Len(file) - 1 /\ Len(file) \in Nat
        /\ \A j \in 1..Len(file) - 1 : lines[t][j] = IF j < i THEN file[j] ELSE file[j + 1]
    BY <2>1, <2>2, RemoveAtElements
  <2>4. \A j \in 1..Len(lines[t]) : \E k \in 1..Len(file) : lines[t][j] = file[k]
    <3> SUFFICES ASSUME NEW j \in 1..Len(lines[t])
                 PROVE  \E k \in 1..Len(file) : lines[t][j] = file[k]
      OBVIOUS
    <3>1. j \in 1..Len(file) /\ j + 1 \in 1..Len(file) /\ j \in 1..Len(file) - 1
      BY <2>3
    <3> QED
      BY <2>3, <3>1
  <2>5. Exact(p, file)
    BY <1>3 DEF ClientInv
  <2> SUFFICES ASSUME NEW j \in 1..Len(lines[t])
               PROVE  lines[t][j].id \in seen[p] <=>
                        low[p] <= lines[t][j].ts /\ lines[t][j].ts <= cursor[p]
    BY DEF Exact
  <2>6. PICK k \in 1..Len(file) : lines[t][j] = file[k]
    BY <2>4
  <2> QED
    BY <2>5, <2>6 DEF Exact
<1>7. Exact(p, file)' /\ \A u \in Rewriting' : Exact(p, lines[u])'
  BY <1>2, <1>5, <1>6 DEF Exact
<1>8. Filtered(p)' /\ pos'[p] <= Len(file')
  <2>1. rows[p] \in Seq(Record) /\ Len(rows[p]) \in Nat /\ pos'[p] = 0 /\ rows'[p] = rows[p]
    BY <1>2, <1>3 DEF PollTypeOK
  <2>2. ~ \E k \in 1..Len(rows[p]) : TRUE
    BY <1>3 DEF ClientInv, Filtered
  <2> QED
    BY <1>2, <2>1, <2>2 DEF Filtered, Ordered
<1>9. \A u \in Threads : pc'[u] = "write" => rec'[u].id \notin seen[p]
  BY <1>1, <1>2, <1>3 DEF ClientInv, TypeOK
<1> QED
  BY <1>2, <1>3, <1>4, <1>7, <1>8, <1>9 DEF ClientInv

\* The lines come back.
LEMMA ClientRewrite ==
    ASSUME FollowInv, NEW t \in Threads, DeleteRewrite(t), UNCHANGED pollVars,
           NEW p \in Pollers \ crossed
    PROVE  ClientInv(p)'
<1> USE DEF FollowInv
<1>1. LogInv /\ TsInv /\ TypeOK /\ MutualExclusion /\ ClientInv(p)
  BY DEF ServerInv, LogInv, TsInv
<1>2. /\ pc[t] = "rewrite" /\ pc' = [pc EXCEPT ![t] = "idle"]
      /\ UNCHANGED <<nextId, rec, cursor, low, asks, pos, rows, seen>>
  BY DEF DeleteRewrite, pollVars, requestVars
<1>3. HighTs' = HighTs /\ file' = lines[t]
  BY <1>1, TsDeleteRewrite
<1>4. Rewriting = {t}
  BY <1>1, <1>2, HolderAlone DEF Holding
<1>5. Rewriting' = {}
  BY <1>1, <1>2, <1>4 DEF Rewriting, TypeOK
<1>6. pos[p] = 0
  <2>1. file = <<>> /\ pos[p] \in Nat
    BY <1>4, StoreFacts DEF PollTypeOK
  <2> QED
    BY <1>1, <2>1 DEF ClientInv
<1>7. Exact(p, file)'
  BY <1>1, <1>2, <1>3, <1>4 DEF ClientInv, Exact
<1>8. Filtered(p)' /\ pos'[p] <= Len(file')
  <2>1. rows[p] \in Seq(Record) /\ Len(rows[p]) \in Nat /\ pos'[p] = 0 /\ rows'[p] = rows[p]
    BY <1>2, <1>6 DEF PollTypeOK
  <2>2. ~ \E k \in 1..Len(rows[p]) : TRUE
    BY <1>1, <1>6 DEF ClientInv, Filtered
  <2>3. Len(file') \in Nat
    BY <1>3, StoreFacts
  <2> QED
    BY <2>1, <2>2, <2>3 DEF Filtered, Ordered
<1>9. \A u \in Threads : pc'[u] = "write" => rec'[u].id \notin seen[p]
  BY <1>1, <1>2 DEF ClientInv, TypeOK
<1> QED
  BY <1>1, <1>2, <1>3, <1>5, <1>7, <1>8, <1>9 DEF ClientInv

-----------------------------------------------------------------------------
(* Requests.                                                               *)

\* A line is read.
LEMMA ReadStep ==
    ASSUME FollowInv, NEW p \in Pollers, ReadLine(p)
    PROVE  PollTypeOK' /\ RequestInv(p)' /\ (p \notin crossed => ClientInv(p)')
<1> USE DEF FollowInv
<1> DEFINE line == file[pos[p] + 1]
<1>1. /\ asks[p] # "no" /\ pos[p] < Len(file)
      /\ rows' = [rows EXCEPT ![p] = IF Kept(p, line) THEN Append(@, line) ELSE @]
      /\ pos' = [pos EXCEPT ![p] = @ + 1]
      /\ UNCHANGED <<vars, cursor, low, asks, seen, crossed>>
  BY DEF ReadLine
<1>2. /\ file \in Seq(Record) /\ Len(file) \in Nat /\ OldIds(file) /\ Ordered(file)
      /\ nextId \in Nat
  BY StoreFacts
<1>3. pos[p] \in Nat /\ rows[p] \in Seq(Record) /\ Len(rows[p]) \in Nat /\ MaxRecords \in Nat
  BY BoundsAssumption DEF PollTypeOK
<1>4. pos[p] + 1 \in 1..Len(file) /\ line \in Record /\ line.id \in 1..MaxRecords
  <2>1. pos[p] + 1 \in 1..Len(file)
    BY <1>1, <1>2, <1>3
  <2>2. line \in Record /\ line.id < nextId
    BY <1>2, <2>1 DEF OldIds
  <2> QED
    BY <1>2, <1>3, <2>1, <2>2 DEF Record
<1> HIDE DEF line
<1>5. pos'[p] = pos[p] + 1 /\ rows'[p] = IF Kept(p, line) THEN Append(rows[p], line) ELSE rows[p]
  BY <1>1 DEF PollTypeOK
<1>6. Append(rows[p], line) \in Seq(Record)
      /\ Len(Append(rows[p], line)) = Len(rows[p]) + 1
      /\ (\A k \in 1..Len(rows[p]) : Append(rows[p], line)[k] = rows[p][k])
      /\ Append(rows[p], line)[Len(rows[p]) + 1] = line
  BY <1>3, <1>4
<1>7. PollTypeOK'
  BY <1>1, <1>3, <1>6 DEF PollTypeOK
<1>8. RequestInv(p)'
  <2>1. \A k \in 1..Len(rows[p]) : rows[p][k].id \in 1..MaxRecords
    BY DEF RequestInv
  <2>2. \A k \in 1..Len(rows'[p]) : k \in 1..Len(rows[p]) \/ k = Len(rows[p]) + 1
    BY <1>3, <1>5, <1>6
  <2> QED
    BY <1>1, <1>4, <1>5, <1>6, <2>1, <2>2 DEF RequestInv
<1>9. ASSUME p \notin crossed PROVE ClientInv(p)'
  <2>1. ClientInv(p) /\ UNCHANGED <<file, lines, pc, rec, nextId, HighTs, Rewriting>>
    BY <1>1, <1>9 DEF vars, HighTs, Writing, Rewriting
  <2>2. \A q : Kept(p, q)' <=> Kept(p, q)
    BY <1>1 DEF Kept
  <2>5. Filtered(p)' => ClientInv(p)'
    <3>1. pos'[p] <= Len(file')
      BY <1>2, <1>4, <1>5, <2>1
    <3>2. Exact(p, file)' /\ \A t \in Rewriting' : Exact(p, lines[t])'
      BY <1>1, <2>1 DEF ClientInv, Exact
    <3> QED
      BY <1>1, <2>1, <3>1, <3>2 DEF ClientInv
  <2>3. CASE Kept(p, line)
    <3>1. rows'[p] = Append(rows[p], line)
      BY <1>5, <2>3
    <3>2. \A k \in 1..Len(rows'[p]) : k \in 1..Len(rows[p]) \/ k = Len(rows[p]) + 1
      BY <1>3, <1>6, <3>1
    <3>3. \A i \in 1..pos'[p] : i \in 1..pos[p] \/ i = pos[p] + 1
      BY <1>3, <1>5
    <3>4. 1..pos[p] \subseteq 1..pos'[p] /\ pos[p] + 1 \in 1..pos'[p]
          /\ 1..Len(rows[p]) \subseteq 1..Len(rows'[p])
          /\ Len(rows[p]) + 1 \in 1..Len(rows'[p])
      BY <1>3, <1>5, <1>6, <3>1
    <3>5. \A k \in 1..Len(rows'[p]) : \E i \in 1..pos'[p] :
            rows'[p][k] = file[i] /\ Kept(p, file[i])
      <4> SUFFICES ASSUME NEW k \in 1..Len(rows'[p])
                   PROVE  \E i \in 1..pos'[p] : rows'[p][k] = file[i] /\ Kept(p, file[i])
        OBVIOUS
      <4>1. CASE k \in 1..Len(rows[p])
        <5>1. PICK i \in 1..pos[p] : rows[p][k] = file[i] /\ Kept(p, file[i])
          BY <2>1, <4>1 DEF ClientInv, Filtered
        <5>2. i \in 1..pos'[p] /\ rows'[p][k] = rows[p][k]
          BY <1>6, <3>1, <3>4, <4>1
        <5> QED
          BY <5>1, <5>2
      <4>2. CASE k = Len(rows[p]) + 1
        <5>1. rows'[p][k] = file[pos[p] + 1]
          BY <1>6, <3>1, <4>2 DEF line
        <5>2. Kept(p, file[pos[p] + 1])
          BY <2>3 DEF line
        <5> QED
          BY <3>4, <5>1, <5>2
      <4> QED
        BY <3>2, <4>1, <4>2
    <3>6. \A i \in 1..pos'[p] : Kept(p, file[i]) =>
            \E k \in 1..Len(rows'[p]) : rows'[p][k] = file[i]
      BY <1>6, <2>1, <3>1, <3>3, <3>4 DEF ClientInv, Filtered, line
    <3>7. Ordered(rows'[p])
      <4> SUFFICES ASSUME NEW i \in 1..Len(rows'[p]), NEW j \in 1..Len(rows'[p]), i < j
                   PROVE  rows'[p][i].ts < rows'[p][j].ts
        BY DEF Ordered
      <4>1. CASE j \in 1..Len(rows[p])
        <5>1. i \in 1..Len(rows[p])
          BY <4>1
        <5> QED
          BY <1>6, <2>1, <3>1, <4>1, <5>1 DEF ClientInv, Filtered, Ordered
      <4>2. CASE j = Len(rows[p]) + 1
        <5>1. i \in 1..Len(rows[p])
          BY <1>3, <4>2
        <5>2. PICK n \in 1..pos[p] : rows[p][i] = file[n]
          BY <2>1, <5>1 DEF ClientInv, Filtered
        <5>3. n \in 1..Len(file) /\ n < pos[p] + 1
          BY <1>2, <1>3, <1>4
        <5> QED
          BY <1>2, <1>4, <1>6, <3>1, <4>2, <5>1, <5>2, <5>3 DEF Ordered, line
      <4> QED
        BY <3>2, <4>1, <4>2
    <3>8. Filtered(p)'
      BY <2>1, <2>2, <3>5, <3>6, <3>7 DEF Filtered, Ordered
    <3> QED
      BY <2>5, <3>8
  <2>4. CASE ~Kept(p, line)
    <3>1. rows'[p] = rows[p]
      BY <1>5, <2>4
    <3>2. \A i \in 1..pos'[p] : i \in 1..pos[p] \/ i = pos[p] + 1
      BY <1>3, <1>5
    <3>3. 1..pos[p] \subseteq 1..pos'[p]
      BY <1>3, <1>5
    <3>4. Filtered(p)
      BY <2>1 DEF ClientInv
    <3>5. \A k \in 1..Len(rows'[p]) : \E i \in 1..pos'[p] :
            rows'[p][k] = file[i] /\ Kept(p, file[i])
      <4> SUFFICES ASSUME NEW k \in 1..Len(rows[p])
                   PROVE  \E i \in 1..pos'[p] : rows[p][k] = file[i] /\ Kept(p, file[i])
        BY <3>1
      <4>1. PICK i \in 1..pos[p] : rows[p][k] = file[i] /\ Kept(p, file[i])
        BY <3>4 DEF Filtered
      <4> QED
        BY <3>3, <4>1
    <3>6. \A i \in 1..pos'[p] : Kept(p, file[i]) =>
            \E k \in 1..Len(rows'[p]) : rows'[p][k] = file[i]
      <4> SUFFICES ASSUME NEW i \in 1..pos'[p], Kept(p, file[i])
                   PROVE  \E k \in 1..Len(rows[p]) : rows[p][k] = file[i]
        BY <3>1
      <4>1. i \in 1..pos[p]
        BY <2>4, <3>2 DEF line
      <4> QED
        BY <3>4, <4>1 DEF Filtered
    <3>7. Ordered(rows'[p])
      BY <3>1, <3>4 DEF Filtered
    <3>8. Filtered(p)'
      BY <2>1, <2>2, <3>5, <3>6, <3>7 DEF Filtered, Ordered
    <3> QED
      BY <2>5, <3>8
  <2> QED
    BY <2>3, <2>4
<1> QED
  BY <1>7, <1>8, <1>9

\* A page is a stretch of the rows: from the first of them when the request
\* has a cursor to go on from, and else to the last.
LEMMA PageShape ==
    ASSUME NEW p, rows[p] \in Seq(Record), rows[p] # <<>>
    PROVE  \E a, b \in 1..Len(rows[p]) :
             /\ a <= b /\ Page(p) # <<>> /\ Page(p) \in Seq(Record)
             /\ Head(Page(p)) = rows[p][a] /\ Last(Page(p)) = rows[p][b]
             /\ IdSet(Page(p)) = {rows[p][k].id : k \in a..b}
             /\ IF asks[p] = "since" /\ cursor[p] # 0 THEN a = 1 ELSE b = Len(rows[p])
<1> DEFINE s == rows[p]
<1>1. s \in Seq(Record) /\ Len(s) \in Nat /\ Len(s) > 0
  OBVIOUS
<1>2. Limit \in Nat /\ Limit > 0
  BY LimitAssumption
<1>3. ASSUME NEW a \in 1..Len(s), NEW b \in 1..Len(s), a <= b, Page(p) = SubSeq(s, a, b)
      PROVE  /\ Page(p) # <<>> /\ Page(p) \in Seq(Record)
             /\ Head(Page(p)) = s[a] /\ Last(Page(p)) = s[b]
             /\ IdSet(Page(p)) = {s[k].id : k \in a..b}
  <2> DEFINE q == SubSeq(s, a, b)
  <2> HIDE DEF s
  <2>1. /\ q \in Seq(Record) /\ Len(q) = b - a + 1
        /\ \A j \in 1..b - a + 1 : q[j] = s[a + j - 1]
    BY <1>1, <1>3
  <2>2. Len(q) > 0 /\ q[1] = s[a] /\ q[Len(q)] = s[b]
    <3>1. a \in Int /\ b \in Int /\ 1 \in 1..b - a + 1 /\ b - a + 1 \in 1..b - a + 1
          /\ a + 1 - 1 = a /\ a + (b - a + 1) - 1 = b
      BY <1>1, <1>3
    <3>2. q[1] = s[a + 1 - 1] /\ q[b - a + 1] = s[a + (b - a + 1) - 1]
      BY <2>1, <3>1
    <3> HIDE DEF q
    <3> QED
      BY <2>1, <3>1, <3>2
  <2>3. q # <<>> /\ Head(q) = s[a] /\ Last(q) = s[b]
    BY <2>1, <2>2 DEF Last
  <2>4. IdSet(q) = {s[k].id : k \in a..b}
    <3>1. \A j \in 1..Len(q) : a + j - 1 \in a..b
      BY <1>1, <2>1
    <3>2. \A k \in a..b : k - a + 1 \in 1..Len(q) /\ a + (k - a + 1) - 1 = k
      BY <1>1, <2>1
    <3>3. \A k \in a..b : q[k - a + 1] = s[k]
      BY <2>1, <3>2
    <3> HIDE DEF q
    <3>4. \A j \in 1..Len(q) : q[j].id \in {s[k].id : k \in a..b}
      BY <2>1, <3>1
    <3>5. \A k \in a..b : s[k].id \in {q[j].id : j \in 1..Len(q)}
      BY <3>2, <3>3
    <3> QED
      BY <3>4, <3>5 DEF IdSet
  <2> QED
    BY <1>3, <2>1, <2>3, <2>4
<1>4. CASE Len(s) <= Limit
  <2>1. Page(p) = SubSeq(s, 1, Len(s))
    BY <1>1, <1>4 DEF Page
  <2>2. 1 \in 1..Len(s) /\ Len(s) \in 1..Len(s) /\ 1 <= Len(s)
    BY <1>1
  <2> QED
    BY <1>3, <2>1, <2>2
<1>5. CASE Len(s) > Limit /\ asks[p] = "since" /\ cursor[p] # 0
  <2>1. Page(p) = SubSeq(s, 1, Limit)
    BY <1>1, <1>2, <1>5 DEF Page, FirstRows
  <2>2. 1 \in 1..Len(s) /\ Limit \in 1..Len(s) /\ 1 <= Limit
    BY <1>1, <1>2, <1>5
  <2> QED
    BY <1>3, <1>5, <2>1, <2>2
<1>6. CASE Len(s) > Limit /\ ~(asks[p] = "since" /\ cursor[p] # 0)
  <2>1. Page(p) = SubSeq(s, Len(s) - Limit + 1, Len(s))
    <3>1. ~(Len(rows[p]) <= Limit)
      BY <1>1, <1>2, <1>6
    <3> QED
      BY <1>6, <3>1 DEF Page, LastRows
  <2>2. Len(s) - Limit + 1 \in 1..Len(s) /\ Len(s) \in 1..Len(s) /\ Len(s) - Limit + 1 <= Len(s)
    BY <1>1, <1>2, <1>6
  <2> QED
    BY <1>3, <1>6, <2>1, <2>2
<1>7. Len(s) <= Limit \/ Len(s) > Limit
  BY <1>1, <1>2
<1> HIDE DEF s
<1> QED
  BY <1>4, <1>5, <1>6, <1>7

\* Without rows there is an empty page.
LEMMA PageEmpty ==
    ASSUME NEW p, rows[p] = <<>>
    PROVE  Page(p) = <<>> /\ IdSet(Page(p)) = {}
<1>1. Len(<<>>) <= Limit
  BY LimitAssumption
<1>2. Page(p) = <<>>
  BY <1>1 DEF Page
<1> QED
  BY <1>2, EmptyFile

\* What a client has after an answer.
LEMMA AnswerTypes ==
    ASSUME FollowInv, NEW p \in Pollers, PollAnswer(p) \/ BackAnswer(p)
    PROVE  PollTypeOK' /\ RequestInv(p)'
<1> USE DEF FollowInv
<1>1. /\ seen' = [seen EXCEPT ![p] = @ \cup IdSet(Page(p))]
      /\ asks' = [asks EXCEPT ![p] = "no"]
      /\ pos' = [pos EXCEPT ![p] = 0] /\ rows' = [rows EXCEPT ![p] = <<>>]
  BY DEF PollAnswer, BackAnswer, Answered
<1>2. rows[p] \in Seq(Record) /\ \A k \in 1..Len(rows[p]) : rows[p][k].id \in 1..MaxRecords
  BY DEF PollTypeOK, RequestInv
<1>3. /\ IdSet(Page(p)) \subseteq 1..MaxRecords
      /\ Page(p) # <<>> => Head(Page(p)).ts \in Nat /\ Last(Page(p)).ts \in Nat
  <2>1. CASE rows[p] = <<>>
    BY <2>1, PageEmpty
  <2>2. CASE rows[p] # <<>>
    <3>1. PICK a \in 1..Len(rows[p]), b \in 1..Len(rows[p]) :
             /\ a <= b
             /\ Head(Page(p)) = rows[p][a] /\ Last(Page(p)) = rows[p][b]
             /\ IdSet(Page(p)) = {rows[p][k].id : k \in a..b}
      BY <1>2, <2>2, PageShape
    <3>2. a..b \subseteq 1..Len(rows[p])
      BY <1>2
    <3>3. rows[p][a] \in Record /\ rows[p][b] \in Record
      BY <1>2
    <3> QED
      BY <1>2, <3>1, <3>2, <3>3 DEF Record
  <2> QED
    BY <2>1, <2>2
<1>4. /\ \E n \in Nat : cursor' = [cursor EXCEPT ![p] = n]
      /\ \E n \in Nat : low' = [low EXCEPT ![p] = n]
  <2>1. cursor[p] \in Nat /\ low[p] \in Nat /\ cursor = [cursor EXCEPT ![p] = cursor[p]]
    BY DEF PollTypeOK
  <2>2. CASE PollAnswer(p)
    BY <1>3, <2>1, <2>2 DEF PollAnswer
  <2>3. CASE BackAnswer(p)
    BY <1>3, <2>1, <2>3 DEF BackAnswer
  <2> QED
    BY <2>2, <2>3
<1>5. crossed' \subseteq Pollers
  BY DEF PollAnswer, BackAnswer, PollTypeOK
<1>6. <<>> \in Seq(Record) /\ Len(<<>>) = 0
  OBVIOUS
<1>7. PollTypeOK'
  BY <1>1, <1>3, <1>4, <1>5, <1>6 DEF PollTypeOK
<1>8. RequestInv(p)'
  <2>1. asks'[p] = "no" /\ pos'[p] = 0 /\ rows'[p] = <<>>
    BY <1>1 DEF PollTypeOK
  <2> QED
    BY <2>1, <1>6 DEF RequestInv
<1> QED
  BY <1>7, <1>8

\* An answer that leaves the client with what is on record.
LEMMA AnswerKeeps ==
    ASSUME FollowInv, NEW p \in Pollers \ crossed, PollAnswer(p) \/ BackAnswer(p),
           low'[p] <= cursor'[p], cursor'[p] <= HighTs, Exact(p, file)',
           \A t \in Rewriting : Exact(p, lines[t])',
           IdSet(Page(p)) \subseteq IdSet(file)
    PROVE  ClientInv(p)'
<1> USE DEF FollowInv
<1>1. /\ UNCHANGED vars /\ seen' = [seen EXCEPT ![p] = @ \cup IdSet(Page(p))]
      /\ asks' = [asks EXCEPT ![p] = "no"]
      /\ pos' = [pos EXCEPT ![p] = 0] /\ rows' = [rows EXCEPT ![p] = <<>>]
  BY DEF PollAnswer, BackAnswer, Answered
<1>2. /\ pos'[p] = 0 /\ rows'[p] = <<>>
      /\ seen'[p] = seen[p] \cup IdSet(Page(p))
  BY <1>1 DEF PollTypeOK
<1>3. /\ ClientInv(p) /\ LogInv
      /\ UNCHANGED <<file, lines, pc, rec, nextId, HighTs, Rewriting>>
  BY <1>1 DEF vars, HighTs, Writing, Rewriting, ServerInv
<1>4. Filtered(p)' /\ pos'[p] <= Len(file')
  <2>1. Len(file) \in Nat
    BY StoreFacts
  <2> QED
    BY <1>2, <1>3, <2>1 DEF Filtered, Ordered
<1>5. \A id \in IdSet(file) : id < nextId
  BY <1>3 DEF LogInv, FileClean, OldIds, IdSet
<1>6. \A t \in Threads : pc[t] = "write" => rec[t].id \notin IdSet(file)
  BY <1>3 DEF LogInv, WriteFresh
<1> QED
  BY <1>2, <1>3, <1>4, <1>5, <1>6 DEF ClientInv

\* The request has read all there is: its rows are the lines that it wants.
LEMMA AllRead ==
    ASSUME FollowInv, NEW p \in Pollers \ crossed, pos[p] >= Len(file)
    PROVE  /\ rows[p] \in Seq(Record) /\ Ordered(rows[p]) /\ Len(rows[p]) \in Nat
           /\ \A k \in 1..Len(rows[p]) : \E i \in 1..Len(file) :
                rows[p][k] = file[i] /\ Kept(p, file[i])
           /\ \A i \in 1..Len(file) : Kept(p, file[i]) =>
                \E k \in 1..Len(rows[p]) : rows[p][k] = file[i]
<1>1. pos[p] = Len(file)
  <2>1. pos[p] <= Len(file) /\ pos[p] \in Nat /\ Len(file) \in Nat
    BY StoreFacts DEF FollowInv, ClientInv, PollTypeOK
  <2> QED
    BY <2>1
<1> QED
  BY <1>1 DEF FollowInv, ClientInv, Filtered, PollTypeOK

\* Which lines of the file are on the page: those between its ends.
LEMMA OnPage ==
    ASSUME FollowInv, NEW p \in Pollers \ crossed, pos[p] >= Len(file),
           NEW a \in 1..Len(rows[p]), NEW b \in 1..Len(rows[p]), a <= b,
           IdSet(Page(p)) = {rows[p][k].id : k \in a..b}
    PROVE  /\ IdSet(Page(p)) \subseteq IdSet(file)
           /\ \A i \in 1..Len(file) : file[i].id \in IdSet(Page(p)) <=>
                /\ Kept(p, file[i])
                /\ rows[p][a].ts <= file[i].ts /\ file[i].ts <= rows[p][b].ts
<1> DEFINE s == rows[p]
<1>1. /\ s \in Seq(Record) /\ Ordered(s) /\ Len(s) \in Nat
      /\ \A k \in 1..Len(s) : \E i \in 1..Len(file) : s[k] = file[i] /\ Kept(p, file[i])
      /\ \A i \in 1..Len(file) : Kept(p, file[i]) => \E k \in 1..Len(s) : s[k] = file[i]
  BY AllRead
<1>2. file \in Seq(Record) /\ UniqueIds(file) /\ Len(file) \in Nat
  BY StoreFacts DEF FollowInv
<1>3. a..b \subseteq 1..Len(s)
  BY <1>1
<1> HIDE DEF s
<1>4. \A k \in 1..Len(s) : s[k].ts \in Nat
  <2>1. \A k \in 1..Len(s) : s[k] \in Record
    BY <1>1
  <2> QED
    BY <2>1 DEF Record
<1>5. IdSet(Page(p)) \subseteq IdSet(file)
  <2> SUFFICES ASSUME NEW k \in a..b PROVE s[k].id \in IdSet(file)
    BY DEF s
  <2>1. PICK i \in 1..Len(file) : s[k] = file[i]
    BY <1>1, <1>3
  <2> QED
    BY <2>1 DEF IdSet
<1>6. ASSUME NEW i \in 1..Len(file), file[i].id \in IdSet(Page(p))
      PROVE  Kept(p, file[i]) /\ s[a].ts <= file[i].ts /\ file[i].ts <= s[b].ts
  <2>1. PICK k \in a..b : file[i].id = s[k].id
    BY <1>6 DEF s
  <2>2. PICK j \in 1..Len(file) : s[k] = file[j] /\ Kept(p, file[j])
    BY <1>1, <1>3, <2>1
  <2>3. i = j
    BY <1>2, <2>1, <2>2 DEF UniqueIds
  <2>4. s[a].ts <= s[k].ts /\ s[k].ts <= s[b].ts
    <3>1. a = k \/ a < k
      OBVIOUS
    <3>2. k = b \/ k < b
      OBVIOUS
    <3>3. a \in 1..Len(s) /\ b \in 1..Len(s) /\ k \in 1..Len(s)
      BY <1>3 DEF s
    <3>4. (a < k => s[a].ts < s[k].ts) /\ (k < b => s[k].ts < s[b].ts)
      BY <1>1, <3>3 DEF Ordered
    <3>5. s[a].ts \in Nat /\ s[k].ts \in Nat /\ s[b].ts \in Nat
      BY <1>4, <3>3
    <3>6. s[a].ts <= s[k].ts
      BY <3>1, <3>4, <3>5
    <3>7. s[k].ts <= s[b].ts
      BY <3>2, <3>4, <3>5
    <3> QED
      BY <3>6, <3>7
  <2> QED
    BY <2>2, <2>3, <2>4
<1>7. ASSUME NEW i \in 1..Len(file), Kept(p, file[i]),
             s[a].ts <= file[i].ts, file[i].ts <= s[b].ts
      PROVE  file[i].id \in IdSet(Page(p))
  <2>1. PICK k \in 1..Len(s) : s[k] = file[i]
    BY <1>1, <1>7
  <2>2. a \in 1..Len(s) /\ b \in 1..Len(s)
    BY DEF s
  <2>3. ~(k < a)
    <3>1. k < a => s[k].ts < s[a].ts
      BY <1>1, <2>2 DEF Ordered
    <3> QED
      BY <1>4, <1>7, <2>1, <2>2, <3>1
  <2>4. ~(b < k)
    <3>1. b < k => s[b].ts < s[k].ts
      BY <1>1, <2>2 DEF Ordered
    <3> QED
      BY <1>4, <1>7, <2>1, <2>2, <3>1
  <2>5. k \in a..b
    BY <1>1, <2>2, <2>3, <2>4
  <2> QED
    BY <2>1, <2>5 DEF s
<1> QED
  BY <1>5, <1>6, <1>7 DEF s

\* Lines and their timestamps, for the answers below.
LEMMA FileTimes ==
    ASSUME FollowInv, NEW p \in Pollers
    PROVE  /\ \A i \in 1..Len(file) : file[i].ts \in Nat \ {0} /\ file[i].ts <= HighTs
           /\ HighTs \in Nat /\ cursor[p] \in Nat /\ low[p] \in Nat
           /\ rows[p] \in Seq(Record)
           /\ \A i \in 1..Len(file) : file[i].id \in IdSet(file)
<1>1. file \in Seq(Record) /\ UpTo(file, HighTs) /\ HighTs \in Nat
  BY StoreFacts DEF FollowInv
<1>2. \A i \in 1..Len(file) : file[i] \in Record
  BY <1>1
<1> QED
  BY <1>1, <1>2 DEF UpTo, Record, FollowInv, PollTypeOK, IdSet

\* An answer without rows changes nothing, but for a client that learns that
\* there is no older page.
LEMMA AnswerEmpty ==
    ASSUME FollowInv, NEW p \in Pollers \ crossed', PollAnswer(p) \/ BackAnswer(p),
           rows[p] = <<>>
    PROVE  ClientInv(p)'
<1>1. p \notin crossed
  BY DEF PollAnswer, BackAnswer
<1>2. Page(p) = <<>> /\ IdSet(Page(p)) = {}
  BY PageEmpty
<1>3. /\ UNCHANGED vars /\ seen'[p] = seen[p] /\ cursor'[p] = cursor[p]
      /\ UNCHANGED <<file, lines, HighTs, Rewriting>>
  <2>1. UNCHANGED vars /\ seen' = [seen EXCEPT ![p] = @ \cup IdSet(Page(p))]
    BY DEF PollAnswer, BackAnswer, Answered
  <2>2. seen'[p] = seen[p]
    BY <1>2, <2>1 DEF FollowInv, PollTypeOK
  <2>3. cursor'[p] = cursor[p]
    <3>1. CASE PollAnswer(p)
      BY <1>2, <3>1 DEF PollAnswer, FollowInv, PollTypeOK
    <3>2. CASE BackAnswer(p)
      BY <3>2 DEF BackAnswer
    <3> QED
      BY <3>1, <3>2
  <2>4. UNCHANGED <<file, lines, HighTs, Rewriting>>
    BY <2>1 DEF vars, HighTs, Writing, Rewriting
  <2> QED
    BY <2>1, <2>2, <2>3, <2>4
<1>4. ClientInv(p)
  BY <1>1 DEF FollowInv
<1>5. /\ \A i \in 1..Len(file) : file[i].ts \in Nat \ {0}
      /\ HighTs \in Nat /\ cursor[p] \in Nat /\ low[p] \in Nat
  BY FileTimes
<1>6. CASE PollAnswer(p)
  <2>1. low'[p] = low[p]
    BY <1>2, <1>6 DEF PollAnswer, FollowInv, PollTypeOK
  <2>2. Exact(p, file)' /\ \A t \in Rewriting : Exact(p, lines[t])'
    BY <1>3, <1>4, <2>1 DEF ClientInv, Exact
  <2> QED
    BY <1>1, <1>2, <1>3, <1>4, <2>1, <2>2, AnswerKeeps DEF ClientInv
<1>7. CASE BackAnswer(p)
  <2>1. low'[p] = 0 /\ Rewriting = {} /\ asks[p] = "before" /\ pos[p] >= Len(file)
    BY <1>1, <1>2, <1>7 DEF BackAnswer, EndOfFile, FollowInv, PollTypeOK
  <2>2. \A i \in 1..Len(file) : ~(file[i].ts < low[p])
    <3>1. \A i \in 1..Len(file) : ~Kept(p, file[i])
      BY <1>1, <2>1, AllRead
    <3> QED
      BY <2>1, <3>1 DEF Kept
  <2>3. Exact(p, file)'
    <3> SUFFICES ASSUME NEW i \in 1..Len(file)
                 PROVE  file[i].id \in seen[p] <=> 0 <= file[i].ts /\ file[i].ts <= cursor[p]
      BY <1>3, <2>1 DEF Exact
    <3>1. file[i].id \in seen[p] <=> low[p] <= file[i].ts /\ file[i].ts <= cursor[p]
      BY <1>4 DEF ClientInv, Exact
    <3> QED
      BY <1>5, <2>2, <3>1
  <2> QED
    BY <1>1, <1>2, <1>3, <1>4, <1>5, <2>1, <2>3, AnswerKeeps DEF ClientInv
<1> QED
  BY <1>6, <1>7

\* A page of rows.
LEMMA AnswerPage ==
    ASSUME FollowInv, NEW p \in Pollers \ crossed', PollAnswer(p) \/ BackAnswer(p),
           rows[p] # <<>>
    PROVE  ClientInv(p)'
<1>1. p \notin crossed /\ pos[p] >= Len(file)
  BY DEF PollAnswer, BackAnswer, EndOfFile
<1>2. /\ \A i \in 1..Len(file) : file[i].ts \in Nat \ {0} /\ file[i].ts <= HighTs
      /\ HighTs \in Nat /\ cursor[p] \in Nat /\ low[p] \in Nat
      /\ rows[p] \in Seq(Record)
  BY FileTimes
<1>3. PICK a \in 1..Len(rows[p]), b \in 1..Len(rows[p]) :
         /\ a <= b /\ Page(p) # <<>>
         /\ Head(Page(p)) = rows[p][a] /\ Last(Page(p)) = rows[p][b]
         /\ IdSet(Page(p)) = {rows[p][k].id : k \in a..b}
         /\ IF asks[p] = "since" /\ cursor[p] # 0 THEN a = 1 ELSE b = Len(rows[p])
  BY <1>2, PageShape
<1> DEFINE first == rows[p][a].ts
           last == rows[p][b].ts
<1>4. /\ IdSet(Page(p)) \subseteq IdSet(file)
      /\ \A i \in 1..Len(file) : file[i].id \in IdSet(Page(p)) <=>
           Kept(p, file[i]) /\ first <= file[i].ts /\ file[i].ts <= last
  BY <1>1, <1>3, OnPage
<1>5. PICK i1 \in 1..Len(file), i2 \in 1..Len(file) :
         /\ rows[p][a] = file[i1] /\ Kept(p, file[i1])
         /\ rows[p][b] = file[i2] /\ Kept(p, file[i2])
  BY <1>1, <1>3, AllRead
<1>6. /\ first \in Nat \ {0} /\ last \in Nat \ {0} /\ last <= HighTs
      /\ Kept(p, rows[p][a]) /\ Kept(p, rows[p][b])
  BY <1>2, <1>5
<1>7. first <= last
  <2>1. a = b \/ a < b
    BY <1>3
  <2>2. Ordered(rows[p])
    BY <1>1, AllRead
  <2> QED
    BY <1>6, <2>1, <2>2 DEF Ordered
<1>8. /\ \A i \in 1..Len(file) : Kept(p, file[i]) /\ asks[p] = "since" /\ cursor[p] # 0 =>
           first <= file[i].ts
      /\ \A i \in 1..Len(file) : Kept(p, file[i]) /\ ~(asks[p] = "since" /\ cursor[p] # 0) =>
           file[i].ts <= last
  <2>1. /\ Ordered(rows[p]) /\ Len(rows[p]) \in Nat
        /\ \A i \in 1..Len(file) : Kept(p, file[i]) =>
             \E k \in 1..Len(rows[p]) : rows[p][k] = file[i]
    BY <1>1, AllRead
  <2>2. ASSUME NEW i \in 1..Len(file), Kept(p, file[i]), a = 1 PROVE first <= file[i].ts
    <3>1. PICK k \in 1..Len(rows[p]) : rows[p][k] = file[i]
      BY <2>1, <2>2
    <3>2. k = a \/ a < k
      BY <2>1, <2>2
    <3>3. a < k => first < file[i].ts
      BY <2>1, <3>1 DEF Ordered
    <3>4. k = a => first = file[i].ts
      BY <3>1
    <3>5. file[i].ts \in Nat /\ first \in Nat
      BY <1>2, <1>6
    <3> QED
      BY <3>2, <3>3, <3>4, <3>5
  <2>3. ASSUME NEW i \in 1..Len(file), Kept(p, file[i]), b = Len(rows[p])
        PROVE  file[i].ts <= last
    <3>1. PICK k \in 1..Len(rows[p]) : rows[p][k] = file[i]
      BY <2>1, <2>3
    <3>2. k = b \/ k < b
      BY <2>1, <2>3
    <3>3. k < b => file[i].ts < last
      BY <2>1, <3>1 DEF Ordered
    <3>4. k = b => file[i].ts = last
      BY <3>1
    <3>5. file[i].ts \in Nat /\ last \in Nat
      BY <1>2, <1>6
    <3> QED
      BY <3>2, <3>3, <3>4, <3>5
  <2> QED
    BY <1>3, <2>2, <2>3
<1>9. ClientInv(p) /\ \A i \in 1..Len(file) :
        file[i].id \in seen[p] <=> low[p] <= file[i].ts /\ file[i].ts <= cursor[p]
  BY <1>1 DEF FollowInv, ClientInv, Exact
<1>10. Rewriting = {}
  <2>1. Len(file) # 0
    BY <1>5
  <2> QED
    BY <2>1, StoreFacts DEF FollowInv
<1>11. UNCHANGED file /\ seen'[p] = seen[p] \cup IdSet(Page(p))
  BY DEF PollAnswer, BackAnswer, Answered, FollowInv, PollTypeOK, vars
<1>12. low[p] <= cursor[p] /\ cursor[p] <= HighTs
  BY <1>9 DEF ClientInv
<1> HIDE DEF first, last
<1>13. ASSUME low'[p] <= cursor'[p], cursor'[p] <= HighTs,
              \A i \in 1..Len(file) :
                file[i].id \in seen[p] \cup IdSet(Page(p)) <=>
                  low'[p] <= file[i].ts /\ file[i].ts <= cursor'[p]
       PROVE  ClientInv(p)'
  <2>1. Exact(p, file)'
    BY <1>11, <1>13 DEF Exact
  <2> QED
    BY <1>1, <1>4, <1>10, <1>13, <2>1, AnswerKeeps
<1>14. CASE PollAnswer(p) /\ cursor[p] # 0
  <2>1. asks[p] = "since" /\ cursor'[p] = last /\ low'[p] = low[p]
    BY <1>3, <1>14 DEF PollAnswer, EndOfFile, FollowInv, PollTypeOK, last
  <2>2. \A i \in 1..Len(file) : Kept(p, file[i]) <=> file[i].ts > cursor[p]
    BY <2>1 DEF Kept
  <2>3. last > cursor[p]
    BY <1>6, <2>1 DEF Kept, last
  <2>4. \A i \in 1..Len(file) : file[i].id \in seen[p] \cup IdSet(Page(p)) <=>
          low[p] <= file[i].ts /\ file[i].ts <= last
    <3> SUFFICES ASSUME NEW i \in 1..Len(file)
                 PROVE  file[i].id \in seen[p] \cup IdSet(Page(p)) <=>
                          low[p] <= file[i].ts /\ file[i].ts <= last
      OBVIOUS
    <3>1. file[i].id \in IdSet(Page(p)) <=> file[i].ts > cursor[p] /\ file[i].ts <= last
      BY <1>4, <1>8, <1>14, <2>1, <2>2
    <3>2. file[i].id \in seen[p] <=> low[p] <= file[i].ts /\ file[i].ts <= cursor[p]
      BY <1>9
    <3>3. file[i].ts \in Nat
      BY <1>2
    <3> QED
      BY <1>2, <1>6, <1>12, <2>3, <3>1, <3>2, <3>3
  <2> QED
    BY <1>2, <1>6, <1>12, <1>13, <2>1, <2>3, <2>4
<1>15. CASE PollAnswer(p) /\ cursor[p] = 0
  <2>1. asks[p] = "since" /\ cursor'[p] = last /\ low'[p] = first
    BY <1>3, <1>15 DEF PollAnswer, EndOfFile, FollowInv, PollTypeOK, first, last
  <2>2. \A i \in 1..Len(file) : Kept(p, file[i])
    BY <1>2, <1>15, <2>1 DEF Kept
  <2>3. \A i \in 1..Len(file) : file[i].id \notin seen[p]
    BY <1>2, <1>9, <1>15
  <2> QED
    BY <1>4, <1>6, <1>7, <1>13, <2>1, <2>2, <2>3
<1>16. CASE BackAnswer(p)
  <2>1. asks[p] = "before" /\ cursor'[p] = cursor[p] /\ low'[p] = first
    BY <1>3, <1>16 DEF BackAnswer, EndOfFile, FollowInv, PollTypeOK, first
  <2>2. \A i \in 1..Len(file) : Kept(p, file[i]) <=> file[i].ts < low[p]
    BY <2>1 DEF Kept
  <2>3. first < low[p]
    BY <1>6, <2>1 DEF Kept, first
  <2>4. \A i \in 1..Len(file) : file[i].id \in seen[p] \cup IdSet(Page(p)) <=>
          first <= file[i].ts /\ file[i].ts <= cursor[p]
    <3> SUFFICES ASSUME NEW i \in 1..Len(file)
                 PROVE  file[i].id \in seen[p] \cup IdSet(Page(p)) <=>
                          first <= file[i].ts /\ file[i].ts <= cursor[p]
      OBVIOUS
    <3>1. file[i].id \in IdSet(Page(p)) <=> file[i].ts < low[p] /\ first <= file[i].ts
      BY <1>4, <1>8, <2>1, <2>2
    <3>2. file[i].id \in seen[p] <=> low[p] <= file[i].ts /\ file[i].ts <= cursor[p]
      BY <1>9
    <3>3. file[i].ts \in Nat
      BY <1>2
    <3> QED
      BY <1>2, <1>6, <1>12, <2>3, <3>1, <3>2, <3>3
  <2> QED
    BY <1>2, <1>6, <1>12, <1>13, <2>1, <2>3, <2>4
<1> QED
  BY <1>14, <1>15, <1>16

-----------------------------------------------------------------------------
(* The invariant.                                                          *)

\* The request of one client is nothing to the others.
LEMMA OthersKeep ==
    ASSUME FollowInv, NEW p \in Pollers, PollStep(p), NEW q \in Pollers, q # p
    PROVE  RequestInv(q)' /\ (q \notin crossed => ClientInv(q)')
<1>1. /\ UNCHANGED vars
      /\ cursor'[q] = cursor[q] /\ low'[q] = low[q] /\ seen'[q] = seen[q]
      /\ asks'[q] = asks[q] /\ pos'[q] = pos[q] /\ rows'[q] = rows[q]
  BY DEF PollStep, PollOpen, BackOpen, Open, ReadLine, PollAnswer, BackAnswer, Answered,
         FollowInv, PollTypeOK
<1>2. UNCHANGED <<file, lines, pc, rec, nextId, HighTs, Rewriting>>
  BY <1>1 DEF vars, HighTs, Writing, Rewriting
<1> QED
  BY <1>1, <1>2 DEF FollowInv, RequestInv, ClientInv, Filtered, Kept, Exact

\* A request is sent.
LEMMA OpenStep ==
    ASSUME FollowInv, NEW p \in Pollers, PollOpen(p) \/ BackOpen(p)
    PROVE  PollTypeOK' /\ RequestInv(p)' /\ (p \notin crossed => ClientInv(p)')
<1> USE DEF FollowInv
<1>1. PICK what \in {"since", "before"} :
        /\ asks[p] = "no" /\ asks' = [asks EXCEPT ![p] = what]
        /\ UNCHANGED <<vars, cursor, low, pos, rows, seen, crossed>>
  BY DEF PollOpen, BackOpen, Open
<1>2. pos[p] = 0 /\ rows[p] = <<>>
  BY <1>1 DEF RequestInv
<1>3. UNCHANGED <<file, lines, pc, rec, nextId, HighTs, Rewriting>>
  BY <1>1 DEF vars, HighTs, Writing, Rewriting
<1>4. PollTypeOK'
  BY <1>1 DEF PollTypeOK
<1>5. RequestInv(p)'
  BY <1>1, <1>2 DEF RequestInv
<1>6. Filtered(p)'
  BY <1>1, <1>2, <1>3 DEF Filtered, Ordered
<1> QED
  BY <1>1, <1>3, <1>4, <1>5, <1>6 DEF ClientInv, Exact

LEMMA FollowInvStep == FollowInv /\ [FollowNext]_allVars => FollowInv'
<1> SUFFICES ASSUME FollowInv, [FollowNext]_allVars PROVE FollowInv'
  OBVIOUS
<1>1. [ServerNext]_vars
  BY ServerSteps DEF allVars
<1>2. ServerInv' /\ nextId' <= MaxRecords + 1
  BY <1>1, ServerInvStep, IdBound DEF FollowInv
<1>3. ASSUME UNCHANGED pollVars
      PROVE  PollTypeOK' /\ \A p \in Pollers : RequestInv(p)'
  BY <1>3 DEF FollowInv, PollTypeOK, RequestInv, pollVars, requestVars
<1>4. ASSUME NEW t \in Threads, PollTruncate(t) PROVE FollowInv'
  <2>1. UNCHANGED <<cursor, low, asks, pos, rows, seen>> /\ crossed' \subseteq Pollers
    BY <1>4 DEF PollTruncate, requestVars, FollowInv, PollTypeOK
  <2>2. PollTypeOK' /\ \A p \in Pollers : RequestInv(p)'
    BY <2>1 DEF FollowInv, PollTypeOK, RequestInv
  <2>3. \A p \in Pollers \ crossed' : ClientInv(p)'
    BY <1>4, ClientTruncate
  <2> QED
    BY <1>2, <2>2, <2>3 DEF FollowInv
<1>5. ASSUME NEW t \in Threads, AppendWrite(t), UNCHANGED pollVars PROVE FollowInv'
  <2>1. crossed' = crossed /\ \A p \in Pollers \ crossed : ClientInv(p)'
    BY <1>5, ClientWrite DEF pollVars
  <2> QED
    BY <1>2, <1>3, <1>5, <2>1 DEF FollowInv
<1>6. ASSUME NEW t \in Threads, DeleteRewrite(t), UNCHANGED pollVars PROVE FollowInv'
  <2>1. crossed' = crossed /\ \A p \in Pollers \ crossed : ClientInv(p)'
    BY <1>6, ClientRewrite DEF pollVars
  <2> QED
    BY <1>2, <1>3, <1>6, <2>1 DEF FollowInv
<1>7. ASSUME \/ \E t \in Threads : StartAppend(t) \/ AppendSave(t) \/ DeleteRead(t)
             \/ SetClock \/ UNCHANGED vars,
             UNCHANGED pollVars
      PROVE  FollowInv'
  <2>1. Quiet
    BY <1>7, QuietSteps DEF FollowInv
  <2>2. crossed' = crossed /\ UNCHANGED <<cursor, low, seen, asks, pos, rows>>
    BY <1>7 DEF pollVars, requestVars
  <2>3. \A p \in Pollers \ crossed : ClientInv(p)'
    BY <1>1, <2>1, <2>2, ClientQuiet
  <2> QED
    BY <1>2, <1>3, <1>7, <2>2, <2>3 DEF FollowInv
<1>8. ASSUME PollRestart PROVE FollowInv'
  <2>1. /\ Restart /\ UNCHANGED <<cursor, low, seen, crossed>>
        /\ asks' = [p \in Pollers |-> "no"]
        /\ pos' = [p \in Pollers |-> 0] /\ rows' = [p \in Pollers |-> <<>>]
    BY <1>8 DEF PollRestart
  <2>2. Quiet
    BY <2>1, QuietSteps DEF FollowInv
  <2>3. <<>> \in Seq(Record) /\ Len(<<>>) = 0
    OBVIOUS
  <2>4. PollTypeOK' /\ \A p \in Pollers : RequestInv(p)'
    BY <2>1, <2>3 DEF FollowInv, PollTypeOK, RequestInv
  <2>5. \A p \in Pollers \ crossed : ClientInv(p)'
    BY <1>1, <2>1, <2>2, ClientQuiet
  <2> QED
    BY <1>2, <2>1, <2>4, <2>5 DEF FollowInv
<1>9. ASSUME NEW p \in Pollers, PollStep(p) PROVE FollowInv'
  <2>1. PollTypeOK' /\ RequestInv(p)' /\ (p \notin crossed' => ClientInv(p)')
        /\ crossed \subseteq crossed'
    <3>1. CASE PollOpen(p) \/ BackOpen(p)
      BY <3>1, OpenStep DEF PollOpen, BackOpen, Open
    <3>2. CASE ReadLine(p)
      BY <3>2, ReadStep DEF ReadLine
    <3>3. CASE PollAnswer(p) \/ BackAnswer(p)
      <4>1. p \notin crossed' => ClientInv(p)'
        BY <3>3, AnswerEmpty, AnswerPage
      <4>2. crossed \subseteq crossed'
        BY <3>3 DEF PollAnswer, BackAnswer
      <4> QED
        BY <3>3, <4>1, <4>2, AnswerTypes
    <3> QED
      BY <1>9, <3>1, <3>2, <3>3 DEF PollStep
  <2>2. \A q \in Pollers : q # p => RequestInv(q)' /\ (q \notin crossed => ClientInv(q)')
    BY <1>9, OthersKeep
  <2> QED
    BY <1>2, <2>1, <2>2 DEF FollowInv
<1>10. CASE UNCHANGED allVars
  BY <1>7, <1>10 DEF allVars
<1> QED
  BY <1>4, <1>5, <1>6, <1>7, <1>8, <1>9, <1>10 DEF FollowNext, AppendStep

LEMMA FollowInvInit == PollInit => FollowInv
<1> SUFFICES ASSUME PollInit PROVE FollowInv
  OBVIOUS
<1>1. ServerInv
  BY ServerInvInit DEF PollInit
<1>2. /\ file = <<>> /\ nextId = 1 /\ lastTs = 0 /\ diskTs = 0
      /\ \A t \in Threads : pc[t] = "idle"
  BY DEF PollInit, Init
<1>3. <<>> \in Seq(Record) /\ Len(<<>>) = 0
  OBVIOUS
<1>4. PollTypeOK /\ nextId <= MaxRecords + 1
  BY <1>2, <1>3, BoundsAssumption DEF PollInit, PollTypeOK
<1>5. \A p \in Pollers : RequestInv(p)
  BY <1>3 DEF PollInit, RequestInv
<1>6. ASSUME NEW p \in Pollers PROVE ClientInv(p)
  <2>1. /\ cursor[p] = 0 /\ low[p] = 0 /\ pos[p] = 0 /\ rows[p] = <<>> /\ seen[p] = {}
    BY DEF PollInit
  <2>2. HighTs = 0 /\ Rewriting = {}
    BY <1>2 DEF HighTs, Rewriting
  <2> QED
    BY <1>2, <1>3, <2>1, <2>2 DEF ClientInv, Filtered, Exact, Ordered
<1> QED
  BY <1>1, <1>4, <1>5, <1>6 DEF FollowInv

\* FollowInv is an invariant, whatever appends, deletes, clock steps and
\* restarts come between the reads of a request.
THEOREM FollowInvariant == FollowSpec => []FollowInv
<1> QED
  BY FollowInvInit, FollowInvStep, PTL DEF FollowSpec

\* Cursors, requests and pages stay in their types.
THEOREM PollTypes == FollowSpec => []PollTypeOK
<1>1. FollowInv => PollTypeOK
  BY DEF FollowInv
<1> QED
  BY <1>1, FollowInvariant, PTL

\* Between its oldest page and its cursor a client has no gaps, for any number
\* of clients, messages and deletes and any page size.
THEOREM PollCompleteAlways == FollowSpec => []PollComplete
<1>1. FollowInv => PollComplete
  BY DEF FollowInv, ClientInv, Exact, PollComplete
<1> QED
  BY <1>1, FollowInvariant, PTL

\* And it is never sent a record twice.
THEOREM NothingTwiceAlways == FollowSpec => []NothingTwice
<1>1. FollowInv => NothingTwice
  <2> SUFFICES ASSUME FollowInv, NEW p \in Pollers \ crossed, NEW k \in 1..Len(rows[p]),
                      rows[p][k].id \in seen[p]
               PROVE  FALSE
    BY DEF NothingTwice, IdSet
  <2>1. ClientInv(p)
    BY DEF FollowInv
  <2>2. PICK i \in 1..pos[p] : rows[p][k] = file[i] /\ Kept(p, file[i])
    BY <2>1 DEF ClientInv, Filtered
  <2>3. i \in 1..Len(file) /\ file[i].ts \in Nat /\ cursor[p] \in Nat /\ low[p] \in Nat
    <3>1. pos[p] <= Len(file) /\ pos[p] \in Nat /\ Len(file) \in Nat
      BY <2>1, StoreFacts DEF FollowInv, ClientInv, PollTypeOK
    <3>2. i \in 1..Len(file)
      BY <3>1
    <3> QED
      BY <3>2, FileTimes
  <2>4. low[p] <= file[i].ts /\ file[i].ts <= cursor[p]
    BY <2>1, <2>2, <2>3 DEF ClientInv, Exact
  <2> QED
    BY <2>2, <2>3, <2>4 DEF Kept
<1> QED
  BY <1>1, FollowInvariant, PTL

-----------------------------------------------------------------------------
(* What the readers do to the store.                                       *)

\* The server with its clients is a server: no request of theirs, and no
\* restart that cuts one, is anything else than a step of the store or none.
THEOREM FollowIsServer == FollowSpec => ServerSpec
<1>1. PollInit => Init
  BY DEF PollInit
<1>2. [FollowNext]_allVars => [ServerNext]_vars
  BY ServerSteps DEF allVars
<1> QED
  BY <1>1, <1>2, PTL DEF FollowSpec, ServerSpec

\* So what AbstractLog promises is promised under clients that poll and page
\* back at any time.
THEOREM ReadersKeepPromise == FollowSpec => ImplementsAbstractLog
BY FollowIsServer, Implementation, PTL
=============================================================================
