----------------------------- MODULE RecordsAPI -----------------------------
(***************************************************************************)
(* The records API as its callers see it: the Go SDK, which retries its    *)
(* calls over a network that loses requests and answers, and a reader that *)
(* walks the record list page by page while records are created, deleted   *)
(* and batched.                                                            *)
(*                                                                         *)
(* A request that its client has given up may still be carried out.  The   *)
(* creation time is taken when the handler starts and the document is      *)
(* inserted later, so documents appear out of order.  A batch is claimed    *)
(* here in one step; Anchoring takes the claim and the anchor apart.        *)
(***************************************************************************)
EXTENDS Merkle, FiniteSets, FiniteSetsExt, SequencesExt

CONSTANTS
  Clients,         \* users of the SDK, each with one call at a time
  Ids,             \* record ids, each drawn by one CreateRecord call
  Old,             \* records that are there already
  BatchSize,       \* records that one BatchRecords call may claim
  Limit, Offsets,  \* page size of the reader, and where its first page may start
  maxRetries,
  MaxCalls, MaxFaults, MaxClock, MaxDeletes

\* Ids have an order; the collection is finite; a call makes at least one attempt.
ASSUME RecordsAssumption ==
  /\ Ids \subseteq Nat /\ Old \subseteq Ids /\ IsFiniteSet(Old)
  /\ Limit \in Nat \ {0} /\ BatchSize \in Nat \ {0}
  /\ Offsets \subseteq Nat /\ maxRetries \in Nat

VARIABLES
  store,           \* [ids inserted -> [at, deleted, batched]]
  clock,
  call,            \* [Clients -> the SDK call under way or returned]
  requests,        \* requests sent and not answered
  answers,         \* answers on their way to a client
  walk,            \* the reader
  used, calls, faults, deletes

serverVars == <<store, requests, answers>>
countVars  == <<calls, faults, deletes>>
vars == <<store, clock, call, requests, answers, walk, used, countVars>>

NoCall == [op |-> "none"]
NoWalk == [pc |-> "none"]

Init ==
  /\ store = [i \in Old |-> [at |-> 0, deleted |-> FALSE, batched |-> FALSE]]
  /\ clock = 0
  /\ call = [c \in Clients |-> NoCall] /\ requests = {} /\ answers = {}
  /\ walk = NoWalk
  /\ used = Old /\ calls = 0 /\ faults = 0 /\ deletes = 0

Fault == faults < MaxFaults /\ faults' = faults + 1

Tick == clock < MaxClock /\ clock' = clock + 1 /\ UNCHANGED <<serverVars, call, walk, used, countVars>>

Visible == {i \in DOMAIN store : ~store[i].deleted}
Pending == {i \in Visible : ~store[i].batched}
Settled == DOMAIN store \ Pending

-----------------------------------------------------------------------------
(* The SDK.                                                                *)

\* What an attempt of a call puts on the wire.
Send(c, n, attempt, op, id) ==
  requests' = requests \cup
    {[client |-> c, n |-> n, attempt |-> attempt, op |-> op, id |-> id, at |-> -1, chosen |-> {}]}

Begin(c, op, id, before) ==
  /\ call[c].op = "none" /\ calls < MaxCalls
  /\ calls' = calls + 1
  /\ call' = [call EXCEPT ![c] = [op |-> op, n |-> calls, id |-> id, attempt |-> 0, result |-> "none",
                                  before |-> before, settled |-> Settled]]
  /\ Send(c, calls, 0, op, id)
  /\ UNCHANGED <<store, clock, answers, walk, faults, deletes>>

\* CreateRecord draws an id.
CreateRecord(c, id) == id \notin used /\ used' = used \cup {id} /\ Begin(c, "create", id, {})

BatchRecords(c) == Begin(c, "batch", 0, Pending) /\ UNCHANGED used

\* The document, as far as its hash goes.
Doc(id, version) ==
  [id |-> <<id>>, timestamp |-> <<7>>, source |-> <<8>>, payload |-> [amount |-> 1], hashFields |-> {}, version |-> version]

serverHash(id) == calculateHashV2(Doc(id, CurrentHashVersion))

\* ComputeHash of a record built without a version.
localHash(id) == hashForVersion(Doc(id, 0), 0)

Under(c) == call[c].op # "none" /\ call[c].result = "none"

\* Mutant of Retry: the last error is forgotten when the attempts are used up.
Retry_Forgets(c) ==
  IF call[c].attempt < maxRetries
  THEN /\ call' = [call EXCEPT ![c].attempt = @ + 1]
       /\ Send(c, call[c].n, call[c].attempt + 1, call[c].op, call[c].id)
  ELSE call' = [call EXCEPT ![c].result = "ok"] /\ UNCHANGED requests

\* Mutant of Retry: one attempt too many.
Retry_OneMore(c) ==
  IF call[c].attempt <= maxRetries
  THEN /\ call' = [call EXCEPT ![c].attempt = @ + 1]
       /\ Send(c, call[c].n, call[c].attempt + 1, call[c].op, call[c].id)
  ELSE call' = [call EXCEPT ![c].result = "error"] /\ UNCHANGED requests

\* do: a network error and a 5xx are retried.
Retry(c) ==
  IF call[c].attempt < maxRetries
  THEN /\ call' = [call EXCEPT ![c].attempt = @ + 1]
       /\ Send(c, call[c].n, call[c].attempt + 1, call[c].op, call[c].id)
  ELSE call' = [call EXCEPT ![c].result = "error"] /\ UNCHANGED requests

\* What a final answer makes of the call.
Outcome(c, a) ==
  CASE a.code = 409 -> "conflict"
    [] a.code = 201 -> IF a.hash = localHash(call[c].id) THEN "ok" ELSE "mismatch"
    [] a.code = 200 -> "ok"

\* do: an answer is retried or final.
Receive(c) ==
  /\ Under(c)
  /\ \E a \in answers :
       /\ a.client = c
       /\ answers' = answers \ {a}
       /\ IF a.code >= 500 THEN Retry(c)
          ELSE call' = [call EXCEPT ![c].result = Outcome(c, a)] /\ UNCHANGED requests
  /\ UNCHANGED <<store, clock, walk, used, countVars>>

\* do: the connection fails or ten seconds are over; what was sent is still
\* under way, and its answer goes nowhere.
GiveUp(c) ==
  /\ Under(c)
  /\ Retry(c)
  /\ answers' = {a \in answers : a.client # c}
  /\ UNCHANGED <<store, clock, walk, used, countVars>>

\* The caller has taken the result.
Return(c) ==
  /\ call[c].op # "none" /\ call[c].result # "none"
  /\ call' = [call EXCEPT ![c] = NoCall]
  /\ UNCHANGED <<store, clock, requests, answers, walk, used, countVars>>

-----------------------------------------------------------------------------
(* The server.                                                             *)

\* Somebody still waits for the answer to q.
Awaited(q) == Under(q.client) /\ call[q.client].n = q.n /\ call[q.client].attempt = q.attempt

Reply(q, code, hash) ==
  /\ requests' = requests \ {q}
  /\ answers' = IF Awaited(q) THEN answers \cup {[client |-> q.client, code |-> code, hash |-> hash]} ELSE answers

With(q) ==
  [i \in DOMAIN store \cup {q.id} |->
     IF i \in DOMAIN store THEN store[i] ELSE [at |-> q.at, deleted |-> FALSE, batched |-> FALSE]]

\* CreateRecord: the handler takes the time ...
Stamp(q) ==
  /\ q.op = "create" /\ q.at = -1
  /\ requests' = (requests \ {q}) \cup {[q EXCEPT !.at = clock]}
  /\ UNCHANGED <<store, clock, call, answers, walk, used, countVars>>

\* ... and inserts; the unique index refuses an id that is there.
Insert(q) ==
  /\ q.op = "create" /\ q.at >= 0
  /\ IF q.id \in DOMAIN store
     THEN Reply(q, 409, NoRoot) /\ UNCHANGED store
     ELSE store' = With(q) /\ Reply(q, 201, serverHash(q.id))
  /\ UNCHANGED <<clock, call, walk, used, countVars>>

\* Mutant of InsertFails: every error counts as a duplicate.
InsertFails_Duplicate(q) ==
  /\ q.op = "create" /\ q.at >= 0 /\ q.id \notin DOMAIN store
  /\ Fault
  /\ store' \in {store, With(q)}
  /\ Reply(q, 409, NoRoot)
  /\ UNCHANGED <<clock, call, walk, used, calls, deletes>>

\* An insert that fails for its caller may have taken effect.
InsertFails(q) ==
  /\ q.op = "create" /\ q.at >= 0 /\ q.id \notin DOMAIN store
  /\ Fault
  /\ store' \in {store, With(q)}
  /\ Reply(q, 500, NoRoot)
  /\ UNCHANGED <<clock, call, walk, used, calls, deletes>>

Older(i, j) == store[i].at < store[j].at \/ (store[i].at = store[j].at /\ i < j)

\* ForceRecordBatch: the oldest pending records are candidates; with none it
\* answers 200 as well, with an empty batch ...
Choose(q) ==
  /\ q.op = "batch" /\ q.chosen = {}
  /\ LET chosen == {i \in Pending : Cardinality({j \in Pending : Older(j, i)}) < BatchSize}
     IN  IF chosen = {} THEN Reply(q, 200, NoRoot)
         ELSE requests' = (requests \ {q}) \cup {[q EXCEPT !.chosen = chosen]} /\ UNCHANGED answers
  /\ UNCHANGED <<store, clock, call, walk, used, countVars>>

Claimed(q) ==
  [i \in DOMAIN store |-> [store[i] EXCEPT !.batched = @ \/ i \in q.chosen \cap Pending]]

\* ... and those that are still pending are claimed.
Claim(q) ==
  /\ q.op = "batch" /\ q.chosen # {}
  /\ store' = Claimed(q)
  /\ Reply(q, 200, NoRoot)
  /\ UNCHANGED <<clock, call, walk, used, countVars>>

\* The claim fails, or the status of the batch cannot be written.
ClaimFails(q) ==
  /\ q.op = "batch" /\ q.chosen # {}
  /\ Fault
  /\ store' \in {store, Claimed(q)}
  /\ Reply(q, 500, NoRoot)
  /\ UNCHANGED <<clock, call, walk, used, calls, deletes>>

\* The connection of a request is gone, and its context with it.
Cancelled(q) ==
  /\ ~Awaited(q)
  /\ requests' = requests \ {q}
  /\ UNCHANGED <<store, clock, call, answers, walk, used, countVars>>

GetRecord(id) == IF id \in Visible THEN 200 ELSE 404

\* DeleteRecord and SoftDeleteRecord: the document stays.
DeleteRecord(id) ==
  /\ deletes < MaxDeletes /\ GetRecord(id) = 200
  /\ deletes' = deletes + 1
  /\ store' = [store EXCEPT ![id].deleted = TRUE]
  /\ walk' = IF walk = NoWalk THEN walk ELSE [walk EXCEPT !.there = @ \ {id}]
  /\ UNCHANGED <<clock, call, requests, answers, used, calls, faults>>

-----------------------------------------------------------------------------
(* ListRecords and a reader that follows it.                               *)

NoCursor == [at |-> -1, id |-> 0]

\* created_at descending, id descending.
Before(i, j) == store[i].at > store[j].at \/ (store[i].at = store[j].at /\ i > j)

\* Mutant of Behind: the boundary compares the time alone.
Behind_TimeOnly(i, cursor) == cursor = NoCursor \/ store[i].at < cursor.at

\* A set of records in that order.
InOrder(S) == [k \in 1 .. Cardinality(S) |-> CHOOSE i \in S : Cardinality({j \in S : Before(j, i)}) = k - 1]

\* The filter that a decoded cursor adds.
Behind(i, cursor) ==
  cursor = NoCursor \/ store[i].at < cursor.at \/ (store[i].at = cursor.at /\ i < cursor.id)

encodeCursor(id) == [at |-> store[id].at, id |-> id]

\* A page, and a cursor if the page is full.
ListRecords(offset, cursor) ==
  LET all  == InOrder({i \in Visible : Behind(i, cursor)})
      skip == IF cursor = NoCursor THEN offset ELSE 0
      page == SubSeq(all, skip + 1, Min({Len(all), skip + Limit}))
  IN  [ids |-> page, next |-> IF Len(page) = Limit THEN encodeCursor(Last(page)) ELSE NoCursor]

\* Reading a page, behind what has been seen.
Read(offset, cursor, seen, there) ==
  LET page == ListRecords(offset, cursor)
  IN  walk' = [pc |-> IF page.next = NoCursor THEN "done" ELSE "walking",
               cursor |-> page.next, seen |-> seen \o page.ids, there |-> there]

\* The first page starts at an offset; what that skips is not looked for.
StartWalk ==
  /\ walk = NoWalk
  /\ \E offset \in Offsets :
       Read(offset, NoCursor, <<>>, {i \in Visible : Cardinality({j \in Visible : Before(j, i)}) >= offset})
  /\ UNCHANGED <<store, clock, call, requests, answers, used, countVars>>

\* The reader asks for the next page until there is none.
NextPage ==
  /\ walk.pc = "walking"
  /\ Read(0, walk.cursor, walk.seen, walk.there)
  /\ UNCHANGED <<store, clock, call, requests, answers, used, countVars>>

-----------------------------------------------------------------------------
Serve(q) == Stamp(q) \/ Insert(q) \/ Choose(q) \/ Claim(q)

Next ==
  \/ \E c \in Clients : \/ \E id \in Ids : CreateRecord(c, id)
                        \/ BatchRecords(c) \/ Receive(c) \/ GiveUp(c) \/ Return(c)
  \/ \E q \in requests : Serve(q) \/ InsertFails(q) \/ ClaimFails(q) \/ Cancelled(q)
  \/ \E id \in Ids : DeleteRecord(id)
  \/ Tick \/ StartWalk \/ NextPage

Spec == Init /\ [][Next]_vars

-----------------------------------------------------------------------------
(* Properties.                                                             *)

TypeOK ==
  /\ DOMAIN store \subseteq used /\ used \subseteq Ids
  /\ \A i \in DOMAIN store : store[i].at \in 0 .. clock
  /\ \A c \in Clients : call[c] # NoCall =>
       /\ call[c].attempt \in 0 .. maxRetries
       /\ call[c].result \in {"none", "ok", "mismatch", "conflict", "error"}
  /\ \A q \in requests : q.at \in -1 .. clock
  /\ walk.pc \in {"none", "walking", "done"}

\* Whatever an SDK create that got an answer below 500 reports, its record is
\* stored: a conflict on a fresh id is the trace of an earlier attempt of the
\* same call (do, newID, the unique index).
AnsweredCreateIsStored ==
  \A c \in Clients : call[c].op = "create" /\ call[c].result \in {"ok", "mismatch", "conflict"} => call[c].id \in DOMAIN store

\* BatchRecords without an error means that the records that were pending when
\* it was called have left the pending set, or a full batch has: no concurrent
\* batch, deletion, late insert or lost answer makes the API report an empty
\* batch with pending records untouched (ForceRecordBatch, ClaimRecordsForBatch).
BatchCoversEarlier ==
  \A c \in Clients : call[c].op = "batch" /\ call[c].result = "ok" =>
    call[c].before \cap Pending = {} \/ Cardinality(Settled \ call[c].settled) >= BatchSize

\* A walk by cursor is exact: it shows no record twice, and once it has ended it
\* has shown every record that was there all the time, whatever is inserted late
\* with an older or an equal time or deleted meanwhile, ties and a full last
\* page included (ListRecords, encodeCursor).
WalkIsExact ==
  walk # NoWalk => IsInjective(walk.seen) /\ (walk.pc = "done" => walk.there \subseteq Range(walk.seen))

\* What the SDK's README says of CreateRecord: the server returns the hash that
\* was computed locally.
HashesMatch == \A c \in Clients : call[c].op = "create" => call[c].result # "mismatch"
=============================================================================
