------------------------------ MODULE Anchoring -------------------------------
(***************************************************************************)
(* The anchoring pipeline of the AeternisLog API: how records stored in    *)
(* MongoDB are claimed into batches, how the Merkle root of a batch is     *)
(* stored on the ledger, and how the reconciler re-drives a batch whose    *)
(* anchor is missing (merkle.BatchProcessor over database.Collections and  *)
(* fabric.FabricClient).                                                   *)
(*                                                                         *)
(* A worker is a goroutine that runs ProcessRecordBatch (the ticker of a   *)
(* replica, or a POST .../records/batch request) or ReconcileBatches (the  *)
(* ticker).  Workers share nothing but MongoDB and the ledger, so it does  *)
(* not matter which of them belong to one replica.  One action is one      *)
(* MongoDB document update, one MongoDB query or one step of the ledger;   *)
(* an UpdateMany is one step per document, since MongoDB guarantees no     *)
(* more, and a worker may stop between any two of them.                    *)
(*                                                                         *)
(* All records are of one (tenant, domain), the scope of every query.  A   *)
(* record is named by its position in the (created_at, id) order.  Hashing *)
(* is symbolic and injective: the root of a batch is the set of records it *)
(* was computed over, and the empty set is the empty string, a root that   *)
(* was never stamped.                                                      *)
(***************************************************************************)
EXTENDS Naturals, FiniteSets

CONSTANTS Records,     \* records, as positions in (created_at, id) order
          Workers,     \* goroutines that batch, request handlers included
          Tickers,     \* those of them that also reconcile, one per replica
          Batches,     \* the batch ids that uuid.New() may produce
          NoBatch,     \* a record with no batch_id field
          NoAnchor,    \* a ledger key without a value
          NoClient,    \* a transaction whose caller is gone
          Deletable,   \* bound: the records that clients may delete
          BatchSize,   \* limit of records per batch
          UniqueIds,   \* FALSE: two calls may draw the same 8-digit suffix
          LedgerModes, \* initial values of ledgerOn
          MaxFaults,   \* bound on crashes and MongoDB errors
          MaxOrphans   \* bound on transactions given up by a timeout, in flight

ASSUME RecordsAssumption ==
    /\ Records \subseteq Nat
    /\ Deletable \subseteq Records
    /\ \A S \in (SUBSET Records) \ {{}} : \E r \in S : \A q \in S : r <= q
ASSUME SentinelAssumption ==
    /\ NoBatch \notin Batches
    /\ \A S \in SUBSET Records : NoAnchor # S
    /\ NoClient \notin Workers
ASSUME BoundsAssumption ==
    /\ BatchSize \in Nat \ {0}
    /\ MaxFaults \in Nat
    /\ MaxOrphans \in Nat
    /\ Tickers \subseteq Workers
    /\ LedgerModes \subseteq BOOLEAN
    /\ UniqueIds \in BOOLEAN

VARIABLES
    \* the documents of the records collection
    stored,            \* "absent", "live" or "deleted" (deleted_at is set)
    batch_id,          \* NoBatch until the record is claimed, then its batch
    anchor_status,     \* "none" before the claim, then pending/failed/anchored
    merkle_root,       \* the stamped root, {} while it is not stamped
    tx_id,             \* whether tx_id names the anchoring transaction
    \* the ledger
    chain, txs, call,
    \* the API
    wk,                \* local variables of each worker
    ledgerOn,          \* FABRIC_SYNC_ENABLED
    used,              \* batch ids drawn so far
    notices,           \* batch.anchored callbacks issued per batch
    faults             \* crashes and MongoDB errors so far

docVars == <<stored, batch_id, anchor_status, merkle_root, tx_id>>
ledgerVars == <<chain, txs, call>>
envVars == <<ledgerOn, used, notices, faults>>
vars == <<docVars, ledgerVars, wk, envVars>>

Roots == SUBSET Records
Statuses == {"none", "pending", "failed", "anchored"}

L == INSTANCE Ledger WITH Clients <- Workers

PCs == {"idle", "claim", "scan", "store", "wait", "write"}
Roles == {"none", "batch", "reconcile"}
Jobs == {"none", "root", "failed", "anchored", "synced"}
Local == [pc : PCs, role : Roles, batch : Batches \union {NoBatch}, root : Roots,
          tx : BOOLEAN, todo : SUBSET Records, job : Jobs, scopes : SUBSET Batches]

IdleWorker == [pc |-> "idle", role |-> "none", batch |-> NoBatch, root |-> {},
               tx |-> FALSE, todo |-> {}, job |-> "none", scopes |-> {}]

TypeOK ==
    /\ stored \in [Records -> {"absent", "live", "deleted"}]
    /\ batch_id \in [Records -> Batches \union {NoBatch}]
    /\ anchor_status \in [Records -> Statuses]
    /\ merkle_root \in [Records -> Roots]
    /\ tx_id \in [Records -> BOOLEAN]
    /\ L!TypeOK
    /\ wk \in [Workers -> Local]
    /\ ledgerOn \in BOOLEAN
    /\ used \subseteq Batches
    /\ notices \in [Batches -> Nat]
    /\ faults \in Nat

Init ==
    /\ stored = [r \in Records |-> "absent"]
    /\ batch_id = [r \in Records |-> NoBatch]
    /\ anchor_status = [r \in Records |-> "none"]
    /\ merkle_root = [r \in Records |-> {}]
    /\ tx_id = [r \in Records |-> FALSE]
    /\ L!Init
    /\ wk = [w \in Workers |-> IdleWorker]
    /\ ledgerOn \in LedgerModes
    /\ used = {}
    /\ notices = [b \in Batches |-> 0]
    /\ faults = 0

-----------------------------------------------------------------------------
(* Queries                                                                  *)

\* FindRecordsWithoutBatch, without the limit.
Pending == {r \in Records : stored[r] = "live" /\ batch_id[r] = NoBatch}

\* ... with sort and limit: the oldest pending records, at most BatchSize.
Candidates == {S \in SUBSET Pending :
                  /\ S # {}
                  /\ Cardinality(S) <= BatchSize
                  /\ S = Pending \/ Cardinality(S) = BatchSize
                  /\ \A r \in S, q \in Pending \ S : r < q}

\* FindRecordsByBatchID; soft-deleted records stay in their batch.
Members(b) == {r \in Records : batch_id[r] = b}

\* records[0] of a query sorted by (created_at, id).
Oldest(S) == CHOOSE r \in S : \A q \in S : r <= q

\* Mutant of UnanchoredScopes: batches marked failed are not found.
PendingScopes == {b \in Batches : \E r \in Members(b) : anchor_status[r] = "pending"}

\* FindUnanchoredBatchScopes.
UnanchoredScopes ==
    {b \in Batches : \E r \in Members(b) : anchor_status[r] \in {"pending", "failed"}}

-----------------------------------------------------------------------------
(* Records: what the record handlers do to documents                        *)

\* CreateRecord: InsertRecord.
Insert(r) ==
    /\ stored[r] = "absent"
    /\ stored' = [stored EXCEPT ![r] = "live"]
    /\ UNCHANGED <<batch_id, anchor_status, merkle_root, tx_id, ledgerVars, wk, envVars>>

\* DeleteRecord: SoftDeleteRecord sets deleted_at unless it is set.
SoftDelete(r) ==
    /\ r \in Deletable
    /\ stored[r] = "live"
    /\ stored' = [stored EXCEPT ![r] = "deleted"]
    /\ UNCHANGED <<batch_id, anchor_status, merkle_root, tx_id, ledgerVars, wk, envVars>>

-----------------------------------------------------------------------------
(* ProcessRecordBatch                                                       *)

Goto(w, l) == wk' = [wk EXCEPT ![w] = l]

\* An UpdateMany of job on the members of the worker's batch is about to run.
Update(l, job) == [l EXCEPT !.pc = "write", !.job = job, !.todo = Members(l.batch)]

\* Mutant of StartBatch: an id may be drawn twice, as if it had fewer digits.
StartBatchAgain(w, b) ==
    /\ wk[w].pc = "idle"
    /\ \E S \in Candidates :
          Goto(w, [IdleWorker EXCEPT !.pc = "claim", !.role = "batch",
                                     !.batch = b, !.todo = S])
    /\ used' = used \union {b}
    /\ UNCHANGED <<docVars, ledgerVars, ledgerOn, notices, faults>>

\* Draw a batch id and pick the candidates of ClaimRecordsForBatch.
StartBatch(w, b) ==
    /\ wk[w].pc = "idle"
    /\ UniqueIds => b \notin used
    /\ \E S \in Candidates :
          Goto(w, [IdleWorker EXCEPT !.pc = "claim", !.role = "batch",
                                     !.batch = b, !.todo = S])
    /\ used' = used \union {b}
    /\ UNCHANGED <<docVars, ledgerVars, ledgerOn, notices, faults>>

Claim(w, r) ==
    /\ batch_id' = [batch_id EXCEPT ![r] = wk[w].batch]
    /\ anchor_status' = [anchor_status EXCEPT ![r] = "pending"]

\* Mutants of ClaimDoc: the update matches every live candidate, or every
\* unbatched one.
ClaimDocOfBatch(w, r) ==
    /\ wk[w].pc = "claim"
    /\ r \in wk[w].todo
    /\ IF stored[r] = "live" THEN Claim(w, r) ELSE UNCHANGED <<batch_id, anchor_status>>
    /\ Goto(w, [wk[w] EXCEPT !.todo = @ \ {r}])
    /\ UNCHANGED <<stored, merkle_root, tx_id, ledgerVars, envVars>>

ClaimDocDeleted(w, r) ==
    /\ wk[w].pc = "claim"
    /\ r \in wk[w].todo
    /\ IF batch_id[r] = NoBatch THEN Claim(w, r) ELSE UNCHANGED <<batch_id, anchor_status>>
    /\ Goto(w, [wk[w] EXCEPT !.todo = @ \ {r}])
    /\ UNCHANGED <<stored, merkle_root, tx_id, ledgerVars, envVars>>

\* One document of the claiming UpdateMany: taken if still unbatched and live.
ClaimDoc(w, r) ==
    /\ wk[w].pc = "claim"
    /\ r \in wk[w].todo
    /\ IF r \in Pending THEN Claim(w, r) ELSE UNCHANGED <<batch_id, anchor_status>>
    /\ Goto(w, [wk[w] EXCEPT !.todo = @ \ {r}])
    /\ UNCHANGED <<stored, merkle_root, tx_id, ledgerVars, envVars>>

\* Read the claimed records back and compute their root.  Nothing won, or nobody
\* there to read it: done.
\* Without a ledger the root is only stamped and the batch stays pending.
ReadBack(w) ==
    /\ wk[w].pc = "claim"
    /\ wk[w].todo = {}
    /\ LET won == Members(wk[w].batch)
           l == [wk[w] EXCEPT !.root = won]
       IN Goto(w, IF won = {} \/ wk[w].role = "none" THEN IdleWorker
                  ELSE IF ledgerOn THEN [l EXCEPT !.pc = "store"]
                  ELSE Update(l, "root"))
    /\ UNCHANGED <<docVars, ledgerVars, envVars>>

\* The update or the read-back fails: the call returns, the claims remain.
FailClaim(w) ==
    /\ wk[w].pc = "claim"
    /\ faults < MaxFaults
    /\ Goto(w, IdleWorker)
    /\ faults' = faults + 1
    /\ UNCHANGED <<docVars, ledgerVars, ledgerOn, used, notices>>

-----------------------------------------------------------------------------
(* ReconcileBatches                                                         *)

StartReconcile(w) ==
    /\ w \in Tickers
    /\ wk[w].pc = "idle"
    /\ ledgerOn
    /\ UnanchoredScopes # {}
    /\ Goto(w, [IdleWorker EXCEPT !.pc = "scan", !.role = "reconcile",
                                  !.scopes = UnanchoredScopes])
    /\ UNCHANGED <<docVars, ledgerVars, envVars>>

\* The next iteration of the loop over scopes, or its end.
NextScope(l) ==
    IF l.scopes = {} THEN IdleWorker
    ELSE [IdleWorker EXCEPT !.pc = "scan", !.role = "reconcile", !.scopes = l.scopes]

\* Read the batch; its stored root and tx id are those of its first record.
ReadScope(w, b) ==
    /\ wk[w].pc = "scan"
    /\ b \in wk[w].scopes
    /\ Members(b) # {}
    /\ LET first == Oldest(Members(b)) IN
       Goto(w, [wk[w] EXCEPT !.pc = "store", !.batch = b, !.root = merkle_root[first],
                             !.tx = tx_id[first], !.scopes = @ \ {b}])
    /\ UNCHANGED <<docVars, ledgerVars, envVars>>

\* FindRecordsByBatchID fails: continue with the next scope.
SkipScope(w, b) ==
    /\ wk[w].pc = "scan"
    /\ b \in wk[w].scopes
    /\ faults < MaxFaults
    /\ Goto(w, NextScope([wk[w] EXCEPT !.scopes = @ \ {b}]))
    /\ faults' = faults + 1
    /\ UNCHANGED <<docVars, ledgerVars, ledgerOn, used, notices>>

-----------------------------------------------------------------------------
(* Both: StoreMerkleBatch and what its answer leads to                      *)

Asked(w) == [batch |-> wk[w].batch, root |-> wk[w].root]

Store(w) ==
    /\ wk[w].pc = "store"
    /\ L!Endorse(w, Asked(w)) \/ L!Refuse(w, Asked(w)) \/ L!FailEarly(w, Asked(w))
    /\ Goto(w, [wk[w] EXCEPT !.pc = "wait"])
    /\ UNCHANGED <<docVars, envVars>>

\* The 30 s timeout, a dropped connection: the outcome stays unknown.
Timeout(w) ==
    /\ wk[w].pc = "wait"
    /\ Cardinality({t \in txs : t.waiter = NoClient}) < MaxOrphans
    /\ L!LoseStatus(w)
    /\ UNCHANGED <<docVars, wk, envVars>>

\* Anchored by this call: SetRecordBatchAnchored with the new transaction id.
StoreOk(w) ==
    /\ call[w].st = "ok"
    /\ Goto(w, Update([wk[w] EXCEPT !.tx = TRUE], "anchored"))

\* Mutant of StoreFailed: the error is logged and the batch processor goes on.
StoreFailedUnseen(w) ==
    /\ call[w].st \in {"already", "error"}
    /\ wk[w].role = "batch"
    /\ Goto(w, Update(wk[w], "anchored"))

\* A batch processor marks the batch failed on every error, also "already".
StoreFailed(w) ==
    /\ call[w].st \in {"already", "error"}
    /\ wk[w].role = "batch"
    /\ Goto(w, Update(wk[w], "failed"))

\* Mutants of StoreAlready: every error is taken for "already anchored", and
\* "already anchored" is handled like a new anchor.
StoreAnyError(w) ==
    /\ call[w].st \in {"already", "error"}
    /\ wk[w].role = "reconcile"
    /\ Goto(w, Update(wk[w], "synced"))

StoreAlreadyAnew(w) ==
    /\ call[w].st = "already"
    /\ wk[w].role = "reconcile"
    /\ Goto(w, Update(wk[w], "anchored"))

\* The reconciler takes "already anchored" for success and keeps the tx id ...
StoreAlready(w) ==
    /\ call[w].st = "already"
    /\ wk[w].role = "reconcile"
    /\ Goto(w, Update(wk[w], "synced"))

\* ... and leaves any other error for the next cycle.
StoreRetryLater(w) ==
    /\ call[w].st = "error"
    /\ wk[w].role = "reconcile"
    /\ Goto(w, NextScope(wk[w]))

Answered(w) ==
    /\ wk[w].pc = "wait"
    /\ L!Return(w)
    /\ StoreOk(w) \/ StoreFailed(w) \/ StoreAlready(w) \/ StoreRetryLater(w)
    /\ UNCHANGED <<docVars, envVars>>

\* The anchor_status that job leaves on a document.
StatusAfter(job, status) ==
    CASE job = "root" -> status
      [] job = "failed" -> "failed"
      [] OTHER -> "anchored"

\* Mutants of WriteDoc: a status the schema does not know, and a failed batch
\* that is marked without its root.
WriteDocJob(w, r) ==
    LET l == wk[w] IN
    /\ l.pc = "write"
    /\ r \in l.todo
    /\ merkle_root' = [merkle_root EXCEPT ![r] = l.root]
    /\ anchor_status' = [anchor_status EXCEPT ![r] = l.job]
    /\ Goto(w, [wk[w] EXCEPT !.todo = @ \ {r}])
    /\ UNCHANGED <<stored, batch_id, tx_id, ledgerVars, envVars>>

WriteDocNoRoot(w, r) ==
    LET l == wk[w] IN
    /\ l.pc = "write"
    /\ r \in l.todo
    /\ merkle_root' = [merkle_root EXCEPT ![r] = IF l.job = "failed" THEN @ ELSE l.root]
    /\ anchor_status' = [anchor_status EXCEPT ![r] = StatusAfter(l.job, @)]
    /\ Goto(w, [wk[w] EXCEPT !.todo = @ \ {r}])
    /\ UNCHANGED <<stored, batch_id, tx_id, ledgerVars, envVars>>

\* One document of SetRecordBatchMerkleRoot, MarkRecordBatchFailed or
\* SetRecordBatchAnchored, whichever the job is.
WriteDoc(w, r) ==
    LET l == wk[w] IN
    /\ l.pc = "write"
    /\ r \in l.todo
    /\ merkle_root' = [merkle_root EXCEPT ![r] = l.root]
    /\ anchor_status' = [anchor_status EXCEPT ![r] = StatusAfter(l.job, @)]
    /\ tx_id' = [tx_id EXCEPT ![r] = IF l.job \in {"anchored", "synced"} THEN l.tx ELSE @]
    /\ Goto(w, [wk[w] EXCEPT !.todo = @ \ {r}])
    /\ UNCHANGED <<stored, batch_id, ledgerVars, envVars>>

AfterWrite(l) == IF l.role = "batch" THEN IdleWorker ELSE NextScope(l)

\* notifyAnchored.
Notify(b) == notices' = [notices EXCEPT ![b] = @ + 1]

FinishWrite(w) ==
    /\ wk[w].pc = "write"
    /\ wk[w].todo = {}
    /\ Goto(w, AfterWrite(wk[w]))
    /\ IF wk[w].job = "anchored" THEN Notify(wk[w].batch) ELSE UNCHANGED notices
    /\ UNCHANGED <<docVars, ledgerVars, ledgerOn, used, faults>>

\* MongoDB fails under an update.  The batch processor only logs it and still
\* notifies an anchored batch; the reconciler skips the callback.
FailWrite(w) ==
    /\ wk[w].pc = "write"
    /\ faults < MaxFaults
    /\ faults' = faults + 1
    /\ Goto(w, AfterWrite(wk[w]))
    /\ IF wk[w].job = "anchored" /\ wk[w].role = "batch"
       THEN Notify(wk[w].batch) ELSE UNCHANGED notices
    /\ UNCHANGED <<docVars, ledgerVars, ledgerOn, used>>

-----------------------------------------------------------------------------
(* The rest of the world                                                    *)

\* A worker stops for good at any point: its process is killed, or the context
\* of its request is cancelled, so that every later call of it fails.
Crash(w) ==
    /\ wk[w].pc # "idle"
    /\ faults < MaxFaults
    /\ faults' = faults + 1
    /\ Goto(w, IdleWorker)
    /\ \/ L!Abandon(w)
       \/ L!Return(w)
       \/ call[w] = L!Idle /\ UNCHANGED ledgerVars
    /\ UNCHANGED <<docVars, ledgerOn, used, notices>>

\* An update is still running in MongoDB when its sender gets an error (a timeout,
\* a dropped connection) or stops.  The sender does what FailClaim, FailWrite or
\* Crash says; the update goes on, in the role of nobody.
Alone(l) == [l EXCEPT !.role = "none", !.scopes = {},
                      !.job = IF @ = "anchored" THEN "synced" ELSE @]

Outlive(w) ==
    /\ wk[w].pc \in {"claim", "write"}
    /\ faults < MaxFaults
    /\ faults' = faults + 1
    /\ Goto(w, Alone(wk[w]))
    /\ \/ wk[w].pc = "write" /\ wk[w].job = "anchored" /\ wk[w].role = "batch"
          /\ Notify(wk[w].batch)
       \/ UNCHANGED notices
    /\ UNCHANGED <<docVars, ledgerVars, ledgerOn, used>>

\* The API is restarted with the ledger configured.
EnableLedger ==
    /\ ~ledgerOn
    /\ \A w \in Workers : wk[w].pc = "idle"
    /\ ledgerOn' = TRUE
    /\ UNCHANGED <<docVars, ledgerVars, wk, used, notices, faults>>

Network == L!Network /\ UNCHANGED <<docVars, wk, envVars>>

Step(w) == \/ \E r \in Records : ClaimDoc(w, r) \/ WriteDoc(w, r)
           \/ ReadBack(w)
           \/ \E b \in Batches : ReadScope(w, b)
           \/ Store(w)
           \/ Answered(w)
           \/ FinishWrite(w)

Start(w) == StartReconcile(w) \/ \E b \in Batches : StartBatch(w, b)

Failure(w) == \/ FailClaim(w)
              \/ \E b \in Batches : SkipScope(w, b)
              \/ FailWrite(w)
              \/ Timeout(w)
              \/ Crash(w)
              \/ Outlive(w)

Next == \/ \E r \in Records : Insert(r) \/ SoftDelete(r)
        \/ \E w \in Workers : Step(w) \/ Start(w) \/ Failure(w)
        \/ EnableLedger
        \/ Network

Spec == Init /\ [][Next]_vars

\* A goroutine that does not crash goes on (Go's scheduler); the ticker of a
\* replica fires again and again; and the ledger does not fail for ever: calls
\* that are tried again and again are at times endorsed and committed in time.
Fairness ==
    /\ \A w \in Workers :
          /\ WF_vars(Step(w))
          /\ SF_vars(Store(w) /\ call'[w].st # "error")
          /\ SF_vars(Network /\ call'[w] # call[w])
    /\ \A w \in Tickers : SF_vars(StartReconcile(w))

FairSpec == Spec /\ Fairness

-----------------------------------------------------------------------------
(* Properties                                                               *)

\* No worker is still claiming records into b.
Closed(b) == \A w \in Workers : ~(wk[w].pc = "claim" /\ wk[w].batch = b)

\* root commits to b: it is the root over the final member list of b.
CommitsTo(b, root) == root = Members(b) /\ Closed(b)

\* A root that was computed at all is the root of the whole batch.  Every
\* stamped document, every anchor and every transaction in flight either
\* carries the empty string or commits to exactly the records that are, and
\* will ever be, in the batch, however claims, deletions, reconcilers and
\* failures interleave (ClaimRecordsForBatch, step 3, and what uses its result).
RootsAreWhole ==
    /\ \A r \in Records : merkle_root[r] # {} => CommitsTo(batch_id[r], merkle_root[r])
    /\ \A b \in Batches : chain[b] \notin {NoAnchor, {}} => CommitsTo(b, chain[b])
    /\ \A t \in txs : t.root # {} => CommitsTo(t.batch, t.root)

\* A claimed record stays in sight of the reconciler (FindUnanchoredBatchScopes
\* matches pending and failed) until its batch is on the ledger: no failure,
\* lost answer or competing worker makes the API take it for anchored early.
NeverForgotten ==
    \A r \in Records :
        batch_id[r] # NoBatch /\ chain[batch_id[r]] = NoAnchor
            => anchor_status[r] \in {"pending", "failed"}

\* The callback of a batch is issued at most once, whichever of the batch
\* processor and the reconcilers of all replicas gets the batch anchored.
OneNotice == \A b \in Batches : notices[b] <= 1

\* Worker w alone takes the step.
Steps(w) == \A v \in Workers : wk'[v] # wk[v] <=> v = w

\* Whoever issues a callback for a batch carries the root that is on the ledger
\* for it, also when others store, stamp or fail the same batch meanwhile
\* (notifyAnchored in ProcessRecordBatch and ReconcileBatches).
NoticeIsTrue ==
    [][\A b \in Batches : notices'[b] # notices[b] =>
          \E w \in Workers : Steps(w) /\ wk[w].batch = b /\ wk[w].root = chain[b]]_vars

\* No record is ever claimed twice: once in a batch it stays in that batch,
\* although the candidates of a claim are read before they are updated.
\* KeepsPromises below includes it; this holds even if ids are drawn twice.
BatchIsForever ==
    [][\A r \in Records : batch_id[r] # NoBatch => batch_id'[r] = batch_id[r]]_vars

\* A record deleted while it was pending never enters a batch, even if a claim
\* had already read it as a candidate.
DeletedStaysOut ==
    [][\A r \in Records : stored[r] = "deleted" => batch_id'[r] = batch_id[r]]_vars

\* The three places a root is kept agree: a record marked anchored carries the
\* root of its batch, and so does the ledger.  This is what anchoring is for; it
\* needs that no step between claim and stamp is lost or overtaken.
RootsAgree ==
    \A r \in Records : anchor_status[r] = "anchored" =>
        /\ chain[batch_id[r]] = Members(batch_id[r])
        /\ merkle_root[r] = Members(batch_id[r])

\* The ledger holds the root that the batch committed to at creation.
OnChainRootIsBatchRoot ==
    \A b \in Batches : chain[b] # NoAnchor => chain[b] = Members(b)

\* The pipeline keeps the promises of AnchoredBatches: every step of it, of any
\* worker, is one of those steps, or changes nothing that a reader could see.
\* Above all a record never joins a batch that has a root already, be it on one
\* document only (ProcessRecordBatch, ReconcileBatches and what they call).
P == INSTANCE AnchoredBatches
       WITH batch <- batch_id, root <- merkle_root, anchor <- chain, told <- notices,
            marked <- [r \in Records |-> anchor_status[r] = "anchored"]
KeepsPromises == P!Spec

\* Once a record is claimed and a ledger is configured, its batch ends up marked
\* anchored and stays so: crashes, MongoDB errors, ledger errors and answers that
\* overtake one another delay the anchor but never leave the batch stranded.
EventuallyAnchored ==
    \A r \in Records :
        (batch_id[r] # NoBatch /\ ledgerOn) ~> [](anchor_status[r] = "anchored")

-----------------------------------------------------------------------------
(* Inductive invariants, for the proofs                                     *)

\* Workers hold a batch from the claim on.
HoldsBatch ==
    \A w \in Workers : wk[w].pc \in {"claim", "store", "wait", "write"} => wk[w].batch \in Batches

\* Batch ids come from StartBatch, and no two claims share one.
IdsAreDrawn ==
    /\ \A r \in Records : batch_id[r] # NoBatch => batch_id[r] \in used
    /\ \A w \in Workers : wk[w].pc = "claim" => wk[w].batch \in used
    /\ \A v, w \in Workers :
          wk[v].pc = "claim" /\ wk[w].pc = "claim" /\ wk[v].batch = wk[w].batch => v = w

\* The root a worker is about to store or stamp commits to its batch.
LocalsAreWhole ==
    \A w \in Workers :
        wk[w].pc \in {"store", "wait", "write"} /\ wk[w].root # {}
            => CommitsTo(wk[w].batch, wk[w].root)

\* The documents a worker still has to update are those of its batch.
UpdatesOwnBatch ==
    \A w \in Workers : wk[w].pc = "write" => wk[w].todo \subseteq Members(wk[w].batch)

\* Roots are only stamped on claimed records.
StampedIsClaimed == \A r \in Records : merkle_root[r] # {} => batch_id[r] # NoBatch

WholeInv == /\ TypeOK /\ HoldsBatch /\ UpdatesOwnBatch /\ StampedIsClaimed
            /\ IdsAreDrawn /\ LocalsAreWhole /\ RootsAreWhole

\* A worker waits for the request it made.
WaitsForAnswer ==
    \A w \in Workers :
        IF wk[w].pc = "wait"
        THEN call[w] # L!Idle /\ call[w].batch = wk[w].batch /\ call[w].root = wk[w].root
        ELSE call[w] = L!Idle

\* anchored is only written, and only about to be written, for an anchored batch.
AnchoredIsOnChain ==
    /\ \A r \in Records :
          /\ batch_id[r] = NoBatch => anchor_status[r] = "none"
          /\ batch_id[r] # NoBatch => anchor_status[r] # "none"
          /\ anchor_status[r] = "anchored" => chain[batch_id[r]] # NoAnchor
    /\ \A w \in Workers :
          wk[w].pc = "write" /\ wk[w].job \notin {"root", "failed"}
              => chain[wk[w].batch] # NoAnchor

\* Worker w was told that its own request anchored b, and has not announced it.
Announcing(w, b) ==
    /\ wk[w].batch = b
    /\ \/ wk[w].pc = "wait" /\ call[w].st = "ok"
       \/ wk[w].pc = "write" /\ wk[w].job = "anchored"

AnnouncesOnce ==
    \A b \in Batches :
        /\ notices[b] <= 1
        /\ notices[b] = 1 => chain[b] # NoAnchor /\ \A w \in Workers : ~Announcing(w, b)
        /\ \A w \in Workers : Announcing(w, b) => chain[b] = wk[w].root
        /\ \A v, w \in Workers : Announcing(v, b) /\ Announcing(w, b) => v = w

StatusInv == /\ TypeOK /\ HoldsBatch /\ UpdatesOwnBatch
             /\ L!WaitsForOwn /\ L!AnswersAreTrue
             /\ WaitsForAnswer /\ AnchoredIsOnChain /\ AnnouncesOnce

\* A job is done for the worker's own role.
RolesFit ==
    \A w \in Workers : /\ wk[w].pc = "claim" => wk[w].role = "batch"
                       /\ wk[w].pc = "scan" => wk[w].role = "reconcile"

\* No root that is sent, in flight, stored or about to be stamped is the empty string.
RootsAreComputed ==
    /\ \A w \in Workers : wk[w].pc \in {"store", "wait", "write"} => wk[w].root # {}
    /\ \A t \in txs : t.root # {}
    /\ \A b \in Batches : chain[b] # {}

\* Worker w is the batch processor that claimed r, and has yet to stamp it.
InHand(w, r) ==
    /\ wk[w].role = "batch" /\ wk[w].batch = batch_id[r]
    /\ \/ wk[w].pc \in {"claim", "store", "wait"}
       \/ wk[w].pc = "write" /\ r \in wk[w].todo

\* A claimed record without a root is pending, and somebody is about to stamp it.
UnstampedIsInHand ==
    \A r \in Records : batch_id[r] # NoBatch /\ merkle_root[r] = {}
        => anchor_status[r] = "pending" /\ \E w \in Workers : InHand(w, r)

\* Inductive for one worker that never fails; another worker reads the batch
\* before its root is stamped, and a crash leaves it without one.
SerialInv == WholeInv /\ StatusInv /\ RolesFit /\ RootsAreComputed /\ UnstampedIsInHand
==============================================================================
