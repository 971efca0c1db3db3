# AeternisLog in TLA+

AeternisLog stores records of several tenants in MongoDB, groups them into
batches, and anchors the Merkle root of every batch on Hyperledger Fabric, so
that a later change of a record can be shown. This directory models the part of
it where steps of several processes, failures and restarts meet, checks the
models with TLC and proves the main results with TLAPS.

## The system

| Part | State it keeps | Operations | What makes it correct |
|---|---|---|---|
| Record create path (`handlers/records.go`, `wal/wal.go`, recovery in `cmd/api/main.go`) | the file `records.wal`, its counter of pending entries, one MongoDB document per record | `CreateRecord`, `Append`, `Confirm`, `New`, `Recover` | an appended record survives a crash, an acknowledged one is never lost or overwritten |
| Record store (`database/collections.go`) | per document: `deleted_at`, `batch_id`, `anchor_status`, `merkle_root`, `tx_id` | insert, soft delete, claim, three batch updates, queries | a record joins one batch for good, deleted ones stay out |
| Batch processor and reconciler (`merkle/batch_processor.go`) | the local variables of each call; the ticker | `ProcessRecordBatch`, `ReconcileBatches`, `VerifyRecordBatch`, `Start`, `Stop` | every batch is anchored in the end, under the root of exactly its records |
| Ledger (`fabric/*.go`, `chaincode/logchaincode.go`) | one value per (tenant, batch id) key; transactions in flight | `StoreMerkleRoot`, queries | anchors are write-once, and what a caller is told is true |
| Webhook (`webhook/notifier.go`) | callbacks under way | `NotifyBatchAnchored` | one true callback per batch |
| Verification (`VerifyRecordBatch`, `handlers/public.go`) | none | recompute and compare | a changed record is reported, an unchanged one is not |
| Hashing and trees (`models/record.go`, `models/merkle.go`) | none | canonical payload, record hash V1 and V2, tree V1 and V2 | the root does not depend on anything but the records, and determines them |
| Middleware and configuration (`middleware/`, `cache/`, `pkg/config`) | settings, API keys, request counters | `LoadConfig`, authentication, rate limit | a key acts for the tenant it is written for, a burst is bounded, nobody is locked out |
| Migrations (`migrations/`, `cmd/migrate`) | versions applied | `Run`, `AssertVersion` | applied once, in order |
| Lifecycle (`cmd/api/main.go`) | what `main` has open, running flag, stop channel | boot, drain, stop, deferred calls | what was appended survives the shutdown, which ends |
| Audit report (`report/`, `handlers/report.go`) | none | aggregation per batch | two ranges that meet count every batch once |
| SDKs (`sdk/go`, `sdk/python`) | one call at a time per goroutine | create, batch, retries, local verification | what a call reports is true; the local verdict is the server's |
| Logging, metrics, health, dashboard, deployment files | none that a step reads | | |

The handlers, the tickers of all replicas and the reconcilers share nothing but
MongoDB and the ledger. What is hard in this code follows from that: claims of
several batchers overlap; a reconciler looks at a batch its owner has not
finished; an answer of the ledger is lost and the transaction commits later; a
process stops between any two updates; a multi-document update is seen half
done. `PROJECT.json` lists these hazards at the lines where they bite.

## The modules

| Module | Models | Extends or instantiates |
|---|---|---|
| `WriteOnceLedger` | what the API may expect of a ledger: an abstract specification | |
| `Ledger` | `StoreMerkleBatch`, the gateway's `Invoke`, the chaincode's `StoreMerkleRoot` | `WriteOnceLedger` through a refinement mapping |
| `AnchoredBatches` | what the anchoring pipeline promises to the readers of documents, ledger and callbacks: an abstract specification | |
| `Anchoring` | `ProcessRecordBatch`, `ReconcileBatches`, the document updates, crashes | `Ledger`, with the workers as its clients; `AnchoredBatches` through a refinement mapping |
| `RecordWAL` | `CreateRecord`, the write-ahead log, crashes and recovery | |
| `Merkle` | record hashes, trees and batch roots of the API and of the SDK | |
| `Chaincode` | every transaction and query of the contract, over the keys of its channels | `Merkle` |
| `Verification` | verify endpoint, public anchor, chaincode check, SDK check and audit report, against batching, reconciling and edits | `Chaincode` |
| `RecordsAPI` | create, get, delete, batch and list, called by the SDK over a lossy network, and a reader of the list | `Merkle` |
| `Service` | boot, serving and shutdown of the API process, the migration jobs, a rollout of two releases | |
| `FrontDoor` | configuration, rate limiter, API keys | |
| `MC...` | instances and symmetry sets for TLC | the module they are named after |
| `LedgerProofs`, `AnchoringProofs`, `RecordWALProofs`, `MerkleProofs`, `VerificationProofs`, `RecordsAPIProofs`, `ServiceProofs`, `FrontDoorProofs` | proofs | the module they are named after; `VerificationProofs` also `MerkleProofs`, and `AnchoringProofs` instantiates `LedgerProofs` with the workers as clients |

The modules overlap on purpose where one component is seen from two sides.
`Anchoring` and `Ledger` take a batch apart into every update and every ledger
message; `Verification` and `RecordsAPI` use a coarser batch whose steps are
those that a reader, or a client, can tell apart. `RecordWAL` has the log line
by line; `Service` has it as a set of records and adds who opens and closes it.

### Ledger

`chain[b]` is the value of the composite key of batch `b`. A caller's `Invoke`
is `Endorse` (the chaincode runs, finds no value and proposes a write), `Refuse`
(it finds one and answers "already anchored") or `FailEarly`. An endorsed
transaction is in `txs` with its waiter until the orderer and the committer
decide it: `Commit` if the key is as the endorsement read it, `Invalidate`
otherwise (an MVCC conflict, which is *not* the "already anchored" error).
`LoseStatus` is the timeout or the dropped connection of
`StatusWithContext`: the caller gets an error and the transaction lives on as an
orphan, which may still commit or be dropped. Ordering and validation belong to
Fabric and are modelled from how `Invoke` uses them.

`WriteOnceLedger` has no transactions: an anchor appears at most once per key,
success is answered for the root that is there, a failure says nothing, and
requests given up may take effect later (`late`). `Ledger` implements it with
`late` the requests of the orphaned transactions.

### Anchoring

One variable per field of the documents; a record is its position in the
`(created_at, id)` order. `wk[w]` holds the local variables of worker `w`, a
goroutine of any replica; its `pc` says what it does next: `claim` (the claiming
`UpdateMany`, one document per step), `store` and `wait` (`StoreMerkleBatch`),
`write` (one of the three batch updates, again one document per step, chosen by
`job`), `scan` (the reconciler between two batches). `job` is

- `root`: `SetRecordBatchMerkleRoot`, when no ledger is configured;
- `failed`: `MarkRecordBatchFailed`;
- `anchored`: `SetRecordBatchAnchored` after a success, followed by the callback;
- `synced`: `SetRecordBatchAnchored` after "already anchored", no callback.

A root is the set of records it was computed over, so hashing is injective by
assumption, and `{}` is the empty string, a root that was never stamped.
`FailClaim`, `SkipScope` and `FailWrite` are MongoDB errors, `Crash` is the
death of a process or the cancelled context of a request, `Timeout` the 30 s
limit. After an error or a crash the `UpdateMany` that was under way stops where
it is, or runs on in MongoDB while its sender takes it for failed (`Outlive`): it
keeps its worker, in the role "none", until it is done, and nobody reads back
what it claimed. A read of all members of a batch is one step; an update of them
is not. All records are of one tenant and domain, which is the scope of every
query.

`AnchoredBatches` has no workers, ledger calls or failures: records join open
batches one by one; a batch that has a root on a document or on the ledger is
closed; a root is that of all members, or empty because it was lost; records are
stamped and marked in any order, marked only once the ledger has the batch; and
there is one callback at most. `Anchoring` implements it if batch ids are unique:
a document's fields are those of the store, `marked` says that `anchor_status` is
"anchored", and everything a worker or a transaction knows is forgotten.

### RecordWAL

A line of `file` is an entry or `Corrupt`; `open` says that the last line has no
newline, so that the next write joins it. `disk` and `diskOpen` are the same for
what survives a power loss: the content at the last fsync, or at a later `Flush`,
with which the kernel writes back what it has. `Append` is `Write`, which takes
the mutex, and `Sync`, which releases it; `Insert` is `InsertRecord` with a
duplicate or an error of unknown outcome; `Confirm` counts down and empties the
file at zero. `Crash` is a kill, which keeps the file, or a power loss, which
leaves the disk, with the line that was being written back maybe cut short. What
is truncated and not written back comes back with the power. `Start` is
`wal.New`; `Replay` is `Recover`, one line per step; after `ReplayFails` the API
serves requests over the file that was left, as `main` does. `owed` and `acked`
record what `Append` and the answer 201 promised, `cuts` how many lines were cut
short; nothing reads them.

### Merkle and Chaincode

A digest is its own pre-image, a record of what was hashed, so that two digests
are equal only if their inputs are. Strings are sequences: the first record hash
concatenates id, timestamp and source, and loses the boundaries between them
here as in the code; the second keeps the fields apart. `LevelV1` and `LevelV2`
are one round of the loops of `BuildMerkleTree` and `BuildMerkleTreeV2`, which
differ in what they do with an odd last node. `batchHashVersion` takes the
version of the first record for the whole batch, as the code does.
`SDKMerkleRoot` is the copy in `sdk/go/record.go`, `MerkleTree` the one in the
chaincode.

`chain[ch][key]` is the history of a key, its last element the world state. Logs
are under plain keys, batches under composite keys with the tenant that
`clientTenant` reads off the caller's certificate.

### Verification

`doc[r]` is a document with the fields that verification reads; `job[b]` is a
batching call, `sealed[b]` what its documents held when it computed the root, by
which it is only counted, in the number that goes to the ledger. `VerifyRead` and `VerifyQuery` are the two reads of
`VerifyRecordBatch`, first the documents and later the ledger; between them
claims, anchors, stamps, reconcilers and edits go on. `Answers` is what the call
would say if it asked the ledger now, a failed lookup included; `GetAnchor` is
the set of answers of the public lookup: the root, "not found", or 502 where the
ledger cannot be asked. `Edit` changes
a document of an anchored batch behind the API's back, with or without storing
a matching root in the documents. `Init` has a ledger or none, an older
anchored batch of another tenant, and documents of the first hash scheme among
those of the second. A reconciler whose identity the chaincode refuses changes
nothing; `GatewayAssumption` says that what is anchored already was anchored by
an identity that it accepts. Two further conditions are hypotheses of single
theorems and hold in the instance: `OwnCertificates`, that tenants with an
identity do not share its certificate, and `HashesApart`, that no two records
have the same first hash.

### RecordsAPI

A call of the SDK is `[op, attempt, result, ...]`; an attempt puts a request on
the wire. `GiveUp` is a broken connection or the client's ten seconds, after
which the request may still be carried out or be `Cancelled`. `Stamp` and
`Insert` are the two ends of the create handler: the time is taken before the
document is there, so documents appear out of order. `Choose` and `Claim` are
the two halves of a forced batch: the oldest pending records are those with fewer
than a batch of pending ones before them. `InsertFails` and `ClaimFails` are MongoDB
errors of unknown outcome. `ListRecords` is the query behind a page; `walk` is a
reader that follows the cursors. An order is written as a rank: the k-th record
has k - 1 records before it. `before`, `settled`, `there` and `seen` record
what the properties compare; no other action reads them.

### Service

`pc[p]` is where `main` of process `p` is, `open[p]` the connections, files and
listener it holds, `hs[p]` and `tick[p]` its request goroutines and its ticker.
`Boot` to `Start` are the lines of `main` in order; `Signal`, `Drained`,
`Stopped` and `CloseNext` are the shutdown, where both waits end at their
deadline whether or not what they wait for has, and the deferred calls run in
`CloseOrder`. A handler that is still running then finds its stores closed. An
insert that MongoDB refuses with an error is answered and confirmed like one that
it stores; what a timeout may do later is in `RecordWAL`.
`Apply` is a migration job, one step per call to MongoDB; jobs and processes of
two releases run at once, and the chart decides which are started. `Killed` and
`JobFails` stop a process or a job anywhere.

### FrontDoor

`overrideFromEnv` treats settings by kind: flags, texts, numbers and lists each
have one rule, with the exceptions the code makes. `Validate` decides whether an
instance starts. The limiter counts in Redis or, if Redis was missing at boot,
in the instance. `Request` is a request whose hit the store answers at once.
`RequestFails` is one that Redis leaves without an answer, after counting it or
not; the Redis client then sends the script again (`Retry`, `RetryFails`), up to
`MaxRetries` times, and each attempt may be counted. `FailOpen` is the error at
the end of that, with which `RateLimiter` lets the request through. `waiting`
holds such requests between two attempts. All requests come from one address.
Keys are secrets in plain or as their hash, and the keys of a group are a set;
groups keep their positions, because the last group that names a key decides
whose it is. `counted` logs the times of the hits of a store that were within the
limit, as long as its counter lives, and `lost` says which of them in Redis were
never answered; they, `refused` and `served` record what happened to requests,
and nothing reads them.

## What TLC checks

| Run | Instance | Properties |
|---|---|---|
| `ledger` | 3 callers, 2 keys, 2 roots | `TypeOK`, `AnswersAreTrue`, `WriteOnce`, `Implements` |
| `anchoring` | 2 workers that batch and reconcile, 2 records, 2 batch ids, 1 crash, MongoDB error or update that outlives its sender, 1 orphan | `TypeOK`, `NeverForgotten`, `OneNotice`, `NoticeIsTrue`, `RootsAreWhole`, `KeepsPromises` |
| `anchoring_serial` | 1 worker, 3 records, one of which may be deleted, 1 orphan, no crash, ledger off at first or not | `RootsAgree`, `DeletedStaysOut` |
| `anchoring_fair` | 2 workers, 1 record, 1 crash, error or update that outlives its sender, with fairness | `EventuallyAnchored` |
| `wal` | 2 handlers, 2 ids with 2 bodies, 3 requests, 2 crashes, 1 I/O or MongoDB error, lines cut short, with fairness | `TypeOK`, `CutLosesOne`, `AckedIsStored`, `PendingCovers`, `EventuallyStored` |
| `verification` | 4 records of 2 tenants, one with its own certificate, 1 batch in progress and 1 anchored before, 1 edit, 1 log, both hash schemes and a mixed batch | `TypeOK`, `ValidIsUnchanged`, `NoFalseAlarm`, `SDKAgrees`, `ChaincodeAgreesOnV1`, `TenantsApart`, `LogsStayApart`, `ReportsAddUp` |
| `service` | a process and a job of each of 2 releases, 1 handler each, 2 records, 1 kill, 1 error, with fairness | `TypeOK`, `ServedSchemaIsComplete`, `RecordedOnceInOrder`, `AppendedIsKept`, `ShutdownEnds`, `LastReleaseServes` |
| `records_api` | 1 client with 2 calls of 2 attempts, 2 old records and a new one between them in the order, pages of 1, batches of 1, 1 deletion, 1 error | `TypeOK`, `AnsweredCreateIsStored`, `BatchCoversEarlier`, `WalkIsExact` |
| `frontdoor` | 2 instances, 2 files, 10 environments, 7 presented keys, 3 ticks with windows of 2, 1 request sent once more, 1 restart, lost answer or loss of Redis | `BurstBound`, `RefusedForCause`, `ServedIsEntitled` |

What the newer properties say of the code:

- `ValidIsUnchanged`: `VALID` against the ledger means that the records are as
  they were when the root was computed, even if an edit also stores a matching
  root. It is claimed for the second record hash only; the first one lets a
  symbol move from the id to the timestamp unseen.
- `NoFalseAlarm`: without edits, documents that were read as anchored with a
  root are never `CORRUPTED`. Documents read earlier can be, and a batch whose
  owner died before the stamp always is: its stored root is empty.
- `ChaincodeAgreesOnV1`: the chaincode's own check knows the first tree only and
  refuses intact batches of the second scheme, so nothing is claimed for them.
- `AppendedIsKept` holds because the log is closed before MongoDB is, and
  because processes do not overlap. With `Overlap = TRUE`, the surge of a
  rolling update, it fails: the new process truncates a log the old one still
  appends to. The chart asks for one replica and leaves the strategy open.
- `BatchCoversEarlier`: after a successful `BatchRecords` the records that were
  pending before are claimed, or a full batch is, although retries report an
  empty batch as a success.
- `NoticeIsTrue`: the worker that issues a callback is at work on that batch and
  holds the root that the ledger has, which is the root the callback carries.
- `BurstBound`: the limit of a fixed window can be passed at its edge, but in any
  stretch as long as a window a store finds less than twice the limit within it,
  whether the hits were answered or not. Instances that count by themselves each
  have a limit of their own, an instance that is restarted begins a new count,
  and requests that Redis leaves without an answer are let through beyond it.
- `RefusedForCause`: a refusal has as many hits within the limit behind it as the
  limit allows, all in the last window. Each let a request through, or got no
  answer in time: a client may be refused after fewer requests than the limit,
  because one that is sent again after a lost answer is counted again, and for no
  other reason.

`OwedIsRecoverable` is false once a line can be cut short (`wal_torn`);
`CutLosesOne` bounds the damage: no cut, no loss, and each cut loses one record
at most. That the log is emptied although an insert failed is accepted by the
comment at `records.go:107-110`: the client is told. Operators
commented as a mutant are faulty variants of the definition before them; no
specification uses them. They show which change of the code each property
would notice.

The bounds: two workers are what an interleaving of an owner with a reconciler,
or of two claims, needs; a third would only repeat a role. Two records make a
batch that can be claimed, stamped or read in part, and can be split between
two batches. One fault is enough for every single crash or lost update, and an
orphan is a transaction that outlives its caller. Deletions only change what a
claim takes, which one worker shows (`anchoring_serial`). Ids do not run out in
these instances, since each record needs one batch at most. For the log, three
requests and two crashes give a crash during recovery, a failed recovery
followed by a truncation, and two requests for one id. Three records are the
least odd batch above one, where the trees differ. Two releases are the least
rollout, and the jobs of both may compete. A page of one record makes every page
full and every record a boundary; the two old records share a creation time and
the drawn id lies between theirs. Two attempts give a retry that meets its own
predecessor. `MaxHits` bounds the hits counted in one window above the
largest limit, and one lost answer is enough to count a request twice. Three
ticks hold a window of two and part of the one before it.

Three runs end in a violation on purpose; each shows that the code does something
else than a comment or a document says:

| Run | Property | What happens |
|---|---|---|
| `anchoring_race` | `OnChainRootIsBatchRoot` | A reconciler reads a batch between claim and stamp and anchors the empty root, although its comment says it re-submits what the batch committed to at creation (`batch_processor.go:359-361`). The owner then gets "already anchored" and marks the batch failed; the reconciler marks it anchored. |
| `wal_torn` | `OwedIsRecoverable` | A failed write leaves half a line; the next record is appended to it and is lost at the next crash although its `Append` succeeded (`wal.go:2-4`). |
| `sdk_hash` | `HashesMatch` | The Go SDK hashes a new record without a version, that is under the first scheme, the server under the second: every `CreateRecord` is stored and then reported as a mismatch (`client.go:63-64`). |

Three more divergences follow from states these runs reach. After a crash
between claim and stamp, and a lost answer of the reconciler that then anchors
the empty root, a batch ends up marked anchored with neither root nor
transaction id. If the commit status of a batch was lost, no worker knows that it
anchored the batch, and no callback is sent (`README.md:98`). And two claims may
draw the same eight hexadecimal digits (`UniqueIds = FALSE`) and share a batch.

`RootsAgree` and `OnChainRootIsBatchRoot` are the properties a user would expect
first. They hold for one worker that does not crash and fail otherwise; what
holds always is `RootsAreWhole`: a root is whole or empty.

### Fairness

`EventuallyAnchored` assumes that a goroutine which does not crash goes on
(weak fairness of `Step`), that the ticker of a replica finds the batch again
and again (strong fairness of `StartReconcile`: the ticker fires periodically
and is idle in between), and that the ledger does not fail for ever (strong
fairness of an endorsement that succeeds and of a commit that is in time).
Nothing is assumed of `Start` of a batch, of requests or of failures.
`EventuallyStored` assumes that a handler goes on and that the process is
started again after a crash, as the restart policies of the compose file and
the chart do. A replay that meets an error is only repeated at the next start:
the property then asks that the entry is still in the file.

In `Service`, boot and shutdown go on, and a failed job and a process of the
current release that has ended are started again, as Kubernetes does; a process
of an older release is told to stop. Nothing is assumed of handlers, of the
ticker or of the ledger: `ShutdownEnds` rests on the deadlines alone.

`CHECK_DEADLOCK FALSE` appears where an instance can come to rest: all records
anchored, or all requests answered.

## What is proved

Every invariant, action property and refinement of the passing runs is a theorem
of its specification, for every number of callers, workers, records, batches,
tenants, releases and instances, and every bound on failures. What is under
hypotheses says so.

- `LedgerProofs`: `TypeCorrect`, `AnswersTrue`, `AnchorsAreWriteOnce` and `LedgerImplementsWriteOnce`. The inductive
  invariant `LInv` adds `WaitsForOwn`, which keeps the model's books: the waiter of
  a transaction is the caller that is waiting with that request.

- `AnchoringProofs`, types and claims: `TypeCorrect`, and by it that every step
  of the pipeline is a step of the ledger or leaves it alone
  (`StepIsLedgerStep`), so that the ledger's results carry over;
  `ClaimsAreFinal` and `DeletedIsNotClaimed`, from the fact that only a claim
  changes `batch_id`, and only of a pending record.

  Roots: `RootsCommitToBatches`, under the hypothesis that batch ids are
  unique (without it two claims share a batch, see above). `RootsAreWhole` is not
  inductive: the roots on documents, in transactions and on the ledger come from
  workers, and a worker's root is whole because nobody else claims into its
  batch. `WholeInv` adds the roots workers hold (`LocalsAreWhole`), that ids are
  drawn once (`IdsAreDrawn`), that updates touch the members of the batch
  (`UpdatesOwnBatch`) and that roots are stamped on claimed records only. The
  centre is the lemma `ClosedStays`: once the worker that filled a batch has left
  its claim, the members of the batch do not change.

  Statuses: `ClaimedIsNeverForgotten`, `BatchIsAnnouncedOnce` and
  `CallbacksAreTrue`. `StatusInv` adds to `NeverForgotten` and `OneNotice` that a
  worker waits for the request it made (`WaitsForAnswer`), that "anchored" is
  only about to be written for a batch that is on the ledger
  (`AnchoredIsOnChain`), and that at most one worker knows that it anchored a
  batch and has not announced it (`AnnouncesOnce`). No hypothesis on batch ids is
  needed.

  Promises: `PipelineKeepsPromises`, the refinement of `AnchoredBatches`, if
  batch ids are unique. A step maps to one abstract step or to a stutter; that it
  does rests on `WholeInv` for roots and claims (a worker that is still claiming
  has a batch without any root, `ClaimedIsOpen`) and on `StatusInv` for marks and
  callbacks.

  One worker: `RootsAgreeInSeries`, that documents and ledger agree on the root of
  an anchored batch, for one worker, unique ids and no failures
  (`MaxFaults = 0`). These hypotheses are what the property needs: with a second
  worker or a crash it is false, which `anchoring_race` shows. `SerialInv` adds
  that nothing sends the empty root (`RootsAreComputed`), and why: a claimed
  record without a root is in the hands of the processor that will stamp it
  (`UnstampedIsInHand`), so that the one worker is not reconciling.

- `RecordWALProofs`: `TypeCorrect`; `AcknowledgedIsStored`, from the facts that
  inserts are refused for an id that exists and that nothing removes a document;
  `CutsLoseOneEach`, `CounterCovers`, `UncutLogIsRecoverable` and, as its special
  case, `RecoverableIfNotTorn`. `FileInv` is about the set `gone` of entries that
  cuts have cost so far. `Paid`: there are no more of them than cuts, and one
  less while a fragment at the end of the file, or of the disk, waits for the
  line that will join it (`Exposed`). `Safe`: every other owed entry is stored, or
  has a line that no write can spoil (`Firm`), in the file and on the disk.
  `Counted`: the file is emptied only when the counter is zero, and the counter is
  at least the number of handlers at work (`Active`) plus the number of entries
  that a failed replay left behind and nobody is inserting (`Orphans`). One
  handler at a time has written and not synced (`OneWriter`), and the replay
  leaves what it has passed in MongoDB (`ReplayedIsStored`).

- `MerkleProofs`: `RootDeterminesLeaves` and `RootCommitsToRecords`: under the
  second scheme a root determines the number of the leaves, every leaf, and
  thereby every hashed field of every record. Batches of different length are
  told apart by the leftmost path, which is as long as the tree is high.
  `FirstSchemeDuplicates` is the weakness that led to the second scheme: a
  sequence of odd length and the one with its last element repeated have the same
  next level. `FirstRootDetermines` and `FirstSchemeCommits` say that this is all:
  under the first scheme too, the root determines a list that repeats no hash.
  `SDKComputesTheRoot`: the copy in the SDK computes the server's root, for all
  inputs. That the loops are defined, and what two loops have in common, is shown
  by the least number for which it would fail (`LeastElement`), as induction
  theorems cannot be instantiated here.

- `VerificationProofs`: `TypeCorrect`, `ValidCommits` (`ValidIsUnchanged`),
  `NoFalseAlarms`, `SDKsVerdict`, `LogsAreApart`, `ReportsAdd`; `TenantsStayApart`
  if `OwnCertificates`; `ChaincodesVerdict` if `HashesApart`. The invariant `Safe`
  has five parts: the shape of documents, calls and the answer (`Typed`); that a
  key of a channel is a log or the one anchor of a batch (`ChainTyped`); that what
  is said to be anchored is (`AnchoredInv`); that without edits every root there is
  is that of its batch as it stands (`RootsInv`); and that a root that the ledger
  or a call holds is the root of documents that held what was sealed (`SealInv`).
  Edits may change stored roots, so `SealInv` trusts those only until the batch is
  anchored. `ValidIsUnchanged` then follows by `RootCommitsToRecords`. The report
  rests on `BatchedTogether`, that the documents of a batch have one `batched_at`;
  its totals are folds over sets of rows, and that a fold over a union of two
  ranges adds up is shown by a least counterexample. The chaincode's verdict rests
  on its tree being the first one (`ChaincodeComputesTheTree`) and on two
  invariants, that the hashes of a batch differ (`ApartInv`) and that the ledger
  has the number of records the root was computed over (`NumInv`): without
  `HashesApart` a batch and its duplicate-extended copy have the same first root
  and different numbers.

- `RecordsAPIProofs`: `TypeCorrect`, `AnsweredIsStored`, `BatchCovers` and
  `WalksAreExact`. Two arguments meet. A client waits for one request and has at
  most one answer under way, because answers to attempts that were given up go
  nowhere (`Exchange`); so what an answer says is said of the call that takes it
  (`Truth`), and stays true since documents never go and what is settled stays
  settled (`Grows`). And the rank of a record in a finite ordered set is a
  position, so a page is a prefix of what is behind the cursor (`PageIsExact`);
  what was read is not behind the cursor, what is still to be shown is (`Walk`).

- `ServiceProofs`: `TypeCorrect`, `RecordedOnce` and `ServedSchema`, with
  `SchemaInv`: a job looks at the versions behind the unique index, the versions
  below the one it works on are recorded, and a process that has passed its
  assertion has found its version. `AppendedKept` is under `Overlap = FALSE`, the
  hypothesis that the chart leaves open (see above). `LogInv` adds that one
  process is up and nothing is left of the one before, that MongoDB is closed
  last, that a record has one handler, and that the counter of the process covers
  what its handlers have not confirmed and what only the log keeps.

- `FrontDoorProofs`: `BurstsAreBounded`, `RefusalsHaveCause` and
  `ServedAreEntitled`, for any file and environment of the right types. A counter
  stands for its last window: that was opened by a hit within the limit
  (`Window`), the log has as many of them as the counter says, up to the limit, and
  the stretch of a window's length before it misses at least one, the hit that
  opened the window before (`Filled`). The keys in force are those of the
  environment before the file (`KeysInForce`), and the tenant of a key is that of
  the last group that names it, which exists among finitely many groups
  (`MaxIsElement`).

The assumptions are those of the modules, each named there: records are natural
numbers in which every non-empty set has a least element, or finite sets of
them; sentinels are not values; a file of settings has all of them, an
environment some. A hash is injective by construction.

TLC evaluates the assumptions on every instance, and it finds no state of these
instances that breaks the inductive invariants `LInv`, `Base`, `WholeInv`,
`StatusInv`, `SerialInv` (for `anchoring_serial`), `WALInv`, `Typed`,
`ChainTyped`, `AnchoredInv`, `RootsInv`, `BatchedTogether`, `ApartInv`, `NumInv`,
`SchemaInv`, `LogInv`, and `Inv` of the records API and of the front door.
`SealInv` quantifies over all sequences of documents and is out of its reach.

Model-checked only: `EventuallyAnchored`, `EventuallyStored`, `ShutdownEnds` and
`LastReleaseServes`, because fairness and ENABLED are out of the prover's reach.
The three properties of the runs that end in a violation are false.

## What is not modelled

- Logging, metrics, health and the dashboard keep no state that another step
  reads. CORS, security headers, body limit and the pattern for domain names
  are checks of a single request.
- The webhook's delivery retries end in one log line; when a callback is issued
  is in `Anchoring`. The report's PDF and JSON layouts are rendering.
- `Get`, `Set` and the other general operations of the Redis client have no
  caller outside the tests.
- Date layouts that `FlexTime` parses; the hash takes the timestamp as given.
- The Python SDK mirrors the Go SDK; its command line prints what it returns.
- MongoDB is one durable store: a failover that rolls back an acknowledged write
  is not modelled. A rollback to an older release is not either; `AssertVersion`
  would refuse the newer schema.
- The repository says that the limiter counts in memory per instance
  (`README.md:121`); the model follows the code, which uses Redis if it is there.

## Plan

Done: the ledger and its refinement, anchoring, the log, verification, the API
as its callers see it, the service and its migrations, the front door; a proof
of every invariant, action property and refinement that a passing run checks.

Left: an abstract specification of the log, as a queue that loses nothing but
what is cut, and its refinement; a rollback of a release.
