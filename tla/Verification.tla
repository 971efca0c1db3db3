---------------------------- MODULE Verification ----------------------------
(***************************************************************************)
(* Integrity verification: what the verify endpoint, the public anchor     *)
(* lookup, the chaincode's own check, the SDK and the audit report say of  *)
(* a batch while it is being claimed, anchored and reconciled, and while   *)
(* documents are edited behind the API's back.                             *)
(*                                                                         *)
(* A batching call is reduced to the steps a reader can tell apart: the    *)
(* claim, document by document; the read-back, which fixes the root; the   *)
(* anchor; the stamp.  Module Anchoring has their failures in full.        *)
(* Records are numbered in (created_at, id) order.                         *)
(***************************************************************************)
EXTENDS Chaincode, FiniteSetsExt

CONSTANTS
  Records,          \* 1 .. n
  Tenants,
  Batches,          \* batch ids, each drawn by one call
  RecordTenant,     \* [Records -> Tenants]
  BatchTenant,      \* [Batches -> Tenants]: an id names its tenant
  Content,          \* [Records -> hashed fields as they were created]
  Edits,            \* [Records -> sets of contents an edit may leave]
  DefaultIdentity, DefaultChannel,
  TenantIdentity,   \* [subset of Tenants -> identities]
  TenantChannel,    \* [subset of Tenants -> Channels]
  LegacyCounts,     \* how many of the oldest records have the first scheme
  Earlier,          \* batches anchored before
  MaxEdits, MaxLogs, MaxClock

NoBatch == "none"

ASSUME RecordAssumption ==
  /\ Records \subseteq Nat /\ IsFiniteSet(Records)
  /\ RecordTenant \in [Records -> Tenants]
ASSUME BatchAssumption ==
  /\ NoBatch \notin Batches /\ BatchTenant \in [Batches -> Tenants]
  /\ Earlier \subseteq Batches
  /\ \A a, b \in Earlier : BatchTenant[a] = BatchTenant[b] => a = b
ASSUME BoundsAssumption == MaxEdits \in Nat /\ MaxLogs \in Nat /\ MaxClock \in Nat

VARIABLES
  sync,      \* FABRIC_SYNC_ENABLED
  doc,       \* the records collection
  job,       \* [Batches -> the batching call that drew the id]
  clock,     \* batched_at is taken from it
  edits,     \* documents edited so far
  sealed,    \* [Batches -> what the documents held when the root was computed]
  answer     \* the verification under way, or the last one

vars == <<chain, sync, doc, job, clock, edits, sealed, answer>>

gatewayFor(t)       == IF t \in DOMAIN TenantIdentity THEN TenantIdentity[t] ELSE DefaultIdentity
ChannelForTenant(t) == IF t \in DOMAIN TenantChannel THEN TenantChannel[t] ELSE DefaultChannel

\* What the configuration gives: channels that exist, and identities that the
\* chaincode accepts for what has been anchored.
ASSUME GatewayAssumption ==
  /\ "" \notin DOMAIN TenantIdentity /\ DefaultChannel \in Channels
  /\ \A t \in Tenants : ChannelForTenant(t) \in Channels
  /\ \A b \in Earlier : HasTenant(gatewayFor(BatchTenant[b]))

\* Each tenant with an identity has one of its own.
OwnCertificates ==
  \A t \in DOMAIN TenantIdentity :
    /\ clientTenant(TenantIdentity[t]) # clientTenant(DefaultIdentity)
    /\ \A u \in DOMAIN TenantIdentity : clientTenant(TenantIdentity[u]) = clientTenant(TenantIdentity[t]) => u = t

\* The documents of a set in (created_at, id) order: i - 1 of them are before the i-th.
InOrder(rs) == [i \in 1 .. Cardinality(rs) |-> CHOOSE r \in rs : Cardinality({s \in rs : s < r}) = i - 1]
Sorted(rs)  == [i \in 1 .. Cardinality(rs) |-> doc[InOrder(rs)[i]]]

MembersOf(t, b) == {r \in Records : RecordTenant[r] = t /\ doc[r].batch = b}

FindRecordsByBatchID(t, b) == Sorted(MembersOf(t, b))

RootOf(docs) == CalculateRecordMerkleRoot([i \in DOMAIN docs |-> docs[i].content])

Stamp(b, root, status) ==
  doc' = [r \in Records |-> IF r \in MembersOf(BatchTenant[b], b)
                            THEN [doc[r] EXCEPT !.root = root, !.status = status] ELSE doc[r]]

\* What the hash of a document depends on.
Hashed(docs) == [i \in DOMAIN docs |->
  [id |-> docs[i].content.id, timestamp |-> docs[i].content.timestamp, source |-> docs[i].content.source,
   payload |-> canonicalPayload(docs[i].content)]]

-----------------------------------------------------------------------------
NoAnswer == [pc |-> "none"]

\* The hashed fields c in a document of version v.
Versioned(c, v) == [id |-> c.id, timestamp |-> c.timestamp, source |-> c.source, payload |-> c.payload,
                    hashFields |-> c.hashFields, version |-> v]

Created(r, legacy) == Versioned(Content[r], IF r <= legacy THEN 0 ELSE CurrentHashVersion)

\* The batch of Earlier that a record is in.
Of(r) == {b \in Earlier : BatchTenant[b] = RecordTenant[r]}

AnchorKey(b)     == batchKey(clientTenant(gatewayFor(BatchTenant[b])), b)
AnchorChannel(b) == ChannelForTenant(BatchTenant[b])

\* A document as it is first seen: new, or anchored with the others of its batch.
InitialDoc(r, legacy) ==
  LET rs == {s \in Records : Of(s) = Of(r)}
      content == Created(r, legacy)
  IN  IF Of(r) = {} THEN [content |-> content, batched |-> 0, batch |-> NoBatch, root |-> NoRoot, status |-> ""]
      ELSE [content |-> content, batched |-> 0, batch |-> CHOOSE b \in Of(r) : TRUE,
            root |-> CalculateRecordMerkleRoot([i \in 1 .. Cardinality(rs) |-> Created(InOrder(rs)[i], legacy)]),
            status |-> "anchored"]

\* Documents of an older version of the API carry the first hash scheme; the
\* batches in Earlier are anchored and hold all records of their tenant.
Init ==
  /\ sync \in BOOLEAN
  /\ \E legacy \in LegacyCounts : doc = [r \in Records |-> InitialDoc(r, legacy)]
  /\ sealed = [b \in Batches |-> IF b \in Earlier THEN Hashed(FindRecordsByBatchID(BatchTenant[b], b)) ELSE <<>>]
  /\ chain = [ch \in Channels |->
       [k \in {AnchorKey(b) : b \in {e \in Earlier : AnchorChannel(e) = ch}} |->
          LET b == CHOOSE e \in Earlier : AnchorKey(e) = k
          IN  <<[kind |-> "batch", tenant |-> clientTenant(gatewayFor(BatchTenant[b])), id |-> b,
                 root |-> RootOf(FindRecordsByBatchID(BatchTenant[b], b)), num |-> Len(sealed[b])]>>]]
  /\ job = [b \in Batches |-> [pc |-> IF b \in Earlier THEN "done" ELSE "new", ids |-> {}, at |-> 0, root |-> NoRoot]]
  /\ clock = 0 /\ edits = 0
  /\ answer = NoAnswer

Tick == clock < MaxClock /\ clock' = clock + 1 /\ UNCHANGED <<chain, sync, doc, job, edits, sealed, answer>>

Pending(t) == {r \in Records : RecordTenant[r] = t /\ doc[r].batch = NoBatch}

\* ClaimRecordsForBatch: the candidates and the time are fixed first ...
StartBatch(b) ==
  /\ job[b].pc = "new" /\ Pending(BatchTenant[b]) # {}
  /\ job' = [job EXCEPT ![b] = [@ EXCEPT !.pc = "claim", !.ids = Pending(BatchTenant[b]), !.at = clock]]
  /\ UNCHANGED <<chain, sync, doc, clock, edits, sealed, answer>>

\* Mutant of ClaimRecord: each document gets the time at which it is updated.
ClaimRecord_Now(b, r) ==
  /\ job[b].pc = "claim" /\ r \in job[b].ids
  /\ doc' = IF doc[r].batch # NoBatch THEN doc
            ELSE [doc EXCEPT ![r] = [@ EXCEPT !.batch = b, !.status = "pending", !.batched = clock]]
  /\ job' = [job EXCEPT ![b].ids = @ \ {r}]
  /\ UNCHANGED <<chain, sync, clock, edits, sealed, answer>>

\* ... and UpdateMany takes them one by one, those that are still free.
ClaimRecord(b, r) ==
  /\ job[b].pc = "claim" /\ r \in job[b].ids
  /\ doc' = IF doc[r].batch # NoBatch THEN doc
            ELSE [doc EXCEPT ![r] = [@ EXCEPT !.batch = b, !.status = "pending", !.batched = job[b].at]]
  /\ job' = [job EXCEPT ![b].ids = @ \ {r}]
  /\ UNCHANGED <<chain, sync, clock, edits, sealed, answer>>

\* The read-back and the root.
ReadBack(b) ==
  LET docs == FindRecordsByBatchID(BatchTenant[b], b)
  IN  /\ job[b].pc = "claim" /\ job[b].ids = {}
      /\ job' = [job EXCEPT ![b] = [@ EXCEPT !.pc = IF docs = <<>> THEN "done" ELSE IF sync THEN "anchor" ELSE "unsynced",
                                             !.root = RootOf(docs)]]
      /\ sealed' = [sealed EXCEPT ![b] = Hashed(docs)]
      /\ UNCHANGED <<chain, sync, doc, clock, edits, answer>>

\* Without a ledger the root is stored and the batch keeps its pending status.
SetRecordBatchMerkleRoot(b) ==
  /\ job[b].pc = "unsynced"
  /\ doc' = [r \in Records |-> IF r \in MembersOf(BatchTenant[b], b) THEN [doc[r] EXCEPT !.root = job[b].root] ELSE doc[r]]
  /\ job' = [job EXCEPT ![b].pc = "done"]
  /\ UNCHANGED <<chain, sync, clock, edits, sealed, answer>>

Anchor(b) ==
  LET t == BatchTenant[b]
      ok == Anchorable(ChannelForTenant(t), gatewayFor(t), b)
  IN  /\ job[b].pc = "anchor"
      /\ \/ /\ ok
            /\ StoreMerkleRoot(ChannelForTenant(t), gatewayFor(t), b, job[b].root, Len(sealed[b]))
            /\ job' = [job EXCEPT ![b].pc = "anchored"]
         \/ job' = [job EXCEPT ![b].pc = "failed"] /\ UNCHANGED chain      \* refused, or the call failed
      /\ UNCHANGED <<sync, doc, clock, edits, sealed, answer>>

\* Mutant of MarkBatch: the state of the call is advanced first.
MarkBatch_Late(b) ==
  /\ job[b].pc \in {"anchored", "failed"}
  /\ job' = [job EXCEPT ![b].pc = "done"]
  /\ Stamp(b, job[b].root, job'[b].pc)
  /\ UNCHANGED <<chain, sync, clock, edits, sealed, answer>>

MarkBatch(b) ==
  /\ job[b].pc \in {"anchored", "failed"}
  /\ Stamp(b, job[b].root, job[b].pc)
  /\ job' = [job EXCEPT ![b].pc = "done"]
  /\ UNCHANGED <<chain, sync, clock, edits, sealed, answer>>

\* The process dies; the documents stay as they are.
Crash(b) ==
  /\ job[b].pc \in {"claim", "anchor", "anchored", "failed"}
  /\ job' = [job EXCEPT ![b] = [@ EXCEPT !.pc = "done", !.ids = {}]]
  /\ UNCHANGED <<chain, sync, doc, clock, edits, sealed, answer>>

\* Mutant of Reconcile: the root is computed again from the documents.
Reconcile_Recompute(b) ==
  LET t    == BatchTenant[b]
      docs == FindRecordsByBatchID(t, b)
  IN  /\ sync /\ HasTenant(gatewayFor(t))
      /\ \E i \in DOMAIN docs : docs[i].status \in {"pending", "failed"}
      /\ IF Anchorable(ChannelForTenant(t), gatewayFor(t), b)
         THEN StoreMerkleRoot(ChannelForTenant(t), gatewayFor(t), b, RootOf(docs), Len(docs))
         ELSE UNCHANGED chain
      /\ Stamp(b, RootOf(docs), "anchored")
      /\ UNCHANGED <<sync, job, clock, edits, sealed, answer>>

\* ReconcileBatches for one batch: the stored root is sent again.
Reconcile(b) ==
  LET t    == BatchTenant[b]
      docs == FindRecordsByBatchID(t, b)
  IN  /\ sync /\ HasTenant(gatewayFor(t))
      /\ \E i \in DOMAIN docs : docs[i].status \in {"pending", "failed"}
      /\ IF Anchorable(ChannelForTenant(t), gatewayFor(t), b)
         THEN StoreMerkleRoot(ChannelForTenant(t), gatewayFor(t), b, docs[1].root, Len(docs))
         ELSE UNCHANGED chain
      /\ Stamp(b, docs[1].root, "anchored")
      /\ UNCHANGED <<sync, job, clock, edits, sealed, answer>>

-----------------------------------------------------------------------------
(* Outside the API: an edit of a document of an anchored batch, with or    *)
(* without a new root in all documents of the batch (before the anchor     *)
(* there is nothing that an edit contradicts), and log transactions.       *)

Edit(r) ==
  /\ edits < MaxEdits
  /\ doc[r].batch # NoBatch
  /\ BatchExists(ChannelForTenant(RecordTenant[r]), gatewayFor(RecordTenant[r]), doc[r].batch)
  /\ edits' = edits + 1
  /\ \E c \in Edits[r], restamp \in BOOLEAN :
       LET edited == [doc EXCEPT ![r].content = Versioned(c, doc[r].content.version)]
           rs     == MembersOf(RecordTenant[r], doc[r].batch)
           root   == RootOf([i \in 1 .. Cardinality(rs) |-> edited[InOrder(rs)[i]]])
       IN  doc' = IF restamp
                  THEN [s \in Records |-> IF s \in rs THEN [edited[s] EXCEPT !.root = root] ELSE edited[s]]
                  ELSE edited
  /\ UNCHANGED <<chain, sync, job, clock, sealed, answer>>

WriteLog ==
  /\ \E ch \in Channels, id \in LogIds, l \in Levels :
       Len(GetLogHistory(ch, id)) < MaxLogs /\ CreateLog(ch, id, l)
  /\ UNCHANGED <<sync, doc, job, clock, edits, sealed, answer>>

-----------------------------------------------------------------------------
(* VerifyRecordBatch: the documents first, the ledger next.                *)

VerifyRead(b) ==
  LET docs == FindRecordsByBatchID(BatchTenant[b], b)
  IN  /\ docs # <<>>                                   \* 404 otherwise
      /\ answer' = [pc |-> "read", batch |-> b, docs |-> docs]
      /\ UNCHANGED <<chain, sync, doc, job, clock, edits, sealed>>

\* Where the anchored root comes from; any lookup may fail, and an empty root
\* counts as none.
anchoredRoot(t, b) ==
  LET ch == ChannelForTenant(t)
      id == gatewayFor(t)
  IN  {<<NoRoot, "UNKNOWN">>} \cup
      (IF ~sync THEN {}
       ELSE IF ~BatchExists(ch, id, b) THEN {<<NoRoot, "UNANCHORED">>}
       ELSE IF QueryMerkleBatch(ch, id, b).root = NoRoot THEN {}
       ELSE {<<QueryMerkleBatch(ch, id, b).root, "ANCHORED">>})

\* Mutant of integrity: the root stored with the documents is compared.
integrity_Stored(stored, recalculated, onChain, status) ==
  CASE status = "UNANCHORED" -> "UNANCHORED"
    [] status # "UNANCHORED" -> IF recalculated = stored THEN "VALID" ELSE "CORRUPTED"

integrity(stored, recalculated, onChain, status) ==
  CASE status = "ANCHORED"   -> IF recalculated = onChain THEN "VALID" ELSE "CORRUPTED"
    [] status = "UNANCHORED" -> "UNANCHORED"
    [] status = "UNKNOWN"    -> IF stored = recalculated THEN "VALID" ELSE "CORRUPTED"

buildVerifyResponse(docs, a) ==
  [anchor |-> a[2], onChain |-> a[1], integrity |-> integrity(docs[1].root, RootOf(docs), a[1], a[2])]

\* The answers that the call can give if it asks the ledger now.
Answers == IF answer.pc = "none" THEN {}
           ELSE {buildVerifyResponse(answer.docs, a) : a \in anchoredRoot(BatchTenant[answer.batch], answer.batch)}

\* The handler: a verdict that is not VALID goes out with 409.
VerifyRecordBatch(v) == IF v.integrity = "VALID" THEN 200 ELSE 409

\* The call asks the ledger and answers.
VerifyQuery ==
  /\ answer.pc = "read"
  /\ answer' = NoAnswer
  /\ UNCHANGED <<chain, sync, doc, job, clock, edits, sealed>>

\* The answers of the public lookup, which asks with the default identity on the
\* default channel.  Any error but "does not exist" is a 502: no ledger, an
\* identity without a tenant, or a call that fails.
GetAnchor(b) ==
  LET id == gatewayFor("")
  IN  {[code |-> 502]} \cup
      (IF ~sync \/ ~HasTenant(id) THEN {}
       ELSE IF BatchExists(DefaultChannel, id, b)
            THEN {[code |-> 200, root |-> QueryMerkleBatch(DefaultChannel, id, b).root]}
            ELSE {[code |-> 404]})

-----------------------------------------------------------------------------
(* The audit report over a range of batched_at.                            *)

\* One row per batch id; root and status are those of some document of it.
AggregateRecordBatches(t, from, to) ==
  LET in == {r \in Records : /\ RecordTenant[r] = t /\ doc[r].batch # NoBatch
                             /\ doc[r].batched \in from .. to}
  IN  {[batch |-> b, num |-> Cardinality({r \in in : doc[r].batch = b}),
        roots |-> {doc[r].root : r \in {s \in in : doc[s].batch = b}}] : b \in {doc[r].batch : r \in in}}

build(t, from, to) ==
  LET rows == AggregateRecordBatches(t, from, to)
  IN  [batches |-> rows, totalBatches |-> Cardinality(rows),
       totalRecords |-> FoldSet(LAMBDA row, n : row.num + n, 0, rows)]

Next ==
  \/ \E b \in Batches : \/ StartBatch(b) \/ ReadBack(b) \/ SetRecordBatchMerkleRoot(b) \/ Anchor(b)
                        \/ MarkBatch(b) \/ Crash(b) \/ Reconcile(b) \/ VerifyRead(b)
                        \/ \E r \in Records : ClaimRecord(b, r)
  \/ \E r \in Records : Edit(r)
  \/ WriteLog \/ Tick
  \/ VerifyQuery

Spec == Init /\ [][Next]_vars

-----------------------------------------------------------------------------
(* Properties.                                                             *)

Contents == [i \in DOMAIN answer.docs |-> answer.docs[i].content]

\* Type invariant: statuses, batch ids and the counters stay in their sets,
\* and every batch on a channel was anchored by a batching call.
TypeOK ==
  /\ \A r \in Records : /\ doc[r].batch \in Batches \cup {NoBatch}
                        /\ doc[r].status \in {"", "pending", "failed", "anchored"}
                        /\ doc[r].batched \in 0 .. clock
  /\ \A b \in Batches : job[b].pc \in {"new", "claim", "unsynced", "anchor", "anchored", "failed", "done"}
  /\ answer.pc \in {"none", "read"}
  /\ clock \in 0 .. MaxClock /\ edits \in 0 .. MaxEdits

\* A batch that is VALID against the ledger holds exactly what its records held
\* when the root was computed, whatever was edited since, stored roots included
\* (VerifyRecordBatch, CalculateRecordMerkleRoot; second hash scheme).
ValidIsUnchanged ==
  \A v \in Answers :
    v.anchor = "ANCHORED" /\ v.integrity = "VALID" /\ batchHashVersion(Contents) >= 2
      => Hashed(answer.docs) = sealed[answer.batch]

\* With no edits, a batch whose documents were all read as anchored and with a
\* root is VALID: neither the order of the read, nor mixed hash versions, nor
\* another worker's claim raises a false alarm (FindRecordsByBatchID).
NoFalseAlarm ==
  \A v \in Answers :
    edits = 0 /\ (\A i \in DOMAIN answer.docs : answer.docs[i].status = "anchored" /\ answer.docs[i].root # NoRoot)
      => v.integrity = "VALID"

\* The SDK, given the documents and the root of the ledger, comes to the same
\* verdict as the server (VerifyRecordsLocally mirrors CalculateRecordMerkleRoot).
SDKAgrees ==
  \A v \in Answers :
    v.anchor = "ANCHORED" => VerifyRecordsLocally(Contents, v.onChain) = (VerifyRecordBatch(v) = 200)

\* The chaincode's own check confirms every batch of the first scheme that the
\* API finds valid; it builds the first tree only (VerifyBatchIntegrity).
ChaincodeAgreesOnV1 ==
  \A v \in Answers :
    LET t == BatchTenant[answer.batch]
    IN  v.anchor = "ANCHORED" /\ v.integrity = "VALID" /\ batchHashVersion(Contents) = 1
          => VerifyBatchIntegrity(ChannelForTenant(t), gatewayFor(t), answer.batch,
                                  [i \in DOMAIN Contents |-> calculateHashV1(Contents[i])])

\* A tenant with a certificate of its own is apart: neither the tenants of the
\* default identity nor the public lookup see its batches, and it sees none of
\* theirs (clientTenant, batchKey, gatewayFor).
TenantsApart ==
  \A t \in DOMAIN TenantIdentity :
    /\ \A ch \in Channels :
         /\ \A v \in GetAllMerkleBatches(ch, DefaultIdentity) : BatchTenant[v.id] # t
         /\ \A v \in GetAllMerkleBatches(ch, gatewayFor(t)) : BatchTenant[v.id] = t
    /\ \A b \in Batches : \A a \in GetAnchor(b) : a.code = 200 => BatchTenant[b] # t

\* Logs and anchors share a channel but not their keys: no log transaction
\* changes or hides an anchor, and log queries return logs only (batchKey).
LogsStayApart ==
  /\ \A ch \in Channels : /\ \A v \in GetAllLogs(ch) : v.kind = "log"
                          /\ \A v \in GetAllLogs(ch), l \in Levels : v \in QueryLogsByLevel(ch, l) <=> v.level = l
                          /\ \A id \in LogIds : LogExists(ch, id) => QueryLog(ch, id) = Last(GetLogHistory(ch, id))
  /\ \A b \in Batches : job[b].pc = "anchored" =>
       BatchExists(ChannelForTenant(BatchTenant[b]), gatewayFor(BatchTenant[b]), b)

\* Two reports whose ranges meet count every batched record and every batch
\* once: a batch lies in one of them whole (ClaimRecordsForBatch fixes
\* batched_at before it updates).
ReportsAddUp ==
  \A t \in Tenants, cut \in 0 .. MaxClock :
    LET all   == build(t, 0, MaxClock)
        older == build(t, 0, cut)
        newer == build(t, cut + 1, MaxClock)
    IN  /\ all.totalBatches = older.totalBatches + newer.totalBatches
        /\ all.totalRecords = older.totalRecords + newer.totalRecords
-----------------------------------------------------------------------------
(* Inductive invariants, for the proofs.                                   *)

\* Documents, calls and the answer have their fields; a batch takes records of
\* its tenant, and a record in no batch has no root.
DocShape ==
  doc = [r \in Records |-> [content |-> doc[r].content, batched |-> doc[r].batched, batch |-> doc[r].batch,
                            root |-> doc[r].root, status |-> doc[r].status]]
DocsTyped ==
  /\ DocShape
  /\ \A r \in Records : /\ doc[r].batch # NoBatch => BatchTenant[doc[r].batch] = RecordTenant[r]
                        /\ doc[r].batch = NoBatch => doc[r].root = NoRoot /\ doc[r].status = ""
JobsTyped ==
  /\ job = [b \in Batches |-> [pc |-> job[b].pc, ids |-> job[b].ids, at |-> job[b].at, root |-> job[b].root]]
  /\ \A b \in Batches : job[b].at \in 0 .. clock /\ job[b].ids \subseteq {r \in Records : RecordTenant[r] = BatchTenant[b]}
AnswerTyped ==
  answer = NoAnswer \/ /\ answer.batch \in Batches /\ answer.docs # <<>>
                       /\ answer = [pc |-> "read", batch |-> answer.batch, docs |-> answer.docs]
                       /\ answer.docs \in Seq({answer.docs[i] : i \in DOMAIN answer.docs})
Typed == TypeOK /\ sealed = [b \in Batches |-> sealed[b]] /\ DocsTyped /\ JobsTyped /\ AnswerTyped

\* A key of a channel is a log with its history, or the one anchor of a batch.
IsLogKey(ch, key) ==
  \E id \in LogIds : /\ key = <<id>> /\ chain[ch][key] # <<>>
                     /\ chain[ch][key] \in Seq([kind : {"log"}, id : {id}, level : Levels])
IsAnchorOf(ch, key, b) ==
  /\ ch = AnchorChannel(b) /\ key = AnchorKey(b) /\ HasTenant(gatewayFor(BatchTenant[b]))
  /\ chain[ch][key] = <<[kind |-> "batch", tenant |-> clientTenant(gatewayFor(BatchTenant[b])), id |-> b,
                         root |-> chain[ch][key][1].root, num |-> chain[ch][key][1].num]>>
ChainTyped ==
  /\ chain = [ch \in Channels |-> [key \in DOMAIN chain[ch] |-> chain[ch][key]]]
  /\ \A ch \in Channels : \A key \in DOMAIN chain[ch] : IsLogKey(ch, key) \/ \E b \in Batches : IsAnchorOf(ch, key, b)

\* The documents of a batch have the time at which its claim began.
BatchedTogether ==
  \A r \in Records : doc[r].batch # NoBatch =>
    job[doc[r].batch].pc # "new" /\ doc[r].batched = job[doc[r].batch].at

OnChain(b)   == BatchExists(AnchorChannel(b), gatewayFor(BatchTenant[b]), b)
ChainRoot(b) == QueryMerkleBatch(AnchorChannel(b), gatewayFor(BatchTenant[b]), b).root
ChainNum(b)  == QueryMerkleBatch(AnchorChannel(b), gatewayFor(BatchTenant[b]), b).num

\* While its owner claims, a batch has no root to be found anywhere.
Unsealed(b) == job[b].pc \in {"new", "claim"}
HasRoot     == {"unsynced", "anchor", "anchored", "failed"}

\* What is said to be anchored is.
AnchoredInv ==
  /\ \A r \in Records : doc[r].status = "anchored" => OnChain(doc[r].batch)
  /\ \A b \in Batches : job[b].pc = "anchored" => OnChain(b)
  /\ answer.pc = "read" /\ (\E i \in DOMAIN answer.docs : answer.docs[i].status = "anchored") => OnChain(answer.batch)

\* Without edits every root there is is the one of its batch as it stands.
BatchRoot(b) == RootOf(FindRecordsByBatchID(BatchTenant[b], b))
Rooted(root, b) == root # NoRoot => ~Unsealed(b) /\ root = BatchRoot(b)
RootsInv ==
  edits = 0 =>
    /\ \A r \in Records : doc[r].batch # NoBatch => Rooted(doc[r].root, doc[r].batch)
    /\ \A b \in Batches : /\ job[b].pc \in HasRoot => Rooted(job[b].root, b)
                          /\ OnChain(b) => Rooted(ChainRoot(b), b)
    /\ answer.pc = "read" /\ (\A i \in DOMAIN answer.docs : answer.docs[i].root # NoRoot)
         => /\ ~Unsealed(answer.batch) /\ RootOf(answer.docs) = BatchRoot(answer.batch)
            /\ \A i \in DOMAIN answer.docs : answer.docs[i].root = BatchRoot(answer.batch)

\* What the documents can hold, and that no two records ever have the same hash
\* of the first scheme, as they could by a symbol that moves between two fields.
Known(r) == {Content[r]} \cup Edits[r]
HashesApart ==
  \A r, s \in Records : \A c \in Known(r), d \in Known(s) : calculateHashV1(c) = calculateHashV1(d) => r = s

\* So the hashes of a batch are all different.
FirstHash(h)    == [kind |-> "v1", text |-> h.id \o h.timestamp \o h.source, payload |-> h.payload]
NoRepeats(docs) == \A i, j \in DOMAIN docs : FirstHash(docs[i]) = FirstHash(docs[j]) => i = j
ApartInv ==
  /\ \A r \in Records : \E c \in Known(r) : doc[r].content = Versioned(c, doc[r].content.version)
  /\ \A b \in Batches : NoRepeats(sealed[b])
  /\ answer.pc = "read" => NoRepeats(Hashed(answer.docs))

\* The ledger has the number of records that the root was computed over.
NumInv ==
  /\ \A b \in Batches : sealed[b] # <<>> =>
       ~Unsealed(b) /\ Len(sealed[b]) = Cardinality(MembersOf(BatchTenant[b], b))
  /\ \A b \in Batches : OnChain(b) /\ ChainRoot(b) # NoRoot => ChainNum(b) = Len(sealed[b])
=============================================================================
