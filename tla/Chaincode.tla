----------------------------- MODULE Chaincode -----------------------------
(***************************************************************************)
(* The log chaincode on its channels: the transactions that write the      *)
(* world state, one at a time in commit order, and the queries that read   *)
(* it.  How two transactions that were endorsed together are ordered and   *)
(* invalidated is module Ledger's subject.                                 *)
(*                                                                         *)
(* A channel keeps the history of each key, all of its writes in order;    *)
(* the world state is the last of them.  A log is stored under its plain   *)
(* id, a batch under a composite key.                                      *)
(***************************************************************************)
EXTENDS Merkle, FiniteSets, SequencesExt

CONSTANTS Channels, LogIds, Levels

VARIABLE chain      \* [Channels -> [keys written -> Seq(values)]]

\* A signing identity is [attribute |-> ..., msp |-> ...], "" for none.
\* Mutant of clientTenant: the certificate attribute is ignored.
clientTenant_Org(ident) == ident.msp

clientTenant(ident) == IF ident.attribute # "" THEN ident.attribute ELSE ident.msp

HasTenant(ident) == clientTenant(ident) # ""

\* Mutant of batchKey: the batch id alone, as a plain key.
batchKey_Plain(tenant, batchID) == <<batchID>>

batchKey(tenant, batchID) == <<"batch", tenant, batchID>>

Stored(ch, key)   == key \in DOMAIN chain[ch]
GetState(ch, key) == Last(chain[ch][key])

GetHistoryForKey(ch, key) == IF Stored(ch, key) THEN chain[ch][key] ELSE <<>>

PutState(ch, key, value) ==
  chain' = [chain EXCEPT ![ch] = [k \in DOMAIN @ \cup {key} |->
              IF k = key THEN Append(GetHistoryForKey(ch, key), value) ELSE @[k]]]

-----------------------------------------------------------------------------
(* Transactions.                                                           *)

\* A log is written without a look at what is there.
CreateLog(ch, id, level) == PutState(ch, <<id>>, [kind |-> "log", id |-> id, level |-> level])

\* A batch is anchored once in its tenant's partition; the guard is what the
\* chaincode answers with "is already anchored" when it is false.
Anchorable(ch, ident, batchID) == HasTenant(ident) /\ ~Stored(ch, batchKey(clientTenant(ident), batchID))

StoreMerkleRoot(ch, ident, batchID, root, n) ==
  PutState(ch, batchKey(clientTenant(ident), batchID),
           [kind |-> "batch", tenant |-> clientTenant(ident), id |-> batchID, root |-> root, num |-> n])

-----------------------------------------------------------------------------
(* Queries.                                                                *)

LogExists(ch, id) == Stored(ch, <<id>>)
QueryLog(ch, id)  == GetState(ch, <<id>>)

\* The open key range holds the plain keys only.
GetAllLogs(ch) == {GetState(ch, key) : key \in {k \in DOMAIN chain[ch] : Len(k) = 1}}

\* A rich query has the fields of all values in the state to match against.
QueryLogsByLevel(ch, level) ==
  {v \in {GetState(ch, key) : key \in DOMAIN chain[ch]} : v.kind = "log" /\ v.level = level}

GetLogHistory(ch, id) == GetHistoryForKey(ch, <<id>>)

BatchExists(ch, ident, batchID)      == HasTenant(ident) /\ Stored(ch, batchKey(clientTenant(ident), batchID))
QueryMerkleBatch(ch, ident, batchID) == GetState(ch, batchKey(clientTenant(ident), batchID))

\* Mutant of MerkleTree: an odd last node is promoted, as in the second scheme.
MerkleTree_Promote(hashes) == BuildMerkleTreeV2(hashes)

\* The chaincode's own copy of the first scheme.
MerkleTree(hashes) ==
  LET Even(s)  == IF Len(s) % 2 # 0 THEN Append(s, Last(s)) ELSE s
      Pairs(s) == [i \in 1 .. Len(s) \div 2 |-> CombineHashes(s[2*i - 1], s[2*i])]
      level[n \in Nat] == IF n = 0 THEN hashes
                          ELSE IF Len(level[n - 1]) = 1 THEN level[n - 1] ELSE Pairs(Even(level[n - 1]))
  IN  IF hashes = <<>> THEN NoRoot ELSE level[Len(hashes)][1]

\* Always the first scheme, over as many hashes as the batch has.
VerifyBatchIntegrity(ch, ident, batchID, hashes) ==
  /\ BatchExists(ch, ident, batchID)
  /\ Len(hashes) = QueryMerkleBatch(ch, ident, batchID).num
  /\ MerkleTree(hashes) = QueryMerkleBatch(ch, ident, batchID).root

GetAllMerkleBatches(ch, ident) ==
  {GetState(ch, key) : key \in {k \in DOMAIN chain[ch] : Len(k) = 3 /\ k[2] = clientTenant(ident)}}
=============================================================================
