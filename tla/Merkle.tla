------------------------------- MODULE Merkle -------------------------------
(***************************************************************************)
(* The record hash and the Merkle root, as the API, the Go SDK and the     *)
(* chaincode compute them.                                                 *)
(*                                                                         *)
(* SHA-256 is taken to be injective: a digest is its own pre-image, a      *)
(* record of the parts that were hashed.  Strings are sequences, so that   *)
(* the plain concatenation of the first scheme loses the field boundaries  *)
(* here as it does in the code.                                            *)
(*                                                                         *)
(* A document, as far as its hash goes, is a record with the fields        *)
(*   id, timestamp, source : sequences                                     *)
(*   payload               : a function from keys to values                *)
(*   hashFields            : the keys that feed the hash, {} for all       *)
(*   version               : HashVersion, 0 when the document has none     *)
(***************************************************************************)
EXTENDS Naturals, Sequences

CurrentHashVersion == 2

NoRoot == [kind |-> "none"]       \* the empty string

\* The payload, or the part of it that HashFields names: keys that the payload
\* lacks are skipped.  The JSON text has sorted keys: equal text, equal map.
canonicalPayload(r) ==
  LET keys == IF r.hashFields = {} THEN DOMAIN r.payload ELSE r.hashFields \cap DOMAIN r.payload
  IN  [k \in keys |-> r.payload[k]]

calculateHashV1(r) ==
  [kind |-> "v1", text |-> r.id \o r.timestamp \o r.source, payload |-> canonicalPayload(r)]

calculateHashV2(r) ==
  [kind |-> "leaf", text |-> <<r.id, r.timestamp, r.source>>, payload |-> canonicalPayload(r)]

hashForVersion(r, v) == IF v >= 2 THEN calculateHashV2(r) ELSE calculateHashV1(r)

-----------------------------------------------------------------------------
CombineHashes(left, right)   == [kind |-> "v1node", left |-> left, right |-> right]
CombineHashesV2(left, right) == [kind |-> "node", left |-> left, right |-> right]

HalfUp(n) == (n + 1) \div 2

\* One level up: the first scheme pairs an odd last node with itself ...
LevelV1(s) ==
  [i \in 1 .. HalfUp(Len(s)) |-> CombineHashes(s[2*i - 1], IF 2*i <= Len(s) THEN s[2*i] ELSE s[2*i - 1])]

\* ... and the second promotes it.
LevelV2(s) ==
  [i \in 1 .. HalfUp(Len(s)) |-> IF 2*i <= Len(s) THEN CombineHashesV2(s[2*i - 1], s[2*i]) ELSE s[2*i - 1]]

\* The loops end at one node; Len(hashes) rounds are always enough.
BuildMerkleTree(hashes) ==
  LET level[n \in Nat] == IF n = 0 THEN hashes
                          ELSE IF Len(level[n - 1]) = 1 THEN level[n - 1] ELSE LevelV1(level[n - 1])
  IN  IF hashes = <<>> THEN NoRoot ELSE level[Len(hashes)][1]

BuildMerkleTreeV2(hashes) ==
  LET level[n \in Nat] == IF n = 0 THEN hashes ELSE LevelV2(level[n - 1])      \* one node stays as it is
  IN  IF hashes = <<>> THEN NoRoot ELSE level[Len(hashes)][1]

\* The version of a batch is the one of its first record.
batchHashVersion(records) == IF records # <<>> /\ records[1].version >= 2 THEN records[1].version ELSE 1

CalculateRecordMerkleRoot(records) ==
  LET v      == batchHashVersion(records)
      hashes == [i \in DOMAIN records |-> hashForVersion(records[i], v)]
  IN  IF v >= 2 THEN BuildMerkleTreeV2(hashes) ELSE BuildMerkleTree(hashes)

-----------------------------------------------------------------------------
(* The Go SDK's own copy.                                                  *)

\* Mutant of SDKMerkleRoot: the last node of an odd level is dropped.
SDKMerkleRoot_Drop(records) ==
  LET v      == IF records # <<>> /\ records[1].version >= 2 THEN records[1].version ELSE 1
      hashes == [i \in DOMAIN records |-> hashForVersion(records[i], v)]
      even   == SubSeq(hashes, 1, 2 * (Len(hashes) \div 2))
  IN  IF v >= 2 THEN BuildMerkleTreeV2(even) ELSE BuildMerkleTree(even)

SDKMerkleRoot(records) ==
  LET v       == IF records # <<>> /\ records[1].version >= 2 THEN records[1].version ELSE 1
      up(s)   == IF v >= 2 THEN LevelV2(s) ELSE LevelV1(s)
      tree[n \in Nat] == IF n = 0 THEN [i \in DOMAIN records |-> hashForVersion(records[i], v)]
                         ELSE IF Len(tree[n - 1]) = 1 THEN tree[n - 1] ELSE up(tree[n - 1])
  IN  IF records = <<>> THEN NoRoot ELSE tree[Len(records)][1]

VerifyRecordsLocally(records, expectedRoot) == SDKMerkleRoot(records) = expectedRoot
=============================================================================
