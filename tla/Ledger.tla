------------------------------- MODULE Ledger --------------------------------
(***************************************************************************)
(* Storing a Merkle root on Hyperledger Fabric, as the API does it:        *)
(* FabricClient.StoreMerkleBatch hands the arguments to the gateway        *)
(* backend, whose Invoke endorses a transaction, submits it to the orderer *)
(* and waits for its commit status.  The chaincode StoreMerkleRoot runs at *)
(* endorsement: it reads the key of the batch and refuses to write a key   *)
(* that has a value.  Validation repeats that read when the transaction is *)
(* committed and invalidates it when the key has changed since (MVCC).     *)
(*                                                                         *)
(* A member of Batches stands for a composite key, the partition of the    *)
(* caller's tenant and the batch id.  Ordering and validation are Fabric's *)
(* own and are modelled from the way Invoke uses them.                     *)
(***************************************************************************)
CONSTANTS Clients,     \* goroutines that call StoreMerkleBatch
          Batches,     \* ledger keys
          Roots,       \* Merkle roots
          NoAnchor,    \* GetState returned nil: the key has no value
          NoClient     \* waiter of a transaction whose caller is gone

ASSUME NoAnchorAssumption == NoAnchor \notin Roots
ASSUME NoClientAssumption == NoClient \notin Clients

VARIABLES chain,       \* world state: chain[b] is the root stored under key b
          txs,         \* endorsed transactions that are not committed yet
          call         \* call[c]: the Invoke of c, with its outcome

ledgerVars == <<chain, txs, call>>

Request == [batch : Batches, root : Roots]
Tx == [batch : Batches, root : Roots,
       read : {NoAnchor},            \* the value the endorsement found
       waiter : Clients \union {NoClient}]
Outcomes == {"ok", "already", "error"}
Idle == [st |-> "idle"]
Call(q, st) == [st |-> st, batch |-> q.batch, root |-> q.root]
Calls == {Idle} \union [st : {"submitted"} \union Outcomes, batch : Batches, root : Roots]

TypeOK == /\ chain \in [Batches -> {NoAnchor} \union Roots]
          /\ txs \subseteq Tx
          /\ call \in [Clients -> Calls]

Init == /\ chain = [b \in Batches |-> NoAnchor]
        /\ txs = {}
        /\ call = [c \in Clients |-> Idle]

-----------------------------------------------------------------------------
(* The gateway and the chaincode                                            *)

\* The endorsed transaction: the key as it was read, and the write.
Proposal(c, q) == [batch |-> q.batch, root |-> q.root, read |-> chain[q.batch], waiter |-> c]

\* Mutant of Endorse: the chaincode does not look at the key.
EndorseAnyway(c, q) ==
    /\ call[c] = Idle
    /\ txs' = txs \union {Proposal(c, q)}
    /\ call' = [call EXCEPT ![c] = Call(q, "submitted")]
    /\ UNCHANGED chain

\* Endorsement runs StoreMerkleRoot: no value under the key, so PutState.
Endorse(c, q) ==
    /\ call[c] = Idle
    /\ chain[q.batch] = NoAnchor
    /\ txs' = txs \union {Proposal(c, q)}
    /\ call' = [call EXCEPT ![c] = Call(q, "submitted")]
    /\ UNCHANGED chain

\* Mutant of Refuse: a key that could not be read counts as anchored.
RefuseUnread(c, q) ==
    /\ call[c] = Idle
    /\ call' = [call EXCEPT ![c] = Call(q, "already")]
    /\ UNCHANGED <<chain, txs>>

\* The chaincode's write-once guard: "batch %s is already anchored ...".
Refuse(c, q) ==
    /\ call[c] = Idle
    /\ chain[q.batch] # NoAnchor
    /\ call' = [call EXCEPT ![c] = Call(q, "already")]
    /\ UNCHANGED <<chain, txs>>

\* Sync disabled, proposal or endorsement error, peer unreachable.
FailEarly(c, q) ==
    /\ call[c] = Idle
    /\ call' = [call EXCEPT ![c] = Call(q, "error")]
    /\ UNCHANGED <<chain, txs>>

\* The caller of a transaction learns its validation code, if it still waits.
Tell(t, st) ==
    call' = [c \in Clients |-> IF c = t.waiter THEN Call(t, st) ELSE call[c]]

\* Validation finds the key as the endorsement read it.
Commit(t) ==
    /\ t \in txs
    /\ chain[t.batch] = t.read
    /\ chain' = [chain EXCEPT ![t.batch] = t.root]
    /\ txs' = txs \ {t}
    /\ Tell(t, "ok")

\* Mutant of Invalidate: the validation code is not looked at.
InvalidateUnseen(t) ==
    /\ t \in txs
    /\ chain[t.batch] # t.read
    /\ txs' = txs \ {t}
    /\ Tell(t, "ok")
    /\ UNCHANGED chain

\* MVCC conflict: "transaction ... failed to commit (validation code ...)".
Invalidate(t) ==
    /\ t \in txs
    /\ chain[t.batch] # t.read
    /\ txs' = txs \ {t}
    /\ Tell(t, "error")
    /\ UNCHANGED chain

\* The transaction of c goes on without a caller.
Orphaned(c) == {IF t.waiter = c THEN [t EXCEPT !.waiter = NoClient] ELSE t : t \in txs}

\* Mutant of LoseStatus: a timeout is reported as an outcome of its own.
LoseStatusTimeout(c) ==
    /\ call[c].st = "submitted"
    /\ txs' = Orphaned(c)
    /\ call' = [call EXCEPT ![c].st = "timeout"]
    /\ UNCHANGED chain

\* SubmitWithContext or StatusWithContext fails: reported as a failure, while
\* the transaction may be ordered all the same.
LoseStatus(c) ==
    /\ call[c].st = "submitted"
    /\ txs' = Orphaned(c)
    /\ call' = [call EXCEPT ![c].st = "error"]
    /\ UNCHANGED chain

\* A transaction the orderer never received.
Drop(t) ==
    /\ t \in txs
    /\ t.waiter = NoClient
    /\ txs' = txs \ {t}
    /\ UNCHANGED <<chain, call>>

\* Invoke returns to its caller.
Return(c) ==
    /\ call[c].st \in Outcomes
    /\ call' = [call EXCEPT ![c] = Idle]
    /\ UNCHANGED <<chain, txs>>

\* The calling process stops in the middle of Invoke.
Abandon(c) ==
    /\ call[c].st = "submitted"
    /\ txs' = Orphaned(c)
    /\ call' = [call EXCEPT ![c] = Idle]
    /\ UNCHANGED chain

\* What happens in the network whatever the callers do.
Network == \E t \in txs : Commit(t) \/ Invalidate(t) \/ Drop(t)

Next == \/ \E c \in Clients :
              \/ \E q \in Request : Endorse(c, q) \/ Refuse(c, q) \/ FailEarly(c, q)
              \/ LoseStatus(c)
              \/ Return(c)
              \/ Abandon(c)
        \/ Network

Spec == Init /\ [][Next]_ledgerVars

-----------------------------------------------------------------------------
(* Properties                                                               *)

\* Invoke reports success only for the root the ledger holds, and the error
\* "already anchored" only for an anchored batch: the two answers the batch
\* processor acts on are true for as long as it may act on them.
AnswersAreTrue ==
    \A c \in Clients :
        /\ call[c].st = "ok" => chain[call[c].batch] = call[c].root
        /\ call[c].st = "already" => chain[call[c].batch] # NoAnchor

\* Anchors are write-once: no retry, second replica or delayed transaction
\* changes a root that was stored (StoreMerkleRoot's comment on F02).
WriteOnce == [][\A b \in Batches : chain[b] # NoAnchor => chain'[b] = chain[b]]_ledgerVars

\* The requests given up by their caller that may still take effect.
late == {[batch |-> t.batch, root |-> t.root] : t \in {x \in txs : x.waiter = NoClient}}

Abstract == INSTANCE WriteOnceLedger WITH anchor <- chain

\* The gateway and the chaincode together implement the write-once ledger.
Implements == Abstract!Spec

-----------------------------------------------------------------------------
(* Inductive strengthening, for the proofs                                  *)

Own(c) == {t \in txs : t.waiter = c}

Waits(c) ==
    IF call[c].st = "submitted"
    THEN Own(c) = {[batch |-> call[c].batch, root |-> call[c].root,
                    read |-> NoAnchor, waiter |-> c]}
    ELSE Own(c) = {}

\* A caller waits for exactly the transaction it submitted (Invoke asks for the
\* status of its own commit).
WaitsForOwn == \A c \in Clients : Waits(c)
==============================================================================
