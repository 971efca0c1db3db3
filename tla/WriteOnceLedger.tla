--------------------------- MODULE WriteOnceLedger ---------------------------
(***************************************************************************)
(* What the anchoring code relies on when it stores a Merkle root on the   *)
(* ledger, with no trace of endorsement, ordering or validation:           *)
(*                                                                         *)
(*   - a batch is anchored at most once, with a root some caller asked for; *)
(*   - "ok" is answered to the one caller whose own request anchored it,   *)
(*   - "already" is answered only when the batch is anchored, and          *)
(*   - "error" says nothing: the request may still take effect later.      *)
(*                                                                         *)
(* Ledger.tla, the protocol of the Fabric gateway and the chaincode,       *)
(* implements this specification.                                          *)
(***************************************************************************)
CONSTANTS Clients,     \* callers of StoreMerkleBatch
          Batches,     \* ledger keys, one per (tenant partition, batch id)
          Roots,       \* Merkle roots
          NoAnchor     \* the value of a key that was never written

VARIABLES anchor,      \* anchor[b]: the root committed for b, or NoAnchor
          late,        \* requests given up by their caller, still able to act
          call         \* call[c]: the request of caller c, and its answer

vars == <<anchor, late, call>>

Request == [batch : Batches, root : Roots]
Idle == [st |-> "idle"]
Asked(q, st) == [st |-> st, batch |-> q.batch, root |-> q.root]
RequestOf(c) == [batch |-> call[c].batch, root |-> call[c].root]

Init == /\ anchor = [b \in Batches |-> NoAnchor]
        /\ late = {}
        /\ call = [c \in Clients |-> Idle]

Ask(c, q) == /\ call[c] = Idle
             /\ call' = [call EXCEPT ![c] = Asked(q, "submitted")]
             /\ UNCHANGED <<anchor, late>>

\* The request of c anchors the batch, and c is told so.
AnchorFor(c) == /\ call[c].st = "submitted"
                /\ anchor[call[c].batch] = NoAnchor
                /\ anchor' = [anchor EXCEPT ![call[c].batch] = call[c].root]
                /\ call' = [call EXCEPT ![c] = Asked(RequestOf(c), "ok")]
                /\ UNCHANGED late

\* A request nobody waits for anchors the batch after all.
AnchorLate(q) == /\ q \in late
                 /\ anchor[q.batch] = NoAnchor
                 /\ anchor' = [anchor EXCEPT ![q.batch] = q.root]
                 /\ late' = late \ {q}
                 /\ UNCHANGED call

Refuse(c, q) == /\ call[c] = Idle
                /\ anchor[q.batch] # NoAnchor
                /\ call' = [call EXCEPT ![c] = Asked(q, "already")]
                /\ UNCHANGED <<anchor, late>>

Fail(c, q) == /\ call[c] = Idle
              /\ call' = [call EXCEPT ![c] = Asked(q, "error")]
              /\ UNCHANGED <<anchor, late>>

\* The caller is told "error", or is gone; its request may or may not act later.
GiveUp(c) ==
    /\ call[c].st = "submitted"
    /\ \E answer \in {Idle, Asked(RequestOf(c), "error")} :
          call' = [call EXCEPT ![c] = answer]
    /\ late' \in {late, late \union {RequestOf(c)}}
    /\ UNCHANGED anchor

Forget(q) == /\ q \in late
             /\ late' = late \ {q}
             /\ UNCHANGED <<anchor, call>>

Return(c) == /\ call[c].st \in {"ok", "already", "error"}
             /\ call' = [call EXCEPT ![c] = Idle]
             /\ UNCHANGED <<anchor, late>>

Next == \/ \E c \in Clients :
              \/ \E q \in Request : Ask(c, q) \/ Refuse(c, q) \/ Fail(c, q)
              \/ AnchorFor(c)
              \/ GiveUp(c)
              \/ Return(c)
        \/ \E q \in Request : AnchorLate(q) \/ Forget(q)

Spec == Init /\ [][Next]_vars
==============================================================================
