--------------------------- MODULE AnchoredBatches ---------------------------
(***************************************************************************)
(* What the anchoring pipeline promises to those who read the records, the *)
(* ledger and the callbacks, with no trace of workers, ledger calls,       *)
(* reconcilers or failures:                                                *)
(*                                                                         *)
(*   - a record joins one batch for good, and no batch once it is deleted; *)
(*   - a batch that has a root anywhere takes no more records;             *)
(*   - a root is the one of the whole batch, unless it was lost and is     *)
(*     empty, on the documents as on the ledger;                           *)
(*   - the ledger's root is written once, a record is marked anchored      *)
(*     after that only, and the callback is issued after it, once.         *)
(*                                                                         *)
(* The stamp and the mark of a record may be repeated, and the mark may be *)
(* taken back by a worker that learns late.  Module Anchoring implements   *)
(* this specification if batch ids are unique.                             *)
(***************************************************************************)
EXTENDS Naturals

CONSTANTS Records, Batches,
          NoBatch,     \* the batch of a record that is in none
          NoAnchor     \* the root on the ledger of a batch that has none

VARIABLES stored,      \* "absent", "live" or "deleted"
          batch,       \* batch[r]: the batch of r, or NoBatch
          root,        \* root[r]: the root stored with r, {} if there is none
          marked,      \* marked[r]: r is said to be anchored
          anchor,      \* anchor[b]: the root on the ledger, or NoAnchor
          told         \* told[b]: callbacks issued

vars == <<stored, batch, root, marked, anchor, told>>

Members(b) == {r \in Records : batch[r] = b}

\* No root of b is known, so that it may still grow.
Open(b) == anchor[b] \in {NoAnchor, {}} /\ \A r \in Members(b) : root[r] = {}

\* The roots that b may be given.
RootsOf(b) == {{}, Members(b)}

Init ==
    /\ stored = [r \in Records |-> "absent"]
    /\ batch = [r \in Records |-> NoBatch]
    /\ root = [r \in Records |-> {}]
    /\ marked = [r \in Records |-> FALSE]
    /\ anchor = [b \in Batches |-> NoAnchor]
    /\ told = [b \in Batches |-> 0]

Create(r) ==
    /\ stored[r] = "absent"
    /\ stored' = [stored EXCEPT ![r] = "live"]
    /\ UNCHANGED <<batch, root, marked, anchor, told>>

Delete(r) ==
    /\ stored[r] = "live"
    /\ stored' = [stored EXCEPT ![r] = "deleted"]
    /\ UNCHANGED <<batch, root, marked, anchor, told>>

Join(r, b) ==
    /\ stored[r] = "live" /\ batch[r] = NoBatch /\ Open(b)
    /\ batch' = [batch EXCEPT ![r] = b]
    /\ UNCHANGED <<stored, root, marked, anchor, told>>

Anchor(b) ==
    /\ anchor[b] = NoAnchor
    /\ \E value \in RootsOf(b) : anchor' = [anchor EXCEPT ![b] = value]
    /\ UNCHANGED <<stored, batch, root, marked, told>>

Stamp(r) ==
    /\ batch[r] # NoBatch
    /\ \E value \in RootsOf(batch[r]) : root' = [root EXCEPT ![r] = value]
    /\ \E mark \in BOOLEAN : /\ mark => anchor[batch[r]] # NoAnchor
                            /\ marked' = [marked EXCEPT ![r] = mark]
    /\ UNCHANGED <<stored, batch, anchor, told>>

Tell(b) ==
    /\ anchor[b] # NoAnchor /\ told[b] = 0
    /\ told' = [told EXCEPT ![b] = 1]
    /\ UNCHANGED <<stored, batch, root, marked, anchor>>

Next ==
    \/ \E r \in Records : Create(r) \/ Delete(r) \/ Stamp(r) \/ \E b \in Batches : Join(r, b)
    \/ \E b \in Batches : Anchor(b) \/ Tell(b)

Spec == Init /\ [][Next]_vars
==============================================================================
