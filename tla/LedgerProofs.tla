---------------------------- MODULE LedgerProofs -----------------------------
(***************************************************************************)
(* Proofs about Ledger for any number of callers, batches and roots: type  *)
(* correctness, the truth of the answers, write-once anchors, and that the *)
(* protocol implements WriteOnceLedger.                                    *)
(***************************************************************************)
EXTENDS Ledger, TLAPS

USE NoAnchorAssumption, NoClientAssumption

LEMMA InitTypeOK == Init => TypeOK
  BY DEF Init, TypeOK, Calls

LEMMA NextTypeOK == TypeOK /\ [Next]_ledgerVars => TypeOK'
<1> SUFFICES ASSUME TypeOK, [Next]_ledgerVars
             PROVE  TypeOK'
  OBVIOUS
<1> USE DEF TypeOK, Tx, Calls, Request, Outcomes
<1>1. ASSUME NEW c \in Clients, NEW q \in Request, Endorse(c, q)
      PROVE  TypeOK'
  BY <1>1 DEF Endorse, Proposal, Call
<1>2. ASSUME NEW c \in Clients, NEW q \in Request, Refuse(c, q)
      PROVE  TypeOK'
  BY <1>2 DEF Refuse, Call
<1>3. ASSUME NEW c \in Clients, NEW q \in Request, FailEarly(c, q)
      PROVE  TypeOK'
  BY <1>3 DEF FailEarly, Call
<1>4. ASSUME NEW c \in Clients, LoseStatus(c)
      PROVE  TypeOK'
  BY <1>4 DEF LoseStatus, Orphaned, Idle
<1>5. ASSUME NEW c \in Clients, Return(c)
      PROVE  TypeOK'
  BY <1>5 DEF Return
<1>6. ASSUME NEW c \in Clients, Abandon(c)
      PROVE  TypeOK'
  BY <1>6 DEF Abandon, Orphaned
<1>7. ASSUME NEW t \in txs, Commit(t)
      PROVE  TypeOK'
  BY <1>7 DEF Commit, Tell, Call
<1>8. ASSUME NEW t \in txs, Invalidate(t)
      PROVE  TypeOK'
  BY <1>8 DEF Invalidate, Tell, Call
<1>9. ASSUME NEW t \in txs, Drop(t)
      PROVE  TypeOK'
  BY <1>9 DEF Drop
<1>10. CASE UNCHANGED ledgerVars
  BY <1>10 DEF ledgerVars
<1> QED
  BY <1>1, <1>2, <1>3, <1>4, <1>5, <1>6, <1>7, <1>8, <1>9, <1>10 DEF Next, Network

\* Every behaviour of the ledger protocol is type-correct.
THEOREM TypeCorrect == Spec => []TypeOK
<1>1. Init => TypeOK
  BY InitTypeOK
<1>2. TypeOK /\ [Next]_ledgerVars => TypeOK'
  BY NextTypeOK
<1> QED
  BY <1>1, <1>2, PTL DEF Spec

-----------------------------------------------------------------------------
(* Answers                                                                  *)

LEMMA NextWaitsForOwn ==
    TypeOK /\ WaitsForOwn /\ [Next]_ledgerVars => WaitsForOwn'
<1> SUFFICES ASSUME TypeOK, WaitsForOwn, [Next]_ledgerVars, NEW d \in Clients
             PROVE  Waits(d)'
  BY DEF WaitsForOwn
<1>own. Waits(d)
  BY DEF WaitsForOwn
<1> USE DEF Waits, Own, TypeOK, Tx, Calls, Outcomes, Idle
<1>1. ASSUME NEW c \in Clients, NEW q \in Request, Endorse(c, q)
      PROVE  Waits(d)'
  BY <1>own, <1>1 DEF Endorse, Proposal, Call, Request
<1>2. ASSUME NEW c \in Clients, NEW q \in Request, Refuse(c, q) \/ FailEarly(c, q)
      PROVE  Waits(d)'
  BY <1>own, <1>2 DEF Refuse, FailEarly, Call, Request
<1>3. ASSUME NEW c \in Clients, LoseStatus(c) \/ Abandon(c)
      PROVE  Waits(d)'
  <2>1. CASE c = d
    BY <1>own, <1>3, <2>1 DEF LoseStatus, Abandon, Orphaned
  <2>2. CASE c # d
    <3>1. call'[d] = call[d]
      BY <1>3, <2>2 DEF LoseStatus, Abandon
    <3>2. \A t \in txs : t.waiter = c => [t EXCEPT !.waiter = NoClient].waiter = NoClient
      OBVIOUS
    <3>3. Own(d)' = Own(d)
      BY <1>3, <2>2, <3>2 DEF LoseStatus, Abandon, Orphaned
    <3> QED
      BY <1>own, <3>1, <3>3
  <2> QED
    BY <2>1, <2>2
<1>4. ASSUME NEW c \in Clients, Return(c)
      PROVE  Waits(d)'
  BY <1>own, <1>4 DEF Return
<1>5. ASSUME NEW t \in txs, Commit(t) \/ Invalidate(t)
      PROVE  Waits(d)'
  <2>1. CASE t.waiter = d
    <3>1. Own(d) = {t}
      BY <1>own, <2>1
    <3>2. txs' = txs \ {t} /\ call'[d].st # "submitted"
      BY <1>5, <2>1 DEF Commit, Invalidate, Tell, Call
    <3> QED
      BY <3>1, <3>2
  <2>2. CASE t.waiter # d
    BY <1>own, <1>5, <2>2 DEF Commit, Invalidate, Tell
  <2> QED
    BY <2>1, <2>2
<1>6. ASSUME NEW t \in txs, Drop(t)
      PROVE  Waits(d)'
  BY <1>own, <1>6 DEF Drop
<1>7. CASE UNCHANGED ledgerVars
  BY <1>own, <1>7 DEF ledgerVars
<1> QED
  BY <1>1, <1>2, <1>3, <1>4, <1>5, <1>6, <1>7 DEF Next, Network

LEMMA NextAnswersAreTrue ==
    TypeOK /\ WaitsForOwn /\ AnswersAreTrue /\ [Next]_ledgerVars => AnswersAreTrue'
<1> SUFFICES ASSUME TypeOK, WaitsForOwn, AnswersAreTrue, [Next]_ledgerVars,
                    NEW d \in Clients
             PROVE  /\ call'[d].st = "ok" => chain'[call'[d].batch] = call'[d].root
                    /\ call'[d].st = "already" => chain'[call'[d].batch] # NoAnchor
  BY DEF AnswersAreTrue
<1>d. /\ call[d].st = "ok" => chain[call[d].batch] = call[d].root
      /\ call[d].st = "already" => chain[call[d].batch] # NoAnchor
  BY DEF AnswersAreTrue
<1> USE DEF TypeOK, Tx, Calls, Outcomes, Idle
<1>1. ASSUME NEW c \in Clients, NEW q \in Request,
             Endorse(c, q) \/ Refuse(c, q) \/ FailEarly(c, q)
      PROVE  /\ call'[d].st = "ok" => chain'[call'[d].batch] = call'[d].root
             /\ call'[d].st = "already" => chain'[call'[d].batch] # NoAnchor
  BY <1>d, <1>1 DEF Endorse, Proposal, Refuse, FailEarly, Call, Request
<1>2. ASSUME NEW c \in Clients, LoseStatus(c) \/ Return(c) \/ Abandon(c)
      PROVE  /\ call'[d].st = "ok" => chain'[call'[d].batch] = call'[d].root
             /\ call'[d].st = "already" => chain'[call'[d].batch] # NoAnchor
  BY <1>d, <1>2 DEF LoseStatus, Return, Abandon
<1>3. ASSUME NEW t \in txs, Commit(t)
      PROVE  /\ call'[d].st = "ok" => chain'[call'[d].batch] = call'[d].root
             /\ call'[d].st = "already" => chain'[call'[d].batch] # NoAnchor
  <2>1. CASE t.waiter = d
    BY <1>3, <2>1 DEF Commit, Tell, Call
  <2>2. CASE t.waiter # d
    BY <1>d, <1>3, <2>2 DEF Commit, Tell
  <2> QED
    BY <2>1, <2>2
<1>4. ASSUME NEW t \in txs, Invalidate(t) \/ Drop(t)
      PROVE  /\ call'[d].st = "ok" => chain'[call'[d].batch] = call'[d].root
             /\ call'[d].st = "already" => chain'[call'[d].batch] # NoAnchor
  BY <1>d, <1>4 DEF Invalidate, Drop, Tell, Call
<1>5. CASE UNCHANGED ledgerVars
  BY <1>d, <1>5 DEF ledgerVars
<1> QED
  BY <1>1, <1>2, <1>3, <1>4, <1>5 DEF Next, Network

\* The inductive invariant: answers are true because a caller waits only for the
\* transaction of its own call.
LInv == TypeOK /\ WaitsForOwn /\ AnswersAreTrue

LEMMA InvariantHolds == Spec => []LInv
<1>1. Init => LInv
  BY InitTypeOK DEF Init, LInv, WaitsForOwn, Waits, Own, AnswersAreTrue, Idle
<1>2. LInv /\ [Next]_ledgerVars => LInv'
  BY NextTypeOK, NextWaitsForOwn, NextAnswersAreTrue DEF LInv
<1> QED
  BY <1>1, <1>2, PTL DEF Spec

\* The two answers the batch processor acts on are always true: "ok" only for
\* the root that is on the ledger, "already anchored" only for an anchored batch.
THEOREM AnswersTrue == Spec => []AnswersAreTrue
  BY InvariantHolds, PTL DEF LInv

-----------------------------------------------------------------------------
(* Write-once anchors                                                       *)

LEMMA StepWritesOnce ==
    ASSUME TypeOK, Next, NEW b \in Batches, chain[b] # NoAnchor
    PROVE  chain'[b] = chain[b]
<1>1. ASSUME NEW t \in txs, Commit(t)
      PROVE  chain'[b] = chain[b]
  BY <1>1 DEF Commit, TypeOK, Tx
<1> QED
  BY <1>1 DEF Next, Network, Endorse, Refuse, FailEarly, LoseStatus, Return, Abandon,
              Invalidate, Drop

\* No step of the protocol changes or removes a root that is on the ledger.
THEOREM AnchorsAreWriteOnce == Spec => WriteOnce
<1>1. TypeOK /\ [Next]_ledgerVars
      => [\A b \in Batches : chain[b] # NoAnchor => chain'[b] = chain[b]]_ledgerVars
  BY StepWritesOnce DEF ledgerVars
<1> QED
  BY <1>1, TypeCorrect, PTL DEF Spec, WriteOnce

-----------------------------------------------------------------------------
(* Refinement                                                               *)

LEMMA RequestsOfOneMore ==
    ASSUME NEW S, NEW o
    PROVE  {[batch |-> t.batch, root |-> t.root] : t \in S \union {o}}
           = {[batch |-> t.batch, root |-> t.root] : t \in S}
             \union {[batch |-> o.batch, root |-> o.root]}
  OBVIOUS

\* Each step of the protocol is a step of the write-once ledger or leaves what
\* it shows unchanged.
LEMMA StepSimulation ==
    LInv /\ [Next]_ledgerVars => [Abstract!Next]_(Abstract!vars)
<1> SUFFICES ASSUME LInv, [Next]_ledgerVars
             PROVE  Abstract!Next \/ UNCHANGED <<chain, late, call>>
  BY DEF Abstract!vars
<1> USE DEF LInv, TypeOK, Tx, Calls, Outcomes, Idle, late
<1>typ. Abstract!Request = Request /\ Abstract!Idle = Idle
  BY DEF Abstract!Request, Request, Abstract!Idle
<1>1. ASSUME NEW c \in Clients, NEW q \in Request, Endorse(c, q)
      PROVE  Abstract!Ask(c, q)
  <2>1. late' = late
    BY <1>1 DEF Endorse, Proposal
  <2> QED
    BY <1>1, <2>1, <1>typ DEF Endorse, Proposal, Call, Abstract!Ask, Abstract!Asked
<1>2. ASSUME NEW c \in Clients, NEW q \in Request, Refuse(c, q)
      PROVE  Abstract!Refuse(c, q)
  BY <1>2, <1>typ DEF Refuse, Call, Abstract!Refuse, Abstract!Asked
<1>3. ASSUME NEW c \in Clients, NEW q \in Request, FailEarly(c, q)
      PROVE  Abstract!Fail(c, q)
  BY <1>3, <1>typ DEF FailEarly, Call, Abstract!Fail, Abstract!Asked
<1>4. ASSUME NEW c \in Clients, LoseStatus(c) \/ Abandon(c)
      PROVE  Abstract!GiveUp(c)
  <2> DEFINE own == [batch |-> call[c].batch, root |-> call[c].root,
                 read |-> NoAnchor, waiter |-> c]
             orphan == [own EXCEPT !.waiter = NoClient]
  <2>1. call[c].st = "submitted" /\ Own(c) = {own} /\ txs' = Orphaned(c)
    BY <1>4 DEF WaitsForOwn, Waits, LoseStatus, Abandon
  <2>2. own \in txs /\ \A t \in txs : t.waiter = c => t = own
    BY <2>1 DEF Own
  <2>3. txs' = (txs \ {own}) \union {orphan}
    BY <2>1, <2>2 DEF Orphaned
  <2>4. {x \in txs : x.waiter = NoClient}' = {x \in txs : x.waiter = NoClient} \union {orphan}
    BY <2>3
  <2>5. late' = late \union {[batch |-> orphan.batch, root |-> orphan.root]}
    <3> DEFINE gone == {x \in txs : x.waiter = NoClient}
    <3>1. late' = {[batch |-> t.batch, root |-> t.root] : t \in gone \union {orphan}}
      BY <2>4, Zenon
    <3>2. late = {[batch |-> t.batch, root |-> t.root] : t \in gone}
      BY Zenon
    <3> QED
      BY ONLY <3>1, <3>2, RequestsOfOneMore, Zenon
  <2>6. late' = late \union {Abstract!RequestOf(c)}
    BY <2>5 DEF Abstract!RequestOf
  <2>7. call' \in {[call EXCEPT ![c] = Idle],
                   [call EXCEPT ![c] = Abstract!Asked(Abstract!RequestOf(c), "error")]}
    <3>1. call[c] \in [st : {"submitted"} \union Outcomes, batch : Batches, root : Roots]
      BY <2>1
    <3>2. [call[c] EXCEPT !.st = "error"] = Abstract!Asked(Abstract!RequestOf(c), "error")
      BY <3>1 DEF Abstract!Asked, Abstract!RequestOf
    <3> QED
      BY <1>4, <3>2 DEF LoseStatus, Abandon
  <2>8. chain' = chain
    BY <1>4 DEF LoseStatus, Abandon
  <2> QED
    BY <2>1, <2>6, <2>7, <2>8, <1>typ DEF Abstract!GiveUp
<1>5. ASSUME NEW c \in Clients, Return(c)
      PROVE  Abstract!Return(c)
  BY <1>5, <1>typ DEF Return, Abstract!Return
<1>6. ASSUME NEW t \in txs, Commit(t), t.waiter # NoClient
      PROVE  \E c \in Clients : Abstract!AnchorFor(c)
  <2> DEFINE c == t.waiter
  <2>1. c \in Clients /\ t \in Own(c)
    BY <1>6 DEF Own
  <2>2. /\ call[c].st = "submitted"
        /\ t = [batch |-> call[c].batch, root |-> call[c].root,
                 read |-> NoAnchor, waiter |-> c]
        /\ t.batch = call[c].batch
        /\ t.root = call[c].root
    BY <2>1 DEF WaitsForOwn, Waits
  <2>3. call' = [call EXCEPT ![c] = Abstract!Asked(Abstract!RequestOf(c), "ok")]
    <3>1. t.batch = call[c].batch /\ t.root = call[c].root
      BY <2>2
    <3>2. Call(t, "ok") = Abstract!Asked(Abstract!RequestOf(c), "ok")
      BY <3>1 DEF Call, Abstract!Asked, Abstract!RequestOf
    <3>3. call' = [d \in Clients |-> IF d = c THEN Call(t, "ok") ELSE call[d]]
      BY <1>6 DEF Commit, Tell
    <3> QED
      BY <2>1, <3>2, <3>3
  <2>4. late' = late
    BY <1>6 DEF Commit
  <2> QED
    BY <1>6, <2>1, <2>2, <2>3, <2>4 DEF Commit, Abstract!AnchorFor
<1>7. ASSUME NEW t \in txs, t.waiter = NoClient, Commit(t) \/ Invalidate(t) \/ Drop(t)
      PROVE  \E q \in Request : Abstract!AnchorLate(q) \/ Abstract!Forget(q)
  <2> DEFINE q == [batch |-> t.batch, root |-> t.root]
  <2>1. q \in Request /\ q \in late
    BY <1>7 DEF Request
  <2>2. call' = call
    BY <1>7 DEF Commit, Invalidate, Drop, Tell
  <2>3. txs' = txs \ {t}
    BY <1>7 DEF Commit, Invalidate, Drop
  <2>4. \A x \in txs : x.waiter = NoClient /\ x.batch = t.batch /\ x.root = t.root => x = t
    BY <1>7
  <2>5. late' = late \ {q}
    BY <1>7, <2>3, <2>4
  <2>6. CASE Commit(t)
    BY <2>1, <2>2, <2>5, <2>6 DEF Commit, Abstract!AnchorLate
  <2>7. CASE Invalidate(t) \/ Drop(t)
    BY <2>1, <2>2, <2>5, <2>7 DEF Invalidate, Drop, Abstract!Forget
  <2> QED
    BY <1>7, <2>6, <2>7
<1>8. ASSUME NEW t \in txs, Invalidate(t), t.waiter # NoClient
      PROVE  \E c \in Clients : Abstract!GiveUp(c)
  <2> DEFINE c == t.waiter
  <2>1. c \in Clients /\ t \in Own(c)
    BY <1>8 DEF Own
  <2>2. /\ call[c].st = "submitted"
        /\ t = [batch |-> call[c].batch, root |-> call[c].root,
                 read |-> NoAnchor, waiter |-> c]
        /\ t.batch = call[c].batch
        /\ t.root = call[c].root
    BY <2>1 DEF WaitsForOwn, Waits
  <2>3. call' = [call EXCEPT ![c] = Abstract!Asked(Abstract!RequestOf(c), "error")]
    <3>1. t.batch = call[c].batch /\ t.root = call[c].root
      BY <2>2
    <3>2. Call(t, "error") = Abstract!Asked(Abstract!RequestOf(c), "error")
      BY <3>1 DEF Call, Abstract!Asked, Abstract!RequestOf
    <3>3. call' = [d \in Clients |-> IF d = c THEN Call(t, "error") ELSE call[d]]
      BY <1>8 DEF Invalidate, Tell
    <3> QED
      BY <2>1, <3>2, <3>3
  <2>4. late' = late
    BY <1>8 DEF Invalidate
  <2> QED
    BY <1>8, <2>1, <2>2, <2>3, <2>4 DEF Invalidate, Abstract!GiveUp
<1>9. ASSUME NEW t \in txs, Drop(t)
      PROVE  t.waiter = NoClient
  BY <1>9 DEF Drop
<1>10. CASE UNCHANGED ledgerVars
  BY <1>10 DEF ledgerVars
<1> QED
  BY <1>1, <1>2, <1>3, <1>4, <1>5, <1>6, <1>7, <1>8, <1>9, <1>10, <1>typ
     DEF Next, Network, Abstract!Next

\* The gateway, the orderer, MVCC validation and the chaincode together behave
\* as a write-once ledger.
THEOREM LedgerImplementsWriteOnce == Spec => Implements
<1>1. Init => Abstract!Init
  BY DEF Init, Abstract!Init, Idle, Abstract!Idle, late
<1>2. LInv /\ [Next]_ledgerVars => [Abstract!Next]_(Abstract!vars)
  BY StepSimulation
<1> QED
  BY <1>1, <1>2, InvariantHolds, PTL DEF Spec, Implements, Abstract!Spec
==============================================================================
