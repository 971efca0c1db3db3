--------------------------- MODULE AnchoringProofs ---------------------------
(***************************************************************************)
(* Proofs about Anchoring, for any number of records, workers and batch    *)
(* ids, any batch size and any number of failures: first types and claims, *)
(* then the roots, then the statuses and the callbacks, all of which make  *)
(* the pipeline implement AnchoredBatches, and last what holds when one    *)
(* worker does everything and nothing fails.                               *)
(***************************************************************************)
EXTENDS Anchoring, TLAPS

LT == INSTANCE LedgerProofs WITH Clients <- Workers

-----------------------------------------------------------------------------
(* Types                                                                    *)

LEMMA LocalTypes ==
    ASSUME NEW l \in Local
    PROVE  /\ IdleWorker \in Local
           /\ NextScope(l) \in Local
           /\ AfterWrite(l) \in Local
           /\ \A job \in Jobs : Update(l, job) \in Local
<1>1. IdleWorker \in Local
  BY DEF IdleWorker, Local, PCs, Roles, Jobs, Roots
<1>2. NextScope(l) \in Local
  BY <1>1 DEF NextScope, IdleWorker, Local, PCs, Roles, Jobs, Roots
<1>3. AfterWrite(l) \in Local
  BY <1>1, <1>2 DEF AfterWrite
<1>4. ASSUME NEW job \in Jobs
      PROVE  Update(l, job) \in Local
  BY DEF Update, Members, Local, PCs
<1> QED
  BY <1>1, <1>2, <1>3, <1>4

LEMMA SetsTx ==
    ASSUME NEW l \in Local
    PROVE  /\ [l EXCEPT !.tx = TRUE] \in Local
           /\ [l EXCEPT !.tx = TRUE].batch = l.batch
           /\ [l EXCEPT !.tx = TRUE].root = l.root
           /\ [l EXCEPT !.tx = TRUE].role = l.role
  BY DEF Local

LEMMA ReadsBatch ==
    ASSUME NEW l \in Local, NEW b \in Batches, NEW root \in Roots, NEW tx \in BOOLEAN
    PROVE  LET m == [l EXCEPT !.pc = "store", !.batch = b, !.root = root,
                              !.tx = tx, !.scopes = @ \ {b}]
           IN  m \in Local /\ m.batch \in Batches
  BY DEF Local, PCs

\* records[0] of a query result is one of the records found.
LEMMA OldestInSet == ASSUME NEW S \in (SUBSET Records) \ {{}} PROVE Oldest(S) \in S
  BY RecordsAssumption DEF Oldest

-----------------------------------------------------------------------------
(* The ledger                                                               *)

\* LedgerProofs speaks of the same ledger as Anchoring.
LEMMA SameLedger ==
    /\ (LT!TypeOK <=> L!TypeOK) /\ (LT!TypeOK <=> L!TypeOK)'
    /\ (LT!WaitsForOwn <=> L!WaitsForOwn) /\ (LT!WaitsForOwn <=> L!WaitsForOwn)'
    /\ (LT!AnswersAreTrue <=> L!AnswersAreTrue) /\ (LT!AnswersAreTrue <=> L!AnswersAreTrue)'
    /\ [LT!Next]_(LT!ledgerVars) <=> [L!Next]_(L!ledgerVars)
<1>1. (LT!TypeOK <=> L!TypeOK) /\ (LT!TypeOK <=> L!TypeOK)'
  BY DEF LT!TypeOK, L!TypeOK, LT!Tx, L!Tx, LT!Calls, L!Calls, LT!Outcomes, L!Outcomes,
         LT!Idle, L!Idle
<1>2. (LT!WaitsForOwn <=> L!WaitsForOwn) /\ (LT!WaitsForOwn <=> L!WaitsForOwn)'
  BY DEF LT!WaitsForOwn, L!WaitsForOwn, LT!Waits, L!Waits, LT!Own, L!Own
<1>3. (LT!AnswersAreTrue <=> L!AnswersAreTrue) /\ (LT!AnswersAreTrue <=> L!AnswersAreTrue)'
  BY DEF LT!AnswersAreTrue, L!AnswersAreTrue
<1>4. LT!Next <=> L!Next
  BY DEF LT!Next, L!Next, LT!Endorse, L!Endorse, LT!Proposal, L!Proposal, LT!Refuse,
         L!Refuse, LT!FailEarly, L!FailEarly, LT!LoseStatus, L!LoseStatus, LT!Return,
         L!Return, LT!Abandon, L!Abandon, LT!Network, L!Network, LT!Commit, L!Commit, LT!Invalidate,
         L!Invalidate, LT!Drop, L!Drop, LT!Tell, L!Tell, LT!Call, L!Call,
         LT!Orphaned, L!Orphaned, LT!Idle, L!Idle, LT!Outcomes, L!Outcomes,
         LT!Request, L!Request
<1>5. LT!ledgerVars = L!ledgerVars /\ LT!ledgerVars' = L!ledgerVars'
  BY DEF LT!ledgerVars, L!ledgerVars
<1> QED
  BY <1>1, <1>2, <1>3, <1>4, <1>5

LEMMA LedgerAssumptions == NoAnchor \notin Roots /\ NoClient \notin Workers
  BY SentinelAssumption DEF Roots

LEMMA LedgerStepTypes == L!TypeOK /\ [L!Next]_(L!ledgerVars) => L!TypeOK'
  BY SameLedger, LedgerAssumptions, LT!NextTypeOK

Base == TypeOK /\ HoldsBatch

\* The worker that stores a root names a batch and a root of the ledger.
LEMMA AskedIsRequest ==
    ASSUME Base, NEW w \in Workers, wk[w].pc = "store"
    PROVE  Asked(w) \in L!Request
  BY DEF Base, TypeOK, HoldsBatch, Local, Asked, L!Request

\* Every step of the system is a step of the ledger or leaves it alone.
LEMMA StepIsLedgerStep == Base /\ [Next]_vars => [L!Next]_(L!ledgerVars)
<1> SUFFICES ASSUME Base, [Next]_vars
             PROVE  L!Next \/ UNCHANGED ledgerVars
  BY DEF ledgerVars, L!ledgerVars
<1>1. ASSUME NEW w \in Workers, Store(w)
      PROVE  L!Next
  BY <1>1, AskedIsRequest DEF Store, L!Next
<1>2. ASSUME NEW w \in Workers, Timeout(w)
      PROVE  L!Next
  BY <1>2 DEF Timeout, L!Next
<1>3. ASSUME NEW w \in Workers, Answered(w)
      PROVE  L!Next
  BY <1>3 DEF Answered, L!Next
<1>4. ASSUME NEW w \in Workers, Crash(w)
      PROVE  L!Next \/ UNCHANGED ledgerVars
  BY <1>4 DEF Crash, L!Next
<1>5. CASE Network
  BY <1>5 DEF Network, L!Next
<1>6. CASE UNCHANGED vars
  BY <1>6 DEF vars
<1>7. ASSUME NEW w \in Workers, Start(w)
      PROVE  UNCHANGED ledgerVars
  BY <1>7 DEF Start, StartReconcile, StartBatch
<1>8. ASSUME NEW w \in Workers, NEW r \in Records, ClaimDoc(w, r) \/ WriteDoc(w, r)
      PROVE  UNCHANGED ledgerVars
  BY <1>8 DEF ClaimDoc, WriteDoc
<1>9. ASSUME NEW w \in Workers, NEW b \in Batches, ReadScope(w, b) \/ SkipScope(w, b)
      PROVE  UNCHANGED ledgerVars
  BY <1>9 DEF ReadScope, SkipScope
<1>10. ASSUME NEW w \in Workers,
              ReadBack(w) \/ FinishWrite(w) \/ FailClaim(w) \/ FailWrite(w) \/ Outlive(w)
       PROVE  UNCHANGED ledgerVars
  BY <1>10 DEF ReadBack, FinishWrite, FailClaim, FailWrite, Outlive
<1>11. ASSUME NEW r \in Records, Insert(r) \/ SoftDelete(r)
       PROVE  UNCHANGED ledgerVars
  BY <1>11 DEF Insert, SoftDelete
<1>12. ASSUME EnableLedger
       PROVE  UNCHANGED ledgerVars
  BY <1>12 DEF EnableLedger
<1> QED
  BY <1>1, <1>2, <1>3, <1>4, <1>5, <1>6, <1>7, <1>8, <1>9, <1>10, <1>11, <1>12
     DEF Next, Step, Start, Failure

LEMMA InitBase == Init => Base
<1> SUFFICES ASSUME Init
             PROVE  Base
  OBVIOUS
<1>1. L!TypeOK
  BY LedgerAssumptions DEF Init, L!Init, L!TypeOK, L!Calls
<1>2. wk \in [Workers -> Local] /\ HoldsBatch
  BY DEF Init, IdleWorker, Local, PCs, Roles, Jobs, Roots, HoldsBatch
<1> QED
  BY <1>1, <1>2, BoundsAssumption DEF Init, Base, TypeOK, Statuses, Roots

\* A worker that moves to well-typed locals stays well-typed.
LEMMA GotoBase ==
    ASSUME Base, NEW w \in Workers, NEW l \in Local, Goto(w, l),
           l.pc \in {"claim", "store", "wait", "write"} => l.batch \in Batches
    PROVE  wk' \in [Workers -> Local] /\ HoldsBatch'
  BY DEF Base, TypeOK, HoldsBatch, Goto

LEMMA NextBase == Base /\ [Next]_vars => Base'
<1> SUFFICES ASSUME Base, [Next]_vars
             PROVE  Base'
  OBVIOUS
<1>ledger. L!TypeOK'
  BY StepIsLedgerStep, LedgerStepTypes DEF Base, TypeOK
<1> USE <1>ledger DEF Base, TypeOK, HoldsBatch
<1>1. ASSUME NEW r \in Records, Insert(r) \/ SoftDelete(r)
      PROVE  Base'
  BY <1>1 DEF Insert, SoftDelete, envVars
<1>2. ASSUME NEW w \in Workers, NEW b \in Batches, StartBatch(w, b)
      PROVE  Base'
  <2>1. PICK S \in Candidates :
           Goto(w, [IdleWorker EXCEPT !.pc = "claim", !.role = "batch", !.batch = b, !.todo = S])
    BY <1>2 DEF StartBatch
  <2> DEFINE l == [IdleWorker EXCEPT !.pc = "claim", !.role = "batch", !.batch = b, !.todo = S]
  <2>2. S \in SUBSET Records
    BY DEF Candidates, Pending
  <2>3. l \in Local /\ l.batch \in Batches
    BY <2>2 DEF IdleWorker, Local, PCs, Roles, Jobs, Roots
  <2>4. wk' \in [Workers -> Local] /\ HoldsBatch'
    BY <2>1, <2>3, GotoBase
  <2> QED
    BY <1>2, <2>4 DEF StartBatch, docVars
<1>3. ASSUME NEW w \in Workers, NEW r \in Records, ClaimDoc(w, r)
      PROVE  Base'
  <2> DEFINE l == [wk[w] EXCEPT !.todo = @ \ {r}]
  <2>1. l \in Local /\ l.batch = wk[w].batch /\ wk[w].batch \in Batches
    BY <1>3 DEF ClaimDoc, Local
  <2>2. wk' \in [Workers -> Local] /\ HoldsBatch'
    BY <1>3, <2>1, GotoBase DEF ClaimDoc
  <2>3. batch_id' \in [Records -> Batches \union {NoBatch}]
    BY <1>3, <2>1 DEF ClaimDoc, Claim
  <2>4. anchor_status' \in [Records -> Statuses]
    BY <1>3 DEF ClaimDoc, Claim, Statuses
  <2> QED
    BY <1>3, <2>2, <2>3, <2>4 DEF ClaimDoc, envVars
<1>4. ASSUME NEW w \in Workers, ReadBack(w)
      PROVE  Base'
  <2> DEFINE l == [wk[w] EXCEPT !.root = Members(wk[w].batch)]
             s == [l EXCEPT !.pc = "store"]
  <2>1. Members(wk[w].batch) \in Roots
    BY DEF Members, Roots
  <2>2. l \in Local /\ l.batch \in Batches
    BY <1>4, <2>1 DEF ReadBack, Local
  <2>3. s \in Local /\ s.batch \in Batches
    BY <2>2 DEF Local, PCs
  <2>4. Update(l, "root") \in Local /\ Update(l, "root").batch \in Batches
    <3>1. Update(l, "root") \in Local
      BY <2>2, LocalTypes DEF Jobs
    <3>2. Update(l, "root").batch = l.batch
      BY <2>2 DEF Update, Local
    <3> QED
      BY <2>2, <3>1, <3>2
  <2>5. IdleWorker \in Local /\ IdleWorker.pc = "idle"
    BY <2>2, LocalTypes DEF IdleWorker
  <2>6. Goto(w, IdleWorker) \/ Goto(w, s) \/ Goto(w, Update(l, "root"))
    BY <1>4 DEF ReadBack
  <2>7. wk' \in [Workers -> Local] /\ HoldsBatch'
    BY <2>3, <2>4, <2>5, <2>6, GotoBase
  <2> QED
    BY <1>4, <2>7 DEF ReadBack, docVars, envVars
<1>5. ASSUME NEW w \in Workers, FailClaim(w) \/ Crash(w)
      PROVE  Base'
  <2>1. IdleWorker \in Local /\ IdleWorker.pc = "idle"
    BY LocalTypes DEF IdleWorker
  <2>2. wk' \in [Workers -> Local] /\ HoldsBatch'
    BY <1>5, <2>1, GotoBase DEF FailClaim, Crash
  <2> QED
    BY <1>5, <2>2 DEF FailClaim, Crash, docVars
<1>6. ASSUME NEW w \in Workers, StartReconcile(w)
      PROVE  Base'
  <2> DEFINE l == [IdleWorker EXCEPT !.pc = "scan", !.role = "reconcile",
                                     !.scopes = UnanchoredScopes]
  <2>1. l \in Local /\ l.pc = "scan"
    BY DEF UnanchoredScopes, IdleWorker, Local, PCs, Roles, Jobs, Roots
  <2>2. wk' \in [Workers -> Local] /\ HoldsBatch'
    BY <1>6, <2>1, GotoBase DEF StartReconcile
  <2> QED
    BY <1>6, <2>2 DEF StartReconcile, docVars, envVars
<1>7. ASSUME NEW w \in Workers, NEW b \in Batches, ReadScope(w, b)
      PROVE  Base'
  <2> DEFINE first == Oldest(Members(b))
             l == [wk[w] EXCEPT !.pc = "store", !.batch = b, !.root = merkle_root[first],
                                !.tx = tx_id[first], !.scopes = @ \ {b}]
  <2>1. first \in Records
    BY <1>7, OldestInSet DEF ReadScope, Members
  <2>2. merkle_root[first] \in Roots /\ tx_id[first] \in BOOLEAN
    BY <2>1
  <2>3. l \in Local /\ l.batch \in Batches
    BY <2>2, ReadsBatch
  <2>4. wk' \in [Workers -> Local] /\ HoldsBatch'
    BY <1>7, <2>3, GotoBase DEF ReadScope
  <2> QED
    BY <1>7, <2>4 DEF ReadScope, docVars, envVars
<1>8. ASSUME NEW w \in Workers, NEW b \in Batches, SkipScope(w, b)
      PROVE  Base'
  <2> DEFINE l == NextScope([wk[w] EXCEPT !.scopes = @ \ {b}])
  <2>1. [wk[w] EXCEPT !.scopes = @ \ {b}] \in Local
    BY DEF Local
  <2>2. l \in Local /\ l.pc \in {"idle", "scan"}
    BY <2>1, LocalTypes DEF NextScope, IdleWorker
  <2>3. wk' \in [Workers -> Local] /\ HoldsBatch'
    BY <1>8, <2>2, GotoBase DEF SkipScope
  <2> QED
    BY <1>8, <2>3 DEF SkipScope, docVars
<1>9. ASSUME NEW w \in Workers, Store(w)
      PROVE  Base'
  <2>1. [wk[w] EXCEPT !.pc = "wait"] \in Local /\ [wk[w] EXCEPT !.pc = "wait"].batch \in Batches
    BY <1>9 DEF Store, Local, PCs
  <2>2. wk' \in [Workers -> Local] /\ HoldsBatch'
    BY <1>9, <2>1, GotoBase DEF Store
  <2> QED
    BY <1>9, <2>2 DEF Store, docVars, envVars
<1>10. ASSUME NEW w \in Workers, Timeout(w)
       PROVE  Base'
  BY <1>10 DEF Timeout, docVars, envVars
<1>11. ASSUME NEW w \in Workers, Answered(w)
       PROVE  Base'
  <2> DEFINE own == [wk[w] EXCEPT !.tx = TRUE]
  <2>l. wk[w] \in Local /\ wk[w].pc = "wait"
    BY <1>11 DEF Answered
  <2>own. own \in Local /\ own.batch = wk[w].batch
    BY <2>l, SetsTx
  <2>1. wk[w] \in Local /\ own \in Local /\ wk[w].batch \in Batches /\ own.batch \in Batches
    BY <2>l, <2>own
  <2>2. \A l \in Local, job \in Jobs : Update(l, job).batch = l.batch
    BY DEF Update, Local
  <2>3. NextScope(wk[w]).pc \in {"idle", "scan"}
    BY DEF NextScope, IdleWorker
  <2>4. \/ Goto(w, Update(own, "anchored"))
        \/ Goto(w, Update(wk[w], "failed"))
        \/ Goto(w, Update(wk[w], "synced"))
        \/ Goto(w, NextScope(wk[w]))
    BY <1>11 DEF Answered, StoreOk, StoreFailed, StoreAlready, StoreRetryLater
  <2>5. {"anchored", "failed", "synced"} \subseteq Jobs
    BY DEF Jobs
  <2>6. wk' \in [Workers -> Local] /\ HoldsBatch'
    BY <2>1, <2>2, <2>3, <2>4, <2>5, LocalTypes, GotoBase
  <2> QED
    BY <1>11, <2>6 DEF Answered, docVars, envVars
<1>12. ASSUME NEW w \in Workers, NEW r \in Records, WriteDoc(w, r)
       PROVE  Base'
  <2> DEFINE l == [wk[w] EXCEPT !.todo = @ \ {r}]
  <2>1. l \in Local /\ l.batch = wk[w].batch /\ wk[w].batch \in Batches
    BY <1>12 DEF WriteDoc, Local
  <2>2. wk' \in [Workers -> Local] /\ HoldsBatch'
    BY <1>12, <2>1, GotoBase DEF WriteDoc
  <2>3. wk[w].root \in Roots /\ wk[w].tx \in BOOLEAN
    BY DEF Local
  <2>4. merkle_root' \in [Records -> Roots] /\ tx_id' \in [Records -> BOOLEAN]
    BY <1>12, <2>3 DEF WriteDoc
  <2>5. anchor_status' \in [Records -> Statuses]
    BY <1>12 DEF WriteDoc, StatusAfter, Statuses
  <2> QED
    BY <1>12, <2>2, <2>4, <2>5 DEF WriteDoc, envVars
<1>13. ASSUME NEW w \in Workers, FinishWrite(w) \/ FailWrite(w)
       PROVE  Base'
  <2>1. AfterWrite(wk[w]) \in Local /\ AfterWrite(wk[w]).pc \in {"idle", "scan"}
    BY LocalTypes DEF AfterWrite, NextScope, IdleWorker
  <2>2. wk' \in [Workers -> Local] /\ HoldsBatch'
    BY <1>13, <2>1, GotoBase DEF FinishWrite, FailWrite
  <2>3. notices' \in [Batches -> Nat] /\ faults' \in Nat
    BY <1>13 DEF FinishWrite, FailWrite, Notify
  <2> QED
    BY <1>13, <2>2, <2>3 DEF FinishWrite, FailWrite, docVars
<1>14. CASE EnableLedger
  BY <1>14 DEF EnableLedger, docVars
<1>15. CASE Network
  BY <1>15 DEF Network, docVars, envVars
<1>16. CASE UNCHANGED vars
  BY <1>16 DEF vars, docVars, envVars
<1>17. ASSUME NEW w \in Workers, Outlive(w)
       PROVE  Base'
  <2> DEFINE l == Alone(wk[w])
  <2>1. l \in Local /\ l.batch = wk[w].batch /\ wk[w].batch \in Batches
    BY <1>17 DEF Outlive, Alone, Local, Roles, Jobs
  <2>2. wk' \in [Workers -> Local] /\ HoldsBatch'
    BY <1>17, <2>1, GotoBase DEF Outlive
  <2>3. notices' \in [Batches -> Nat] /\ faults' \in Nat
    BY <1>17 DEF Outlive, Notify
  <2> QED
    BY <1>17, <2>2, <2>3 DEF Outlive, docVars
<1> QED
  BY <1>1, <1>2, <1>3, <1>4, <1>5, <1>6, <1>7, <1>8, <1>9, <1>10, <1>11, <1>12, <1>13,
     <1>14, <1>15, <1>16, <1>17 DEF Next, Step, Start, Failure

\* The pipeline is type-correct.
THEOREM TypeCorrect == Spec => []TypeOK
<1>1. Base => TypeOK
  BY DEF Base
<1> QED
  BY <1>1, InitBase, NextBase, PTL DEF Spec

-----------------------------------------------------------------------------
(* What each step does to the locals of the worker that takes it            *)

OthersRest(w) == \A v \in Workers \ {w} : wk'[v] = wk[v]

LEMMA GotoMoves ==
    ASSUME Base, NEW w \in Workers, NEW l, Goto(w, l)
    PROVE  wk'[w] = l /\ OthersRest(w)
  BY DEF Base, TypeOK, Goto, OthersRest

LEMMA MoveStartBatch ==
    ASSUME Base, NEW w \in Workers, NEW b \in Batches, StartBatch(w, b)
    PROVE  /\ OthersRest(w) /\ wk'[w].pc = "claim" /\ wk'[w].batch = b
           /\ wk'[w].role = "batch"
<1>1. PICK S : Goto(w, [IdleWorker EXCEPT !.pc = "claim", !.role = "batch",
                                          !.batch = b, !.todo = S])
  BY DEF StartBatch
<1> DEFINE l == [IdleWorker EXCEPT !.pc = "claim", !.role = "batch", !.batch = b, !.todo = S]
<1>2. l.pc = "claim" /\ l.batch = b /\ l.role = "batch"
  BY DEF IdleWorker
<1> HIDE DEF l
<1>3. wk'[w] = l /\ OthersRest(w)
  BY <1>1, GotoMoves DEF l
<1> QED
  BY <1>2, <1>3

LEMMA MoveClaimDoc ==
    ASSUME Base, NEW w \in Workers, NEW r \in Records, ClaimDoc(w, r)
    PROVE  /\ OthersRest(w) /\ wk'[w].pc = "claim" /\ wk'[w].batch = wk[w].batch
           /\ wk'[w].role = wk[w].role
<1>1. wk'[w] = [wk[w] EXCEPT !.todo = @ \ {r}] /\ OthersRest(w)
  BY GotoMoves DEF ClaimDoc
<1> QED
  BY <1>1 DEF ClaimDoc, Base, TypeOK, Local

LEMMA MoveReadBack ==
    ASSUME Base, NEW w \in Workers, ReadBack(w)
    PROVE  /\ OthersRest(w)
           /\ \/ wk'[w].pc = "idle" /\ (Members(wk[w].batch) = {} \/ wk[w].role = "none")
              \/ /\ \/ wk'[w].pc = "store"
                    \/ wk'[w].pc = "write" /\ wk'[w].job = "root"
                 /\ wk'[w].batch = wk[w].batch /\ wk'[w].role = wk[w].role
                 /\ wk'[w].root = Members(wk[w].batch) /\ Members(wk[w].batch) # {}
                 /\ wk'[w].pc = "write" => wk'[w].todo = Members(wk[w].batch)
<1> DEFINE l == [wk[w] EXCEPT !.root = Members(wk[w].batch)]
<1>1. \/ Goto(w, IdleWorker) /\ (Members(wk[w].batch) = {} \/ wk[w].role = "none")
      \/ Goto(w, [l EXCEPT !.pc = "store"]) /\ Members(wk[w].batch) # {}
      \/ Goto(w, Update(l, "root")) /\ Members(wk[w].batch) # {}
  BY DEF ReadBack
<1> DEFINE s == [l EXCEPT !.pc = "store"]
           u == Update(l, "root")
<1>2. wk[w] \in Local
  BY DEF Base, TypeOK
<1>3. IdleWorker.pc = "idle"
  BY DEF IdleWorker
<1>4. /\ s.pc = "store" /\ s.batch = wk[w].batch /\ s.root = Members(wk[w].batch)
      /\ u.pc = "write" /\ u.batch = wk[w].batch /\ u.root = Members(wk[w].batch)
      /\ u.job = "root" /\ u.todo = Members(wk[w].batch)
      /\ s.role = wk[w].role /\ u.role = wk[w].role
  BY <1>2 DEF Update, Local
<1> HIDE DEF s, u
<1>5. /\ OthersRest(w)
      /\ \/ wk'[w] = IdleWorker /\ (Members(wk[w].batch) = {} \/ wk[w].role = "none")
         \/ (wk'[w] = s \/ wk'[w] = u) /\ Members(wk[w].batch) # {}
  BY <1>1, GotoMoves DEF s, u
<1> QED
  BY <1>3, <1>4, <1>5

\* The steps that leave a worker idle, or on its way to the next scope.
Resets(w) == \/ FailClaim(w) \/ StartReconcile(w) \/ Crash(w)
             \/ FinishWrite(w) \/ FailWrite(w)
             \/ \E b \in Batches : SkipScope(w, b)

LEMMA MoveReset ==
    ASSUME Base, NEW w \in Workers, Resets(w)
    PROVE  /\ OthersRest(w) /\ wk'[w].pc \in {"idle", "scan"}
           /\ wk'[w].pc = "scan" => wk'[w].role = "reconcile"
<1> DEFINE Reset(l) == l.pc \in {"idle", "scan"} /\ (l.pc = "scan" => l.role = "reconcile")
<1>1. \A l : Reset(NextScope(l)) /\ Reset(AfterWrite(l))
  BY DEF NextScope, AfterWrite, IdleWorker
<1>2. Reset(IdleWorker)
  BY DEF IdleWorker
<1>3. Reset([IdleWorker EXCEPT !.pc = "scan", !.role = "reconcile",
                               !.scopes = UnanchoredScopes])
  BY DEF IdleWorker
<1> HIDE DEF Reset
<1>4. PICK l : Goto(w, l) /\ Reset(l)
  BY <1>1, <1>2, <1>3 DEF Resets, FailClaim, StartReconcile, Crash, FinishWrite, FailWrite,
                         SkipScope
<1> QED
  BY <1>4, GotoMoves DEF Reset

LEMMA MoveOutlive ==
    ASSUME Base, NEW w \in Workers, Outlive(w)
    PROVE  /\ OthersRest(w) /\ wk[w].pc \in {"claim", "write"} /\ wk'[w].pc = wk[w].pc
           /\ wk'[w].batch = wk[w].batch /\ wk'[w].root = wk[w].root
           /\ wk'[w].todo = wk[w].todo /\ wk'[w].role = "none"
           /\ wk'[w].job = IF wk[w].job = "anchored" THEN "synced" ELSE wk[w].job
<1>1. wk'[w] = Alone(wk[w]) /\ OthersRest(w) /\ wk[w].pc \in {"claim", "write"}
  BY GotoMoves DEF Outlive
<1> QED
  BY <1>1 DEF Alone, Base, TypeOK, Local

LEMMA MoveReadScope ==
    ASSUME Base, NEW w \in Workers, NEW b \in Batches, ReadScope(w, b)
    PROVE  /\ OthersRest(w) /\ wk'[w].pc = "store" /\ wk'[w].batch = b
           /\ \E first \in Members(b) : wk'[w].root = merkle_root[first]
<1> DEFINE first == Oldest(Members(b))
<1>1. first \in Members(b)
  BY OldestInSet DEF ReadScope, Members
<1>2. OthersRest(w)
      /\ wk'[w] = [wk[w] EXCEPT !.pc = "store", !.batch = b, !.root = merkle_root[first],
                                !.tx = tx_id[first], !.scopes = @ \ {b}]
  BY GotoMoves DEF ReadScope
<1>3. wk[w] \in Local
  BY DEF Base, TypeOK
<1> QED
  BY <1>1, <1>2, <1>3 DEF Local

LEMMA MoveStore ==
    ASSUME Base, NEW w \in Workers, Store(w)
    PROVE  /\ OthersRest(w) /\ wk'[w].pc = "wait"
           /\ wk'[w].batch = wk[w].batch /\ wk'[w].root = wk[w].root
           /\ wk'[w].role = wk[w].role
<1>1. OthersRest(w) /\ wk'[w] = [wk[w] EXCEPT !.pc = "wait"]
  BY GotoMoves DEF Store
<1> QED
  BY <1>1 DEF Base, TypeOK, Local

LEMMA MoveAnswered ==
    ASSUME Base, NEW w \in Workers, Answered(w)
    PROVE  /\ OthersRest(w)
           /\ \/ /\ wk'[w].pc \in {"idle", "scan"} /\ call[w].st # "ok"
                 /\ wk[w].role = "reconcile"
                 /\ wk'[w].pc = "scan" => wk'[w].role = "reconcile"
              \/ /\ wk'[w].pc = "write"
                 /\ wk'[w].batch = wk[w].batch /\ wk'[w].root = wk[w].root
                 /\ wk'[w].role = wk[w].role
                 /\ wk'[w].todo = Members(wk[w].batch)
                 /\ wk'[w].job \in {"anchored", "failed", "synced"}
                 /\ wk'[w].job = "anchored" => call[w].st = "ok"
                 /\ wk'[w].job = "synced" => call[w].st = "already"
<1> DEFINE own == [wk[w] EXCEPT !.tx = TRUE]
<1>l. wk[w] \in Local
  BY DEF Base, TypeOK
<1>1. wk[w] \in Local /\ own \in Local
      /\ own.batch = wk[w].batch /\ own.root = wk[w].root /\ own.role = wk[w].role
  BY <1>l, SetsTx
<1>2. \A l \in Local, job \in Jobs :
         /\ Update(l, job).pc = "write"
         /\ Update(l, job).batch = l.batch
         /\ Update(l, job).root = l.root
         /\ Update(l, job).role = l.role
         /\ Update(l, job).todo = Members(l.batch)
         /\ Update(l, job).job = job
  BY DEF Update, Local
<1>3. /\ NextScope(wk[w]).pc \in {"idle", "scan"}
      /\ NextScope(wk[w]).pc = "scan" => NextScope(wk[w]).role = "reconcile"
  BY DEF NextScope, IdleWorker
<1>4. \/ Goto(w, Update(own, "anchored")) /\ call[w].st = "ok"
      \/ Goto(w, Update(wk[w], "failed"))
      \/ Goto(w, Update(wk[w], "synced")) /\ call[w].st = "already"
      \/ Goto(w, NextScope(wk[w])) /\ call[w].st = "error" /\ wk[w].role = "reconcile"
  BY DEF Answered, StoreOk, StoreFailed, StoreAlready, StoreRetryLater
<1>5. {"anchored", "failed", "synced"} \subseteq Jobs
  BY DEF Jobs
<1>6. OthersRest(w)
  BY <1>4, GotoMoves
<1> HIDE DEF own
<1>7. CASE Goto(w, Update(own, "anchored")) /\ call[w].st = "ok"
  <2>1. wk'[w] = Update(own, "anchored")
    BY <1>7, GotoMoves
  <2> QED
    BY <1>1, <1>2, <1>5, <1>6, <1>7, <2>1
<1>8. CASE Goto(w, Update(wk[w], "failed"))
  <2>1. wk'[w] = Update(wk[w], "failed")
    BY <1>8, GotoMoves
  <2> QED
    BY <1>1, <1>2, <1>5, <1>6, <2>1
<1>9. CASE Goto(w, Update(wk[w], "synced")) /\ call[w].st = "already"
  <2>1. wk'[w] = Update(wk[w], "synced")
    BY <1>9, GotoMoves
  <2> QED
    BY <1>1, <1>2, <1>5, <1>6, <1>9, <2>1
<1>10. CASE Goto(w, NextScope(wk[w])) /\ call[w].st = "error" /\ wk[w].role = "reconcile"
  <2>1. wk'[w] = NextScope(wk[w])
    BY <1>10, GotoMoves
  <2> QED
    BY <1>3, <1>6, <1>10, <2>1
<1> QED
  BY <1>4, <1>7, <1>8, <1>9, <1>10

LEMMA MoveWriteDoc ==
    ASSUME Base, NEW w \in Workers, NEW r \in Records, WriteDoc(w, r)
    PROVE  /\ OthersRest(w) /\ wk'[w].pc = "write"
           /\ wk'[w].batch = wk[w].batch /\ wk'[w].root = wk[w].root
           /\ wk'[w].job = wk[w].job /\ wk'[w].todo = wk[w].todo \ {r}
           /\ wk'[w].role = wk[w].role
<1>1. OthersRest(w) /\ wk'[w] = [wk[w] EXCEPT !.todo = @ \ {r}]
  BY GotoMoves DEF WriteDoc
<1> QED
  BY <1>1 DEF WriteDoc, Base, TypeOK, Local

-----------------------------------------------------------------------------
(* Membership in batches                                                    *)

\* Only a claim changes batch_id, and only of a pending record.
LEMMA OnlyClaimsBatch ==
    ASSUME [Next]_vars
    PROVE  \/ batch_id' = batch_id
           \/ \E w \in Workers, r \in Pending :
                 /\ ClaimDoc(w, r)
                 /\ batch_id' = [batch_id EXCEPT ![r] = wk[w].batch]
<1>1. ASSUME NEW w \in Workers, NEW r \in Records, ClaimDoc(w, r) \/ WriteDoc(w, r)
      PROVE  \/ batch_id' = batch_id
             \/ /\ r \in Pending /\ ClaimDoc(w, r)
                /\ batch_id' = [batch_id EXCEPT ![r] = wk[w].batch]
  BY <1>1 DEF ClaimDoc, Claim, WriteDoc
<1>2. ASSUME NEW w \in Workers,
             \/ ReadBack(w) \/ Store(w) \/ Answered(w) \/ FinishWrite(w)
             \/ FailClaim(w) \/ FailWrite(w) \/ Timeout(w) \/ Crash(w) \/ Outlive(w) \/ StartReconcile(w)
      PROVE  batch_id' = batch_id
  BY <1>2 DEF ReadBack, Store, Answered, FinishWrite, FailClaim, FailWrite, Timeout, Crash,
              Outlive, StartReconcile, docVars
<1>3. ASSUME NEW w \in Workers, NEW b \in Batches,
             ReadScope(w, b) \/ SkipScope(w, b) \/ StartBatch(w, b)
      PROVE  batch_id' = batch_id
  BY <1>3 DEF ReadScope, SkipScope, StartBatch, docVars
<1>4. ASSUME NEW r \in Records, Insert(r) \/ SoftDelete(r)
      PROVE  batch_id' = batch_id
  BY <1>4 DEF Insert, SoftDelete
<1>5. ASSUME EnableLedger \/ Network \/ UNCHANGED vars
      PROVE  batch_id' = batch_id
  BY <1>5 DEF EnableLedger, Network, vars, docVars
<1> QED
  BY <1>1, <1>2, <1>3, <1>4, <1>5 DEF Next, Step, Start, Failure

LEMMA StepKeepsBatch ==
    ASSUME Base, [Next]_vars, NEW r \in Records, batch_id[r] # NoBatch \/ stored[r] = "deleted"
    PROVE  batch_id'[r] = batch_id[r]
  BY OnlyClaimsBatch DEF Base, TypeOK, Pending

\* Claims are exclusive and final (ClaimRecordsForBatch's guard on batch_id).
THEOREM ClaimsAreFinal == Spec => BatchIsForever
<1>1. Base /\ [Next]_vars
      => [\A r \in Records : batch_id[r] # NoBatch => batch_id'[r] = batch_id[r]]_vars
  BY StepKeepsBatch
<1> QED
  BY <1>1, InitBase, NextBase, PTL DEF Spec, BatchIsForever

\* A deleted record is not claimed (ClaimRecordsForBatch's guard on deleted_at).
THEOREM DeletedIsNotClaimed == Spec => DeletedStaysOut
<1>1. Base /\ [Next]_vars
      => [\A r \in Records : stored[r] = "deleted" => batch_id'[r] = batch_id[r]]_vars
  BY StepKeepsBatch
<1> QED
  BY <1>1, InitBase, NextBase, PTL DEF Spec, DeletedStaysOut

-----------------------------------------------------------------------------
(***************************************************************************)
(* Roots.  If batch ids are unique, a root that the pipeline computes      *)
(* commits to the final member list of its batch, wherever the root is     *)
(* kept: in a worker, on a document, in a transaction in flight or on the  *)
(* ledger.                                                                 *)
(*                                                                         *)
(* The argument: a batch is filled by one worker only, the one that drew   *)
(* its id.  That worker computes the root when it has claimed its last     *)
(* record, and from then on nobody adds to the batch (ClosedStays).  Every *)
(* other place gets its root from that one.                                *)
(***************************************************************************)

-----------------------------------------------------------------------------
(* Who may add to a batch                                                   *)

LEMMA UsedGrows == ASSUME [Next]_vars PROVE used \subseteq used'
<1>1. ASSUME NEW w \in Workers, NEW r \in Records, ClaimDoc(w, r) \/ WriteDoc(w, r)
      PROVE  used \subseteq used'
  BY <1>1 DEF ClaimDoc, WriteDoc, envVars
<1>2. ASSUME NEW w \in Workers,
             \/ ReadBack(w) \/ Store(w) \/ Answered(w) \/ FinishWrite(w)
             \/ FailClaim(w) \/ FailWrite(w) \/ Timeout(w) \/ Crash(w) \/ Outlive(w) \/ StartReconcile(w)
      PROVE  used \subseteq used'
  BY <1>2 DEF ReadBack, Store, Answered, FinishWrite, FailClaim, FailWrite, Timeout, Crash,
              Outlive, StartReconcile, envVars
<1>3. ASSUME NEW w \in Workers, NEW b \in Batches,
             ReadScope(w, b) \/ SkipScope(w, b) \/ StartBatch(w, b)
      PROVE  used \subseteq used'
  BY <1>3 DEF ReadScope, SkipScope, StartBatch, envVars
<1>4. ASSUME NEW r \in Records, Insert(r) \/ SoftDelete(r)
      PROVE  used \subseteq used'
  BY <1>4 DEF Insert, SoftDelete, envVars
<1>5. ASSUME EnableLedger \/ Network \/ UNCHANGED vars
      PROVE  used \subseteq used'
  BY <1>5 DEF EnableLedger, Network, vars, envVars
<1> QED
  BY <1>1, <1>2, <1>3, <1>4, <1>5 DEF Next, Step, Start, Failure

\* A step whose worker does not end up claiming creates no claim.
LEMMA NoNewClaim ==
    ASSUME NEW w \in Workers, OthersRest(w), wk'[w].pc # "claim",
           NEW v \in Workers, wk'[v].pc = "claim"
    PROVE  wk[v].pc = "claim" /\ wk'[v].batch = wk[v].batch
  BY DEF OthersRest

\* A worker is claiming because it was, or because it has just drawn a fresh id.
LEMMA ClaimEnters ==
    ASSUME UniqueIds, Base, [Next]_vars, NEW v \in Workers, wk'[v].pc = "claim"
    PROVE  \/ wk[v].pc = "claim" /\ wk'[v].batch = wk[v].batch
           \/ /\ wk[v].pc = "idle" /\ OthersRest(v)
              /\ wk'[v].batch \in used' \ used
<1> DEFINE Old == wk[v].pc = "claim" /\ wk'[v].batch = wk[v].batch
           New == /\ wk[v].pc = "idle" /\ OthersRest(v)
                  /\ wk'[v].batch \in used' \ used
<1>1. ASSUME NEW w \in Workers, NEW b \in Batches, StartBatch(w, b)
      PROVE  Old \/ New
  <2>1. OthersRest(w) /\ wk'[w].batch = b
    BY <1>1, MoveStartBatch
  <2>2. wk[w].pc = "idle" /\ b \in used' \ used
    BY <1>1 DEF StartBatch
  <2> QED
    BY <2>1, <2>2 DEF OthersRest
<1>2. ASSUME NEW w \in Workers, NEW r \in Records, ClaimDoc(w, r)
      PROVE  Old
  <2>1. OthersRest(w) /\ wk'[w].batch = wk[w].batch
    BY <1>2, MoveClaimDoc
  <2>2. wk[w].pc = "claim"
    BY <1>2 DEF ClaimDoc
  <2> QED
    BY <2>1, <2>2 DEF OthersRest
<1>3. ASSUME NEW w \in Workers, OthersRest(w), wk'[w].pc # "claim"
      PROVE  Old
  BY <1>3, NoNewClaim
<1>4. ASSUME NEW w \in Workers, ReadBack(w)
      PROVE  Old
  BY <1>3, <1>4, MoveReadBack
<1>5. ASSUME NEW w \in Workers, Resets(w)
      PROVE  Old
  BY <1>3, <1>5, MoveReset
<1>6. ASSUME NEW w \in Workers, NEW b \in Batches, ReadScope(w, b)
      PROVE  Old
  BY <1>3, <1>6, MoveReadScope
<1>7. ASSUME NEW w \in Workers, Store(w)
      PROVE  Old
  BY <1>3, <1>7, MoveStore
<1>8. ASSUME NEW w \in Workers, Answered(w)
      PROVE  Old
  BY <1>3, <1>8, MoveAnswered
<1>9. ASSUME NEW w \in Workers, NEW r \in Records, WriteDoc(w, r)
      PROVE  Old
  BY <1>3, <1>9, MoveWriteDoc
<1>10. ASSUME wk' = wk
       PROVE  Old
  BY <1>10
<1>11. ASSUME \/ \E r \in Records : Insert(r) \/ SoftDelete(r)
              \/ \E w \in Workers : Timeout(w)
              \/ EnableLedger \/ Network \/ UNCHANGED vars
       PROVE  wk' = wk
  BY <1>11 DEF Insert, SoftDelete, Timeout, EnableLedger, Network, vars
<1>12. ASSUME NEW w \in Workers, Outlive(w)
       PROVE  Old
  BY <1>12, MoveOutlive DEF OthersRest
<1> HIDE DEF Old, New
<1> QED
  <2>1. Old \/ New
    BY <1>1, <1>2, <1>4, <1>5, <1>6, <1>7, <1>8, <1>9, <1>10, <1>11, <1>12
       DEF Next, Step, Start, Failure, Resets
  <2> QED
    BY <2>1 DEF Old, New

\* Once the worker that filled a batch is done with it, the batch is final.
LEMMA ClosedStays ==
    ASSUME UniqueIds, Base, IdsAreDrawn, [Next]_vars,
           NEW b \in Batches, Members(b) # {}, Closed(b)
    PROVE  Closed(b)' /\ Members(b)' = Members(b)
<1>1. b \in used
  BY SentinelAssumption DEF IdsAreDrawn, Members
<1>2. Closed(b)'
  <2> SUFFICES ASSUME NEW v \in Workers, wk'[v].pc = "claim", wk'[v].batch = b
               PROVE  FALSE
    BY DEF Closed
  <2> QED
    BY <1>1, ClaimEnters DEF Closed
<1>3. Members(b)' = Members(b)
  <2>1. CASE batch_id' = batch_id
    BY <2>1 DEF Members
  <2>2. ASSUME NEW w \in Workers, NEW r \in Pending, ClaimDoc(w, r),
               batch_id' = [batch_id EXCEPT ![r] = wk[w].batch]
        PROVE  Members(b)' = Members(b)
    <3>1. wk[w].batch # b
      BY <2>2 DEF ClaimDoc, Closed
    <3>2. batch_id[r] # b
      BY SentinelAssumption DEF Pending
    <3> QED
      BY <2>2, <3>1, <3>2 DEF Members, Base, TypeOK
  <2> QED
    BY <2>1, <2>2, OnlyClaimsBatch
<1> QED
  BY <1>2, <1>3

LEMMA CommitmentStays ==
    ASSUME UniqueIds, Base, IdsAreDrawn, [Next]_vars,
           NEW b \in Batches, NEW root, root # {}, CommitsTo(b, root)
    PROVE  root = Members(b)' /\ Closed(b)'
  BY ClosedStays DEF CommitsTo

-----------------------------------------------------------------------------
(* Where roots come from                                                    *)

Holds(v) == wk[v].pc \in {"store", "wait", "write"}

\* v computes the root of the batch it has claimed.
ReadsBack(v) ==
    /\ wk[v].pc = "claim" /\ OthersRest(v) /\ batch_id' = batch_id
    /\ wk'[v].batch = wk[v].batch /\ wk'[v].root = Members(wk[v].batch)
    /\ Members(wk[v].batch) # {}

\* v reads the root that is stamped on a member of the batch.
ReadsStamp(v) ==
    /\ wk[v].pc = "scan" /\ wk'[v].batch \in Batches
    /\ \E r \in Members(wk'[v].batch) : wk'[v].root = merkle_root[r]

\* A worker holds a root because it did, or it has computed it, or it has read it.
LEMMA RootEnters ==
    ASSUME Base, [Next]_vars, NEW v \in Workers, wk'[v].pc \in {"store", "wait", "write"}
    PROVE  \/ Holds(v) /\ wk'[v].batch = wk[v].batch /\ wk'[v].root = wk[v].root
           \/ ReadsBack(v)
           \/ ReadsStamp(v)
<1> DEFINE Old == Holds(v) /\ wk'[v].batch = wk[v].batch /\ wk'[v].root = wk[v].root
<1>1. ASSUME wk'[v] = wk[v]
      PROVE  Old
  BY <1>1 DEF Holds
<1>2. ASSUME NEW w \in Workers, NEW b \in Batches, StartBatch(w, b)
      PROVE  Old
  BY <1>1, <1>2, MoveStartBatch DEF OthersRest
<1>3. ASSUME NEW w \in Workers, NEW r \in Records, ClaimDoc(w, r)
      PROVE  Old
  BY <1>1, <1>3, MoveClaimDoc DEF OthersRest
<1>4. ASSUME NEW w \in Workers, ReadBack(w)
      PROVE  Old \/ ReadsBack(v)
  <2>1. CASE w # v
    BY <1>1, <1>4, <2>1, MoveReadBack DEF OthersRest
  <2>2. CASE w = v
    <3>1. wk[v].pc = "claim" /\ batch_id' = batch_id
      BY <1>4, <2>2 DEF ReadBack, docVars
    <3> QED
      BY <1>4, <2>2, <3>1, MoveReadBack DEF ReadsBack
  <2> QED
    BY <2>1, <2>2
<1>5. ASSUME NEW w \in Workers, Resets(w)
      PROVE  Old
  BY <1>1, <1>5, MoveReset DEF OthersRest
<1>6. ASSUME NEW w \in Workers, NEW b \in Batches, ReadScope(w, b)
      PROVE  Old \/ ReadsStamp(v)
  <2>1. wk[w].pc = "scan"
    BY <1>6 DEF ReadScope
  <2> QED
    BY <1>1, <1>6, <2>1, MoveReadScope DEF OthersRest, ReadsStamp
<1>7. ASSUME NEW w \in Workers, Store(w)
      PROVE  Old
  <2>1. wk[w].pc = "store"
    BY <1>7 DEF Store
  <2> QED
    BY <1>1, <1>7, <2>1, MoveStore DEF OthersRest, Holds
<1>8. ASSUME NEW w \in Workers, Answered(w)
      PROVE  Old
  <2>1. wk[w].pc = "wait"
    BY <1>8 DEF Answered
  <2> QED
    BY <1>1, <1>8, <2>1, MoveAnswered DEF OthersRest, Holds
<1>9. ASSUME NEW w \in Workers, NEW r \in Records, WriteDoc(w, r)
      PROVE  Old
  <2>1. wk[w].pc = "write"
    BY <1>9 DEF WriteDoc
  <2> QED
    BY <1>1, <1>9, <2>1, MoveWriteDoc DEF OthersRest, Holds
<1>10. ASSUME \/ \E r \in Records : Insert(r) \/ SoftDelete(r)
              \/ \E w \in Workers : Timeout(w)
              \/ EnableLedger \/ Network \/ UNCHANGED vars
       PROVE  Old
  BY <1>1, <1>10 DEF Insert, SoftDelete, Timeout, EnableLedger, Network, vars
<1>11. ASSUME NEW w \in Workers, Outlive(w)
       PROVE  Old
  BY <1>1, <1>11, MoveOutlive DEF OthersRest, Holds
<1> HIDE DEF Old
<1> QED
  <2>1. Old \/ ReadsBack(v) \/ ReadsStamp(v)
    BY <1>2, <1>3, <1>4, <1>5, <1>6, <1>7, <1>8, <1>9, <1>10, <1>11
       DEF Next, Step, Start, Failure, Resets
  <2> QED
    BY <2>1 DEF Old

\* A root is stamped by the worker that holds it, on a member of its batch.
LEMMA StampEnters ==
    ASSUME Base, UpdatesOwnBatch, [Next]_vars, NEW r \in Records,
           merkle_root'[r] # merkle_root[r]
    PROVE  \E w \in Workers : /\ wk[w].pc = "write" /\ batch_id[r] = wk[w].batch
                             /\ merkle_root'[r] = wk[w].root
<1>1. ASSUME NEW w \in Workers, NEW q \in Records, WriteDoc(w, q)
      PROVE  q = r /\ wk[w].pc = "write" /\ batch_id[r] = wk[w].batch
             /\ merkle_root'[r] = wk[w].root
  BY <1>1 DEF WriteDoc, UpdatesOwnBatch, Members, Base, TypeOK
<1>2. ASSUME NEW w \in Workers, NEW q \in Records, ClaimDoc(w, q) \/ Insert(q) \/ SoftDelete(q)
      PROVE  FALSE
  BY <1>2 DEF ClaimDoc, Insert, SoftDelete
<1>3. ASSUME NEW w \in Workers,
             \/ ReadBack(w) \/ Store(w) \/ Answered(w) \/ FinishWrite(w)
             \/ FailClaim(w) \/ FailWrite(w) \/ Timeout(w) \/ Crash(w) \/ Outlive(w) \/ StartReconcile(w)
      PROVE  FALSE
  BY <1>3 DEF ReadBack, Store, Answered, FinishWrite, FailClaim, FailWrite, Timeout, Crash,
              Outlive, StartReconcile, docVars
<1>4. ASSUME NEW w \in Workers, NEW b \in Batches,
             ReadScope(w, b) \/ SkipScope(w, b) \/ StartBatch(w, b)
      PROVE  FALSE
  BY <1>4 DEF ReadScope, SkipScope, StartBatch, docVars
<1>5. ASSUME NEW q \in Records, Insert(q) \/ SoftDelete(q)
      PROVE  FALSE
  BY <1>5 DEF Insert, SoftDelete
<1>6. ASSUME EnableLedger \/ Network \/ UNCHANGED vars
      PROVE  FALSE
  BY <1>6 DEF EnableLedger, Network, vars, docVars
<1> QED
  BY <1>1, <1>2, <1>3, <1>4, <1>5, <1>6 DEF Next, Step, Start, Failure

\* A transaction carries the root of an older one, or of the worker that sends it.
LEMMA TxEnters ==
    ASSUME Base, [Next]_vars, NEW t \in txs'
    PROVE  \/ \E s \in txs : s.batch = t.batch /\ s.root = t.root
           \/ \E w \in Workers : wk[w].pc = "store" /\ t.batch = wk[w].batch /\ t.root = wk[w].root
<1> DEFINE Older == \E s \in txs : s.batch = t.batch /\ s.root = t.root
           Sent == \E w \in Workers : /\ wk[w].pc = "store"
                                      /\ t.batch = wk[w].batch /\ t.root = wk[w].root
<1>1. ASSUME NEW w \in Workers, Store(w)
      PROVE  Older \/ Sent
  BY <1>1 DEF Store, L!Endorse, L!Proposal, L!Refuse, L!FailEarly, Asked
<1>2. ASSUME NEW w \in Workers, txs' = L!Orphaned(w)
      PROVE  Older
  BY <1>2 DEF L!Orphaned, Base, TypeOK, L!TypeOK, L!Tx
<1>3. ASSUME NEW w \in Workers, Timeout(w) \/ Crash(w)
      PROVE  Older
  BY <1>2, <1>3 DEF Timeout, Crash, L!LoseStatus, L!Abandon, L!Return, ledgerVars
<1>4. ASSUME NEW w \in Workers, Answered(w)
      PROVE  Older
  BY <1>4 DEF Answered, L!Return
<1>5. ASSUME Network
      PROVE  Older
  BY <1>5 DEF Network, L!Network, L!Commit, L!Invalidate, L!Drop
<1>6. ASSUME NEW w \in Workers, NEW r \in Records, ClaimDoc(w, r) \/ WriteDoc(w, r)
      PROVE  Older
  BY <1>6 DEF ClaimDoc, WriteDoc, ledgerVars
<1>7. ASSUME NEW w \in Workers, NEW b \in Batches,
             ReadScope(w, b) \/ SkipScope(w, b) \/ StartBatch(w, b)
      PROVE  Older
  BY <1>7 DEF ReadScope, SkipScope, StartBatch, ledgerVars
<1>8. ASSUME NEW w \in Workers, \/ ReadBack(w) \/ FinishWrite(w) \/ FailClaim(w)
                                \/ FailWrite(w) \/ Outlive(w) \/ StartReconcile(w)
      PROVE  Older
  BY <1>8 DEF ReadBack, FinishWrite, FailClaim, FailWrite, Outlive, StartReconcile, ledgerVars
<1>9. ASSUME NEW r \in Records, Insert(r) \/ SoftDelete(r)
      PROVE  Older
  BY <1>9 DEF Insert, SoftDelete, ledgerVars
<1>10. ASSUME EnableLedger \/ UNCHANGED vars
       PROVE  Older
  BY <1>10 DEF EnableLedger, vars, ledgerVars
<1> HIDE DEF Older, Sent
<1> QED
  <2>1. Older \/ Sent
    BY <1>1, <1>3, <1>4, <1>5, <1>6, <1>7, <1>8, <1>9, <1>10 DEF Next, Step, Start, Failure
  <2> QED
    BY <2>1 DEF Older, Sent

\* The ledger gets its roots from transactions.
LEMMA AnchorEnters ==
    ASSUME Base, [Next]_vars, NEW b \in Batches, chain'[b] # chain[b]
    PROVE  \E t \in txs : t.batch = b /\ chain'[b] = t.root
<1>1. L!Next \/ UNCHANGED ledgerVars
  BY StepIsLedgerStep DEF L!ledgerVars, ledgerVars
<1>2. chain' = chain \/ \E t \in txs : L!Commit(t)
  BY <1>1 DEF ledgerVars, L!Next, L!Endorse, L!Refuse, L!FailEarly, L!LoseStatus, L!Return,
              L!Abandon, L!Network, L!Invalidate, L!Drop
<1>3. PICK t \in txs : L!Commit(t)
  BY <1>2
<1>4. chain' = [chain EXCEPT ![t.batch] = t.root]
  BY <1>3 DEF L!Commit
<1>5. chain \in [Batches -> {NoAnchor} \union Roots]
  BY DEF Base, TypeOK, L!TypeOK
<1> QED
  BY <1>4, <1>5

-----------------------------------------------------------------------------
(* The invariant                                                            *)

LEMMA InitWholeInv == Init => WholeInv
<1> SUFFICES ASSUME Init
             PROVE  WholeInv
  OBVIOUS
<1>1. Base
  BY InitBase
<1>2. \A w \in Workers : wk[w].pc = "idle"
  BY DEF Init, IdleWorker
<1>3. UpdatesOwnBatch /\ LocalsAreWhole
  BY <1>2 DEF UpdatesOwnBatch, LocalsAreWhole
<1>4. StampedIsClaimed /\ IdsAreDrawn
  BY <1>2 DEF Init, StampedIsClaimed, IdsAreDrawn
<1>5. RootsAreWhole
  BY DEF Init, RootsAreWhole, L!Init
<1> QED
  BY <1>1, <1>3, <1>4, <1>5 DEF WholeInv, Base

LEMMA NextIdsAreDrawn ==
    ASSUME UniqueIds, Base, IdsAreDrawn, [Next]_vars
    PROVE  IdsAreDrawn'
<1>1. ASSUME NEW r \in Records, batch_id'[r] # NoBatch
      PROVE  batch_id'[r] \in used'
  <2>1. CASE batch_id' = batch_id
    BY <1>1, <2>1, UsedGrows DEF IdsAreDrawn
  <2>2. ASSUME NEW w \in Workers, NEW q \in Pending, ClaimDoc(w, q),
               batch_id' = [batch_id EXCEPT ![q] = wk[w].batch]
        PROVE  batch_id'[r] \in used'
    <3>1. wk[w].batch \in used
      BY <2>2 DEF ClaimDoc, IdsAreDrawn
    <3> QED
      BY <1>1, <2>2, <3>1, UsedGrows DEF IdsAreDrawn, Base, TypeOK
  <2> QED
    BY <2>1, <2>2, OnlyClaimsBatch
<1>2. ASSUME NEW w \in Workers, wk'[w].pc = "claim"
      PROVE  wk'[w].batch \in used'
  BY <1>2, ClaimEnters, UsedGrows DEF IdsAreDrawn
<1>3. ASSUME NEW v \in Workers, NEW w \in Workers, wk'[v].pc = "claim", wk'[w].pc = "claim",
             wk'[v].batch = wk'[w].batch
      PROVE  v = w
  <2>1. CASE wk[v].pc = "claim" /\ wk[w].pc = "claim"
    BY <1>3, <2>1, ClaimEnters DEF IdsAreDrawn
  <2>2. CASE wk[v].pc # "claim"
    BY <1>3, <2>2, ClaimEnters DEF IdsAreDrawn, OthersRest
  <2>3. CASE wk[w].pc # "claim"
    BY <1>3, <2>3, ClaimEnters DEF IdsAreDrawn, OthersRest
  <2> QED
    BY <2>1, <2>2, <2>3
<1> QED
  BY <1>1, <1>2, <1>3 DEF IdsAreDrawn

\* A worker updates documents because it did, or it has just listed the batch.
LEMMA WriteEnters ==
    ASSUME Base, [Next]_vars, NEW v \in Workers, wk'[v].pc = "write"
    PROVE  \/ /\ wk[v].pc = "write" /\ wk'[v].batch = wk[v].batch
              /\ wk'[v].todo \subseteq wk[v].todo
           \/ wk'[v].batch \in Batches /\ wk'[v].todo = Members(wk'[v].batch)
<1> DEFINE Old == /\ wk[v].pc = "write" /\ wk'[v].batch = wk[v].batch
                  /\ wk'[v].todo \subseteq wk[v].todo
           New == wk'[v].batch \in Batches /\ wk'[v].todo = Members(wk'[v].batch)
<1>1. ASSUME wk'[v] = wk[v]
      PROVE  Old
  BY <1>1
<1>2. ASSUME NEW w \in Workers, NEW b \in Batches, StartBatch(w, b) \/ ReadScope(w, b)
      PROVE  Old
  BY <1>1, <1>2, MoveStartBatch, MoveReadScope DEF OthersRest
<1>3. ASSUME NEW w \in Workers, NEW r \in Records, ClaimDoc(w, r)
      PROVE  Old
  BY <1>1, <1>3, MoveClaimDoc DEF OthersRest
<1>4. ASSUME NEW w \in Workers, ReadBack(w)
      PROVE  Old \/ New
  <2>1. wk[w].batch \in Batches
    BY <1>4 DEF ReadBack, Base, HoldsBatch
  <2> QED
    BY <1>1, <1>4, <2>1, MoveReadBack DEF OthersRest
<1>5. ASSUME NEW w \in Workers, Resets(w)
      PROVE  Old
  BY <1>1, <1>5, MoveReset DEF OthersRest
<1>6. ASSUME NEW w \in Workers, Store(w)
      PROVE  Old
  BY <1>1, <1>6, MoveStore DEF OthersRest
<1>7. ASSUME NEW w \in Workers, Answered(w)
      PROVE  Old \/ New
  <2>1. wk[w].batch \in Batches
    BY <1>7 DEF Answered, Base, HoldsBatch
  <2> QED
    BY <1>1, <1>7, <2>1, MoveAnswered DEF OthersRest
<1>8. ASSUME NEW w \in Workers, NEW r \in Records, WriteDoc(w, r)
      PROVE  Old
  <2>1. wk[w].pc = "write"
    BY <1>8 DEF WriteDoc
  <2> QED
    BY <1>1, <1>8, <2>1, MoveWriteDoc DEF OthersRest
<1>9. ASSUME \/ \E r \in Records : Insert(r) \/ SoftDelete(r)
             \/ \E w \in Workers : Timeout(w)
             \/ EnableLedger \/ Network \/ UNCHANGED vars
       PROVE  Old
  BY <1>1, <1>9 DEF Insert, SoftDelete, Timeout, EnableLedger, Network, vars
<1>10. ASSUME NEW w \in Workers, Outlive(w)
       PROVE  Old
  BY <1>1, <1>10, MoveOutlive DEF OthersRest
<1> HIDE DEF Old, New
<1> QED
  <2>1. Old \/ New
    BY <1>2, <1>3, <1>4, <1>5, <1>6, <1>7, <1>8, <1>9, <1>10 DEF Next, Step, Start, Failure, Resets
  <2> QED
    BY <2>1 DEF Old, New

LEMMA NextUpdatesOwnBatch ==
    ASSUME Base, Base', UpdatesOwnBatch, [Next]_vars
    PROVE  UpdatesOwnBatch'
<1> SUFFICES ASSUME NEW v \in Workers, wk'[v].pc = "write"
             PROVE  wk'[v].todo \subseteq {r \in Records : batch_id'[r] = wk'[v].batch}
  BY DEF UpdatesOwnBatch, Members
<1> DEFINE b == wk'[v].batch
<1>1. b \in Batches
  BY DEF Base, HoldsBatch
<1>2. wk'[v].todo \subseteq Members(b)
  BY WriteEnters DEF UpdatesOwnBatch
<1>3. \A r \in Records : batch_id[r] = b => batch_id'[r] = b
  BY <1>1, StepKeepsBatch, SentinelAssumption
<1> QED
  BY <1>2, <1>3 DEF Members

LEMMA NextStampedIsClaimed ==
    ASSUME Base, UpdatesOwnBatch, StampedIsClaimed, [Next]_vars
    PROVE  StampedIsClaimed'
<1> SUFFICES ASSUME NEW r \in Records, merkle_root'[r] # {}
             PROVE  batch_id'[r] # NoBatch
  BY DEF StampedIsClaimed
<1>1. batch_id[r] # NoBatch
  <2>1. CASE merkle_root'[r] = merkle_root[r]
    BY <2>1 DEF StampedIsClaimed
  <2>2. CASE merkle_root'[r] # merkle_root[r]
    BY <2>2, StampEnters, SentinelAssumption DEF Base, HoldsBatch
  <2> QED
    BY <2>1, <2>2
<1> QED
  BY <1>1, StepKeepsBatch

\* CommitsTo in the next state, for values of either state.
CommitsToNext(b, root) ==
    /\ root = {r \in Records : batch_id'[r] = b}
    /\ \A w \in Workers : ~(wk'[w].pc = "claim" /\ wk'[w].batch = b)

LEMMA Carried ==
    ASSUME UniqueIds, Base, IdsAreDrawn, [Next]_vars,
           NEW b \in Batches, NEW root, root # {}, CommitsTo(b, root)
    PROVE  CommitsToNext(b, root)
  BY CommitmentStays DEF CommitsToNext, Members, Closed

LEMMA NextLocalsAreWhole ==
    ASSUME UniqueIds, WholeInv, Base', [Next]_vars
    PROVE  LocalsAreWhole'
<1> SUFFICES ASSUME NEW v \in Workers, wk'[v].pc \in {"store", "wait", "write"},
                    wk'[v].root # {}
             PROVE  CommitsToNext(wk'[v].batch, wk'[v].root)
  BY DEF LocalsAreWhole, CommitsTo, CommitsToNext, Members, Closed
<1> DEFINE b == wk'[v].batch
           root == wk'[v].root
<1>1. Base /\ IdsAreDrawn /\ b \in Batches
  BY DEF WholeInv, Base, HoldsBatch
<1>2. CASE Holds(v) /\ b = wk[v].batch /\ root = wk[v].root
  BY <1>1, <1>2, Carried DEF Holds, WholeInv, LocalsAreWhole
<1>3. CASE ReadsBack(v)
  <2>1. root = {r \in Records : batch_id'[r] = b}
    BY <1>3 DEF ReadsBack, Members
  <2>2. ASSUME NEW w \in Workers, wk'[w].pc = "claim", wk'[w].batch = b
        PROVE  FALSE
    <3>1. w # v
      BY <2>2
    <3>2. wk[w].pc = "claim" /\ wk[w].batch = wk[v].batch
      BY <1>3, <2>2, <3>1 DEF ReadsBack, OthersRest
    <3> QED
      BY <1>1, <1>3, <3>1, <3>2 DEF ReadsBack, IdsAreDrawn
  <2> QED
    BY <2>1, <2>2 DEF CommitsToNext
<1>4. CASE ReadsStamp(v)
  <2>1. PICK r \in Members(b) : root = merkle_root[r]
    BY <1>4 DEF ReadsStamp
  <2>2. CommitsTo(b, root)
    BY <2>1 DEF Members, WholeInv, RootsAreWhole
  <2> QED
    BY <1>1, <2>2, Carried
<1> QED
  BY <1>1, <1>2, <1>3, <1>4, RootEnters

LEMMA NextRootsAreWhole ==
    ASSUME UniqueIds, WholeInv, Base', [Next]_vars
    PROVE  RootsAreWhole'
<1>1. Base /\ IdsAreDrawn /\ UpdatesOwnBatch
  BY DEF WholeInv, Base
<1>2. ASSUME NEW w \in Workers, Holds(w), wk[w].root # {}
      PROVE  wk[w].batch \in Batches /\ CommitsToNext(wk[w].batch, wk[w].root)
  BY <1>1, <1>2, Carried DEF Holds, WholeInv, HoldsBatch, LocalsAreWhole
<1>3. ASSUME NEW r \in Records, merkle_root'[r] # {}
      PROVE  CommitsToNext(batch_id'[r], merkle_root'[r])
  <2>1. CASE merkle_root'[r] = merkle_root[r]
    <3>1. batch_id[r] # NoBatch /\ CommitsTo(batch_id[r], merkle_root[r])
      BY <1>3, <2>1 DEF WholeInv, StampedIsClaimed, RootsAreWhole
    <3>2. batch_id[r] \in Batches /\ batch_id'[r] = batch_id[r]
      BY <1>1, <3>1, StepKeepsBatch DEF Base, TypeOK
    <3> QED
      BY <1>1, <1>3, <2>1, <3>1, <3>2, Carried
  <2>2. CASE merkle_root'[r] # merkle_root[r]
    <3>1. PICK w \in Workers : /\ wk[w].pc = "write" /\ batch_id[r] = wk[w].batch
                              /\ merkle_root'[r] = wk[w].root
      BY <1>1, <2>2, StampEnters
    <3>2. wk[w].batch \in Batches /\ CommitsToNext(wk[w].batch, wk[w].root)
      BY <1>2, <1>3, <3>1 DEF Holds
    <3>3. batch_id'[r] = batch_id[r]
      BY <1>1, <3>1, <3>2, StepKeepsBatch, SentinelAssumption
    <3> QED
      BY <3>1, <3>2, <3>3
  <2> QED
    BY <2>1, <2>2
<1>4. ASSUME NEW t \in txs, t.root # {}
      PROVE  t.batch \in Batches /\ CommitsToNext(t.batch, t.root)
  <2>1. t.batch \in Batches /\ CommitsTo(t.batch, t.root)
    BY <1>4 DEF WholeInv, RootsAreWhole, TypeOK, L!TypeOK, L!Tx
  <2> QED
    BY <1>1, <1>4, <2>1, Carried
<1>5. ASSUME NEW b \in Batches, chain'[b] \notin {NoAnchor, {}}
      PROVE  CommitsToNext(b, chain'[b])
  <2>1. CASE chain'[b] = chain[b]
    BY <1>1, <1>5, <2>1, Carried DEF WholeInv, RootsAreWhole
  <2>2. CASE chain'[b] # chain[b]
    BY <1>1, <1>4, <1>5, <2>2, AnchorEnters
  <2> QED
    BY <2>1, <2>2
<1>6. ASSUME NEW t \in txs', t.root # {}
      PROVE  CommitsToNext(t.batch, t.root)
  <2>1. CASE \E s \in txs : s.batch = t.batch /\ s.root = t.root
    BY <1>4, <1>6, <2>1
  <2>2. CASE \E w \in Workers : wk[w].pc = "store" /\ t.batch = wk[w].batch
                               /\ t.root = wk[w].root
    BY <1>2, <1>6, <2>2 DEF Holds
  <2> QED
    BY <1>1, <2>1, <2>2, TxEnters
<1> QED
  BY <1>3, <1>5, <1>6 DEF RootsAreWhole, CommitsTo, CommitsToNext, Members, Closed

LEMMA NextWholeInv == ASSUME UniqueIds, WholeInv, [Next]_vars PROVE WholeInv'
<1>1. Base /\ IdsAreDrawn /\ UpdatesOwnBatch /\ StampedIsClaimed
  BY DEF WholeInv, Base
<1>2. Base'
  BY <1>1, NextBase
<1> QED
  BY <1>1, <1>2, NextUpdatesOwnBatch, NextStampedIsClaimed, NextIdsAreDrawn,
     NextLocalsAreWhole, NextRootsAreWhole DEF WholeInv, Base

\* As long as batch ids do not collide, every root that was computed, wherever
\* it is kept, is the root over the whole and final member list of its batch.
THEOREM RootsCommitToBatches == ASSUME UniqueIds PROVE Spec => []RootsAreWhole
<1>1. WholeInv => RootsAreWhole
  BY DEF WholeInv
<1>2. WholeInv /\ [Next]_vars => WholeInv'
  BY NextWholeInv
<1> QED
  BY <1>1, <1>2, InitWholeInv, PTL DEF Spec

-----------------------------------------------------------------------------
(***************************************************************************)
(* Statuses and callbacks: no claimed record is taken for anchored early,  *)
(* and a batch is announced at most once.  Both rest on what a worker      *)
(* knows from the answer of its own ledger call.                           *)
(***************************************************************************)

-----------------------------------------------------------------------------
(* What a step does to one worker and its ledger call                       *)

Rests(v) == wk'[v] = wk[v] /\ call'[v] = call[v]

\* v takes a step of its own that has nothing to do with the ledger.
Works(v) ==
    /\ wk[v].pc # "wait" /\ wk'[v].pc # "wait"
    /\ call'[v] = call[v]
    /\ wk'[v].pc = "write" =>
          \/ wk'[v].job = "root"
          \/ /\ wk[v].pc = "write"
             /\ wk'[v].job = wk[v].job \/ (wk[v].job = "anchored" /\ wk'[v].job = "synced")
             /\ wk'[v].batch = wk[v].batch /\ wk'[v].root = wk[v].root

Asks(v) ==
    /\ wk[v].pc = "store" /\ wk'[v].pc = "wait"
    /\ wk'[v].batch = wk[v].batch /\ wk'[v].root = wk[v].root
    /\ \E st \in {"submitted", "already", "error"} : call'[v] = L!Call(Asked(v), st)

Learns(v) ==
    /\ wk[v].pc = "wait" /\ call'[v] = L!Idle
    /\ \/ wk'[v].pc \in {"idle", "scan"}
       \/ /\ wk'[v].pc = "write"
          /\ wk'[v].batch = wk[v].batch /\ wk'[v].root = wk[v].root
          /\ wk'[v].job \in {"anchored", "failed", "synced"}
          /\ wk'[v].job = "anchored" => call[v].st = "ok"
          /\ wk'[v].job = "synced" => call[v].st = "already"

GivesUp(v) == /\ wk'[v] = wk[v] /\ wk[v].pc = "wait"
              /\ call'[v] = [call[v] EXCEPT !.st = "error"]
              /\ call[v].st = "submitted"

Dies(v) == wk'[v].pc = "idle" /\ call'[v] = L!Idle

IsTold(v) ==
    /\ wk'[v] = wk[v]
    /\ call[v].st = "submitted"
    /\ \E t \in txs :
          /\ t.waiter = v /\ t.batch = call[v].batch /\ t.root = call[v].root
          /\ \/ L!Commit(t) /\ call'[v] = L!Call(t, "ok")
             \/ L!Invalidate(t) /\ call'[v] = L!Call(t, "error")

Moves(v) == Rests(v) \/ Works(v) \/ Asks(v) \/ Learns(v) \/ GivesUp(v) \/ Dies(v) \/ IsTold(v)

\* A transaction that has a waiter is the one its waiter asked for.
LEMMA OwnTx ==
    ASSUME L!WaitsForOwn, NEW v \in Workers, NEW t \in txs, t.waiter = v
    PROVE  /\ call[v].st = "submitted"
           /\ t.batch = call[v].batch /\ t.root = call[v].root
<1>1. t \in L!Own(v)
  BY DEF L!Own
<1>2. call[v].st = "submitted"
      /\ t = [batch |-> call[v].batch, root |-> call[v].root, read |-> NoAnchor, waiter |-> v]
  BY <1>1 DEF L!WaitsForOwn, L!Waits
<1> QED
  BY <1>2

LEMMA NetworkMoves ==
    ASSUME Base, L!WaitsForOwn, Network, NEW v \in Workers
    PROVE  Rests(v) \/ IsTold(v)
<1>1. wk' = wk
  BY DEF Network
<1>2. PICK t \in txs : L!Commit(t) \/ L!Invalidate(t) \/ L!Drop(t)
  BY DEF Network, L!Network
<1>3. CASE L!Drop(t) \/ t.waiter # v
  BY <1>1, <1>2, <1>3 DEF L!Drop, L!Commit, L!Invalidate, L!Tell, Rests, Base, TypeOK, L!TypeOK
<1>4. CASE t.waiter = v /\ (L!Commit(t) \/ L!Invalidate(t))
  <2>1. \/ L!Commit(t) /\ call'[v] = L!Call(t, "ok")
        \/ L!Invalidate(t) /\ call'[v] = L!Call(t, "error")
    BY <1>4 DEF L!Commit, L!Invalidate, L!Tell
  <2> QED
    BY <1>1, <1>4, <2>1, OwnTx DEF IsTold
<1> QED
  BY <1>2, <1>3, <1>4

LEMMA StepMoves ==
    ASSUME Base, L!WaitsForOwn, [Next]_vars, NEW v \in Workers
    PROVE  Moves(v)
<1>call. call \in [Workers -> L!Calls]
  BY DEF Base, TypeOK, L!TypeOK
<1>1. ASSUME NEW w \in Workers, OthersRest(w), UNCHANGED call, w = v => Works(v)
      PROVE  Moves(v)
  BY <1>1 DEF OthersRest, Rests, Moves
<1>2. ASSUME NEW w \in Workers, NEW r \in Records, ClaimDoc(w, r)
      PROVE  Moves(v)
  <2>1. UNCHANGED call /\ wk[w].pc = "claim"
    BY <1>2 DEF ClaimDoc, ledgerVars
  <2> QED
    BY <1>1, <1>2, <2>1, MoveClaimDoc DEF Works
<1>3. ASSUME NEW w \in Workers, NEW r \in Records, WriteDoc(w, r)
      PROVE  Moves(v)
  <2>1. UNCHANGED call /\ wk[w].pc = "write"
    BY <1>3 DEF WriteDoc, ledgerVars
  <2> QED
    BY <1>1, <1>3, <2>1, MoveWriteDoc DEF Works
<1>4. ASSUME NEW w \in Workers, ReadBack(w)
      PROVE  Moves(v)
  <2>1. UNCHANGED call /\ wk[w].pc = "claim"
    BY <1>4 DEF ReadBack, ledgerVars
  <2>2. OthersRest(w) /\ wk'[w].pc # "wait" /\ (wk'[w].pc = "write" => wk'[w].job = "root")
    BY <1>4, MoveReadBack
  <2> QED
    BY <1>1, <2>1, <2>2 DEF Works
<1>5. ASSUME NEW w \in Workers, NEW b \in Batches, ReadScope(w, b)
      PROVE  Moves(v)
  <2>1. UNCHANGED call /\ wk[w].pc = "scan"
    BY <1>5 DEF ReadScope, ledgerVars
  <2>2. OthersRest(w) /\ wk'[w].pc = "store"
    BY <1>5, MoveReadScope
  <2> QED
    BY <1>1, <2>1, <2>2 DEF Works
<1>6. ASSUME NEW w \in Workers, NEW b \in Batches, StartBatch(w, b)
      PROVE  Moves(v)
  <2>1. UNCHANGED call /\ wk[w].pc = "idle"
    BY <1>6 DEF StartBatch, ledgerVars
  <2> QED
    BY <1>1, <1>6, <2>1, MoveStartBatch DEF Works
<1>7. ASSUME NEW w \in Workers, Resets(w), ~Crash(w)
      PROVE  Moves(v)
  <2>1. UNCHANGED call /\ wk[w].pc # "wait"
    BY <1>7 DEF Resets, FailClaim, StartReconcile, FinishWrite, FailWrite, SkipScope, ledgerVars
  <2>2. OthersRest(w) /\ wk'[w].pc \in {"idle", "scan"}
    BY <1>7, MoveReset
  <2> QED
    BY <1>1, <2>1, <2>2 DEF Works
<1>15. ASSUME NEW w \in Workers, Outlive(w)
       PROVE  Moves(v)
  <2>1. UNCHANGED call
    BY <1>15 DEF Outlive, ledgerVars
  <2>2. w = v => Works(v)
    BY <1>15, <2>1, MoveOutlive DEF Works
  <2>3. OthersRest(w)
    BY <1>15, MoveOutlive
  <2> QED
    BY <1>1, <2>1, <2>2, <2>3
<1>8. ASSUME NEW w \in Workers, Crash(w)
      PROVE  Moves(v)
  <2>1. OthersRest(w) /\ wk'[w].pc = "idle"
    <3>1. Goto(w, IdleWorker)
      BY <1>8 DEF Crash
    <3> QED
      BY <3>1, GotoMoves DEF IdleWorker
  <2>2. call'[w] = L!Idle /\ \A u \in Workers \ {w} : call'[u] = call[u]
    BY <1>8, <1>call DEF Crash, L!Abandon, L!Return, ledgerVars
  <2> QED
    BY <2>1, <2>2 DEF OthersRest, Dies, Rests, Moves
<1>9. ASSUME NEW w \in Workers, Store(w)
      PROVE  Moves(v)
  <2>1. /\ OthersRest(w) /\ wk[w].pc = "store" /\ wk'[w].pc = "wait"
        /\ wk'[w].batch = wk[w].batch /\ wk'[w].root = wk[w].root
    BY <1>9, MoveStore DEF Store
  <2>2. \E st \in {"submitted", "already", "error"} :
           call' = [call EXCEPT ![w] = L!Call(Asked(w), st)]
    BY <1>9 DEF Store, L!Endorse, L!Refuse, L!FailEarly
  <2>3. /\ \E st \in {"submitted", "already", "error"} : call'[w] = L!Call(Asked(w), st)
        /\ \A u \in Workers \ {w} : call'[u] = call[u]
    BY <2>2, <1>call
  <2> QED
    BY <2>1, <2>3 DEF OthersRest, Asks, Rests, Moves
<1>10. ASSUME NEW w \in Workers, Answered(w)
       PROVE  Moves(v)
  <2>1. wk[w].pc = "wait" /\ call' = [call EXCEPT ![w] = L!Idle]
    BY <1>10 DEF Answered, L!Return
  <2>2. call'[w] = L!Idle /\ \A u \in Workers \ {w} : call'[u] = call[u]
    BY <2>1, <1>call
  <2>3. w = v => Learns(v)
    BY <1>10, <2>1, <2>2, MoveAnswered DEF Learns
  <2>4. OthersRest(w)
    BY <1>10, MoveAnswered
  <2> QED
    BY <2>2, <2>3, <2>4 DEF OthersRest, Rests, Moves
<1>11. ASSUME NEW w \in Workers, Timeout(w)
       PROVE  Moves(v)
  <2>1. /\ wk' = wk /\ wk[w].pc = "wait" /\ call[w].st = "submitted"
        /\ call' = [call EXCEPT ![w].st = "error"]
    BY <1>11 DEF Timeout, L!LoseStatus
  <2> QED
    BY <2>1, <1>call DEF GivesUp, Rests, Moves
<1>12. CASE Network
  BY <1>12, NetworkMoves DEF Moves
<1>13. ASSUME NEW r \in Records, Insert(r) \/ SoftDelete(r)
       PROVE  Moves(v)
  BY <1>13 DEF Insert, SoftDelete, ledgerVars, Rests, Moves
<1>14. CASE EnableLedger \/ UNCHANGED vars
  BY <1>14 DEF EnableLedger, vars, ledgerVars, Rests, Moves
<1> QED
  BY <1>2, <1>3, <1>4, <1>5, <1>6, <1>7, <1>8, <1>9, <1>10, <1>11, <1>12, <1>13, <1>14, <1>15
     DEF Next, Step, Start, Failure, Resets

-----------------------------------------------------------------------------
(* What carries over from one state to the next                             *)

LEMMA NextLedgerInv ==
    ASSUME Base, L!WaitsForOwn, L!AnswersAreTrue, [Next]_vars
    PROVE  L!WaitsForOwn' /\ L!AnswersAreTrue'
<1>1. [LT!Next]_(LT!ledgerVars) /\ LT!TypeOK /\ LT!WaitsForOwn /\ LT!AnswersAreTrue
  BY StepIsLedgerStep, SameLedger DEF Base, TypeOK
<1>2. LT!WaitsForOwn' /\ LT!AnswersAreTrue'
  BY <1>1, LedgerAssumptions, LT!NextWaitsForOwn, LT!NextAnswersAreTrue
<1> QED
  BY <1>2, SameLedger

\* An anchor stays (WriteOnce of the ledger).
LEMMA AnchorStays ==
    ASSUME Base, [Next]_vars, NEW b \in Batches, chain[b] # NoAnchor
    PROVE  chain'[b] = chain[b]
<1>1. [LT!Next]_(LT!ledgerVars) /\ LT!TypeOK
  BY StepIsLedgerStep, SameLedger DEF Base, TypeOK
<1>2. CASE LT!Next
  BY <1>1, <1>2, LedgerAssumptions, LT!StepWritesOnce
<1>3. CASE UNCHANGED LT!ledgerVars
  BY <1>3 DEF LT!ledgerVars
<1> QED
  BY <1>1, <1>2, <1>3

\* A document is claimed, or updated by a worker that writes to its batch.
LEMMA DocStep ==
    ASSUME Base, [Next]_vars, NEW r \in Records
    PROVE  \/ batch_id'[r] = batch_id[r] /\ anchor_status'[r] = anchor_status[r]
           \/ /\ batch_id[r] = NoBatch /\ batch_id'[r] \in Batches
              /\ anchor_status'[r] = "pending"
           \/ \E w \in Workers :
                 /\ wk[w].pc = "write" /\ r \in wk[w].todo /\ batch_id'[r] = batch_id[r]
                 /\ anchor_status'[r] = StatusAfter(wk[w].job, anchor_status[r])
<1> DEFINE Same == batch_id'[r] = batch_id[r] /\ anchor_status'[r] = anchor_status[r]
           Claimed == /\ batch_id[r] = NoBatch /\ batch_id'[r] \in Batches
                      /\ anchor_status'[r] = "pending"
           Updated == \E w \in Workers :
                         /\ wk[w].pc = "write" /\ r \in wk[w].todo /\ batch_id'[r] = batch_id[r]
                         /\ anchor_status'[r] = StatusAfter(wk[w].job, anchor_status[r])
<1>1. ASSUME NEW w \in Workers, NEW q \in Records, ClaimDoc(w, q)
      PROVE  Same \/ Claimed
  BY <1>1 DEF ClaimDoc, Claim, Pending, Base, TypeOK, HoldsBatch
<1>2. ASSUME NEW w \in Workers, NEW q \in Records, WriteDoc(w, q)
      PROVE  Same \/ Updated
  <2>1. /\ wk[w].pc = "write" /\ q \in wk[w].todo /\ batch_id' = batch_id
        /\ anchor_status' = [anchor_status EXCEPT ![q] = StatusAfter(wk[w].job, @)]
    BY <1>2 DEF WriteDoc
  <2> QED
    BY <2>1 DEF Base, TypeOK
<1>3. ASSUME NEW w \in Workers, NEW b \in Batches,
             ReadScope(w, b) \/ SkipScope(w, b) \/ StartBatch(w, b)
      PROVE  Same
  BY <1>3 DEF ReadScope, SkipScope, StartBatch, docVars
<1>4. ASSUME NEW w \in Workers,
             \/ ReadBack(w) \/ Store(w) \/ Answered(w) \/ FinishWrite(w)
             \/ FailClaim(w) \/ FailWrite(w) \/ Timeout(w) \/ Crash(w) \/ Outlive(w) \/ StartReconcile(w)
      PROVE  Same
  BY <1>4 DEF ReadBack, Store, Answered, FinishWrite, FailClaim, FailWrite, Timeout, Crash,
              Outlive, StartReconcile, docVars
<1>5. ASSUME NEW q \in Records, Insert(q) \/ SoftDelete(q)
      PROVE  Same
  BY <1>5 DEF Insert, SoftDelete
<1>6. ASSUME EnableLedger \/ Network \/ UNCHANGED vars
      PROVE  Same
  BY <1>6 DEF EnableLedger, Network, vars, docVars
<1> HIDE DEF Same, Claimed, Updated
<1>7. Same \/ Claimed \/ Updated
  BY <1>1, <1>2, <1>3, <1>4, <1>5, <1>6 DEF Next, Step, Start, Failure
<1> QED
  BY <1>7 DEF Same, Claimed, Updated

-----------------------------------------------------------------------------
(* The parts of StatusInv                                                   *)

LEMMA NextWaitsForAnswer ==
    ASSUME StatusInv, [Next]_vars
    PROVE  WaitsForAnswer'
<1> SUFFICES ASSUME NEW v \in Workers
             PROVE  IF wk'[v].pc = "wait"
                    THEN /\ call'[v] # L!Idle
                         /\ call'[v].batch = wk'[v].batch /\ call'[v].root = wk'[v].root
                    ELSE call'[v] = L!Idle
  BY DEF WaitsForAnswer, L!Idle
<1>base. Base /\ L!WaitsForOwn
  BY DEF StatusInv, Base
<1>old. IF wk[v].pc = "wait"
        THEN call[v] # L!Idle /\ call[v].batch = wk[v].batch /\ call[v].root = wk[v].root
        ELSE call[v] = L!Idle
  BY DEF StatusInv, WaitsForAnswer
<1>type. call[v] \in L!Calls
  BY <1>base DEF Base, TypeOK, L!TypeOK
<1>1. CASE Rests(v) \/ Works(v)
  BY <1>1, <1>old DEF Rests, Works
<1>2. CASE Asks(v)
  BY <1>2 DEF Asks, L!Call, L!Idle, Asked
<1>3. CASE Learns(v)
  BY <1>3 DEF Learns
<1>4. CASE GivesUp(v)
  BY <1>4, <1>old, <1>type DEF GivesUp, L!Calls, L!Idle
<1>5. CASE Dies(v)
  BY <1>5 DEF Dies
<1>6. CASE IsTold(v)
  <2>1. wk[v].pc = "wait" /\ wk'[v] = wk[v]
    BY <1>6, <1>old DEF IsTold, L!Idle
  <2>2. /\ call'[v].batch = call[v].batch /\ call'[v].root = call[v].root
        /\ call'[v].st \in {"ok", "error"}
    BY <1>6 DEF IsTold, L!Call
  <2> QED
    BY <1>old, <2>1, <2>2 DEF L!Idle
<1> QED
  BY <1>base, <1>1, <1>2, <1>3, <1>4, <1>5, <1>6, StepMoves DEF Moves

LEMMA NextAnchoredIsOnChain ==
    ASSUME StatusInv, Base', [Next]_vars
    PROVE  AnchoredIsOnChain'
<1>base. Base /\ L!WaitsForOwn
  BY DEF StatusInv, Base
<1>1. ASSUME NEW r \in Records
      PROVE  /\ batch_id'[r] = NoBatch => anchor_status'[r] = "none"
             /\ batch_id'[r] # NoBatch => anchor_status'[r] # "none"
             /\ anchor_status'[r] = "anchored" => chain'[batch_id'[r]] # NoAnchor
  <2>old. /\ batch_id[r] = NoBatch => anchor_status[r] = "none"
          /\ batch_id[r] # NoBatch => anchor_status[r] # "none"
          /\ anchor_status[r] = "anchored" => chain[batch_id[r]] # NoAnchor
          /\ batch_id[r] \in Batches \union {NoBatch}
    BY <1>base DEF StatusInv, AnchoredIsOnChain, Base, TypeOK
  <2>1. CASE batch_id'[r] = batch_id[r] /\ anchor_status'[r] = anchor_status[r]
    BY <1>base, <2>old, <2>1, AnchorStays
  <2>2. CASE batch_id[r] = NoBatch /\ batch_id'[r] \in Batches /\ anchor_status'[r] = "pending"
    BY <2>2, SentinelAssumption
  <2>3. ASSUME NEW w \in Workers, wk[w].pc = "write", r \in wk[w].todo,
               batch_id'[r] = batch_id[r],
               anchor_status'[r] = StatusAfter(wk[w].job, anchor_status[r])
        PROVE  /\ batch_id'[r] # NoBatch /\ anchor_status'[r] # "none"
               /\ anchor_status'[r] = "anchored" => chain'[batch_id'[r]] # NoAnchor
    <3>1. batch_id[r] = wk[w].batch /\ wk[w].batch \in Batches
      BY <1>base, <2>3 DEF StatusInv, UpdatesOwnBatch, Members, Base, HoldsBatch
    <3>2. batch_id[r] # NoBatch
      BY <3>1, SentinelAssumption
    <3>3. anchor_status'[r] \in {anchor_status[r], "failed", "anchored"}
      BY <2>3 DEF StatusAfter
    <3>4. anchor_status'[r] = "anchored" => chain[wk[w].batch] # NoAnchor
      BY <2>old, <2>3, <3>1 DEF StatusAfter, StatusInv, AnchoredIsOnChain
    <3> QED
      BY <1>base, <2>old, <2>3, <3>1, <3>2, <3>3, <3>4, AnchorStays
  <2> QED
    BY <1>base, <2>1, <2>2, <2>3, DocStep
<1>2. ASSUME NEW v \in Workers, wk'[v].pc = "write", wk'[v].job \notin {"root", "failed"}
      PROVE  chain'[wk'[v].batch] # NoAnchor
  <2>1. wk'[v].batch \in Batches
    BY <1>2 DEF Base, HoldsBatch
  <2>2. chain[wk'[v].batch] # NoAnchor
    <3>1. CASE Rests(v) \/ Works(v)
      BY <1>2, <3>1 DEF Rests, Works, StatusInv, AnchoredIsOnChain
    <3>2. CASE Learns(v)
      <4>1. wk[v].pc = "wait" /\ wk'[v].batch = wk[v].batch /\ call[v].st \in {"ok", "already"}
        BY <1>2, <3>2 DEF Learns
      <4>2. call[v].batch = wk[v].batch /\ call[v] \in L!Calls
        BY <1>base, <4>1 DEF StatusInv, WaitsForAnswer, Base, TypeOK, L!TypeOK
      <4>3. call[v].st = "ok" => call[v].root \in Roots
        BY <4>2 DEF L!Calls, L!Idle
      <4> QED
        BY <4>1, <4>2, <4>3, LedgerAssumptions DEF StatusInv, L!AnswersAreTrue
    <3>3. ~(Asks(v) \/ GivesUp(v) \/ Dies(v) \/ IsTold(v))
      <4>1. call[v].st = "submitted" => wk[v].pc = "wait"
        BY DEF StatusInv, WaitsForAnswer, L!Idle
      <4> QED
        BY <1>2, <4>1 DEF Asks, GivesUp, Dies, IsTold
    <3> QED
      BY <1>base, <3>1, <3>2, <3>3, StepMoves DEF Moves
  <2> QED
    BY <1>base, <2>1, <2>2, AnchorStays
<1> QED
  BY <1>1, <1>2 DEF AnchoredIsOnChain

-----------------------------------------------------------------------------
(* One callback per batch                                                   *)

\* Announcing in the next state, for values of either state.
AnnouncesNext(w, b) ==
    /\ wk'[w].batch = b
    /\ \/ wk'[w].pc = "wait" /\ call'[w].st = "ok"
       \/ wk'[w].pc = "write" /\ wk'[w].job = "anchored"

\* An announcer was one before, or its own transaction is being committed.
LEMMA AnnouncingEnters ==
    ASSUME StatusInv, [Next]_vars, NEW w \in Workers, NEW b \in Batches, AnnouncesNext(w, b)
    PROVE  \/ Announcing(w, b) /\ wk'[w].root = wk[w].root
           \/ /\ chain[b] = NoAnchor /\ chain'[b] = wk'[w].root
              /\ \E t \in txs : t.waiter = w /\ L!Commit(t)
<1>base. Base /\ L!WaitsForOwn
  BY DEF StatusInv, Base
<1>old. IF wk[w].pc = "wait"
        THEN call[w] # L!Idle /\ call[w].batch = wk[w].batch /\ call[w].root = wk[w].root
        ELSE call[w] = L!Idle
  BY DEF StatusInv, WaitsForAnswer
<1>1. CASE Rests(w)
  BY <1>1 DEF Rests, AnnouncesNext, Announcing
<1>2. CASE Works(w)
  BY <1>2 DEF Works, AnnouncesNext, Announcing
<1>3. CASE Learns(w)
  BY <1>3 DEF Learns, AnnouncesNext, Announcing
<1>4. CASE IsTold(w)
  <2>1. wk[w].pc = "wait" /\ wk'[w] = wk[w]
    BY <1>4, <1>old DEF IsTold, L!Idle
  <2>2. call'[w].st = "ok" /\ wk[w].batch = b
    BY <2>1 DEF AnnouncesNext
  <2>3. PICK t \in txs : /\ t.waiter = w /\ t.batch = call[w].batch /\ t.root = call[w].root
                         /\ L!Commit(t)
    BY <1>4, <2>2 DEF IsTold, L!Call
  <2>4. t.batch = b /\ t.root = wk'[w].root /\ t \in L!Tx
    BY <1>base, <1>old, <2>1, <2>2, <2>3 DEF Base, TypeOK, L!TypeOK
  <2>5. chain[b] = NoAnchor /\ chain'[b] = t.root
    BY <1>base, <2>3, <2>4 DEF L!Commit, L!Tx, Base, TypeOK, L!TypeOK
  <2> QED
    BY <2>3, <2>4, <2>5
<1>5. ~Asks(w)
  BY DEF Asks, AnnouncesNext, L!Call
<1>6. ~GivesUp(w)
  <2>1. ASSUME GivesUp(w)
        PROVE  call'[w].st = "error"
    <3>1. call[w] \in L!Calls
      BY <1>base DEF Base, TypeOK, L!TypeOK
    <3> QED
      BY <2>1, <3>1 DEF GivesUp, L!Calls, L!Idle
  <2> QED
    BY <2>1 DEF GivesUp, AnnouncesNext
<1>7. ~Dies(w)
  BY DEF Dies, AnnouncesNext
<1> QED
  BY <1>base, <1>1, <1>2, <1>3, <1>4, <1>5, <1>6, <1>7, StepMoves DEF Moves

\* A callback is issued by an announcer, which thereby ceases to be one.
LEMMA NoticeEnters ==
    ASSUME Base, [Next]_vars
    PROVE  \/ notices' = notices
           \/ \E w \in Workers :
                 /\ Announcing(w, wk[w].batch) /\ wk[w].batch \in Batches
                 /\ notices' = [notices EXCEPT ![wk[w].batch] = @ + 1]
                 /\ ~Announcing(w, wk[w].batch)' /\ Steps(w)
<1> DEFINE Tells(w) == /\ Announcing(w, wk[w].batch) /\ wk[w].batch \in Batches
                       /\ notices' = [notices EXCEPT ![wk[w].batch] = @ + 1]
                       /\ ~Announcing(w, wk[w].batch)' /\ Steps(w)
<1>1. ASSUME NEW w \in Workers, FinishWrite(w) \/ FailWrite(w) \/ Outlive(w)
      PROVE  notices' = notices \/ Tells(w)
  <2>1. /\ OthersRest(w)
        /\ \/ wk'[w].pc \in {"idle", "scan"}
           \/ wk'[w].pc \in {"claim", "write"} /\ wk'[w].job # "anchored"
    <3>1. CASE FinishWrite(w) \/ FailWrite(w)
      BY <3>1, MoveReset DEF Resets
    <3>2. CASE Outlive(w)
      BY <3>2, MoveOutlive
    <3> QED
      BY <1>1, <3>1, <3>2
  <2>2. (wk[w].pc = "write" /\ wk[w].batch \in Batches) \/ notices' = notices
    BY <1>1 DEF FinishWrite, FailWrite, Outlive, Base, HoldsBatch
  <2>3. \/ notices' = notices
        \/ /\ wk[w].job = "anchored"
           /\ notices' = [notices EXCEPT ![wk[w].batch] = @ + 1]
    BY <1>1 DEF FinishWrite, FailWrite, Outlive, Notify
  <2>4. wk[w].pc = "write" /\ wk[w].job = "anchored" => wk'[w] # wk[w]
    BY <2>1
  <2>5. wk'[w] # wk[w] => Steps(w)
    BY <2>1 DEF Steps, OthersRest
  <2>6. ~Announcing(w, wk[w].batch)'
    BY <2>1 DEF Announcing
  <2> QED
    BY <2>2, <2>3, <2>4, <2>5, <2>6 DEF Announcing
<1>2. ASSUME NEW w \in Workers,
             \/ ReadBack(w) \/ Store(w) \/ Answered(w)
             \/ FailClaim(w) \/ Timeout(w) \/ Crash(w) \/ StartReconcile(w)
      PROVE  notices' = notices
  BY <1>2 DEF ReadBack, Store, Answered, FailClaim, Timeout, Crash, StartReconcile, envVars
<1>3. ASSUME NEW w \in Workers, NEW r \in Records, ClaimDoc(w, r) \/ WriteDoc(w, r)
      PROVE  notices' = notices
  BY <1>3 DEF ClaimDoc, WriteDoc, envVars
<1>4. ASSUME NEW w \in Workers, NEW b \in Batches,
             ReadScope(w, b) \/ SkipScope(w, b) \/ StartBatch(w, b)
      PROVE  notices' = notices
  BY <1>4 DEF ReadScope, SkipScope, StartBatch, envVars
<1>5. ASSUME NEW r \in Records, Insert(r) \/ SoftDelete(r)
      PROVE  notices' = notices
  BY <1>5 DEF Insert, SoftDelete, envVars
<1>6. ASSUME EnableLedger \/ Network \/ UNCHANGED vars
      PROVE  notices' = notices
  BY <1>6 DEF EnableLedger, Network, vars, envVars
<1> HIDE DEF Tells
<1>7. notices' = notices \/ \E w \in Workers : Tells(w)
  BY <1>1, <1>2, <1>3, <1>4, <1>5, <1>6 DEF Next, Step, Start, Failure
<1> QED
  BY <1>7 DEF Tells

LEMMA OneCommit ==
    ASSUME NEW t \in txs, NEW u \in txs, L!Commit(t), L!Commit(u)
    PROVE  t = u
  BY DEF L!Commit

LEMMA NextAnnouncesOnce ==
    ASSUME StatusInv, [Next]_vars
    PROVE  AnnouncesOnce'
<1> SUFFICES ASSUME NEW b \in Batches
             PROVE  /\ notices'[b] <= 1
                    /\ notices'[b] = 1 =>
                          chain'[b] # NoAnchor /\ \A w \in Workers : ~AnnouncesNext(w, b)
                    /\ \A w \in Workers : AnnouncesNext(w, b) => chain'[b] = wk'[w].root
                    /\ \A v, w \in Workers : AnnouncesNext(v, b) /\ AnnouncesNext(w, b) => v = w
  BY DEF AnnouncesOnce, Announcing, AnnouncesNext
<1>base. Base
  BY DEF StatusInv, Base
<1>old. /\ notices[b] \in Nat /\ notices[b] <= 1
        /\ notices[b] = 1 => chain[b] # NoAnchor /\ \A w \in Workers : ~Announcing(w, b)
        /\ \A w \in Workers : Announcing(w, b) => chain[b] = wk[w].root
        /\ \A v, w \in Workers : Announcing(v, b) /\ Announcing(w, b) => v = w
  BY <1>base DEF StatusInv, AnnouncesOnce, Base, TypeOK
<1>1. \A w \in Workers : Announcing(w, b) => chain[b] # NoAnchor
  <2>1. \A w \in Workers : wk[w].root \in Roots
    BY <1>base DEF Base, TypeOK, Local
  <2> QED
    BY <1>old, <2>1, LedgerAssumptions
<1>2. \A w \in Workers : AnnouncesNext(w, b) =>
         \/ Announcing(w, b) /\ wk'[w].root = wk[w].root
         \/ /\ chain[b] = NoAnchor /\ chain'[b] = wk'[w].root
            /\ \E t \in txs : t.waiter = w /\ L!Commit(t)
  BY AnnouncingEnters
<1>3. chain[b] # NoAnchor => chain'[b] = chain[b]
  BY <1>base, AnchorStays
<1>4. \/ notices'[b] = notices[b]
      \/ \E w \in Workers : /\ Announcing(w, b) /\ ~AnnouncesNext(w, b)
                            /\ notices'[b] = notices[b] + 1
  <2>1. CASE notices' = notices
    BY <2>1
  <2>2. ASSUME NEW w \in Workers, Announcing(w, wk[w].batch), wk[w].batch \in Batches,
               notices' = [notices EXCEPT ![wk[w].batch] = @ + 1],
               ~Announcing(w, wk[w].batch)'
        PROVE  \/ notices'[b] = notices[b]
               \/ /\ Announcing(w, b) /\ ~AnnouncesNext(w, b)
                  /\ notices'[b] = notices[b] + 1
    <3>1. wk[w].batch = b => ~AnnouncesNext(w, b)
      BY <2>2 DEF AnnouncesNext, Announcing
    <3>2. CASE wk[w].batch = b
      BY <1>base, <2>2, <3>1, <3>2 DEF Base, TypeOK
    <3>3. CASE wk[w].batch # b
      BY <1>base, <2>2, <3>3 DEF Base, TypeOK
    <3> QED
      BY <3>2, <3>3
  <2> QED
    BY <1>base, <2>1, <2>2, NoticeEnters
<1>5. notices'[b] <= 1
  BY <1>old, <1>4
<1>6. ASSUME notices'[b] = 1
      PROVE  chain'[b] # NoAnchor /\ \A w \in Workers : ~AnnouncesNext(w, b)
  <2>1. CASE notices[b] = 1
    BY <1>old, <1>2, <1>3, <2>1
  <2>2. CASE notices[b] # 1
    <3>1. PICK w \in Workers : Announcing(w, b) /\ ~AnnouncesNext(w, b)
      BY <1>4, <1>6, <2>2
    <3>2. chain[b] # NoAnchor
      BY <1>1, <3>1
    <3>3. \A v \in Workers : AnnouncesNext(v, b) => Announcing(v, b)
      BY <1>2, <3>2
    <3> QED
      BY <1>old, <1>3, <3>1, <3>2, <3>3
  <2> QED
    BY <2>1, <2>2
<1>7. ASSUME NEW w \in Workers, AnnouncesNext(w, b)
      PROVE  chain'[b] = wk'[w].root
  BY <1>old, <1>1, <1>2, <1>3, <1>7
<1>8. ASSUME NEW v \in Workers, NEW w \in Workers, AnnouncesNext(v, b), AnnouncesNext(w, b)
      PROVE  v = w
  <2>1. CASE chain[b] # NoAnchor
    BY <1>old, <1>2, <1>8, <2>1
  <2>2. CASE chain[b] = NoAnchor
    <3>1. PICK t \in txs : t.waiter = v /\ L!Commit(t)
      BY <1>1, <1>2, <1>8, <2>2
    <3>2. PICK u \in txs : u.waiter = w /\ L!Commit(u)
      BY <1>1, <1>2, <1>8, <2>2
    <3> QED
      BY <3>1, <3>2, OneCommit
  <2> QED
    BY <2>1, <2>2
<1> QED
  BY <1>5, <1>6, <1>7, <1>8

-----------------------------------------------------------------------------
(* The theorems                                                             *)

LEMMA InitStatusInv == Init => StatusInv
<1> SUFFICES ASSUME Init
             PROVE  StatusInv
  OBVIOUS
<1>1. Base
  BY InitBase
<1>2. L!WaitsForOwn /\ L!AnswersAreTrue
  BY DEF Init, L!Init, L!WaitsForOwn, L!Waits, L!Own, L!AnswersAreTrue, L!Idle
<1>3. UpdatesOwnBatch /\ WaitsForAnswer /\ AnchoredIsOnChain /\ AnnouncesOnce
  BY DEF Init, L!Init, IdleWorker, UpdatesOwnBatch, WaitsForAnswer, AnchoredIsOnChain,
         AnnouncesOnce, Announcing
<1> QED
  BY <1>1, <1>2, <1>3 DEF StatusInv, Base

LEMMA NextStatusInv == StatusInv /\ [Next]_vars => StatusInv'
<1> SUFFICES ASSUME StatusInv, [Next]_vars
             PROVE  StatusInv'
  OBVIOUS
<1>1. Base /\ Base'
  BY NextBase DEF StatusInv, Base
<1> QED
  BY <1>1, NextLedgerInv, NextUpdatesOwnBatch, NextWaitsForAnswer, NextAnchoredIsOnChain,
     NextAnnouncesOnce DEF StatusInv, Base

LEMMA StatusInvHolds == Spec => []StatusInv
  BY InitStatusInv, NextStatusInv, PTL DEF Spec

\* A claimed record whose batch is not on the ledger is pending or failed, so
\* that FindUnanchoredBatchScopes keeps finding its batch.
THEOREM ClaimedIsNeverForgotten == Spec => []NeverForgotten
<1>1. StatusInv => NeverForgotten
  BY DEF StatusInv, AnchoredIsOnChain, NeverForgotten, TypeOK, Statuses
<1> QED
  BY <1>1, StatusInvHolds, PTL

\* notifyAnchored is called at most once for a batch.
THEOREM BatchIsAnnouncedOnce == Spec => []OneNotice
<1>1. StatusInv => OneNotice
  BY DEF StatusInv, AnnouncesOnce, OneNotice
<1> QED
  BY <1>1, StatusInvHolds, PTL

\* Whoever announces a batch carries the root that the ledger holds for it,
\* whatever the other workers do with the same batch.
THEOREM CallbacksAreTrue == Spec => NoticeIsTrue
<1> DEFINE Told(b) == \E w \in Workers : Steps(w) /\ wk[w].batch = b /\ wk[w].root = chain[b]
<1>1. ASSUME StatusInv, [Next]_vars, NEW b \in Batches, notices'[b] # notices[b]
      PROVE  Told(b)
  <2>1. Base
    BY <1>1 DEF StatusInv, Base
  <2>2. PICK w \in Workers :
           /\ Announcing(w, wk[w].batch) /\ wk[w].batch \in Batches
           /\ notices' = [notices EXCEPT ![wk[w].batch] = @ + 1]
           /\ Steps(w)
    BY <1>1, <2>1, NoticeEnters
  <2>3. wk[w].batch = b
    BY <1>1, <2>1, <2>2 DEF Base, TypeOK
  <2>4. wk[w].root = chain[b]
    BY <1>1, <2>2, <2>3 DEF StatusInv, AnnouncesOnce
  <2> QED
    BY <2>2, <2>3, <2>4
<1>2. StatusInv /\ [Next]_vars => [\A b \in Batches : notices'[b] # notices[b] => Told(b)]_vars
  BY <1>1
<1> QED
  BY <1>2, StatusInvHolds, PTL DEF Spec, NoticeIsTrue

-----------------------------------------------------------------------------
(***************************************************************************)
(* The promises.  The refinement mapping forgets workers, transactions and *)
(* transaction ids; each step that a reader can see is shown to be a step  *)
(* of AnchoredBatches.                                                     *)
(***************************************************************************)

PromisesInv == WholeInv /\ StatusInv

Marked == [r \in Records |-> anchor_status[r] = "anchored"]

\* A batch that a worker claims into has no root.
LEMMA ClaimedIsOpen ==
    ASSUME PromisesInv, NEW w \in Workers, wk[w].pc = "claim"
    PROVE  wk[w].batch \in Batches /\ P!Open(wk[w].batch)
<1> DEFINE b == wk[w].batch
<1>1. b \in Batches /\ ~Closed(b)
  BY DEF PromisesInv, WholeInv, HoldsBatch, Closed
<1>2. chain[b] \in {NoAnchor, {}}
  BY <1>1 DEF PromisesInv, WholeInv, RootsAreWhole, CommitsTo
<1>3. \A r \in Records : batch_id[r] = b => merkle_root[r] = {}
  BY <1>1 DEF PromisesInv, WholeInv, RootsAreWhole, CommitsTo
<1> QED
  BY <1>1, <1>2, <1>3 DEF P!Open, P!Members

LEMMA ClaimKeeps ==
    ASSUME PromisesInv, NEW w \in Workers, NEW r \in Records, ClaimDoc(w, r)
    PROVE  P!Next \/ UNCHANGED P!vars
<1>1. UNCHANGED <<stored, merkle_root, chain, notices>>
  BY DEF ClaimDoc, ledgerVars, envVars
<1>2. CASE r \notin Pending
  <2>1. UNCHANGED <<batch_id, anchor_status>>
    BY <1>2 DEF ClaimDoc
  <2> QED
    BY <1>1, <2>1 DEF P!vars
<1>3. CASE r \in Pending
  <2>1. stored[r] = "live" /\ batch_id[r] = NoBatch
    BY <1>3 DEF Pending
  <2>2. wk[w].batch \in Batches /\ P!Open(wk[w].batch)
    BY ClaimedIsOpen DEF ClaimDoc
  <2>3. batch_id' = [batch_id EXCEPT ![r] = wk[w].batch]
        /\ anchor_status' = [anchor_status EXCEPT ![r] = "pending"]
    BY <1>3 DEF ClaimDoc, Claim
  <2>4. anchor_status[r] = "none" /\ anchor_status \in [Records -> Statuses]
    BY <2>1 DEF PromisesInv, StatusInv, AnchoredIsOnChain, TypeOK
  <2>5. \A q \in Records : (anchor_status'[q] = "anchored") = (anchor_status[q] = "anchored")
    BY <2>3, <2>4
  <2>6. P!Join(r, wk[w].batch)
    BY <1>1, <2>1, <2>2, <2>3, <2>5 DEF P!Join
  <2> QED
    BY <2>2, <2>6 DEF P!Next
<1> QED
  BY <1>2, <1>3

LEMMA WriteKeeps ==
    ASSUME PromisesInv, NEW w \in Workers, NEW r \in Records, WriteDoc(w, r)
    PROVE  P!Next
<1> DEFINE status == StatusAfter(wk[w].job, anchor_status[r])
           mark == status = "anchored"
<1>1. /\ UNCHANGED <<stored, batch_id, chain, notices>>
      /\ wk[w].pc = "write" /\ r \in wk[w].todo
      /\ merkle_root' = [merkle_root EXCEPT ![r] = wk[w].root]
      /\ anchor_status' = [anchor_status EXCEPT ![r] = status]
  BY DEF WriteDoc, ledgerVars, envVars
<1>2. batch_id[r] = wk[w].batch /\ wk[w].batch \in Batches /\ batch_id[r] # NoBatch
  BY <1>1, SentinelAssumption DEF PromisesInv, WholeInv, UpdatesOwnBatch, Members, HoldsBatch
<1>3. wk[w].root \in P!RootsOf(batch_id[r])
  BY <1>1, <1>2 DEF PromisesInv, WholeInv, LocalsAreWhole, CommitsTo, Members, P!RootsOf, P!Members
<1>4. mark => chain[batch_id[r]] # NoAnchor
  BY <1>1, <1>2 DEF PromisesInv, StatusInv, AnchoredIsOnChain, StatusAfter
<1>5. mark \in BOOLEAN /\ anchor_status \in [Records -> Statuses]
  BY DEF PromisesInv, StatusInv, TypeOK
<1> HIDE DEF status
<1>6. Marked' = [Marked EXCEPT ![r] = mark]
  BY <1>1, <1>5 DEF Marked
<1>7. P!Stamp(r)
  BY <1>1, <1>2, <1>3, <1>4, <1>5, <1>6 DEF P!Stamp, Marked
<1> QED
  BY <1>7 DEF P!Next

LEMMA TellKeeps ==
    ASSUME PromisesInv, NEW w \in Workers, FinishWrite(w) \/ FailWrite(w) \/ Outlive(w)
    PROVE  P!Next \/ UNCHANGED P!vars
<1>1. UNCHANGED <<stored, batch_id, anchor_status, merkle_root, chain>>
  BY DEF FinishWrite, FailWrite, Outlive, docVars, ledgerVars
<1>2. CASE notices' = notices
  BY <1>1, <1>2 DEF P!vars
<1>3. CASE notices' # notices
  <2> DEFINE b == wk[w].batch
  <2>1. /\ wk[w].pc = "write" /\ wk[w].job = "anchored"
        /\ notices' = [notices EXCEPT ![b] = @ + 1]
    BY <1>3 DEF FinishWrite, FailWrite, Outlive, Notify
  <2>2. b \in Batches /\ chain[b] # NoAnchor
    BY <2>1 DEF PromisesInv, StatusInv, HoldsBatch, AnchoredIsOnChain
  <2>3. Announcing(w, b)
    BY <2>1 DEF Announcing
  <2>4. notices[b] \in Nat /\ notices[b] <= 1 /\ notices[b] # 1
    BY <2>2, <2>3 DEF PromisesInv, StatusInv, AnnouncesOnce, TypeOK
  <2>5. notices[b] = 0
    BY <2>4
  <2>6. P!Tell(b)
    BY <1>1, <2>1, <2>2, <2>5 DEF P!Tell
  <2> QED
    BY <2>2, <2>6 DEF P!Next
<1> QED
  BY <1>2, <1>3

LEMMA NetworkKeeps ==
    ASSUME PromisesInv, Network
    PROVE  P!Next \/ UNCHANGED P!vars
<1>1. UNCHANGED <<stored, batch_id, anchor_status, merkle_root, notices>>
  BY DEF Network, docVars, envVars
<1>2. CASE chain' = chain
  BY <1>1, <1>2 DEF P!vars
<1>3. CASE chain' # chain
  <2>1. PICK t \in txs : L!Commit(t)
    BY <1>3 DEF Network, L!Network, L!Invalidate, L!Drop
  <2>2. t.batch \in Batches /\ chain[t.batch] = NoAnchor /\ chain' = [chain EXCEPT ![t.batch] = t.root]
    BY <2>1 DEF L!Commit, PromisesInv, WholeInv, TypeOK, L!TypeOK, L!Tx
  <2>3. t.root \in P!RootsOf(t.batch)
    BY <2>1 DEF PromisesInv, WholeInv, RootsAreWhole, CommitsTo, Members, P!RootsOf, P!Members
  <2>4. P!Anchor(t.batch)
    BY <1>1, <2>2, <2>3 DEF P!Anchor
  <2> QED
    BY <2>2, <2>4 DEF P!Next
<1> QED
  BY <1>2, <1>3

LEMMA RestKeeps ==
    ASSUME PromisesInv, [Next]_vars
    PROVE  P!Next \/ UNCHANGED P!vars
<1>1. ASSUME NEW r \in Records, Insert(r) \/ SoftDelete(r) PROVE P!Next
  <2>1. UNCHANGED <<batch_id, anchor_status, merkle_root, chain, notices>>
    BY <1>1 DEF Insert, SoftDelete, ledgerVars, envVars
  <2>2. P!Create(r) \/ P!Delete(r)
    BY <1>1, <2>1 DEF Insert, SoftDelete, P!Create, P!Delete
  <2> QED
    BY <2>2 DEF P!Next
<1>2. ASSUME NEW w \in Workers, ReadBack(w) \/ FailClaim(w) \/ StartReconcile(w)
      PROVE  UNCHANGED P!vars
  BY <1>2 DEF ReadBack, FailClaim, StartReconcile, docVars, ledgerVars, envVars, P!vars
<1>3. ASSUME NEW w \in Workers, Store(w) \/ Answered(w) \/ Timeout(w) \/ Crash(w)
      PROVE  UNCHANGED P!vars
  <2>1. UNCHANGED docVars /\ UNCHANGED notices
    BY <1>3 DEF Store, Answered, Timeout, Crash, envVars
  <2>2. chain' = chain
    BY <1>3 DEF Store, Answered, Timeout, Crash, ledgerVars, L!Endorse, L!Refuse, L!FailEarly, L!LoseStatus,
                L!Return, L!Abandon
  <2> QED
    BY <2>1, <2>2 DEF docVars, P!vars
<1>4. ASSUME NEW w \in Workers, NEW b \in Batches, ReadScope(w, b) \/ SkipScope(w, b) \/ StartBatch(w, b)
      PROVE  UNCHANGED P!vars
  BY <1>4 DEF ReadScope, SkipScope, StartBatch, docVars, ledgerVars, envVars, P!vars
<1>5. ASSUME EnableLedger \/ UNCHANGED vars
      PROVE  UNCHANGED P!vars
  BY <1>5 DEF EnableLedger, vars, docVars, ledgerVars, envVars, P!vars
<1> HIDE DEF PromisesInv
<1> QED
  BY <1>1, <1>2, <1>3, <1>4, <1>5, ClaimKeeps, WriteKeeps, TellKeeps, NetworkKeeps
     DEF Next, Step, Start, Failure

\* As long as batch ids do not collide the pipeline, with any number of workers
\* that batch and reconcile, lose answers and crash, is to its readers a set of
\* batches that are filled, closed by their root, anchored once and announced once
\* (ProcessRecordBatch, ReconcileBatches).
THEOREM PipelineKeepsPromises == ASSUME UniqueIds PROVE Spec => KeepsPromises
<1>1. Init => P!Init
  BY DEF Init, L!Init, P!Init
<1>2. PromisesInv /\ [Next]_vars => [P!Next]_(P!vars)
  BY RestKeeps
<1>3. Init => WholeInv
  BY InitWholeInv
<1>4. WholeInv /\ [Next]_vars => WholeInv'
  BY NextWholeInv
<1> QED
  BY <1>1, <1>2, <1>3, <1>4, StatusInvHolds, PTL DEF Spec, P!Spec, KeepsPromises, PromisesInv

-----------------------------------------------------------------------------
(***************************************************************************)
(* One worker that never fails.  A record is then stamped before anyone    *)
(* else reads its batch, and the three copies of a root agree.             *)
(***************************************************************************)

Untouched == UNCHANGED <<wk, batch_id, anchor_status, merkle_root>>

\* What is not a step of a worker's own leaves the workers and the claims alone.
LEMMA OthersTouchNothing ==
    ASSUME \/ \E r \in Records : Insert(r) \/ SoftDelete(r)
           \/ \E v \in Workers : Timeout(v)
           \/ EnableLedger \/ Network \/ UNCHANGED vars
    PROVE  Untouched
<1>1. ASSUME NEW r \in Records, Insert(r) \/ SoftDelete(r)
      PROVE  Untouched
  BY <1>1 DEF Insert, SoftDelete, Untouched
<1>2. ASSUME NEW v \in Workers, Timeout(v)
      PROVE  Untouched
  BY <1>2 DEF Timeout, docVars, Untouched
<1>3. CASE EnableLedger \/ Network \/ UNCHANGED vars
  BY <1>3 DEF EnableLedger, Network, vars, docVars, Untouched
<1> QED
  BY <1>1, <1>2, <1>3

LEMMA NextRolesFit ==
    ASSUME Base, MaxFaults = 0, RolesFit, [Next]_vars
    PROVE  RolesFit'
<1> DEFINE Fits(l) == (l.pc = "claim" => l.role = "batch") /\ (l.pc = "scan" => l.role = "reconcile")
<1>old. \A v \in Workers : Fits(wk[v])
  BY DEF RolesFit
<1>1. ASSUME NEW w \in Workers, OthersRest(w), Fits(wk'[w])
      PROVE  RolesFit'
  BY <1>1, <1>old DEF OthersRest, RolesFit
<1>2. ASSUME NEW w \in Workers, NEW b \in Batches, StartBatch(w, b) \/ ReadScope(w, b)
      PROVE  RolesFit'
  BY <1>1, <1>2, MoveStartBatch, MoveReadScope
<1>3. ASSUME NEW w \in Workers, NEW r \in Records, ClaimDoc(w, r) \/ WriteDoc(w, r)
      PROVE  RolesFit'
  <2>1. ClaimDoc(w, r) => wk[w].pc = "claim"
    BY DEF ClaimDoc
  <2> QED
    BY <1>1, <1>3, <1>old, <2>1, MoveClaimDoc, MoveWriteDoc
<1>4. ASSUME NEW w \in Workers, ReadBack(w) \/ Store(w) \/ Answered(w) \/ Resets(w)
      PROVE  RolesFit'
  BY <1>1, <1>4, MoveReadBack, MoveStore, MoveAnswered, MoveReset
<1>5. CASE Untouched
  BY <1>5 DEF Untouched, RolesFit
<1>6. \A w \in Workers : ~Outlive(w)
  BY DEF Outlive, Base, TypeOK
<1> HIDE DEF Fits
<1> QED
  BY <1>2, <1>3, <1>4, <1>5, <1>6, OthersTouchNothing DEF Next, Step, Start, Failure, Resets

\* A worker that is neither claiming nor storing a batch of its own has left no
\* record behind without a root.
LEMMA NothingUnstamped ==
    ASSUME UnstampedIsInHand, RolesFit, NEW w, Workers = {w},
           wk[w].pc \in {"idle", "scan"} \/ wk[w].role # "batch"
    PROVE  \A r \in Records : batch_id[r] # NoBatch => merkle_root[r] # {}
<1>1. \A r \in Records : ~InHand(w, r)
  BY DEF InHand, RolesFit
<1> QED
  BY <1>1 DEF UnstampedIsInHand

LEMMA NextRootsAreComputed ==
    ASSUME Base, RolesFit, UnstampedIsInHand, RootsAreComputed, NEW w, Workers = {w}, [Next]_vars
    PROVE  RootsAreComputed'
<1>1. ASSUME NEW v \in Workers, wk'[v].pc \in {"store", "wait", "write"}
      PROVE  wk'[v].root # {}
  <2>1. CASE Holds(v) /\ wk'[v].batch = wk[v].batch /\ wk'[v].root = wk[v].root
    BY <2>1 DEF Holds, RootsAreComputed
  <2>2. CASE ReadsBack(v)
    BY <2>2 DEF ReadsBack
  <2>3. CASE ReadsStamp(v)
    <3>1. PICK r \in Records : /\ batch_id[r] = wk'[v].batch /\ wk'[v].batch \in Batches
                              /\ wk'[v].root = merkle_root[r]
      BY <2>3 DEF ReadsStamp, Members
    <3> QED
      BY <2>3, <3>1, NothingUnstamped, SentinelAssumption DEF ReadsStamp
  <2> QED
    BY <1>1, <2>1, <2>2, <2>3, RootEnters
<1>2. ASSUME NEW t \in txs'
      PROVE  t.root # {}
  BY <1>2, TxEnters DEF RootsAreComputed
<1>3. ASSUME NEW b \in Batches
      PROVE  chain'[b] # {}
  BY <1>3, AnchorEnters DEF RootsAreComputed
<1> QED
  BY <1>1, <1>2, <1>3 DEF RootsAreComputed

\* A record in the worker's hand stays there until its root is stamped.
LEMMA StaysInHand ==
    ASSUME Base, MaxFaults = 0, NEW w, Workers = {w}, [Next]_vars, NEW r \in Records,
           batch_id[r] # NoBatch, InHand(w, r), RootsAreComputed, merkle_root'[r] = {}
    PROVE  InHand(w, r)' /\ anchor_status'[r] = anchor_status[r]
<1> DEFINE b == batch_id[r]
           Stays == /\ wk'[w].role = "batch" /\ wk'[w].batch = b
                    /\ \/ wk'[w].pc \in {"claim", "store", "wait"}
                       \/ wk'[w].pc = "write" /\ r \in wk'[w].todo
                    /\ anchor_status'[r] = anchor_status[r]
<1>w. w \in Workers /\ batch_id'[r] = b
  BY StepKeepsBatch
<1>f. ~(faults < MaxFaults)
  BY DEF Base, TypeOK
<1>h. /\ wk[w].role = "batch" /\ wk[w].batch = b /\ r \in Members(b)
      /\ \/ wk[w].pc \in {"claim", "store", "wait"}
         \/ wk[w].pc = "write" /\ r \in wk[w].todo
  BY DEF InHand, Members
<1>1. ASSUME Untouched
      PROVE  Stays
  BY <1>1, <1>h DEF Untouched
<1>2. ASSUME NEW q \in Records, ClaimDoc(w, q)
      PROVE  Stays
  <2>1. anchor_status'[r] = anchor_status[r]
    BY <1>2 DEF ClaimDoc, Claim, Pending, Base, TypeOK
  <2> QED
    BY <1>2, <1>w, <1>h, <2>1, MoveClaimDoc
<1>3. ASSUME ReadBack(w)
      PROVE  Stays
  <2>1. anchor_status' = anchor_status
    BY <1>3 DEF ReadBack, docVars
  <2> QED
    BY <1>3, <1>w, <1>h, <2>1, MoveReadBack
<1>4. ASSUME Store(w)
      PROVE  Stays
  <2>1. anchor_status' = anchor_status
    BY <1>4 DEF Store, docVars
  <2> QED
    BY <1>4, <1>w, <1>h, <2>1, MoveStore
<1>5. ASSUME Answered(w)
      PROVE  Stays
  <2>1. anchor_status' = anchor_status
    BY <1>5 DEF Answered, docVars
  <2> QED
    BY <1>5, <1>w, <1>h, <2>1, MoveAnswered
<1>6. ASSUME NEW q \in Records, WriteDoc(w, q)
      PROVE  Stays
  <2>1. /\ wk[w].pc = "write" /\ wk[w].root # {}
        /\ merkle_root' = [merkle_root EXCEPT ![q] = wk[w].root]
    BY <1>6, <1>w DEF WriteDoc, RootsAreComputed
  <2>2. q # r
    BY <2>1 DEF Base, TypeOK
  <2>3. anchor_status'[r] = anchor_status[r]
    BY <1>6, <2>2 DEF WriteDoc, Base, TypeOK
  <2> QED
    BY <1>6, <1>w, <1>h, <2>1, <2>2, <2>3, MoveWriteDoc
<1>7. ASSUME NEW c \in Batches, StartBatch(w, c) \/ ReadScope(w, c)
      PROVE  FALSE
  BY <1>7, <1>h DEF StartBatch, ReadScope
<1>8. ASSUME StartReconcile(w) \/ FinishWrite(w)
      PROVE  FALSE
  BY <1>8, <1>h DEF StartReconcile, FinishWrite
<1>9. ASSUME \/ FailClaim(w) \/ FailWrite(w) \/ Crash(w) \/ Outlive(w) \/ \E c \in Batches : SkipScope(w, c)
      PROVE  FALSE
  BY <1>9, <1>f DEF FailClaim, FailWrite, Crash, Outlive, SkipScope
<1> HIDE DEF Stays
<1>10. Stays
  BY <1>1, <1>2, <1>3, <1>4, <1>5, <1>6, <1>7, <1>8, <1>9, OthersTouchNothing
     DEF Next, Step, Start, Failure
<1> QED
  BY <1>10, <1>w DEF Stays, InHand

LEMMA NextUnstampedIsInHand ==
    ASSUME Base, UpdatesOwnBatch, RolesFit, RootsAreComputed, UnstampedIsInHand,
           MaxFaults = 0, NEW w, Workers = {w}, [Next]_vars
    PROVE  UnstampedIsInHand'
<1> SUFFICES ASSUME NEW r \in Records, batch_id'[r] # NoBatch, merkle_root'[r] = {}
             PROVE  anchor_status'[r] = "pending" /\ InHand(w, r)'
  BY DEF UnstampedIsInHand
<1>1. CASE batch_id[r] = NoBatch
  <2>1. PICK v \in Workers, q \in Pending :
           ClaimDoc(v, q) /\ batch_id' = [batch_id EXCEPT ![q] = wk[v].batch]
    BY <1>1, OnlyClaimsBatch
  <2>2. v = w /\ q = r /\ batch_id'[r] = wk[w].batch
    BY <1>1, <2>1 DEF Base, TypeOK, Pending
  <2>3. anchor_status'[r] = "pending" /\ wk[w].pc = "claim"
    BY <2>1, <2>2 DEF ClaimDoc, Claim, Base, TypeOK
  <2>4. wk'[w].pc = "claim" /\ wk'[w].batch = wk[w].batch /\ wk'[w].role = wk[w].role
    BY <2>1, <2>2, MoveClaimDoc DEF Pending
  <2> QED
    BY <2>2, <2>3, <2>4 DEF InHand, RolesFit
<1>2. CASE batch_id[r] # NoBatch
  <2>1. merkle_root[r] = {}
    BY StampEnters DEF RootsAreComputed
  <2>2. anchor_status[r] = "pending" /\ InHand(w, r)
    BY <1>2, <2>1 DEF UnstampedIsInHand
  <2> QED
    BY <1>2, <2>2, StaysInHand
<1> QED
  BY <1>1, <1>2

LEMMA InitSerialInv == Init => SerialInv
<1>1. Init => RolesFit /\ RootsAreComputed /\ UnstampedIsInHand
  BY SentinelAssumption
     DEF Init, L!Init, IdleWorker, RolesFit, RootsAreComputed, UnstampedIsInHand
<1> QED
  BY <1>1, InitWholeInv, InitStatusInv DEF SerialInv

LEMMA NextSerialInv ==
    ASSUME UniqueIds, MaxFaults = 0, NEW w, Workers = {w}, SerialInv, [Next]_vars
    PROVE  SerialInv'
<1>1. Base /\ UpdatesOwnBatch
  BY DEF SerialInv, WholeInv, Base
<1> QED
  BY <1>1, NextWholeInv, NextStatusInv, NextRolesFit, NextRootsAreComputed,
     NextUnstampedIsInHand DEF SerialInv

\* A single replica whose process and database do not fail, and whose batch ids
\* do not collide, keeps the three copies of a root equal: a record marked
\* anchored carries the root of its whole batch, and so does the ledger, although
\* ledger calls fail or time out and their transactions may still commit.
THEOREM RootsAgreeInSeries ==
    ASSUME UniqueIds, MaxFaults = 0, NEW w, Workers = {w}
    PROVE  Spec => []RootsAgree
<1>1. ASSUME SerialInv, NEW r \in Records, anchor_status[r] = "anchored"
      PROVE  /\ chain[batch_id[r]] = Members(batch_id[r])
             /\ merkle_root[r] = Members(batch_id[r])
  <2>1. batch_id[r] # NoBatch /\ batch_id[r] \in Batches /\ chain[batch_id[r]] # NoAnchor
    BY <1>1 DEF SerialInv, StatusInv, AnchoredIsOnChain, TypeOK
  <2>2. merkle_root[r] # {} /\ chain[batch_id[r]] # {}
    BY <1>1, <2>1 DEF SerialInv, UnstampedIsInHand, RootsAreComputed
  <2> QED
    BY <1>1, <2>1, <2>2 DEF SerialInv, WholeInv, RootsAreWhole, CommitsTo
<1>2. SerialInv => RootsAgree
  BY <1>1 DEF RootsAgree
<1>3. SerialInv /\ [Next]_vars => SerialInv'
  BY NextSerialInv
<1> QED
  BY <1>2, <1>3, InitSerialInv, PTL DEF Spec
==============================================================================
