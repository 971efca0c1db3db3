---------------------------- MODULE ServiceProofs ----------------------------
(***************************************************************************)
(* Migration jobs and API processes for any number of releases, jobs,      *)
(* processes, handlers and records: versions are recorded once and in      *)
(* order, a process that takes requests has its schema, and a record that  *)
(* was appended is stored or in the log until MongoDB has answered for it. *)
(***************************************************************************)
EXTENDS Service, FiniteSetTheorems, WellFoundedInduction, TLAPS

Before == {p \in Nat \X Nat : p[1] < p[2]}

\* A set of numbers that is not empty has a least element.
LEMMA LeastElement ==
  ASSUME NEW T \in SUBSET Nat, T # {}
  PROVE  \E x \in T : \A y \in T : x <= y
<1>1. OpToRel(<, Nat) = Before
  BY DEF OpToRel, Before
<1>2. \E x \in T : \A y \in T : <<y, x>> \notin Before
  BY <1>1, NatLessThanWellFounded, WFMin
<1>3. ASSUME NEW x \in T, NEW y \in T, <<y, x>> \notin Before PROVE x <= y
  <2>1. <<y, x>> \in Nat \X Nat /\ <<y, x>>[1] = y /\ <<y, x>>[2] = x
    OBVIOUS
  <2>2. ~(y < x)
    BY <1>3, <2>1 DEF Before
  <2> QED BY <2>2
<1> QED BY <1>2, <1>3

\* A bounded set of numbers has a greatest element, and Max finds it.
LEMMA MaxIsGreatest ==
  ASSUME NEW S \in SUBSET Nat, S # {}, NEW n \in Nat, \A x \in S : x <= n
  PROVE  Max(S) \in S /\ \A x \in S : x <= Max(S)
<1> DEFINE U == {u \in Nat : \A x \in S : x <= u}
<1>1. PICK m \in U : \A u \in U : m <= u
  <2>1. U \in SUBSET Nat
    OBVIOUS
  <2>2. U # {}
    <3>1. n \in U
      OBVIOUS
    <3> QED BY <3>1
  <2> HIDE DEF U
  <2> QED BY <2>1, <2>2, LeastElement
<1>2. m \in S
  <2>1. CASE m = 0
    <3>1. PICK x \in S : TRUE
      OBVIOUS
    <3>2. x \in Nat /\ x <= m
      BY <1>1
    <3> QED BY <2>1, <3>1, <3>2
  <2>2. CASE m # 0
    <3>1. m - 1 \in Nat /\ m - 1 \notin U
      BY <1>1, <2>2
    <3>2. PICK x \in S : ~(x <= m - 1)
      BY <3>1
    <3> QED BY <1>1, <3>1, <3>2
  <2> QED BY <2>1, <2>2
<1>3. \E x \in S : \A y \in S : x >= y
  BY <1>1, <1>2
<1>4. Max(S) \in S /\ \A y \in S : Max(S) >= y
  BY <1>3 DEF Max
<1> QED BY <1>4

LEMMA ReleasesAreNumbers ==
  /\ Cardinality(Releases) \in Nat /\ 1 \in Releases
  /\ \A v \in Releases : v \in Nat \ {0} /\ 1 .. v \subseteq Releases
  /\ \A x \in Pods \cup Jobs : Target[x] \in Releases
<1>1. Cardinality(Releases) \in Nat
  BY TargetAssumption, FS_CardinalityType
<1> QED BY <1>1, TargetAssumption

\* The version that a job and a process read is the greatest one recorded.
LEMMA CurrentIsRecorded ==
  ASSUME TypeOK
  PROVE  /\ CurrentVersion \in Nat
         /\ CurrentVersion # 0 => CurrentVersion \in Releases /\ recorded[CurrentVersion] > 0
         /\ \A v \in Releases : recorded[v] > 0 => v <= CurrentVersion
<1> DEFINE S == {0} \cup {v \in Releases : recorded[v] > 0}
           n == Cardinality(Releases)
<1>1. S \in SUBSET Nat /\ S # {} /\ n \in Nat /\ \A x \in S : x <= n
  BY ReleasesAreNumbers, TargetAssumption
<1>2. Max(S) \in S /\ \A x \in S : x <= Max(S)
  <2> HIDE DEF S, n
  <2> QED BY <1>1, MaxIsGreatest
<1>3. CurrentVersion = Max(S)
  BY DEF CurrentVersion
<1> HIDE DEF n
<1> QED BY <1>1, <1>2, <1>3

-----------------------------------------------------------------------------
(* Types.                                                                  *)

LEMMA JobsTyped ==
  ASSUME TypeOK, LocalsTyped, NEW j \in Jobs, StartJob(j) \/ Apply(j) \/ JobFails(j)
  PROVE  TypeOK' /\ LocalsTyped'
<1> USE ReleasesAreNumbers
<1> DEFINE JobPC == {"new", "index", "read", "up", "record", "failed", "done"}
           Typed == \E at \in JobPC, next \in Nat :
                      JobAt(j, at, next) /\ (at \in {"up", "record"} => next \in 1 .. Target[j])
           Rest == UNCHANGED <<release, pc, open, tick, wal, stored, owed, fresh, pending, hs>>
                   /\ index' \in BOOLEAN /\ applied' \subseteq Releases /\ recorded' \in [Releases -> Nat]
<1>1. ASSUME Typed, Rest PROVE TypeOK' /\ LocalsTyped'
  BY <1>1 DEF TypeOK, LocalsTyped, JobAt
<1>2. CASE StartJob(j)
  BY <1>1, <1>2 DEF StartJob, TypeOK, schemaVars, procVars, logVars
<1>3. CASE ensureVersionIndex(j)
  BY <1>1, <1>3 DEF ensureVersionIndex, TypeOK, procVars, logVars
<1>4. CASE ReadVersion(j)
  <2>1. CurrentVersion \in Nat /\ Target[j] \in Nat \ {0}
    BY CurrentIsRecorded
  <2> QED BY <1>1, <1>4, <2>1 DEF ReadVersion, TypeOK, schemaVars, procVars, logVars
<1>5. CASE Up(j)
  BY <1>1, <1>5 DEF Up, TypeOK, LocalsTyped, procVars, logVars
<1>6. CASE Record(j)
  BY <1>1, <1>6 DEF Record, TypeOK, LocalsTyped, procVars, logVars
<1>7. CASE JobFails(j)
  BY <1>1, <1>7 DEF JobFails, TypeOK, schemaVars, procVars, logVars
<1> QED BY <1>2, <1>3, <1>4, <1>5, <1>6, <1>7 DEF Apply

LEMMA GoneTyped ==
  ASSUME TypeOK, LocalsTyped, NEW p \in Pods, Gone(p)
  PROVE  /\ pc' \in [Pods -> {"down", "connect", "assert", "open_wal", "replay", "drain_wal", "start", "serving",
                             "draining", "stopping", "close"}]
         /\ open' \in [Pods -> SUBSET {"mongo", "wal", "fabric", "listener"}]
         /\ tick' \in [Pods -> {"off", "wait", "cycle"}]
         /\ pending' \in [Pods -> Nat]
         /\ hs' \in [Pods -> [Handlers -> {Idle} \cup [at : {"append", "insert", "confirm"}, r : Records]]]
<1>1. pc' \in [Pods -> {"down", "connect", "assert", "open_wal", "replay", "drain_wal", "start", "serving",
                        "draining", "stopping", "close"}]
  BY DEF Gone, TypeOK
<1>2. open' \in [Pods -> SUBSET {"mongo", "wal", "fabric", "listener"}]
  BY DEF Gone, TypeOK
<1>3. tick' \in [Pods -> {"off", "wait", "cycle"}] /\ pending' \in [Pods -> Nat]
  BY DEF Gone, TypeOK
<1>4. hs' \in [Pods -> [Handlers -> {Idle} \cup [at : {"append", "insert", "confirm"}, r : Records]]]
  BY DEF Gone, LocalsTyped
<1> QED BY <1>1, <1>2, <1>3, <1>4

LEMMA BootTyped ==
  ASSUME TypeOK, LocalsTyped, NEW p \in Pods, Booting(p) \/ ConnectFails(p) \/ ReplayFails(p) \/ StartFails(p)
  PROVE  TypeOK' /\ LocalsTyped'
<1> USE DEF schemaVars, logVars, At
<1>1. CASE Boot(p)
  BY <1>1 DEF Boot, TypeOK, LocalsTyped
<1>2. CASE Connect(p)
  BY <1>2 DEF Connect, TypeOK, LocalsTyped
<1>3. CASE ConnectFails(p)
  BY <1>3, GoneTyped DEF ConnectFails, TypeOK, LocalsTyped
<1>4. CASE Assert(p)
  BY <1>4, GoneTyped DEF Assert, TypeOK, LocalsTyped
<1>5. CASE OpenWAL(p)
  <2>1. Cardinality(wal) \in Nat
    BY FS_CardinalityType DEF LocalsTyped
  <2> QED BY <1>5, <2>1 DEF OpenWAL, TypeOK, LocalsTyped
<1>6. CASE Replay(p)
  BY <1>6 DEF Replay, TypeOK, LocalsTyped
<1>7. CASE ReplayFails(p)
  BY <1>7 DEF ReplayFails, TypeOK, LocalsTyped
<1>8. CASE DrainWAL(p)
  BY <1>8, FS_EmptySet DEF DrainWAL, TypeOK, LocalsTyped
<1>9. CASE Start(p)
  BY <1>9 DEF Start, TypeOK, LocalsTyped
<1>10. CASE StartFails(p)
  BY <1>10, GoneTyped DEF StartFails, TypeOK, LocalsTyped
<1> QED BY <1>1, <1>2, <1>3, <1>4, <1>5, <1>6, <1>7, <1>8, <1>9, <1>10 DEF Booting

LEMMA RequestTyped ==
  ASSUME TypeOK, LocalsTyped, NEW p \in Pods, NEW h \in Handlers,
         (\E r \in Records : Accept(p, h, r)) \/ Append(p, h) \/ Insert(p, h) \/ Confirm(p, h)
  PROVE  TypeOK' /\ LocalsTyped'
<1> USE DEF schemaVars
<1> DEFINE Locals == {Idle} \cup [at : {"append", "insert", "confirm"}, r : Records]
<1>0. hs[p][h] # Idle => hs[p][h] \in [at : {"append", "insert", "confirm"}, r : Records]
  BY DEF LocalsTyped
<1>1. ASSUME NEW at \in {"append", "insert", "confirm"}, Busy(p, h, at)
      PROVE  hs[p][h].r \in Records /\ hs[p][h] # Idle
  BY <1>0, <1>1 DEF Busy, Idle
<1>2. ASSUME NEW l \in Locals, hs' = [hs EXCEPT ![p][h] = l], UNCHANGED job, IsFiniteSet(wal') PROVE LocalsTyped'
  BY <1>2 DEF LocalsTyped
<1>3. ASSUME NEW to \in {"insert", "confirm"}, hs[p][h] # Idle, Moves(p, h, to), UNCHANGED job, IsFiniteSet(wal') PROVE LocalsTyped'
  <2>1. [hs[p][h] EXCEPT !.at = to] \in Locals
    BY <1>0, <1>3
  <2> QED BY <1>2, <1>3, <2>1 DEF Moves, LocalsTyped
<1>4. CASE \E r \in Records : Accept(p, h, r)
  <2>1. LocalsTyped'
    BY <1>2, <1>4 DEF Accept, LocalsTyped
  <2> QED BY <1>4, <2>1 DEF Accept, TypeOK
<1>5. CASE Append(p, h)
  <2>0. IsFiniteSet(wal \cup {hs[p][h].r}) /\ IsFiniteSet(wal)
    BY FS_AddElement DEF LocalsTyped
  <2>1. LocalsTyped'
    BY <1>1, <1>2, <1>3, <1>5, <2>0 DEF Append, Answers
  <2> QED BY <1>1, <1>5, <2>1 DEF Append, TypeOK
<1>6. CASE Insert(p, h)
  <2>1. LocalsTyped'
    BY <1>1, <1>3, <1>6 DEF Insert, LocalsTyped
  <2> QED BY <1>1, <1>6, <2>1 DEF Insert, Fault, TypeOK
<1>7. CASE Confirm(p, h)
  <2>1. pending' \in [Pods -> Nat] /\ wal' \in {{}, wal}
    BY <1>7 DEF Confirm, TypeOK
  <2>2. LocalsTyped'
    BY <1>2, <1>7, <2>1, FS_EmptySet DEF Confirm, Answers, LocalsTyped
  <2> QED BY <1>7, <2>1, <2>2 DEF Confirm, TypeOK
<1> QED BY <1>4, <1>5, <1>6, <1>7

LEMMA ShutdownTyped ==
  ASSUME TypeOK, LocalsTyped, NEW p \in Pods,
         TickerStarts(p) \/ TickerEnds(p) \/ TickerStops(p) \/ Signal(p) \/ Closing(p) \/ Killed(p)
  PROVE  TypeOK' /\ LocalsTyped'
<1> USE DEF schemaVars, logVars, At
<1>1. CASE TickerStarts(p)
  BY <1>1 DEF TickerStarts, TypeOK, LocalsTyped
<1>2. CASE TickerEnds(p)
  BY <1>2 DEF TickerEnds, TypeOK, LocalsTyped
<1>3. CASE TickerStops(p)
  BY <1>3 DEF TickerStops, TypeOK, LocalsTyped
<1>4. CASE Signal(p)
  BY <1>4 DEF Signal, TypeOK, LocalsTyped
<1>5. CASE Drained(p)
  BY <1>5 DEF Drained, TypeOK, LocalsTyped
<1>6. CASE Stopped(p)
  BY <1>6 DEF Stopped, TypeOK, LocalsTyped
<1>7. CASE CloseNext(p)
  <2>1. \E x : open' = [open EXCEPT ![p] = @ \ {x}]
    BY <1>7 DEF CloseNext
  <2> QED BY <1>7, <2>1 DEF CloseNext, TypeOK, LocalsTyped
<1>8. CASE Exit(p)
  BY <1>8, GoneTyped DEF Exit, TypeOK, LocalsTyped
<1>9. CASE Killed(p)
  BY <1>9, GoneTyped DEF Killed, TypeOK, LocalsTyped
<1> QED BY <1>1, <1>2, <1>3, <1>4, <1>5, <1>6, <1>7, <1>8, <1>9 DEF Closing

LEMMA TypeStep ==
  ASSUME TypeOK, LocalsTyped, [Next]_vars
  PROVE  TypeOK' /\ LocalsTyped'
<1>1. CASE UNCHANGED vars
  BY <1>1 DEF vars, schemaVars, procVars, logVars, TypeOK, LocalsTyped
<1>2. CASE Rollout
  <2>1. release' \in Releases
    BY <1>2, ReleasesAreNumbers DEF Rollout
  <2> QED BY <1>2, <2>1 DEF Rollout, schemaVars, procVars, logVars, TypeOK, LocalsTyped
<1> QED BY <1>1, <1>2, JobsTyped, BootTyped, RequestTyped, ShutdownTyped DEF Next

LEMMA InitTyped ==
  ASSUME Init
  PROVE  TypeOK /\ LocalsTyped
<1>1. TypeOK
  BY ReleasesAreNumbers, TargetAssumption DEF Init, TypeOK
<1>2. LocalsTyped
  BY FS_EmptySet DEF Init, LocalsTyped
<1> QED BY <1>1, <1>2

LEMMA TypeInvariant == Spec => [](TypeOK /\ LocalsTyped)
<1>1. Init => TypeOK /\ LocalsTyped
  BY InitTyped
<1>2. (TypeOK /\ LocalsTyped) /\ [Next]_vars => (TypeOK /\ LocalsTyped)'
  BY TypeStep
<1> QED BY <1>1, <1>2, PTL DEF Spec

\* Type correctness: TypeOK is an invariant of jobs and processes.
THEOREM TypeCorrect == Spec => []TypeOK
BY TypeInvariant, PTL

-----------------------------------------------------------------------------
(* The schema.                                                             *)

\* What a step of a job does to the schema: it applies its version or records
\* it, and records it only if nobody has.
LEMMA JobMoves ==
  ASSUME TypeOK, LocalsTyped, JobsInOrder, NEW j \in Jobs, Apply(j)
  PROVE  /\ applied \subseteq applied' /\ (index => index')
         /\ recorded' = recorded
            \/ /\ job[j].pc = "record" /\ recorded[job[j].next] = 0 /\ UNCHANGED applied
               /\ recorded' = [recorded EXCEPT ![job[j].next] = 1]
<1>1. CASE Record(j)
  <2>1. index /\ recorded[job[j].next] \in Nat
    BY <1>1, ReleasesAreNumbers DEF Record, JobsInOrder, TypeOK
  <2> QED BY <1>1, <2>1 DEF Record
<1> QED BY <1>1 DEF Apply, ensureVersionIndex, ReadVersion, Up, schemaVars

LEMMA JobsInOrderStep ==
  ASSUME TypeOK, LocalsTyped, JobsInOrder, RecordedOnceInOrder, NEW j \in Jobs, StartJob(j) \/ Apply(j) \/ JobFails(j)
  PROVE  JobsInOrder'
<1> USE ReleasesAreNumbers
<1> DEFINE Good(i) == /\ job'[i].pc \in {"read", "up", "record"} => index'
                      /\ job'[i].pc \in {"up", "record"} => \A u \in 1 .. job'[i].next - 1 : recorded'[u] = 1
                      /\ job'[i].pc = "record" => job'[i].next \in applied'
<1>1. /\ applied \subseteq applied' /\ (index => index')
      /\ \A u \in Releases : recorded[u] = 1 => recorded'[u] = 1
  <2>1. CASE Apply(j)
    BY <2>1, JobMoves DEF TypeOK
  <2>2. CASE StartJob(j) \/ JobFails(j)
    BY <2>2 DEF StartJob, JobFails, schemaVars
  <2> QED BY <2>1, <2>2
<1>2. ASSUME NEW i \in Jobs, i # j PROVE Good(i)
  <2>1. job'[i] = job[i]
    BY <1>2 DEF StartJob, Apply, JobFails, ensureVersionIndex, ReadVersion, Up, Record, JobAt, LocalsTyped
  <2>2. job[i].pc \in {"up", "record"} => 1 .. job[i].next - 1 \subseteq Releases
    BY DEF TypeOK
  <2> QED BY <1>1, <2>1, <2>2 DEF JobsInOrder
<1>3. Good(j)
  <2>1. CASE StartJob(j) \/ JobFails(j)
    BY <2>1 DEF StartJob, JobFails, JobAt, LocalsTyped
  <2>2. CASE ensureVersionIndex(j)
    BY <2>2 DEF ensureVersionIndex, JobAt, LocalsTyped
  <2>3. CASE ReadVersion(j)
    <3>1. \A u \in 1 .. CurrentVersion : recorded[u] = 1
      BY CurrentIsRecorded DEF RecordedOnceInOrder
    <3>2. CurrentVersion \in Nat /\ recorded' = recorded /\ index' = index /\ job[j].pc = "read"
      BY <2>3, CurrentIsRecorded DEF ReadVersion, schemaVars
    <3>3. job'[j] \in {[pc |-> "done", next |-> 0], [pc |-> "up", next |-> CurrentVersion + 1]}
      BY <2>3 DEF ReadVersion, JobAt, LocalsTyped
    <3>4. CASE job'[j] = [pc |-> "up", next |-> CurrentVersion + 1]
      <4>1. job'[j].pc = "up" /\ job'[j].next - 1 = CurrentVersion
        BY <3>2, <3>4
      <4>2. \A u \in 1 .. job'[j].next - 1 : recorded'[u] = 1
        BY <3>1, <3>2, <4>1
      <4> QED BY <3>2, <4>1, <4>2 DEF JobsInOrder
    <3> QED BY <3>3, <3>4
  <2>4. CASE Up(j)
    <3>1. job'[j] = [pc |-> "record", next |-> job[j].next] /\ job[j].next \in applied'
      BY <2>4 DEF Up, JobAt, LocalsTyped
    <3> QED BY <2>4, <3>1 DEF Up, JobsInOrder
  <2>5. CASE Record(j)
    <3> DEFINE v == job[j].next
    <3>1. \/ job'[j] \in {[pc |-> "failed", next |-> 0], [pc |-> "done", next |-> 0]}
          \/ job'[j] = [pc |-> "up", next |-> v + 1] /\ recorded'[v] = 1
      <4>1. index /\ v \in Releases /\ recorded[v] \in Nat
        BY <2>5 DEF Record, JobsInOrder, TypeOK
      <4>2. CASE recorded[v] > 0
        BY <2>5, <4>1, <4>2 DEF Record, JobAt, LocalsTyped
      <4>3. CASE recorded[v] = 0
        <5>1. recorded'[v] = 1
          BY <2>5, <4>1, <4>3 DEF Record, TypeOK
        <5>2. job'[j] \in {[pc |-> "up", next |-> v + 1], [pc |-> "done", next |-> 0]}
          BY <2>5, <4>1, <4>3 DEF Record, JobAt, LocalsTyped
        <5> QED BY <5>1, <5>2
      <4>4. recorded[v] > 0 \/ recorded[v] = 0
        BY <4>1
      <4> QED BY <4>2, <4>3, <4>4
    <3>2. v \in Nat /\ v + 1 - 1 = v /\ (\A u \in 1 .. v - 1 : recorded[u] = 1) /\ index /\ 1 .. v \subseteq Releases
      BY <2>5 DEF Record, JobsInOrder, TypeOK
    <3>3. \A u \in 1 .. v : u = v \/ u \in 1 .. v - 1
      BY <3>2
    <3> QED BY <1>1, <3>1, <3>2, <3>3
  <2> QED BY <2>1, <2>2, <2>3, <2>4, <2>5 DEF Apply
<1> QED BY <1>2, <1>3 DEF JobsInOrder

LEMMA RecordedStep ==
  ASSUME TypeOK, LocalsTyped, JobsInOrder, RecordedOnceInOrder, NEW j \in Jobs, StartJob(j) \/ Apply(j) \/ JobFails(j)
  PROVE  RecordedOnceInOrder'
<1>1. CASE applied \subseteq applied' /\ recorded' = recorded
  BY <1>1 DEF RecordedOnceInOrder
<1>2. CASE /\ job[j].pc = "record" /\ recorded[job[j].next] = 0 /\ UNCHANGED applied
           /\ recorded' = [recorded EXCEPT ![job[j].next] = 1]
  <2> DEFINE n == job[j].next
  <2>1. n \in Releases /\ n \in Nat /\ 1 .. n \subseteq Releases /\ n \in applied /\ \A u \in 1 .. n - 1 : recorded[u] = 1
    BY <1>2, ReleasesAreNumbers DEF JobsInOrder, TypeOK
  <2>2. ASSUME NEW v \in Releases, recorded'[v] > 0, NEW u \in 1 .. v
        PROVE  recorded'[v] = 1 /\ u \in applied' /\ recorded'[u] = 1
    <3>1. CASE v = n
      <4>1. u = n \/ (u # n /\ u \in 1 .. n - 1 /\ u \in Releases /\ u \in 1 .. u /\ recorded[u] = 1)
        BY <2>1, <3>1
      <4> QED BY <1>2, <2>1, <3>1, <4>1 DEF RecordedOnceInOrder, TypeOK
    <3>2. CASE v # n
      <4>1. recorded[v] > 0 /\ recorded'[v] = recorded[v] /\ u \in Releases
        BY <1>2, <2>1, <2>2, <3>2, ReleasesAreNumbers DEF TypeOK
      <4> QED BY <1>2, <2>1, <4>1 DEF RecordedOnceInOrder, TypeOK
    <3> QED BY <3>1, <3>2
  <2>3. ASSUME NEW v \in Releases, recorded'[v] > 0 PROVE recorded'[v] = 1
    <3>1. v \in 1 .. v
      BY ReleasesAreNumbers
    <3> QED BY <2>2, <2>3, <3>1
  <2> QED BY <2>2, <2>3 DEF RecordedOnceInOrder
<1>3. CASE StartJob(j) \/ JobFails(j)
  BY <1>1, <1>3 DEF StartJob, JobFails, schemaVars
<1> QED BY <1>1, <1>2, <1>3, JobMoves

LEMMA AppliedGrows ==
  ASSUME TypeOK, LocalsTyped, JobsInOrder, [Next]_vars
  PROVE  applied \subseteq applied'
BY JobMoves DEF Next, vars, schemaVars, StartJob, JobFails, Rollout, Booting, Boot, Connect, ConnectFails, Assert,
   OpenWAL, Replay, ReplayFails, DrainWAL, Start, StartFails, Accept, Append, Insert, Confirm, TickerStarts, TickerEnds,
   TickerStops, Signal, Closing, Drained, Stopped, CloseNext, Exit, Killed

\* A process that finds its version recorded has its schema.
LEMMA FoundIsApplied ==
  ASSUME TypeOK, RecordedOnceInOrder, NEW p \in Pods, AssertVersion(Target[p])
  PROVE  1 .. Target[p] \subseteq applied
BY CurrentIsRecorded, ReleasesAreNumbers DEF AssertVersion, RecordedOnceInOrder

LEMMA AssertedStep ==
  ASSUME SchemaInv, [Next]_vars
  PROVE  Asserted'
<1> USE DEF SchemaInv, At
<1> DEFINE Past(at) == at \notin {"down", "connect", "assert"}
           Served(p) == /\ Past(pc[p]) => 1 .. Target[p] \subseteq applied
                        /\ "listener" \in open[p] => pc[p] = "serving"
<1>1. applied \subseteq applied'
  BY AppliedGrows
<1>2. Asserted /\ (Asserted' <=> \A p \in Pods : Served(p)')
  BY DEF Asserted
<1>3. \A p \in Pods : Served(p)
  BY <1>2 DEF Asserted
<1>4. ASSUME UNCHANGED <<pc, open>> PROVE Asserted'
  BY <1>1, <1>2, <1>3, <1>4
<1>5. ASSUME NEW p \in Pods, NEW to, pc' = [pc EXCEPT ![p] = to], \A q \in Pods \ {p} : open'[q] = open[q], Served(p)'
      PROVE  Asserted'
  <2>1. \A q \in Pods \ {p} : Served(q)'
    BY <1>1, <1>3, <1>5 DEF TypeOK
  <2> QED BY <1>2, <1>5, <2>1
<1>6. ASSUME NEW p \in Pods, Gone(p) PROVE Asserted'
  BY <1>5, <1>6 DEF Gone, TypeOK
<1>7. ASSUME NEW p \in Pods, Booting(p) \/ ConnectFails(p) \/ ReplayFails(p) \/ StartFails(p) PROVE Asserted'
  <2>1. CASE Boot(p)
    BY <2>1, <1>3, <1>5 DEF Boot, TypeOK
  <2>2. CASE Connect(p)
    BY <2>2, <1>3, <1>5 DEF Connect, TypeOK
  <2>3. CASE ConnectFails(p) \/ StartFails(p)
    BY <2>3, <1>6 DEF ConnectFails, StartFails
  <2>4. CASE Assert(p)
    <3>1. CASE ~AssertVersion(Target[p])
      BY <2>4, <3>1, <1>6 DEF Assert
    <3>2. CASE AssertVersion(Target[p])
      BY <2>4, <3>2, <1>1, <1>3, <1>5, FoundIsApplied DEF Assert, TypeOK
    <3> QED BY <3>1, <3>2
  <2>5. CASE OpenWAL(p)
    BY <2>5, <1>1, <1>3, <1>5 DEF OpenWAL, TypeOK
  <2>6. CASE Replay(p) \/ ReplayFails(p) \/ DrainWAL(p)
    BY <2>6, <1>1, <1>3, <1>5 DEF Replay, ReplayFails, DrainWAL, TypeOK
  <2>7. CASE Start(p)
    BY <2>7, <1>1, <1>3, <1>5 DEF Start, TypeOK
  <2> QED BY <1>7, <2>1, <2>2, <2>3, <2>4, <2>5, <2>6, <2>7 DEF Booting
<1>8. ASSUME NEW p \in Pods, Signal(p) \/ Closing(p) \/ Killed(p) PROVE Asserted'
  <2>1. CASE Signal(p)
    BY <2>1, <1>1, <1>3, <1>5 DEF Signal, TypeOK
  <2>2. CASE Drained(p) \/ Stopped(p)
    BY <2>2, <1>1, <1>3, <1>5 DEF Drained, Stopped, TypeOK
  <2>3. CASE CloseNext(p)
    <3>1. \E x : open' = [open EXCEPT ![p] = @ \ {x}]
      BY <2>3 DEF CloseNext
    <3>2. pc' = [pc EXCEPT ![p] = pc[p]]
      BY <2>3 DEF CloseNext, TypeOK
    <3>3. Served(p)' /\ \A q \in Pods \ {p} : open'[q] = open[q]
      BY <3>1, <3>2, <1>1, <1>3 DEF TypeOK
    <3> QED BY <3>2, <3>3, <1>5
  <2>4. CASE Exit(p) \/ Killed(p)
    BY <2>4, <1>6 DEF Exit, Killed
  <2> QED BY <1>8, <2>1, <2>2, <2>3, <2>4 DEF Closing
<1>9. CASE \/ UNCHANGED vars \/ Rollout
           \/ \E j \in Jobs : StartJob(j) \/ Apply(j) \/ JobFails(j)
           \/ \E p \in Pods : \/ \E h \in Handlers : (\E r \in Records : Accept(p, h, r)) \/ Append(p, h) \/ Insert(p, h) \/ Confirm(p, h)
                              \/ TickerStarts(p) \/ TickerEnds(p) \/ TickerStops(p)
  BY <1>4, <1>9 DEF vars, procVars, Rollout, StartJob, Apply, JobFails, ensureVersionIndex, ReadVersion, Up, Record,
     Accept, Append, Insert, Confirm, TickerStarts, TickerEnds, TickerStops
<1> QED BY <1>7, <1>8, <1>9 DEF Next

\* Only jobs change the schema.
LEMMA SchemaStands ==
  ASSUME [Next]_vars, ~\E j \in Jobs : StartJob(j) \/ Apply(j) \/ JobFails(j)
  PROVE  UNCHANGED <<index, applied, recorded, job>>
BY DEF Next, vars, schemaVars, Rollout, Booting, Boot, Connect, ConnectFails, Assert, OpenWAL, Replay, ReplayFails,
   DrainWAL, Start, StartFails, Accept, Append, Insert, Confirm, TickerStarts, TickerEnds, TickerStops, Signal, Closing,
   Drained, Stopped, CloseNext, Exit, Killed

LEMMA SchemaInvariant == Spec => []SchemaInv
<1>1. Init => SchemaInv
  <2> SUFFICES ASSUME Init PROVE JobsInOrder /\ RecordedOnceInOrder /\ Asserted
    BY InitTyped DEF SchemaInv
  <2> QED BY DEF Init, JobsInOrder, RecordedOnceInOrder, Asserted
<1>2. SchemaInv /\ [Next]_vars => SchemaInv'
  <2> SUFFICES ASSUME SchemaInv, [Next]_vars PROVE SchemaInv'
    OBVIOUS
  <2>1. JobsInOrder' /\ RecordedOnceInOrder'
    <3>1. CASE \E j \in Jobs : StartJob(j) \/ Apply(j) \/ JobFails(j)
      BY <3>1, JobsInOrderStep, RecordedStep DEF SchemaInv
    <3>2. CASE UNCHANGED <<index, applied, recorded, job>>
      BY <3>2 DEF SchemaInv, JobsInOrder, RecordedOnceInOrder
    <3> QED BY <3>1, <3>2, SchemaStands
  <2> QED BY <2>1, TypeStep, AssertedStep DEF SchemaInv
<1> QED BY <1>1, <1>2, PTL DEF Spec

\* Whatever jobs are started twice, compete, or are lost between a migration and
\* its record: every version is recorded once and in order, behind its effect.
THEOREM RecordedOnce == Spec => []RecordedOnceInOrder
<1>1. SchemaInv => RecordedOnceInOrder
  BY DEF SchemaInv
<1> QED BY <1>1, SchemaInvariant, PTL

\* A process that takes requests finds the effect of every migration up to its own
\* version in the database.
THEOREM ServedSchema == Spec => []ServedSchemaIsComplete
<1>1. SchemaInv => ServedSchemaIsComplete
  BY DEF SchemaInv, Asserted, ServedSchemaIsComplete
<1> QED BY <1>1, SchemaInvariant, PTL

-----------------------------------------------------------------------------
(* The log.                                                                *)

Kept(p) == OpenInOrder(p) /\ HandledOnce(p) /\ CounterCovers(p)

\* A step of one process: the others are down and stay so.
LEMMA OneMoves ==
  ASSUME LogInv, NEW p \in Pods, \A q \in Pods \ {p} : pc[q] = "down",
         \A q \in Pods \ {p} : pc'[q] = pc[q] /\ open'[q] = open[q] /\ hs'[q] = hs[q],
         pc'[p] = "down" => open'[p] = {},
         TypeOK', LocalsTyped', Kept(p)', FreshIsNew', AppendedIsKept'
  PROVE  LogInv'
<1>1. OneProcess'
  BY DEF LogInv, OneProcess
<1>2. ASSUME NEW q \in Pods, q # p PROVE Kept(q)'
  <2>1. pc'[q] = "down" /\ open'[q] = {} /\ \A h \in Handlers : ~Posted(q, h)'
    BY <1>2 DEF LogInv, OneProcess, HandledOnce, Posted
  <2> QED BY <2>1 DEF Kept, OpenInOrder, HandledOnce, CounterCovers
<1> QED BY <1>1, <1>2 DEF LogInv, Kept

LEMMA Alone ==
  ASSUME LogInv, NEW p \in Pods, pc[p] # "down"
  PROVE  \A q \in Pods \ {p} : pc[q] = "down"
BY DEF LogInv, OneProcess

\* A process that ends leaves the log and the store as they are.
LEMMA GoneKeeps ==
  ASSUME LogInv, NEW p \in Pods, pc[p] # "down", Gone(p), UNCHANGED <<wal, stored, owed, fresh>>, TypeOK', LocalsTyped'
  PROVE  LogInv'
<1>1. pc'[p] = "down" /\ open'[p] = {} /\ \A h \in Handlers : hs'[p][h] = Idle
  BY DEF Gone, LogInv, TypeOK, LocalsTyped
<1>2. \A q \in Pods \ {p} : pc'[q] = pc[q] /\ open'[q] = open[q] /\ hs'[q] = hs[q]
  BY DEF Gone, LogInv, TypeOK, LocalsTyped
<1>3. Kept(p)'
  BY <1>1 DEF Kept, OpenInOrder, HandledOnce, CounterCovers, Posted
<1>4. FreshIsNew' /\ AppendedIsKept'
  BY DEF LogInv, FreshIsNew, AppendedIsKept
<1> QED BY <1>1, <1>2, <1>3, <1>4, Alone, OneMoves

\* Steps that touch neither the handlers nor the log.
LEMMA QuietKeeps ==
  ASSUME LogInv, UNCHANGED <<pc, open, hs, pending, wal, stored, owed, fresh>>, TypeOK', LocalsTyped'
  PROVE  LogInv'
BY DEF LogInv, OneProcess, OpenInOrder, HandledOnce, Posted, FreshIsNew, AppendedIsKept, CounterCovers, Counted,
   Unconfirmed, Active, Busy

LEMMA BootKeeps ==
  ASSUME LogInv, Overlap = FALSE, NEW p \in Pods, TypeOK', LocalsTyped',
         Booting(p) \/ ConnectFails(p) \/ ReplayFails(p) \/ StartFails(p)
  PROVE  LogInv'
<1> USE DEF At, schemaVars, logVars
<1>0. TypeOK /\ LocalsTyped /\ Kept(p) /\ FreshIsNew /\ AppendedIsKept
  BY DEF LogInv, Kept
<1>1. CASE ConnectFails(p) \/ StartFails(p) \/ (Assert(p) /\ ~AssertVersion(Target[p]))
  BY <1>1, GoneKeeps DEF ConnectFails, StartFails, Assert
<1>2. ASSUME NEW from, NEW to, pc[p] = from, pc' = [pc EXCEPT ![p] = to], from # "down", to # "down",
             \A q \in Pods \ {p} : open'[q] = open[q], UNCHANGED hs, Kept(p)', FreshIsNew', AppendedIsKept'
      PROVE  LogInv'
  BY <1>0, <1>2, Alone, OneMoves DEF TypeOK
<1>3. CASE Boot(p)
  <2>1. \A q \in Pods \ {p} : pc[q] = "down" /\ pc'[q] = pc[q]
    BY <1>0, <1>3 DEF Boot, TypeOK
  <2>2. pc'[p] = "connect" /\ pc[p] = "down" /\ open' = open /\ hs' = hs
    BY <1>0, <1>3 DEF Boot, TypeOK
  <2>3. open[p] = {} /\ \A h \in Handlers : ~Posted(p, h)
    BY <1>0, <2>2 DEF LogInv, OneProcess, Kept, HandledOnce
  <2>4. Kept(p)'
    BY <2>2, <2>3 DEF Kept, OpenInOrder, HandledOnce, CounterCovers, Posted
  <2>5. FreshIsNew' /\ AppendedIsKept'
    BY <1>0, <1>3 DEF Boot, FreshIsNew, AppendedIsKept
  <2> QED BY <2>1, <2>2, <2>4, <2>5, OneMoves
<1>4. ASSUME pc[p] \notin {"serving", "draining", "stopping", "close"}, UNCHANGED hs
      PROVE  (\A h \in Handlers : ~Posted(p, h) /\ ~Posted(p, h)') /\ HandledOnce(p)' /\ Unconfirmed(p)' = {}
  <2>1. \A h \in Handlers : hs[p][h] = Idle
    BY <1>0, <1>4 DEF Kept, HandledOnce, Posted
  <2> QED BY <1>4, <2>1 DEF HandledOnce, Posted, Unconfirmed, Active, Busy, Idle
<1>5. CASE Connect(p)
  <2>1. Kept(p)'
    BY <1>0, <1>4, <1>5 DEF Connect, Kept, OpenInOrder, CounterCovers, TypeOK
  <2> QED BY <1>0, <1>2, <1>5, <2>1 DEF Connect, FreshIsNew, AppendedIsKept, TypeOK
<1>6. CASE Assert(p) /\ AssertVersion(Target[p])
  <2>1. Kept(p)'
    BY <1>0, <1>4, <1>6 DEF Assert, Kept, OpenInOrder, CounterCovers, TypeOK
  <2> QED BY <1>0, <1>2, <1>6, <2>1 DEF Assert, FreshIsNew, AppendedIsKept, TypeOK
<1>7. CASE OpenWAL(p)
  <2>1. Kept(p)'
    BY <1>0, <1>4, <1>7 DEF OpenWAL, Kept, OpenInOrder, CounterCovers, TypeOK
  <2> QED BY <1>0, <1>2, <1>7, <2>1 DEF OpenWAL, FreshIsNew, AppendedIsKept, TypeOK
<1>8. CASE Replay(p)
  <2>1. Kept(p)'
    BY <1>0, <1>4, <1>8 DEF Replay, Kept, OpenInOrder, CounterCovers, TypeOK
  <2>2. FreshIsNew' /\ AppendedIsKept'
    BY <1>0, <1>8 DEF Replay, FreshIsNew, AppendedIsKept
  <2> QED BY <1>0, <1>2, <1>8, <2>1, <2>2 DEF Replay
<1>9. CASE ReplayFails(p)
  <2>1. IsFiniteSet(Counted(p)') /\ Cardinality(Counted(p)') <= pending'[p]
    <3>1. Counted(p)' \subseteq wal
      BY <1>0, <1>4, <1>9 DEF ReplayFails, Counted, AppendedIsKept
    <3>2. IsFiniteSet(wal) /\ pending'[p] = Cardinality(wal)
      BY <1>0, <1>9 DEF ReplayFails, LocalsTyped, Kept, CounterCovers
    <3> QED BY <3>1, <3>2, FS_Subset
  <2>2. Kept(p)'
    BY <1>0, <1>4, <1>9, <2>1 DEF ReplayFails, Kept, OpenInOrder, CounterCovers, TypeOK, Posted, Busy, Idle
  <2> QED BY <1>0, <1>2, <1>9, <2>2 DEF ReplayFails, FreshIsNew, AppendedIsKept
<1>10. CASE DrainWAL(p)
  <2>1. Counted(p)' = {} /\ pending'[p] = 0
    BY <1>0, <1>4, <1>10 DEF DrainWAL, Counted, AppendedIsKept, Kept, CounterCovers, TypeOK
  <2>2. IsFiniteSet(Counted(p)') /\ Cardinality(Counted(p)') <= pending'[p]
    BY <2>1, FS_EmptySet
  <2>3. Kept(p)'
    BY <1>0, <1>4, <1>10, <2>2 DEF DrainWAL, Kept, OpenInOrder, CounterCovers, TypeOK, Posted, Busy, Idle
  <2>4. FreshIsNew' /\ AppendedIsKept'
    BY <1>0, <1>10 DEF DrainWAL, FreshIsNew, AppendedIsKept, Kept, CounterCovers
  <2> QED BY <1>0, <1>2, <1>10, <2>3, <2>4 DEF DrainWAL
<1>11. CASE Start(p)
  <2>1. Counted(p)' = Counted(p) /\ pending' = pending
    BY <1>11 DEF Start, Counted, Unconfirmed, Active, Busy
  <2>2. Kept(p)'
    BY <1>0, <1>4, <1>11, <2>1 DEF Start, Kept, OpenInOrder, CounterCovers, TypeOK, Posted, Busy, Idle
  <2> QED BY <1>0, <1>2, <1>11, <2>2 DEF Start, FreshIsNew, AppendedIsKept, TypeOK
<1> QED BY <1>1, <1>3, <1>5, <1>6, <1>7, <1>8, <1>9, <1>10, <1>11 DEF Booting

\* A request changes one handler: from a record that is new to one that is
\* appended and counted, and from there to one that is stored or only counted.
LEMMA RequestKeeps ==
  ASSUME LogInv, Asserted, NEW p \in Pods, NEW h \in Handlers, TypeOK', LocalsTyped',
         (\E r \in Records : Accept(p, h, r)) \/ Append(p, h) \/ Insert(p, h) \/ Confirm(p, h)
  PROVE  LogInv'
<1> USE DEF schemaVars
<1> DEFINE r == hs[p][h].r
           Others == \A g \in Handlers \ {h} : hs'[p][g] = hs[p][g]
<1>0. TypeOK /\ LocalsTyped /\ Kept(p) /\ FreshIsNew /\ AppendedIsKept
  BY DEF LogInv, Kept
<1>1. UNCHANGED <<pc, open>>
  BY DEF Accept, Append, Insert, Confirm
<1>2. ASSUME NEW l, hs' = [hs EXCEPT ![p][h] = l], pc[p] # "down", HandledOnce(p)', CounterCovers(p)', FreshIsNew', AppendedIsKept'
      PROVE  LogInv'
  <2>1. \A q \in Pods \ {p} : hs'[q] = hs[q]
    BY <1>0, <1>2 DEF LocalsTyped
  <2>2. Kept(p)'
    BY <1>0, <1>1, <1>2 DEF Kept, OpenInOrder
  <2> QED BY <1>1, <1>2, <2>1, <2>2, Alone, OneMoves
<1>3. ASSUME NEW l, hs' = [hs EXCEPT ![p][h] = l]
      PROVE  hs'[p][h] = l /\ Others
  BY <1>0, <1>3 DEF LocalsTyped
<1>4. ASSUME NEW at, Busy(p, h, at)
      PROVE  /\ Posted(p, h) /\ hs[p][h] \in [at : {"append", "insert", "confirm"}, r : Records] /\ hs[p][h].at = at
             /\ r \in Records /\ r \notin fresh /\ pc[p] \in {"serving", "draining", "stopping", "close"}
             /\ \A g \in Handlers \ {h} : Posted(p, g) => hs[p][g].r # r
  <2>1. Posted(p, h)
    BY <1>4 DEF Busy, Posted, Idle
  <2>2. hs[p][h] \in [at : {"append", "insert", "confirm"}, r : Records]
    BY <1>0, <2>1 DEF LocalsTyped, Posted
  <2> QED BY <1>0, <1>4, <2>1, <2>2 DEF Kept, HandledOnce, Busy
<1>5. \A g \in Handlers, at \in {"append", "insert", "confirm"} : Busy(p, g, at) => Posted(p, g)
  BY DEF Busy, Posted, Idle
<1>6. CASE \E s \in Records : Accept(p, h, s)
  <2>1. PICK s \in Records : Accept(p, h, s)
    BY <1>6
  <2> DEFINE l == [at |-> "append", r |-> s]
  <2>2. hs'[p][h] = l /\ Others /\ hs[p][h] = Idle /\ pc[p] = "serving"
    BY <1>3, <2>1 DEF Accept, Asserted
  <2>3. HandledOnce(p)'
    BY <1>0, <1>1, <2>1, <2>2 DEF Accept, Kept, HandledOnce, Posted
  <2>4. Unconfirmed(p)' = Unconfirmed(p) /\ UNCHANGED <<owed, stored, pending, wal>>
    BY <2>1, <2>2 DEF Accept, Unconfirmed, Active, Busy, Idle
  <2>5. \A g \in Handlers : Busy(p, g, "confirm")' => Busy(p, g, "confirm") /\ hs'[p][g].r = hs[p][g].r
    BY <2>2 DEF Busy, Idle
  <2>6. CounterCovers(p)'
    BY <1>0, <1>1, <2>4, <2>5 DEF Kept, CounterCovers, Counted
  <2>7. FreshIsNew' /\ AppendedIsKept'
    BY <1>0, <2>1 DEF Accept, FreshIsNew, AppendedIsKept
  <2> QED BY <1>2, <2>1, <2>2, <2>3, <2>6, <2>7 DEF Accept
<1>7. CASE Append(p, h)
  <2>1. Busy(p, h, "append")
    BY <1>7 DEF Append
  <2>2. CASE "wal" \notin open[p]
    <3>1. hs'[p][h] = Idle /\ Others /\ UNCHANGED <<wal, owed, pending, stored, fresh>>
      BY <1>3, <1>7, <2>2 DEF Append, Answers
    <3>2. HandledOnce(p)' /\ CounterCovers(p)'
      BY <1>0, <1>1, <1>4, <2>1, <2>2, <3>1 DEF Kept, HandledOnce, CounterCovers, Posted
    <3>3. FreshIsNew' /\ AppendedIsKept'
      BY <1>0, <3>1 DEF FreshIsNew, AppendedIsKept
    <3> QED BY <1>2, <1>4, <1>7, <2>1, <2>2, <3>2, <3>3 DEF Append, Answers
  <2>3. CASE "wal" \in open[p]
    <3> DEFINE l == [hs[p][h] EXCEPT !.at = "insert"]
    <3>1. hs' = [hs EXCEPT ![p][h] = l]
      BY <1>0, <1>7, <2>3 DEF Append, Moves, LocalsTyped
    <3>2. hs'[p][h] = l /\ Others /\ l.r = r /\ l.at = "insert" /\ l # Idle
      <4>1. l \in [at : {"insert"}, r : Records] /\ l.r = r
        BY <1>4, <2>1
      <4> QED BY <1>3, <3>1, <4>1 DEF Idle
    <3>3. wal' = wal \cup {r} /\ owed' = owed \cup {r} /\ pending'[p] = pending[p] + 1 /\ UNCHANGED <<stored, fresh>>
      BY <1>0, <1>7, <2>3 DEF Append, TypeOK
    <3>4. HandledOnce(p)'
      BY <1>0, <1>1, <1>4, <2>1, <3>2, <3>3 DEF Kept, HandledOnce, Posted
    <3>5. IsFiniteSet(Counted(p)') /\ Cardinality(Counted(p)') <= pending'[p]
      <4>1. Counted(p)' \subseteq Counted(p) \cup {r}
        BY <3>2, <3>3 DEF Counted, Unconfirmed, Active, Busy
      <4>2. IsFiniteSet(Counted(p)) /\ Cardinality(Counted(p)) <= pending[p] /\ pending[p] \in Nat
        BY <1>0, <1>4, <2>1, <2>3 DEF Kept, CounterCovers, TypeOK
      <4>3. /\ IsFiniteSet(Counted(p) \cup {r}) /\ Cardinality(Counted(p)) \in Nat
            /\ Cardinality(Counted(p) \cup {r}) \in {Cardinality(Counted(p)), Cardinality(Counted(p)) + 1}
        BY <4>2, FS_AddElement, FS_CardinalityType
      <4>4. IsFiniteSet(Counted(p)') /\ Cardinality(Counted(p)') <= Cardinality(Counted(p) \cup {r})
        BY <4>1, <4>3, FS_Subset
      <4>5. Cardinality(Counted(p)') \in Nat
        BY <4>4, FS_CardinalityType
      <4> QED BY <3>3, <4>2, <4>3, <4>4, <4>5
    <3>6. ASSUME NEW g \in Handlers, Busy(p, g, "confirm")' PROVE hs'[p][g].r \notin owed' \ stored'
      <4>1. g # h /\ hs'[p][g] = hs[p][g] /\ Busy(p, g, "confirm")
        BY <3>2, <3>6 DEF Busy
      <4>2. hs[p][g].r # r /\ hs[p][g].r \notin owed \ stored
        BY <1>0, <1>4, <1>5, <2>1, <2>3, <4>1 DEF Kept, CounterCovers
      <4> QED BY <3>3, <4>1, <4>2
    <3>7. CounterCovers(p)'
      BY <1>1, <1>4, <2>1, <3>5, <3>6 DEF CounterCovers
    <3>8. FreshIsNew' /\ AppendedIsKept'
      BY <1>0, <1>4, <2>1, <3>3 DEF FreshIsNew, AppendedIsKept
    <3> QED BY <1>2, <1>4, <2>1, <3>1, <3>4, <3>7, <3>8
  <2> QED BY <2>2, <2>3
<1>8. CASE Insert(p, h)
  <2>1. Busy(p, h, "insert")
    BY <1>8 DEF Insert
  <2> DEFINE l == [hs[p][h] EXCEPT !.at = "confirm"]
  <2>2. hs' = [hs EXCEPT ![p][h] = l]
    BY <1>0, <1>8 DEF Insert, Moves, LocalsTyped
  <2>3. hs'[p][h] = l /\ Others /\ l.r = r /\ l.at = "confirm" /\ l # Idle
    <3>1. l \in [at : {"confirm"}, r : Records] /\ l.r = r
      BY <1>4, <2>1
    <3> QED BY <1>3, <2>2, <3>1 DEF Idle
  <2>4. /\ UNCHANGED <<pending, wal, fresh>>
        /\ \/ "mongo" \in open[p] /\ stored' = stored \cup {r} /\ owed' = owed \ {r}
           \/ "mongo" \in open[p] /\ UNCHANGED stored /\ owed' = owed \ {r}
           \/ "mongo" \notin open[p] /\ UNCHANGED <<stored, owed>>
    BY <1>8 DEF Insert
  <2>5. HandledOnce(p)'
    BY <1>0, <1>1, <1>4, <2>1, <2>3, <2>4 DEF Kept, HandledOnce, Posted
  <2>6. CounterCovers(p)'
    <3>1. CASE "mongo" \notin open[p]
      BY <1>0, <1>1, <1>4, <2>1, <3>1 DEF Kept, OpenInOrder, CounterCovers
    <3>2. CASE "mongo" \in open[p] /\ "wal" \in open[p]
      <4>1. Unconfirmed(p)' \subseteq Unconfirmed(p)
        BY <1>4, <2>1, <2>3 DEF Unconfirmed, Active, Busy
      <4>2. Counted(p)' \subseteq Counted(p)
        BY <2>4, <3>2, <4>1 DEF Counted
      <4>3. IsFiniteSet(Counted(p)) /\ Cardinality(Counted(p)) <= pending[p] /\ pending[p] \in Nat
        BY <1>0, <1>4, <2>1, <3>2 DEF Kept, CounterCovers, TypeOK
      <4>4. IsFiniteSet(Counted(p)') /\ Cardinality(Counted(p)') <= Cardinality(Counted(p))
        BY <4>2, <4>3, FS_Subset
      <4>5. Cardinality(Counted(p)') \in Nat /\ Cardinality(Counted(p)) \in Nat
        BY <4>3, <4>4, FS_CardinalityType
      <4>6. ASSUME NEW g \in Handlers, Busy(p, g, "confirm")' PROVE hs'[p][g].r \notin owed' \ stored'
        <5>1. CASE g = h
          BY <2>3, <2>4, <3>2, <5>1
        <5>2. CASE g # h
          BY <1>0, <1>4, <2>1, <2>3, <2>4, <3>2, <4>6, <5>2 DEF Kept, CounterCovers, Busy
        <5> QED BY <5>1, <5>2
      <4> QED BY <1>1, <1>4, <2>1, <2>4, <4>3, <4>4, <4>5, <4>6 DEF CounterCovers
    <3>3. CASE "wal" \notin open[p]
      BY <1>1, <1>4, <2>1, <3>3 DEF CounterCovers
    <3> QED BY <3>1, <3>2, <3>3
  <2>7. FreshIsNew' /\ AppendedIsKept'
    BY <1>0, <2>4 DEF FreshIsNew, AppendedIsKept
  <2> QED BY <1>2, <1>4, <2>1, <2>2, <2>5, <2>6, <2>7
<1>9. CASE Confirm(p, h)
  <2>1. Busy(p, h, "confirm")
    BY <1>9 DEF Confirm
  <2>2. /\ hs' = [hs EXCEPT ![p][h] = Idle] /\ UNCHANGED <<stored, owed, fresh>>
        /\ pending'[p] = (IF pending[p] > 0 THEN pending[p] - 1 ELSE 0)
        /\ wal' = (IF pending'[p] = 0 /\ "wal" \in open[p] THEN {} ELSE wal)
    BY <1>0, <1>9 DEF Confirm, Answers, TypeOK
  <2>3. hs'[p][h] = Idle /\ Others
    BY <1>3, <2>2
  <2>4. HandledOnce(p)'
    BY <1>0, <1>1, <2>2, <2>3 DEF Kept, HandledOnce, Posted
  <2>5. CASE "wal" \notin open[p]
    <3>1. CounterCovers(p)'
      BY <1>1, <1>4, <2>1, <2>5 DEF CounterCovers
    <3>2. FreshIsNew' /\ AppendedIsKept'
      BY <1>0, <2>2, <2>5 DEF FreshIsNew, AppendedIsKept
    <3> QED BY <1>2, <1>4, <2>1, <2>2, <2>4, <3>1, <3>2
  <2>6. CASE "wal" \in open[p]
    <3>1. IsFiniteSet(Counted(p)) /\ Cardinality(Counted(p)) <= pending[p] /\ pending[p] \in Nat /\ r \notin owed \ stored
      BY <1>0, <1>4, <2>1, <2>6 DEF Kept, CounterCovers, TypeOK
    <3>2. r \in Counted(p)
      BY <1>4, <2>1 DEF Counted, Unconfirmed, Active
    <3>3. Counted(p)' = Counted(p) \ {r}
      <4>1. Unconfirmed(p)' = Unconfirmed(p) \ {r}
        <5>1. ASSUME NEW x \in Unconfirmed(p)' PROVE x \in Unconfirmed(p) \ {r}
          <6>1. PICK g \in Handlers : Active(p, g)' /\ hs'[p][g].r = x
            BY DEF Unconfirmed
          <6>2. g # h /\ Active(p, g) /\ hs[p][g].r = x
            BY <2>3, <6>1 DEF Active, Busy, Idle
          <6> QED BY <1>4, <1>5, <2>1, <6>2 DEF Unconfirmed, Active
        <5>2. ASSUME NEW x \in Unconfirmed(p) \ {r} PROVE x \in Unconfirmed(p)'
          <6>1. PICK g \in Handlers : Active(p, g) /\ hs[p][g].r = x
            BY DEF Unconfirmed
          <6>2. g # h /\ Active(p, g)' /\ hs'[p][g].r = x
            BY <2>3, <6>1 DEF Active, Busy
          <6> QED BY <6>2 DEF Unconfirmed
        <5> QED BY <5>1, <5>2
      <4> QED BY <2>2, <3>1, <4>1 DEF Counted
    <3>4. /\ IsFiniteSet(Counted(p)') /\ Cardinality(Counted(p)') = Cardinality(Counted(p)) - 1
          /\ Cardinality(Counted(p)) \in Nat /\ Cardinality(Counted(p)') \in Nat
      <4>1. ASSUME NEW C, IsFiniteSet(C), NEW x \in C
            PROVE  IsFiniteSet(C \ {x}) /\ Cardinality(C \ {x}) = Cardinality(C) - 1
        BY <4>1, FS_RemoveElement
      <4>2. IsFiniteSet(Counted(p)') /\ Cardinality(Counted(p)') = Cardinality(Counted(p)) - 1
        BY <3>1, <3>2, <3>3, <4>1
      <4> QED BY <3>1, <4>2, FS_CardinalityType
    <3>5. Cardinality(Counted(p)') <= pending'[p] /\ pending'[p] \in Nat
      BY <2>2, <3>1, <3>4
    <3>6. ASSUME NEW g \in Handlers, Busy(p, g, "confirm")' PROVE hs'[p][g].r \notin owed' \ stored'
      <4>1. g # h /\ Busy(p, g, "confirm") /\ hs'[p][g] = hs[p][g]
        BY <2>3, <3>6 DEF Busy, Idle
      <4> QED BY <1>0, <1>4, <2>1, <2>2, <2>6, <4>1 DEF Kept, CounterCovers
    <3>7. CounterCovers(p)'
      BY <1>1, <1>4, <2>1, <3>4, <3>5, <3>6 DEF CounterCovers
    <3>8. pending'[p] = 0 => owed \subseteq stored
      <4>1. pending'[p] = 0 => Counted(p)' = {}
        BY <3>4, <3>5, FS_EmptySet
      <4> QED BY <2>2, <4>1 DEF Counted
    <3>9. FreshIsNew' /\ AppendedIsKept'
      BY <1>0, <2>2, <3>8 DEF FreshIsNew, AppendedIsKept
    <3> QED BY <1>2, <1>4, <2>1, <2>2, <2>4, <3>7, <3>9
  <2> QED BY <2>5, <2>6
<1> QED BY <1>6, <1>7, <1>8, <1>9

LEMMA ShutdownKeeps ==
  ASSUME LogInv, Asserted, NEW p \in Pods, Signal(p) \/ Closing(p) \/ Killed(p), TypeOK', LocalsTyped'
  PROVE  LogInv'
<1> USE DEF At, schemaVars
<1>0. TypeOK /\ LocalsTyped /\ Kept(p) /\ FreshIsNew /\ AppendedIsKept
  BY DEF LogInv, Kept
<1>1. CASE Exit(p) \/ Killed(p)
  BY <1>1, GoneKeeps DEF Exit, Killed
<1>2. ASSUME UNCHANGED <<hs, logVars>>, \A q \in Pods \ {p} : pc'[q] = pc[q] /\ open'[q] = open[q],
             {pc[p], pc'[p]} \subseteq {"serving", "draining", "stopping", "close"},
             "wal" \in open'[p] => "wal" \in open[p], OpenInOrder(p)'
      PROVE  LogInv'
  <2>1. HandledOnce(p)'
    BY <1>0, <1>2 DEF Kept, HandledOnce, Posted, logVars
  <2>2. Counted(p)' = Counted(p)
    BY <1>2 DEF Counted, Unconfirmed, Active, Busy, logVars
  <2>3. CounterCovers(p)'
    BY <1>0, <1>2, <2>2 DEF Kept, CounterCovers, logVars, Busy
  <2>4. FreshIsNew' /\ AppendedIsKept'
    BY <1>0, <1>2 DEF FreshIsNew, AppendedIsKept, logVars
  <2> QED BY <1>2, <2>1, <2>3, <2>4, Alone, OneMoves DEF Kept
<1>3. CASE Signal(p)
  BY <1>0, <1>2, <1>3 DEF Signal, Kept, OpenInOrder, TypeOK
<1>4. CASE Drained(p) \/ Stopped(p)
  BY <1>0, <1>2, <1>4 DEF Drained, Stopped, Kept, OpenInOrder, TypeOK
<1>5. CASE CloseNext(p)
  <2> DEFINE First(i) == CloseOrder[i] \in open[p] /\ \A k \in 1 .. i - 1 : CloseOrder[k] \notin open[p]
  <2>1. CloseOrder[1] = "fabric" /\ CloseOrder[2] = "wal" /\ CloseOrder[3] = "mongo"
    BY DEF CloseOrder
  <2>2. \E i \in 1 .. 3 : First(i)
    <3>1. "fabric" \in open[p] \/ "wal" \in open[p] \/ "mongo" \in open[p]
      BY <1>0, <1>5 DEF CloseNext, TypeOK, Asserted
    <3>2. CASE "fabric" \in open[p]
      <4>1. First(1)
        BY <2>1, <3>2
      <4> QED BY <4>1
    <3>3. CASE "fabric" \notin open[p] /\ "wal" \in open[p]
      <4>1. First(2)
        BY <2>1, <3>3
      <4> QED BY <4>1
    <3>4. CASE "fabric" \notin open[p] /\ "wal" \notin open[p] /\ "mongo" \in open[p]
      <4>1. First(3)
        BY <2>1, <3>4
      <4> QED BY <4>1
    <3> QED BY <3>1, <3>2, <3>3, <3>4
  <2> DEFINE s == CHOOSE i \in 1 .. 3 : First(i)
  <2>3. s \in 1 .. 3 /\ First(s)
    BY <2>2
  <2>4. open' = [open EXCEPT ![p] = @ \ {CloseOrder[s]}]
    BY <1>5 DEF CloseNext
  <2>5. "wal" \in open'[p] => "mongo" \in open'[p]
    <3> HIDE DEF s
    <3>1. s = 3 => "wal" \notin open[p]
      BY <2>1, <2>3
    <3> QED BY <1>0, <2>1, <2>3, <2>4, <3>1 DEF Kept, OpenInOrder, TypeOK
  <2>6. open'[p] \subseteq open[p] /\ \A q \in Pods \ {p} : open'[q] = open[q]
    BY <1>0, <2>4 DEF TypeOK
  <2>7. pc'[p] = "close" /\ pc' = pc /\ pc[p] = "close" /\ UNCHANGED <<hs, logVars>>
    BY <1>5 DEF CloseNext
  <2> HIDE DEF s
  <2> QED BY <1>2, <2>5, <2>6, <2>7 DEF OpenInOrder
<1> QED BY <1>1, <1>3, <1>4, <1>5 DEF Closing

LEMMA LogStep ==
  ASSUME LogInv, Asserted, Overlap = FALSE, [Next]_vars
  PROVE  LogInv'
<1>1. TypeOK' /\ LocalsTyped'
  BY TypeStep DEF LogInv
<1>2. CASE \/ UNCHANGED vars \/ Rollout
           \/ \E j \in Jobs : StartJob(j) \/ Apply(j) \/ JobFails(j)
           \/ \E p \in Pods : TickerStarts(p) \/ TickerEnds(p) \/ TickerStops(p)
  BY <1>1, <1>2, QuietKeeps DEF vars, procVars, logVars, Rollout, StartJob, Apply, JobFails, ensureVersionIndex,
     ReadVersion, Up, Record, TickerStarts, TickerEnds, TickerStops
<1>3. CASE \E p \in Pods : Booting(p) \/ ConnectFails(p) \/ ReplayFails(p) \/ StartFails(p)
  BY <1>1, <1>3, BootKeeps
<1>4. CASE \E p \in Pods, h \in Handlers :
             (\E r \in Records : Accept(p, h, r)) \/ Append(p, h) \/ Insert(p, h) \/ Confirm(p, h)
  BY <1>1, <1>4, RequestKeeps
<1>5. CASE \E p \in Pods : Signal(p) \/ Closing(p) \/ Killed(p)
  BY <1>1, <1>5, ShutdownKeeps
<1> QED BY <1>2, <1>3, <1>4, <1>5 DEF Next

\* While processes do not overlap, a record whose append succeeded is stored or in
\* the log until MongoDB has answered for it, whatever shutdown, kill or failed
\* replay comes between.
THEOREM AppendedKept == ASSUME Overlap = FALSE PROVE Spec => []AppendedIsKept
<1>1. Init => LogInv
  <2> SUFFICES ASSUME Init PROVE LogInv
    OBVIOUS
  <2>1. OneProcess /\ FreshIsNew /\ AppendedIsKept
    BY DEF Init, OneProcess, FreshIsNew, AppendedIsKept
  <2>2. ASSUME NEW p \in Pods PROVE OpenInOrder(p) /\ HandledOnce(p) /\ CounterCovers(p)
    BY DEF Init, OpenInOrder, HandledOnce, Posted, CounterCovers
  <2> QED BY <2>1, <2>2, InitTyped DEF LogInv
<1>2. LogInv /\ SchemaInv /\ [Next]_vars => LogInv'
  BY LogStep DEF SchemaInv
<1>3. LogInv => AppendedIsKept
  BY DEF LogInv
<1> QED BY <1>1, <1>2, <1>3, SchemaInvariant, PTL DEF Spec
=============================================================================
