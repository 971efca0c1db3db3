------------------------------- MODULE Service -------------------------------
(***************************************************************************)
(* The API process from boot to exit, and the migration job beside it: a   *)
(* job brings the schema to its binary's version, a process asserts that   *)
(* version, replays the write-ahead log and serves, and on SIGTERM drains  *)
(* what it can within its deadlines before main's deferred calls close the *)
(* stores one by one under whatever is still running.                      *)
(*                                                                         *)
(* The release decides which binary runs: the job of a new release         *)
(* completes before its process is started and the old one is told to stop *)
(* (the chart's pre-upgrade hook).  Processes use one log directory.  What *)
(* the lines of the log go through is module RecordWAL's subject; here the *)
(* log is the set of records it holds.                                     *)
(***************************************************************************)
EXTENDS Naturals, FiniteSetsExt

CONSTANTS
  Pods, Jobs,      \* API processes and migration jobs ...
  Target,          \* ... and TargetVersion of their binaries
  Releases,        \* versions that are deployed, in ascending order: 1 .. n
  Handlers,        \* request goroutines per process
  Records,         \* records that clients post, each once
  Overlap,         \* a new process is started while the old one still runs
  MaxKills, MaxFaults

ASSUME TargetAssumption ==
  /\ IsFiniteSet(Releases) /\ Releases # {} /\ Releases = 1 .. Cardinality(Releases)
  /\ Target \in [Pods \cup Jobs -> Releases]

VARIABLES
  release,
  index,           \* schema_migrations has its unique index
  applied,         \* versions whose Up is in effect
  recorded,        \* [Releases -> documents in schema_migrations]
  job,             \* [Jobs -> [pc, next]]
  pc, open,        \* where main is, and what it has open
  hs, tick,        \* the handlers and the ticker of each process
  pending,         \* FileWAL.pending
  wal, stored,     \* records in the log and in MongoDB
  owed,            \* appended, and MongoDB has not answered yet
  fresh,           \* not posted yet
  kills, faults

schemaVars == <<index, applied, recorded>>
logVars    == <<pending, wal, stored, owed, fresh>>
procVars   == <<pc, open, hs, tick>>
vars == <<release, schemaVars, job, procVars, logVars, kills, faults>>

Idle == [at |-> "idle"]

Init ==
  /\ release = 1
  /\ index = FALSE /\ applied = {} /\ recorded = [v \in Releases |-> 0]
  /\ job = [j \in Jobs |-> [pc |-> "new", next |-> 0]]
  /\ pc = [p \in Pods |-> "down"] /\ open = [p \in Pods |-> {}]
  /\ hs = [p \in Pods |-> [h \in Handlers |-> Idle]] /\ tick = [p \in Pods |-> "off"]
  /\ pending = [p \in Pods |-> 0] /\ wal = {} /\ stored = {} /\ owed = {} /\ fresh = Records
  /\ kills = 0 /\ faults = 0

Fault == faults < MaxFaults /\ faults' = faults + 1
Kill  == kills < MaxKills /\ kills' = kills + 1

-----------------------------------------------------------------------------
(* Migrations.                                                             *)

CurrentVersion == Max({0} \cup {v \in Releases : recorded[v] > 0})

AssertVersion(v) == CurrentVersion = v

JobAt(j, at, next) == job' = [job EXCEPT ![j] = [pc |-> at, next |-> next]]

\* Mutant of ensureVersionIndex: the index is not unique.
ensureVersionIndex_Plain(j) ==
  /\ job[j].pc = "index"
  /\ JobAt(j, "read", 0)
  /\ UNCHANGED <<release, schemaVars, procVars, logVars, kills, faults>>

ensureVersionIndex(j) ==
  /\ job[j].pc = "index"
  /\ index' = TRUE
  /\ JobAt(j, "read", 0)
  /\ UNCHANGED <<release, applied, recorded, procVars, logVars, kills, faults>>

\* Mutant of StartJob: a failed job is not started again.
StartJob_Once(j) ==
  /\ job[j].pc = "new" /\ Target[j] <= release + 1
  /\ JobAt(j, "index", 0)
  /\ UNCHANGED <<release, schemaVars, procVars, logVars, kills, faults>>

\* The job of a release is started for it; a failed one is started again.
StartJob(j) ==
  /\ job[j].pc \in {"new", "failed"} /\ Target[j] <= release + 1
  /\ JobAt(j, "index", 0)
  /\ UNCHANGED <<release, schemaVars, procVars, logVars, kills, faults>>

\* Mutant of ReadVersion: the current version counts as pending.
ReadVersion_Again(j) ==
  /\ job[j].pc = "read"
  /\ IF CurrentVersion >= Target[j] THEN JobAt(j, "done", 0) ELSE JobAt(j, "up", CurrentVersion)
  /\ UNCHANGED <<release, schemaVars, procVars, logVars, kills, faults>>

\* The pending migrations are fixed here, in version order.
ReadVersion(j) ==
  /\ job[j].pc = "read"
  /\ IF CurrentVersion >= Target[j] THEN JobAt(j, "done", 0) ELSE JobAt(j, "up", CurrentVersion + 1)
  /\ UNCHANGED <<release, schemaVars, procVars, logVars, kills, faults>>

\* Up is idempotent: what is there already stays.
Up(j) ==
  /\ job[j].pc = "up"
  /\ applied' = applied \cup {job[j].next}
  /\ JobAt(j, "record", job[j].next)
  /\ UNCHANGED <<release, index, recorded, procVars, logVars, kills, faults>>

\* The insert of the version is refused if another runner was faster.
Record(j) ==
  LET v == job[j].next
  IN  /\ job[j].pc = "record"
      /\ IF index /\ recorded[v] > 0
         THEN JobAt(j, "failed", 0) /\ UNCHANGED recorded
         ELSE /\ recorded' = [recorded EXCEPT ![v] = @ + 1]
              /\ IF v < Target[j] THEN JobAt(j, "up", v + 1) ELSE JobAt(j, "done", 0)
      /\ UNCHANGED <<release, index, applied, procVars, logVars, kills, faults>>

\* An error of MongoDB, or the job's pod is lost.
JobFails(j) ==
  /\ job[j].pc \in {"index", "read", "up", "record"}
  /\ Fault
  /\ JobAt(j, "failed", 0)
  /\ UNCHANGED <<release, schemaVars, procVars, logVars, kills>>

Rollout ==
  /\ \E j \in Jobs : Target[j] = release + 1 /\ job[j].pc = "done"
  /\ release' = release + 1
  /\ UNCHANGED <<schemaVars, job, procVars, logVars, kills, faults>>

-----------------------------------------------------------------------------
(* main: boot.                                                             *)

At(p, from, to) == pc[p] = from /\ pc' = [pc EXCEPT ![p] = to]

\* The process is gone; log.Fatal runs no deferred call, and neither does a kill.
Gone(p) ==
  /\ pc' = [pc EXCEPT ![p] = "down"] /\ open' = [open EXCEPT ![p] = {}]
  /\ hs' = [hs EXCEPT ![p] = [h \in Handlers |-> Idle]] /\ tick' = [tick EXCEPT ![p] = "off"]
  /\ pending' = [pending EXCEPT ![p] = 0]

Boot(p) ==
  /\ Target[p] = release
  /\ Overlap \/ \A q \in Pods \ {p} : pc[q] = "down"
  /\ At(p, "down", "connect")
  /\ UNCHANGED <<release, schemaVars, job, open, hs, tick, logVars, kills, faults>>

\* ConnectWithRetry: one of five attempts succeeds, or the process ends.
Connect(p) ==
  /\ At(p, "connect", "assert")
  /\ open' = [open EXCEPT ![p] = {"mongo"}]
  /\ UNCHANGED <<release, schemaVars, job, hs, tick, logVars, kills, faults>>

ConnectFails(p) ==
  /\ pc[p] = "connect"
  /\ Fault
  /\ Gone(p)
  /\ UNCHANGED <<release, schemaVars, job, wal, stored, owed, fresh, kills>>

\* Mutant of Assert: a schema that is behind is good enough.
Assert_AnyVersion(p) ==
  /\ At(p, "assert", "open_wal")
  /\ UNCHANGED <<release, schemaVars, job, open, hs, tick, logVars, kills, faults>>

Assert(p) ==
  /\ pc[p] = "assert"
  /\ IF AssertVersion(Target[p])
     THEN At(p, "assert", "open_wal") /\ UNCHANGED <<open, hs, tick, pending>>
     ELSE Gone(p)
  /\ UNCHANGED <<release, schemaVars, job, wal, stored, owed, fresh, kills, faults>>

\* Every line that is there counts as pending.
OpenWAL(p) ==
  /\ At(p, "open_wal", "replay")
  /\ open' = [open EXCEPT ![p] = @ \cup {"wal"}]
  /\ pending' = [pending EXCEPT ![p] = Cardinality(wal)]
  /\ UNCHANGED <<release, schemaVars, job, hs, tick, wal, stored, owed, fresh, kills, faults>>

\* Recover inserts line by line up to the end of the file ...
Replay(p) ==
  /\ At(p, "replay", "drain_wal")
  /\ stored' = stored \cup wal /\ owed' = owed \ wal
  /\ UNCHANGED <<release, schemaVars, job, open, hs, tick, pending, wal, fresh, kills, faults>>

\* ... gives up at an error, with the entries retained ...
ReplayFails(p) ==
  /\ At(p, "replay", "start")
  /\ Fault
  /\ UNCHANGED <<release, schemaVars, job, open, hs, tick, logVars, kills>>

\* ... and truncates the file.
DrainWAL(p) ==
  /\ At(p, "drain_wal", "start")
  /\ wal' = {} /\ pending' = [pending EXCEPT ![p] = 0]
  /\ UNCHANGED <<release, schemaVars, job, open, hs, tick, stored, owed, fresh, kills, faults>>

\* Redis may be missing; the Fabric client may not.
StartFails(p) ==
  /\ pc[p] = "start"
  /\ Fault
  /\ Gone(p)
  /\ UNCHANGED <<release, schemaVars, job, wal, stored, owed, fresh, kills>>

Start(p) ==
  /\ At(p, "start", "serving")
  /\ open' = [open EXCEPT ![p] = @ \cup {"fabric", "listener"}]
  /\ tick' = [tick EXCEPT ![p] = "wait"]
  /\ UNCHANGED <<release, schemaVars, job, hs, logVars, kills, faults>>

-----------------------------------------------------------------------------
(* main: serving.                                                          *)

Busy(p, h, at) == "r" \in DOMAIN hs[p][h] /\ hs[p][h].at = at
Moves(p, h, at) == hs' = [hs EXCEPT ![p][h].at = at]
Answers(p, h)   == hs' = [hs EXCEPT ![p][h] = Idle]

Accept(p, h, r) ==
  /\ "listener" \in open[p] /\ hs[p][h] = Idle /\ r \in fresh
  /\ fresh' = fresh \ {r}
  /\ hs' = [hs EXCEPT ![p][h] = [at |-> "append", r |-> r]]
  /\ UNCHANGED <<release, schemaVars, job, pc, open, tick, pending, wal, stored, owed, kills, faults>>

\* A write to a closed file is an error, and the request fails.
Append(p, h) ==
  /\ Busy(p, h, "append")
  /\ IF "wal" \in open[p]
     THEN /\ Moves(p, h, "insert")
          /\ wal' = wal \cup {hs[p][h].r} /\ owed' = owed \cup {hs[p][h].r}
          /\ pending' = [pending EXCEPT ![p] = @ + 1]
     ELSE Answers(p, h) /\ UNCHANGED <<wal, owed, pending>>
  /\ UNCHANGED <<release, schemaVars, job, pc, open, tick, stored, fresh, kills, faults>>

\* MongoDB stores the record, has it already or answers with an error; a client
\* that is disconnected sends nothing.
Insert(p, h) ==
  /\ Busy(p, h, "insert")
  /\ Moves(p, h, "confirm")
  /\ \/ /\ "mongo" \in open[p]
        /\ stored' = stored \cup {hs[p][h].r} /\ owed' = owed \ {hs[p][h].r}
        /\ UNCHANGED faults
     \/ /\ "mongo" \in open[p] /\ Fault
        /\ owed' = owed \ {hs[p][h].r}
        /\ UNCHANGED stored
     \/ "mongo" \notin open[p] /\ UNCHANGED <<stored, owed, faults>>
  /\ UNCHANGED <<release, schemaVars, job, pc, open, tick, pending, wal, fresh, kills>>

\* Any outcome confirms; the truncation of a closed file fails.
Confirm(p, h) ==
  /\ Busy(p, h, "confirm")
  /\ Answers(p, h)
  /\ pending' = [pending EXCEPT ![p] = IF @ > 0 THEN @ - 1 ELSE 0]
  /\ wal' = IF pending'[p] = 0 /\ "wal" \in open[p] THEN {} ELSE wal
  /\ UNCHANGED <<release, schemaVars, job, pc, open, tick, stored, owed, fresh, kills, faults>>

\* autoBatchTicker: one cycle, which may wait long for the ledger; whether a due
\* cycle or the stop signal is taken first is open.
TickerStarts(p) ==
  /\ tick[p] = "wait" /\ pc[p] \in {"serving", "draining", "stopping"}
  /\ tick' = [tick EXCEPT ![p] = "cycle"]
  /\ UNCHANGED <<release, schemaVars, job, pc, open, hs, logVars, kills, faults>>

TickerEnds(p) ==
  /\ tick[p] = "cycle"
  /\ tick' = [tick EXCEPT ![p] = "wait"]
  /\ UNCHANGED <<release, schemaVars, job, pc, open, hs, logVars, kills, faults>>

TickerStops(p) ==
  /\ tick[p] = "wait" /\ pc[p] \notin {"serving", "draining"}
  /\ tick' = [tick EXCEPT ![p] = "off"]
  /\ UNCHANGED <<release, schemaVars, job, pc, open, hs, logVars, kills, faults>>

-----------------------------------------------------------------------------
(* main: shutdown.                                                         *)

Signal(p) ==
  /\ At(p, "serving", "draining")
  /\ open' = [open EXCEPT ![p] = @ \ {"listener"}]
  /\ UNCHANGED <<release, schemaVars, job, hs, tick, logVars, kills, faults>>

\* srv.Shutdown returns when the handlers have, or after ShutdownTimeout.
Drained(p) ==
  /\ At(p, "draining", "stopping")
  /\ UNCHANGED <<release, schemaVars, job, open, hs, tick, logVars, kills, faults>>

\* Mutant of Stopped: Stop waits for the ticker, however long it takes.
Stopped_Waits(p) ==
  /\ tick[p] = "off"
  /\ At(p, "stopping", "close")
  /\ UNCHANGED <<release, schemaVars, job, open, hs, tick, logVars, kills, faults>>

\* Stop returns when the ticker has, or after ten seconds; handlers that batch
\* are not waited for.
Stopped(p) ==
  /\ At(p, "stopping", "close")
  /\ UNCHANGED <<release, schemaVars, job, open, hs, tick, logVars, kills, faults>>

\* Mutant of CloseOrder: in the order in which they were opened.
CloseOrder_Opened == <<"mongo", "wal", "fabric">>

\* Deferred calls run last to first.
CloseOrder == <<"fabric", "wal", "mongo">>

CloseNext(p) ==
  /\ pc[p] = "close" /\ open[p] # {}
  /\ LET s == CHOOSE i \in 1 .. 3 : /\ CloseOrder[i] \in open[p]
                                    /\ \A k \in 1 .. i - 1 : CloseOrder[k] \notin open[p]
     IN  open' = [open EXCEPT ![p] = @ \ {CloseOrder[s]}]
  /\ UNCHANGED <<release, schemaVars, job, pc, hs, tick, logVars, kills, faults>>

Exit(p) ==
  /\ pc[p] = "close" /\ open[p] = {}
  /\ Gone(p)
  /\ UNCHANGED <<release, schemaVars, job, wal, stored, owed, fresh, kills, faults>>

Killed(p) ==
  /\ pc[p] # "down"
  /\ Kill
  /\ Gone(p)
  /\ UNCHANGED <<release, schemaVars, job, wal, stored, owed, fresh, faults>>

-----------------------------------------------------------------------------
Apply(j) == ensureVersionIndex(j) \/ ReadVersion(j) \/ Up(j) \/ Record(j)

Booting(p) == Boot(p) \/ Connect(p) \/ Assert(p) \/ OpenWAL(p) \/ Replay(p) \/ DrainWAL(p) \/ Start(p)
Closing(p) == Drained(p) \/ Stopped(p) \/ CloseNext(p) \/ Exit(p)

Next ==
  \/ \E j \in Jobs : StartJob(j) \/ Apply(j) \/ JobFails(j)
  \/ Rollout
  \/ \E p \in Pods : \/ Booting(p) \/ ConnectFails(p) \/ ReplayFails(p) \/ StartFails(p)
                     \/ \E h \in Handlers : \/ \E r \in Records : Accept(p, h, r)
                                            \/ Append(p, h) \/ Insert(p, h) \/ Confirm(p, h)
                     \/ TickerStarts(p) \/ TickerEnds(p) \/ TickerStops(p)
                     \/ Signal(p) \/ Closing(p) \/ Killed(p)

Spec == Init /\ [][Next]_vars

\* Processes run; a failed job and an ended process of the current release are
\* started again; processes of an older one are told to stop.
Fairness ==
  /\ \A j \in Jobs : WF_vars(StartJob(j)) /\ WF_vars(Apply(j))
  /\ WF_vars(Rollout)
  /\ \A p \in Pods : WF_vars(Booting(p)) /\ WF_vars(Closing(p)) /\ WF_vars(Target[p] < release /\ Signal(p))

FairSpec == Spec /\ Fairness

-----------------------------------------------------------------------------
(* Properties.                                                             *)

TypeOK ==
  /\ release \in Releases /\ index \in BOOLEAN /\ applied \subseteq Releases /\ recorded \in [Releases -> Nat]
  /\ \A j \in Jobs : /\ job[j].pc \in {"new", "index", "read", "up", "record", "failed", "done"}
                     /\ job[j].pc \in {"up", "record"} => job[j].next \in 1 .. Target[j]
  /\ pc \in [Pods -> {"down", "connect", "assert", "open_wal", "replay", "drain_wal", "start", "serving",
                      "draining", "stopping", "close"}]
  /\ open \in [Pods -> SUBSET {"mongo", "wal", "fabric", "listener"}]
  /\ tick \in [Pods -> {"off", "wait", "cycle"}]
  /\ wal \cup stored \cup owed \cup fresh \subseteq Records
  /\ pending \in [Pods -> Nat]

\* A process that takes requests finds the effect of every migration up to its
\* own version in the database, whatever jobs were started twice, lost between
\* a migration and its record, or are running for the next release (Apply,
\* AssertVersion).
ServedSchemaIsComplete ==
  \A p \in Pods : "listener" \in open[p] => 1 .. Target[p] \subseteq applied

\* Every version is recorded once and in order, by whichever job was first
\* (runner.go: "the duplicate insert fails loudly rather than silently
\* double-applying").
RecordedOnceInOrder ==
  \A v \in Releases : recorded[v] > 0 => recorded[v] = 1 /\ \A u \in 1 .. v : u \in applied /\ recorded[u] = 1

\* A record whose Append succeeded is stored or in the log until MongoDB has
\* answered for it, be it with an error that the client is told: neither a
\* shutdown that cuts its handler short nor a kill, a failed replay or the next
\* release loses it (main's deferred calls).
AppendedIsKept == owed \subseteq stored \cup wal

\* A process that is told to stop ends, even if its handlers and the ledger never
\* return: both waits have deadlines (Shutdown, Stop).
ShutdownEnds == \A p \in Pods : pc[p] = "draining" ~> pc[p] = "down"

\* The last release ends up serving, although jobs fail half-way and compete, and
\* processes crash or refuse a schema that is not theirs.
LastReleaseServes == <>(\E p \in Pods : Target[p] = Max(Releases) /\ "listener" \in open[p])
-----------------------------------------------------------------------------
(* Inductive invariants, for the proofs.                                   *)

LocalsTyped ==
  /\ job \in [Jobs -> [pc : {"new", "index", "read", "up", "record", "failed", "done"}, next : Nat]]
  /\ hs \in [Pods -> [Handlers -> {Idle} \cup [at : {"append", "insert", "confirm"}, r : Records]]]
  /\ IsFiniteSet(wal)

\* A job looks at the versions behind the unique index, and the versions below
\* the one it works on are recorded.
JobsInOrder ==
  \A j \in Jobs : /\ job[j].pc \in {"read", "up", "record"} => index
                  /\ job[j].pc \in {"up", "record"} => \A u \in 1 .. job[j].next - 1 : recorded[u] = 1
                  /\ job[j].pc = "record" => job[j].next \in applied

\* A process that has passed its assertion has found its version.
Asserted ==
  \A p \in Pods : /\ pc[p] \notin {"down", "connect", "assert"} => 1 .. Target[p] \subseteq applied
                  /\ "listener" \in open[p] => pc[p] = "serving"

SchemaInv == TypeOK /\ LocalsTyped /\ JobsInOrder /\ RecordedOnceInOrder /\ Asserted

\* One process at a time, and nothing is left of the one before.
OneProcess ==
  /\ \A p, q \in Pods : pc[p] # "down" /\ pc[q] # "down" => p = q
  /\ \A p \in Pods : pc[p] = "down" => open[p] = {}

\* What is open at each stage; MongoDB is closed last.
OpenInOrder(p) ==
  /\ pc[p] \in {"replay", "drain_wal", "start", "serving", "draining", "stopping"} => "wal" \in open[p]
  /\ pc[p] \in {"connect", "assert", "open_wal"} => "wal" \notin open[p]
  /\ pc[p] \notin {"down", "connect", "close"} => "mongo" \in open[p]
  /\ "wal" \in open[p] => "mongo" \in open[p]

\* A record has one handler, from its request on.
Posted(p, h) == hs[p][h] # Idle
HandledOnce(p) ==
  \A h \in Handlers : Posted(p, h) =>
    /\ pc[p] \in {"serving", "draining", "stopping", "close"}
    /\ hs[p][h].r \notin fresh
    /\ \A g \in Handlers : Posted(p, g) /\ hs[p][g].r = hs[p][h].r => g = h
FreshIsNew == (owed \cup wal) \cap fresh = {}

\* The records that the counter of a process stands for: those its handlers have
\* appended and not confirmed, and those that only the log keeps.
Active(p, h) == Busy(p, h, "insert") \/ Busy(p, h, "confirm")
Unconfirmed(p) == {r \in Records : \E h \in Handlers : Active(p, h) /\ hs[p][h].r = r}
Counted(p) == Unconfirmed(p) \cup (owed \ stored)

CounterCovers(p) ==
  /\ pc[p] = "replay" => pending[p] = Cardinality(wal)
  /\ pc[p] = "drain_wal" => wal \subseteq stored
  /\ pc[p] \in {"start", "serving", "draining", "stopping", "close"} /\ "wal" \in open[p] =>
       /\ IsFiniteSet(Counted(p)) /\ Cardinality(Counted(p)) <= pending[p]
       /\ \A h \in Handlers : Busy(p, h, "confirm") => hs[p][h].r \notin owed \ stored

LogInv ==
  /\ TypeOK /\ LocalsTyped /\ OneProcess /\ FreshIsNew /\ AppendedIsKept
  /\ \A p \in Pods : OpenInOrder(p) /\ HandledOnce(p) /\ CounterCovers(p)
=============================================================================
