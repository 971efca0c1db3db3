------------------------------- MODULE RecordWAL -------------------------------
(***************************************************************************)
(* The record-create path of the API and its write-ahead log: CreateRecord *)
(* appends the record to the file and fsyncs it (FileWAL.Append), inserts  *)
(* it into MongoDB, and confirms the entry (FileWAL.Confirm), which empties *)
(* the file when nothing is in flight.  After a crash main replays the     *)
(* file (FileWAL.Recover) before it serves requests.                       *)
(*                                                                         *)
(* An entry is a record id with one of several bodies, so that two clients *)
(* may post different records under one id; the records collection has a   *)
(* unique index on the id.  A line of the file is an entry or Corrupt,     *)
(* which json.Unmarshal rejects.                                           *)
(***************************************************************************)
EXTENDS Naturals, Sequences, FiniteSets

CONSTANTS Handlers,    \* goroutines serving POST .../records
          Ids, Bodies,
          NoBody,      \* no record is stored under the id
          Corrupt,     \* a line that is not a record
          TornWrites,  \* a write or a power loss may cut a line short
          MaxRequests, MaxCrashes, MaxFaults   \* bounds

ASSUME SentinelAssumption == NoBody \notin Bodies /\ Corrupt \notin Ids \X Bodies
ASSUME BoundsAssumption ==
    /\ TornWrites \in BOOLEAN
    /\ MaxRequests \in Nat /\ MaxCrashes \in Nat /\ MaxFaults \in Nat

VARIABLES
    mongo,     \* the body stored under each id
    late,      \* inserts that failed for their caller and may still be applied
    file,      \* the lines of records.wal, as the processes see them
    disk,      \* the lines that survive a power loss
    open,      \* the last line of the file has no newline ...
    diskOpen,  \* ... and that of disk
    pending,   \* FileWAL.pending
    up,        \* "down", "replay" or "serving"
    pos,       \* the next line Recover reads
    hs,        \* local state of each handler
    owed,      \* entries whose Append returned nil and whose insert has not returned
    acked,     \* entries answered with 201 Created
    cuts,      \* lines that were cut short so far
    requests, crashes, faults

storeVars == <<mongo, late>>
diskVars == <<disk, diskOpen>>
fileVars == <<file, open, diskVars>>
countVars == <<cuts, requests, crashes, faults>>
vars == <<mongo, late, file, open, disk, diskOpen, pending, up, pos, hs, owed, acked,
          cuts, requests, crashes, faults>>

Entries == Ids \X Bodies
Lines == Entries \union {Corrupt}
NoEntry == <<>>
Idle == [pc |-> "idle", e |-> NoEntry, res |-> "none"]
Handler == [pc : {"idle", "sync", "insert", "confirm"}, e : Entries \union {NoEntry},
            res : {"none", "created", "conflict", "error"}]

TypeOK ==
    /\ mongo \in [Ids -> Bodies \union {NoBody}]
    /\ late \subseteq Entries
    /\ file \in Seq(Lines) /\ disk \in Seq(Lines)
    /\ open \in BOOLEAN /\ diskOpen \in BOOLEAN
    /\ pending \in Nat
    /\ up \in {"down", "replay", "serving"}
    /\ pos \in Nat \ {0}
    /\ hs \in [Handlers -> Handler]
    /\ owed \subseteq Entries /\ acked \subseteq Entries
    /\ cuts \in Nat /\ requests \in Nat /\ crashes \in Nat /\ faults \in Nat

Init ==
    /\ mongo = [i \in Ids |-> NoBody]
    /\ late = {}
    /\ file = <<>> /\ open = FALSE /\ disk = <<>> /\ diskOpen = FALSE
    /\ pending = 0 /\ up = "down" /\ pos = 1
    /\ hs = [h \in Handlers |-> Idle]
    /\ owed = {} /\ acked = {}
    /\ cuts = 0 /\ requests = 0 /\ crashes = 0 /\ faults = 0

Fault == faults < MaxFaults /\ faults' = faults + 1
NoFault == UNCHANGED faults

-----------------------------------------------------------------------------
(* The file                                                                 *)

\* The lines after a write of line: it ends up on an open last line.
WrittenTo(lines, isOpen, line) ==
    IF isOpen THEN [lines EXCEPT ![Len(lines)] = Corrupt] ELSE Append(lines, line)

Written(line) == WrittenTo(file, open, line)

\* What a write that is cut short leaves: a fragment, or all but the newline.
CutShort(e) == {Written(Corrupt), Written(e)}

\* truncateLocked; an error of Truncate is ignored.
Truncate ==
    \/ /\ file' = <<>> /\ open' = FALSE
       /\ NoFault
    \/ /\ UNCHANGED <<file, open>>
       /\ Fault

\* w.mu is held by an Append between its write and its fsync.
Unlocked == \A h \in Handlers : hs[h].pc # "sync"

-----------------------------------------------------------------------------
(* InsertRecord                                                             *)

Stored(e) == mongo[e[1]] # NoBody
Put(e) == mongo' = [mongo EXCEPT ![e[1]] = e[2]]

\* The call fails, and nothing is known about the document.
InsertFails(e) ==
    /\ Fault
    /\ UNCHANGED mongo
    /\ late' \in {late, late \union {e}}

\* A document that was under way when its caller gave up.
InsertLate(e) ==
    /\ e \in late
    /\ late' = late \ {e}
    /\ IF Stored(e) THEN UNCHANGED mongo ELSE Put(e)
    /\ UNCHANGED <<fileVars, pending, up, pos, hs, owed, acked, countVars>>

-----------------------------------------------------------------------------
(* CreateRecord                                                             *)

Answer(h) == hs' = [hs EXCEPT ![h] = Idle]

\* Append: write the line.
Write(h, e) ==
    /\ up = "serving"
    /\ hs[h].pc = "idle"
    /\ Unlocked
    /\ requests < MaxRequests
    /\ requests' = requests + 1
    /\ file' = Written(e)
    /\ open' = FALSE
    /\ hs' = [hs EXCEPT ![h] = [Idle EXCEPT !.pc = "sync", !.e = e]]
    /\ UNCHANGED <<storeVars, diskVars, pending, up, pos, owed, acked, cuts, crashes, faults>>

\* The write fails, maybe in the middle of the line: 500, nothing is undone.
WriteFails(h, e) ==
    /\ up = "serving"
    /\ hs[h].pc = "idle"
    /\ Unlocked
    /\ requests < MaxRequests
    /\ requests' = requests + 1
    /\ Fault
    /\ \/ UNCHANGED <<file, open, cuts>>
       \/ TornWrites /\ file' \in CutShort(e) /\ open' = TRUE /\ cuts' = cuts + 1
    /\ UNCHANGED <<storeVars, diskVars, pending, up, pos, hs, owed, acked, crashes>>

\* Append: fsync, count the entry.
Sync(h) ==
    /\ hs[h].pc = "sync"
    /\ disk' = file /\ diskOpen' = open
    /\ pending' = pending + 1
    /\ owed' = owed \union {hs[h].e}
    /\ hs' = [hs EXCEPT ![h].pc = "insert"]
    /\ UNCHANGED <<storeVars, file, open, up, pos, acked, countVars>>

\* fsync fails: 500, and the line stays in the file without being counted.
SyncFails(h) ==
    /\ hs[h].pc = "sync"
    /\ Fault
    /\ Answer(h)
    /\ UNCHANGED <<storeVars, fileVars, pending, up, pos, owed, acked, cuts, requests, crashes>>

\* The insert returned res, whatever it is: the entry is owed no longer, unless
\* another handler is inserting the same one.
Inserted(h, res) ==
    /\ hs' = [hs EXCEPT ![h].pc = "confirm", ![h].res = res]
    /\ owed' = IF \E g \in Handlers \ {h} : hs[g].pc = "insert" /\ hs[g].e = hs[h].e
               THEN owed ELSE owed \ {hs[h].e}

Insert(h) ==
    LET e == hs[h].e IN
    /\ hs[h].pc = "insert"
    /\ \/ ~Stored(e) /\ Put(e) /\ Inserted(h, "created") /\ NoFault /\ UNCHANGED late
       \/ Stored(e) /\ Inserted(h, "conflict") /\ NoFault /\ UNCHANGED storeVars
       \/ InsertFails(e) /\ Inserted(h, "error")
    /\ UNCHANGED <<fileVars, pending, up, pos, acked, cuts, requests, crashes>>

Less(n) == IF n > 0 THEN n - 1 ELSE 0

\* Mutant of Confirm: the log is emptied whatever is in flight.
ConfirmEager(h) ==
    /\ hs[h].pc = "confirm"
    /\ Unlocked
    /\ pending' = Less(pending)
    /\ Truncate
    /\ acked' = IF hs[h].res = "created" THEN acked \union {hs[h].e} ELSE acked
    /\ Answer(h)
    /\ UNCHANGED <<storeVars, diskVars, up, pos, owed, cuts, requests, crashes>>

\* Confirm, then the answer of the request.
Confirm(h) ==
    /\ hs[h].pc = "confirm"
    /\ Unlocked
    /\ pending' = Less(pending)
    /\ IF pending' = 0 THEN Truncate ELSE UNCHANGED <<file, open>> /\ NoFault
    /\ acked' = IF hs[h].res = "created" THEN acked \union {hs[h].e} ELSE acked
    /\ Answer(h)
    /\ UNCHANGED <<storeVars, diskVars, up, pos, owed, cuts, requests, crashes>>

-----------------------------------------------------------------------------
(* Crash and recovery                                                       *)

\* The kernel writes back what the process wrote, whenever it likes (bounded: only a
\* power loss reads the disk).
Flush ==
    /\ crashes < MaxCrashes
    /\ diskVars # <<file, open>>
    /\ disk' = file /\ diskOpen' = open
    /\ UNCHANGED <<storeVars, file, open, pending, up, pos, hs, owed, acked, countVars>>

\* What is not on the disk yet was written behind it.
Unflushed ==
    /\ diskVars # <<file, open>> /\ Len(disk) <= Len(file)
    /\ \A i \in 1 .. Len(disk) : file[i] = disk[i] \/ (diskOpen /\ i = Len(disk))

\* The process is killed: what it wrote is in the file.  Or the machine stops: the
\* file is what the disk holds, with a line that was being written back maybe cut.
\* Inserts under way may still be applied.
Crash ==
    /\ up # "down"
    /\ crashes < MaxCrashes
    /\ crashes' = crashes + 1
    /\ \/ UNCHANGED <<fileVars, cuts>>
       \/ file' = disk /\ open' = diskOpen /\ UNCHANGED <<diskVars, cuts>>
       \/ /\ TornWrites /\ Unflushed
          /\ file' = WrittenTo(disk, diskOpen, Corrupt) /\ open' = TRUE
          /\ disk' = file' /\ diskOpen' = TRUE
          /\ cuts' = cuts + 1
    /\ up' = "down" /\ pending' = 0 /\ pos' = 1
    /\ hs' = [h \in Handlers |-> Idle]
    /\ \E sent \in SUBSET {hs[h].e : h \in {g \in Handlers : hs[g].pc = "insert"}} :
          late' = late \union sent
    /\ UNCHANGED <<mongo, owed, acked, requests, faults>>

\* Mutants of Start: the lines of a previous run are not counted, and the first
\* line is number 0.
StartUncounted ==
    /\ up = "down"
    /\ pending' = 0
    /\ pos' = 1
    /\ up' = "replay"
    /\ UNCHANGED <<storeVars, fileVars, hs, owed, acked, countVars>>

StartAtZero ==
    /\ up = "down"
    /\ pending' = Len(file)
    /\ pos' = 0
    /\ up' = "replay"
    /\ UNCHANGED <<storeVars, fileVars, hs, owed, acked, countVars>>

\* wal.New: open the file and count its lines.
Start ==
    /\ up = "down"
    /\ pending' = Len(file)
    /\ pos' = 1
    /\ up' = "replay"
    /\ UNCHANGED <<storeVars, fileVars, hs, owed, acked, countVars>>

\* Recover: skip a line that is not a record.
ReplayCorrupt ==
    /\ up = "replay"
    /\ pos <= Len(file)
    /\ file[pos] = Corrupt
    /\ pos' = pos + 1
    /\ UNCHANGED <<storeVars, fileVars, pending, up, hs, owed, acked, countVars>>

\* Mutants of ReplayInsert: the replay replaces the document, and the replay ends
\* at a document that exists.
ReplayUpsert ==
    /\ up = "replay"
    /\ pos <= Len(file)
    /\ file[pos] # Corrupt
    /\ Put(file[pos])
    /\ pos' = pos + 1
    /\ UNCHANGED <<late, fileVars, pending, up, hs, owed, acked, countVars>>

ReplayPoisoned ==
    /\ up = "replay"
    /\ pos <= Len(file)
    /\ file[pos] # Corrupt
    /\ IF Stored(file[pos])
       THEN up' = "serving" /\ UNCHANGED <<mongo, pos>>
       ELSE Put(file[pos]) /\ pos' = pos + 1 /\ UNCHANGED up
    /\ UNCHANGED <<late, fileVars, pending, hs, owed, acked, countVars>>

\* recoverInsert takes a duplicate for success.
ReplayInsert ==
    /\ up = "replay"
    /\ pos <= Len(file)
    /\ file[pos] # Corrupt
    /\ IF Stored(file[pos]) THEN UNCHANGED mongo ELSE Put(file[pos])
    /\ pos' = pos + 1
    /\ UNCHANGED <<late, fileVars, pending, up, hs, owed, acked, countVars>>

\* Any other error ends the replay; main logs it and serves requests.
ReplayFails ==
    /\ up = "replay"
    /\ pos <= Len(file)
    /\ file[pos] # Corrupt
    /\ InsertFails(file[pos])
    /\ up' = "serving" /\ pos' = 1
    /\ UNCHANGED <<fileVars, pending, hs, owed, acked, cuts, requests, crashes>>

\* The log is replayed: empty it and serve requests.
ReplayDone ==
    /\ up = "replay"
    /\ pos > Len(file)
    /\ Truncate
    /\ pending' = 0
    /\ up' = "serving" /\ pos' = 1
    /\ UNCHANGED <<storeVars, diskVars, hs, owed, acked, cuts, requests, crashes>>

Replay == ReplayCorrupt \/ ReplayInsert \/ ReplayDone

Next ==
    \/ \E h \in Handlers : \/ \E e \in Entries : Write(h, e) \/ WriteFails(h, e)
                           \/ Sync(h) \/ SyncFails(h) \/ Insert(h) \/ Confirm(h)
    \/ \E e \in Entries : InsertLate(e)
    \/ Flush \/ Crash \/ Start \/ Replay \/ ReplayFails

Spec == Init /\ [][Next]_vars

\* The scheduler runs every handler, and the process is started again after a
\* crash (the restart policy of the compose file and of the chart).
Fairness ==
    /\ \A h \in Handlers : WF_vars(Sync(h) \/ Insert(h) \/ Confirm(h))
    /\ WF_vars(Start \/ Replay)

FairSpec == Spec /\ Fairness

-----------------------------------------------------------------------------
(* Properties                                                               *)

InFile(e) == \E i \in 1 .. Len(file) : file[i] = e
OnDisk(e) == \E i \in 1 .. Len(disk) : disk[i] = e
Recoverable(e) == Stored(e) \/ (InFile(e) /\ OnDisk(e))

\* A record that was appended is recoverable until its insert has returned: it
\* is stored, or the file holds it where a kill and a power loss leave it
\* (package wal: "a crash between the two is recoverable").  A truncation by
\* another handler's Confirm, a failed replay and a second crash do not lose it.
OwedIsRecoverable == \A e \in owed : Recoverable(e)

\* Unless lines are cut short OwedIsRecoverable holds, and each cut costs at most
\* one of the records appended after it: the replay goes on behind it.
CutLosesOne == Cardinality({e \in owed : ~Recoverable(e)}) <= cuts

\* A record answered with 201 is in MongoDB with the body it was posted with,
\* although older lines with the same id may be replayed after it.
AckedIsStored == \A e \in acked : mongo[e[1]] = e[2]

\* The counter that allows truncation covers every entry that is not stored and
\* needs the file, those in flight and those a failed replay left behind, as
\* long as no line is cut.
PendingCovers ==
    up = "serving" /\ cuts = 0 =>
        Cardinality({h \in Handlers : hs[h].pc \in {"insert", "confirm"}})
          + Cardinality({e \in owed : ~Stored(e) /\ \A h \in Handlers : hs[h].e # e}) <= pending

\* The entry is in the log of a process that serves, counted, and in no handler.
Retained(e) == up = "serving" /\ pending > 0 /\ InFile(e) /\ \A h \in Handlers : hs[h].e # e

\* A record that was durably appended ends up in MongoDB, even if the process is
\* killed or the machine stops before the insert, and again during the replay.
\* If MongoDB failed the replay it stays in the log for the next start, as long as it
\* takes: the log is never emptied under it, and so it grows until then.
EventuallyStored ==
    \A e \in Entries : e \in owed ~> Stored(e) \/ e \notin owed \/ (Retained(e) /\ faults > 0) \/ cuts > 0
-----------------------------------------------------------------------------
(* Inductive invariants, for the proofs                                     *)

\* A handler that works has an entry, and handlers work while the process serves.
HoldsEntry == \A h \in Handlers : /\ hs[h].pc # "idle" => hs[h].e \in Entries
                                  /\ up # "serving" => hs[h] = Idle

CreatedIsStored ==
    \A h \in Handlers : hs[h].pc = "confirm" /\ hs[h].res = "created" => mongo[hs[h].e[1]] = hs[h].e[2]

\* What the replay has passed is stored.
ReplayedIsStored ==
    up = "replay" => \A i \in 1 .. Len(file) : i < pos /\ file[i] # Corrupt => Stored(file[i])

\* One handler at a time writes, and what it has written is a line of its own or
\* has spoilt the one it was appended to.
Writing(h) == hs[h].pc = "sync"
OneWriter ==
    \A h \in Handlers : Writing(h) => open = FALSE /\ \A g \in Handlers : Writing(g) => g = h

\* The entry has a line that no write can spoil.
Firm(e, lines, isOpen) == \E i \in 1 .. Len(lines) : lines[i] = e /\ ~(isOpen /\ i = Len(lines))

\* A cut whose price is not paid yet: a fragment that the next line will join, or
\* a line that has joined one.
Exposed == open \/ diskOpen \/ \E h \in Handlers : Writing(h) /\ ~InFile(hs[h].e)

\* The handlers whose entries are counted, and the entries that a failed replay
\* has left behind: owed, not stored, and nobody is inserting them.
Active == {h \in Handlers : hs[h].pc \in {"insert", "confirm"}}
Orphans(gone) ==
    {e \in owed \ gone : ~Stored(e) /\ \A h \in Handlers : ~(hs[h].pc = "insert" /\ hs[h].e = e)}

\* gone are the entries that cuts have cost so far; all others are safe and counted.
Paid(gone) == IsFiniteSet(gone) /\ Cardinality(gone) + (IF Exposed THEN 1 ELSE 0) <= cuts
Safe(gone) == \A e \in owed \ gone : Stored(e) \/ (Firm(e, file, open) /\ Firm(e, disk, diskOpen))
Counted(gone) ==
    /\ up = "replay" => pending = Len(file)
    /\ up = "serving" => /\ IsFiniteSet(Active) /\ IsFiniteSet(Orphans(gone))
                         /\ Cardinality(Active) + Cardinality(Orphans(gone)) <= pending

FileInv == \E gone \in SUBSET Entries : Paid(gone) /\ Safe(gone) /\ Counted(gone)

Basics == TypeOK /\ HoldsEntry /\ CreatedIsStored /\ AckedIsStored

WALInv == Basics /\ ReplayedIsStored /\ OneWriter /\ FileInv
==============================================================================
