--------------------------- MODULE RecordWALProofs ----------------------------
(***************************************************************************)
(* The write-ahead log for any number of handlers, records, crashes and    *)
(* errors: an acknowledged record stays stored, and a line that is cut     *)
(* short costs at most one appended record.                                *)
(*                                                                         *)
(* Two arguments meet.  The file is emptied only when the counter is zero, *)
(* and the counter covers the handlers at work and the entries that a      *)
(* failed replay left behind (Counted).  And the records that are gone are *)
(* paid for by cuts (Paid): a fragment spoils the line that joins it, and  *)
(* a line that stands on its own stays (Firm, Safe).                       *)
(***************************************************************************)
EXTENDS RecordWAL, FiniteSetTheorems, SequenceTheorems, TLAPS

USE DEF fileVars, diskVars

-----------------------------------------------------------------------------
(* Types                                                                    *)

LEMMA WrittenTyped ==
    ASSUME NEW lines \in Seq(Lines), NEW isOpen, NEW line \in Lines
    PROVE  WrittenTo(lines, isOpen, line) \in Seq(Lines)
<1>1. Corrupt \in Lines
  BY DEF Lines
<1>2. Append(lines, line) \in Seq(Lines)
  OBVIOUS
<1>3. [lines EXCEPT ![Len(lines)] = Corrupt] \in Seq(Lines)
  <2>1. CASE Len(lines) \in 1 .. Len(lines)
    BY <1>1, <2>1, ExceptSeq
  <2>2. CASE Len(lines) \notin 1 .. Len(lines)
    <3>1. lines = <<>>
      BY <2>2
    <3>2. [lines EXCEPT ![Len(lines)] = Corrupt] = lines
      BY <3>1
    <3> QED
      BY <3>2
  <2> QED
    BY <2>1, <2>2
<1> QED
  BY <1>2, <1>3 DEF WrittenTo

LEMMA PutTyped ==
    ASSUME TypeOK, NEW e \in Entries, Put(e)
    PROVE  mongo' \in [Ids -> Bodies \union {NoBody}]
  BY DEF TypeOK, Entries, Put

LEMMA TruncateMoves ==
    ASSUME TypeOK, Truncate
    PROVE  file' \in Seq(Lines) /\ faults' \in Nat
<1>1. file' = <<>> \/ file' = file
  BY DEF Truncate
<1>2. faults' = faults \/ faults' = faults + 1
  BY DEF Truncate, Fault, NoFault
<1>3. file \in Seq(Lines) /\ <<>> \in Seq(Lines)
  BY DEF TypeOK
<1>4. faults \in Nat
  BY DEF TypeOK
<1>5. file' \in Seq(Lines)
  BY <1>1, <1>3
<1>6. faults' \in Nat
  BY <1>2, <1>4
<1> QED
  BY <1>5, <1>6

LEMMA HandlersTyped ==
    /\ Idle \in Handler
    /\ \A e \in Entries : [Idle EXCEPT !.pc = "sync", !.e = e] \in Handler
    /\ \A r \in Handler : [r EXCEPT !.pc = "insert"] \in Handler
    /\ \A r \in Handler, res \in {"created", "conflict", "error"} :
          [r EXCEPT !.pc = "confirm", !.res = res] \in Handler
  BY DEF Idle, Handler, NoEntry

LEMMA HandlerMoves ==
    ASSUME TypeOK, NEW h \in Handlers, NEW r \in Handler, hs' = [hs EXCEPT ![h] = r]
    PROVE  hs' \in [Handlers -> Handler]
  BY DEF TypeOK

LEMMA InsertedMoves ==
    ASSUME TypeOK, NEW h \in Handlers, NEW res \in {"created", "conflict", "error"}, Inserted(h, res)
    PROVE  /\ hs' = [hs EXCEPT ![h] = [hs[h] EXCEPT !.pc = "confirm", !.res = res]]
           /\ hs' \in [Handlers -> Handler]
           /\ owed' \subseteq owed
<1>1. hs' = [hs EXCEPT ![h] = [hs[h] EXCEPT !.pc = "confirm", !.res = res]]
  BY DEF Inserted, TypeOK
<1>2. hs[h] \in Handler
  BY DEF TypeOK
<1> QED
  BY <1>1, <1>2, HandlersTyped, HandlerMoves DEF Inserted

LEMMA Init_TypeOK == ASSUME Init PROVE TypeOK /\ HoldsEntry
<1>1. hs \in [Handlers -> Handler]
  BY HandlersTyped DEF Init
<1>2. file \in Seq(Lines) /\ disk \in Seq(Lines) /\ mongo \in [Ids -> Bodies \union {NoBody}]
  BY DEF Init
<1>3. open \in BOOLEAN /\ diskOpen \in BOOLEAN
  BY DEF Init
<1>4. /\ late \subseteq Entries /\ owed \subseteq Entries /\ acked \subseteq Entries
      /\ pending \in Nat /\ up \in {"down", "replay", "serving"} /\ pos \in Nat \ {0}
      /\ cuts \in Nat /\ requests \in Nat /\ crashes \in Nat /\ faults \in Nat
  BY DEF Init
<1>5. HoldsEntry
  BY DEF Init, HoldsEntry, Idle
<1> QED
  BY <1>1, <1>2, <1>3, <1>4, <1>5 DEF TypeOK

\* Steps of the requests keep the types.
LEMMA RequestTyped ==
    ASSUME TypeOK, HoldsEntry, NEW h \in Handlers, NEW e \in Entries,
           Write(h, e) \/ WriteFails(h, e) \/ Sync(h) \/ SyncFails(h) \/ Insert(h) \/ Confirm(h)
    PROVE  TypeOK'
<1>1. CASE Write(h, e)
  <2>1. file' \in Seq(Lines)
    BY <1>1, WrittenTyped DEF Write, Written, Lines, TypeOK
  <2>2. hs' \in [Handlers -> Handler]
    BY <1>1, HandlersTyped, HandlerMoves DEF Write
  <2>3. open' \in BOOLEAN
    BY <1>1 DEF Write
  <2> QED
    BY <1>1, <2>1, <2>2, <2>3 DEF Write, TypeOK, storeVars
<1>2. CASE WriteFails(h, e)
  <2>1. file' \in Seq(Lines)
    <3>1. file \in Seq(Lines) /\ Corrupt \in Lines /\ e \in Lines
      BY DEF TypeOK, Lines
    <3>2. Written(Corrupt) \in Seq(Lines) /\ Written(e) \in Seq(Lines)
      BY <3>1, WrittenTyped DEF Written
    <3> QED
      BY <1>2, <3>1, <3>2 DEF WriteFails, CutShort
  <2>2. open' \in BOOLEAN
    BY <1>2 DEF WriteFails, TypeOK
  <2>3. cuts' \in Nat /\ faults' \in Nat /\ requests' \in Nat
    BY <1>2 DEF WriteFails, Fault, TypeOK
  <2> QED
    BY <1>2, <2>1, <2>2, <2>3 DEF WriteFails, TypeOK, storeVars
<1>3. CASE Sync(h)
  <2>1. hs' = [hs EXCEPT ![h] = [hs[h] EXCEPT !.pc = "insert"]] /\ hs[h] \in Handler
    BY <1>3 DEF Sync, TypeOK
  <2>2. hs' \in [Handlers -> Handler]
    BY <2>1, HandlersTyped, HandlerMoves
  <2>3. hs[h].e \in Entries
    BY <1>3 DEF Sync, HoldsEntry
  <2>4. open' \in BOOLEAN
    BY <1>3 DEF Sync, TypeOK
  <2> QED
    BY <1>3, <2>2, <2>3, <2>4 DEF Sync, TypeOK, storeVars, countVars
<1>4. CASE SyncFails(h)
  <2>1. hs' \in [Handlers -> Handler]
    BY <1>4, HandlersTyped, HandlerMoves DEF SyncFails, Answer
  <2>2. open' \in BOOLEAN
    BY <1>4 DEF SyncFails, fileVars, TypeOK
  <2> QED
    BY <1>4, <2>1, <2>2 DEF SyncFails, Fault, TypeOK, storeVars, fileVars
<1>5. CASE Insert(h)
  <2>1. hs[h].e \in Entries
    BY <1>5 DEF Insert, HoldsEntry
  <2>2. mongo' \in [Ids -> Bodies \union {NoBody}]
    BY <1>5, <2>1, PutTyped DEF Insert, InsertFails, TypeOK, storeVars
  <2>3. late' \subseteq Entries /\ faults' \in Nat
    BY <1>5, <2>1 DEF Insert, InsertFails, NoFault, Fault, TypeOK, storeVars
  <2>4. \E res \in {"created", "conflict", "error"} : Inserted(h, res)
    BY <1>5 DEF Insert
  <2>5. hs' \in [Handlers -> Handler] /\ owed' \subseteq Entries
    BY <2>4, InsertedMoves DEF TypeOK
  <2>6. open' \in BOOLEAN
    BY <1>5 DEF Insert, fileVars, TypeOK
  <2> QED
    BY <1>5, <2>2, <2>3, <2>5, <2>6 DEF Insert, TypeOK, fileVars
<1>6. CASE Confirm(h)
  <2>1. hs[h].e \in Entries
    BY <1>6 DEF Confirm, HoldsEntry
  <2>2. pending' \in Nat
    BY <1>6 DEF Confirm, Less, TypeOK
  <2>3. file' \in Seq(Lines) /\ faults' \in Nat
    BY <1>6, TruncateMoves DEF Confirm, NoFault, TypeOK
  <2>4. open' \in BOOLEAN
    BY <1>6 DEF Confirm, Truncate, TypeOK
  <2>5. hs' \in [Handlers -> Handler]
    BY <1>6, HandlersTyped, HandlerMoves DEF Confirm, Answer
  <2> QED
    BY <1>6, <2>1, <2>2, <2>3, <2>4, <2>5 DEF Confirm, TypeOK, storeVars
<1> QED
  BY <1>1, <1>2, <1>3, <1>4, <1>5, <1>6

LEMMA CrashTyped == ASSUME TypeOK, HoldsEntry, Crash PROVE TypeOK'
<1>1. Corrupt \in Lines
  BY DEF Lines
<1>2. file' \in Seq(Lines) /\ disk' \in Seq(Lines) /\ cuts' \in Nat
  <2>1. file \in Seq(Lines) /\ disk \in Seq(Lines) /\ WrittenTo(disk, diskOpen, Corrupt) \in Seq(Lines)
    BY <1>1, WrittenTyped DEF TypeOK
  <2>2. cuts \in Nat
    BY DEF TypeOK
  <2>3. CASE UNCHANGED <<file, disk, cuts>>
    BY <2>1, <2>2, <2>3
  <2>4. CASE file' = disk /\ UNCHANGED <<disk, cuts>>
    BY <2>1, <2>2, <2>4
  <2>5. CASE file' = WrittenTo(disk, diskOpen, Corrupt) /\ disk' = file' /\ cuts' = cuts + 1
    BY <2>1, <2>2, <2>5
  <2> QED
    BY <2>3, <2>4, <2>5 DEF Crash
<1>5. open' \in BOOLEAN /\ diskOpen' \in BOOLEAN
  BY DEF Crash, TypeOK
<1>3. late' \subseteq Entries
  <2>1. PICK sent \in SUBSET {hs[h].e : h \in {g \in Handlers : hs[g].pc = "insert"}} : late' = late \union sent
    BY DEF Crash
  <2>2. \A h \in Handlers : hs[h].pc = "insert" => hs[h].e \in Entries
    BY DEF HoldsEntry
  <2> QED
    BY <2>1, <2>2 DEF TypeOK
<1>4. hs' \in [Handlers -> Handler]
  BY HandlersTyped DEF Crash
<1> QED
  BY <1>2, <1>3, <1>4, <1>5 DEF Crash, TypeOK

LEMMA RecoveryTyped ==
    ASSUME TypeOK, HoldsEntry, Flush \/ Start \/ Replay \/ ReplayFails \/ \E e \in Entries : InsertLate(e)
    PROVE  TypeOK'
<1>1. CASE Start
  BY <1>1 DEF Start, TypeOK, storeVars, fileVars, countVars
<1>2. CASE ReplayCorrupt
  BY <1>2 DEF ReplayCorrupt, TypeOK, storeVars, fileVars, countVars
<1>3. ASSUME up = "replay", pos <= Len(file), file[pos] # Corrupt PROVE file[pos] \in Entries
  BY <1>3 DEF TypeOK, Lines
<1>4. CASE ReplayInsert
  <2>1. mongo' \in [Ids -> Bodies \union {NoBody}]
    BY <1>3, <1>4, PutTyped DEF ReplayInsert, TypeOK
  <2> QED
    BY <1>4, <2>1 DEF ReplayInsert, TypeOK, fileVars, countVars
<1>5. CASE ReplayDone
  <2>1. open' \in BOOLEAN
    BY <1>5 DEF ReplayDone, Truncate, TypeOK
  <2> QED
    BY <1>5, <2>1, TruncateMoves DEF ReplayDone, TypeOK, storeVars
<1>6. CASE ReplayFails
  <2>1. file[pos] \in Entries
    BY <1>3, <1>6 DEF ReplayFails
  <2> QED
    BY <1>6, <2>1 DEF ReplayFails, InsertFails, Fault, TypeOK, fileVars
<1>7. ASSUME NEW e \in Entries, InsertLate(e) PROVE TypeOK'
  <2>1. mongo' \in [Ids -> Bodies \union {NoBody}]
    BY <1>7, PutTyped DEF InsertLate, TypeOK
  <2> QED
    BY <1>7, <2>1 DEF InsertLate, TypeOK, fileVars, countVars
<1>8. CASE Flush
  BY <1>8 DEF Flush, TypeOK, storeVars, countVars
<1> QED
  BY <1>1, <1>2, <1>4, <1>5, <1>6, <1>7, <1>8 DEF Replay

LEMMA HoldsStep == ASSUME TypeOK, HoldsEntry, [Next]_vars PROVE HoldsEntry'
<1> USE DEF HoldsEntry, Idle
<1>1. ASSUME NEW h \in Handlers, NEW e \in Entries, Write(h, e) PROVE HoldsEntry'
  BY <1>1 DEF Write, TypeOK
<1>2. ASSUME NEW h \in Handlers, NEW e \in Entries, WriteFails(h, e) PROVE HoldsEntry'
  <2>1. hs' = hs /\ up' = up
    BY <1>2 DEF WriteFails
  <2> QED
    BY <2>1
<1>3. ASSUME NEW h \in Handlers, Sync(h) PROVE HoldsEntry'
  <2>1. hs[h].pc = "sync" /\ up' = up /\ hs' = [hs EXCEPT ![h].pc = "insert"]
    BY <1>3 DEF Sync
  <2>2. \A g \in Handlers : hs'[g].e = hs[g].e /\ (g # h => hs'[g] = hs[g])
    BY <2>1 DEF TypeOK
  <2>3. up = "serving"
    BY <2>1
  <2> QED
    BY <2>1, <2>2, <2>3
<1>9. ASSUME NEW h \in Handlers, Answer(h), up' = up PROVE HoldsEntry'
  <2>1. \A g \in Handlers : hs'[g] = Idle \/ hs'[g] = hs[g]
    BY <1>9 DEF Answer, TypeOK
  <2>2. Idle.pc = "idle"
    OBVIOUS
  <2> QED
    BY <1>9, <2>1, <2>2
<1>4. ASSUME NEW h \in Handlers, Insert(h) PROVE HoldsEntry'
  <2>1. PICK res \in {"created", "conflict", "error"} : Inserted(h, res)
    BY <1>4 DEF Insert
  <2>2. hs' = [hs EXCEPT ![h] = [hs[h] EXCEPT !.pc = "confirm", !.res = res]]
    BY <2>1, InsertedMoves
  <2>3. \A g \in Handlers : hs'[g].e = hs[g].e /\ (g # h => hs'[g] = hs[g])
    BY <2>2 DEF TypeOK
  <2>4. hs[h].pc = "insert" /\ up' = up
    BY <1>4 DEF Insert
  <2> QED
    BY <2>3, <2>4
<1>5. ASSUME NEW h \in Handlers, SyncFails(h) \/ Confirm(h) PROVE HoldsEntry'
  BY <1>5, <1>9 DEF SyncFails, Confirm
<1>6. CASE Crash
  BY <1>6 DEF Crash
<1>7. CASE Flush \/ Start \/ Replay \/ ReplayFails
  BY <1>7 DEF Flush, Start, Replay, ReplayCorrupt, ReplayInsert, ReplayDone, ReplayFails
<1>8. CASE (\E e \in Entries : InsertLate(e)) \/ UNCHANGED vars
  BY <1>8 DEF InsertLate, vars
<1> QED
  BY <1>1, <1>2, <1>3, <1>4, <1>5, <1>6, <1>7, <1>8 DEF Next

LEMMA TypeStep == ASSUME TypeOK, HoldsEntry, [Next]_vars PROVE TypeOK'
<1>1. ASSUME UNCHANGED vars PROVE TypeOK'
  BY <1>1 DEF vars, TypeOK
<1>2. ASSUME NEW h \in Handlers, Sync(h) \/ SyncFails(h) \/ Insert(h) \/ Confirm(h)
      PROVE  TypeOK'
  <2>1. hs[h].e \in Entries
    BY <1>2 DEF Sync, SyncFails, Insert, Confirm, HoldsEntry
  <2> QED
    BY <1>2, <2>1, RequestTyped
<1>3. ASSUME NEW h \in Handlers, NEW e \in Entries, Write(h, e) \/ WriteFails(h, e)
      PROVE  TypeOK'
  BY <1>3, RequestTyped
<1> QED
  BY <1>1, <1>2, <1>3, CrashTyped, RecoveryTyped DEF Next

\* Type correctness: TypeOK is an invariant of the create path and its recovery.
THEOREM TypeCorrect == Spec => []TypeOK
<1>1. TypeOK /\ HoldsEntry /\ [Next]_vars => (TypeOK /\ HoldsEntry)'
  BY TypeStep, HoldsStep
<1>2. Spec => [](TypeOK /\ HoldsEntry)
  BY <1>1, Init_TypeOK, PTL DEF Spec
<1> QED
  BY <1>2, PTL

-----------------------------------------------------------------------------
(* What is stored stays stored                                              *)

\* A step puts a document only under an id that has none.
LEMMA PutsOnce ==
    ASSUME TypeOK, HoldsEntry, [Next]_vars
    PROVE  mongo' = mongo \/ \E e \in Entries : ~Stored(e) /\ Put(e)
<1> DEFINE Puts == mongo' = mongo \/ \E e \in Entries : ~Stored(e) /\ Put(e)
<1>1. ASSUME NEW h \in Handlers, Insert(h) PROVE Puts
  <2>1. hs[h].e \in Entries
    BY <1>1 DEF Insert, HoldsEntry
  <2> QED
    BY <1>1, <2>1 DEF Insert, InsertFails, storeVars
<1>2. ASSUME ReplayInsert PROVE Puts
  <2>1. file[pos] \in Entries
    BY <1>2 DEF ReplayInsert, TypeOK, Lines
  <2> QED
    BY <1>2, <2>1 DEF ReplayInsert
<1>3. ASSUME NEW e \in Entries, InsertLate(e) PROVE Puts
  BY <1>3 DEF InsertLate
<1>4. ASSUME NEW h \in Handlers, NEW e \in Entries,
             Write(h, e) \/ WriteFails(h, e) \/ Sync(h) \/ SyncFails(h) \/ Confirm(h)
      PROVE  Puts
  BY <1>4 DEF Write, WriteFails, Sync, SyncFails, Confirm, storeVars
<1>5. ASSUME Flush \/ Crash \/ Start \/ ReplayCorrupt \/ ReplayDone \/ ReplayFails \/ UNCHANGED vars PROVE Puts
  BY <1>5 DEF Flush, Crash, Start, ReplayCorrupt, ReplayDone, ReplayFails, InsertFails, storeVars, vars
<1>6. ASSUME NEW h \in Handlers, Sync(h) \/ SyncFails(h) \/ Confirm(h) PROVE Puts
  BY <1>6 DEF Sync, SyncFails, Confirm, storeVars
<1> HIDE DEF Puts
<1>7. Puts
  BY <1>1, <1>2, <1>3, <1>4, <1>5, <1>6 DEF Next, Replay
<1> QED
  BY <1>7 DEF Puts

LEMMA StoredStays ==
    ASSUME TypeOK, HoldsEntry, [Next]_vars, NEW i \in Ids, mongo[i] # NoBody
    PROVE  mongo'[i] = mongo[i]
<1>1. ASSUME NEW e \in Entries, ~Stored(e), Put(e) PROVE mongo'[i] = mongo[i]
  <2>1. e[1] # i
    BY <1>1 DEF Stored
  <2> QED
    BY <1>1, <2>1 DEF Put, TypeOK
<1> QED
  BY <1>1, PutsOnce

LEMMA EntryParts == ASSUME NEW e \in Entries PROVE e[1] \in Ids /\ e[2] \in Bodies /\ e[2] # NoBody
  BY SentinelAssumption DEF Entries

\* A handler that is about to answer 201 has just stored its record.
LEMMA CreatedStep ==
    ASSUME TypeOK, HoldsEntry, CreatedIsStored, [Next]_vars
    PROVE  CreatedIsStored'
<1> SUFFICES ASSUME NEW h \in Handlers, hs'[h].pc = "confirm", hs'[h].res = "created"
             PROVE  mongo'[hs'[h].e[1]] = hs'[h].e[2]
  BY DEF CreatedIsStored
<1>1. ASSUME hs'[h] = hs[h] PROVE mongo'[hs'[h].e[1]] = hs'[h].e[2]
  <2>1. hs[h].e \in Entries /\ mongo[hs[h].e[1]] = hs[h].e[2]
    BY <1>1 DEF HoldsEntry, CreatedIsStored
  <2>2. mongo'[hs[h].e[1]] = mongo[hs[h].e[1]]
    BY <2>1, EntryParts, StoredStays
  <2> QED
    BY <1>1, <2>1, <2>2
<1>2. ASSUME NEW g \in Handlers, Insert(g) PROVE mongo'[hs'[h].e[1]] = hs'[h].e[2]
  <2>1. PICK res \in {"created", "conflict", "error"} : Inserted(g, res) /\ (res = "created" => Put(hs[g].e))
    BY <1>2 DEF Insert
  <2>2. hs' = [hs EXCEPT ![g] = [hs[g] EXCEPT !.pc = "confirm", !.res = res]]
    BY <2>1, InsertedMoves
  <2>3. CASE h # g
    <3>1. hs'[h] = hs[h]
      BY <2>2, <2>3 DEF TypeOK
    <3> QED
      BY <1>1, <3>1
  <2>4. CASE h = g
    <3>1. hs'[h] = [hs[g] EXCEPT !.pc = "confirm", !.res = res]
      BY <2>2, <2>4 DEF TypeOK
    <3>2. hs'[h].e = hs[g].e /\ hs'[h].res = res
      <4>1. hs[g] \in Handler
        BY DEF TypeOK
      <4> QED
        BY <3>1, <4>1 DEF Handler
    <3>3. hs[g].e \in Entries
      BY <1>2 DEF Insert, HoldsEntry
    <3>4. Put(hs[g].e)
      BY <2>1, <3>2
    <3> QED
      BY <3>2, <3>3, <3>4, EntryParts DEF Put, TypeOK
  <2> QED
    BY <2>3, <2>4
<1>3. ASSUME NEW g \in Handlers, NEW e, hs' = [hs EXCEPT ![g] = [Idle EXCEPT !.pc = "sync", !.e = e]]
      PROVE  hs'[h] = hs[h]
  <2>1. h # g
    BY <1>3 DEF Idle, TypeOK
  <2> QED
    BY <1>3, <2>1 DEF TypeOK
<1>4. ASSUME NEW g \in Handlers, Answer(g) PROVE hs'[h] = hs[h]
  <2>1. h # g
    BY <1>4 DEF Answer, Idle, TypeOK
  <2> QED
    BY <1>4, <2>1 DEF Answer, TypeOK
<1>5. ASSUME NEW g \in Handlers, Sync(g) PROVE hs'[h] = hs[h]
  <2>1. hs' = [hs EXCEPT ![g].pc = "insert"]
    BY <1>5 DEF Sync
  <2>2. h # g
    BY <2>1 DEF TypeOK
  <2> QED
    BY <2>1, <2>2 DEF TypeOK
<1>6. ~Crash
  BY DEF Crash, Idle
<1>7. ASSUME Flush \/ Start \/ Replay \/ ReplayFails \/ (\E e \in Entries : InsertLate(e)) \/ UNCHANGED vars
      PROVE  hs' = hs
  BY <1>7 DEF Flush, Start, Replay, ReplayCorrupt, ReplayInsert, ReplayDone, ReplayFails, InsertLate, vars
<1>8. ASSUME NEW g \in Handlers, NEW e \in Entries, Write(g, e) \/ WriteFails(g, e)
      PROVE  hs'[h] = hs[h]
  BY <1>3, <1>8 DEF Write, WriteFails
<1>9. ASSUME NEW g \in Handlers, SyncFails(g) \/ Confirm(g) PROVE hs'[h] = hs[h]
  BY <1>4, <1>9 DEF SyncFails, Confirm
<1> QED
  BY <1>1, <1>2, <1>5, <1>6, <1>7, <1>8, <1>9 DEF Next

LEMMA AckedStep ==
    ASSUME TypeOK, HoldsEntry, CreatedIsStored, AckedIsStored, [Next]_vars
    PROVE  AckedIsStored'
<1> SUFFICES ASSUME NEW e \in acked' PROVE mongo'[e[1]] = e[2]
  BY DEF AckedIsStored
<1>1. e \in Entries /\ mongo[e[1]] = e[2]
  <2>1. CASE e \in acked
    BY <2>1 DEF AckedIsStored, TypeOK
  <2>2. ASSUME NEW h \in Handlers, Confirm(h), e \notin acked PROVE e \in Entries /\ mongo[e[1]] = e[2]
    <3>1. e = hs[h].e /\ hs[h].pc = "confirm" /\ hs[h].res = "created"
      BY <2>2 DEF Confirm
    <3> QED
      BY <3>1 DEF CreatedIsStored, HoldsEntry
  <2>3. ASSUME acked' # acked PROVE \E h \in Handlers : Confirm(h)
    BY <2>3 DEF Next, Write, WriteFails, Sync, SyncFails, Insert, InsertLate, Flush, Crash, Start,
                Replay, ReplayCorrupt, ReplayInsert, ReplayDone, ReplayFails, vars
  <2> QED
    BY <2>1, <2>2, <2>3
<1>2. mongo'[e[1]] = mongo[e[1]]
  BY <1>1, EntryParts, StoredStays
<1> QED
  BY <1>1, <1>2

LEMMA BasicsInvariant == Spec => []Basics
<1>1. ASSUME Init PROVE Basics
  <2>1. CreatedIsStored
    BY <1>1 DEF Init, CreatedIsStored, Idle
  <2>2. AckedIsStored
    BY <1>1 DEF Init, AckedIsStored
  <2> QED
    BY <1>1, <2>1, <2>2, Init_TypeOK DEF Basics
<1>2. Basics /\ [Next]_vars => Basics'
  BY TypeStep, HoldsStep, CreatedStep, AckedStep DEF Basics
<1> QED
  BY <1>1, <1>2, PTL DEF Spec

\* A record that was answered with 201 stays in MongoDB with its body, whatever
\* is replayed, retried or applied late (AckedIsStored).
THEOREM AcknowledgedIsStored == Spec => []AckedIsStored
<1>1. Basics => AckedIsStored
  BY DEF Basics
<1> QED
  BY <1>1, BasicsInvariant, PTL

\* Only a process that serves has handlers at work.
LEMMA WorkIsServing ==
    ASSUME HoldsEntry, NEW h \in Handlers, hs[h].pc # "idle"
    PROVE  up = "serving"
  BY DEF HoldsEntry, Idle

\* During a replay the file stays, and so do the lines that were passed.
LEMMA ReplayedStep ==
    ASSUME TypeOK, HoldsEntry, ReplayedIsStored, [Next]_vars
    PROVE  ReplayedIsStored'
<1> SUFFICES ASSUME up' = "replay", NEW i \in 1 .. Len(file'), i < pos', file'[i] # Corrupt
             PROVE  mongo'[file'[i][1]] # NoBody
  BY DEF ReplayedIsStored, Stored
<1>1. ASSUME NEW e \in Entries, Stored(e) PROVE mongo'[e[1]] # NoBody
  BY <1>1, EntryParts, StoredStays DEF Stored
<1>2. ASSUME up = "replay", file' = file, i < pos PROVE mongo'[file'[i][1]] # NoBody
  <2>1. file[i] \in Entries
    BY <1>2 DEF TypeOK, Lines
  <2>2. Stored(file[i])
    BY <1>2 DEF ReplayedIsStored
  <2> QED
    BY <1>1, <1>2, <2>1, <2>2
<1>3. CASE Start
  <2>1. pos' = 1
    BY <1>3 DEF Start
  <2> QED
    BY <2>1
<1>4. CASE ReplayCorrupt
  <2>1. up = "replay" /\ file' = file /\ pos' = pos + 1 /\ file[pos] = Corrupt
    BY <1>4 DEF ReplayCorrupt, fileVars
  <2>2. i < pos
    BY <2>1 DEF TypeOK
  <2> QED
    BY <1>2, <2>1, <2>2
<1>5. CASE ReplayInsert
  <2>1. up = "replay" /\ file' = file /\ pos' = pos + 1
    BY <1>5 DEF ReplayInsert, fileVars
  <2>2. CASE i < pos
    BY <1>2, <2>1, <2>2
  <2>3. CASE i = pos
    <3>1. file[pos] \in Entries
      BY <1>5 DEF ReplayInsert, TypeOK, Lines
    <3> QED
      BY <1>1, <1>5, <2>1, <2>3, <3>1, EntryParts DEF ReplayInsert, Put, Stored, TypeOK
  <2> QED
    BY <2>1, <2>2, <2>3 DEF TypeOK
<1>6. CASE Flush \/ (\E e \in Entries : InsertLate(e)) \/ UNCHANGED vars
  <2>1. up = "replay" /\ file' = file /\ pos' = pos
    BY <1>6 DEF Flush, InsertLate, vars
  <2> QED
    BY <1>2, <2>1
<1>7. ASSUME NEW h \in Handlers, Sync(h) \/ SyncFails(h) \/ Insert(h) \/ Confirm(h) PROVE FALSE
  BY <1>7, WorkIsServing DEF Sync, SyncFails, Insert, Confirm
<1>8. ASSUME NEW h \in Handlers, NEW e \in Entries, Write(h, e) \/ WriteFails(h, e) PROVE FALSE
  BY <1>8 DEF Write, WriteFails
<1>9. ~Crash /\ ~ReplayDone /\ ~ReplayFails
  BY DEF Crash, ReplayDone, ReplayFails
<1> QED
  BY <1>3, <1>4, <1>5, <1>6, <1>7, <1>8, <1>9 DEF Next, Replay

-----------------------------------------------------------------------------
(* Lines                                                                    *)

\* A firm line stays firm whatever is written behind it.
LEMMA FirmWritten ==
    ASSUME NEW lines \in Seq(Lines), NEW isOpen, NEW line, NEW e, Firm(e, lines, isOpen), NEW isOpen2
    PROVE  Firm(e, WrittenTo(lines, isOpen, line), isOpen2)
<1> DEFINE n == Len(lines)
           w == WrittenTo(lines, isOpen, line)
<1>1. PICK i \in 1 .. n : lines[i] = e /\ ~(isOpen /\ i = n)
  BY DEF Firm
<1>2. CASE isOpen
  <2>1. w = [lines EXCEPT ![n] = Corrupt] /\ i # n
    BY <1>1, <1>2 DEF WrittenTo
  <2>2. Len(w) = n /\ w[i] = e
    BY <1>1, <2>1
  <2> QED
    BY <1>1, <2>1, <2>2 DEF Firm
<1>3. CASE ~isOpen
  <2>1. w = Append(lines, line)
    BY <1>3 DEF WrittenTo
  <2>2. Len(w) = n + 1 /\ w[i] = e /\ i \in 1 .. n + 1 /\ i # n + 1
    BY <1>1, <2>1
  <2> QED
    BY <2>2 DEF Firm
<1> QED
  BY <1>2, <1>3

\* A line that does not join a fragment is firm.
LEMMA FirmAppended ==
    ASSUME NEW lines \in Seq(Lines), NEW e
    PROVE  Firm(e, WrittenTo(lines, FALSE, e), FALSE)
<1>1. WrittenTo(lines, FALSE, e) = Append(lines, e)
  BY DEF WrittenTo
<1>2. Len(Append(lines, e)) = Len(lines) + 1 /\ Append(lines, e)[Len(lines) + 1] = e
  OBVIOUS
<1>3. Len(lines) + 1 \in 1 .. Len(lines) + 1
  OBVIOUS
<1> QED
  BY <1>1, <1>2, <1>3 DEF Firm

\* Entries that are all in the file are not more than its lines.
LEMMA LinesBound ==
    ASSUME TypeOK, NEW S, \A e \in S : InFile(e)
    PROVE  IsFiniteSet(S) /\ Cardinality(S) <= Len(file)
<1> DEFINE n == Len(file)
           T == {file[i] : i \in 1 .. n}
           f == [i \in 1 .. n |-> file[i]]
<1>1. n \in Nat
  BY DEF TypeOK
<1>2. f \in Surjection(1 .. n, T)
  BY DEF Surjection
<1>3. ExistsSurjection(1 .. n, T)
  BY <1>2 DEF ExistsSurjection
<1>4. S \in SUBSET T
  BY DEF InFile
<1> HIDE DEF n, T, f
<1>5. IsFiniteSet(T) /\ Cardinality(T) <= n
  BY <1>1, <1>3, FS_NatSurjection, FS_SurjCardinalityBound
<1>6. IsFiniteSet(S) /\ Cardinality(S) <= Cardinality(T)
  BY <1>4, <1>5, FS_Subset
<1>7. Cardinality(S) \in Nat /\ Cardinality(T) \in Nat
  BY <1>5, <1>6, FS_CardinalityType
<1>8. Cardinality(S) <= n
  BY <1>1, <1>5, <1>6, <1>7
<1> QED
  BY <1>6, <1>8 DEF n

-----------------------------------------------------------------------------
(* The counter                                                              *)

Covers(A, O, n) == IsFiniteSet(A) /\ IsFiniteSet(O) /\ Cardinality(A) + Cardinality(O) <= n

LEMMA CoversFewer ==
    ASSUME NEW A, NEW O, NEW P \in SUBSET O, NEW n \in Nat, Covers(A, O, n)
    PROVE  Covers(A, P, n)
<1>1. IsFiniteSet(P) /\ Cardinality(P) <= Cardinality(O)
  BY FS_Subset DEF Covers
<1>2. Cardinality(P) \in Nat /\ Cardinality(O) \in Nat /\ Cardinality(A) \in Nat
  BY <1>1, FS_CardinalityType DEF Covers
<1> QED
  BY <1>1, <1>2 DEF Covers

\* One more handler, and one more in the counter.
LEMMA CoversMore ==
    ASSUME NEW A, NEW O, NEW P \in SUBSET O, NEW n \in Nat, Covers(A, O, n), NEW h, h \notin A
    PROVE  Covers(A \union {h}, P, n + 1)
<1>1. Covers(A, P, n)
  BY CoversFewer
<1>2. IsFiniteSet(A \union {h}) /\ Cardinality(A \union {h}) = Cardinality(A) + 1
  BY FS_AddElement DEF Covers
<1>3. Cardinality(A) \in Nat /\ Cardinality(P) \in Nat
  BY <1>1, FS_CardinalityType DEF Covers
<1> QED
  BY <1>1, <1>2, <1>3 DEF Covers

\* One handler less: the counter was not zero.
LEMMA CoversLess ==
    ASSUME NEW A, NEW O, NEW P \in SUBSET O, NEW n \in Nat, Covers(A, O, n), NEW h, h \in A
    PROVE  Covers(A \ {h}, P, Less(n)) /\ n >= 1 /\ (n = 1 => A = {h} /\ O = {})
<1>1. Covers(A, P, n)
  BY CoversFewer
<1>2. IsFiniteSet(A \ {h}) /\ Cardinality(A \ {h}) = Cardinality(A) - 1
  BY FS_RemoveElement DEF Covers
<1>3. Cardinality(A) \in Nat /\ Cardinality(A \ {h}) \in Nat /\ Cardinality(P) \in Nat /\ Cardinality(O) \in Nat
  BY <1>1, <1>2, FS_CardinalityType DEF Covers
<1>4. n >= 1 /\ Cardinality(A \ {h}) + Cardinality(P) <= Less(n)
  BY <1>1, <1>2, <1>3 DEF Covers, Less
<1>5. n = 1 => Cardinality(A \ {h}) = 0 /\ Cardinality(O) = 0
  BY <1>2, <1>3 DEF Covers
<1>6. n = 1 => A \ {h} = {} /\ O = {}
  BY <1>2, <1>5, FS_EmptySet DEF Covers
<1> QED
  BY <1>1, <1>2, <1>4, <1>6 DEF Covers

-----------------------------------------------------------------------------
(* What a step may change                                                   *)

Kept(gone) == Paid(gone) /\ Safe(gone) /\ Counted(gone)

\* The price of the cuts: it is the same if nothing new is exposed, covers a new
\* cut, and is paid by a record that is lost.
LEMMA PaidKept ==
    ASSUME TypeOK, NEW gone, Paid(gone), cuts' = cuts, Exposed' => Exposed
    PROVE  Paid(gone)'
<1>1. Cardinality(gone) \in Nat /\ cuts \in Nat
  BY FS_CardinalityType DEF Paid, TypeOK
<1> QED
  BY <1>1 DEF Paid

LEMMA PaidCut ==
    ASSUME TypeOK, NEW gone, Paid(gone), cuts' = cuts + 1
    PROVE  Paid(gone)'
<1>1. Cardinality(gone) \in Nat /\ cuts \in Nat
  BY FS_CardinalityType DEF Paid, TypeOK
<1>2. Cardinality(gone) <= cuts /\ IsFiniteSet(gone)
  BY <1>1 DEF Paid
<1> QED
  BY <1>1, <1>2 DEF Paid

LEMMA PaidLost ==
    ASSUME TypeOK, NEW gone, Paid(gone), cuts' = cuts, Exposed, ~Exposed', NEW e
    PROVE  Paid(gone \union {e})'
<1>1. Cardinality(gone) \in Nat /\ cuts \in Nat /\ IsFiniteSet(gone)
  BY FS_CardinalityType DEF Paid, TypeOK
<1>2. Cardinality(gone) + 1 <= cuts
  BY DEF Paid
<1>3. /\ IsFiniteSet(gone \union {e})
      /\ Cardinality(gone \union {e}) = Cardinality(gone) \/ Cardinality(gone \union {e}) = Cardinality(gone) + 1
  BY <1>1, FS_AddElement
<1> QED
  BY <1>1, <1>2, <1>3 DEF Paid

\* What is kept if no firm line goes and nobody new is owed.
LEMMA SafeKept ==
    ASSUME TypeOK, HoldsEntry, [Next]_vars, NEW gone, Safe(gone), owed' \subseteq owed,
           \A e \in Entries : Firm(e, file, open) /\ Firm(e, disk, diskOpen) =>
                              Firm(e, file', open') /\ Firm(e, disk', diskOpen')
    PROVE  Safe(gone)'
<1> SUFFICES ASSUME NEW e \in owed' \ gone PROVE Stored(e)' \/ (Firm(e, file', open') /\ Firm(e, disk', diskOpen'))
  BY DEF Safe
<1>1. e \in Entries /\ (Stored(e) \/ (Firm(e, file, open) /\ Firm(e, disk, diskOpen)))
  BY DEF Safe, TypeOK
<1>2. Stored(e) => Stored(e)'
  BY <1>1, EntryParts, StoredStays DEF Stored
<1> QED
  BY <1>1, <1>2

\* If everybody is stored the file may go.
LEMMA SafeStored ==
    ASSUME TypeOK, HoldsEntry, [Next]_vars, NEW gone, \A e \in owed \ gone : Stored(e), owed' = owed
    PROVE  Safe(gone)'
<1>1. ASSUME NEW e \in owed \ gone PROVE Stored(e)'
  BY <1>1, EntryParts, StoredStays DEF Stored, TypeOK
<1> QED
  BY <1>1 DEF Safe

\* Nobody becomes an orphan if the handlers that insert go on inserting.
LEMMA OrphansShrink ==
    ASSUME TypeOK, HoldsEntry, [Next]_vars, NEW gone, owed' \subseteq owed,
           \A h \in Handlers : hs[h].pc = "insert" => hs'[h].pc = "insert" /\ hs'[h].e = hs[h].e
    PROVE  Orphans(gone)' \subseteq Orphans(gone)
<1> SUFFICES ASSUME NEW e \in Orphans(gone)' PROVE e \in Orphans(gone)
  OBVIOUS
<1>1. e \in owed \ gone /\ e \in Entries /\ ~Stored(e)'
  BY DEF Orphans, TypeOK
<1>2. ~Stored(e)
  BY <1>1, EntryParts, StoredStays DEF Stored
<1>3. \A h \in Handlers : ~(hs[h].pc = "insert" /\ hs[h].e = e)
  BY DEF Orphans
<1> QED
  BY <1>1, <1>2, <1>3 DEF Orphans

LEMMA CountedIs ==
    ASSUME NEW gone
    PROVE  Counted(gone) <=> /\ up = "replay" => pending = Len(file)
                             /\ up = "serving" => Covers(Active, Orphans(gone), pending)
  BY DEF Counted, Covers

LEMMA CountedKept ==
    ASSUME TypeOK, HoldsEntry, [Next]_vars, NEW gone, Counted(gone), up = "serving", up' = up, pending' = pending,
           owed' \subseteq owed, Active' = Active,
           \A h \in Handlers : hs[h].pc = "insert" => hs'[h].pc = "insert" /\ hs'[h].e = hs[h].e
    PROVE  Counted(gone)'
<1>1. Orphans(gone)' \subseteq Orphans(gone)
  BY OrphansShrink
<1>2. Covers(Active, Orphans(gone), pending) /\ pending \in Nat
  BY CountedIs DEF TypeOK
<1>3. Covers(Active, Orphans(gone)', pending)
  BY <1>1, <1>2, CoversFewer
<1> QED
  BY <1>3 DEF Counted, Covers

-----------------------------------------------------------------------------
(* One handler at a time writes                                             *)

LEMMA OneWriterStep ==
    ASSUME TypeOK, HoldsEntry, OneWriter, [Next]_vars
    PROVE  OneWriter'
<1> USE DEF OneWriter, Writing
<1>1. ASSUME \A h \in Handlers : hs'[h].pc # "sync" PROVE OneWriter'
  BY <1>1
<1>2. ASSUME \A h \in Handlers : hs'[h].pc = "sync" => hs[h].pc = "sync", open' = open \/ Unlocked PROVE OneWriter'
  BY <1>2 DEF Unlocked
<1>3. ASSUME NEW h \in Handlers, NEW e \in Entries, Write(h, e) PROVE OneWriter'
  <2>1. \A g \in Handlers : hs'[g].pc = "sync" => g = h
    BY <1>3 DEF Write, Unlocked, TypeOK
  <2>2. open' = FALSE
    BY <1>3 DEF Write
  <2> QED
    BY <2>1, <2>2
<1>4. ASSUME NEW h \in Handlers, NEW e \in Entries, WriteFails(h, e) PROVE OneWriter'
  BY <1>2, <1>4 DEF WriteFails
<1>5. ASSUME NEW h \in Handlers, Sync(h) PROVE OneWriter'
  <2>1. \A g \in Handlers : hs'[g].pc = "sync" => hs[g].pc = "sync"
    BY <1>5 DEF Sync, TypeOK, Handler
  <2> QED
    BY <1>2, <1>5, <2>1 DEF Sync
<1>6. ASSUME NEW h \in Handlers, Answer(h) PROVE \A g \in Handlers : hs'[g].pc = "sync" => hs[g].pc = "sync"
  BY <1>6 DEF Answer, Idle, TypeOK
<1>7. ASSUME NEW h \in Handlers, SyncFails(h) PROVE OneWriter'
  <2>1. open' = open /\ Answer(h)
    BY <1>7 DEF SyncFails
  <2> QED
    BY <1>2, <1>6, <2>1
<1>8. ASSUME NEW h \in Handlers, Confirm(h) PROVE OneWriter'
  BY <1>2, <1>6, <1>8 DEF Confirm
<1>9. ASSUME NEW h \in Handlers, Insert(h) PROVE OneWriter'
  <2>1. PICK res \in {"created", "conflict", "error"} : Inserted(h, res)
    BY <1>9 DEF Insert
  <2>2. hs' = [hs EXCEPT ![h] = [hs[h] EXCEPT !.pc = "confirm", !.res = res]]
    BY <2>1, InsertedMoves
  <2>3. \A g \in Handlers : hs'[g].pc = "sync" => hs[g].pc = "sync"
    BY <2>2 DEF TypeOK, Handler
  <2> QED
    BY <1>2, <1>9, <2>3 DEF Insert
<1>10. CASE Crash
  BY <1>1, <1>10 DEF Crash, Idle
<1>11. CASE Flush \/ UNCHANGED vars \/ \E e \in Entries : InsertLate(e)
  BY <1>2, <1>11 DEF Flush, InsertLate, vars
<1>12. CASE Start \/ Replay \/ ReplayFails
  <2>1. hs' = hs /\ up # "serving"
    BY <1>12 DEF Start, Replay, ReplayCorrupt, ReplayInsert, ReplayDone, ReplayFails
  <2> QED
    BY <1>1, <2>1 DEF HoldsEntry, Idle
<1> QED
  BY <1>3, <1>4, <1>5, <1>7, <1>8, <1>9, <1>10, <1>11, <1>12 DEF Next

-----------------------------------------------------------------------------
(* Every step keeps the file, up to what the cuts cost                      *)

LEMMA WriteKeeps ==
    ASSUME Basics, OneWriter, NEW gone, Kept(gone), NEW h \in Handlers, NEW e \in Entries, Write(h, e)
    PROVE  Kept(gone)'
<1> USE DEF Basics
<1>1. [Next]_vars
  BY DEF Next
<1>2. /\ up = "serving" /\ Unlocked /\ open' = FALSE /\ file' = Written(e) /\ hs[h].pc = "idle" /\ file \in Seq(Lines)
      /\ UNCHANGED <<up, owed, diskVars, pending, cuts>>
  BY DEF Write, TypeOK
<1>3. \A g \in Handlers : IF g = h THEN hs'[g].pc = "sync" /\ hs'[g].e = e ELSE hs'[g] = hs[g]
  BY DEF Write, TypeOK, Idle
<1>4. Exposed' => Exposed
  <2> SUFFICES ASSUME ~Exposed PROVE ~Exposed'
    OBVIOUS
  <2>1. open = FALSE /\ diskOpen' = FALSE
    BY <1>2 DEF Exposed, TypeOK
  <2>2. InFile(e)'
    <3>1. Firm(e, file', FALSE)
      BY <1>2, <2>1, FirmAppended DEF Written
    <3> QED
      BY <3>1 DEF Firm, InFile
  <2>3. \A g \in Handlers : Writing(g)' => g = h
    BY <1>2, <1>3 DEF Writing, Unlocked
  <2> QED
    BY <1>2, <1>3, <2>1, <2>2, <2>3 DEF Exposed, Writing
<1>5. Safe(gone)'
  <2>1. \A x \in Entries : Firm(x, file, open) => Firm(x, file', open')
    BY <1>2, FirmWritten DEF Written
  <2> QED
    BY <1>1, <1>2, <2>1, SafeKept DEF Kept
<1>6. Counted(gone)'
  <2>1. Active' = Active /\ \A g \in Handlers : hs[g].pc = "insert" => hs'[g].pc = "insert" /\ hs'[g].e = hs[g].e
    BY <1>2, <1>3 DEF Active
  <2> QED
    BY <1>1, <1>2, <2>1, CountedKept DEF Kept
<1> QED
  BY <1>2, <1>4, <1>5, <1>6, PaidKept DEF Kept

LEMMA WriteFailsKeeps ==
    ASSUME Basics, OneWriter, NEW gone, Kept(gone), NEW h \in Handlers, NEW e \in Entries, WriteFails(h, e)
    PROVE  Kept(gone)'
<1> USE DEF Basics
<1>1. [Next]_vars
  BY DEF Next
<1>2. up = "serving" /\ file \in Seq(Lines) /\ UNCHANGED <<up, owed, diskVars, pending, hs>>
  BY DEF WriteFails, TypeOK
<1>3. Counted(gone)'
  <2>1. Active' = Active
    BY <1>2 DEF Active
  <2> QED
    BY <1>1, <1>2, <2>1, CountedKept DEF Kept
<1>4. CASE UNCHANGED <<file, open, cuts>>
  <2>1. Exposed' => Exposed
    BY <1>2, <1>4 DEF Exposed, Writing, InFile
  <2>2. Safe(gone)'
    BY <1>1, <1>2, <1>4, SafeKept DEF Kept
  <2> QED
    BY <1>3, <1>4, <2>1, <2>2, PaidKept DEF Kept
<1>5. CASE file' \in CutShort(e) /\ open' = TRUE /\ cuts' = cuts + 1
  <2>1. \A x \in Entries : Firm(x, file, open) => Firm(x, file', open')
    BY <1>2, <1>5, FirmWritten DEF CutShort, Written
  <2>2. Safe(gone)'
    BY <1>1, <1>2, <2>1, SafeKept DEF Kept
  <2> QED
    BY <1>3, <1>5, <2>2, PaidCut DEF Kept
<1> QED
  BY <1>4, <1>5 DEF WriteFails

\* A record whose line was spoilt is gone from the moment it is owed.
LEMMA SyncKeeps ==
    ASSUME Basics, OneWriter, NEW gone \in SUBSET Entries, Kept(gone), NEW h \in Handlers, Sync(h)
    PROVE  \E more \in SUBSET Entries : Kept(more)'
<1> USE DEF Basics
<1>1. [Next]_vars
  BY DEF Next
<1>2. PICK e \in Entries : e = hs[h].e
  BY DEF Sync, HoldsEntry
<1>3. PICK more \in SUBSET Entries : more = IF InFile(e) THEN gone ELSE gone \union {e}
  OBVIOUS
<1>4. /\ up = "serving" /\ e = hs[h].e /\ Writing(h) /\ open = FALSE /\ \A g \in Handlers : Writing(g) => g = h
      /\ owed' = owed \union {e} /\ disk' = file /\ diskOpen' = open /\ pending' = pending + 1
      /\ UNCHANGED <<up, file, open, cuts>>
  BY <1>2, WorkIsServing DEF Sync, OneWriter, Writing, countVars
<1>5. \A g \in Handlers : /\ hs'[g].e = hs[g].e
                         /\ hs'[g].pc = IF g = h THEN "insert" ELSE hs[g].pc
  BY DEF Sync, TypeOK, Handler
<1>6. ~Exposed'
  <2>1. \A g \in Handlers : ~Writing(g)'
    BY <1>4, <1>5 DEF Writing
  <2> QED
    BY <1>4, <2>1 DEF Exposed
<1>7. Paid(more)'
  <2>1. CASE InFile(e)
    BY <1>3, <1>4, <1>6, <2>1, PaidKept DEF Kept
  <2>2. CASE ~InFile(e)
    <3>1. Exposed
      BY <1>4, <2>2 DEF Exposed
    <3> QED
      BY <1>3, <1>4, <1>6, <2>2, <3>1, PaidLost DEF Kept
  <2> QED
    BY <2>1, <2>2
<1>8. Safe(more)'
  <2> SUFFICES ASSUME NEW x \in owed' \ more PROVE Stored(x)' \/ Firm(x, file, FALSE)
    BY <1>4 DEF Safe
  <2>1. CASE x \in owed \ gone
    <3>1. x \in Entries /\ (Stored(x) \/ Firm(x, file, FALSE))
      BY <1>4, <2>1 DEF Kept, Safe, TypeOK
    <3> QED
      BY <1>1, <3>1, EntryParts, StoredStays DEF Stored
  <2>2. CASE x \notin owed \ gone
    <3>1. x = e /\ InFile(e)
      BY <1>3, <1>4, <2>2
    <3> QED
      BY <3>1 DEF InFile, Firm
  <2> QED
    BY <2>1, <2>2
<1>9. Counted(more)'
  <2>1. Orphans(more)' \subseteq Orphans(gone)
    <3> SUFFICES ASSUME NEW x \in Orphans(more)' PROVE x \in Orphans(gone)
      OBVIOUS
    <3>1. x # e
      BY <1>4, <1>5 DEF Orphans
    <3>2. x \in owed \ gone /\ ~Stored(x)' /\ x \in Entries
      BY <1>3, <1>4, <3>1 DEF Orphans, TypeOK
    <3>3. ~Stored(x)
      BY <1>1, <3>2, EntryParts, StoredStays DEF Stored
    <3>4. \A g \in Handlers : ~(hs[g].pc = "insert" /\ hs[g].e = x)
      BY <1>4, <1>5 DEF Orphans, Writing
    <3> QED
      BY <3>2, <3>3, <3>4 DEF Orphans
  <2>2. Active' = Active \union {h} /\ h \notin Active
    BY <1>4, <1>5 DEF Active, Writing
  <2>3. Covers(Active, Orphans(gone), pending) /\ pending \in Nat
    BY <1>4, CountedIs DEF Kept, TypeOK
  <2>4. Covers(Active', Orphans(more)', pending')
    BY <1>4, <2>1, <2>2, <2>3, CoversMore
  <2> QED
    BY <1>4, <2>4 DEF Counted, Covers
<1> QED
  BY <1>7, <1>8, <1>9 DEF Kept

LEMMA SyncFailsKeeps ==
    ASSUME Basics, OneWriter, NEW gone, Kept(gone), NEW h \in Handlers, SyncFails(h)
    PROVE  Kept(gone)'
<1> USE DEF Basics
<1>1. [Next]_vars
  BY DEF Next
<1>2. up = "serving" /\ UNCHANGED <<fileVars, owed, pending, up, cuts>>
  BY WorkIsServing DEF SyncFails
<1>3. \A g \in Handlers : IF g = h THEN hs'[g].pc = "idle" /\ hs[g].pc = "sync" ELSE hs'[g] = hs[g]
  BY DEF SyncFails, Answer, Idle, TypeOK
<1>4. Exposed' => Exposed
  BY <1>2, <1>3 DEF Exposed, Writing, InFile
<1>5. Safe(gone)'
  BY <1>1, <1>2, SafeKept DEF Kept
<1>6. Counted(gone)'
  <2>1. Active' = Active
    BY <1>3 DEF Active
  <2> QED
    BY <1>1, <1>2, <1>3, <2>1, CountedKept DEF Kept
<1> QED
  BY <1>2, <1>4, <1>5, <1>6, PaidKept DEF Kept

LEMMA InsertKeeps ==
    ASSUME Basics, OneWriter, NEW gone, Kept(gone), NEW h \in Handlers, Insert(h)
    PROVE  Kept(gone)'
<1> USE DEF Basics
<1>1. [Next]_vars
  BY DEF Next
<1>2. up = "serving" /\ UNCHANGED <<fileVars, pending, up, cuts>>
  BY WorkIsServing DEF Insert
<1>3. PICK res \in {"created", "conflict", "error"} : Inserted(h, res)
  BY DEF Insert
<1>4. hs' = [hs EXCEPT ![h] = [hs[h] EXCEPT !.pc = "confirm", !.res = res]] /\ owed' \subseteq owed
  BY <1>3, InsertedMoves
<1>5. \A g \in Handlers : IF g = h THEN hs'[g].pc = "confirm" /\ hs[g].pc = "insert" ELSE hs'[g] = hs[g]
  BY <1>4 DEF Insert, TypeOK, Handler
<1>6. Exposed' => Exposed
  BY <1>2, <1>5 DEF Exposed, Writing, InFile
<1>7. Safe(gone)'
  BY <1>1, <1>2, <1>4, SafeKept DEF Kept
<1>8. Counted(gone)'
  <2>1. Orphans(gone)' \subseteq Orphans(gone)
    <3> SUFFICES ASSUME NEW e \in Orphans(gone)' PROVE e \in Orphans(gone)
      OBVIOUS
    <3>1. e \in owed' /\ e \in owed \ gone /\ ~Stored(e)' /\ e \in Entries
      BY <1>4 DEF Orphans, TypeOK
    <3>2. ~Stored(e)
      BY <1>1, <3>1, EntryParts, StoredStays DEF Stored
    <3>3. \A g \in Handlers \ {h} : ~(hs[g].pc = "insert" /\ hs[g].e = e)
      BY <1>5 DEF Orphans
    <3>4. hs[h].e # e
      BY <1>3, <3>1, <3>3 DEF Inserted
    <3> QED
      BY <3>1, <3>2, <3>3, <3>4 DEF Orphans
  <2>2. Active' = Active
    BY <1>5 DEF Active
  <2>3. Covers(Active, Orphans(gone), pending) /\ pending \in Nat
    BY <1>2, CountedIs DEF Kept, TypeOK
  <2>4. Covers(Active, Orphans(gone)', pending)
    BY <2>1, <2>3, CoversFewer
  <2> QED
    BY <1>2, <2>2, <2>4 DEF Counted, Covers
<1> QED
  BY <1>2, <1>6, <1>7, <1>8, PaidKept DEF Kept

\* The file is emptied when the counter reaches zero: then this handler was the
\* only one at work, and nothing else is owed that is neither stored nor gone.
LEMMA ConfirmKeeps ==
    ASSUME Basics, OneWriter, NEW gone, Kept(gone), NEW h \in Handlers, Confirm(h)
    PROVE  Kept(gone)'
<1> USE DEF Basics
<1>1. [Next]_vars
  BY DEF Next
<1>2. /\ up = "serving" /\ UNCHANGED <<diskVars, owed, up, cuts>> /\ pending' = Less(pending)
      /\ hs[h].pc = "confirm" /\ Unlocked
  BY WorkIsServing DEF Confirm
<1>3. \A g \in Handlers : IF g = h THEN hs'[g].pc = "idle" ELSE hs'[g] = hs[g]
  BY DEF Confirm, Answer, Idle, TypeOK
<1>4. Orphans(gone)' \subseteq Orphans(gone)
  BY <1>1, <1>2, <1>3, OrphansShrink
<1>5. Active' = Active \ {h} /\ h \in Active
  BY <1>2, <1>3 DEF Active
<1>6. Covers(Active, Orphans(gone), pending) /\ pending \in Nat
  BY <1>2, CountedIs DEF Kept, TypeOK
<1>7. Covers(Active', Orphans(gone)', pending') /\ pending >= 1 /\ (pending = 1 => Active = {h} /\ Orphans(gone) = {})
  BY <1>2, <1>4, <1>5, <1>6, CoversLess
<1>8. Counted(gone)'
  BY <1>2, <1>7 DEF Counted, Covers
<1>9. Exposed' => Exposed
  <2>1. open' = open \/ open' = FALSE
    BY DEF Confirm, Truncate
  <2>2. \A g \in Handlers : ~Writing(g)'
    BY <1>2, <1>3 DEF Writing, Unlocked
  <2> QED
    BY <1>2, <2>1, <2>2 DEF Exposed
<1>10. Safe(gone)'
  <2>1. CASE pending' = 0
    <3>1. pending = 1
      BY <1>2, <1>6, <1>7, <2>1 DEF Less
    <3>2. ASSUME NEW e \in owed \ gone PROVE Stored(e)
      <4> SUFFICES ASSUME ~Stored(e) PROVE FALSE
        OBVIOUS
      <4>1. PICK g \in Handlers : hs[g].pc = "insert" /\ hs[g].e = e
        BY <1>7, <3>1 DEF Orphans
      <4>2. g \in Active /\ g # h
        BY <1>2, <4>1 DEF Active
      <4> QED
        BY <1>7, <3>1, <4>2
    <3> QED
      BY <1>1, <1>2, <3>2, SafeStored
  <2>2. CASE pending' # 0
    BY <1>1, <1>2, <2>2, SafeKept DEF Confirm, Kept
  <2> QED
    BY <2>1, <2>2
<1> QED
  BY <1>2, <1>8, <1>9, <1>10, PaidKept DEF Kept

\* A kill leaves the file, a power loss what the disk holds; both hold what is
\* owed, not stored and not gone.
LEMMA CrashKeeps ==
    ASSUME Basics, OneWriter, NEW gone, Kept(gone), Crash
    PROVE  Kept(gone)'
<1> USE DEF Basics
<1>1. [Next]_vars
  BY DEF Next
<1>2. owed' = owed /\ up' = "down" /\ (\A h \in Handlers : ~Writing(h)') /\ file \in Seq(Lines) /\ disk \in Seq(Lines)
  BY DEF Crash, Idle, Writing, TypeOK
<1>3. Counted(gone)'
  BY <1>2 DEF Counted
<1>4. CASE UNCHANGED <<fileVars, cuts>>
  <2>1. Exposed' => Exposed
    BY <1>2, <1>4 DEF Exposed
  <2>2. Safe(gone)'
    BY <1>1, <1>2, <1>4, SafeKept DEF Kept
  <2> QED
    BY <1>3, <1>4, <2>1, <2>2, PaidKept DEF Kept
<1>5. CASE file' = disk /\ open' = diskOpen /\ UNCHANGED <<diskVars, cuts>>
  <2>1. Exposed' => Exposed
    BY <1>2, <1>5 DEF Exposed
  <2>2. Safe(gone)'
    BY <1>1, <1>2, <1>5, SafeKept DEF Kept
  <2> QED
    BY <1>3, <1>5, <2>1, <2>2, PaidKept DEF Kept
<1>6. CASE /\ file' = WrittenTo(disk, diskOpen, Corrupt) /\ open' = TRUE
           /\ disk' = file' /\ diskOpen' = TRUE /\ cuts' = cuts + 1
  <2>1. \A x \in Entries : Firm(x, disk, diskOpen) => Firm(x, file', open') /\ Firm(x, disk', diskOpen')
    BY <1>2, <1>6, FirmWritten
  <2>2. Safe(gone)'
    BY <1>1, <1>2, <2>1, SafeKept DEF Kept
  <2> QED
    BY <1>3, <1>6, <2>2, PaidCut DEF Kept
<1> QED
  BY <1>4, <1>5, <1>6 DEF Crash

\* Steps that leave the handlers, the file and the counter alone.
LEMMA StillKeeps ==
    ASSUME Basics, OneWriter, NEW gone, Kept(gone), [Next]_vars,
           UNCHANGED <<file, open, hs, owed, pending, up, cuts>>,
           UNCHANGED diskVars \/ (disk' = file /\ diskOpen' = open)
    PROVE  Kept(gone)'
<1> USE DEF Basics
<1>1. Exposed' => Exposed
  BY DEF Exposed, Writing, InFile
<1>2. Safe(gone)'
  BY SafeKept DEF Kept
<1>3. Counted(gone)'
  <2>1. up' = "replay" => pending' = Len(file')
    BY DEF Kept, Counted
  <2>2. Active' = Active
    BY DEF Active
  <2>3. CASE up = "serving"
    BY <2>2, <2>3, CountedKept DEF Kept
  <2> QED
    BY <2>1, <2>3 DEF Counted
<1> QED
  BY <1>1, <1>2, <1>3, PaidKept DEF Kept

\* Before it serves, a process has no handler at work.
LEMMA NobodyActive == ASSUME HoldsEntry, up # "serving" PROVE Active = {} /\ \A h \in Handlers : ~Writing(h)
  BY DEF HoldsEntry, Active, Writing, Idle

LEMMA StartKeeps ==
    ASSUME Basics, OneWriter, NEW gone, Kept(gone), Start
    PROVE  Kept(gone)'
<1> USE DEF Basics
<1>1. [Next]_vars
  BY DEF Next
<1>2. UNCHANGED <<fileVars, hs, owed, cuts>> /\ up' = "replay" /\ pending' = Len(file)
  BY DEF Start, countVars
<1>3. Exposed' => Exposed
  BY <1>2 DEF Exposed, Writing, InFile
<1>4. Safe(gone)'
  BY <1>1, <1>2, SafeKept DEF Kept
<1>5. Counted(gone)'
  BY <1>2 DEF Counted
<1> QED
  BY <1>2, <1>3, <1>4, <1>5, PaidKept DEF Kept

\* A replay that fails leaves at most as many orphans as the file has lines, which
\* is what the counter was set to.
LEMMA ReplayFailsKeeps ==
    ASSUME Basics, OneWriter, NEW gone, Kept(gone), ReplayFails
    PROVE  Kept(gone)'
<1> USE DEF Basics
<1>1. [Next]_vars
  BY DEF Next
<1>2. up = "replay" /\ up' = "serving" /\ UNCHANGED <<mongo, fileVars, pending, hs, owed, cuts>>
  BY DEF ReplayFails, InsertFails
<1>3. Exposed' => Exposed
  BY <1>2 DEF Exposed, Writing, InFile
<1>4. Safe(gone)'
  BY <1>1, <1>2, SafeKept DEF Kept
<1>5. Counted(gone)'
  <2>1. Active' = {} /\ Orphans(gone)' = Orphans(gone)
    BY <1>2, NobodyActive DEF Active, Orphans, Stored
  <2>2. \A e \in Orphans(gone) : InFile(e)
    BY DEF Kept, Safe, Firm, InFile, Orphans
  <2>3. IsFiniteSet(Orphans(gone)) /\ Cardinality(Orphans(gone)) <= Len(file) /\ Cardinality(Orphans(gone)) \in Nat
    BY <2>2, LinesBound, FS_CardinalityType
  <2>4. pending = Len(file) /\ pending \in Nat
    BY <1>2 DEF Kept, Counted, TypeOK
  <2>5. Covers({}, Orphans(gone), pending)
    BY <2>3, <2>4, FS_EmptySet DEF Covers
  <2> QED
    BY <1>2, <2>1, <2>5 DEF Counted, Covers
<1> QED
  BY <1>2, <1>3, <1>4, <1>5, PaidKept DEF Kept

\* A replay that reaches the end has stored all that was owed and is not gone.
LEMMA ReplayDoneKeeps ==
    ASSUME Basics, OneWriter, ReplayedIsStored, NEW gone, Kept(gone), ReplayDone
    PROVE  Kept(gone)'
<1> USE DEF Basics
<1>1. [Next]_vars
  BY DEF Next, Replay
<1>2. up = "replay" /\ up' = "serving" /\ pending' = 0 /\ UNCHANGED <<mongo, diskVars, hs, owed, cuts>>
  BY DEF ReplayDone, storeVars
<1>3. ASSUME NEW e \in owed \ gone PROVE Stored(e)
  <2>1. e \in Entries /\ e # Corrupt
    BY SentinelAssumption DEF TypeOK, Entries
  <2>2. ASSUME Firm(e, file, open) PROVE Stored(e)
    <3>1. PICK i \in 1 .. Len(file) : file[i] = e
      BY <2>2 DEF Firm
    <3>2. i < pos
      BY DEF ReplayDone, TypeOK
    <3> QED
      BY <1>2, <2>1, <3>1, <3>2 DEF ReplayedIsStored
  <2> QED
    BY <2>2 DEF Kept, Safe
<1>4. Safe(gone)'
  BY <1>1, <1>2, <1>3, SafeStored
<1>5. Exposed' => Exposed
  <2>1. \A h \in Handlers : ~Writing(h)'
    BY <1>2, NobodyActive DEF Writing
  <2>2. open' = open \/ open' = FALSE
    BY DEF ReplayDone, Truncate
  <2> QED
    BY <1>2, <2>1, <2>2 DEF Exposed
<1>6. Counted(gone)'
  <2>1. Active' = {} /\ Orphans(gone)' = {}
    BY <1>2, <1>3, NobodyActive DEF Active, Orphans, Stored
  <2>2. Covers({}, {}, 0)
    BY FS_EmptySet DEF Covers
  <2> QED
    BY <1>2, <2>1, <2>2 DEF Counted, Covers
<1> QED
  BY <1>2, <1>4, <1>5, <1>6, PaidKept DEF Kept

-----------------------------------------------------------------------------
(* The results                                                              *)

LEMMA FileStep ==
    ASSUME Basics, OneWriter, ReplayedIsStored, FileInv, [Next]_vars
    PROVE  FileInv'
<1>1. PICK gone \in SUBSET Entries : Kept(gone)
  BY DEF FileInv, Kept
<1>2. ASSUME Kept(gone)' PROVE FileInv'
  BY <1>2 DEF FileInv, Kept, Entries
<1>3. ASSUME NEW h \in Handlers, Sync(h) PROVE FileInv'
  BY <1>1, <1>3, SyncKeeps DEF FileInv, Kept, Entries
<1>4. CASE Flush \/ ReplayCorrupt \/ ReplayInsert \/ (\E e \in Entries : InsertLate(e)) \/ UNCHANGED vars
  <2>1. /\ UNCHANGED <<file, open, hs, owed, pending, up, cuts>>
        /\ UNCHANGED diskVars \/ (disk' = file /\ diskOpen' = open)
    BY <1>4 DEF Flush, ReplayCorrupt, ReplayInsert, InsertLate, vars, countVars
  <2> QED
    BY <1>1, <1>2, <2>1, StillKeeps
<1>5. CASE Crash \/ Start \/ ReplayDone \/ ReplayFails
  BY <1>1, <1>2, <1>5, CrashKeeps, StartKeeps, ReplayDoneKeeps, ReplayFailsKeeps
<1>6. ASSUME NEW h \in Handlers, SyncFails(h) \/ Insert(h) \/ Confirm(h) PROVE FileInv'
  BY <1>1, <1>2, <1>6, SyncFailsKeeps, InsertKeeps, ConfirmKeeps
<1>7. ASSUME NEW h \in Handlers, NEW e \in Entries, Write(h, e) \/ WriteFails(h, e) PROVE FileInv'
  BY <1>1, <1>2, <1>7, WriteKeeps, WriteFailsKeeps
<1> QED
  BY <1>3, <1>4, <1>5, <1>6, <1>7 DEF Next, Replay

LEMMA WALInvariant == Spec => []WALInv
<1>1. ASSUME Init PROVE ReplayedIsStored /\ OneWriter /\ FileInv
  <2>1. ReplayedIsStored /\ OneWriter
    BY <1>1 DEF Init, ReplayedIsStored, OneWriter, Writing, Idle
  <2>2. ~Exposed
    BY <1>1 DEF Init, Exposed, Writing, Idle
  <2>3. Paid({})
    BY <1>1, <2>2, FS_EmptySet DEF Init, Paid
  <2>4. Safe({}) /\ Counted({})
    BY <1>1 DEF Init, Safe, Counted
  <2> QED
    BY <2>1, <2>3, <2>4 DEF FileInv
<1>2. WALInv /\ [Next]_vars /\ Basics' => WALInv'
  BY ReplayedStep, OneWriterStep, FileStep DEF WALInv, Basics
<1>3. Init /\ Basics => WALInv
  BY <1>1 DEF WALInv
<1> QED
  BY <1>2, <1>3, BasicsInvariant, PTL DEF Spec

\* What is not recoverable is gone.
LEMMA GoneIsPaid ==
    ASSUME WALInv
    PROVE  \E gone \in SUBSET Entries : /\ Kept(gone) /\ IsFiniteSet(gone) /\ Cardinality(gone) <= cuts
                                        /\ {e \in owed : ~Recoverable(e)} \subseteq gone
                                        /\ cuts = 0 => gone = {}
<1>1. PICK gone \in SUBSET Entries : Kept(gone)
  BY DEF WALInv, FileInv, Kept
<1>2. IsFiniteSet(gone) /\ Cardinality(gone) \in Nat /\ cuts \in Nat
  BY <1>1, FS_CardinalityType DEF Kept, Paid, WALInv, Basics, TypeOK
<1>3. Cardinality(gone) <= cuts
  BY <1>1, <1>2 DEF Kept, Paid
<1>4. cuts = 0 => gone = {}
  BY <1>2, <1>3, FS_EmptySet
<1>5. \A e \in owed \ gone : Recoverable(e)
  BY <1>1 DEF Kept, Safe, Firm, Recoverable, InFile, OnDisk
<1> QED
  BY <1>1, <1>2, <1>3, <1>4, <1>5

\* Lines that are cut short, by a write that fails half-way or by a power loss, cost
\* at most one appended record each, through crashes, failed replays, truncations
\* and write-backs in any order (Append, Confirm, Recover).
THEOREM CutsLoseOneEach == Spec => []CutLosesOne
<1>1. ASSUME WALInv PROVE CutLosesOne
  <2> DEFINE Lost == {e \in owed : ~Recoverable(e)}
  <2>1. PICK gone \in SUBSET Entries : IsFiniteSet(gone) /\ Cardinality(gone) <= cuts /\ Lost \subseteq gone
    BY <1>1, GoneIsPaid
  <2>2. IsFiniteSet(Lost) /\ Cardinality(Lost) <= Cardinality(gone)
    BY <2>1, FS_Subset
  <2>3. Cardinality(Lost) \in Nat /\ Cardinality(gone) \in Nat /\ cuts \in Nat
    BY <1>1, <2>1, <2>2, FS_CardinalityType DEF WALInv, Basics, TypeOK
  <2>4. Cardinality(Lost) <= cuts
    BY <2>1, <2>2, <2>3
  <2> QED
    BY <2>4 DEF CutLosesOne
<1> QED
  BY <1>1, WALInvariant, PTL

\* As long as no line has been cut short, an appended record is stored, or in the
\* file where neither a kill nor a power loss removes it.
THEOREM UncutLogIsRecoverable == Spec => [](cuts = 0 => OwedIsRecoverable)
<1>1. WALInv => (cuts = 0 => OwedIsRecoverable)
  BY GoneIsPaid DEF OwedIsRecoverable
<1> QED
  BY <1>1, WALInvariant, PTL

\* Where writes are not torn at all, what the package comment of wal says holds.
THEOREM RecoverableIfNotTorn == Spec => [](TornWrites = FALSE => OwedIsRecoverable)
<1> DEFINE NoCuts == TornWrites = FALSE => cuts = 0
<1>1. NoCuts /\ [Next]_vars => NoCuts'
  BY DEF Next, Write, WriteFails, Sync, SyncFails, Insert, Confirm, InsertLate, Flush, Crash, Start,
         Replay, ReplayCorrupt, ReplayInsert, ReplayDone, ReplayFails, vars, countVars
<1>2. Init => NoCuts
  BY DEF Init
<1>3. NoCuts /\ WALInv => (TornWrites = FALSE => OwedIsRecoverable)
  BY GoneIsPaid DEF OwedIsRecoverable
<1> HIDE DEF NoCuts
<1> QED
  BY <1>1, <1>2, <1>3, WALInvariant, PTL DEF Spec

\* The counter covers the handlers at work and the entries that only the file
\* keeps, for any number of handlers (PendingCovers).
THEOREM CounterCovers == Spec => []PendingCovers
<1>1. ASSUME WALInv PROVE PendingCovers
  <2> DEFINE L == {e \in owed : ~Stored(e) /\ \A h \in Handlers : hs[h].e # e}
  <2> SUFFICES ASSUME up = "serving", cuts = 0
               PROVE  Cardinality(Active) + Cardinality(L) <= pending
    BY DEF PendingCovers, Active
  <2>1. Kept({})
    BY <1>1, GoneIsPaid
  <2>2. Covers(Active, Orphans({}), pending) /\ pending \in Nat
    BY <1>1, <2>1, CountedIs DEF Kept, WALInv, Basics, TypeOK
  <2>3. L \in SUBSET Orphans({})
    BY DEF Orphans
  <2> HIDE DEF L
  <2>4. Covers(Active, L, pending)
    BY <2>2, <2>3, CoversFewer
  <2> QED
    BY <2>4 DEF Covers
<1> QED
  BY <1>1, WALInvariant, PTL
===============================================================================
