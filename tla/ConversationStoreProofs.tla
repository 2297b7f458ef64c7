----------------------- MODULE ConversationStoreProofs -----------------------
(***************************************************************************)
(* Proofs about ConversationStore, for every set of savers, every bound on *)
(* versions and every set of environments.  Calm is the environment in     *)
(* which the store keeps its promise; with any hazard but overlapping      *)
(* saves (Sole) it keeps a weaker one.                                     *)
(***************************************************************************)
EXTENDS ConversationStore, TLAPS

(***************************************************************************)
(* The inductive invariant.                                                *)
(***************************************************************************)
\* The copy that counts: the canonical file if it is complete, else the backup.
Held == IF file.st = "sealed" THEN file.ver
        ELSE IF bak.st = "sealed" THEN bak.ver ELSE 0

OneSave == \A s, t \in Savers : Busy(s) /\ Busy(t) => s = t

Fresh == /\ file.ver < next /\ bak.ver < next /\ tmp.ver < next
         /\ \A s \in Savers : snap[s] < next
         /\ \A s \in Savers : Busy(s) => snap[s] > floor

\* A complete temp file only repeats what the file or the backup holds.
TempEchoes == tmp.st = "sealed" =>
                /\ tmp.name = "tmp"
                /\ \/ tmp = file
                   \/ file.st = "absent" /\ bak = tmp

\* Only a save between open and the end of its catch hides the backup.
ShadowOnlyInSave ==
  Shadowed => \E s \in Savers : pc[s] \in {"writing", "verify", "catch"}

SaveShape(s) ==
  /\ pc[s] = "delete" => (file.st = "sealed" => bak = file)
  /\ pc[s] \in {"deleteTmp", "open", "rename"} => file.st = "absent"
  /\ pc[s] \in {"open", "writing", "verify", "deleteBak", "catch", "rename"} =>
       tmp.st = "absent"
  /\ pc[s] = "writing" => file = Torn(snap[s])
  /\ pc[s] = "verify" => file \in {Torn(snap[s]), Sealed("enc", snap[s])}
  /\ pc[s] = "deleteBak" => file = Sealed("enc", snap[s])
  /\ pc[s] = "catch" => file.st # "sealed"

LoadShape ==
  /\ app \in {"backup", "legacy", "legacyRead", "legacyDone", "last"} =>
       ~Readable(file, "enc")
  /\ app \in {"legacy", "last"} => (file.st = "absent" => bak.st = "absent")
  /\ app = "backupRead" => file.st # "absent"
  /\ app = "legacyRead" => file.st # "absent" /\ tmp = CopyOf(file)
  /\ app = "legacyDone" => tmp = file /\ Readable(tmp, "tmp")
  /\ app = "last" => file.st # "sealed"

StoreInv ==
  /\ TypeOK /\ OneSave /\ Fresh /\ TempEchoes /\ ShadowOnlyInSave
  /\ \A s \in Savers : SaveShape(s)
  /\ LoadShape
  /\ floor <= Held

(***************************************************************************)
(* Type correctness holds whatever the environment does.                   *)
(***************************************************************************)
\* The contents that the operations write are contents.
LEMMA ContentsFacts ==
  /\ Absent \in Contents
  /\ \A v \in Versions : Torn(v) \in Contents
  /\ \A n \in SealNames, v \in Versions : Sealed(n, v) \in Contents
  /\ \A c \in Contents : CopyOf(c) \in Contents /\ c.ver \in Versions
  /\ 0 \in Versions
BY StoreAssumption
   DEF Contents, Versions, SealNames, Absent, Torn, Sealed, CopyOf

\* Every initial disk and every idle saver has its type.
LEMMA TypeInit == Init => TypeOK
<1>1. SUFFICES ASSUME Init PROVE TypeOK
  OBVIOUS
<1>2. 0 \in Versions /\ 1 \in Versions /\ 2 \in 2..(MaxVersion + 1)
  BY StoreAssumption DEF Versions
<1>3. PICK d \in InitialDisks : file = d[1] /\ bak = d[2] /\ tmp = d[3]
  BY <1>1 DEF Init
<1>4. file \in Contents /\ bak \in Contents /\ tmp \in Contents
  BY <1>2, <1>3, ContentsFacts DEF InitialDisks, SealNames
<1> QED
  BY <1>1, <1>2, <1>4 DEF Init, TypeOK, SaveSteps

\* No step changes the environment.
LEMMA HazardsFixed == [Next]_vars => hazards' = hazards
BY DEF vars, Next, Launch, Die, SaveBegin, SaveStep, SaveCopy, SaveDelete, SaveDeleteTmp,
   SaveOpen, SaveWrite, SaveVerify, SaveDeleteBak, SaveCatch, SaveRename, Goto, LoadStep,
   LoadCanonical, LoadBackup, LoadBackupRead, LoadLegacy, LoadLegacyRead, LoadLegacyDone,
   LoadLast, Restored, LoadGoto

\* Every step of load(), of save(), of a crash and of a launch keeps the types.
LEMMA TypeStep == TypeOK /\ [Next]_vars => TypeOK'
<1> SUFFICES ASSUME TypeOK, [Next]_vars PROVE TypeOK'
  OBVIOUS
<1>0. hazards' = hazards
  BY HazardsFixed
<1> USE <1>0, ContentsFacts DEF TypeOK
<1>1. CASE Launch
  BY <1>1 DEF Launch, disk, saver, LoadSteps
<1>2. CASE LoadStep
  <2>1. file' \in Contents /\ bak' \in Contents /\ tmp' \in Contents
    BY <1>2 DEF LoadStep, LoadCanonical, LoadBackup, LoadBackupRead, LoadLegacy,
       LoadLegacyRead, LoadLegacyDone, LoadLast, disk
  <2>2. /\ app' \in {"up"} \cup LoadSteps
        /\ mem' \in Versions /\ floor' \in Versions
        /\ next' = next /\ pc' = pc /\ snap' = snap
    BY <1>2 DEF LoadStep, LoadCanonical, LoadBackup, LoadBackupRead, LoadLegacy,
       LoadLegacyRead, LoadLegacyDone, LoadLast, Restored, LoadGoto, LoadSteps, saver
  <2>3. app # "up"
    BY <1>2 DEF LoadStep, LoadCanonical, LoadBackup, LoadBackupRead, LoadLegacy,
       LoadLegacyRead, LoadLegacyDone, LoadLast
  <2> QED BY <2>1, <2>2, <2>3
<1>3. ASSUME NEW s \in Savers, SaveBegin(s) PROVE TypeOK'
  <2>1. next \in Versions /\ next + 1 \in 2..(MaxVersion + 1)
    BY <1>3, StoreAssumption DEF SaveBegin, Versions
  <2> QED BY <1>3, <2>1 DEF SaveBegin, disk, SaveSteps
<1>4. ASSUME NEW s \in Savers, SaveStep(s) PROVE TypeOK'
  <2>1. app = "up"
    BY <1>4 DEF SaveStep, SaveCopy, SaveDelete, SaveDeleteTmp, SaveOpen, SaveWrite,
       SaveVerify, SaveDeleteBak, SaveCatch, SaveRename
  <2>2. /\ \E q \in SaveSteps : pc' = [pc EXCEPT ![s] = q]
        /\ app' = app /\ mem' = mem /\ next' = next /\ snap' = snap
        /\ floor' \in Versions
    BY <1>4 DEF SaveStep, SaveCopy, SaveDelete, SaveDeleteTmp, SaveOpen, SaveWrite,
       SaveVerify, SaveDeleteBak, SaveCatch, SaveRename, Goto, SaveSteps
  <2>3. file' \in Contents /\ bak' \in Contents /\ tmp' \in Contents
    BY <1>4 DEF SaveStep, SaveCopy, SaveDelete, SaveDeleteTmp, SaveOpen, SaveWrite,
       SaveVerify, SaveDeleteBak, SaveCatch, SaveRename, disk, SealNames
  <2> QED BY <2>1, <2>2, <2>3
<1>5. CASE Die
  BY <1>5 DEF Die, SaveSteps
<1>6. CASE UNCHANGED vars
  BY <1>6 DEF vars
<1> QED BY <1>1, <1>2, <1>3, <1>4, <1>5, <1>6 DEF Next

\* Every file, the restore state and every saver stay within their types, and
\* no save runs before restore() has finished, for every set of hazards.
THEOREM TypeCorrect == Spec => []TypeOK
<1>1. Init => TypeOK
  BY TypeInit
<1>2. TypeOK /\ [Next]_vars => TypeOK'
  BY TypeStep
<1> QED BY <1>1, <1>2, PTL DEF Spec

(***************************************************************************)
(* The store's invariant, in a calm environment.                           *)
(***************************************************************************)
\* Every initial disk satisfies it: none, one stored, or the older build's file.
LEMMA InvInit == Calm /\ Init => StoreInv
<1> SUFFICES ASSUME Calm, Init PROVE StoreInv
  OBVIOUS
<1>1. TypeOK
  BY TypeInit
<1>2. PICK d \in InitialDisks : file = d[1] /\ bak = d[2] /\ tmp = d[3]
  BY DEF Init
<1>3. /\ bak = Absent
      /\ file \in {Absent, Sealed("enc", 1), Sealed("tmp", 1)}
      /\ tmp \in {Absent, Torn(0)}
  BY <1>2 DEF InitialDisks, Calm
<1>4. /\ app = "down" /\ next = 2
      /\ \A s \in Savers : pc[s] = "idle" /\ snap[s] = 0
      /\ floor = IF file.st = "sealed" THEN 1 ELSE 0
  BY <1>3 DEF Init, Absent, Torn
<1>5. OneSave /\ Fresh /\ TempEchoes
  BY <1>3, <1>4 DEF OneSave, Busy, Fresh, TempEchoes, Absent, Torn, Sealed
<1>6. ShadowOnlyInSave /\ LoadShape /\ floor <= Held
  BY <1>3, <1>4 DEF ShadowOnlyInSave, Shadowed, LoadShape, Held, Absent, Torn, Sealed
<1>7. \A s \in Savers : SaveShape(s)
  BY <1>4 DEF SaveShape
<1> QED BY <1>1, <1>5, <1>6, <1>7 DEF StoreInv

\* A step of load() that has no save beside it.
LEMMA LoadInv == ASSUME Calm, StoreInv, LoadStep PROVE StoreInv'
<1> USE DEF Calm
<1>1. TypeOK /\ TypeOK'
  BY TypeStep DEF StoreInv, Next
<1>2. app # "up" /\ \A s \in Savers : pc[s] = "idle"
  BY <1>1 DEF TypeOK, LoadStep, LoadCanonical, LoadBackup, LoadBackupRead, LoadLegacy,
     LoadLegacyRead, LoadLegacyDone, LoadLast
<1>3. next' = next /\ pc' = pc /\ snap' = snap
  BY DEF LoadStep, LoadCanonical, LoadBackup, LoadBackupRead, LoadLegacy,
     LoadLegacyRead, LoadLegacyDone, LoadLast, Restored, LoadGoto, saver
<1>4. ~Shadowed
  BY <1>2 DEF StoreInv, ShadowOnlyInSave
<1>5. OneSave' /\ \A s \in Savers : SaveShape(s)'
  BY <1>2, <1>3 DEF OneSave, Busy, SaveShape
<1>6. \A c \in Contents : c.st \in {"absent", "torn", "sealed"} /\ c.ver \in Nat
                          /\ c.name \in SealNames
  BY StoreAssumption DEF Contents, Versions
<1>7. /\ next \in Nat /\ floor \in Nat /\ floor' \in Nat /\ next > 1
      /\ file \in Contents /\ bak \in Contents /\ tmp \in Contents
      /\ file' \in Contents /\ bak' \in Contents /\ tmp' \in Contents
  BY <1>1, StoreAssumption DEF TypeOK, Versions
<1> USE <1>6, <1>7
<1>8. Fresh'
  BY <1>2, <1>3 DEF StoreInv, Fresh, Busy, LoadStep, LoadCanonical, LoadBackup, LoadBackupRead,
     LoadLegacy, LoadLegacyRead, LoadLegacyDone, LoadLast, disk, CopyOf, Absent, Torn, Unlucky
<1>9. TempEchoes' /\ ShadowOnlyInSave' /\ LoadShape' /\ (floor <= Held)'
  <2> USE <1>4 DEF StoreInv, TempEchoes, ShadowOnlyInSave, Shadowed, LoadShape, Held,
          Readable, Exists, Absent, Torn, CopyOf, disk, Restored, LoadGoto, Unlucky, SealNames
  <2>1. CASE LoadCanonical
    BY <2>1 DEF LoadCanonical
  <2>2. CASE LoadBackup
    BY <2>2 DEF LoadBackup
  <2>3. CASE LoadBackupRead
    BY <2>3 DEF LoadBackupRead
  <2>4. CASE LoadLegacy
    BY <2>4 DEF LoadLegacy
  <2>5. CASE LoadLegacyRead
    BY <2>5 DEF LoadLegacyRead
  <2>6. CASE LoadLegacyDone
    BY <2>6 DEF LoadLegacyDone
  <2>7. CASE LoadLast
    BY <2>7 DEF LoadLast
  <2> QED BY <2>1, <2>2, <2>3, <2>4, <2>5, <2>6, <2>7 DEF LoadStep
<1> QED BY <1>1, <1>5, <1>8, <1>9 DEF StoreInv

\* A step of save(); the save that takes it is the only one.
LEMMA SaveInv ==
  ASSUME Calm, StoreInv, NEW s \in Savers, SaveBegin(s) \/ SaveStep(s)
  PROVE  StoreInv'
<1> USE DEF Calm
<1>1. TypeOK /\ TypeOK'
  BY TypeStep DEF StoreInv, Next
<1>2. app = "up" /\ app' = "up"
  BY <1>1 DEF TypeOK, SaveBegin, SaveStep, SaveCopy, SaveDelete, SaveDeleteTmp, SaveOpen,
     SaveWrite, SaveVerify, SaveDeleteBak, SaveCatch, SaveRename, Goto
<1>3. \A t \in Savers : t # s => pc[t] = "idle" /\ pc'[t] = "idle" /\ snap'[t] = snap[t]
  BY <1>1 DEF StoreInv, OneSave, Busy, TypeOK, SaveBegin, SaveStep, SaveCopy, SaveDelete,
     SaveDeleteTmp, SaveOpen, SaveWrite, SaveVerify, SaveDeleteBak, SaveCatch, SaveRename, Goto
<1>4. OneSave' /\ LoadShape'
  BY <1>2, <1>3 DEF OneSave, Busy, LoadShape
<1>5. \A t \in Savers : t # s => SaveShape(t)'
  BY <1>3 DEF SaveShape
<1>6. \A c \in Contents : c.st \in {"absent", "torn", "sealed"} /\ c.ver \in Nat
                          /\ c.name \in SealNames
  BY StoreAssumption DEF Contents, Versions
<1>7. /\ next \in Nat /\ floor \in Nat /\ floor' \in Nat /\ next > 1
      /\ file \in Contents /\ bak \in Contents /\ tmp \in Contents
      /\ file' \in Contents /\ bak' \in Contents /\ tmp' \in Contents
      /\ pc \in [Savers -> SaveSteps] /\ snap \in [Savers -> Nat]
      /\ pc' \in [Savers -> SaveSteps] /\ snap' \in [Savers -> Nat]
  BY <1>1, StoreAssumption DEF TypeOK, Versions
<1>8. SaveShape(s)
  BY DEF StoreInv
<1> USE <1>6, <1>7, <1>8
<1>9. Fresh' /\ TempEchoes' /\ ShadowOnlyInSave' /\ SaveShape(s)' /\ (floor <= Held)'
  <2> USE <1>3 DEF StoreInv, Fresh, Busy, TempEchoes, ShadowOnlyInSave, Shadowed, SaveShape,
          Held, Exists, Absent, Torn, Sealed, CopyOf, disk, Goto, Readable, SealNames
  <2>1. CASE SaveBegin(s)
    BY <2>1 DEF SaveBegin
  <2>2. CASE SaveCopy(s)
    BY <2>2 DEF SaveCopy
  <2>3. CASE SaveDelete(s)
    BY <2>3 DEF SaveDelete
  <2>4. CASE SaveDeleteTmp(s)
    BY <2>4 DEF SaveDeleteTmp
  <2>5. CASE SaveOpen(s)
    BY <2>5 DEF SaveOpen
  <2>6. CASE SaveWrite(s)
    BY <2>6 DEF SaveWrite
  <2>7. CASE SaveVerify(s)
    BY <2>7 DEF SaveVerify, Unlucky
  <2>8. CASE SaveDeleteBak(s)
    BY <2>8 DEF SaveDeleteBak
  <2>9. CASE SaveCatch(s)
    BY <2>9 DEF SaveCatch
  <2>10. CASE SaveRename(s)
    BY <2>10 DEF SaveRename
  <2> QED BY <2>1, <2>2, <2>3, <2>4, <2>5, <2>6, <2>7, <2>8, <2>9, <2>10 DEF SaveStep
<1> QED BY <1>1, <1>4, <1>5, <1>9 DEF StoreInv

\* Process death, and the launch after it, find the disk as the save left it.
LEMMA DieInv == ASSUME Calm, StoreInv, Die \/ Launch PROVE StoreInv'
<1> USE DEF Calm
<1>1. TypeOK /\ TypeOK'
  BY TypeStep DEF StoreInv, Next
<1>2. \A s \in Savers : pc'[s] = "idle" /\ snap'[s] \in {0, snap[s]}
  BY <1>1 DEF Die, Launch, TypeOK, saver
<1>3. OneSave' /\ \A s \in Savers : SaveShape(s)'
  BY <1>2 DEF OneSave, Busy, SaveShape
<1>4. ~Shadowed /\ app' \in {"down", "read"} /\ UNCHANGED <<file, tmp, next, floor>>
  BY <1>1 DEF Die, Launch, StoreInv, ShadowOnlyInSave, disk, TypeOK
<1>5. \A c \in Contents : c.st \in {"absent", "torn", "sealed"} /\ c.ver \in Nat
  BY StoreAssumption DEF Contents, Versions
<1>6. /\ next \in Nat /\ floor \in Nat /\ next > 1 /\ snap \in [Savers -> Nat]
      /\ file \in Contents /\ bak \in Contents /\ tmp \in Contents /\ bak' \in Contents
  BY <1>1, StoreAssumption DEF TypeOK, Versions
<1>7. bak' = bak \/ (bak' \in {Absent, Torn(0)} /\ file.st # "absent")
  BY DEF Die, Launch, disk, Exists
<1>8. Fresh' /\ TempEchoes' /\ ShadowOnlyInSave' /\ LoadShape' /\ (floor <= Held)'
  BY <1>2, <1>4, <1>5, <1>6, <1>7 DEF StoreInv, Fresh, Busy, TempEchoes, ShadowOnlyInSave,
     Shadowed, LoadShape, Held, Absent, Torn
<1> QED BY <1>1, <1>3, <1>8 DEF StoreInv

\* Every step preserves it: load(), save(), death and launch.
LEMMA InvStep == Calm /\ StoreInv /\ [Next]_vars => StoreInv'
<1> SUFFICES ASSUME Calm, StoreInv, [Next]_vars PROVE StoreInv'
  OBVIOUS
<1>1. CASE UNCHANGED vars
  BY <1>1 DEF vars, StoreInv, TypeOK, OneSave, Busy, Fresh, TempEchoes, ShadowOnlyInSave,
     Shadowed, SaveShape, LoadShape, Held
<1> QED BY <1>1, LoadInv, SaveInv, DieInv DEF Next

\* The inductive invariant holds in every reachable state of a calm environment.
THEOREM StoreInvariant == Spec => [](Calm => StoreInv)
<1>1. Init => (Calm => StoreInv)
  BY InvInit
<1>2. (Calm => StoreInv) /\ [Next]_vars => (Calm => StoreInv)'
  BY InvStep, HazardsFixed DEF Calm
<1> QED BY <1>1, <1>2, PTL DEF Spec

\* What load() returns is the copy that counts, so it is never older than the
\* newest save that returned.
LEMMA LoadReturnsHeld == ASSUME Calm, StoreInv, LoadStep, app' = "up" PROVE mem' = Held
<1> USE DEF Calm
<1>1. TypeOK /\ ~Shadowed
  BY DEF StoreInv, ShadowOnlyInSave, TypeOK, LoadStep, LoadCanonical, LoadBackup,
     LoadBackupRead, LoadLegacy, LoadLegacyRead, LoadLegacyDone, LoadLast
<1>2. \A c \in {file, bak, tmp} : c.st \in {"absent", "torn", "sealed"}
  BY <1>1 DEF TypeOK, Contents
<1> QED
  BY <1>1, <1>2 DEF StoreInv, TempEchoes, LoadShape, Held, Shadowed, Readable, LoadStep,
     LoadCanonical, LoadBackup, LoadBackupRead, LoadLegacy, LoadLegacyRead, LoadLegacyDone,
     LoadLast, Restored, LoadGoto, Unlucky

\* Only a step of load() makes the app leave the loading phase for "up".
LEMMA OnlyLoadEndsLoad == ASSUME TypeOK, Next, LoadEnds PROVE LoadStep
BY DEF TypeOK, LoadEnds, LoadSteps, Next, Launch, Die, SaveBegin, SaveStep, SaveCopy,
   SaveDelete, SaveDeleteTmp, SaveOpen, SaveWrite, SaveVerify, SaveDeleteBak, SaveCatch,
   SaveRename, Goto

\* "A failed write can't destroy existing history": for every number of saves,
\* crashes between file operations and failed writes.
THEOREM HistoryIsDurable == Spec => HistorySurvives
<1>1. (Calm => StoreInv) /\ [Next]_vars => [Calm /\ LoadEnds => mem' >= floor]_vars
  <2> SUFFICES ASSUME Calm, StoreInv, Next, LoadEnds PROVE mem' >= floor
    BY DEF vars
  <2>1. LoadStep
    BY OnlyLoadEndsLoad DEF StoreInv
  <2>2. mem' = Held
    BY <2>1, LoadReturnsHeld DEF LoadEnds
  <2>3. floor \in Nat /\ Held \in Nat
    BY StoreAssumption DEF StoreInv, TypeOK, Versions, Contents, Held
  <2> QED BY <2>2, <2>3 DEF StoreInv
<1> QED BY <1>1, StoreInvariant, PTL DEF Spec, HistorySurvives

(***************************************************************************)
(* A save is atomic: the store implements AtomicHistory.                   *)
(***************************************************************************)
\* The abstract cell's value is the copy that counts.
LEMMA StoredIsHeld == ASSUME StoreInv PROVE Stored = Held
<1>1. \A c \in {file, bak, tmp} : /\ c.st \in {"absent", "torn", "sealed"}
                                  /\ c.name \in SealNames
  BY DEF StoreInv, TypeOK, Contents
<1> QED
  BY <1>1 DEF StoreInv, TempEchoes, Held, Stored, Shadowed, LoadOf, LegacyOf, Exists,
     Readable, SealNames, Absent

\* The abstract pending write is the list of the save that runs, if one does.
LEMMA PendingIs ==
  ASSUME OneSave
  PROVE  /\ (\A s \in Savers : ~Busy(s)) => Pending = 0
         /\ \A s \in Savers : Busy(s) => Pending = snap[s]
<1>1. ASSUME NEW s \in Savers, Busy(s) PROVE Pending = snap[s]
  <2>1. (CHOOSE t \in Savers : Busy(t)) = s
    BY <1>1 DEF OneSave
  <2> QED BY <1>1, <2>1 DEF Pending
<1>2. ASSUME \A s \in Savers : ~Busy(s) PROVE Pending = 0
  BY <1>2 DEF Pending
<1> QED BY <1>1, <1>2

\* One step of the store is one step of AtomicHistory or leaves it unchanged.
LEMMA StepRefines ==
  ASSUME Calm, StoreInv, StoreInv', Next PROVE [AH!ANext]_(AH!avars)
<1> USE DEF Calm
<1>0. Stored = Held /\ Stored' = Held'
  <2>1. Stored = Held
    BY StoredIsHeld
  <2>2. Stored' = Held'
    <3>1. \A c \in {file', bak', tmp'} : /\ c.st \in {"absent", "torn", "sealed"}
                                         /\ c.name \in SealNames
      BY DEF StoreInv, TypeOK, Contents
    <3> QED
      BY <3>1 DEF StoreInv, TempEchoes, Held, Stored, Shadowed, LoadOf, LegacyOf, Exists,
         Readable, SealNames, Absent
  <2> QED BY <2>1, <2>2
<1>1. OneSave /\ OneSave' /\ TypeOK /\ TypeOK'
  BY DEF StoreInv
<1>2. /\ (\A s \in Savers : ~Busy(s)) => Pending = 0
      /\ \A s \in Savers : Busy(s) => Pending = snap[s]
  BY <1>1, PendingIs
<1>3. /\ (\A s \in Savers : pc'[s] = "idle") => Pending' = 0
      /\ \A s \in Savers : pc'[s] # "idle" => Pending' = snap'[s]
  <2>1. ASSUME NEW s \in Savers, pc'[s] # "idle" PROVE Pending' = snap'[s]
    <3>1. (CHOOSE t \in Savers : pc'[t] # "idle") = s
      BY <1>1, <2>1 DEF OneSave, Busy
    <3> QED BY <2>1, <3>1 DEF Pending, Busy
  <2>2. ASSUME \A s \in Savers : pc'[s] = "idle" PROVE Pending' = 0
    BY <2>2 DEF Pending, Busy
  <2> QED BY <2>1, <2>2
<1>4. \A c \in {file, bak, tmp} : c.st \in {"absent", "torn", "sealed"}
  BY <1>1 DEF TypeOK, Contents
<1>5. CASE Launch \/ LoadStep
  <2>1. (\A s \in Savers : pc[s] = "idle") /\ pc' = pc /\ next' = next
    BY <1>1, <1>5 DEF TypeOK, Launch, LoadStep, LoadCanonical, LoadBackup, LoadBackupRead,
       LoadLegacy, LoadLegacyRead, LoadLegacyDone, LoadLast, Restored, LoadGoto, saver
  <2>2. Pending = 0 /\ Pending' = 0
    BY <1>2, <1>3, <2>1 DEF Busy
  <2>3. Held' = Held
    BY <1>4, <1>5 DEF Held, Launch, LoadStep, LoadCanonical, LoadBackup, LoadBackupRead,
       LoadLegacy, LoadLegacyRead, LoadLegacyDone, LoadLast, disk, Exists, Absent
  <2> QED BY <1>0, <2>1, <2>2, <2>3 DEF AH!avars
<1>6. CASE Die
  <2>1. (\A s \in Savers : pc'[s] = "idle") /\ next' = next /\ ~Shadowed
    BY <1>6 DEF Die
  <2>2. Pending' = 0
    BY <1>3, <2>1
  <2>3. Held' = Held
    BY <1>4, <1>6, <2>1 DEF Die, Held, Shadowed, Exists, Absent, Torn
  <2> QED BY <1>0, <2>1, <2>2, <2>3 DEF AH!ANext, AH!ADie
<1>7. ASSUME NEW s \in Savers, SaveBegin(s) PROVE AH!ANext
  <2>1. /\ \A t \in Savers : pc[t] = "idle"
        /\ pc'[s] = "copy" /\ snap'[s] = next /\ Held' = Held
    BY <1>1, <1>7 DEF SaveBegin, TypeOK, Held, disk
  <2>2. Pending = 0 /\ Pending' = next
    BY <1>2, <1>3, <2>1 DEF Busy
  <2> QED BY <1>0, <1>7, <2>1, <2>2 DEF SaveBegin, AH!ANext, AH!ABegin
<1>8. ASSUME NEW s \in Savers, SaveDeleteBak(s) PROVE AH!ANext
  <2>1. Busy(s) /\ next' = next /\ pc' = [pc EXCEPT ![s] = "idle"]
    BY <1>8 DEF SaveDeleteBak, Busy
  <2>2. \A t \in Savers : pc'[t] = "idle"
    BY <1>1, <2>1 DEF OneSave, Busy, TypeOK
  <2>3. Pending = snap[s] /\ Pending' = 0 /\ snap[s] # 0
    <3>1. snap[s] > floor /\ floor \in Nat /\ snap[s] \in Nat
      BY <2>1, StoreAssumption DEF StoreInv, Fresh, TypeOK, Versions
    <3> QED BY <1>2, <1>3, <2>1, <2>2, <3>1
  <2>4. Held = snap[s] /\ Held' = Held
    BY <1>8 DEF StoreInv, SaveShape, SaveDeleteBak, Held, Sealed
  <2> QED BY <1>0, <2>1, <2>3, <2>4 DEF AH!ANext, AH!AReturn
<1>9. ASSUME NEW s \in Savers, SaveStep(s), ~SaveDeleteBak(s)
      PROVE  [AH!ANext]_(AH!avars)
  <2>1. Busy(s) /\ pc'[s] # "idle" /\ next' = next /\ snap' = snap
    BY <1>1, <1>9 DEF Busy, TypeOK, SaveStep, SaveCopy, SaveDelete, SaveDeleteTmp, SaveOpen,
       SaveWrite, SaveVerify, SaveCatch, SaveRename, Goto
  <2>2. Pending = snap[s] /\ Pending' = Pending /\ snap[s] # 0
    <3>1. snap[s] > floor /\ floor \in Nat /\ snap[s] \in Nat
      BY <2>1, StoreAssumption DEF StoreInv, Fresh, TypeOK, Versions
    <3> QED BY <1>2, <1>3, <2>1, <3>1
  <2>3. Held' = Held \/ Held' = snap[s]
    <3> USE <1>4 DEF StoreInv, SaveShape, Held, Exists, Absent, Torn, Sealed, CopyOf, disk
    <3>1. ~Shadowed \/ pc[s] \in {"writing", "verify", "catch"}
      BY <1>1, <2>1 DEF ShadowOnlyInSave, OneSave, Busy
    <3>2. CASE SaveCopy(s)
      BY <3>1, <3>2 DEF SaveCopy, Shadowed
    <3>3. CASE SaveWrite(s)
      BY <3>3 DEF SaveWrite
    <3>4. CASE SaveDelete(s) \/ SaveDeleteTmp(s) \/ SaveOpen(s)
      BY <3>4 DEF SaveDelete, SaveDeleteTmp, SaveOpen
    <3>5. CASE SaveVerify(s) \/ SaveCatch(s) \/ SaveRename(s)
      BY <3>5 DEF SaveVerify, SaveCatch, SaveRename
    <3> QED BY <1>9, <3>2, <3>3, <3>4, <3>5 DEF SaveStep
  <2> QED BY <1>0, <2>1, <2>2, <2>3 DEF AH!ANext, AH!ACommit, AH!avars
<1> QED BY <1>5, <1>6, <1>7, <1>8, <1>9 DEF Next

\* Initial states map to initial states of the atomic cell.
LEMMA InitRefines == ASSUME Calm, Init PROVE AH!AInit
<1>1. StoreInv
  BY InvInit
<1>2. Stored = Held
  BY <1>1, StoredIsHeld
<1>3. PICK d \in InitialDisks : file = d[1] /\ bak = d[2] /\ tmp = d[3]
  BY DEF Init
<1>4. Held \in {0, 1}
  BY <1>3 DEF Held, InitialDisks, Calm, Absent, Sealed
<1>5. Pending = 0
  BY DEF Init, Pending, Busy
<1> QED BY <1>2, <1>4, <1>5 DEF Init, AH!AInit

\* Saves are atomic for every set of savers and every bound: a restart shows
\* the history before a save or after it, and nothing else changes it.
THEOREM StoreIsAtomic == Spec => SavesAreAtomic
<1>1. Init => (Calm => AH!AInit)
  BY InitRefines
<1>2. (Calm => StoreInv) /\ (Calm => StoreInv)' /\ [Next]_vars
        => [Calm => AH!ANext]_(AH!avars)
  <2>1. CASE UNCHANGED vars
    BY <2>1
    DEF vars, AH!avars, Stored, Shadowed, LoadOf, LegacyOf, Readable, Exists, Pending, Busy
  <2>2. ASSUME Next, Calm, StoreInv, StoreInv' PROVE [AH!ANext]_(AH!avars)
    BY <2>2, StepRefines
  <2> QED BY <2>1, <2>2, HazardsFixed DEF Calm
<1> QED BY <1>1, <1>2, StoreInvariant, PTL DEF Spec, SavesAreAtomic

(***************************************************************************)
(* With torn writes, failing copies and reads and the older build's file,  *)
(* a history may be lost, but an outdated one never comes back.            *)
(***************************************************************************)
\* Saves do not overlap.
Sole == "overlap" \notin hazards

\* No copy that load() may come to read is older than the last save that returned:
\* not the canonical file, nor the backup that takes its place, nor the older build's.
NoneStale ==
  /\ file.st = "sealed" => file.ver >= floor
  /\ file.st = "absent" /\ bak.st = "sealed" => bak.ver >= floor
  /\ Readable(tmp, "tmp") => tmp.ver >= floor

\* The older build's temp file is gone before a newer file can be read.
TempGoesFirst ==
  Readable(tmp, "tmp") => /\ ~Readable(file, "enc")
                          /\ file.st = "absent" => ~Readable(bak, "enc")

\* Every list that a save takes is newer than all that was stored.
Ascending ==
  /\ file.ver < next /\ bak.ver < next /\ tmp.ver < next /\ floor < next
  /\ \A s \in Savers : Busy(s) => snap[s] < next /\ snap[s] > floor

SaveCourse(s) ==
  /\ pc[s] \notin {"idle", "copy", "deleteBak"} => (bak.st = "sealed" => bak.ver >= floor)
  /\ pc[s] = "delete" => (Readable(tmp, "tmp") => ~Readable(bak, "enc"))
  /\ pc[s] \in {"open", "writing", "verify", "deleteBak", "catch", "rename"} => tmp.st = "absent"
  /\ pc[s] = "writing" => file = Torn(snap[s])
  /\ pc[s] = "verify" => file \in {Torn(snap[s]), Sealed("enc", snap[s])}
  /\ pc[s] = "deleteBak" => file = Sealed("enc", snap[s])

LoadCourse ==
  /\ app \in {"legacy", "last"} => (file.st = "absent" => bak.st = "absent")
  /\ app \in {"backupRead", "legacyRead"} => file.st # "absent"
  /\ app = "legacyRead" => tmp = CopyOf(file) \/ tmp.st # "sealed"
  /\ app = "legacyDone" => tmp = file /\ Readable(tmp, "tmp")
  /\ app = "last" => (Readable(tmp, "tmp") => file.st = "absent")

SoleInv ==
  /\ TypeOK /\ OneSave /\ NoneStale /\ TempGoesFirst /\ Ascending
  /\ \A s \in Savers : SaveCourse(s)
  /\ LoadCourse

\* The disks an installation starts with hold one history at most.
LEMMA SoleInit == Init => SoleInv
<1> SUFFICES ASSUME Init PROVE SoleInv
  OBVIOUS
<1>1. TypeOK
  BY TypeInit
<1>2. PICK d \in InitialDisks : file = d[1] /\ bak = d[2] /\ tmp = d[3]
  BY DEF Init
<1>3. \/ file \in {Absent, Sealed("enc", 1)} /\ bak = Absent /\ tmp = Absent
      \/ file = Sealed("tmp", 1) /\ bak = Absent /\ tmp \in {Absent, Torn(0)}
      \/ file = Absent /\ bak = Absent /\ tmp = Sealed("tmp", 1)
  BY <1>2 DEF InitialDisks
<1>4. /\ app = "down" /\ next = 2
      /\ \A s \in Savers : pc[s] = "idle"
      /\ floor = IF file.st = "sealed" \/ tmp.st = "sealed" THEN 1 ELSE 0
  BY DEF Init
<1>5. OneSave /\ LoadCourse /\ \A s \in Savers : SaveCourse(s)
  BY <1>4 DEF OneSave, Busy, LoadCourse, SaveCourse
<1>6. NoneStale /\ TempGoesFirst /\ Ascending
  BY <1>3, <1>4 DEF NoneStale, TempGoesFirst, Ascending, Busy, Readable, Absent, Torn, Sealed
<1> QED  BY <1>1, <1>5, <1>6 DEF SoleInv

\* A step of load() reads a copy that is not outdated, or finds none, whatever fails.
LEMMA SoleLoad ==
  ASSUME SoleInv, LoadStep
  PROVE  SoleInv' /\ (app' = "up" => mem' = 0 \/ mem' >= floor)
<1>1. TypeOK /\ TypeOK'
  BY TypeStep DEF SoleInv, Next
<1>2. app # "up" /\ \A s \in Savers : pc[s] = "idle"
  BY <1>1 DEF TypeOK, LoadStep, LoadCanonical, LoadBackup, LoadBackupRead, LoadLegacy,
     LoadLegacyRead, LoadLegacyDone, LoadLast
<1>3. next' = next /\ pc' = pc /\ snap' = snap
  BY DEF LoadStep, LoadCanonical, LoadBackup, LoadBackupRead, LoadLegacy,
     LoadLegacyRead, LoadLegacyDone, LoadLast, Restored, LoadGoto, saver
<1>4. OneSave' /\ \A s \in Savers : SaveCourse(s)' /\ ~Busy(s) /\ ~Busy(s)'
  BY <1>2, <1>3 DEF OneSave, Busy, SaveCourse
<1>5. \A c \in Contents : c.st \in {"absent", "torn", "sealed"} /\ c.ver \in Nat
  BY StoreAssumption DEF Contents, Versions
<1>6. /\ next \in Nat /\ floor \in Nat /\ next > 1
      /\ file \in Contents /\ bak \in Contents /\ tmp \in Contents
  BY <1>1, StoreAssumption DEF TypeOK, Versions
<1>7. /\ NoneStale' /\ TempGoesFirst' /\ Ascending' /\ LoadCourse'
      /\ app' = "up" => mem' = 0 \/ mem' >= floor
  <2> USE <1>3, <1>4, <1>5, <1>6 DEF SoleInv, NoneStale, TempGoesFirst, Ascending, LoadCourse,
          Readable, Exists, Absent, Torn, CopyOf, disk, Restored, LoadGoto
  <2>1. CASE LoadCanonical
    BY <2>1 DEF LoadCanonical
  <2>2. CASE LoadBackup
    BY <2>2 DEF LoadBackup
  <2>3. CASE LoadBackupRead
    BY <2>3 DEF LoadBackupRead
  <2>4. CASE LoadLegacy
    BY <2>4 DEF LoadLegacy
  <2>5. CASE LoadLegacyRead
    BY <2>5 DEF LoadLegacyRead
  <2>6. CASE LoadLegacyDone
    BY <2>6 DEF LoadLegacyDone
  <2>7. CASE LoadLast
    BY <2>7 DEF LoadLast
  <2> QED  BY <2>1, <2>2, <2>3, <2>4, <2>5, <2>6, <2>7 DEF LoadStep
<1> QED  BY <1>1, <1>4, <1>7 DEF SoleInv

\* A save replaces the backup by a copy of the file, or spoils it, before it deletes
\* the file, and the temp file before it writes one.
LEMMA SoleSave ==
  ASSUME Sole, SoleInv, NEW s \in Savers, SaveBegin(s) \/ SaveStep(s)
  PROVE  SoleInv'
<1>1. TypeOK /\ TypeOK'
  BY TypeStep DEF SoleInv, Next
<1>2. app = "up" /\ app' = "up"
  BY <1>1 DEF TypeOK, SaveBegin, SaveStep, SaveCopy, SaveDelete, SaveDeleteTmp, SaveOpen,
     SaveWrite, SaveVerify, SaveDeleteBak, SaveCatch, SaveRename, Goto
<1>3. \A t \in Savers : t # s => pc[t] = "idle" /\ pc'[t] = "idle"
  BY <1>1 DEF Sole, SoleInv, OneSave, Busy, TypeOK, SaveBegin, SaveStep, SaveCopy, SaveDelete,
     SaveDeleteTmp, SaveOpen, SaveWrite, SaveVerify, SaveDeleteBak, SaveCatch, SaveRename, Goto
<1>4. OneSave' /\ LoadCourse'
  BY <1>2, <1>3 DEF OneSave, Busy, LoadCourse
<1>5. \A t \in Savers : t # s => SaveCourse(t)' /\ ~Busy(t)'
  BY <1>3 DEF SaveCourse, Busy
<1>6. \A c \in Contents : c.st \in {"absent", "torn", "sealed"} /\ c.ver \in Nat
  BY StoreAssumption DEF Contents, Versions
<1>7. /\ next \in Nat /\ floor \in Nat /\ next > 1
      /\ file \in Contents /\ bak \in Contents /\ tmp \in Contents
      /\ pc \in [Savers -> SaveSteps] /\ snap \in [Savers -> Nat]
  BY <1>1, StoreAssumption DEF TypeOK, Versions
<1>8. SaveCourse(s)
  BY DEF SoleInv
<1>9. NoneStale' /\ TempGoesFirst' /\ Ascending' /\ SaveCourse(s)'
  <2> USE <1>5, <1>6, <1>7, <1>8 DEF SoleInv, NoneStale, TempGoesFirst, Ascending, Busy, SaveCourse,
          Exists, Absent, Torn, Sealed, CopyOf, disk, Goto, Readable
  <2>1. CASE SaveBegin(s)
    BY <2>1 DEF SaveBegin
  <2>2. CASE SaveCopy(s)
    BY <2>2 DEF SaveCopy
  <2>3. CASE SaveDelete(s)
    BY <2>3 DEF SaveDelete
  <2>4. CASE SaveDeleteTmp(s)
    BY <2>4 DEF SaveDeleteTmp
  <2>5. CASE SaveOpen(s)
    BY <2>5 DEF SaveOpen
  <2>6. CASE SaveWrite(s)
    BY <2>6 DEF SaveWrite
  <2>7. CASE SaveVerify(s)
    BY <2>7 DEF SaveVerify
  <2>8. CASE SaveDeleteBak(s)
    BY <2>8 DEF SaveDeleteBak
  <2>9. CASE SaveCatch(s)
    BY <2>9 DEF SaveCatch
  <2>10. CASE SaveRename(s)
    BY <2>10 DEF SaveRename
  <2> QED  BY <2>1, <2>2, <2>3, <2>4, <2>5, <2>6, <2>7, <2>8, <2>9, <2>10 DEF SaveStep
<1> QED  BY <1>1, <1>4, <1>5, <1>9 DEF SoleInv

\* A death may leave a torn file, or a torn backup, and spoils nothing else.
LEMMA SoleDie == ASSUME SoleInv, Die \/ Launch PROVE SoleInv'
<1>1. TypeOK /\ TypeOK'
  BY TypeStep DEF SoleInv, Next
<1>2. \A s \in Savers : pc'[s] = "idle"
  BY <1>1 DEF Die, Launch, TypeOK, saver
<1>3. OneSave' /\ \A s \in Savers : SaveCourse(s)' /\ ~Busy(s)'
  BY <1>2 DEF OneSave, Busy, SaveCourse
<1>4. app' \in {"down", "read"} /\ UNCHANGED <<file, tmp, next, floor>>
  BY DEF Die, Launch, disk
<1>5. next \in Nat /\ next > 1
  BY <1>1, StoreAssumption DEF TypeOK
<1>6. bak' = bak \/ (bak' \in {Absent, Torn(0)} /\ file.st # "absent")
  BY DEF Die, Launch, disk, Exists
<1>7. NoneStale' /\ TempGoesFirst' /\ Ascending' /\ LoadCourse'
  BY <1>3, <1>4, <1>5, <1>6 DEF SoleInv, NoneStale, TempGoesFirst, Ascending, LoadCourse, Readable,
     Absent, Torn
<1> QED  BY <1>1, <1>3, <1>7 DEF SoleInv

\* Every step keeps it, and a load that ends shows no outdated history.
LEMMA SoleStep ==
  Sole /\ SoleInv /\ [Next]_vars => SoleInv' /\ [LoadEnds => mem' = 0 \/ mem' >= floor]_vars
<1> SUFFICES ASSUME Sole, SoleInv, [Next]_vars
             PROVE  SoleInv' /\ [LoadEnds => mem' = 0 \/ mem' >= floor]_vars
  OBVIOUS
<1>1. CASE UNCHANGED vars
  BY <1>1 DEF vars, SoleInv, TypeOK, OneSave, Busy, NoneStale, TempGoesFirst, Ascending, SaveCourse,
     LoadCourse, Readable
<1>2. CASE Next
  <2>1. SoleInv'
    BY <1>2, SoleLoad, SoleSave, SoleDie DEF Next
  <2>2. LoadEnds => mem' = 0 \/ mem' >= floor
    BY <1>2, OnlyLoadEndsLoad, SoleLoad DEF SoleInv, LoadEnds
  <2> QED  BY <2>1, <2>2
<1> QED  BY <1>1, <1>2

\* The invariant holds in every state of a behaviour whose saves do not overlap.
LEMMA SoleInvariant == Spec => [](Sole => SoleInv)
<1>1. Init => (Sole => SoleInv)
  BY SoleInit
<1>2. (Sole => SoleInv) /\ [Next]_vars => (Sole => SoleInv)'
  BY SoleStep, HazardsFixed DEF Sole
<1> QED  BY <1>1, <1>2, PTL DEF Spec

\* Without a second save beside it, a save gives up the backup only when the
\* canonical file holds exactly the list it was asked to write, whatever else fails.
THEOREM BackupKept == Spec => [](Sole => BackupOutlivesWrite)
<1>1. (Sole => SoleInv) => (Sole => BackupOutlivesWrite)
  BY DEF SoleInv, SaveCourse, BackupOutlivesWrite
<1> QED  BY <1>1, SoleInvariant, PTL

\* Under every hazard but overlapping saves a restart shows a history at least as new
\* as the last one that was reported stored, or none: load() never brings an outdated
\* backup or temp file back.
THEOREM NothingStale == Spec /\ Sole => NoStaleHistory
<1>1. Sole /\ [Next]_vars => Sole'
  BY HazardsFixed DEF Sole
<1>2. Sole /\ SoleInv /\ [Next]_vars => [LoadEnds => mem' = 0 \/ mem' >= floor]_vars
  BY SoleStep
<1> QED  BY <1>1, <1>2, SoleInvariant, PTL DEF Spec, NoStaleHistory
==============================================================================
