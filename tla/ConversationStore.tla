-------------------------- MODULE ConversationStore --------------------------
(***************************************************************************)
(* The encrypted history file (data/local/ConversationStore.kt): the       *)
(* canonical file, the raw backup a save takes before it touches it, and   *)
(* the temp name an older build sealed data under.  load() and save() are  *)
(* modelled one file operation per step; the process may die between any   *)
(* two of them, and a save that throws kills it (its caller is a           *)
(* viewModelScope coroutine without an exception handler).                 *)
(*                                                                         *)
(* A version stands for one List<Conversation>; EncryptedFile is modelled  *)
(* by what the code relies on: ciphertext decrypts only under the name it  *)
(* was sealed with, an unfinished write never decrypts, and openFileOutput *)
(* refuses a file that exists.                                             *)
(***************************************************************************)
EXTENDS Naturals, FiniteSets

CONSTANTS
  Savers,       \* coroutines that may call persist(): replies, deletes, renames
  MaxVersion,   \* bound: versions of the history a behaviour creates
  Environments  \* the sets of adverse events a behaviour may have to live with

AllHazards ==
  { "tornWrite",   \* the process dies while a half-written file shadows the backup
    "copyFails",   \* file.copyTo throws (disk full); runCatching swallows it
    "overlap",     \* two saves run at once on Dispatchers.IO
    "readFails",   \* load() cannot decrypt or copy a good file (Keystore error)
    "tempOnly" }   \* an older build died before its first rename

ASSUME StoreAssumption ==
  /\ MaxVersion \in Nat /\ MaxVersion >= 2
  /\ Environments \subseteq SUBSET AllHazards

VARIABLES
  file, bak, tmp,  \* conversations.enc, .bak and .tmp on disk
  app,             \* "down", a step of load(), or "up" once restored is true
  mem,             \* version held in memory by ChatRepository
  next,            \* next unused version
  pc, snap,        \* per saver: the step of save() it is at, the list it writes
  floor,           \* history variable: the newest version a save reported stored
  hazards          \* the adverse events of this behaviour; fixed by Init

disk == <<file, bak, tmp>>
saver == <<pc, snap>>
vars == <<file, bak, tmp, app, mem, next, pc, snap, floor, hazards>>

(***************************************************************************)
(* File contents.                                                          *)
(***************************************************************************)
Versions == 0..MaxVersion
SealNames == {"enc", "tmp"}

Absent == [st |-> "absent", name |-> "enc", ver |-> 0]
Torn(v) == [st |-> "torn", name |-> "enc", ver |-> v]
Sealed(n, v) == [st |-> "sealed", name |-> n, ver |-> v]

Contents == [st : {"absent", "torn", "sealed"}, name : SealNames, ver : Versions]

Exists(c) == c.st # "absent"

\* readEncrypted(): the content decrypts under the name it is read by.
Readable(c, n) == c.st = "sealed" /\ c.name = n

\* A raw copy keeps the seal; a copy of an unfinished file is nobody's write.
CopyOf(c) == IF c.st = "torn" THEN Torn(0) ELSE c

LoadSteps == {"read", "backup", "backupRead", "legacy", "legacyRead",
              "legacyDone", "last"}
SaveSteps == {"idle", "copy", "delete", "deleteTmp", "open", "writing",
              "verify", "deleteBak", "catch", "rename", "threw"}

TypeOK ==
  /\ file \in Contents /\ bak \in Contents /\ tmp \in Contents
  /\ app \in {"down", "up"} \cup LoadSteps
  /\ mem \in Versions /\ floor \in Versions
  /\ next \in 2..(MaxVersion + 1)
  /\ pc \in [Savers -> SaveSteps]
  /\ snap \in [Savers -> Versions]
  /\ hazards \in Environments
  /\ app # "up" => \A s \in Savers : pc[s] = "idle"   \* persist() waits for restore()

\* Disks an installation can start with: a fresh one, or what the older build
\* left, which sealed under the temp name and then renamed.
InitialDisks ==
  { <<Absent, Absent, Absent>>,
    <<Sealed("enc", 1), Absent, Absent>>,
    <<Sealed("tmp", 1), Absent, Absent>>,
    <<Sealed("tmp", 1), Absent, Torn(0)>> }
  \cup IF "tempOnly" \in hazards
       THEN {<<Absent, Absent, Sealed("tmp", 1)>>} ELSE {}

Init ==
  /\ hazards \in Environments
  /\ \E d \in InitialDisks : file = d[1] /\ bak = d[2] /\ tmp = d[3]
  /\ app = "down" /\ mem = 0 /\ next = 2
  /\ pc = [s \in Savers |-> "idle"] /\ snap = [s \in Savers |-> 0]
  /\ floor = IF \E c \in {file, tmp} : c.st = "sealed" THEN 1 ELSE 0

(***************************************************************************)
(* load().                                                                 *)
(***************************************************************************)
Launch == app = "down" /\ app' = "read"
          /\ UNCHANGED <<disk, mem, next, saver, floor, hazards>>

\* restore() publishes the list and opens the gate that persist() tests.
Restored(v) == app' = "up" /\ mem' = v /\ floor' = v
               /\ UNCHANGED <<next, saver, hazards>>

LoadGoto(step) == app' = step /\ UNCHANGED <<mem, next, saver, floor, hazards>>

\* A read that fails although the content is good.
Unlucky == "readFails" \in hazards

LoadCanonical ==
  /\ app = "read"
  /\ UNCHANGED disk
  /\ \/ Readable(file, "enc") /\ Restored(file.ver)
     \/ (~Readable(file, "enc") \/ Unlucky) /\ LoadGoto("backup")

\* Mutation: the backup is removed, not moved to the canonical name.
LoadBackupDropped ==
  /\ app = "backup"
  /\ bak' = Absent /\ UNCHANGED <<file, tmp>> /\ LoadGoto("legacy")

LoadBackup ==
  /\ app = "backup"
  /\ IF Exists(bak) /\ ~Exists(file)
     THEN file' = bak /\ bak' = Absent /\ UNCHANGED tmp /\ LoadGoto("backupRead")
     ELSE UNCHANGED disk /\ LoadGoto("legacy")

LoadBackupRead ==
  /\ app = "backupRead"
  /\ UNCHANGED disk
  /\ \/ Readable(file, "enc") /\ Restored(file.ver)
     \/ (~Readable(file, "enc") \/ Unlucky) /\ LoadGoto("legacy")

LoadLegacy ==
  /\ app = "legacy"
  /\ IF Exists(file)
     THEN /\ \/ tmp' = CopyOf(file)
             \/ Unlucky /\ tmp' \in {Absent, Torn(0)}
          /\ UNCHANGED <<file, bak>> /\ LoadGoto("legacyRead")
     ELSE UNCHANGED disk /\ LoadGoto("last")

LoadLegacyRead ==
  /\ app = "legacyRead"
  /\ \/ Readable(tmp, "tmp") /\ UNCHANGED disk /\ LoadGoto("legacyDone")
     \/ /\ ~Readable(tmp, "tmp") \/ Unlucky
        /\ tmp' = Absent /\ UNCHANGED <<file, bak>> /\ LoadGoto("last")

LoadLegacyDone ==
  /\ app = "legacyDone"
  /\ tmp' = Absent /\ UNCHANGED <<file, bak>>
  /\ Restored(tmp.ver)

LoadLast ==
  /\ app = "last"
  /\ UNCHANGED disk
  /\ \/ Readable(tmp, "tmp") /\ Restored(tmp.ver)
     \/ (~Readable(tmp, "tmp") \/ Unlucky) /\ Restored(0)

(***************************************************************************)
(* save().  Goto moves one saver; the in-memory state stays as it is.      *)
(***************************************************************************)
Goto(s, step) == pc' = [pc EXCEPT ![s] = step]
                 /\ UNCHANGED <<app, mem, next, snap, floor, hazards>>

\* persist(): the list changed and is written back; a no-op until restored.
SaveBegin(s) ==
  /\ app = "up" /\ pc[s] = "idle" /\ next <= MaxVersion
  /\ "overlap" \in hazards \/ \A t \in Savers : pc[t] = "idle"
  /\ mem' = next /\ next' = next + 1
  /\ snap' = [snap EXCEPT ![s] = next]
  /\ pc' = [pc EXCEPT ![s] = "copy"]
  /\ UNCHANGED <<disk, app, floor, hazards>>

\* Mutation: no backup is taken.
SaveCopySkipped(s) == pc[s] = "copy" /\ UNCHANGED disk /\ Goto(s, "delete")

\* Mutation: copyTo without overwrite = true keeps a backup that exists.
SaveCopyNoOverwrite(s) ==
  /\ pc[s] = "copy"
  /\ bak' = IF Exists(file) /\ ~Exists(bak) THEN CopyOf(file) ELSE bak
  /\ UNCHANGED <<file, tmp>>
  /\ Goto(s, "delete")

SaveCopy(s) ==
  /\ pc[s] = "copy"
  /\ \/ bak' = IF Exists(file) THEN CopyOf(file) ELSE bak
     \/ Exists(file) /\ "copyFails" \in hazards /\ bak' \in {Absent, Torn(0)}
  /\ UNCHANGED <<file, tmp>>
  /\ Goto(s, "delete")

SaveDelete(s) ==
  /\ pc[s] = "delete"
  /\ file' = Absent /\ UNCHANGED <<bak, tmp>>
  /\ Goto(s, "deleteTmp")

SaveDeleteTmp(s) ==
  /\ pc[s] = "deleteTmp"
  /\ tmp' = Absent /\ UNCHANGED <<file, bak>>
  /\ Goto(s, "open")

\* openFileOutput(): refuses an existing file, and may fail by itself.
SaveOpen(s) ==
  /\ pc[s] = "open"
  /\ \/ ~Exists(file) /\ file' = Torn(snap[s]) /\ UNCHANGED <<bak, tmp>>
        /\ Goto(s, "writing")
     \/ UNCHANGED disk /\ Goto(s, "catch")

\* The bytes reach the file only while it is still the one this save created;
\* a write may also throw, or end with content that does not decrypt.
SaveWrite(s) ==
  /\ pc[s] = "writing"
  /\ \/ file' = (IF file = Torn(snap[s]) THEN Sealed("enc", snap[s]) ELSE file)
        /\ Goto(s, "verify")
     \/ UNCHANGED file /\ Goto(s, "verify")
     \/ UNCHANGED file /\ Goto(s, "catch")
  /\ UNCHANGED <<bak, tmp>>

\* Mutation: the read-back is not tested.
SaveVerifySkipped(s) ==
  /\ pc[s] = "verify" /\ UNCHANGED disk /\ Goto(s, "deleteBak")

SaveVerify(s) ==
  /\ pc[s] = "verify"
  /\ UNCHANGED disk
  /\ \/ Readable(file, "enc") /\ Goto(s, "deleteBak")
     \/ (~Readable(file, "enc") \/ Unlucky) /\ Goto(s, "catch")

\* The last step of a save that succeeds: its caller is told it is stored.
SaveDeleteBak(s) ==
  /\ pc[s] = "deleteBak"
  /\ bak' = Absent /\ UNCHANGED <<file, tmp>>
  /\ pc' = [pc EXCEPT ![s] = "idle"]
  /\ floor' = IF snap[s] > floor THEN snap[s] ELSE floor
  /\ UNCHANGED <<app, mem, next, snap, hazards>>

SaveCatch(s) ==
  /\ pc[s] = "catch"
  /\ UNCHANGED <<bak, tmp>>
  /\ IF Exists(bak) THEN file' = Absent /\ Goto(s, "rename")
                    ELSE UNCHANGED file /\ Goto(s, "threw")

SaveRename(s) ==
  /\ pc[s] = "rename"
  /\ IF Exists(bak) THEN file' = bak /\ bak' = Absent
                    ELSE UNCHANGED <<file, bak>>
  /\ UNCHANGED tmp /\ Goto(s, "threw")

(***************************************************************************)
(* Process death: the OS kills the app, or a save threw.                   *)
(***************************************************************************)
\* load() reads the backup only if the canonical file is absent, so an
\* unfinished canonical file hides it.
Shadowed == file.st = "torn" /\ bak.st = "sealed"

Die ==
  /\ app # "down"
  /\ "tornWrite" \in hazards \/ ~Shadowed
  /\ app' = "down" /\ mem' = 0
  /\ pc' = [s \in Savers |-> "idle"] /\ snap' = [s \in Savers |-> 0]
  /\ UNCHANGED <<file, tmp, next, floor, hazards>>
  /\ \/ UNCHANGED bak
     \/ (\E s \in Savers : pc[s] = "copy") /\ Exists(file)   \* copyTo cut short
        /\ bak' \in {Absent, Torn(0)}

LoadStep == \/ LoadCanonical \/ LoadBackup \/ LoadBackupRead \/ LoadLegacy
            \/ LoadLegacyRead \/ LoadLegacyDone \/ LoadLast

SaveStep(s) == \/ SaveCopy(s) \/ SaveDelete(s) \/ SaveDeleteTmp(s) \/ SaveOpen(s)
               \/ SaveWrite(s) \/ SaveVerify(s) \/ SaveDeleteBak(s)
               \/ SaveCatch(s) \/ SaveRename(s)

Next == \/ Launch
        \/ LoadStep
        \/ \E s \in Savers : SaveBegin(s) \/ SaveStep(s)
        \/ Die

Spec == Init /\ [][Next]_vars

(***************************************************************************)
(* What a complete load() of a given disk returns.                         *)
(***************************************************************************)
LegacyOf(f, t) == IF Exists(f)
                  THEN IF Readable(f, "tmp") THEN f.ver ELSE 0
                  ELSE IF Readable(t, "tmp") THEN t.ver ELSE 0

LoadOf(f, b, t) ==
  LET g == IF Exists(f) THEN f ELSE b
  IN  IF Readable(g, "enc") THEN g.ver ELSE LegacyOf(g, t)

\* The history the disk stands for: a backup hidden by an unfinished write
\* still counts, since the save in flight will finish or restore it.
Stored == IF Shadowed THEN LoadOf(Absent, bak, tmp) ELSE LoadOf(file, bak, tmp)

Busy(s) == pc[s] # "idle"
Pending == IF \E s \in Savers : Busy(s)
           THEN snap[CHOOSE s \in Savers : Busy(s)] ELSE 0

(***************************************************************************)
(* Properties.                                                             *)
(***************************************************************************)
LoadEnds == app \in LoadSteps /\ app' = "up"

\* "a failed write can't destroy existing history" (save(), lines 110-111):
\* what restore() shows after any crash or failed save is at least as new as
\* the newest save that returned normally.
AlwaysSurvives == [][LoadEnds => mem' >= floor]_vars

\* Writes may fail and the process may die between file operations, but none of
\* the adverse events happens.
Calm == hazards = {}

\* What does hold: the same, in a calm environment.
HistorySurvives == [][Calm /\ LoadEnds => mem' >= floor]_vars

\* Weaker, under every hazard but overlapping saves: a restart shows either a
\* history at least as new as the last one reported stored or none at all --
\* never an outdated backup or temp file resurrected by load().
NoStaleHistory == [][LoadEnds => mem' = 0 \/ mem' >= floor]_vars

\* Before a save that follows load() discards the only other copy
\* (deleteBak), the canonical file holds exactly the list that was passed in.
BackupOutlivesWrite ==
  \A s \in Savers : pc[s] = "deleteBak" => file = Sealed("enc", snap[s])

\* In a calm environment a save is one atomic replacement of the history: the
\* store implements AtomicHistory, with the disk read through load() as the cell.
AH == INSTANCE AtomicHistory WITH stored <- Stored, pending <- Pending
SavesAreAtomic == (Calm => AH!AInit) /\ [][Calm => AH!ANext]_(AH!avars)
==============================================================================
