---------------------------- MODULE ModelManager ----------------------------
(***************************************************************************)
(* The model lifecycle: ModelManager.kt with the GPU crash guard           *)
(* (GpuGuard.kt), the persisted selection (ModelStore.kt) and the native   *)
(* context it drives (LLamaAndroid.load/unload).                           *)
(*                                                                         *)
(* Every management operation is a job that holds the mutex; waiting jobs  *)
(* queue in order.  A job is cut where the code suspends (withContext on   *)
(* the native thread or on Dispatchers.IO): there a cancellation is seen,  *)
(* and the user, the OS or a GPU driver may act.  The transfer itself is   *)
(* one step here.                                                          *)
(***************************************************************************)
EXTENDS Naturals, Sequences

CONSTANTS
  Files,     \* model file names
  None,      \* no file
  GpuRungs,  \* rungs of GPU_LAYER_LADDER above 0; rung 0 is the CPU
  MaxQueue   \* bound: jobs waiting for the mutex

ASSUME ManagerAssumption ==
  /\ None \notin Files
  /\ GpuRungs \in Nat \ {0} /\ MaxQueue \in Nat \ {0}

VARIABLES
  up,         \* the process runs
  state,      \* _state: [k, file]
  transfer,   \* _transfer
  backend,    \* backend # null
  native,     \* the model the native thread holds, None when Idle
  installed,  \* _installed: [names, active]
  pc, job,    \* the step and the operation of the mutex holder
  rung,       \* rung of the ladder being tried
  queue,      \* operations waiting for the mutex
  early,      \* the refresh launched by init: it has "read" the disk, was
              \* "overtaken" by the startup load, or is "done"
  files, store, gpu,  \* on disk: model files, ModelStore, the GpuGuard prefs
  aborted,    \* history variable: a GPU load killed the process and the user
              \* has not asked for the GPU since that load began
  asked,      \* history variable: the user asked for it while the load ran
  disturbed,  \* history variable: an operation was cancelled after it had begun
              \* to change the loaded model, and no load has ended since
  unlisted,   \* history variable: the published list is known to be outdated
  orphaned    \* history variable: a replacement that failed has deleted the file
              \* of the model that is loaded

persistent == <<files, store, gpu>>
history == <<aborted, asked, disturbed, orphaned>>
listing == <<installed, unlisted>>
vars == <<up, state, transfer, backend, native, listing, pc, job, rung, queue,
          early, persistent, history>>

Names == Files \cup {None}
NotLoaded == [k |-> "NotLoaded", file |-> None]
Loading(f) == [k |-> "Loading", file |-> f]
Ready(f) == [k |-> "Ready", file |-> f]
Error == [k |-> "Error", file |-> None]

Ops == {"reload", "select", "delete", "unload", "download", "import"}
\* latest: the job downloadJob points to; cancelled: its Job was cancelled;
\* had (history): the model chats were routed to when the job took the mutex.
Jobs == [op : Ops, file : Names, latest : BOOLEAN, cancelled : BOOLEAN, had : Names]
Job(op, f) == [op |-> op, file |-> f, latest |-> op = "download", cancelled |-> FALSE,
               had |-> None]
Reload == Job("reload", None)

Steps == {"free", "begin", "transfer", "load", "attempt", "freed", "native", "loaded",
          "failed", "finish", "deleteFree", "deleteFile", "unloaded"}
LoadPhase == {"load", "attempt", "freed", "native", "loaded", "failed", "finish"}

Lists == [names : SUBSET Files, active : Names]
EmptyList == [names |-> {}, active |-> None]

TypeOK ==
  /\ {up, backend, aborted, asked, disturbed, unlisted, orphaned} \subseteq BOOLEAN
  /\ state \in [k : {"NotLoaded", "Loading", "Ready", "Error"}, file : Names]
  /\ transfer \in {"Idle", "Downloading", "Importing", "Failed"}
  /\ native \in Names /\ store \in Names /\ files \subseteq Files
  /\ installed \in Lists
  /\ pc \in Steps /\ job \in Jobs /\ rung \in 0..GpuRungs
  /\ queue \in Seq(Jobs) /\ Len(queue) <= MaxQueue
  /\ early \in {"read", "overtaken", "done"}
  /\ gpu \in [user : BOOLEAN, disabled : BOOLEAN, attempting : BOOLEAN]

Init ==
  /\ up = FALSE /\ state = NotLoaded /\ transfer = "Idle" /\ backend = FALSE
  /\ native = None /\ installed = EmptyList /\ pc = "free" /\ job = Reload
  /\ rung = 0 /\ queue = <<>> /\ early = "done"
  /\ files = {} /\ store = None
  /\ gpu = [user |-> TRUE, disabled |-> FALSE, attempting |-> FALSE]
  /\ aborted = FALSE /\ asked = FALSE /\ disturbed = FALSE /\ unlisted = FALSE
  /\ orphaned = FALSE

(***************************************************************************)
(* refreshInstalled(): the list on disk with the active file flagged.      *)
(***************************************************************************)
ListNow(s, fs) == [names |-> fs,
                   active |-> IF s.k \in {"Loading", "Ready"} /\ s.file \in fs
                              THEN s.file ELSE None]
refreshInstalled(s, fs) == installed' = ListNow(s, fs) /\ unlisted' = FALSE

(***************************************************************************)
(* Requests.  The screens (SettingsScreen.kt, ChatScreen.kt) offer the     *)
(* files of the published list to select and delete, and those missing     *)
(* from it to download; Settings disables its buttons during a transfer.   *)
(* The chat picker and the GPU, context and thread controls stay enabled.  *)
(***************************************************************************)
Transferring == transfer \in {"Downloading", "Importing"}
AppState == <<up, state, transfer, backend, native, listing, pc, job, rung, early>>

Enqueue(j) == Len(queue) < MaxQueue /\ queue' = Append(queue, j)

startSelect(f) == /\ up /\ f \in installed.names /\ Enqueue(Job("select", f))
                  /\ UNCHANGED <<AppState, persistent, history>>

startDelete(f) == /\ up /\ ~Transferring /\ f \in installed.names
                  /\ Enqueue(Job("delete", f))
                  /\ UNCHANGED <<AppState, persistent, history>>

startImport(f) == /\ up /\ ~Transferring /\ Enqueue(Job("import", f))
                  /\ UNCHANGED <<AppState, persistent, history>>

\* Settings shows Unload only while a model is ready.
startUnload == /\ up /\ state.k = "Ready" /\ Enqueue(Job("unload", None))
               /\ UNCHANGED <<AppState, persistent, history>>

\* downloadJob now points to the new job, whatever the old one is doing.
Forget(j) == [j EXCEPT !.latest = FALSE]
startDownload(f) ==
  /\ up /\ ~Transferring /\ f \notin installed.names /\ Len(queue) < MaxQueue
  /\ queue' = Append([i \in DOMAIN queue |-> Forget(queue[i])], Job("download", f))
  /\ job' = Forget(job)
  /\ UNCHANGED <<up, state, transfer, backend, native, listing, pc, rung, early,
                 persistent, history>>

\* A reload asked for right behind a waiting reload is that reload: it can be
\* asked for again, with the same effect, once the first one holds the mutex.
EnqueueReload == IF queue # <<>> /\ queue[Len(queue)] = Reload THEN UNCHANGED queue
                                                             ELSE Enqueue(Reload)

\* setContextTokens() and setThreadCount(): the new value, then a reload.
reloadActive == /\ up /\ EnqueueReload
                /\ UNCHANGED <<AppState, persistent, history>>

clearTransfer == /\ transfer = "Failed" /\ transfer' = "Idle"
                 /\ UNCHANGED <<up, state, backend, native, listing, pc, job, rung,
                                queue, early, persistent, history>>

\* GpuGuard.setUserEnabled() is not under the mutex; a reload follows.
GpuLoadRuns == pc \in {"native", "loaded", "failed"} /\ rung > 0
setGpuEnabled(on) ==
  /\ up /\ gpu.user # on /\ EnqueueReload
  /\ gpu' = [user |-> on,
             disabled |-> gpu.disabled /\ ~on,
             attempting |-> gpu.attempting /\ ~on]
  /\ aborted' = (aborted /\ ~on)
  /\ asked' = (asked \/ (on /\ GpuLoadRuns))
  /\ UNCHANGED <<AppState, files, store, disturbed, orphaned>>

\* cancelDownload(): a waiting job is gone, a running one sees it when it next
\* suspends or resumes.
Cancellable(j) == j.op = "download" /\ j.latest /\ ~j.cancelled
cancelDownload ==
  /\ up
  /\ \/ /\ pc \notin {"free", "finish"} /\ Cancellable(job)
        /\ disturbed' = (disturbed \/ pc \in LoadPhase)
        /\ job' = [job EXCEPT !.cancelled = TRUE] /\ UNCHANGED queue
     \/ /\ \E i \in DOMAIN queue :
             /\ Cancellable(queue[i])
             /\ queue' = SubSeq(queue, 1, i - 1) \o SubSeq(queue, i + 1, Len(queue))
        /\ UNCHANGED <<job, disturbed>>
  /\ UNCHANGED <<up, state, transfer, backend, native, listing, pc, rung, early,
                 persistent, aborted, asked, orphaned>>

\* The user leaves Settings: viewModelScope cancels the unload it launched.
leaveSettings ==
  /\ up /\ pc # "free" /\ job.op = "unload" /\ ~job.cancelled
  /\ job' = [job EXCEPT !.cancelled = TRUE]
  /\ disturbed' = (disturbed \/ pc = "unloaded")
  /\ UNCHANGED <<up, state, transfer, backend, native, listing, pc, rung, queue, early,
                 persistent, aborted, asked, orphaned>>

(***************************************************************************)
(* The mutex holder.                                                       *)
(***************************************************************************)
Others == <<up, queue, early>>
Keep == UNCHANGED <<Others, history>>
\* The state no longer names the model that was loaded.
GivesUp == orphaned' = FALSE /\ UNCHANGED <<Others, aborted, asked, disturbed>>

\* withLock: first come, first served.  Bound: only the startup load overtakes the
\* first refresh, which never suspends, between its read and its publication.
Acquire ==
  /\ up /\ pc = "free" /\ queue # <<>>
  /\ early # "overtaken" /\ early' = IF early = "read" THEN "overtaken" ELSE early
  /\ job' = [Head(queue) EXCEPT !.had = IF backend THEN native ELSE None]
  /\ queue' = Tail(queue) /\ pc' = "begin"
  /\ UNCHANGED <<up, state, transfer, backend, native, listing, rung,
                 persistent, history>>

Release == pc' = "free" /\ job' = Reload /\ rung' = 0
LoadFile(f) == pc' = "load" /\ job' = [job EXCEPT !.file = f] /\ UNCHANGED rung

\* loadActiveModelIfPresent()
BeginReload ==
  /\ pc = "begin" /\ job.op = "reload"
  /\ IF store \in files
     THEN LoadFile(store) /\ UNCHANGED <<store, listing>>
     ELSE store' = None /\ Release /\ refreshInstalled(state, files)
  /\ UNCHANGED <<state, transfer, backend, native, files, gpu>> /\ Keep

\* Mutation: nothing to do when any model is loaded.
BeginSelectAnyLoaded ==
  /\ pc = "begin" /\ job.op = "select"
  /\ UNCHANGED <<state, files>>
  /\ IF job.file \notin files THEN Release /\ refreshInstalled(state, files)
     ELSE /\ IF backend THEN Release ELSE LoadFile(job.file)
          /\ UNCHANGED listing
  /\ UNCHANGED <<transfer, backend, native, store, gpu>> /\ Keep

\* selectInstalled(): nothing to do for the file that is active already.
BeginSelect ==
  /\ pc = "begin" /\ job.op = "select"
  /\ UNCHANGED <<state, files>>
  /\ IF job.file \notin files THEN Release /\ refreshInstalled(state, files)
     ELSE /\ IF store = job.file /\ backend THEN Release ELSE LoadFile(job.file)
          /\ UNCHANGED listing
  /\ UNCHANGED <<transfer, backend, native, store, gpu>> /\ Keep

\* Mutation: room is made for the new model before its bytes have arrived.
BeginTransferUnloads ==
  /\ pc = "begin" /\ job.op \in {"download", "import"}
  /\ transfer' = (IF job.op = "download" THEN "Downloading" ELSE "Importing")
  /\ native' = None /\ backend' = FALSE /\ state' = NotLoaded
  /\ pc' = "transfer" /\ UNCHANGED <<job, rung>>
  /\ UNCHANGED <<listing, persistent>> /\ Keep

BeginTransfer ==
  /\ pc = "begin" /\ job.op \in {"download", "import"}
  /\ transfer' = (IF job.op = "download" THEN "Downloading" ELSE "Importing")
  /\ pc' = "transfer" /\ UNCHANGED <<job, rung>>
  /\ UNCHANGED <<state, backend, native, listing, persistent>> /\ Keep

\* finalize() and importFrom() delete the installed file and then rename the new one
\* to its name.  A transfer that ends without a load has left the files alone, or has
\* lost the target because the rename failed; nothing is published then.  (A death
\* between the two is this ending, with a death behind it.)
NotPromoted == UNCHANGED <<files, unlisted, orphaned>>
TargetLost ==
  /\ job.file \in files /\ files' = files \ {job.file}
  /\ unlisted' = TRUE /\ orphaned' = (orphaned \/ state.file = job.file)

\* A download that is cancelled after finalize() leaves the promoted file; one that
\* is cancelled while a failed mirror's part is deleted leaves Downloading behind.
EndTransfer ==
  /\ pc = "transfer"
  /\ \/ /\ ~job.cancelled
        /\ transfer' = "Idle" /\ files' = files \cup {job.file} /\ LoadFile(job.file)
        /\ UNCHANGED <<unlisted, orphaned>>
     \/ /\ ~job.cancelled
        /\ transfer' = "Failed" /\ Release /\ (NotPromoted \/ TargetLost)
     \/ /\ job.cancelled /\ Release
        /\ \/ /\ transfer' = "Idle" /\ files' = files \cup {job.file}
              /\ unlisted' = TRUE /\ UNCHANGED orphaned
           \/ transfer' \in {"Idle", transfer} /\ (NotPromoted \/ TargetLost)
  /\ UNCHANGED <<state, backend, native, installed, store, gpu>>
  /\ UNCHANGED <<Others, aborted, asked, disturbed>>

\* deleteInstalled()
BeginDelete ==
  /\ pc = "begin" /\ job.op = "delete"
  /\ IF store = job.file THEN native' = None /\ pc' = "deleteFree"
                         ELSE pc' = "deleteFile" /\ UNCHANGED native
  /\ UNCHANGED <<job, rung, state, transfer, backend, listing, persistent>> /\ Keep

\* Mutation: the backend outlives the context it wraps.
DeleteFreedKeepsBackend ==
  /\ pc = "deleteFree"
  /\ store' = None /\ state' = NotLoaded
  /\ pc' = "deleteFile"
  /\ UNCHANGED <<job, rung, transfer, backend, native, listing, files, gpu>> /\ GivesUp

DeleteFreed ==
  /\ pc = "deleteFree"
  /\ backend' = FALSE /\ store' = None /\ state' = NotLoaded
  /\ pc' = "deleteFile"
  /\ UNCHANGED <<job, rung, transfer, native, listing, files, gpu>> /\ GivesUp

\* Mutation: the list is not published again after the file is gone.
DeleteFileUnlisted ==
  /\ pc = "deleteFile"
  /\ files' = files \ {job.file} /\ UNCHANGED <<state, listing>>
  /\ Release
  /\ UNCHANGED <<transfer, backend, native, store, gpu>> /\ Keep

DeleteFile ==
  /\ pc = "deleteFile"
  /\ files' = files \ {job.file} /\ UNCHANGED state
  /\ refreshInstalled(state, files \ {job.file})
  /\ Release
  /\ UNCHANGED <<transfer, backend, native, store, gpu>> /\ Keep

\* unload(): cancelled before the native thread takes it, or when it returns.
BeginUnload ==
  /\ pc = "begin" /\ job.op = "unload"
  /\ IF job.cancelled THEN Release /\ UNCHANGED native
                      ELSE native' = None /\ pc' = "unloaded" /\ UNCHANGED <<job, rung>>
  /\ UNCHANGED <<state, transfer, backend, listing, persistent>> /\ Keep

Unloaded ==
  /\ pc = "unloaded"
  /\ Release
  /\ IF job.cancelled THEN UNCHANGED <<backend, store, state, listing, files>> /\ Keep
     ELSE /\ backend' = FALSE /\ store' = None /\ state' = NotLoaded
          /\ UNCHANGED files /\ refreshInstalled(NotLoaded, files) /\ GivesUp
  /\ UNCHANGED <<transfer, native, gpu>>

\* loadIntoContext(): publish Loading, then ask the guard where to start.
layersToOffload ==
  IF ~gpu.user THEN gpu
  ELSE [gpu EXCEPT !.disabled = gpu.disabled \/ gpu.attempting, !.attempting = FALSE]

LoadIntoContext ==
  /\ pc = "load"
  /\ state' = Loading(job.file) /\ UNCHANGED files
  /\ refreshInstalled(Loading(job.file), files)
  /\ gpu' = layersToOffload
  /\ rung' = IF gpu.user /\ ~gpu'.disabled THEN GpuRungs ELSE 0
  /\ pc' = "attempt" /\ UNCHANGED job
  /\ UNCHANGED <<transfer, backend, native, store>> /\ GivesUp

\* Mutation: the ladder ends without publishing the failure.
AttemptFailedSilently ==
  /\ gpu' = [gpu EXCEPT !.attempting = FALSE] /\ backend' = FALSE
  /\ IF rung > 0 THEN rung' = rung - 1 /\ pc' = "attempt"
                 ELSE pc' = "finish" /\ UNCHANGED rung
  /\ UNCHANGED <<job, state, transfer, native, listing, files, store>> /\ Keep

\* Mutation: the ladder runs past its last rung.
AttemptFailedOffByOne ==
  /\ gpu' = [gpu EXCEPT !.attempting = FALSE] /\ backend' = FALSE
  /\ IF rung >= 0 THEN rung' = rung - 1 /\ pc' = "attempt" /\ UNCHANGED state
                  ELSE state' = Error /\ pc' = "finish" /\ UNCHANGED rung
  /\ UNCHANGED <<job, transfer, native, listing, files, store>> /\ Keep

\* attemptLoad() caught an exception, a cancellation included: the next rung,
\* or the end of the ladder.
AttemptFailed ==
  /\ gpu' = [gpu EXCEPT !.attempting = FALSE] /\ backend' = FALSE
  /\ IF rung > 0 THEN rung' = rung - 1 /\ pc' = "attempt" /\ UNCHANGED state
                 ELSE state' = Error /\ pc' = "finish" /\ UNCHANGED rung
  /\ UNCHANGED <<job, transfer, native, listing, files, store>> /\ Keep

\* Mutation: the context is freed only if a backend wraps it.
AttemptFreeBackendOnly ==
  /\ pc = "attempt" /\ ~job.cancelled
  /\ native' = (IF backend THEN None ELSE native) /\ pc' = "freed"
  /\ UNCHANGED <<job, rung, state, transfer, backend, listing, persistent>> /\ Keep

AttemptFree ==
  /\ pc = "attempt" /\ ~job.cancelled
  /\ native' = None /\ pc' = "freed"
  /\ UNCHANGED <<job, rung, state, transfer, backend, listing, persistent>> /\ Keep

\* Mutation: no marker is written before a GPU load.
AttemptBeginUnmarked ==
  /\ pc = "freed" /\ ~job.cancelled
  /\ backend' = FALSE /\ pc' = "native"
  /\ UNCHANGED <<job, rung, state, transfer, native, listing, files, store, gpu>>
  /\ asked' = FALSE /\ UNCHANGED <<Others, aborted, disturbed, orphaned>>

\* GpuGuard.beginAttempt(): the marker is on disk before the native load.
AttemptBegin ==
  /\ pc = "freed" /\ ~job.cancelled
  /\ backend' = FALSE
  /\ gpu' = [gpu EXCEPT !.attempting = gpu.attempting \/ rung > 0]
  /\ pc' = "native"
  /\ UNCHANGED <<job, rung, state, transfer, native, listing, files, store>>
  /\ asked' = FALSE /\ UNCHANGED <<Others, aborted, disturbed, orphaned>>

AttemptNative ==
  /\ pc = "native" /\ ~job.cancelled
  /\ \/ native' = job.file /\ pc' = "loaded"
     \/ pc' = "failed" /\ UNCHANGED native
  /\ UNCHANGED <<job, rung, state, transfer, backend, listing, persistent>> /\ Keep

AttemptReady ==
  /\ pc = "loaded" /\ ~job.cancelled
  /\ gpu' = [gpu EXCEPT !.attempting = FALSE]
  /\ backend' = TRUE /\ state' = Ready(job.file)
  /\ pc' = "finish"
  /\ UNCHANGED <<job, rung, transfer, native, listing, files, store>> /\ Keep

AttemptThrows ==
  /\ \/ pc = "failed"
     \/ pc \in {"attempt", "freed", "native", "loaded"} /\ job.cancelled
  /\ AttemptFailed

\* After the ladder: remember a model the user chose, publish the list.
Finish ==
  /\ pc = "finish"
  /\ store' = IF job.op # "reload" /\ state.k = "Ready" THEN job.file ELSE store
  /\ UNCHANGED <<state, files>> /\ refreshInstalled(state, files)
  /\ Release
  /\ UNCHANGED <<transfer, backend, native, gpu>>
  /\ disturbed' = (disturbed /\ job.cancelled) /\ UNCHANGED <<Others, aborted, asked, orphaned>>

JobStep == \/ BeginReload \/ BeginSelect \/ BeginTransfer \/ EndTransfer
           \/ BeginDelete \/ DeleteFreed \/ DeleteFile \/ BeginUnload \/ Unloaded
           \/ LoadIntoContext \/ AttemptFree \/ AttemptBegin \/ AttemptNative
           \/ AttemptReady \/ AttemptThrows \/ Finish

(***************************************************************************)
(* Process start and death.                                                *)
(***************************************************************************)
Launch ==
  /\ ~up /\ up' = TRUE
  /\ queue' = <<Reload>> /\ early' = "read"
  /\ UNCHANGED <<state, transfer, backend, native, listing, pc, job, rung,
                 persistent, history>>

\* The refresh launched by init runs beside the startup load, without the mutex:
\* what it publishes was read when nothing was loaded, from the same files.
EarlyRefresh ==
  /\ up /\ early # "done" /\ early' = "done"
  /\ installed' = ListNow(NotLoaded, files) /\ unlisted' = (early = "overtaken")
  /\ UNCHANGED <<up, state, transfer, backend, native, pc, job, rung, queue,
                 persistent, history>>

Gone ==
  /\ up' = FALSE /\ state' = NotLoaded /\ transfer' = "Idle" /\ backend' = FALSE
  /\ native' = None /\ installed' = EmptyList /\ pc' = "free"
  /\ job' = Reload /\ rung' = 0 /\ queue' = <<>> /\ early' = "done"
  /\ disturbed' = FALSE /\ unlisted' = FALSE /\ asked' = FALSE /\ orphaned' = FALSE
  /\ UNCHANGED persistent

\* The OS kills the process, or the user does.
Killed == up /\ Gone /\ UNCHANGED aborted

\* A GPU load aborts the process: only the marker on disk remembers it.
DriverAbort == up /\ pc = "native" /\ rung > 0 /\ Gone /\ aborted' = ~asked

Request ==
  \/ \E f \in Files : startSelect(f) \/ startDelete(f) \/ startDownload(f) \/ startImport(f)
  \/ startUnload \/ reloadActive \/ clearTransfer
  \/ \E on \in BOOLEAN : setGpuEnabled(on)
  \/ cancelDownload \/ leaveSettings

Next == Launch \/ EarlyRefresh \/ Request \/ Acquire \/ JobStep
        \/ Killed \/ DriverAbort

\* The native thread and the coroutine dispatchers keep running jobs.
Fairness == WF_vars(Acquire) /\ WF_vars(JobStep) /\ WF_vars(EarlyRefresh)

Spec == Init /\ [][Next]_vars /\ Fairness

(***************************************************************************)
(* Properties.                                                             *)
(***************************************************************************)
AtRest == up /\ pc = "free"

\* Between operations the three views of "a model is loaded" agree -- the
\* state the UI shows, the backend chats are routed to and the context the
\* native thread holds -- and the model is on disk and is the one that the
\* next launch will load.  Where a replacement that failed has deleted the loaded
\* model's file, the model stays loaded, and is still the stored choice until a
\* reload finds the file missing.  Where a cancellation has cut an operation short
\* all this may fail, until the next load repairs it; the UI never stays on Loading.
ViewsAgree ==
  AtRest =>
    /\ state.k # "Loading"
    /\ \/ disturbed
       \/ /\ backend <=> state.k = "Ready"
          /\ native = state.file
          /\ state.k = "Ready" => IF orphaned THEN store \in {state.file, None}
                                  ELSE state.file = store /\ store \in files

\* The checkmark "can never disagree with the subtitle" (refreshInstalled):
\* between operations the published list is the list on disk, with the loaded
\* model flagged, unless the first refresh published a list it had read before, or
\* a transfer that ended without a load left or took a file; the next refresh
\* repairs each.
ListAgrees ==
  AtRest /\ early = "done" /\ ~unlisted => installed = ListNow(state, files)

\* GpuGuard avoids a crash loop: once a GPU load has killed the process, no
\* GPU load starts again until the user asks for it, whatever else is cancelled,
\* killed or toggled; asking while that very load runs counts as asking.
NoCrashLoop == aborted => ~(pc = "native" /\ rung > 0)

\* selectInstalled() makes the model the active one and loads it, or says why not.
SelectEnds == /\ pc # "free" /\ pc' = "free" /\ up' /\ job.op = "select"
SelectLoads ==
  [][SelectEnds /\ job.file \in files /\ ~disturbed
       => native' = job.file \/ state'.k = "Error"]_vars

\* "The loaded model (if any) is untouched" by a cancelled download (comment of
\* downloadModel): the model that was loaded when the download began is the one
\* chats are still routed to.
CancelEnds == /\ pc # "free" /\ pc' = "free" /\ up' /\ job.op = "download" /\ job.cancelled
CancelKeepsModel == [][CancelEnds /\ job.had # None => native' = job.had /\ backend']_vars

\* What does hold: a download cancelled while bytes still arrive keeps it.
EarlyCancelKeepsModel ==
  [][CancelEnds /\ pc = "transfer" /\ job.had # None => native' = job.had /\ backend']_vars

\* A load ends: the UI never stays on Loading.
LoadingEnds == state.k = "Loading" ~> state.k # "Loading"
=============================================================================
