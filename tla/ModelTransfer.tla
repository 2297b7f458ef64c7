----------------------------- MODULE ModelTransfer -----------------------------
(***************************************************************************)
(* A model that is downloaded or imported, from the request to the load:   *)
(* the job of ModelManager (downloadModel, importModel) over               *)
(* ModelDownloader, and the coroutine of DomainApp that watches its two    *)
(* published flows and holds the foreground service of ForegroundWork      *)
(* meanwhile, beside the replies, which hold it too.                       *)
(*                                                                         *)
(* ModelManager.tla models the load and the queue on the mutex; here a     *)
(* load is one step that ends in Ready or Error, and one job runs at a     *)
(* time.  The flows are conflated: the watcher receives the newest state   *)
(* and the newest transfer, together or one at a time.                     *)
(***************************************************************************)
EXTENDS ModelDownloader, ForegroundWork

VARIABLES
  job,       \* the operation that holds the mutex
  state,     \* _state
  transfer,  \* _transfer
  got,       \* the last pair the watcher received
  watch,     \* its two flags
  missed     \* history variable: since the watcher last took or let go of the service, a
             \* transfer was cancelled, or a state or transfer was replaced before it was
             \* received

vars == <<transferVars, work, job, state, transfer, got, watch, missed>>

ASSUME WorkAssumption == Callers = {"watcher", "reply"}

\* Ended stands for Ready and Error, Running for Downloading and Importing: the
\* watcher tells them apart in its notices only.
States == {"NotLoaded", "Loading", "Ended"}
Transfers == {"Idle", "Running", "Failed"}
NoJob == [kind |-> "none", step |-> "idle", mirror |-> 0, cancel |-> FALSE]
Unwatched == [transferring |-> FALSE, loading |-> FALSE]

TypeOK ==
  /\ TypeOKTransfer /\ TypeOKWork
  /\ job \in [kind : {"none", "download", "import", "select"},
              step : {"idle", "fetch", "cleanup", "copy", "delete", "rename", "promoted", "load"},
              mirror : 0..Mirrors, cancel : BOOLEAN]
  /\ state \in States /\ transfer \in Transfers
  /\ got \in [state : States, transfer : Transfers]
  /\ watch \in [transferring : BOOLEAN, loading : BOOLEAN] /\ missed \in BOOLEAN

InitVolatile ==
  /\ job = NoJob /\ state = "NotLoaded" /\ transfer = "Idle"
  /\ got = [state |-> state, transfer |-> transfer] /\ watch = Unwatched /\ missed = FALSE

Init == InitTransfer /\ InitWork /\ InitVolatile

(***************************************************************************)
(* The job.                                                                *)
(***************************************************************************)
watching == <<got, watch, work>>

Transferring == job.kind \in {"download", "import"}
CaughtUp == got = [state |-> state, transfer |-> transfer]
Overtakes == missed' = (missed \/ ~CaughtUp)

\* Settings disables its buttons while a transfer runs.
startDownload ==
  /\ job = NoJob /\ transfer # "Running"
  /\ job' = [NoJob EXCEPT !.kind = "download", !.step = "fetch", !.mirror = 1]
  /\ transfer' = "Running" /\ StartFetch
  /\ Overtakes
  /\ UNCHANGED <<part, installed, leftover, state, watching>>

startImport ==
  /\ job = NoJob /\ transfer # "Running"
  /\ job' = [NoJob EXCEPT !.kind = "import", !.step = "copy"]
  /\ transfer' = "Running"
  /\ \E o \in {Own, Junk} : Opened(o)
  /\ Overtakes
  /\ UNCHANGED <<installed, fetch, state, watching>>

\* A start-up load, a switch or a reload: no transfer.
startLoad ==
  /\ job = NoJob
  /\ job' = [NoJob EXCEPT !.kind = "select", !.step = "load"]
  /\ state' = "Loading" /\ Overtakes
  /\ UNCHANGED <<transferVars, transfer, watching>>

\* The flow of bytes ends at once, the job at its next suspension.
Cancelled ==
  /\ job' = [job EXCEPT !.cancel = TRUE] /\ fetch' = NoFetch
  /\ UNCHANGED <<part, installed, leftover, state, transfer>>

cancelDownload ==
  /\ job.kind = "download" /\ ~job.cancel
  /\ Cancelled /\ UNCHANGED <<missed, watching>>

Fetching == job.step = "fetch" /\ ~job.cancel

fetchStep ==
  /\ Fetching
  /\ Respond(job.mirror) \/ Read \/ ShortBody
  /\ UNCHANGED <<job, state, transfer, missed, watching>>

\* A mirror failed, or what it sent is not a model: what it left is deleted, in a
\* suspension of the error handler.
mirrorFailed ==
  /\ Fetching
  /\ fetch.step = "failed" \/ (fetch.step = "done" /\ ~isGguf(part))
  /\ job' = [job EXCEPT !.step = "cleanup"] /\ fetch' = NoFetch
  /\ UNCHANGED <<part, leftover, installed, state, transfer, missed, watching>>

\* Mutation: the next mirror is tried over what the last one left.
cleanedUpKeepsPart ==
  /\ job.step = "cleanup" /\ ~job.cancel
  /\ UNCHANGED <<part, leftover>>
  /\ IF job.mirror < Mirrors
     THEN /\ job' = [job EXCEPT !.mirror = @ + 1, !.step = "fetch"]
          /\ StartFetch /\ UNCHANGED transfer
     ELSE job' = NoJob /\ transfer' = "Failed" /\ UNCHANGED fetch
  /\ UNCHANGED <<installed, state, missed, watching>>

\* The next one starts from nothing.
cleanedUp ==
  /\ job.step = "cleanup" /\ ~job.cancel
  /\ Deleted
  /\ IF job.mirror < Mirrors
     THEN /\ job' = [job EXCEPT !.mirror = @ + 1, !.step = "fetch"]
          /\ StartFetch /\ UNCHANGED transfer
     ELSE job' = NoJob /\ transfer' = "Failed" /\ UNCHANGED fetch
  /\ UNCHANGED <<installed, state, missed, watching>>

\* Cancelled there, the job leaves by the error handler, past the handler of
\* cancellations: the transfer stays Downloading, and the part may stay too.
unwound ==
  /\ job.step = "cleanup" /\ job.cancel
  /\ Deleted \/ (UNCHANGED part /\ leftover' = Leaving)
  /\ job' = NoJob /\ missed' = TRUE
  /\ UNCHANGED <<fetch, installed, state, transfer, watching>>

downloaded ==
  /\ Fetching /\ fetch.step = "done" /\ isGguf(part)
  /\ job' = [job EXCEPT !.step = "delete"]
  /\ UNCHANGED <<transferVars, state, transfer, missed, watching>>

importCopy ==
  /\ job.step = "copy" /\ part.len < LengthOf(part.head) /\ Grown(part.head)
  /\ UNCHANGED <<installed, fetch, leftover, job, state, transfer, missed, watching>>

imported ==
  /\ job.step = "copy" /\ part.len = LengthOf(part.head)
  /\ IF isGguf(part)
     THEN /\ job' = [job EXCEPT !.step = "delete"] /\ UNCHANGED <<part, leftover, transfer>>
     ELSE /\ Deleted /\ job' = NoJob /\ transfer' = "Failed"
  /\ UNCHANGED <<installed, fetch, state, missed, watching>>

\* The stream broke: nothing deletes what was copied.
importFailed ==
  /\ job.step = "copy"
  /\ job' = NoJob /\ transfer' = "Failed" /\ leftover' = "mixed"
  /\ UNCHANGED <<part, installed, fetch, state, missed, watching>>

finalizeDelete ==
  /\ job.step = "delete" /\ job' = [job EXCEPT !.step = "rename"]
  /\ FinalizeDelete
  /\ UNCHANGED <<state, transfer, missed, watching>>

finalizeRename ==
  /\ job.step = "rename" /\ job' = [job EXCEPT !.step = "promoted"]
  /\ FinalizeRename
  /\ UNCHANGED <<state, transfer, missed, watching>>

\* Mutation: a cancelled download leaves its part.
droppedKeepsPart ==
  /\ job.cancel /\ job.step \in {"fetch", "promoted"}
  /\ fetch' = NoFetch
  /\ job' = NoJob /\ transfer' = "Idle" /\ missed' = TRUE
  /\ UNCHANGED <<part, leftover, installed, state, watching>>

\* The old file is gone then, and an import leaves its copy.
renameFailed ==
  /\ job.step = "rename"
  /\ IF job.kind = "download"
     THEN job' = [job EXCEPT !.step = "cleanup"] /\ fetch' = NoFetch /\ UNCHANGED <<leftover, transfer>>
     ELSE job' = NoJob /\ transfer' = "Failed" /\ leftover' = "mixed" /\ UNCHANGED fetch
  /\ UNCHANGED <<part, installed, state, missed, watching>>

\* A cancelled job goes on to its next suspension: while bytes arrive, or on the
\* return of finalize().
dropped ==
  /\ job.cancel /\ job.step \in {"fetch", "promoted"}
  /\ Deleted /\ fetch' = NoFetch
  /\ job' = NoJob /\ transfer' = "Idle" /\ missed' = TRUE
  /\ UNCHANGED <<installed, state, watching>>

activate ==
  /\ job.step = "promoted" /\ ~job.cancel /\ job' = [job EXCEPT !.step = "load"]
  /\ transfer' = "Idle" /\ state' = "Loading" /\ Overtakes
  /\ UNCHANGED <<transferVars, watching>>

\* Cancelled or not, the ladder ends.
loadEnds ==
  /\ job.step = "load" /\ job' = NoJob
  /\ state' = "Ended"
  /\ Overtakes
  /\ UNCHANGED <<transferVars, transfer, watching>>

clearTransfer ==
  /\ transfer = "Failed" /\ transfer' = "Idle"
  /\ Overtakes
  /\ UNCHANGED <<transferVars, job, state, watching>>

JobStep == fetchStep \/ mirrorFailed \/ cleanedUp \/ unwound \/ downloaded \/ importCopy \/ imported \/ importFailed
          \/ finalizeDelete \/ finalizeRename \/ renameFailed \/ dropped \/ activate \/ loadEnds

(***************************************************************************)
(* The watcher.                                                            *)
(***************************************************************************)
manager == <<transferVars, job, state, transfer>>
W == "watcher"

beginTransfer ==
  IF watch.transferring THEN UNCHANGED <<watch, work, missed>>
  ELSE /\ watch' = [watch EXCEPT !.transferring = TRUE] /\ BeginCount(W)
       /\ missed' = (~Transferring)

\* Mutation: the flag is not lowered with the service.
endTransferKeepsFlag ==
  /\ watch' = [watch EXCEPT !.loading = FALSE]
  /\ IF watch.transferring THEN EndCount(W) /\ missed' = (missed /\ job # NoJob) ELSE UNCHANGED <<work, missed>>

endTransfer ==
  /\ watch' = Unwatched
  /\ IF watch.transferring THEN EndCount(W) /\ missed' = (missed /\ job # NoJob) ELSE UNCHANGED <<work, missed>>

\* What the watcher does with a pair it receives.
collect(s, t) ==
  \/ t = "Running" /\ beginTransfer
  \/ t = "Failed" /\ endTransfer
  \/ t = "Idle" /\ watch.transferring /\ s = "Loading"
       /\ watch' = [watch EXCEPT !.loading = TRUE] /\ UNCHANGED <<work, missed>>
  \/ t = "Idle" /\ watch.transferring /\ s = "Ended" /\ watch.loading
       /\ endTransfer
  \/ /\ t = "Idle"
     /\ watch.transferring => s # "Loading" /\ ~(s = "Ended" /\ watch.loading)
     /\ UNCHANGED <<watch, work, missed>>

\* begin() and end() return before the next pair is taken.
Receive ==
  /\ at[W] \in {"out", "working"}
  /\ \E s \in {got.state, state}, t \in {got.transfer, transfer} :
       /\ <<s, t>> # <<got.state, got.transfer>>
       /\ got' = [state |-> s, transfer |-> t]
       /\ collect(s, t)
  /\ UNCHANGED manager

Within(c) == BeginStart(c) \/ EndReset(c) \/ EndStop(c)

watcherGoesOn == Within(W) /\ UNCHANGED <<manager, got, watch, missed>>

\* send() brackets a local reply with begin() and end().
reply ==
  /\ BeginCount("reply") \/ EndCount("reply") \/ Within("reply")
  /\ UNCHANGED <<manager, got, watch, missed>>

(***************************************************************************)
(* The system.                                                             *)
(***************************************************************************)
\* The user swipes the app away: the download is cancelled, the service ends.
onTaskRemoved ==
  /\ TaskRemoved
  /\ IF job.kind = "download" THEN Cancelled ELSE UNCHANGED manager
  /\ UNCHANGED <<got, watch, missed>>

\* Killed and started again: the files stay.
Restarted ==
  /\ Killed
  /\ job' = NoJob /\ state' = "NotLoaded" /\ transfer' = "Idle" /\ fetch' = NoFetch
  /\ got' = [state |-> "NotLoaded", transfer |-> "Idle"] /\ watch' = Unwatched
  /\ missed' = FALSE
  /\ leftover' = Leaving
  /\ UNCHANGED <<part, installed>>

Next ==
  \/ startDownload \/ startImport \/ startLoad \/ cancelDownload \/ clearTransfer
  \/ JobStep
  \/ Receive \/ watcherGoesOn \/ reply
  \/ onTaskRemoved \/ Restarted

\* The HTTP client has timeouts, an import reads a finite stream, and a load ends.
Fairness == WF_vars(JobStep)

Spec == Init /\ [][Next]_vars /\ Fairness

(***************************************************************************)
(* Properties.                                                             *)
(***************************************************************************)
\* "Guard against truncated/corrupt transfers before promoting the file"
\* (downloadModel, line 274): whatever interruptions, retries, mirrors, pages of
\* proxies and deaths came before, an installed model is given up, and its name
\* taken, only for a file that is whole and of one origin; where an earlier transfer
\* of another origin or a short body was resumed, for one with the right first bytes.
PromotesWhole ==
  job.step \in {"delete", "rename"} =>
    isGguf(part) /\ (leftover # "mixed" => Whole(part))

\* Between operations no temporary file is left: the user sees none and could not
\* delete it.  A death, a failed import or a cancellation in an error handler leaves one.
Tidy == job = NoJob /\ part # Absent => leftover # "none"

\* A transfer ends, unless the user cancels it: neither retries nor mirrors go on
\* forever, and no exit of downloadModel() or importModel() leaves it in the air.
TransferEnds ==
  transfer = "Running" /\ Transferring ~> transfer # "Running" \/ job.cancel

Settled == job = NoJob /\ CaughtUp

\* "one begin, one end" (DomainApp.kt, line 109): with no operation running and
\* everything received, the watcher does not hold the service.
OneEnd == Settled => ~watch.transferring

\* What does hold: the same, unless a transfer was cancelled or outran the watcher,
\* and then the next transfer or load that it sees to the end lets go of the service;
\* under the same condition "the service spans the whole acquire-then-load sequence"
\* (DomainApp.kt, line 108).
Follows ==
  ~missed => /\ Settled => ~watch.transferring
             /\ Transferring /\ CaughtUp => watch.transferring
==============================================================================
