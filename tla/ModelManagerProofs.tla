-------------------------- MODULE ModelManagerProofs --------------------------
(***************************************************************************)
(* Theorems about the model lifecycle, for every set of model files, any   *)
(* ladder of GPU rungs and any number of waiting jobs.                     *)
(***************************************************************************)
EXTENDS ModelManager, SequenceTheorems, TLAPS

Asks == {"select", "delete", "download", "import"}
Moments == {"attempt", "freed", "native", "loaded", "failed"}

(***************************************************************************)
(* Jobs.                                                                   *)
(***************************************************************************)
\* A waiting job names a file if its operation is about one, and is not cancelled:
\* a job that is cancelled while it waits is gone.
Fresh == {j \in Jobs : ~j.cancelled /\ (j.op \in Asks => j.file \in Files)}

\* The types, and the waiting jobs.
Typed == TypeOK /\ queue \in Seq(Fresh)

\* The holder of the mutex is in a step of its operation, and names a file if its
\* operation is about one; only downloads and unloads are cancelled.
Holder ==
  /\ job.op \in Asks => job.file \in Files
  /\ job.cancelled => job.op \in {"download", "unload"}
  /\ pc = "free" => job.op = "reload"
  /\ pc = "transfer" => job.op \in {"download", "import"}
  /\ pc \in LoadPhase => job.op \in {"reload", "select", "download", "import"}
  /\ pc \in {"deleteFree", "deleteFile"} => job.op = "delete"
  /\ pc = "unloaded" => job.op = "unload"

\* New jobs are fresh, and forgetting one leaves it fresh.
LEMMA FreshJobs ==
  /\ Reload \in Fresh /\ Job("unload", None) \in Fresh
  /\ \A op \in Asks, f \in Files : Job(op, f) \in Fresh
  /\ \A j \in Fresh : Forget(j) \in Fresh
BY DEF Fresh, Jobs, Job, Reload, Ops, Names, Asks, Forget

\* What the requests and the mutex do to the queue.
LEMMA QueueFacts ==
  ASSUME queue \in Seq(Fresh)
  PROVE  /\ Len(queue) \in Nat /\ DOMAIN queue = 1..Len(queue)
         /\ \A j \in Fresh : /\ Append(queue, j) \in Seq(Fresh)
                             /\ Len(Append(queue, j)) = Len(queue) + 1
         /\ queue # <<>> => /\ Head(queue) \in Fresh /\ Tail(queue) \in Seq(Fresh)
                            /\ Len(Tail(queue)) = Len(queue) - 1
<1>1. Len(queue) \in Nat /\ DOMAIN queue = 1..Len(queue)
  BY LenProperties
<1>2. \A j \in Fresh : Append(queue, j) \in Seq(Fresh) /\ Len(Append(queue, j)) = Len(queue) + 1
  BY AppendProperties
<1>3. queue # <<>> => /\ Head(queue) \in Fresh /\ Tail(queue) \in Seq(Fresh)
                      /\ Len(Tail(queue)) = Len(queue) - 1
  BY HeadTailProperties
<1> QED  BY <1>1, <1>2, <1>3

\* What startDownload() and cancelDownload() do to it.
LEMMA QueueEdits ==
  ASSUME queue \in Seq(Fresh)
  PROVE  /\ \A j \in Fresh :
              LET q == Append([i \in DOMAIN queue |-> Forget(queue[i])], j)
              IN  q \in Seq(Fresh) /\ Len(q) = Len(queue) + 1
         /\ \A i \in DOMAIN queue :
              LET q == SubSeq(queue, 1, i - 1) \o SubSeq(queue, i + 1, Len(queue))
              IN  q \in Seq(Fresh) /\ Len(q) <= Len(queue)
<1>1. Len(queue) \in Nat /\ DOMAIN queue = 1..Len(queue)
  BY LenProperties
<1>2. \A i \in 1..Len(queue) : queue[i] \in Fresh
  BY ElementOfSeq
<1>3. ASSUME NEW j \in Fresh
      PROVE  LET q == Append([i \in DOMAIN queue |-> Forget(queue[i])], j)
             IN  q \in Seq(Fresh) /\ Len(q) = Len(queue) + 1
  <2> DEFINE q == [i \in 1..Len(queue) |-> Forget(queue[i])]
  <2>1. q \in [1..Len(queue) -> Fresh]
    BY <1>2, FreshJobs
  <2>2. q \in Seq(Fresh) /\ Len(q) = Len(queue)
    BY <1>1, <2>1
  <2> HIDE DEF q
  <2>3. Append(q, j) \in Seq(Fresh) /\ Len(Append(q, j)) = Len(q) + 1
    BY <2>2, AppendProperties
  <2> QED  BY <1>1, <2>2, <2>3 DEF q
<1>4. ASSUME NEW i \in DOMAIN queue
      PROVE  LET q == SubSeq(queue, 1, i - 1) \o SubSeq(queue, i + 1, Len(queue))
             IN  q \in Seq(Fresh) /\ Len(q) <= Len(queue)
  <2> DEFINE a == SubSeq(queue, 1, i - 1)
             b == SubSeq(queue, i + 1, Len(queue))
  <2>1. i \in 1..Len(queue) /\ i \in Int /\ i - 1 \in Int /\ i + 1 \in Int
    BY <1>1
  <2>2. a \in Seq(Fresh) /\ Len(a) = IF 1 <= i - 1 THEN i - 1 ELSE 0
    <3>1. \A k \in 1..(i - 1) : queue[k] \in Fresh
      BY <1>1, <1>2, <2>1
    <3> QED  BY <2>1, <3>1, SubSeqProperties
  <2>3. b \in Seq(Fresh) /\ Len(b) = IF i + 1 <= Len(queue) THEN Len(queue) - i ELSE 0
    <3>1. \A k \in (i + 1)..Len(queue) : queue[k] \in Fresh
      BY <1>1, <1>2, <2>1
    <3> QED  BY <1>1, <2>1, <3>1, SubSeqProperties
  <2> HIDE DEF a, b
  <2>4. a \o b \in Seq(Fresh) /\ Len(a \o b) = Len(a) + Len(b)
    BY <2>2, <2>3, ConcatProperties
  <2>5. Len(a) + Len(b) <= Len(queue)
    BY <1>1, <2>1, <2>2, <2>3
  <2> QED  BY <2>4, <2>5 DEF a, b
<1> QED  BY <1>3, <1>4

(***************************************************************************)
(* Type correctness.                                                       *)
(***************************************************************************)
\* The list that is published, and what the guard says, are of their types.
LEMMA Published ==
  ASSUME TypeOK, NEW s \in [k : {"NotLoaded", "Loading", "Ready", "Error"}, file : Names],
         NEW fs \in SUBSET Files
  PROVE  ListNow(s, fs) \in Lists
BY DEF ListNow, Lists, Names

\* Nothing is loaded before the first launch.
LEMMA TypeInit == Init => Typed
<1> SUFFICES ASSUME Init PROVE Typed
  OBVIOUS
<1>1. queue \in Seq(Fresh) /\ queue \in Seq(Jobs) /\ Len(queue) = 0
  BY EmptySeq DEF Init
<1>2. job \in Jobs
  BY FreshJobs DEF Init, Fresh
<1>3. /\ state \in [k : {"NotLoaded", "Loading", "Ready", "Error"}, file : Names]
      /\ installed \in Lists /\ files \subseteq Files
      /\ gpu \in [user : BOOLEAN, disabled : BOOLEAN, attempting : BOOLEAN]
  BY DEF Init, Names, NotLoaded, EmptyList, Lists
<1>4. {up, backend, aborted, asked, disturbed, unlisted, orphaned} \subseteq BOOLEAN
  BY DEF Init
<1> QED  BY <1>1, <1>2, <1>3, <1>4, ManagerAssumption DEF Init, Typed, TypeOK, Names, Steps

\* What the waiting jobs are follows from the queue's type.
LEMMA QueueIsTyped ==
  ASSUME NEW q \in Seq(Fresh)
  PROVE  q \in Seq(Jobs)
<1>1. Fresh \subseteq Jobs
  BY DEF Fresh
<1> QED  BY <1>1, SeqMonotonic

\* A request for a reload leaves a queue of fresh jobs.
LEMMA ReloadQueued ==
  ASSUME queue \in Seq(Fresh), Len(queue) <= MaxQueue, EnqueueReload
  PROVE  queue' \in Seq(Fresh) /\ Len(queue') <= MaxQueue
<1>1. CASE UNCHANGED queue
  BY <1>1
<1>2. CASE Enqueue(Reload)
  <2>1. Len(queue) \in Nat /\ queue' = Append(queue, Reload)
    BY <1>2, LenProperties DEF Enqueue
  <2>2. queue' \in Seq(Fresh) /\ Len(queue') = Len(queue) + 1
    BY <2>1, FreshJobs, AppendProperties
  <2> QED  BY <1>2, <2>1, <2>2, ManagerAssumption DEF Enqueue
<1> QED  BY <1>1, <1>2 DEF EnqueueReload

\* A request leaves a queue of fresh jobs, and the rest is of its type.
LEMMA RequestTyped == Typed /\ Request => Typed'
<1> SUFFICES ASSUME Typed, Request PROVE Typed'
  OBVIOUS
<1> USE FreshJobs, QueueFacts, ManagerAssumption DEF AppState, persistent, history, listing
<1>q. TypeOK /\ queue \in Seq(Fresh)
  BY DEF Typed
<1>1. ASSUME NEW j \in Fresh, Enqueue(j), UNCHANGED <<AppState, persistent, history>>
      PROVE  Typed'
  <2>1. queue' \in Seq(Fresh) /\ Len(queue') <= MaxQueue
    BY <1>q, <1>1 DEF Enqueue
  <2> QED  BY <1>q, <1>1, <2>1, QueueIsTyped DEF Typed, TypeOK
<1>2. ASSUME NEW f \in Files, startSelect(f) \/ startDelete(f) \/ startImport(f) PROVE Typed'
  BY <1>1, <1>2 DEF startSelect, startDelete, startImport, Asks
<1>3. CASE startUnload
  BY <1>1, <1>3 DEF startUnload
<1>4. ASSUME NEW f \in Files, startDownload(f) PROVE Typed'
  <2>1. Job("download", f) \in Fresh
    BY DEF Asks
  <2>2. queue' \in Seq(Fresh) /\ Len(queue') <= MaxQueue
    BY <1>q, <1>4, <2>1, QueueEdits DEF startDownload
  <2>3. job' \in Jobs
    BY <1>q, <1>4 DEF startDownload, Forget, TypeOK, Jobs
  <2> QED  BY <1>q, <1>4, <2>2, <2>3, QueueIsTyped DEF startDownload, Typed, TypeOK
<1>5. CASE reloadActive
  <2>1. queue' \in Seq(Fresh) /\ Len(queue') <= MaxQueue
    BY <1>q, <1>5, ReloadQueued DEF reloadActive, TypeOK
  <2> QED  BY <1>q, <1>5, <2>1, QueueIsTyped DEF reloadActive, Typed, TypeOK
<1>6. CASE clearTransfer
  BY <1>q, <1>6 DEF clearTransfer, Typed, TypeOK
<1>7. ASSUME NEW on \in BOOLEAN, setGpuEnabled(on) PROVE Typed'
  <2>1. queue' \in Seq(Fresh) /\ Len(queue') <= MaxQueue
    BY <1>q, <1>7, ReloadQueued DEF setGpuEnabled, TypeOK
  <2>2. gpu' \in [user : BOOLEAN, disabled : BOOLEAN, attempting : BOOLEAN]
    BY <1>q, <1>7 DEF setGpuEnabled, TypeOK
  <2>3. aborted' \in BOOLEAN /\ asked' \in BOOLEAN
    BY <1>q, <1>7, Zenon DEF setGpuEnabled, TypeOK
  <2> QED  BY <1>q, <1>7, <2>1, <2>2, <2>3, QueueIsTyped DEF setGpuEnabled, Typed, TypeOK
<1>8. CASE cancelDownload
  <2>1. queue' \in Seq(Fresh) /\ Len(queue') <= MaxQueue
    <3>1. CASE UNCHANGED queue
      BY <1>q, <3>1 DEF TypeOK
    <3>2. CASE \E i \in DOMAIN queue :
                 queue' = SubSeq(queue, 1, i - 1) \o SubSeq(queue, i + 1, Len(queue))
      <4>1. queue' \in Seq(Fresh) /\ Len(queue') <= Len(queue)
        BY <1>q, <3>2, QueueEdits
      <4>2. Len(queue') \in Nat
        BY <4>1, LenProperties
      <4> QED  BY <1>q, <4>1, <4>2 DEF TypeOK
    <3> QED  BY <1>8, <3>1, <3>2 DEF cancelDownload
  <2>2. job' \in Jobs /\ disturbed' \in BOOLEAN
    BY <1>q, <1>8 DEF cancelDownload, TypeOK, Jobs
  <2> QED  BY <1>q, <1>8, <2>1, <2>2, QueueIsTyped DEF cancelDownload, Typed, TypeOK
<1>9. CASE leaveSettings
  <2>1. job' \in Jobs /\ disturbed' \in BOOLEAN
    BY <1>q, <1>9 DEF leaveSettings, TypeOK, Jobs
  <2> QED  BY <1>q, <1>9, <2>1, QueueIsTyped DEF leaveSettings, Typed, TypeOK
<1> QED  BY <1>2, <1>3, <1>4, <1>5, <1>6, <1>7, <1>8, <1>9 DEF Request

\* The values of the variables that the mutex holder changes.
Outcome ==
  /\ {up, backend, aborted, asked, disturbed, unlisted, orphaned} \subseteq BOOLEAN
  /\ state \in [k : {"NotLoaded", "Loading", "Ready", "Error"}, file : Names]
  /\ transfer \in {"Idle", "Downloading", "Importing", "Failed"}
  /\ native \in Names /\ store \in Names /\ files \subseteq Files
  /\ installed \in Lists
  /\ pc \in Steps /\ job \in Jobs /\ rung \in 0..GpuRungs
  /\ gpu \in [user : BOOLEAN, disabled : BOOLEAN, attempting : BOOLEAN]

\* A step of the mutex holder.
LEMMA JobTyped == Typed /\ Holder /\ JobStep => Typed'
<1> SUFFICES ASSUME Typed, Holder, JobStep PROVE Typed'
  OBVIOUS
<1> DEFINE States == [k : {"NotLoaded", "Loading", "Ready", "Error"}, file : Names]
<1> USE DEF Others, Keep, GivesUp, persistent, history, listing
<1>0. SUFFICES Outcome' /\ UNCHANGED <<queue, early>>
  BY DEF Typed, TypeOK, Outcome
<1>q. Outcome
  BY DEF Typed, TypeOK, Outcome
<1>o. UNCHANGED <<up, queue, early>>
  BY DEF JobStep, BeginReload, BeginSelect, BeginTransfer, EndTransfer, BeginDelete,
         DeleteFreed, DeleteFile, BeginUnload, Unloaded, LoadIntoContext, AttemptFree,
         AttemptBegin, AttemptNative, AttemptReady, AttemptThrows, AttemptFailed, Finish
<1>f. Reload \in Jobs /\ \A f \in Names : [job EXCEPT !.file = f] \in Jobs
  BY <1>q, FreshJobs DEF Fresh, Outcome, Jobs
<1>j. store \in Names /\ job.file \in Names /\ None \in Names /\ job.cancelled \in BOOLEAN
      /\ (job.op \in Asks => job.file \in Names)
  BY <1>q DEF Outcome, Jobs, Names
<1>l. \A s \in States, fs \in SUBSET Files : ListNow(s, fs) \in Lists
  BY Published DEF Typed
<1>s. /\ NotLoaded \in States /\ Error \in States
      /\ \A f \in Names : Loading(f) \in States /\ Ready(f) \in States
  BY DEF NotLoaded, Error, Loading, Ready, Names
<1>r. 0 \in 0..GpuRungs /\ GpuRungs \in 0..GpuRungs
  BY ManagerAssumption
<1> HIDE DEF States
<1>1. CASE BeginReload
  BY <1>1, <1>q, <1>o, <1>f, <1>j, <1>l, <1>r
     DEF BeginReload, Outcome, Release, LoadFile, refreshInstalled, Steps, States
<1>2. CASE BeginSelect
  BY <1>2, <1>q, <1>o, <1>f, <1>j, <1>l, <1>r
     DEF BeginSelect, Outcome, Release, LoadFile, refreshInstalled, Steps, States
<1>3. CASE BeginTransfer
  BY <1>3, <1>q, <1>o DEF BeginTransfer, Outcome, Steps
<1>4. CASE EndTransfer
  <2>1. job.file \in Files /\ pc = "transfer"
    BY <1>4 DEF EndTransfer, Holder, Asks
  <2>2. /\ files' \subseteq Files /\ unlisted' \in BOOLEAN /\ orphaned' \in BOOLEAN
        /\ transfer' \in {"Idle", "Failed", transfer}
        /\ UNCHANGED <<up, state, backend, native, installed, store, gpu, aborted, asked,
                       disturbed>>
    BY <1>4, <2>1, <1>q DEF EndTransfer, NotPromoted, TargetLost, Outcome
  <2>3. {up, backend, aborted, asked, disturbed, unlisted, orphaned}' \subseteq BOOLEAN
    BY <2>2, <1>q DEF Outcome
  <2>4. pc' \in Steps /\ job' \in Jobs /\ rung' \in 0..GpuRungs
    <3>1. LoadFile(job.file) \/ Release
      BY <1>4 DEF EndTransfer
    <3> QED  BY <3>1, <1>q, <1>f, <1>j, <1>r DEF LoadFile, Release, Outcome, Steps
  <2> QED  BY <2>2, <2>3, <2>4, <1>q, <1>o DEF Outcome
<1>5. CASE BeginDelete \/ DeleteFreed
  <2>1. /\ pc' \in {"deleteFree", "deleteFile"}
        /\ state' \in {state, NotLoaded} /\ native' \in {native, None} /\ store' \in {store, None}
        /\ backend' \in {backend, FALSE}
        /\ orphaned' \in {orphaned, FALSE}
        /\ UNCHANGED <<job, rung, transfer, installed, unlisted, files, gpu, aborted, asked,
                       disturbed>>
    BY <1>5 DEF BeginDelete, DeleteFreed
  <2>2. {up, backend, aborted, asked, disturbed, unlisted, orphaned}' \subseteq BOOLEAN
    BY <2>1, <1>q, <1>o DEF Outcome
  <2>3. pc' \in Steps /\ state' \in States /\ native' \in Names /\ store' \in Names
    BY <2>1, <1>q, <1>s, <1>j DEF Outcome, Steps, States
  <2> QED  BY <2>1, <2>2, <2>3, <1>q, <1>o DEF Outcome, States
<1>6. CASE DeleteFile
  <2>1. /\ pc' = "free" /\ job' = Reload /\ rung' = 0 /\ unlisted' = FALSE
        /\ files' = files \ {job.file} /\ installed' = ListNow(state, files')
        /\ UNCHANGED <<state, transfer, backend, native, store, gpu, aborted, asked, disturbed,
                       orphaned>>
    BY <1>6 DEF DeleteFile, Release, refreshInstalled
  <2>2. state \in States /\ files' \subseteq Files
    BY <2>1, <1>q DEF Outcome, States
  <2>3. installed' \in Lists
    BY <2>1, <2>2, <1>l
  <2>4. {up, backend, aborted, asked, disturbed, unlisted, orphaned}' \subseteq BOOLEAN
    BY <2>1, <1>q, <1>o DEF Outcome
  <2>5. pc' \in Steps /\ job' \in Jobs /\ rung' \in 0..GpuRungs
    BY <2>1, <1>f, <1>r DEF Steps
  <2> QED  BY <2>1, <2>2, <2>3, <2>4, <2>5, <1>q, <1>o DEF Outcome
<1>7. CASE BeginUnload
  BY <1>7, <1>q, <1>o, <1>f, <1>j, <1>r DEF BeginUnload, Outcome, Release, Steps
<1>8. CASE Unloaded
  <2>1. /\ pc' = "free" /\ job' = Reload /\ rung' = 0 /\ files' = files
        /\ UNCHANGED <<transfer, native, gpu, aborted, asked, disturbed>>
    BY <1>8, <1>q DEF Unloaded, Release
  <2>2. CASE job.cancelled
    BY <1>8, <2>1, <2>2, <1>q, <1>o, <1>f, <1>r DEF Unloaded, Outcome, Steps
  <2>3. CASE ~job.cancelled
    <3>1. /\ state' = NotLoaded /\ store' = None /\ ~backend' /\ ~unlisted'
          /\ installed' = ListNow(NotLoaded, files)
      BY <1>8, <2>3 DEF Unloaded, refreshInstalled
    <3>2. installed' \in Lists /\ state' \in States
      BY <3>1, <1>q, <1>l, <1>s DEF Outcome
    <3>3. {up, backend, aborted, asked, disturbed, unlisted, orphaned}' \subseteq BOOLEAN
      BY <1>8, <2>1, <2>3, <1>q, <1>o DEF Unloaded, Outcome, refreshInstalled
    <3> QED  BY <2>1, <3>1, <3>2, <3>3, <1>q, <1>o, <1>f, <1>j, <1>r
             DEF Outcome, Steps, States
  <2> QED  BY <2>2, <2>3
<1>9. CASE LoadIntoContext
  BY <1>9, <1>q, <1>o, <1>j, <1>l, <1>s, <1>r
     DEF LoadIntoContext, Outcome, layersToOffload, refreshInstalled, Steps, States
<1>10. CASE AttemptFree \/ AttemptNative
  BY <1>10, <1>q, <1>o, <1>j DEF AttemptFree, AttemptNative, Outcome, Steps
<1>11. CASE AttemptBegin
  BY <1>11, <1>q, <1>o DEF AttemptBegin, Outcome, Steps
<1>12. CASE AttemptReady
  BY <1>12, <1>q, <1>o, <1>j, <1>s DEF AttemptReady, Outcome, Steps, States
<1>13. CASE AttemptThrows
  <2>1. AttemptFailed
    BY <1>13 DEF AttemptThrows
  <2>2. gpu' \in [user : BOOLEAN, disabled : BOOLEAN, attempting : BOOLEAN]
    BY <2>1, <1>q DEF AttemptFailed, Outcome
  <2>3. rung' \in 0..GpuRungs
    BY <2>1, <1>q, ManagerAssumption DEF AttemptFailed, Outcome
  <2> QED  BY <2>1, <2>2, <2>3, <1>q, <1>o, <1>s DEF AttemptFailed, Outcome, Steps, States
<1>14. CASE Finish
  BY <1>14, <1>q, <1>o, <1>f, <1>j, <1>l, <1>r
     DEF Finish, Outcome, Release, refreshInstalled, Steps, States
<1> QED  BY <1>1, <1>2, <1>3, <1>4, <1>5, <1>6, <1>7, <1>8, <1>9, <1>10, <1>11, <1>12,
            <1>13, <1>14, <1>o DEF JobStep

\* Every step.
LEMMA TypeStep == Typed /\ Holder /\ [Next]_vars => Typed'
<1> SUFFICES ASSUME Typed, Holder, [Next]_vars PROVE Typed'
  OBVIOUS
<1> USE DEF persistent, history, listing
<1>q. TypeOK /\ queue \in Seq(Fresh)
  BY DEF Typed
<1>1. CASE Launch
  <2>1. queue' \in Seq(Fresh) /\ Len(queue') = 1
    BY <1>1, FreshJobs DEF Launch
  <2>2. queue' \in Seq(Jobs) /\ Len(queue') <= MaxQueue
    BY <2>1, QueueIsTyped, ManagerAssumption
  <2> QED  BY <1>q, <1>1, <2>1, <2>2 DEF Launch, Typed, TypeOK
<1>2. CASE EarlyRefresh
  <2>1. installed' \in Lists
    BY <1>q, <1>2, Published DEF EarlyRefresh, NotLoaded, TypeOK, Names
  <2> QED  BY <1>q, <1>2, <2>1 DEF EarlyRefresh, Typed, TypeOK
<1>3. CASE Acquire
  <2>1. queue' \in Seq(Fresh) /\ Len(queue') <= MaxQueue
    BY <1>q, <1>3, QueueFacts, ManagerAssumption DEF Acquire, TypeOK
  <2>2. Head(queue) \in Jobs
    BY <1>q, <1>3, QueueFacts DEF Acquire, Fresh
  <2>3. job' \in Jobs
    BY <1>q, <1>3, <2>2 DEF Acquire, TypeOK, Jobs, Names
  <2> QED  BY <1>q, <1>3, <2>1, <2>3, QueueIsTyped DEF Acquire, Typed, TypeOK, Steps
<1>4. CASE Killed \/ DriverAbort
  <2>1. Gone /\ aborted' \in BOOLEAN
    BY <1>q, <1>4 DEF Killed, DriverAbort, TypeOK
  <2>2. queue' \in Seq(Fresh) /\ Len(queue') = 0
    BY <2>1, EmptySeq DEF Gone
  <2>3. job' \in Jobs
    BY <2>1, FreshJobs DEF Gone, Fresh
  <2>4. queue' \in Seq(Jobs) /\ Len(queue') <= MaxQueue /\ rung' \in 0..GpuRungs
    BY <2>1, <2>2, QueueIsTyped, ManagerAssumption DEF Gone
  <2>5. /\ state' \in [k : {"NotLoaded", "Loading", "Ready", "Error"}, file : Names]
        /\ installed' \in Lists
    BY <2>1 DEF Gone, NotLoaded, EmptyList, Lists, Names
  <2>6. {up, backend, aborted, asked, disturbed, unlisted, orphaned}' \subseteq BOOLEAN
    BY <2>1 DEF Gone
  <2> QED  BY <1>q, <2>1, <2>2, <2>3, <2>4, <2>5, <2>6 DEF Gone, Typed, TypeOK, Names, Steps
<1>5. CASE UNCHANGED vars
  BY <1>q, <1>5 DEF vars, Typed, TypeOK
<1> QED  BY <1>1, <1>2, <1>3, <1>4, <1>5, RequestTyped, JobTyped DEF Next

\* At the start nobody holds the mutex.
LEMMA HolderInit == Init => Holder
BY DEF Init, Holder, Reload, Job, LoadPhase, Asks

\* The holder goes through the steps of its own operation.
LEMMA HolderStep == Typed /\ Holder /\ [Next]_vars => Holder'
<1> SUFFICES ASSUME Typed, Holder, [Next]_vars PROVE Holder'
  OBVIOUS
<1> USE DEF LoadPhase, Asks
<1>q. job \in Jobs /\ queue \in Seq(Fresh)
  BY DEF Typed, TypeOK
<1>f. ASSUME pc' = "free", job' = Reload PROVE Holder'
  BY <1>f DEF Holder, Reload, Job
<1>u. CASE UNCHANGED <<pc, job>>
  BY <1>u DEF Holder
<1>1. CASE Launch \/ EarlyRefresh \/ UNCHANGED vars
  BY <1>1, <1>u DEF Launch, EarlyRefresh, vars
<1>2. CASE Request
  <2>1. ASSUME NEW f \in Files, startDownload(f) PROVE Holder'
    <3>1. pc' = pc /\ job' = [job EXCEPT !.latest = FALSE]
      BY <2>1 DEF startDownload, Forget
    <3>2. job.op' = job.op /\ job.file' = job.file /\ job.cancelled' = job.cancelled
      BY <3>1, <1>q DEF Jobs
    <3> QED  BY <3>1, <3>2 DEF Holder
  <2>2. CASE cancelDownload
    <3>1. CASE UNCHANGED job
      BY <2>2, <3>1, <1>u DEF cancelDownload
    <3>2. CASE job.op = "download" /\ pc # "free" /\ job' = [job EXCEPT !.cancelled = TRUE]
      BY <2>2, <3>2, <1>q DEF cancelDownload, Holder, Jobs
    <3> QED  BY <2>2, <3>1, <3>2 DEF cancelDownload, Cancellable
  <2>3. CASE leaveSettings
    BY <2>3, <1>q DEF leaveSettings, Holder, Jobs
  <2>4. CASE \/ \E f \in Files : startSelect(f) \/ startDelete(f) \/ startImport(f)
             \/ startUnload \/ reloadActive \/ clearTransfer
             \/ \E on \in BOOLEAN : setGpuEnabled(on)
    BY <2>4, <1>u DEF startSelect, startDelete, startImport, startUnload, reloadActive,
                      clearTransfer, setGpuEnabled, AppState
  <2> QED  BY <1>2, <2>1, <2>2, <2>3, <2>4 DEF Request
<1>3. CASE Acquire
  <2>1. Head(queue) \in Fresh
    BY <1>3, <1>q, QueueFacts DEF Acquire
  <2> QED  BY <1>3, <2>1 DEF Acquire, Holder, Fresh, Jobs
<1>4. CASE JobStep
  <2>1. CASE BeginReload
    BY <2>1, <1>f, <1>q DEF BeginReload, Release, LoadFile, Holder, Jobs
  <2>2. CASE BeginSelect
    BY <2>2, <1>f, <1>q DEF BeginSelect, Release, LoadFile, Holder, Jobs
  <2>3. CASE BeginTransfer
    BY <2>3 DEF BeginTransfer, Holder
  <2>4. CASE EndTransfer
    BY <2>4, <1>f, <1>q DEF EndTransfer, Release, LoadFile, Holder, Jobs
  <2>5. CASE BeginDelete \/ DeleteFreed
    BY <2>5 DEF BeginDelete, DeleteFreed, Holder
  <2>6. CASE DeleteFile \/ Unloaded \/ Finish
    BY <2>6, <1>f DEF DeleteFile, Unloaded, Finish, Release
  <2>7. CASE BeginUnload
    BY <2>7, <1>f DEF BeginUnload, Release, Holder
  <2>8. CASE LoadIntoContext \/ AttemptFree \/ AttemptBegin \/ AttemptNative \/ AttemptReady
    BY <2>8 DEF LoadIntoContext, AttemptFree, AttemptBegin, AttemptNative, AttemptReady, Holder
  <2>9. CASE AttemptThrows
    BY <2>9 DEF AttemptThrows, AttemptFailed, Holder
  <2> QED  BY <1>4, <2>1, <2>2, <2>3, <2>4, <2>5, <2>6, <2>7, <2>8, <2>9 DEF JobStep
<1>5. CASE Killed \/ DriverAbort
  BY <1>5, <1>f DEF Killed, DriverAbort, Gone
<1> QED  BY <1>1, <1>2, <1>3, <1>4, <1>5 DEF Next

\* Both hold all the time.
LEMMA TypedHolder == Spec => [](Typed /\ Holder)
BY TypeInit, HolderInit, TypeStep, HolderStep, PTL DEF Spec

\* Every variable keeps its type, whatever is asked for, cancelled or killed.
THEOREM ManagerTypes == Spec => []TypeOK
<1>1. Typed => TypeOK
  BY DEF Typed
<1> QED  BY <1>1, TypedHolder, PTL

(***************************************************************************)
(* The three views of "a model is loaded".                                 *)
(***************************************************************************)
\* Steps at which nothing that was loaded has been given up for the next model.
Settled == {"free", "begin", "transfer", "load", "deleteFree", "deleteFile", "unloaded"}

Agree == /\ backend <=> state.k = "Ready"
         /\ native = state.file
         /\ state.k = "Ready" => IF orphaned THEN store \in {state.file, None}
                                 ELSE state.file = store /\ store \in files

\* How far the three views are apart at every step of an operation.
Views ==
  /\ state.k \in {"NotLoaded", "Error"} => state.file = None
  /\ job.cancelled /\ pc \in LoadPhase \cup {"unloaded"} => disturbed
  /\ pc \in Settled => state.k # "Loading"
  /\ pc \in {"free", "begin", "transfer", "load", "deleteFile"} => disturbed \/ Agree
  /\ pc \in {"deleteFree", "unloaded", "freed", "native", "failed"} => native = None
  /\ pc = "deleteFile" => store # job.file
  /\ pc \in LoadPhase => job.file \in files /\ (job.op = "reload" => job.file = store)
  /\ pc \in Moments => state = Loading(job.file)
  /\ pc \in {"native", "loaded", "failed"} => ~backend
  /\ pc = "loaded" => native = job.file
  /\ pc = "finish" => \/ state = Ready(job.file) /\ backend /\ native = job.file
                      \/ state = Error /\ ~backend /\ (job.cancelled \/ native = None)

\* Nothing is loaded before the first launch, or after a death.
LEMMA NothingLoaded ==
  ASSUME state = NotLoaded, ~backend, native = None, pc = "free", ~job.cancelled
  PROVE  Views
BY DEF Views, Agree, NotLoaded, Moments, LoadPhase, Settled

\* Steps that leave the views alone; a cancellation that comes too late disturbs.
LEMMA ViewsStay ==
  ASSUME Views, UNCHANGED <<state, backend, native, pc, files, store, orphaned>>,
         job'.file = job.file, job'.op = job.op, job.cancelled => job'.cancelled,
         disturbed => disturbed',
         job'.cancelled /\ pc \in LoadPhase \cup {"unloaded"} => disturbed'
  PROVE  Views'
BY DEF Views, Agree, Loading, Ready, Error

\* Requests do not touch what is loaded.
LEMMA RequestViews == Typed /\ Holder /\ Views /\ Request => Views'
<1> SUFFICES ASSUME Typed, Holder, Views, Request PROVE Views'
  OBVIOUS
<1> USE DEF AppState, persistent, history, listing
<1>q. job \in Jobs
  BY DEF Typed, TypeOK
<1>c. job.cancelled /\ pc \in LoadPhase \cup {"unloaded"} => disturbed
  BY DEF Views
<1>1. CASE UNCHANGED <<job, disturbed>>
  <2>1. UNCHANGED <<state, backend, native, pc, files, store, orphaned>>
    BY DEF Request, startSelect, startDelete, startImport, startUnload, startDownload,
           reloadActive, clearTransfer, setGpuEnabled, cancelDownload, leaveSettings
  <2> QED  BY <1>1, <1>c, <2>1, ViewsStay
<1>2. ASSUME NEW f \in Files, startDownload(f) PROVE Views'
  <2>1. job'.file = job.file /\ job'.op = job.op /\ job'.cancelled = job.cancelled
    BY <1>2, <1>q DEF startDownload, Forget, Jobs
  <2>2. UNCHANGED <<state, backend, native, pc, files, store, disturbed, orphaned>>
    BY <1>2 DEF startDownload
  <2> QED  BY <2>1, <2>2, <1>c, ViewsStay
<1>3. CASE cancelDownload /\ ~UNCHANGED <<job, disturbed>>
  <2>1. /\ job' = [job EXCEPT !.cancelled = TRUE] /\ job.op = "download"
        /\ disturbed' = (disturbed \/ pc \in LoadPhase)
    BY <1>3 DEF cancelDownload, Cancellable
  <2>2. job'.file = job.file /\ job'.op = job.op /\ job'.cancelled
    BY <2>1, <1>q DEF Jobs
  <2>3. pc # "unloaded"
    BY <2>1 DEF Holder
  <2>4. UNCHANGED <<state, backend, native, pc, files, store, orphaned>>
    BY <1>3 DEF cancelDownload
  <2> QED  BY <2>1, <2>2, <2>3, <2>4, ViewsStay
<1>4. CASE leaveSettings
  <2>1. /\ job' = [job EXCEPT !.cancelled = TRUE] /\ job.op = "unload"
        /\ disturbed' = (disturbed \/ pc = "unloaded")
    BY <1>4 DEF leaveSettings
  <2>2. job'.file = job.file /\ job'.op = job.op /\ job'.cancelled
    BY <2>1, <1>q DEF Jobs
  <2>3. pc \notin LoadPhase
    BY <2>1 DEF Holder
  <2>4. UNCHANGED <<state, backend, native, pc, files, store, orphaned>>
    BY <1>4 DEF leaveSettings
  <2> QED  BY <2>1, <2>2, <2>3, <2>4, ViewsStay
<1>5. \/ UNCHANGED <<job, disturbed>> \/ (\E f \in Files : startDownload(f))
      \/ cancelDownload \/ leaveSettings
  BY DEF Request, startSelect, startDelete, startImport, startUnload,
         reloadActive, clearTransfer, setGpuEnabled
<1> QED  BY <1>1, <1>2, <1>3, <1>4, <1>5

\* An operation leaves the views in agreement, or says that it was disturbed.
LEMMA JobViews == Typed /\ Holder /\ Views /\ JobStep => Views'
<1> SUFFICES ASSUME Typed, Holder, Views, JobStep PROVE Views'
  OBVIOUS
<1> USE DEF Views, Agree, Settled, Moments, LoadPhase, Others, Keep, GivesUp, persistent, history, listing
<1>q. job \in Jobs /\ store \in Names /\ files \subseteq Files /\ None \notin Files
      /\ state \in [k : {"NotLoaded", "Loading", "Ready", "Error"}, file : Names]
  BY ManagerAssumption DEF Typed, TypeOK
<1>r. Reload.cancelled = FALSE
  BY DEF Reload, Job
<1>f. \A f \in Names : /\ [job EXCEPT !.file = f].file = f
                       /\ [job EXCEPT !.file = f].op = job.op
                       /\ [job EXCEPT !.file = f].cancelled = job.cancelled
  BY <1>q DEF Jobs
<1>l. ASSUME NEW f \in files', LoadFile(f), pc \in {"begin", "transfer"}, ~job.cancelled,
             files \subseteq files', job.op = "reload" => f = store, f \in Names,
             UNCHANGED <<state, backend, native, store, disturbed, orphaned>>
      PROVE  Views'
  <2>1. job'.file = f /\ job'.op = job.op /\ ~job'.cancelled /\ pc' = "load"
    BY <1>l, <1>f DEF LoadFile
  <2> QED  BY <1>l, <2>1
<1>e. ASSUME Release, pc \in {"begin", "transfer"}, Agree => Agree',
             UNCHANGED <<state, backend, native, disturbed>>
      PROVE  Views'
  <2>1. pc' = "free" /\ ~job'.cancelled
    BY <1>e, <1>r DEF Release
  <2> QED  BY <1>e, <2>1
<1>1. CASE BeginReload
  <2>1. /\ pc = "begin" /\ job.op = "reload" /\ ~job.cancelled
        /\ UNCHANGED <<state, backend, native, files, disturbed, orphaned>>
    BY <1>1 DEF BeginReload, Holder
  <2>2. CASE store \in files /\ LoadFile(store) /\ UNCHANGED store
    BY <2>1, <2>2, <1>l, <1>q
  <2>3. CASE store \notin files /\ store' = None /\ Release
    <3>1. Agree => Agree'
      BY <2>1, <2>3
    <3> QED  BY <2>1, <2>3, <3>1, <1>e
  <2> QED  BY <1>1, <2>2, <2>3 DEF BeginReload
<1>2. CASE BeginSelect
  <2>1. /\ pc = "begin" /\ job.op = "select" /\ ~job.cancelled
        /\ UNCHANGED <<state, backend, native, files, store, disturbed, orphaned>>
    BY <1>2 DEF BeginSelect, Holder
  <2>2. CASE job.file \in files /\ LoadFile(job.file)
    BY <2>1, <2>2, <1>l, <1>q DEF Names
  <2>3. CASE Release
    BY <2>1, <2>3, <1>e
  <2> QED  BY <1>2, <2>2, <2>3 DEF BeginSelect
<1>3. CASE BeginTransfer
  BY <1>3 DEF BeginTransfer
<1>4. CASE EndTransfer
  <2>1. /\ pc = "transfer" /\ job.op # "reload" /\ job.file \in Names
        /\ UNCHANGED <<state, backend, native, store, disturbed>>
    BY <1>4 DEF EndTransfer, Holder, Asks, Names
  <2>2. CASE /\ ~job.cancelled /\ files' = files \cup {job.file} /\ LoadFile(job.file)
             /\ UNCHANGED orphaned
    BY <2>1, <2>2, <1>l
  <2>3. CASE Release
    <3>1. CASE files \subseteq files' /\ UNCHANGED orphaned
      <4>1. Agree => Agree'
        BY <2>1, <3>1
      <4> QED  BY <2>1, <2>3, <4>1, <1>e
    <3>2. CASE TargetLost
      <4>1. files' = files \ {job.file} /\ orphaned' = (orphaned \/ state.file = job.file)
        BY <3>2 DEF TargetLost
      <4>2. Agree => Agree'
        BY <2>1, <4>1
      <4> QED  BY <2>1, <2>3, <4>2, <1>e
    <3> QED  BY <1>4, <2>3, <3>1, <3>2 DEF EndTransfer, NotPromoted, LoadFile, Release
  <2> QED  BY <1>4, <2>2, <2>3 DEF EndTransfer
<1>5. CASE BeginDelete
  BY <1>5, <1>q DEF BeginDelete
<1>6. CASE DeleteFreed
  BY <1>6, <1>q DEF DeleteFreed, NotLoaded, Holder, Asks
<1>7. CASE DeleteFile
  BY <1>7, <1>q, <1>r DEF DeleteFile, Release
<1>8. CASE BeginUnload
  BY <1>8, <1>r DEF BeginUnload, Release
<1>9. CASE Unloaded
  BY <1>9, <1>r DEF Unloaded, Release, NotLoaded
<1>10. CASE LoadIntoContext
  BY <1>10 DEF LoadIntoContext, Loading
<1>11. CASE AttemptFree \/ AttemptBegin \/ AttemptNative
  BY <1>11 DEF AttemptFree, AttemptBegin, AttemptNative, Loading
<1>12. CASE AttemptReady
  BY <1>12 DEF AttemptReady, Ready, Loading
<1>13. CASE AttemptThrows
  BY <1>13 DEF AttemptThrows, AttemptFailed, Loading, Error
<1>14. CASE Finish
  <2>1. /\ pc' = "free" /\ ~job'.cancelled /\ pc = "finish"
        /\ UNCHANGED <<state, files, backend, native>>
    BY <1>14, <1>r DEF Finish, Release
  <2>2. CASE state = Ready(job.file)
    <3>1. store' = job.file
      BY <1>14, <2>2 DEF Finish, Ready
    <3>2. state'.k = "Ready" /\ state'.file = job.file
      BY <2>1, <2>2 DEF Ready
    <3>3. backend' /\ native' = job.file /\ job.file \in files'
      BY <2>1, <2>2 DEF Ready, Error
    <3> QED  BY <2>1, <3>1, <3>2, <3>3
  <2>3. CASE state = Error
    <3>1. store' = store /\ disturbed' = (disturbed /\ job.cancelled)
      BY <1>14, <2>3 DEF Finish, Error
    <3>2. state'.k = "Error" /\ state'.file = None
      BY <2>1, <2>3 DEF Error
    <3>3. ~backend' /\ (disturbed' \/ native' = None)
      BY <2>1, <2>3, <3>1 DEF Ready, Error
    <3> QED  BY <2>1, <3>2, <3>3
  <2> QED  BY <2>1, <2>2, <2>3
<1> QED  BY <1>1, <1>2, <1>3, <1>4, <1>5, <1>6, <1>7, <1>8, <1>9, <1>10, <1>11, <1>12,
            <1>13, <1>14 DEF JobStep

\* Starts and deaths find or leave nothing loaded.
LEMMA ViewsStep == Typed /\ Holder /\ Views /\ [Next]_vars => Views'
<1> SUFFICES ASSUME Typed, Holder, Views, [Next]_vars PROVE Views'
  OBVIOUS
<1> USE DEF persistent, history, listing
<1>r. Reload.cancelled = FALSE
  BY DEF Reload, Job
<1>1. CASE Launch \/ EarlyRefresh \/ UNCHANGED vars
  <2>1. UNCHANGED <<state, backend, native, pc, files, store, job, disturbed, orphaned>>
    BY <1>1 DEF Launch, EarlyRefresh, vars
  <2> QED  BY <2>1 DEF Views, Agree, Loading, Ready, Error
<1>2. CASE Acquire
  <2>1. /\ pc = "free" /\ pc' = "begin"
        /\ UNCHANGED <<state, backend, native, files, store, disturbed, orphaned>>
    BY <1>2 DEF Acquire
  <2> QED  BY <2>1 DEF Views, Agree, Settled, Moments, LoadPhase
<1>3. CASE Killed \/ DriverAbort
  <2>1. state' = NotLoaded /\ ~backend' /\ native' = None /\ pc' = "free" /\ ~job'.cancelled
    BY <1>3, <1>r DEF Killed, DriverAbort, Gone
  <2> QED  BY <2>1 DEF Views, Agree, NotLoaded, Moments, LoadPhase, Settled
<1> QED  BY <1>1, <1>2, <1>3, RequestViews, JobViews DEF Next

\* The views agree in every state, beside the types.
LEMMA ViewsInvariant == Spec => [](Typed /\ Holder /\ Views)
<1>1. Init => Views
  BY NothingLoaded DEF Init, Reload, Job
<1> QED  BY <1>1, TypeInit, HolderInit, TypeStep, HolderStep, ViewsStep, PTL DEF Spec

\* Whatever is queued, cancelled or killed, and at whatever step: between operations
\* the UI, the backend, the native context and the stored choice agree, unless a
\* cancellation cut an operation short, and the UI is never left on Loading.  A failed
\* replacement that took the loaded model's file costs the file and the choice alone.
THEOREM ViewsStayTogether == Spec => []ViewsAgree
<1>1. Views => ViewsAgree
  BY DEF Views, Agree, ViewsAgree, AtRest, Settled
<1> QED  BY <1>1, ViewsInvariant, PTL

\* A model that is selected is the one that is loaded at the end, or the load failed.
THEOREM SelectionLoads == Spec => SelectLoads
<1> DEFINE A == SelectEnds /\ job.file \in files /\ ~disturbed
                  => native' = job.file \/ state'.k = "Error"
<1>1. Typed /\ Holder /\ Views /\ [Next]_vars => [A]_vars
  <2> SUFFICES ASSUME Typed, Holder, Views, Next, SelectEnds, job.file \in files, ~disturbed
               PROVE  native' = job.file \/ state'.k = "Error"
    OBVIOUS
  <2>0. pc # "free" /\ pc' = "free" /\ up' /\ job.op = "select"
    BY DEF SelectEnds
  <2>1. JobStep
    BY <2>0 DEF Next, Launch, EarlyRefresh, Request, startSelect, startDelete, startImport,
                startUnload, startDownload, reloadActive, clearTransfer, setGpuEnabled,
                cancelDownload, leaveSettings, AppState, Acquire, Killed, DriverAbort, Gone
  <2>2. BeginSelect \/ Finish
    BY <2>0, <2>1 DEF JobStep, Holder, LoadPhase, BeginReload, BeginTransfer, EndTransfer,
                      BeginDelete, DeleteFreed, DeleteFile, BeginUnload, Unloaded,
                      LoadIntoContext, AttemptFree, AttemptBegin, AttemptNative,
                      AttemptReady, AttemptThrows, AttemptFailed
  <2>3. CASE BeginSelect
    <3>1. native' = native /\ pc = "begin" /\ store = job.file /\ backend
      BY <2>0, <2>3 DEF BeginSelect, LoadFile
    <3>2. store # None
      BY <3>1, ManagerAssumption DEF Typed, TypeOK
    <3> QED  BY <3>1, <3>2 DEF Views, Agree
  <2>4. CASE Finish
    BY <2>4 DEF Finish, Views, Ready, Error
  <2> QED  BY <2>2, <2>3, <2>4
<1>2. Spec => [][A]_vars
  BY <1>1, ViewsInvariant, PTL DEF Spec
<1> QED  BY <1>2 DEF SelectLoads

(***************************************************************************)
(* A cancelled download.                                                   *)
(***************************************************************************)
\* Until bytes have arrived the chats go where they went when the job began.
Untouched == pc \in {"begin", "transfer"} /\ job.had # None => backend /\ native = job.had

\* Nothing but the load frees the context a transfer began with.
LEMMA UntouchedStep == Typed /\ Holder /\ Untouched /\ [Next]_vars => Untouched'
<1> SUFFICES ASSUME Typed, Untouched, [Next]_vars PROVE Untouched'
  OBVIOUS
<1> USE DEF persistent, history, listing, AppState, Untouched
<1>q. job \in Jobs /\ queue \in Seq(Fresh)
  BY DEF Typed, TypeOK
<1>1. CASE Acquire
  <2>1. Head(queue) \in Jobs
    BY <1>1, <1>q, QueueFacts DEF Acquire, Fresh
  <2> QED  BY <1>1, <2>1 DEF Acquire, Jobs
<1>2. CASE Request
  <2>1. UNCHANGED <<pc, backend, native>> /\ job'.had = job.had
    BY <1>2, <1>q DEF Request, startSelect, startDelete, startImport, startUnload,
       startDownload, reloadActive, clearTransfer, setGpuEnabled, cancelDownload,
       leaveSettings, Forget, Jobs
  <2> QED  BY <2>1
<1>3. CASE JobStep
  BY <1>3 DEF JobStep, BeginReload, BeginSelect, BeginTransfer, EndTransfer, BeginDelete,
     DeleteFreed, DeleteFile, BeginUnload, Unloaded, LoadIntoContext, AttemptFree,
     AttemptBegin, AttemptNative, AttemptReady, AttemptThrows, AttemptFailed, Finish,
     Release, LoadFile
<1>4. CASE Launch \/ EarlyRefresh \/ Killed \/ DriverAbort \/ UNCHANGED vars
  BY <1>4 DEF Launch, EarlyRefresh, Killed, DriverAbort, Gone, vars
<1> QED  BY <1>1, <1>2, <1>3, <1>4 DEF Next

\* A download that is cancelled while bytes arrive leaves the chats where they were.
THEOREM EarlyCancelKeeps == Spec => EarlyCancelKeepsModel
<1> DEFINE A == CancelEnds /\ pc = "transfer" /\ job.had # None
                  => native' = job.had /\ backend'
<1>1. Typed /\ Untouched /\ [Next]_vars => [A]_vars
  <2> SUFFICES ASSUME Untouched, Next, CancelEnds, pc = "transfer", job.had # None
               PROVE  native' = job.had /\ backend'
    OBVIOUS
  <2>1. backend /\ native = job.had /\ pc' = "free" /\ up'
    BY DEF Untouched, CancelEnds
  <2>2. EndTransfer
    BY <2>1 DEF Next, Launch, EarlyRefresh, Request, startSelect, startDelete, startImport,
                startUnload, startDownload, reloadActive, clearTransfer, setGpuEnabled,
                cancelDownload, leaveSettings, AppState, Acquire, Killed, DriverAbort, Gone,
                JobStep, BeginReload, BeginSelect, BeginTransfer,
                BeginDelete, DeleteFreed, DeleteFile, BeginUnload, Unloaded,
                LoadIntoContext, AttemptFree, AttemptBegin, AttemptNative,
                AttemptReady, AttemptThrows, Finish
  <2> QED  BY <2>1, <2>2 DEF EndTransfer
<1>2. Init => Untouched
  BY DEF Init, Untouched
<1>3. Spec => [][A]_vars
  BY <1>1, <1>2, TypedHolder, UntouchedStep, PTL DEF Spec
<1> QED  BY <1>3 DEF EarlyCancelKeepsModel

(***************************************************************************)
(* The published list.                                                     *)
(***************************************************************************)
\* Where the list is the one on disk, and what the first refresh can have read.
Listed ==
  /\ early = "read" => up /\ pc = "free" /\ state = NotLoaded
  /\ ~up => early = "done" /\ pc = "free" /\ state = NotLoaded
  /\ up /\ early = "done" /\ ~unlisted /\ pc \in {"free", "begin", "transfer", "unloaded"}
       => installed = ListNow(state, files)

\* Every job publishes the list it leaves, or says that it did not.
LEMMA ListedStep == Typed /\ Listed /\ [Next]_vars => Listed'
<1> SUFFICES ASSUME Typed, Listed, [Next]_vars PROVE Listed'
  OBVIOUS
<1> USE DEF persistent, history, listing, Listed
<1>1. CASE Launch
  BY <1>1 DEF Launch
<1>2. CASE EarlyRefresh
  <2>1. /\ early' = "done" /\ installed' = ListNow(NotLoaded, files)
        /\ unlisted' = (early = "overtaken") /\ UNCHANGED <<up, pc, state, files>>
    BY <1>2 DEF EarlyRefresh
  <2>2. early = "read" \/ early = "overtaken"
    BY <1>2 DEF EarlyRefresh, Typed, TypeOK
  <2>3. CASE early = "read"
    BY <2>1, <2>3
  <2>4. CASE early = "overtaken"
    <3>1. unlisted'
      BY <2>1, <2>4
    <3> QED  BY <1>2, <2>1, <3>1 DEF EarlyRefresh
  <2> QED  BY <2>2, <2>3, <2>4
<1>3. CASE Request \/ UNCHANGED vars
  <2>1. UNCHANGED <<early, up, pc, state, unlisted, installed, files>>
    BY <1>3 DEF Request, startSelect, startDelete, startImport, startUnload,
       startDownload, reloadActive, clearTransfer, setGpuEnabled, cancelDownload,
       leaveSettings, AppState, vars
  <2> QED  BY <2>1
<1>4. CASE Acquire
  BY <1>4 DEF Acquire, NotLoaded
<1>5. CASE JobStep
  <2>0. UNCHANGED <<early, up>> /\ up
    BY <1>5 DEF JobStep, BeginReload, BeginSelect, BeginTransfer, EndTransfer, BeginDelete,
       DeleteFreed, DeleteFile, BeginUnload, Unloaded, LoadIntoContext, AttemptFree,
       AttemptBegin, AttemptNative, AttemptReady, AttemptThrows, AttemptFailed, Finish,
       Keep, GivesUp, Others
  <2>1. pc # "free" /\ early # "read"
    BY <1>5 DEF JobStep, BeginReload, BeginSelect, BeginTransfer, EndTransfer, BeginDelete,
       DeleteFreed, DeleteFile, BeginUnload, Unloaded, LoadIntoContext, AttemptFree,
       AttemptBegin, AttemptNative, AttemptReady, AttemptThrows, AttemptFailed, Finish
  <2>2. CASE installed' = ListNow(state', files')
    BY <2>0, <2>1, <2>2
  <2>3. CASE pc' \notin {"free", "begin", "transfer", "unloaded"}
    BY <2>0, <2>1, <2>3
  <2>4. CASE BeginReload \/ BeginSelect
    BY <2>0, <2>1, <2>2, <2>4
       DEF BeginReload, BeginSelect, Release, LoadFile, refreshInstalled
  <2>5. CASE BeginTransfer \/ BeginUnload
    BY <2>0, <2>1, <2>5 DEF BeginTransfer, BeginUnload, Release
  <2>6. CASE EndTransfer
    BY <2>0, <2>1, <2>6 DEF EndTransfer, NotPromoted, TargetLost, Release, LoadFile
  <2>7. CASE DeleteFile \/ Finish
    BY <2>2, <2>7 DEF DeleteFile, Finish, refreshInstalled
  <2>8. CASE Unloaded
    BY <2>0, <2>1, <2>2, <2>8 DEF Unloaded, Release, refreshInstalled
  <2>9. CASE \/ BeginDelete \/ DeleteFreed \/ LoadIntoContext \/ AttemptFree \/ AttemptBegin
             \/ AttemptNative \/ AttemptReady \/ AttemptThrows
    BY <2>3, <2>9 DEF BeginDelete, DeleteFreed, LoadIntoContext, AttemptFree, AttemptBegin,
                      AttemptNative, AttemptReady, AttemptThrows, AttemptFailed
  <2> QED  BY <1>5, <2>4, <2>5, <2>6, <2>7, <2>8, <2>9 DEF JobStep
<1>6. CASE Killed \/ DriverAbort
  BY <1>6 DEF Killed, DriverAbort, Gone
<1> QED  BY <1>1, <1>2, <1>3, <1>4, <1>5, <1>6 DEF Next

\* Between operations the published list is the one on disk, with the loaded model
\* flagged, unless the first refresh was overtaken, or a transfer that ended without a
\* load left or took a file.
THEOREM ListStaysTrue == Spec => []ListAgrees
<1>1. Init => Listed
  BY DEF Init, Listed
<1>2. Listed => ListAgrees
  BY DEF Listed, ListAgrees, AtRest
<1> QED  BY <1>1, <1>2, TypedHolder, ListedStep, PTL DEF Spec

(***************************************************************************)
(* The GPU crash guard.                                                    *)
(***************************************************************************)
\* A load after a crash that nobody overruled finds the marker, the verdict or the
\* switch turned off, and stays on the CPU; a load on the GPU has its marker on disk,
\* or was asked for while it ran.
Guarded ==
  /\ aborted => \/ gpu.disabled \/ ~gpu.user
                \/ gpu.attempting /\ pc \notin Moments \cup {"finish"}
  /\ aborted /\ pc \in Moments => rung = 0
  /\ pc = "native" /\ rung > 0 => asked \/ gpu.attempting

\* The marker is on disk before the GPU is touched, and only the user overrules it.
LEMMA GuardedStep == Typed /\ Holder /\ Guarded /\ [Next]_vars => Guarded'
<1> SUFFICES ASSUME Typed, Holder, Guarded, [Next]_vars PROVE Guarded'
  OBVIOUS
<1> USE DEF persistent, history, listing, Guarded, Moments
<1>q. /\ gpu \in [user : BOOLEAN, disabled : BOOLEAN, attempting : BOOLEAN]
      /\ rung \in 0..GpuRungs
  BY DEF Typed, TypeOK
<1>1. CASE Launch \/ EarlyRefresh \/ Acquire \/ UNCHANGED vars
  BY <1>1 DEF Launch, EarlyRefresh, Acquire, vars
<1>2. CASE Request
  <2>1. ASSUME NEW on \in BOOLEAN, setGpuEnabled(on) PROVE Guarded'
    <3>1. /\ gpu'.user = on /\ gpu'.disabled = (gpu.disabled /\ ~on)
          /\ gpu'.attempting = (gpu.attempting /\ ~on)
          /\ aborted' = (aborted /\ ~on) /\ asked' = (asked \/ (on /\ GpuLoadRuns))
          /\ UNCHANGED <<pc, rung>>
      BY <2>1 DEF setGpuEnabled, AppState
    <3> QED  BY <3>1 DEF GpuLoadRuns
  <2>2. CASE UNCHANGED <<gpu, aborted, asked, pc, rung>>
    BY <2>2
  <2> QED  BY <1>2, <2>1, <2>2 DEF Request, startSelect, startDelete, startImport, startUnload,
       startDownload, reloadActive, clearTransfer, cancelDownload, leaveSettings, AppState
<1>3. CASE JobStep
  <2>1. CASE LoadIntoContext
    <3>1. UNCHANGED <<aborted, asked>> /\ pc' = "attempt" /\ gpu' = layersToOffload
          /\ rung' = IF gpu.user /\ ~gpu'.disabled THEN GpuRungs ELSE 0
      BY <2>1 DEF LoadIntoContext, GivesUp
    <3>2. CASE ~gpu.user
      BY <3>1, <3>2 DEF layersToOffload
    <3>3. CASE gpu.user
      <4>1. gpu'.user = gpu.user /\ gpu'.disabled = (gpu.disabled \/ gpu.attempting)
        BY <1>q, <3>1, <3>3 DEF layersToOffload
      <4> QED  BY <3>1, <3>3, <4>1
    <3> QED  BY <3>2, <3>3
  <2>2. CASE AttemptBegin
    <3>1. /\ gpu'.user = gpu.user /\ gpu'.disabled = gpu.disabled
          /\ gpu'.attempting = (gpu.attempting \/ rung > 0)
          /\ UNCHANGED <<aborted, rung>> /\ pc = "freed" /\ pc' = "native"
      BY <1>q, <2>2 DEF AttemptBegin
    <3> QED  BY <3>1
  <2>3. CASE AttemptReady
    <3>1. /\ gpu'.user = gpu.user /\ gpu'.disabled = gpu.disabled
          /\ UNCHANGED <<aborted, rung>> /\ pc = "loaded" /\ pc' = "finish"
      BY <1>q, <2>3 DEF AttemptReady, Keep
    <3> QED  BY <3>1
  <2>4. CASE AttemptThrows
    <3>1. /\ gpu'.user = gpu.user /\ gpu'.disabled = gpu.disabled /\ UNCHANGED aborted
          /\ pc \in Moments /\ pc' \in {"attempt", "finish"}
          /\ rung' = rung \/ (rung > 0 /\ rung' = rung - 1)
      BY <1>q, <2>4 DEF AttemptThrows, AttemptFailed, Keep
    <3> QED  BY <1>q, <3>1
  <2>5. CASE AttemptFree \/ AttemptNative
    BY <2>5 DEF AttemptFree, AttemptNative, Keep
  <2>6. CASE \/ BeginReload \/ BeginSelect \/ BeginTransfer \/ EndTransfer \/ BeginDelete
             \/ DeleteFreed \/ DeleteFile \/ BeginUnload \/ Unloaded \/ Finish
    <3>1. UNCHANGED <<gpu, aborted, asked>> /\ pc \notin Moments /\ pc' \notin Moments \cup {"finish"}
      BY <2>6 DEF BeginReload, BeginSelect, BeginTransfer, EndTransfer, BeginDelete,
         DeleteFreed, DeleteFile, BeginUnload, Unloaded, Finish, Release, LoadFile, Keep, GivesUp
    <3> QED  BY <3>1
  <2> QED  BY <1>3, <2>1, <2>2, <2>3, <2>4, <2>5, <2>6 DEF JobStep
<1>4. CASE Killed
  BY <1>4 DEF Killed, Gone
<1>5. CASE DriverAbort
  BY <1>5 DEF DriverAbort, Gone
<1> QED  BY <1>1, <1>2, <1>3, <1>4, <1>5 DEF Next

\* Once a GPU load has killed the process, none starts again until the user asks for
\* it, for any ladder and any sequence of toggles, cancellations, loads and deaths.
THEOREM CrashLoopAvoided == Spec => []NoCrashLoop
<1>1. Init => Guarded
  BY DEF Init, Guarded, Moments
<1>2. Guarded => NoCrashLoop
  BY DEF Guarded, NoCrashLoop, Moments
<1> QED  BY <1>1, <1>2, TypedHolder, GuardedStep, PTL DEF Spec
===============================================================================
