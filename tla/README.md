# Domain AI: specifications, model checking and proofs

Domain AI is an Android chat application. It keeps conversations encrypted on
the device, runs a language model in the process through llama.cpp, and can send
a turn to a cloud provider when the user agrees to it. The program's own code is
about seven thousand lines of Kotlin and C++ under `src/app` and
`src/llama/src/main`; the rest of the repository is llama.cpp.

This directory holds TLA+ modules of the parts of that code where order, crashes
and cancellation decide whether it is right, the TLC configurations that check
them on small instances, and TLAPS proofs of the results that matter most for
every instance. Below, file names without a directory are those of
`src/app/src/main/java/sg/act/domain/` and its packages, and of
`src/llama/src/main/`.

## 1. The system

### Components

| Component | State it keeps | Operations | What makes it correct |
|---|---|---|---|
| Conversation history store (`ConversationStore.kt`) | three encrypted files: canonical, `.bak`, `.tmp` | `load`, `save` | a crash or failure at any point loses no stored history; a save happens entirely or not at all |
| Conversations and turns (`ChatRepository.kt`, `ChatViewModel.kt`) | list, open chat, rolling summaries, the turn in progress, `restored` | `restore`, `send`, `finalizeReply`, new, select, delete, rename, Stop | a reply grows in its own message; summaries stand for the messages they replace; what is shown is what is stored |
| Model lifecycle (`ModelManager.kt`, `ModelStore.kt`) | UI state, transfer, routed backend, installed list, persisted choice, mutex queue | download, import, select, delete, unload, reload, cancel | the views of "which model is loaded" agree; a load always ends |
| GPU crash guard (`GpuGuard.kt`) | three persisted flags | `layersToOffload`, `beginAttempt`, `endAttempt`, `setUserEnabled` | no second crash by the same cause without the user asking |
| Native run loop (`LLamaAndroid.kt`) | one executor thread, thread-local context | `load`, `unload`, `sendChat` | native calls never overlap on freed memory; every request gets the thread |
| Native inference (`llama-android.cpp`, over `llama-context.cpp` and its KV cache) | KV cache, outputs, static token cache, native memory | load, free, init, loop, decode | every batch fits; a reply samples from its own tokens and shows all of its text; nothing leaks |
| CPU thread pool (`ggml-cpu.c`) | the signal, the barrier, the chunk counter, the threads | compute a graph, make and free the pool | each part of a graph is computed once and in order; nobody waits forever |
| Transfer lifecycle (`DomainApp.kt`, `ForegroundWork.kt`, `InferenceService.kt`) | a reference count, a foreground service, a watcher | begin, update, end | one end for every begin; the service runs while work does |
| Privacy routing (`PrivacyRouter.kt`, `NetworkGuard.kt`, `PrivacySettings.kt`, `RemoteEngine.kt`) | kill switch, consents, redaction | `answer`, fallback | nothing leaves the device without both consents |
| Downloader and model files (`ModelDownloader.kt`, `ModelStorage.kt`) | partial and promoted files | resume, retry, mirror, promote | only a complete, valid file is promoted |
| Device rating (`DeviceCapabilities.kt`, context and thread settings) | none, or one preference | arithmetic | thread counts and contexts within what the native side accepts |
| Offline responder, redactor, catalogue, key-value stores, crash reporting, Compose UI | none that other parts read | | not modelled, see section 8 |

### How they interact

`ChatViewModel` starts a turn in `viewModelScope`. `ChatRepository.send` prepares
the history (perhaps generating a summary on the device), appends the user's
message, waits for the privacy state, asks `PrivacyRouter` for a stream and
collects it. A local stream is a flow that the native run loop produces on its
own thread, and that crosses to the main thread through a bounded channel.
`finalizeReply` persists through `ConversationStore`, on the IO dispatcher.

`ModelManager` runs one operation at a time under a mutex. It calls
`LLamaAndroid.load` and `unload`, which are tasks of the *same* executor thread
that produces replies, and publishes its state to the UI and to `DomainApp`'s
watcher. That thread is also thread 0 of llama.cpp's thread pool: inside a native
call it computes every graph together with the pool's workers, which are the
context's own when the device's core speeds could be read (they are pinned to the
fastest cores) and are made anew for each graph otherwise. Settings launches most operations on the application's scope, but
`unload()` on the screen's own scope, so leaving the screen cancels it.

### What is hard about it

* **Suspension points.** Almost nothing is locked: code is atomic only between
  two suspensions on the main thread. Anything read before and used after one
  (the open conversation, the captured native handles, the persisted choice) may
  be stale.
* **Cancellation** arrives at any suspension, and `catch (e: Exception)` and
  `runCatching` also catch it.
* **Process death** at any instruction: Android kills in the background, a GPU
  driver aborts during a load.
* **Ordering on dispatchers**: saves started in order may end out of order.
* **A bounded channel** between the run loop and the UI.
* **Lock-free code** in the thread pool: a barrier that is used again at once,
  polling that falls back to a condition variable, counters that wrap.
* **Failures that are only logged**: after a failed decode the token loop goes on.

`PROJECT.json` lists each hazard with its line.

## 2. Modules

| Module | Models | Depends on |
|---|---|---|
| `AtomicHistory` | what callers may rely on of a history store: one cell, written atomically | |
| `ConversationStore` | every file operation of `load()` and `save()` | refines `AtomicHistory` |
| `ConversationStoreProofs` | theorems about it | extends it |
| `ModelManager` | the model lifecycle, the crash guard, the persisted choice | |
| `ModelManagerProofs` | theorems about it | extends it |
| `LlamaRunLoop` | the executor thread, replies, loads and unloads | |
| `LlamaRunLoopProofs` | theorems about it | extends it |
| `NodeByNode` | what computing a graph promises: every part once, stage by stage | |
| `ThreadPool` | the CPU backend's thread pool | implements `NodeByNode` |
| `ThreadPoolProofs` | lemmas about it: its inductive invariant, and how much of a graph is computed | extends it |
| `NativeInference` | load, reply and unload as native calls, over decode and the KV cache | extends `ThreadPool` |
| `MCNativeInference` | its workloads for TLC | extends it |
| `NativeInferenceProofs` | theorems about it | extends it and `ThreadPoolProofs` |
| `ChatRepository` | conversations, turns, the persist gate | over the atomic cell of `AtomicHistory` |
| `ChatRepositoryProofs` | theorems about it | extends it |
| `ModelDownloader` | one URL streamed into the temporary file, retries, resumption, the model's files | |
| `ForegroundWork` | the reference count and the service | |
| `ModelTransfer` | a download or import from the request to the load, and the watcher | composes the two above |
| `ModelTransferProofs` | theorems about it and about `ForegroundWork` | extends it |
| `PrivacyRouter` | where a turn is answered, the switches, the provider, the pick | |
| `PrivacyRouterProofs` | theorems about it | extends it |

Operators whose comment begins with *Mutation* are not part of the models. Each
is a plausible bug in one definition; it is put in the definition's place to see
that a property notices.

### ConversationStore

`file`, `bak` and `tmp` are the three files; a content is absent, torn (an
unfinished write) or sealed under a name and version (`EncryptedFile` binds the
file name, so a renamed ciphertext does not decrypt). `app` is the progress of
`restore()` and `load()`; every saver has a program counter with one step per
file operation of `save()`. Versions are numbered in the order in which
`persist()` took its snapshot. `floor` is a history variable, the newest version
whose save returned. `hazards`, chosen at the start among the sets of
`Environments`, names what the environment may do beyond crashes between
operations and failing writes:

| Hazard | Meaning |
|---|---|
| `tornWrite` | the process dies *inside* the write of the canonical file |
| `copyFails` | the raw backup copy fails; `runCatching` swallows it |
| `overlap` | a second save starts before the first has returned |
| `readFails` | a read of a good file fails once (the key store is busy) |
| `tempOnly` | the disk was left by the older build, which wrote `.tmp` |

`Calm` is the environment without any of them. A copy is one step that may also
end half-way when the process dies.

### ModelManager

Every management operation is a job that takes the mutex. A job is cut where the
code suspends, at `withContext` on the native thread or on `Dispatchers.IO`, so
that cancellation, user requests, process death and driver aborts fall between
the right statements; the rungs of the GPU ladder are tried one by one
(`LoadIntoContext`, `AttemptFree`, `AttemptBegin`, `AttemptNative`, then
`AttemptReady` or `AttemptThrows`, and `Finish`). A transfer is a single step
(`EndTransfer`) that succeeds, fails or is cancelled; `finalize()` and
`importFrom()` delete the installed file before they rename the new one to its
name, so an ending without a load may have lost that file (`TargetLost`), and
nothing is published about it. Requests are those the screens offer: files of the
published list to select and delete, files missing from it to download, any file to
import. `files`, `store` and `gpu` survive a
process death, nothing else does. The guard commits its marker before it returns;
`modelStore` uses `apply()`, which the model takes as immediate.

History variables: `aborted` (a GPU load killed the process and the user has not
asked for the GPU since that load began), `asked` (they asked while it ran),
`disturbed` (an operation was cancelled after it had begun to change the loaded
model, and no load has ended since), `unlisted` (the published list is known to be
outdated), `orphaned` (a replacement that failed has deleted the file of the model
that is loaded, and that model has not been given up since). They let the properties say *exactly* when the code's promises hold,
with every race enabled.

### LlamaRunLoop

`tasks` is the executor's queue: flows to start or resume, and the one load or
unload that ModelManager can be waiting for. A flow is collected on the main
thread (`Collect`, `Take`, `Cancel`, `Finished`) and produced on the executor
(`Start`, `Token`, `Stop`, `Resume`). `Token` emits a piece into the channel of
capacity `BufferCap`; on a full channel the flow suspends and gives the thread
away. `held` is the context whose handles `runCompletion` captured. `kv` is the
flow whose tokens are in the KV cache and in the static token cache. Contexts are
numbered by load. `yielded` and `lost` are history variables: the flow has given
the thread away since its start, and the contexts whose `load()` failed after
`load_model()` had succeeded.

### ThreadPool

`pool` is the part of `struct ggml_threadpool` that the threads share, `at` and
`local` are each thread's place and its `ggml_compute_state` with the locals of
the functions it is in. One atomic operation is one step: the barrier is cut into
`Enter`, `Arrive`, `Zero`, `Release` and `Spin`, the worker's way between graphs
into `Top`, `Poll`, `Lock` and, on the condition variable, the place "asleep",
which only a broadcast (`Woken`) or a spurious wakeup ends. `n_graph` carries, as
in the code, a count and the number of threads of the graph; a worker goes by the
signal it saw last (`Notice`). A graph is a sequence of stages: a stage 0 is an
operation of which every thread does a share, a stage c > 0 the c chunks of a
matrix product, which the threads take from `current_chunk`, with the conversion
of the product's input as the stage before it. `made`, a history variable, counts
how often each part was computed.

### NativeInference

All of its calls are made by the executor thread, which is thread 0 of the pool.
`phase` is where that thread is: `load()` is `LoadModel`, `NewContext` (with
`Repool` where a pool is still there), `LoadEnds`; a reply is `Begin`
(`completion_init` up to its loop), `PromptBatch` for each chunk, then the token
loop with `SampleToken` and `Emit`; `unload()` is `Unload`, `Unloaded`.
`llama_decode()` of one batch is `DecodeAborts` (the assertion that it is not larger
than `n_batch`), `DecodeRefused` (inconsistent positions, no
slot: nothing changed), `DecodeNotAllocated`, or `DecodeCompute`, the steps of
`ThreadPool` for every graph of `splits`, and `DecodeDone`, which succeeds or
takes the batch's cells back. `cells` is the KV cache, a set of used cells with
the reply and position in each; `n_outputs` and `logits` are the output buffer
and whose logits it holds; `cache` is what `is_valid_utf8()` sees of
`g_token_cache`, `text` (history) the same for the current reply alone; `failed`
(history) says whether a decode of this reply failed.

A *workload* is a device (cores, readable speeds, the user's thread choice), a
model (trained context, the graphs of a decode), the prompts, the text pieces and
the number of failures. The operators that size things (`effectiveThreads`,
`affinity`, `n_ctx`, `n_batch`, `MaxPrompt`) are those of `DeviceCapabilities.kt`,
`ModelManager.kt`, `llama-android.cpp` and `llama-context.cpp`.
llama.cpp makes `n_batch` no larger than the window that was asked for, and only then
rounds the window up to a multiple of 256; `completion_init()` cuts a prompt by 512
whatever `n_batch` became. A model trained on fewer tokens than that (`ShortWindow`)
therefore gets chunks that decode's assertion refuses (`Oversized`), which no code
checks. `InferenceAssumption` leaves out one thing the code does not guard: a device
of one core, on which `coerceIn(2, 1)` throws at startup.

### ChatRepository

The main thread is atomic between suspensions: the local summary, `first()` of
the privacy flow, each delta, the save. A message remembers the turn that created
it (`by`) beside the turn whose text it shows (`of`); a summary remembers which
conversation it is really about and how many messages it covers. The turn
remembers the conversation that asked. Saves are snapshots in flight, written in
any order. The store itself is an atomic cell, which is what `ConversationStore`
is proved to implement. History variables: `deleted`, `strays` (conversations
that were open, or asked, in a turn during which another chat came to be the open
one), `unsaved` (a turn was stopped before its reply streamed, or two saves
overlapped, and no save was started alone since).

### ModelDownloader and ModelTransfer

A file is described by where its first byte came from, its length in pieces, and
whether all of it has that origin. Origins are the mirrors, a file the user
imports, and junk (a page of a proxy, anything that is not GGUF). `fetch` is
`download()` on one URL: an attempt ends in a retry (`Transient`), a failure, a
416 that is taken for completion, a resumed body (206, `Resume`) or one from the
first byte (200, `Restart`); a body grows, ends, breaks, or stops short when it
has no length (`ShortBody`).

`ModelTransfer` wraps it in `downloadModel()`: mirrors in order, the deletion of
what a failed mirror left (a suspension of its own, `cleanedUp`), the test of the
first bytes, the promotion in two file operations, the load. Imports and plain
loads use the same mutex. Cancellation (`cancel` of the job) takes effect at the
next suspension: as `dropped`, or, inside the error handler, as `unwound`. A load
is one step here; `ModelManager` has its inside.

`collect` is the body of `DomainApp`'s watcher, with its two local flags.
`combine` over two `StateFlow`s delivers the newest values, together or one at a
time, and skips the others: `Receive` chooses among the values last received and
the current ones. Ready and Error, and Downloading and Importing, lead to the
same action of the watcher and are one value each (`Ended`, `Running`).

History variables: `leftover` says whether the temporary file was left by an
earlier operation, and whether the next one can tell; `missed` says that a
transfer was cancelled, or that a value was replaced before the watcher received
it, since the watcher last took or let go of the service.

### ForegroundWork

`active` is the `AtomicInteger`. `begin()` is cut between the count and
`startForegroundService` (`BeginCount`, `BeginStart`), which the system may
refuse; `end()` is cut in three (`EndCount`, `EndReset`, `EndStop`). Each caller
is a piece of work: in `ModelTransfer` the watcher and a reply. `bare` is a
history variable: since all callers were last out, the service was refused or
removed by the system, or a `begin()` came inside another caller's `end()`.

### PrivacyRouter

A turn goes from the button (`onSend`) through the preparation of its history,
the wait for the privacy state (`snapshot`), the decision (`answer`) and the
request, which leaves from another thread (`generate`) and can fail before or after
it has left (`requestFails`: the reply ends with a note); it can be stopped at any
step. The switches are four Booleans in DataStore; an edit waits in its queue
(`edits`) until it is made (`applyEdit`), and one that was asked for from
Settings is cancelled with that screen (`leaveSettings`): it stays in the queue
as nobody's and is passed over when its turn comes. `acceptTerms()` asks
for its second edit when its first was made. History variables: `seen`, the
settings in force since the turn's message was shown; `wish`, what the user last
asked for; `lost`, the switches whose last flip was cancelled or overtaken.

## 3. Runs

| Run | Bounds | Checks |
|---|---|---|
| `ConversationStore` | 2 savers, versions to 5 (4 saves), a calm environment and one with torn writes, failing copies and reads and the older build's disk | the backup outlives the write; calm: no stored history is lost, refinement of `AtomicHistory`; otherwise a restart shows a current history or none, never an outdated one |
| `ModelManager` | 2 files, 1 GPU rung, 1 waiting job, all races | section 4 |
| `LlamaRunLoop` | 2 flows, channel of 1, replies of up to 3 tokens, 2 loads | section 4 |
| `ChatRepository` | 2 conversations, 1 restored, 2 turns, window 1, all races | section 4 |
| `ModelTransfer` | 2 mirrors, 2 tries of each, models of 2 pieces, the watcher and a reply | section 4 |
| `PrivacyRouter` | 2 providers, one of which logs; 3 flips; requests that fail | section 4, finding 6 |
| `NativeInference` | 3 threads, batches of 3 (of 2 in a short window), contexts of 4 and 8, 2 replies, 1 failure, counters modulo 4 | section 4 |
| `ConversationStore_tornWrite` | torn writes and nothing else; expects a violation | finding 1 |
| `ModelManager_lateCancel` | expects a violation | finding 2 |
| `LlamaRunLoop_free` | expects a violation | finding 3 |
| `ChatRepository_switch` | expects a violation | finding 4 |
| `ModelTransfer_cancel` | expects a violation | finding 5 |

**Why the bounds are enough.** Two savers and four saves allow a save after a
save after a crash, which is what it takes for a leftover file to be mistaken for
a current one, and one more. Two model files distinguish "the
chosen one" from "the loaded one"; one GPU rung makes a ladder with a rung to
fall to and a last rung; one job waiting behind the mutex holder lets any
operation follow any other. A reload that is asked for right behind a waiting
reload is not queued twice: it can be asked for again, with the same effect, once
the first one holds the mutex. A channel of one with replies of two tokens is the
smallest in which a reply suspends and resumes; a third lets it do so twice. Two turns after a restored one
are enough to fold messages into a summary and to use that summary in the next
turn; one window message stands for six. Two conversations are a right one and a
wrong one. Two mirrors are one to fail and one to go on with, two tries one to
resume, two pieces a part that is neither empty nor whole (the program has three
tries; nothing depends on more than "another one" and "the last one"). Three
flips let the kill switch be turned off, another switch be turned on, and either
be turned back. `NativeInference` has four workloads. *Session*: prompts of two
tokens, of five (two chunks, the second not full) and of nine (more than the
window, cut to six, two full chunks), two replies so that one can find what the
other left, one failure at any decode or load, over a pool of two threads.
*Wide*: three threads on a graph of one thread followed by one of two matrix
products of five and four chunks, so that the third thread sits a graph out,
threads take different numbers of chunks, and the counter is used twice.
*Unpinned*: a pool for every graph. *Short*: a model trained on two tokens, with a
prompt that fits its `n_batch` and one that does not. The counters of the pool wrap at 4 instead of
2^16 and 2^32: each workload wraps them. A worker would miss a signal only by
sitting out that many graphs in a row, one short of a multiple, and the graphs
never leave it out twice in a row. Three threads are the least at which a barrier
has a thread that is neither first nor last. No deadlock is ever reported: users can always do something, so the
models have none, and deadlock checking stays on.

## 4. Properties

* **ConversationStore.** `BackupOutlivesWrite`: a save gives up the backup only
  when the canonical file holds the list it was given. `HistorySurvives`: in a
  calm environment a restart shows a history at least as new as the last save
  that returned; `AlwaysSurvives` is the same in every environment, and fails.
  `SavesAreAtomic`: the refinement, when calm. `NoStaleHistory`: in every
  environment but overlapping saves, a history that is shown is never older than
  that save.
* **ModelManager.** `ViewsAgree`: between operations the UI state, the backend
  that chats are routed to, the native context, the persisted choice and the disk
  agree, unless a cancellation cut an operation short and no load has ended
  since. That clause is at once the statement of the recovery: any later load
  repairs everything. When a replacement that fails has deleted the loaded model's
  file, only the file and, after the next reload, the choice are gone: the model
  stays loaded, shown and routed. `ListAgrees`: so does the published list, unless
  the first refresh published what it had read before a load, or a transfer that
  ended without a load left or took a file; the next refresh repairs both. `NoCrashLoop`:
  after a GPU load has killed the process no GPU load starts until the user asks.
  `SelectLoads`: selecting a model loads it or reports an error.
  `EarlyCancelKeepsModel`: a download cancelled while bytes arrive leaves the
  loaded model loaded and routed. `LoadingEnds`: Loading is never the last word.
* **LlamaRunLoop.** `OwnContext` and `OwnCache`: until its first suspension in
  `emit`, a reply calls the native side with the live context and samples from
  its own tokens. `NoLeak`: allocated memory is the loaded context and what
  failed loads left behind. `RepliesEnd`, `ManagerServed`: every reply, load and
  unload ends, however slow a collector is and whenever it is cancelled.
* **NativeInference.** `EveryDecodeFits`: every batch finds room, and finds in the
  cache exactly the earlier positions of its own reply, up to the last token of the
  window; it is within `n_batch` unless the window is short and the prompt longer
  than `n_batch`. `FreshLogits`: a token is sampled from the
  logits of the position before it in the same reply, and the process is aborted
  only when a failed decode cut the prompt off, or by such a prompt; both hold whatever earlier
  replies left behind, unless a decode of this reply failed (the code only logs
  that). `NothingSwallowed`: text is held back only inside a glyph of this reply.
  `QuietPool`: outside a graph no worker touches what the caller rewrites or
  frees, and the threads of the last graph have been let go of its barrier. `ComputesInOrder`: the pool implements `NodeByNode`. `CallsReturn`: every
  native call ends, or aborts at an assertion, of the sampler or of decode.
* **ChatRepository.** `OwnText`: in conversations that stayed open for each of
  their turns no text is written over another turn's message. `FullContext`: in
  them summaries are about the conversation and cover what they replace, and
  unless the code chose to truncate, the engine is given every earlier message,
  verbatim or through the summary. `OneDraft`, `AllStored`,
  `NoWipe`: at most one draft; what is shown is stored; no save drops a
  conversation the user did not delete. `TurnEventuallyEnds`: the send button
  comes back.
* **ModelTransfer.** `PromotesWhole`: the file that takes the model's name is
  whole and of one origin, after any sequence of breaks, retries, mirrors,
  proxies and deaths, unless a part of another origin was found and resumed or a
  body without a length stopped short; an installed model is deleted only when
  such a file is at hand, and in the excepted cases one with the right first
  bytes. `Tidy`:
  between operations no temporary file is left but by a death, a failed import or
  an ill-timed cancellation. `TransferEnds`: a transfer nobody cancels ends.
  `Follows`: between operations the watcher does not hold the service, and during
  one it does, under the condition that `missed` names; so the next transfer or
  load the watcher sees to its end repairs a miss.
  `StopsAtRest`, `Covered`: with all work over the service is off and the count
  zero whatever happened, and while work goes on undisturbed it is on.
* **PrivacyRouter.** `SentAsPermitted`: what a turn sends was allowed, all
  switches taken together, at one moment after its message was shown.
  `FallbackJustified`: a turn for the cloud is answered on the device only for a
  reason that existed then, no provider or a switch, and not because its request
  failed. `LastWord`: when all edits are made each switch stands as
  the user last put it, with two exceptions that `lost` names.

Every property of a passing run is broken by a mutant of the code (listed in
`PROJECT.json`), so none holds by the shape of its model.

## 5. Findings

1. **A death inside the write loses the history** (`ConversationStore.kt:83`).
   `load()` restores the backup only if the canonical file is absent. A process
   that dies between `openFileOutput` and the end of the write leaves an
   unfinished canonical file; `load()` cannot decrypt it, never looks at the
   backup, shows nothing, and the next save writes over both.
2. **A late cancel unloads the model** (`ModelManager.kt:476`). A download that
   is cancelled while its model loads has already unloaded the old one; the
   cancellation is caught as a failed rung and the job ends in Error, although
   the comment says the loaded model is untouched.
3. **A suspended reply resumes on a freed context** (`LLamaAndroid.kt:209`). When
   the channel is full, `emit` gives the thread away, an unload frees the
   context, and the reply goes on with the handles it captured.
4. **A reply overwrites another chat** (`ChatRepository.kt:337`). Deltas go to
   the open chat, whichever it is by then.
5. **A cancelled download keeps the service** (`DomainApp.kt:154`). The transfer
   goes back to Idle without a load after it; the watcher is in its `else`
   branch, never calls `end()`, and the service with its notification stays until
   a later load ends.
6. **A cloud error does not fall back to the device** (`ChatRepository.kt:187`).
   `docs/ARCHITECTURE.md:46-47` says "On any cloud error, it falls back to LOCAL —
   the user is never left without a reply". The code chooses once, before the
   request; an error of the request ends the reply with a note of it. Here the
   document is what is wrong or ahead of the code, so no violated run shows it: the
   passing property `FallbackJustified`, with `requestFails` in the model, says that
   a failing request never leads to an answer on the device, and its mutant
   `requestFailsOver`, which does what the document says, violates it.

Related behaviours met while modelling, visible in the models but without a run
of their own: the backup copy fails silently before the only good file is deleted
(`ConversationStore`, hazard `copyFails`); two saves interleave on the same three
files (`overlap`); a reply that starts after an unload ends empty, with no error
(`StartIdle`); a load that fails after `load_model()` leaks the model (`lost`); a
second reply clears the KV cache of a suspended one (`yielded`); switching the
GPU off and on during a GPU load erases that load's marker (`asked`); any death
during a GPU load, not only an abort, disables the GPU (`Killed`); leaving
Settings during `unload()` frees the context but keeps the backend, and selecting
the same model then does nothing (`disturbed`); the installed list lags the state
inside delete and unload; Stop before the first token leaves the message unsaved
(`stopEarly`, `unsaved`); a message sent before the restore is lost and its reply
lands in a restored chat (`strays`); a summary made during a switch is stored in
the wrong chat (`strays`); a cancellation that arrives while a failed mirror's
part is being deleted escapes both handlers and leaves the transfer Downloading,
with the buttons of Settings disabled, until a restart (`unwound`); a part left
by a death under the second mirror or in an import is resumed by a download of
that name, and only its first four bytes are tested (`leftover`); an import that
breaks leaves its part (`importFailed`); a promotion whose rename fails has
already deleted the installed model (`renameFailed`), although `finalize()` says it
promotes "atomically" (`ModelStorage.kt:28`), and when that is the model in use it
stays loaded without a file, until a reload finds the file missing and clears the
choice (`orphaned`); the list names the file until the next refresh (`unlisted`); an
outcome that is replaced before the
watcher receives it leaves the service on, too (`missed`); a `begin()` that runs
into another caller's `end()` loses its count or its service (`bare`); a switch
flipped just before leaving Settings may not be stored, and the data-logging
switch flipped right after the terms were accepted is turned on again (`lost`); a
switch flipped between the snapshot and the request does not stop it (`seen`); a
decode that fails in a prompt's first chunks leaves no output row, and the next
call aborts the process at the sampler's assertion (`SampleAborts`); one that
fails later is only logged, the next token is sampled from the logits of the
position before, or of the last reply, and further decodes are refused because
their positions leave a gap, until the reply fills the window (`failed`); a GGUF trained on fewer than 512 tokens whose rounded window lets
a prompt through that is longer than its `n_batch` aborts the process at decode's
assertion (`DecodeAborts`), in spite of the clamp that is "the difference between a
clamped prompt and a native crash" (`llama-android.cpp:330-331`).

Met in the same code and outside the models: `validateProvider()`
(`ChatRepository.kt:124`) and the list of free models send requests without
asking `NetworkGuard`, although it calls itself "the single chokepoint every
outbound request must pass through" (`NetworkGuard.kt:4-9`), and with the kill
switch on too; neither carries a message of the user. A check that is
still running when its provider is deleted stores a provider again.

## 6. Fairness

Liveness assumes weak fairness of what the runtime does by itself, never of
users, the OS or the network:

* `LlamaRunLoop`: the executor runs its queue (`OnThread`, `Load`, `Unload`) and
  the main looper delivers (`Take`, `Finished`). Nobody has to cancel, or to ask
  for anything. A token loop ends because the context is finite (`MaxReply`).
* `ModelManager`: a waiting job takes a free mutex, and the holder runs on. A
  transfer ends: the HTTP client has timeouts, and an import reads a finite
  stream. A native load returns or throws.
* `ChatRepository`: a summary, the privacy flow and a reply end (`LlamaRunLoop`,
  or the read timeout of the cloud client), and a save in flight ends.
* `ModelTransfer`: the job goes on (`JobStep`): the client has timeouts, an import
  reads a finite stream, a load ends. The watcher and the system need not.
* `NativeInference`: the scheduler runs every thread of the process (`Caller`, each
  `Worker`), which is what the spinning of the barrier relies on. Requests,
  failures and spurious wakeups are nobody's duty; the token loop ends because the
  window is finite.
* `ConversationStore` and `PrivacyRouter` state safety only.

## 7. Proofs

TLAPS checks, for every value of the constants that the named assumptions of
section 7.2 allow:

| Theorem | Statement | From |
|---|---|---|
| **ConversationStoreProofs** `TypeCorrect` | `Spec => []TypeOK` | itself, for every set of hazards |
| `StoreInvariant` | `Spec => [](Calm => StoreInv)` | `StoreInv` |
| `BackupKept` | `BackupOutlivesWrite` | `SoleInv`: under every hazard but overlapping saves |
| `NothingStale` | `Spec /\ Sole => NoStaleHistory` | `SoleInv` |
| `HistoryIsDurable` | `HistorySurvives` | `StoreInv`: what `load()` returns is the copy that counts, never older than `floor` |
| `StoreIsAtomic` | `SavesAreAtomic` | initial states map to initial states, every step to a step of `AtomicHistory` or a stutter |
| **LlamaRunLoopProofs** `TypeCorrect` | `Spec => []TypeOK` | with "a waiting load has a name left to take" |
| `ContextOwned`, `CacheOwned` | `OwnContext`, `OwnCache` | `Owns` |
| `MemoryAccounted` | `NoLeak` | with "a lost context is never the loaded one, and names only grow" |
| **ModelManagerProofs** `ManagerTypes` | `Spec => []TypeOK` | `Typed`, `Holder` |
| `ViewsStayTogether` | `ViewsAgree` | `Views` |
| `SelectionLoads` | `SelectLoads` | `Views` |
| `EarlyCancelKeeps` | `EarlyCancelKeepsModel` | `Untouched` |
| `ListStaysTrue` | `ListAgrees` | `Listed` |
| `CrashLoopAvoided` | `NoCrashLoop` | `Guarded` |
| **ChatRepositoryProofs** `RepositoryTypes` | `Spec => []TypeOK` | `Typed` |
| `OnlyOneDraft` | `OneDraft` | `Life` |
| `NothingWiped` | `NoWipe` | `Kept` |
| `EverythingStored` | `AllStored` | `Shown`, `Kept` |
| `TextsStandAsWritten`, `NothingForgotten` | `OwnText`, `FullContext` | `Whole`, `Turned` |
| **ModelTransferProofs** `AtRest` | `SpecWork => []StopsAtRest` | `Rest` |
| `WorkCovered` | `SpecWork => []Covered` | `Rest`, `Exact` |
| `UsesTheService` | `Spec => SpecWork` | every step is a step of the service's specification or a stutter |
| `TransferRests`, `TransferCovered` | `StopsAtRest`, `Covered` | the three above |
| `TransferTypes` | `Spec => []TypeOK` | `Kinds`, `WatcherTyped` |
| `OnlyWholePromoted`, `StaysTidy` | `PromotesWhole`, `Tidy` | `Course`, `Piece` |
| `WatcherFollows` | `Follows` | `Watched` |
| **PrivacyRouterProofs** `RouterTypes` | `Spec => []TypeOK` | `Typed` |
| `RoutedAsPermitted`, `FallsBackForReason` | `SentAsPermitted`, `FallbackJustified` | `RouteInv` |
| `LastWordCounts` | `LastWord` | `OneApp`, `Settled` |
| **NativeInferenceProofs** `NothingIsSwallowed` | `NothingSwallowed` | "the cache is this reply's unfinished glyph" |
| `DecodesFit` | `EveryDecodeFits` | `Course` |
| `LogitsFresh` | `FreshLogits` | `Course`, `Outputs` |
| `PoolIsQuiet` | `QuietPool` | `Pooled`, `Engaged` |
| `PoolComputesInOrder` | `Spec => ComputesInOrder` | `Tally`: every step maps to a step of `NodeByNode` or a stutter |

### 7.1 The inductive invariants

*StoreInv* is needed because `HistorySurvives` speaks only of the moment a load
ends. Between a save's steps the newest complete history may be in the canonical
file, in the backup, or (during a rename) in the temporary one. `StoreInv` names,
for each step of `save()` and `load()`, which file holds which version, that at
most one save runs, and that the copy `load()` would return is at least `floor`.
`Calm == hazards = {}` is the condition of the store's results beyond types; a
behaviour that starts calm stays calm (`HazardsFixed`), and crashes between file
operations and failing writes are still there. The run of finding 1 shows what
does not hold without it; *SoleInv* says what does as long as saves do not overlap
(`Sole`): no copy that some `load()` may still come to read is outdated, neither the
canonical file, nor the backup while that file is missing, nor the older build's
temporary file (`NoneStale`). A stale backup may lie beside a readable file; it is
harmless because a save copies over it before it deletes the file, and what a save
holds in its backup from there on is current (`SaveCourse`). A stale temporary file
cannot appear because the one readable under its name is deleted before anything
newer is written (`TempGoesFirst`). The types of
`ConversationStore` and `LlamaRunLoop` are proved for every instance; no run
repeats them.

*Owns(g)* is needed because `OwnContext` speaks only of a flow on the thread that
has not yielded. It adds that exactly the flow on the thread is in its loop, and
that a flow which is suspended or about to be resumed has yielded; a flow comes
to the thread through `Start`, which captures the live context, or through
`Resume`, which only a flow that has yielded can take.

*Views* is needed because `ViewsAgree` speaks only of the moments between
operations. It says how far state, backend, context, choice and disk are apart
at each step of each operation, and that an operation's job names a file when
its steps use one (*Holder*). The file may be missing under a loaded model only when `orphaned` says
so. The case that matters is the end of an operation
(`finish`): either all of it happened, or nothing is loaded, or a cancellation is
on record. *Untouched*, *Listed* and *Guarded* add what the other properties
speak of: what was loaded when a download began; which list the first refresh can
have read; that a load after a crash finds the marker, the verdict or the switch
turned off, so that it stays on the CPU, and that a load on the GPU has its marker
on disk while it runs.

*Kept* is needed because `NoWipe` is about a write, which takes a snapshot made
long before. It says of every snapshot, on the disk or waiting, that it holds no
more than the list does, and of a save that overlapped no other that it is the
only one and holds what the disk held. That rests on *Life*: before the history
is restored nothing is saved and no restored chat is open. *Shown* adds that the
one save in flight holds what the user sees. *Whole* says of every chat but the
strays, shown or in a snapshot (deaths bring those back), that each message shows
its own text and that a summary covers what it replaces; *Turned* says where a
turn stands: that the open chat is the one that was asked, the last message is
the one that streams, and the summary was made of messages that are still there.

*Rest* and *Exact* are needed because the races between `begin()` and `end()`
make the count wrong in one direction only. `Rest` holds always: the count is at
most the number of callers that hold it (`Holding`), is negative only while some
caller is about to reset it, and the service is off when all are out; with
everybody out the count is then exactly zero. `Exact` holds while nothing
disturbed (`~bare`): the count *is* that number, nobody holds it while a caller is
about to reset it, and nobody works while a caller is about to stop the service.
The proofs count sets (`FS_AddElement`, `FS_RemoveElement`); callers are any
finite set. They are of `SpecWork`, whose callers are free to begin and end in
any order; `UsesTheService` shows that transfers, the watcher and replies are such
callers, which carries both results over.

*Piece* is needed because `PromotesWhole` speaks of the rename, and the file was
put together by any number of tries before. It says what the temporary file can
hold at each step: of one origin unless a foreign part was resumed (`leftover`),
begun by the mirror that goes on with it, whole when a stream has ended.
*Watched* relates the watcher's flag to the states it has not received yet:
the last one published says what is going on, and the flag says what the last one
received said.

*RouteInv* is needed because `SentAsPermitted` speaks only of the last step. It
says that the current settings are always among those seen, that the snapshot is,
and that what was decided follows from the snapshot alone. *Settled* generalises
`LastWord` to a queue with edits in it: for each switch that `lost` does not name,
the last waiting edit that will be made says what the user last asked for, or
there is none and the setting does. It needs *OneApp*: at most one edit of
`acceptTerms()` waits, and only until its second has been asked for.

*Course* of `NativeInference` is needed because a batch's room depends on all
that was decoded before it: the cache holds exactly the positions `0` to the next
one's predecessor, of this reply, through the prompt's chunks and the token loop,
and the prompt is not longer than `MaxPrompt`, hence than the window. A chunk is at
most 512 tokens of such a prompt, so one that exceeds `n_batch` needs a window for
which `n_batch` is smaller than both: a short one.
*Outputs* says when there are logits at all; only a failure in the prompt
(`failed = "prompt"`) leaves none, which is why `SampleAborts` cannot happen
otherwise.

*Pooled* is the invariant of the thread pool. `Place` says that while a graph is
computed each of its threads is at the stage that is being computed (`Here`), or
still in the barrier before it and already let go (`Freed`), or has not noticed
the graph, which is possible only in the first stage (`Late`), or is out of the
last one (`Done`). Nobody can be a stage behind more than that, because the
barrier that ends a stage counts all of them: `Barrier` says that `n_barrier` is
at most the number of threads that wait in it, so the thread that finds it one
short of `active` is the last one, with all others waiting, until it has reset
the counter and let them go. `Stage` is read off thread 0, which is itself freed
before it moves. Threads outside the graph are in the barrier of an earlier one
at most. At the end all are out or freed, which is `QuietPool`.

The attempt to prove `QuietPool` as it was first stated, of all workers, failed
for a reason: a worker of a wide graph that is starved in its last barrier while
narrower graphs pass 2^32 barriers finds `n_passed` where it left it, and waits on.
TLC shows it with counters that wrap at 2 and a single-barrier graph of two
threads after one of three. The property now speaks of the last graph's threads.
It leaves out the worker that is starved for a whole turn of the counter: such a
worker waits until `n_passed` moves again. A graph of the others moves it; a graph
that it is itself part of waits for it in its first barrier.

*Tally* is what the refinement of `NodeByNode` needs beyond `Pooled`: it says how
much of the graph is computed (`Sheet`). The stages before `Stage` are complete and
those after it not begun. In a stage of shares exactly the parts of the threads that
are done with it (`Past`) are computed. In a product, a chunk is computed when it is
below the shared counter and in no thread's hands; the hands are pairwise different
and below the counter, and a thread is done only when the counter has passed the last
chunk. Two places need care. The counter is set by thread 0 alone, in the stage
before the product, which is why a product must follow a stage of shares: the
conjunct `s + 1 \in DOMAIN g ... => c = n` carries that over the barrier. And a
thread that has not noticed the graph (`Late`) is told from one that has left it
(`Done`) only by its share, which `Counts` reads off the history. The lemmas about
`Sheet` (`SharesOne`, `ChunksOne`, `ChunksNone`, `StageDone`, `NothingDone`) are
about numbers and functions alone; the lemmas about steps only find which of them
applies.

### 7.2 Assumptions

Each constant has a named assumption in its module, which TLC evaluates on every
run: the sets do not contain the value `None`; counts of files' pieces, tries,
rungs and waiting jobs are positive; bounds are natural numbers. `NativeInference`
assumes of a workload what the code checks or sets: the context that is asked for is
positive (`new_context()` replaces any other, `llama-android.cpp:202`), a graph has at
least one thread (`GGML_ASSERT(n_threads > 0)`, `ggml-cpu.c:3312`), a product follows a
stage of shares (`WellFormed`: `ggml_compute_forward_mul_mat()` converts its input and
sets the counter before the barrier, `ggml-cpu.c:1313-1355`). It assumes two things no
code checks: the device has more than one core, and `MaxThreads`, the size of the
model's pool, has room for the threads that the device gets. Nothing is assumed of the
model's trained context. `PoolAssumption` gives the counters at least two
values.

### 7.3 Left to TLC

Liveness, under the fairness of section 6 (`RepliesEnd`, `ManagerServed`,
`LoadingEnds`, `TurnEventuallyEnds`, `TransferEnds`, `CallsReturn`): fairness and
ENABLED are beyond the prover.

## 8. Abstractions and what is not modelled

* Text, titles, tokens, prompts and notes are data no property depends on; the
  recency order of chats is a choice among them.
* `renameConversation` changes nothing but causes a save.
* One `ChatViewModel`, one Settings screen.
* `SharedPreferences.apply()` is immediate.
* The bytes of a transfer: one step in `ModelManager`, pieces in `ModelTransfer`.
* Mirrors publish builds of the same length; the code compares no lengths. One
  model; deleting and unloading it are in `ModelManager`.
* The notification's text and progress (`update()`), the ready and failed notices.
* A prompt in `PrivacyRouter` is redacted or not; what the patterns match is not
  modelled. The provider is stored by one step when its check has succeeded.
* Not modelled because stateless or pure presentation: the offline responder, the
  redactor's patterns, the provider catalogue, crash reporting, the Compose UI.
* Of llama.cpp and ggml, which are vendored, the models have what the app's calls
  rely on, and only for the way it calls them: the CPU backend built without
  OpenMP, one sequence, one micro-batch to a batch (`n_ubatch` is `n_batch`), a
  cache of full size (with sliding windows too, by default), no abort callback, no
  pause. Kernels, file formats, tokenizers and other backends are left out, which
  is nearly all of the library: some 430 thousand lines.
* Atomic operations of the pool are sequentially consistent; the code uses relaxed
  loads with full fences around its critical steps. A critical section of the
  mutex is one step.
* In `NativeInference` replies follow one another; their interleaving on the
  thread is in `LlamaRunLoop`. The pool is attached to a context exactly while it
  lives, so attach and detach have no variable. Sizes are scaled down; the
  arithmetic is the code's.
* After an abort the other threads of `NativeInference` go on; nothing is said of
  them.

## 9. Plan

Modelled: `AtomicHistory`, `ConversationStore`, `ModelManager`, `LlamaRunLoop`,
`ChatRepository`, `ModelDownloader`, `ForegroundWork`, `ModelTransfer`,
`PrivacyRouter`, `NodeByNode`, `ThreadPool`, `NativeInference`. Every safety
property of a passing run is stated by a theorem, some under the conditions that
section 7.1 names (`Calm`, `Sole`).

Next, on the side of the proofs: the safety facts that the liveness results rest on,
stated as theorems (a reply in progress always has a step left to take; a worker that
sleeps has no signal it has not seen, or is about to be woken).
