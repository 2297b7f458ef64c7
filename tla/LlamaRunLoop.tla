---------------------------- MODULE LlamaRunLoop ----------------------------
(***************************************************************************)
(* The native run loop (LLamaAndroid.kt over llama-android.cpp): one       *)
(* executor thread owns every native call.  Loads and unloads run on it to *)
(* completion.  A reply is a flow produced on it (flowOn) and collected on *)
(* the main thread through a bounded channel: when the channel is full,    *)
(* emit suspends and gives the thread to the next task.                    *)
(***************************************************************************)
EXTENDS Naturals, Sequences

CONSTANTS
  Gens,       \* reply flows that may be collected: the chat, the benchmark
  None,       \* no flow, no task
  Manager,    \* the load or unload that ModelManager waits for
  BufferCap,  \* capacity of the channel flowOn inserts (64 in the build)
  MaxReply,   \* bound: tokens of a reply, the context left after the prompt
  MaxLoads    \* bound: loads attempted

ASSUME RunLoopAssumption ==
  /\ BufferCap \in Nat \ {0} /\ MaxReply \in Nat /\ MaxLoads \in Nat
  /\ None \notin Gens /\ Manager \notin Gens /\ None # Manager

VARIABLES
  tasks,    \* the executor's queue: flows to start or resume, the manager
  thread,   \* the flow whose code is on the thread, or None
  ctx,      \* threadLocalState: the loaded context, 0 when Idle
  live,     \* contexts whose native memory is allocated
  loads,    \* loads attempted; also the name of the newest context
  kv,       \* the flow whose tokens fill the KV cache
  mgr,      \* what ModelManager waits for: "none", "load" or "unload"
  pc, held, made, buf, cancelled, \* per flow: step, context captured at its
            \* start, tokens produced, tokens in the channel, collector cancelled
  yielded,  \* history variable, per flow: it gave the thread away since its start
  lost      \* history variable: contexts whose load() failed after load_model()

native == <<ctx, live, loads, lost>>
flow == <<pc, held, made, buf, cancelled, yielded>>
vars == <<tasks, thread, native, kv, mgr, flow>>

Contexts == 0..MaxLoads
FlowSteps == {"idle", "queued", "loop", "blocked", "resuming", "closed"}

TypeOK ==
  /\ tasks \in Seq(Gens \cup {Manager}) /\ thread \in Gens \cup {None}
  /\ ctx \in Contexts /\ live \subseteq Contexts \ {0} /\ loads \in Contexts
  /\ kv \in Gens \cup {None} /\ mgr \in {"none", "load", "unload"}
  /\ pc \in [Gens -> FlowSteps]
  /\ held \in [Gens -> Contexts] /\ made \in [Gens -> 0..MaxReply]
  /\ buf \in [Gens -> 0..BufferCap] /\ cancelled \in [Gens -> BOOLEAN]
  /\ yielded \in [Gens -> BOOLEAN] /\ lost \subseteq Contexts \ {0}

Init ==
  /\ tasks = <<>> /\ thread = None
  /\ ctx = 0 /\ live = {} /\ loads = 0 /\ kv = None /\ mgr = "none"
  /\ pc = [g \in Gens |-> "idle"] /\ held = [g \in Gens |-> 0]
  /\ made = [g \in Gens |-> 0] /\ buf = [g \in Gens |-> 0]
  /\ cancelled = [g \in Gens |-> FALSE] /\ yielded = [g \in Gens |-> FALSE] /\ lost = {}

(***************************************************************************)
(* Main-thread side of a flow.                                             *)
(***************************************************************************)
Step(g, s) == pc' = [pc EXCEPT ![g] = s]

\* LocalEngine resolved a backend, so a model is loaded now; the producer is
\* dispatched to the executor and starts later.
Collect(g) ==
  /\ pc[g] = "idle" /\ ctx # 0
  /\ Step(g, "queued") /\ tasks' = Append(tasks, g)
  /\ made' = [made EXCEPT ![g] = 0]
  /\ cancelled' = [cancelled EXCEPT ![g] = FALSE]
  /\ UNCHANGED <<thread, native, kv, mgr, held, buf, yielded>>

\* Receiving makes room: a suspended sender delivers and is dispatched again.
Take(g) ==
  /\ buf[g] > 0 /\ ~cancelled[g]
  /\ IF pc[g] = "blocked"
     THEN Step(g, "resuming") /\ tasks' = Append(tasks, g) /\ UNCHANGED buf
     ELSE buf' = [buf EXCEPT ![g] = @ - 1] /\ UNCHANGED <<pc, tasks>>
  /\ UNCHANGED <<thread, native, kv, mgr, held, made, cancelled, yielded>>

\* Mutation: a suspended sender is not woken when its collector goes away.
CancelLosesSender(g) ==
  /\ pc[g] # "idle" /\ ~cancelled[g]
  /\ cancelled' = [cancelled EXCEPT ![g] = TRUE]
  /\ buf' = [buf EXCEPT ![g] = 0]
  /\ UNCHANGED <<pc, tasks, thread, native, kv, mgr, held, made, yielded>>

\* Stop, or the screen is left.
Cancel(g) ==
  /\ pc[g] # "idle" /\ ~cancelled[g]
  /\ cancelled' = [cancelled EXCEPT ![g] = TRUE]
  /\ buf' = [buf EXCEPT ![g] = 0]
  /\ IF pc[g] = "blocked" THEN Step(g, "resuming") /\ tasks' = Append(tasks, g)
                          ELSE UNCHANGED <<pc, tasks>>
  /\ UNCHANGED <<thread, native, kv, mgr, held, made, yielded>>

\* The producer is done and the channel is empty.
Finished(g) ==
  /\ pc[g] = "closed" /\ buf[g] = 0
  /\ Step(g, "idle")
  /\ UNCHANGED <<tasks, thread, native, kv, mgr, held, made, buf, cancelled, yielded>>

(***************************************************************************)
(* The executor thread: the head of the queue runs until it suspends.      *)
(***************************************************************************)
Dispatch(t) == thread = None /\ tasks # <<>> /\ Head(tasks) = t /\ tasks' = Tail(tasks)

\* sendChat(): nothing is emitted when no model is loaded.
StartIdle(g) ==
  /\ Dispatch(g) /\ pc[g] = "queued" /\ (ctx = 0 \/ cancelled[g])
  /\ Step(g, "closed")
  /\ UNCHANGED <<thread, native, kv, mgr, held, made, buf, cancelled, yielded>>

\* Mutation: completion_init() keeps what is in the KV cache.
StartDirtyKv(g) ==
  /\ Dispatch(g) /\ pc[g] = "queued" /\ ctx # 0 /\ ~cancelled[g]
  /\ Step(g, "loop") /\ thread' = g
  /\ held' = [held EXCEPT ![g] = ctx]
  /\ kv' = IF kv = None THEN g ELSE kv
  /\ yielded' = [yielded EXCEPT ![g] = FALSE]
  /\ UNCHANGED <<native, mgr, made, buf, cancelled>>

\* The handles are captured; completion_init() clears the KV cache and decodes
\* the prompt.
Start(g) ==
  /\ Dispatch(g) /\ pc[g] = "queued" /\ ctx # 0 /\ ~cancelled[g]
  /\ Step(g, "loop") /\ thread' = g
  /\ held' = [held EXCEPT ![g] = ctx] /\ kv' = g
  /\ yielded' = [yielded EXCEPT ![g] = FALSE]
  /\ UNCHANGED <<native, mgr, made, buf, cancelled>>

\* A suspended emit returns, or throws if the collector is gone.
Resume(g) ==
  /\ Dispatch(g) /\ pc[g] = "resuming"
  /\ IF cancelled[g] THEN Step(g, "closed") /\ UNCHANGED thread
                     ELSE Step(g, "loop") /\ thread' = g
  /\ UNCHANGED <<native, kv, mgr, held, made, buf, cancelled, yielded>>

Emit(g) ==
  IF cancelled[g] THEN Step(g, "closed") /\ thread' = None /\ UNCHANGED <<buf, yielded>>
  ELSE IF buf[g] < BufferCap
       THEN buf' = [buf EXCEPT ![g] = @ + 1] /\ UNCHANGED <<pc, thread, yielded>>
       ELSE /\ Step(g, "blocked") /\ thread' = None /\ UNCHANGED buf
            /\ yielded' = [yielded EXCEPT ![g] = TRUE]

\* completion_loop() returned a piece: one more token is in the cache.
Token(g) ==
  /\ thread = g /\ pc[g] = "loop" /\ made[g] < MaxReply
  /\ made' = [made EXCEPT ![g] = @ + 1]
  /\ Emit(g)
  /\ UNCHANGED <<tasks, native, kv, mgr, held, cancelled>>

\* End of turn, or the context is full: kv_cache_clear().
Stop(g) ==
  /\ thread = g /\ pc[g] = "loop"
  /\ Step(g, "closed") /\ thread' = None /\ kv' = None
  /\ UNCHANGED <<tasks, native, mgr, held, made, buf, cancelled, yielded>>

(***************************************************************************)
(* ModelManager's side: one load or unload at a time (its mutex).          *)
(***************************************************************************)
Request(op) ==
  /\ mgr = "none"
  /\ op = "load" => loads < MaxLoads
  /\ mgr' = op /\ tasks' = Append(tasks, Manager)
  /\ UNCHANGED <<thread, native, kv, flow>>

\* Mutation: unload() runs on another dispatcher.
UnloadElsewhere ==
  /\ mgr = "unload" /\ mgr' = "none"
  /\ tasks' = SelectSeq(tasks, LAMBDA t : t # Manager)
  /\ ctx' = 0 /\ live' = live \ {ctx} /\ kv' = None
  /\ UNCHANGED <<thread, loads, lost, flow>>

\* Mutation: the context is forgotten before it is freed.
UnloadForgets ==
  /\ Dispatch(Manager) /\ mgr = "unload" /\ mgr' = "none"
  /\ ctx' = 0 /\ kv' = None
  /\ UNCHANGED <<thread, live, loads, lost, flow>>

Unload ==
  /\ Dispatch(Manager) /\ mgr = "unload" /\ mgr' = "none"
  /\ ctx' = 0 /\ live' = live \ {ctx} /\ kv' = None
  /\ UNCHANGED <<thread, loads, lost, flow>>

\* Mutation: a load asked for while a model is loaded waits for it to go.
LoadWaits ==
  /\ thread = None /\ tasks # <<>> /\ Head(tasks) = Manager /\ mgr = "load"
  /\ \/ /\ ctx # 0 /\ tasks' = Append(Tail(tasks), Manager)
        /\ UNCHANGED <<thread, native, kv, mgr, flow>>
     \/ /\ ctx = 0 /\ tasks' = Tail(tasks) /\ mgr' = "none"
        /\ loads' = loads + 1 /\ ctx' = loads' /\ live' = live \cup {loads'} /\ kv' = None
        /\ UNCHANGED <<thread, lost, flow>>

\* load(): refused while a model is loaded; a failure after load_model throws
\* with the state still Idle and nothing freed.
Load ==
  /\ Dispatch(Manager) /\ mgr = "load" /\ mgr' = "none"
  /\ loads' = loads + 1
  /\ \/ /\ ctx = 0 /\ ctx' = loads' /\ live' = live \cup {loads'} /\ kv' = None
        /\ UNCHANGED lost
     \/ UNCHANGED <<ctx, live, kv, lost>>      \* loaded already, or load_model() failed
     \/ /\ ctx = 0 /\ live' = live \cup {loads'} /\ lost' = lost \cup {loads'}
        /\ UNCHANGED <<ctx, kv>>
  /\ UNCHANGED <<thread, flow>>

OnThread(g) == StartIdle(g) \/ Start(g) \/ Resume(g) \/ Token(g) \/ Stop(g)

Next ==
  \/ \E g \in Gens : Collect(g) \/ Take(g) \/ Cancel(g) \/ Finished(g) \/ OnThread(g)
  \/ \E op \in {"load", "unload"} : Request(op)
  \/ Load \/ Unload

\* The executor takes the next task when it can; the main looper delivers.
\* Nobody has to start a reply, stop one or ask for a load.
Fairness ==
  /\ WF_vars(Load) /\ WF_vars(Unload)
  /\ \A g \in Gens : WF_vars(OnThread(g)) /\ WF_vars(Take(g)) /\ WF_vars(Finished(g))

Spec == Init /\ [][Next]_vars /\ Fairness

(***************************************************************************)
(* Properties.                                                             *)
(***************************************************************************)
\* "load/generate/unload must never overlap" (LLamaAndroid, lines 17-18): code
\* about to call the native side with captured handles holds live ones.
NoUseAfterFree == \A g \in Gens : thread = g => held[g] = ctx

\* What does hold: until its first suspension in emit, a reply owns the context
\* it captured, and ("a plain static is safe", llama-android.cpp, line 35) the
\* next token is sampled from its own tokens.
OwnContext == \A g \in Gens : thread = g /\ ~yielded[g] => held[g] = ctx
OwnCache == \A g \in Gens : thread = g /\ ~yielded[g] => kv = g

\* Native memory is the loaded context and what failed loads left behind: no
\* sequence of loads and unloads leaks or frees anything else.
NoLeak == live = ({ctx} \ {0}) \cup lost

\* Every reply ends, and every load or unload gets its turn, however slow the
\* collector is and whenever it is cancelled.
RepliesEnd == \A g \in Gens : (pc[g] # "idle") ~> (pc[g] = "idle")
ManagerServed == mgr # "none" ~> mgr = "none"
=============================================================================
