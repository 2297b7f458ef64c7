----------------------------- MODULE ThreadPool -----------------------------
(***************************************************************************)
(* The CPU backend's thread pool (ggml-cpu.c, built without OpenMP): the   *)
(* calling thread 0 and the workers compute a graph stage by stage.  They  *)
(* meet at a counting barrier after every stage, take the chunks of a      *)
(* matrix product from a shared counter, and between graphs the workers    *)
(* poll, then sleep on a condition variable.                               *)
(*                                                                         *)
(* One atomic operation is one step, and so is one critical section of the *)
(* mutex.  Atomics are taken to be sequentially consistent.  The app never *)
(* pauses a pool and installs no abort callback, so both are left out.     *)
(***************************************************************************)
EXTENDS Naturals, Sequences

CONSTANTS
  MaxThreads,   \* the largest pool: ids 0..MaxThreads-1, 0 is the caller
  CounterWrap   \* where n_graph's count and n_barrier_passed wrap (2^16 and 2^32)

ASSUME PoolAssumption == /\ MaxThreads \in Nat \ {0}
                         /\ CounterWrap \in Nat /\ CounterWrap >= 2

VARIABLES
  pool,     \* the shared fields of struct ggml_threadpool
  at,       \* per thread: the step it is at
  local,    \* per thread: ggml_compute_state and the locals of its functions
  splits,   \* graphs that the call in progress has still to compute
  made      \* history variable: how often each part of the graph was computed

poolVars == <<pool, at, local, splits, made>>

Threads == 0..(MaxThreads - 1)
Workers == Threads \ {0}

(***************************************************************************)
(* A graph has the number of threads its plan uses (ggml_graph_plan) and   *)
(* its stages: 0 is an operation that every thread does a share of, c > 0  *)
(* the c chunks of a matrix product whose input the stage before converts. *)
(***************************************************************************)
Graph == Head(splits)
TasksOf(n) == IF Graph.tasks < n THEN Graph.tasks ELSE n
Parts(stages, n) == [s \in DOMAIN stages |-> IF stages[s] = 0 THEN n ELSE stages[s]]

\* A product is never a graph's first stage, nor does one follow another: each converts
\* its input first.
WellFormed(stages) ==
  \A s \in DOMAIN stages : stages[s] > 0 => s > 1 /\ stages[s - 1] = 0

NoPool == [live |-> FALSE, shared |-> FALSE, size |-> 0, stop |-> FALSE,
           n_graph |-> 0, active |-> 0, n_barrier |-> 0, n_passed |-> 0,
           current_chunk |-> 0]
NewPool(n, shared) == [NoPool EXCEPT !.live = TRUE, !.shared = shared, !.size = n]
NoLocal == [seen |-> <<0, 0>>, stages |-> <<>>, stage |-> 0, chunk |-> 0, passed |-> 0]

\* The value of the atomic n_graph: the count of graphs and their threads.
Signal == <<pool.n_graph, pool.active>>

PoolInit ==
  /\ pool = NoPool /\ splits = <<>> /\ made = <<>>
  /\ at = [t \in Threads |-> "none"]
  /\ local = [t \in Threads |-> NoLocal]

Go(t, step) == at' = [at EXCEPT ![t] = step]

\* A broadcast sends every sleeper back to the mutex.
Woken == [t \in Threads |-> IF at[t] = "asleep" THEN "lock" ELSE at[t]]

(***************************************************************************)
(* Making a pool and giving it up.                                         *)
(***************************************************************************)
\* ggml_threadpool_new_impl(): the workers run from here on.
Spawn(n, shared, step) ==
  /\ pool' = NewPool(n, shared)
  /\ at' = [t \in Threads |-> IF t = 0 THEN step ELSE IF t < n THEN "top" ELSE "none"]
  /\ local' = [t \in Threads |-> NoLocal]

\* ggml_threadpool_free(), up to the joins: stop is set and broadcast under the mutex.
Dismiss ==
  /\ pool' = [pool EXCEPT !.stop = TRUE]
  /\ at' = [Woken EXCEPT ![0] = "join"]
  /\ UNCHANGED <<local, splits, made>>

\* Mutation: the memory is freed without joining the workers.
FreePoolUnjoined ==
  /\ at[0] = "join" /\ pool' = NoPool
  /\ at' = [at EXCEPT ![0] = IF splits = <<>> THEN "none" ELSE "reset"]
  /\ UNCHANGED <<local, splits, made>>

\* The joins are over and the memory is freed.
FreePool ==
  /\ at[0] = "join" /\ \A w \in Workers : at[w] \in {"none", "exited"}
  /\ pool' = NoPool
  /\ at' = [t \in Threads |-> IF t = 0 /\ splits # <<>> THEN "reset" ELSE "none"]
  /\ local' = [t \in Threads |-> NoLocal]
  /\ UNCHANGED <<splits, made>>

(***************************************************************************)
(* ggml_graph_compute(), on thread 0; n is the context's thread count.     *)
(***************************************************************************)
\* A graph without a pool gets one for itself.
Reset(n) ==
  /\ at[0] = "reset"
  /\ IF pool.live
     THEN pool' = [pool EXCEPT !.current_chunk = 0] /\ Go(0, "kickoff") /\ UNCHANGED local
     ELSE Spawn(TasksOf(n), FALSE, "kickoff")
  /\ UNCHANGED <<splits, made>>

\* The signal, set under the mutex, and what thread 0 goes on with.
Announce ==
  /\ at[0] = "kickoff"
  /\ pool' = [pool EXCEPT !.n_graph = (@ + 1) % CounterWrap, !.active = TasksOf(pool.size)]
  /\ local' = [local EXCEPT ![0].stages = Graph.stages, ![0].stage = 1]
  /\ made' = LET parts == Parts(Graph.stages, TasksOf(pool.size))
             IN  [s \in DOMAIN parts |-> [p \in 1..parts[s] |-> 0]]
  /\ UNCHANGED splits

\* Mutation: no broadcast.
KickoffUnheard == Announce /\ Go(0, "share")

Kickoff == Announce /\ at' = [Woken EXCEPT ![0] = "share"]

\* The graph is computed; a pool made for it is freed.
Computed ==
  /\ at[0] = "computed"
  /\ made' = <<>> /\ splits' = Tail(splits)
  /\ UNCHANGED local
  /\ IF pool.shared
     THEN Go(0, IF Tail(splits) = <<>> THEN "none" ELSE "reset") /\ UNCHANGED pool
     ELSE /\ pool' = [pool EXCEPT !.stop = TRUE]
          /\ at' = [Woken EXCEPT ![0] = "join"]

(***************************************************************************)
(* A worker between graphs.                                                *)
(***************************************************************************)
Top(w) ==
  /\ at[w] = "top" /\ Go(w, IF pool.stop THEN "exited" ELSE "poll")
  /\ UNCHANGED <<pool, local, splits, made>>

\* ggml_graph_compute_thread_ready(): a stop, or a signal not seen before.
Ready(w) == pool.stop \/ local[w].seen # Signal
Notice(w, ready, idle) ==
  IF ready /\ ~pool.stop
  THEN LET mine == w < pool.active
       IN  /\ local' = [local EXCEPT ![w].seen = Signal,
                                     ![w].stages = IF mine THEN Graph.stages ELSE <<>>,
                                     ![w].stage = IF mine THEN 1 ELSE 0]
           /\ Go(w, IF mine THEN "share" ELSE idle)
  ELSE UNCHANGED local /\ Go(w, idle)

\* Polling ends with a signal, or after its rounds without one.
Poll(w) ==
  /\ at[w] = "poll"
  /\ \E rounds \in BOOLEAN : (Ready(w) \/ rounds) /\ Notice(w, Ready(w), "lock")
  /\ UNCHANGED <<pool, splits, made>>

\* Under the mutex: the signal is tested again before the wait.
Lock(w) ==
  /\ at[w] = "lock"
  /\ Notice(w, Ready(w), IF Ready(w) THEN "top" ELSE "asleep")
  /\ UNCHANGED <<pool, splits, made>>

\* A condition variable may wake its waiters for no reason.
Spurious(w) ==
  /\ at[w] = "asleep" /\ Go(w, "lock")
  /\ UNCHANGED <<pool, local, splits, made>>

(***************************************************************************)
(* ggml_graph_compute_thread(), on every thread of the graph.              *)
(***************************************************************************)
Compute(s, p) == made' = [made EXCEPT ![s][p] = @ + 1]

\* After the stage's barrier: on to the next stage, or out of the graph.
IsProduct(t, s) == s \in DOMAIN local[t].stages /\ local[t].stages[s] > 0
Advance(t) ==
  LET next == local[t].stage + 1
  IN  IF next \in DOMAIN local[t].stages
      THEN /\ local' = [local EXCEPT ![t].stage = next, ![t].chunk = t, ![t].passed = 0]
           /\ Go(t, IF IsProduct(t, next) THEN "chunk" ELSE "share")
      ELSE /\ local' = [local EXCEPT ![t] = [NoLocal EXCEPT !.seen = local[t].seen]]
           /\ Go(t, IF t = 0 THEN "computed" ELSE "top")

\* ggml_barrier() does nothing for a single thread.
Meet(t) == IF pool.active = 1 THEN Advance(t) ELSE Go(t, "enter") /\ UNCHANGED local

\* Mutation: thread 0 leaves the chunk counter as the last product left it.
ShareUncounted(t) ==
  /\ at[t] = "share"
  /\ Compute(local[t].stage, t + 1)
  /\ Meet(t)
  /\ UNCHANGED <<pool, splits>>

\* The thread's share of the stage; before a product thread 0 sets the counter:
\* "every thread starts at ith, so the first unprocessed chunk is nth".
Share(t) ==
  /\ at[t] = "share"
  /\ Compute(local[t].stage, t + 1)
  /\ pool' = IF t = 0 /\ IsProduct(t, local[t].stage + 1)
             THEN [pool EXCEPT !.current_chunk = pool.active] ELSE pool
  /\ Meet(t)
  /\ UNCHANGED splits

\* One chunk of the product, then the next one, unless every thread had only one.
Chunk(t) ==
  LET s == local[t].stage
      chunks == local[t].stages[s]
  IN  /\ at[t] = "chunk"
      /\ IF local[t].chunk < chunks
         THEN /\ Compute(s, local[t].chunk + 1)
              /\ IF pool.active >= chunks
                 THEN UNCHANGED pool /\ Meet(t)
                 ELSE /\ pool' = [pool EXCEPT !.current_chunk = @ + 1]
                      /\ local' = [local EXCEPT ![t].chunk = pool.current_chunk]
                      /\ UNCHANGED at
         ELSE UNCHANGED <<pool, made>> /\ Meet(t)
      /\ UNCHANGED splits

Enter(t) ==
  /\ at[t] = "enter" /\ Go(t, "arrive")
  /\ local' = [local EXCEPT ![t].passed = pool.n_passed]
  /\ UNCHANGED <<pool, splits, made>>

Arrive(t) ==
  /\ at[t] = "arrive"
  /\ pool' = [pool EXCEPT !.n_barrier = @ + 1]
  /\ Go(t, IF pool.n_barrier + 1 = pool.active THEN "zero" ELSE "spin")
  /\ UNCHANGED <<local, splits, made>>

\* The last thread empties the barrier before it lets the others go.
Zero(t) ==
  /\ at[t] = "zero" /\ Go(t, "release")
  /\ pool' = [pool EXCEPT !.n_barrier = 0]
  /\ UNCHANGED <<local, splits, made>>

Release(t) ==
  /\ at[t] = "release"
  /\ pool' = [pool EXCEPT !.n_passed = (@ + 1) % CounterWrap]
  /\ Advance(t)
  /\ UNCHANGED <<splits, made>>

Spin(t) ==
  /\ at[t] = "spin" /\ pool.n_passed # local[t].passed
  /\ Advance(t)
  /\ UNCHANGED <<pool, splits, made>>

ComputeStep(t) == \/ Share(t) \/ Chunk(t) \/ Enter(t) \/ Arrive(t) \/ Zero(t)
                  \/ Release(t) \/ Spin(t)

WorkerStep(w) == Top(w) \/ Poll(w) \/ Lock(w) \/ ComputeStep(w)
CallerStep(n) == Reset(n) \/ Kickoff \/ Computed \/ FreePool \/ ComputeStep(0)

(***************************************************************************)
(* Properties.                                                             *)
(***************************************************************************)
\* Steps that touch the graph, the plan or the counters of the barrier's way in.
Inside(t) == at[t] \in {"share", "chunk", "enter", "arrive", "zero", "release"}

\* "No worker threads should be accessing the parameters below at this stage"
\* (ggml_graph_compute, line 3328): outside a graph no thread is inside it, a thread
\* of the last graph that still waits in its last barrier has been let go, and a
\* freed pool has no threads.  (A thread of an earlier, wider graph was let go when
\* that one ended, but misses it if n_passed comes round before it looks.)
QuietPool ==
  /\ at[0] \in {"none", "reset", "kickoff", "join"} =>
       \A w \in Workers : /\ ~Inside(w)
                          /\ w < pool.active /\ at[w] = "spin" =>
                               pool.n_passed # local[w].passed
  /\ ~pool.live => \A w \in Workers : at[w] = "none"

\* ggml_graph_compute() computes every part of the graph once, stage by stage.
NBN == INSTANCE NodeByNode
ComputesInOrder == NBN!ASpec
=============================================================================
