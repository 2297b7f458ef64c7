--------------------------- MODULE ThreadPoolProofs ---------------------------
(***************************************************************************)
(* The thread pool keeps its invariant, for every size of the pool, every  *)
(* wrap of its counters and every sequence of graphs: each step of a       *)
(* thread, and what the native calls do to a pool at rest.                 *)
(***************************************************************************)
EXTENDS ThreadPool, FiniteSetTheorems, SequenceTheorems, TLAPS

(***************************************************************************)
(* The inductive invariant.                                                *)
(***************************************************************************)
Idle == {"none", "top", "poll", "lock", "asleep", "exited"}
Working == {"share", "chunk", "enter", "arrive", "zero", "release"}
InGraph == at[0] \in Working \cup {"spin"}

\* The stage that is being computed: thread 0 may not have noticed yet that it was
\* let go.
Stage == IF at[0] = "spin" /\ local[0].passed # pool.n_passed
         THEN local[0].stage + 1 ELSE local[0].stage
Over == Stage # 1 /\ Stage \notin DOMAIN Graph.stages

\* The stage is a product's; the thread has computed its share of the first stage.
Product == Stage \in DOMAIN Graph.stages /\ Graph.stages[Stage] > 0
Counts(t) == 1 \in DOMAIN made /\ t + 1 \in DOMAIN made[1] => made[1][t + 1] # 0

\* What a thread may be doing about a graph.  A thread of an earlier graph is out
\* of it, or in its last barrier.
Left(t) == at[t] \in Idle \/ (at[t] = "spin" /\ local[t].stage + 1 \notin DOMAIN local[t].stages)
Joined(t) == local[t].stages = Graph.stages /\ (t # 0 => local[t].seen = Signal)
Here(t) ==
  /\ Joined(t) /\ local[t].stage = Stage /\ ~Over
  /\ at[t] \in Working \cup {"spin"}
  /\ at[t] \in {"arrive", "spin"} => local[t].passed = pool.n_passed
  /\ at[t] = "share" => ~Product
  /\ at[t] = "chunk" => Product
  /\ Stage = 1 /\ at[t] # "share" => Counts(t)
Freed(t) ==
  /\ Joined(t) /\ local[t].stage + 1 = Stage /\ Stage # 1
  /\ at[t] = "spin" /\ local[t].passed # pool.n_passed
Late(t) == Stage = 1 /\ Left(t)
Done(t) == Over /\ at[t] \in Idle /\ local[t].seen = Signal

\* Each thread is in one of these places while a graph is computed.
Place(t) ==
  IF t = 0 THEN Here(0) \/ Freed(0)
  ELSE IF t < pool.active THEN Here(t) \/ Freed(t) \/ Late(t) \/ Done(t) ELSE Left(t)

\* In the barrier, or its last thread.
Waiting(t) == Here(t) /\ at[t] = "spin"
Last(t) == at[t] \in {"zero", "release"}
Active == 0..(pool.active - 1)

\* Done with the stage; the chunk that the thread is about to compute.
Past(t) == Here(t) /\ at[t] \notin {"share", "chunk"}
Mine(t) == IF at[t] = "chunk" THEN local[t].chunk ELSE t

\* The kinds of the shared and the threads' fields.
Pools == [live : BOOLEAN, shared : BOOLEAN, size : 0..MaxThreads, stop : BOOLEAN,
          n_graph : Nat, active : 0..MaxThreads, n_barrier : Nat, n_passed : Nat,
          current_chunk : Nat]
Locals == [seen : Nat \X Nat, stages : Seq(Nat), stage : Nat, chunk : Nat, passed : Nat]
Graphs == {g \in [tasks : Nat \ {0}, stages : Seq(Nat)] : WellFormed(g.stages)}
Counted(m) == /\ m = [s \in DOMAIN m |-> m[s]]
              /\ \A s \in DOMAIN m : \A p \in DOMAIN m[s] : m[s][p] \in Nat
PoolTyped ==
  /\ pool \in Pools /\ local \in [Threads -> Locals] /\ DOMAIN at = Threads
  /\ splits \in Seq(Graphs) /\ Counted(made)

\* Outside a graph.
Resting ==
  /\ at[0] \in {"none", "reset", "kickoff", "join", "computed"}
  /\ at[0] \in {"reset", "kickoff", "computed"} => splits # <<>>
  /\ at[0] \in {"kickoff", "computed", "join"} => pool.live
  /\ pool.stop => at[0] = "join"
  /\ pool.n_barrier = 0
  /\ \A w \in Workers :
       /\ Left(w)
       /\ w < pool.active => /\ local[w].seen = Signal
                             /\ at[w] = "spin" => local[w].passed # pool.n_passed

\* The barrier of the stage.
Barrier ==
  /\ \A t \in Threads : Last(t) => \A u \in Active \ {t} : Waiting(u)
  /\ \A t \in Threads : at[t] = "release" => pool.n_barrier = 0
  /\ (\E t \in Threads : at[t] = "zero") \/ pool.n_barrier <= Cardinality({t \in Active : Waiting(t)})
  /\ Over => pool.n_barrier = 0

\* In a graph.
Meeting ==
  /\ InGraph /\ splits # <<>> /\ pool.live /\ ~pool.stop /\ pool.active > 0 /\ local[0].stage > 0
  /\ \A t \in Threads : Place(t)
  /\ Barrier

\* The graph's threads are in the pool; a freed pool has none.
Sized ==
  /\ pool.active <= pool.size
  /\ pool.live => pool.size > 0
  /\ ~pool.live => pool = NoPool /\ at[0] \in {"none", "reset"} /\ \A w \in Workers : at[w] = "none"

\* The inductive invariant.
Pooled == PoolTyped /\ Sized /\ (Resting \/ Meeting)

(***************************************************************************)
(* What leaves the other threads' places alone.                            *)
(***************************************************************************)
\* The thread counts of a graph.
LEMMA Tasks ==
  ASSUME PoolTyped, splits # <<>>, NEW n \in Nat \ {0}
  PROVE  TasksOf(n) \in 1..n /\ Graph.stages \in Seq(Nat) /\ WellFormed(Graph.stages)
<1>1. Graph \in [tasks : Nat \ {0}, stages : Seq(Nat)] /\ WellFormed(Graph.stages)
  <2>1. splits \in Seq(Graphs)
    BY DEF PoolTyped
  <2>2. Head(splits) \in Graphs
    BY <2>1
  <2> QED  BY <2>2 DEF Graph, Graphs
<1> QED  BY <1>1 DEF TasksOf

\* The first stage is no product's.
LEMMA FirstIsShared ==
  ASSUME PoolTyped, splits # <<>>
  PROVE  1 \in DOMAIN Graph.stages => ~(Graph.stages[1] > 0)
BY Tasks DEF WellFormed

\* The kinds of the pool's numbers.
LEMMA PoolKinds ==
  ASSUME PoolTyped
  PROVE  /\ pool.active \in Nat /\ pool.n_barrier \in Nat /\ pool.n_passed \in Nat
         /\ pool.size \in Nat /\ Active \in SUBSET Threads /\ 0 \in Threads /\ 0 \notin Workers
         /\ \A t \in Threads : /\ t \in Nat /\ (t \in Active <=> t < pool.active)
                              /\ local[t].stage \in Nat /\ (t # 0 => t \in Workers)
<1>1. /\ pool.active \in 0..MaxThreads /\ pool.n_barrier \in Nat /\ pool.n_passed \in Nat
      /\ pool.size \in 0..MaxThreads /\ \A t \in Threads : local[t].stage \in Nat
  BY DEF PoolTyped, Pools, Locals
<1>2. MaxThreads \in Nat /\ MaxThreads > 0
  BY PoolAssumption
<1>3. pool.active \in Nat /\ pool.active <= MaxThreads
  BY <1>1, <1>2
<1>4. Active \in SUBSET Threads /\ \A t \in Threads : t \in Nat /\ (t \in Active <=> t < pool.active)
  BY ONLY <1>2, <1>3 DEF Active, Threads
<1> QED  BY <1>1, <1>2, <1>3, <1>4 DEF Threads, Workers

\* The steps of one thread inside a stage.
Kept(t) ==
  /\ splits' = splits /\ pool'.n_passed = pool.n_passed /\ Signal' = Signal
  /\ pool'.active = pool.active
  /\ \A u \in Threads \ {t} : at'[u] = at[u] /\ local'[u] = local[u]
  /\ Stage' = Stage
  /\ \A u \in Threads \ {t} : Counts(u)' = Counts(u)

\* They leave the places of the others alone.
LEMMA Frame ==
  ASSUME NEW t, Kept(t), NEW u \in Threads \ {t}
  PROVE  /\ Here(u)' = Here(u) /\ Freed(u)' = Freed(u) /\ Late(u)' = Late(u) /\ Done(u)' = Done(u)
         /\ Left(u)' = Left(u) /\ Waiting(u)' = Waiting(u) /\ Last(u)' = Last(u)
<1>1. Over' = Over /\ Graph' = Graph /\ Product' = Product
  BY DEF Over, Graph, Product, Kept
<1>2. at'[u] = at[u] /\ local'[u] = local[u] /\ Stage' = Stage /\ Signal' = Signal
      /\ pool'.n_passed = pool.n_passed /\ Counts(u)' = Counts(u)
  BY DEF Kept
<1>3. Here(u)' = Here(u)
  BY <1>1, <1>2 DEF Here, Joined
<1>4. Freed(u)' = Freed(u)
  BY <1>1, <1>2 DEF Freed, Joined
<1>5. Left(u)' = Left(u) /\ Last(u)' = Last(u)
  BY <1>2 DEF Left, Last
<1>6. Done(u)' = Done(u)
  BY <1>1, <1>2 DEF Done
<1>7. Late(u)' = Late(u) /\ Waiting(u)' = Waiting(u)
  BY <1>2, <1>3, <1>5 DEF Late, Waiting
<1> QED  BY <1>3, <1>4, <1>5, <1>6, <1>7

\* More threads wait, or as many.
LEMMA WaitersGrow ==
  ASSUME NEW S \in SUBSET Threads, NEW T \in SUBSET Threads, S \subseteq T
  PROVE  /\ IsFiniteSet(T) /\ Cardinality(S) \in Nat /\ Cardinality(T) \in Nat
         /\ Cardinality(S) <= Cardinality(T)
<1>1. IsFiniteSet(Threads)
  BY PoolAssumption, FS_Interval DEF Threads
<1>2. IsFiniteSet(T)
  BY <1>1, FS_Subset
<1> QED  BY <1>2, FS_Subset, FS_CardinalityType

\* A step of a thread that neither waits nor is the last one leaves the barrier alone.
LEMMA BarrierKept ==
  ASSUME PoolTyped, Barrier, NEW t \in Threads, Kept(t), pool'.n_barrier = pool.n_barrier,
         ~Waiting(t), ~Last(t), ~Last(t)'
  PROVE  Barrier'
<1>1. \A u \in Threads \ {t} : /\ Waiting(u)' = Waiting(u) /\ Last(u)' = Last(u) /\ at'[u] = at[u]
  BY Frame DEF Kept
<1>2. Over' = Over /\ Active' = Active /\ Active \subseteq Threads
  <2>1. Over' = Over
    BY DEF Over, Graph, Kept
  <2>2. Active' = Active
    BY DEF Kept, Active
  <2>3. pool.active \in 0..MaxThreads
    BY DEF PoolTyped, Pools, Locals
  <2> QED  BY <2>1, <2>2, <2>3, PoolAssumption DEF Active, Threads
<1>3. ASSUME NEW u \in Threads, Last(u)' PROVE \A v \in Active' \ {u} : Waiting(v)'
  <2>1. u # t /\ Last(u)
    BY <1>1, <1>3
  <2>2. \A v \in Active \ {u} : Waiting(v)
    BY <2>1 DEF Barrier
  <2>3. t \notin Active
    BY <2>1, <2>2
  <2> QED  BY <1>1, <1>2, <2>2, <2>3
<1>4. ASSUME NEW u \in Threads, at'[u] = "release" PROVE pool'.n_barrier = 0
  <2>1. u # t
    BY <1>4 DEF Last
  <2> QED  BY <1>1, <1>4, <2>1 DEF Barrier
<1>5. (\E u \in Threads : at'[u] = "zero")
        \/ pool'.n_barrier <= Cardinality({u \in Active' : Waiting(u)'})
  <2>1. CASE \E u \in Threads : at[u] = "zero"
    BY <1>1, <2>1 DEF Last
  <2>2. CASE pool.n_barrier <= Cardinality({u \in Active : Waiting(u)})
    <3> DEFINE S == {u \in Active : Waiting(u)}  T == {u \in Active' : Waiting(u)'}
    <3>1. S \subseteq T /\ S \in SUBSET Threads /\ T \in SUBSET Threads
      BY <1>1, <1>2
    <3>2. Cardinality(S) \in Nat /\ Cardinality(T) \in Nat /\ Cardinality(S) <= Cardinality(T)
      BY <3>1, WaitersGrow
    <3> HIDE DEF S, T
    <3>3. pool.n_barrier <= Cardinality(S) /\ pool.n_barrier \in Nat
      BY <2>2 DEF S, PoolTyped, Pools, Locals
    <3>4. pool'.n_barrier <= Cardinality(T)
      BY <3>2, <3>3
    <3> QED  BY <3>4 DEF T
  <2> QED  BY <2>1, <2>2 DEF Barrier
<1>6. Over' => pool'.n_barrier = 0
  BY <1>2 DEF Barrier
<1> QED  BY <1>3, <1>4, <1>5, <1>6 DEF Barrier

\* What Go() and Advance() do.
LEMMA Going ==
  ASSUME PoolTyped, NEW t \in Threads, NEW step, Go(t, step)
  PROVE  at'[t] = step /\ DOMAIN at' = Threads /\ \A u \in Threads \ {t} : at'[u] = at[u]
BY DEF Go, PoolTyped, Pools, Locals

\* A thread let go by a barrier goes to the next stage, or out of the graph.
LEMMA Advances ==
  ASSUME PoolTyped, NEW t \in Threads, Advance(t)
  PROVE  /\ DOMAIN at' = Threads
         /\ \A u \in Threads \ {t} : at'[u] = at[u] /\ local'[u] = local[u]
         /\ local'[t].seen = local[t].seen
         /\ IF local[t].stage + 1 \in DOMAIN local[t].stages
            THEN /\ at'[t] = IF local[t].stages[local[t].stage + 1] > 0 THEN "chunk" ELSE "share"
                 /\ local'[t].stages = local[t].stages
                 /\ local'[t].stage = local[t].stage + 1 /\ local'[t].chunk = t
            ELSE at'[t] = IF t = 0 THEN "computed" ELSE "top"
<1> DEFINE more == local[t].stage + 1 \in DOMAIN local[t].stages
<1>1. DOMAIN local = Threads /\ local[t] \in [seen : Nat \X Nat, stages : Seq(Nat), stage : Nat,
                                              chunk : Nat, passed : Nat]
  BY DEF PoolTyped, Pools, Locals
<1>2. CASE more
  <2>1. local' = [local EXCEPT ![t].stage = local[t].stage + 1, ![t].chunk = t, ![t].passed = 0]
    BY <1>2 DEF Advance
  <2>2. Go(t, IF IsProduct(t, local[t].stage + 1) THEN "chunk" ELSE "share")
    BY <1>2 DEF Advance
  <2>3. /\ at'[t] = IF local[t].stages[local[t].stage + 1] > 0 THEN "chunk" ELSE "share"
        /\ DOMAIN at' = Threads /\ \A u \in Threads \ {t} : at'[u] = at[u]
    BY <1>2, <2>2, Going DEF IsProduct
  <2>4. local'[t] = [local[t] EXCEPT !.stage = local[t].stage + 1, !.chunk = t, !.passed = 0]
        /\ \A u \in Threads \ {t} : local'[u] = local[u]
    BY ONLY <1>1, <2>1
  <2>5. /\ local'[t].seen = local[t].seen /\ local'[t].stages = local[t].stages
        /\ local'[t].stage = local[t].stage + 1 /\ local'[t].chunk = t
    BY <1>1, <2>4
  <2> QED  BY <1>2, <2>3, <2>4, <2>5
<1>3. CASE ~more
  <2>1. local' = [local EXCEPT ![t] = [NoLocal EXCEPT !.seen = local[t].seen]]
        /\ Go(t, IF t = 0 THEN "computed" ELSE "top")
    BY <1>3 DEF Advance
  <2>2. at'[t] = (IF t = 0 THEN "computed" ELSE "top") /\ DOMAIN at' = Threads
        /\ \A u \in Threads \ {t} : at'[u] = at[u]
    BY <2>1, Going
  <2>3. local'[t].seen = local[t].seen /\ \A u \in Threads \ {t} : local'[u] = local[u]
    BY <1>1, <2>1 DEF NoLocal
  <2> QED  BY <1>3, <2>2, <2>3
<1> QED  BY <1>2, <1>3

\* A thread that is at work is one of the graph's, at its stage.
LEMMA AtWork ==
  ASSUME PoolTyped, Meeting, NEW t \in Threads, at[t] \in Working
  PROVE  t \in Active /\ Here(t)
<1>1. Place(t) /\ pool.active > 0
  BY DEF Meeting
<1>2. ~Left(t) /\ ~Freed(t)
  BY DEF Left, Idle, Freed, Working
<1>3. t = 0 \/ t < pool.active
  BY <1>1, <1>2 DEF Place
<1>4. ~Late(t) /\ ~Done(t)
  BY <1>2 DEF Late, Done, Left
<1>5. Here(t)
  BY <1>1, <1>2, <1>3, <1>4 DEF Place
<1>6. t \in Active
  BY <1>1, <1>3, PoolKinds
<1> QED  BY <1>5, <1>6

\* The others stay where they are.
LEMMA MeetingKept ==
  ASSUME Meeting, NEW t \in Threads, Kept(t), pool'.live = pool.live, pool'.stop = pool.stop,
         Place(t)', Barrier', InGraph', local'[0].stage > 0
  PROVE  Meeting'
<1>1. ASSUME NEW u \in Threads \ {t} PROVE Place(u)'
  BY <1>1, Frame DEF Meeting, Place, Kept
<1> QED  BY <1>1 DEF Meeting, Kept

\* A share, a chunk and the way into the barrier leave a thread at its stage.
LEMMA InsideStage ==
  ASSUME PoolTyped, Meeting, NEW t \in Threads, at[t] \in {"share", "chunk", "enter"},
         at'[t] \in {"chunk", "enter", "arrive"}, at'[t] = "arrive" => local'[t].passed = pool.n_passed,
         at'[t] = "chunk" => at[t] = "chunk",
         Stage = 1 => Counts(t)', \A u \in Threads \ {t} : Counts(u)' = Counts(u),
         \A u \in Threads \ {t} : at'[u] = at[u] /\ local'[u] = local[u],
         local'[t].seen = local[t].seen, local'[t].stages = local[t].stages,
         local'[t].stage = local[t].stage,
         splits' = splits, pool'.n_passed = pool.n_passed, pool'.n_graph = pool.n_graph,
         pool'.active = pool.active, pool'.live = pool.live, pool'.stop = pool.stop,
         pool'.n_barrier = pool.n_barrier
  PROVE  Meeting' /\ Kept(t) /\ Here(t)'
<1>1. t \in Active /\ Here(t) /\ 0 \in Threads
  BY AtWork, PoolAssumption DEF Working, Threads
<1>2. Signal' = Signal /\ Graph' = Graph
  BY DEF Signal, Graph
<1>3. (at'[0] # "spin" /\ at[0] # "spin") \/ (at'[0] = at[0] /\ local'[0] = local[0])
  BY <1>1
<1>4. local'[0].stage = local[0].stage
  BY <1>1
<1>5. Stage' = Stage
  BY <1>3, <1>4 DEF Stage
<1>6. Kept(t) /\ Over' = Over
  BY <1>2, <1>5 DEF Kept, Over
<1>7. Here(t)'
  <2>1. Product' = Product
    BY <1>2, <1>5 DEF Product
  <2> QED  BY <1>1, <1>2, <1>5, <1>6, <2>1 DEF Here, Joined, Working
<1>8. Place(t)'
  <2>1. t < pool'.active /\ t \in Nat
    BY <1>1, PoolKinds
  <2> QED  BY <1>7, <2>1 DEF Place
<1>9. Barrier'
  BY <1>6, BarrierKept DEF Meeting, Waiting, Last
<1>10. InGraph' /\ local'[0].stage > 0
  BY <1>1, <1>4 DEF Meeting, InGraph, Working
<1> QED  BY <1>6, <1>7, <1>8, <1>9, <1>10, MeetingKept

\* The stage ends: the caller goes on to the next one, and no thread has begun it.
OnNext ==
  /\ Graph' = Graph /\ pool'.active = pool.active
  /\ \/ at'[0] = "computed" /\ Stage + 1 \notin DOMAIN Graph.stages
     \/ InGraph' /\ Stage' = Stage + 1 /\ \A u \in Active : ~Past(u)' /\ Mine(u)' = u

\* Alone, the caller goes from stage to stage without a barrier.
LEMMA AloneOnward ==
  ASSUME PoolTyped, Sized, Meeting, NEW t \in Threads, at[t] \in {"share", "chunk"}, Advance(t),
         pool.active = 1,
         splits' = splits, pool'.n_passed = pool.n_passed, pool'.n_graph = pool.n_graph,
         pool'.active = pool.active, pool'.live = pool.live, pool'.stop = pool.stop,
         pool'.n_barrier = pool.n_barrier
  PROVE  (Resting' \/ Meeting') /\ OnNext
<1>1. t = 0 /\ Here(0) /\ 0 \in Threads
  BY AtWork, PoolAssumption DEF Working, Threads, Active
<1>2. Stage = local[0].stage /\ local[0].stages = Graph.stages /\ Graph' = Graph /\ Signal' = Signal
  BY <1>1 DEF Stage, Here, Joined, Graph, Signal
<1>3. \A w \in Workers : ~(w < pool.active) /\ Left(w) /\ w # 0
  BY PoolAssumption DEF Meeting, Place, Workers, Threads
<1>4. \A w \in Workers : Left(w)'
  BY <1>1, <1>3, Advances DEF Left, Workers
<1>5. pool.n_barrier = 0
  <2>1. \A u \in Threads : at[u] # "zero"
    <3>1. at[0] # "zero"
      BY <1>1
    <3>2. \A w \in Workers : at[w] # "zero"
      BY <1>3 DEF Left, Idle
    <3> QED  BY <3>1, <3>2 DEF Workers
  <2>2. {u \in Active : Waiting(u)} = {}
    BY <1>1 DEF Active, Waiting
  <2>3. pool.n_barrier <= 0
    BY <2>1, <2>2, FS_EmptySet DEF Meeting, Barrier
  <2> QED  BY <2>3 DEF PoolTyped, Pools, Locals
<1>6. CASE local[0].stage + 1 \in DOMAIN local[0].stages
  <2>1. /\ at'[0] = IF Graph.stages[local[0].stage + 1] > 0 THEN "chunk" ELSE "share"
        /\ local'[0].stages = Graph.stages /\ local'[0].stage = local[0].stage + 1
        /\ local'[0].chunk = 0
    BY <1>1, <1>2, <1>6, Advances
  <2>2. Stage' = local[0].stage + 1 /\ ~Over' /\ Stage' # 1
    BY <1>2, <1>6, <2>1, PoolKinds DEF Stage, Over, Meeting
  <2>3. Here(0)'
    BY <1>2, <1>6, <2>1, <2>2 DEF Here, Joined, Working, Product
  <2>4. \A u \in Threads : Place(u)'
    BY <1>3, <1>4, <2>3 DEF Place, Workers
  <2>5. Barrier'
    <3>1. \A u \in Threads : ~Last(u)' /\ at'[u] # "release"
      <4>1. at'[0] \notin {"zero", "release"}
        BY <2>1
      <4>2. \A w \in Workers : at'[w] \notin {"zero", "release"}
        BY <1>4 DEF Left, Idle
      <4> QED  BY <4>1, <4>2 DEF Workers, Last
    <3>2. {u \in Active' : Waiting(u)'} \in SUBSET Threads
      <4>1. Active' = Active
        BY DEF Active
      <4> QED  BY <4>1, PoolKinds
    <3>3. Cardinality({u \in Active' : Waiting(u)'}) >= 0
      BY <3>2, WaitersGrow
    <3> QED  BY <1>5, <2>2, <3>1, <3>3 DEF Barrier
  <2>6. InGraph' /\ local'[0].stage > 0
    BY <2>1, PoolKinds DEF InGraph, Meeting, Working
  <2>7. \A u \in Active : ~Past(u)' /\ Mine(u)' = u
    BY <2>1 DEF Active, Past, Mine
  <2> QED  BY <1>2, <2>2, <2>4, <2>5, <2>6, <2>7 DEF Meeting, OnNext
<1>7. CASE local[0].stage + 1 \notin DOMAIN local[0].stages
  <2>1. at'[0] = "computed"
    BY <1>1, <1>7, Advances
  <2> QED  BY <1>2, <1>3, <1>4, <1>5, <1>7, <2>1 DEF Resting, Meeting, OnNext
<1> QED  BY <1>6, <1>7

\* At the barrier's counter: the last thread finds all the others waiting.
LEMMA Arrives ==
  ASSUME PoolTyped, Meeting, NEW t \in Threads, Arrive(t)
  PROVE  Meeting' /\ Kept(t) /\ Here(t)'
<1>1. t \in Active /\ Here(t) /\ at[t] = "arrive" /\ ~Waiting(t) /\ ~Last(t)
  BY AtWork DEF Arrive, Working, Waiting, Last
<1>2. /\ pool' = [pool EXCEPT !.n_barrier = pool.n_barrier + 1]
      /\ at'[t] = IF pool.n_barrier + 1 = pool.active THEN "zero" ELSE "spin"
      /\ DOMAIN at' = Threads /\ local' = local /\ splits' = splits /\ made' = made
      /\ \A u \in Threads \ {t} : at'[u] = at[u]
  BY Going DEF Arrive
<1>3. /\ pool'.n_barrier = pool.n_barrier + 1 /\ pool'.n_passed = pool.n_passed
      /\ pool'.n_graph = pool.n_graph /\ pool'.active = pool.active /\ pool'.live = pool.live
      /\ pool'.stop = pool.stop
  BY <1>2 DEF PoolTyped, Pools, Locals
<1>4. Signal' = Signal /\ Graph' = Graph /\ Active' = Active
  BY <1>2, <1>3 DEF Signal, Graph, Active
<1>5. Stage' = Stage
  <2>1. CASE t = 0
    <3>1. local[0].passed = pool.n_passed /\ at[0] # "spin"
      BY <1>1, <2>1 DEF Here
    <3> QED  BY <1>2, <1>3, <3>1 DEF Stage
  <2>2. CASE t # 0
    <3>1. at'[0] = at[0]
      BY <1>2, <2>2, PoolKinds
    <3> QED  BY <1>2, <1>3, <3>1 DEF Stage
  <2> QED  BY <2>1, <2>2
<1>6. Kept(t) /\ Over' = Over /\ Product' = Product
  BY <1>2, <1>3, <1>4, <1>5 DEF Kept, Over, Product, Counts
<1>7. Here(t)' /\ Place(t)'
  <2>1. Here(t)'
    BY <1>1, <1>2, <1>3, <1>4, <1>5, <1>6 DEF Here, Joined, Working, Counts
  <2>2. t < pool'.active
    BY <1>1, <1>3, PoolKinds
  <2> QED  BY <2>1, <2>2 DEF Place
<1>8. ASSUME NEW u \in Threads, Last(u) PROVE FALSE
  <2>1. t \in Active \ {u}
    BY <1>1, <1>8
  <2> QED  BY <1>1, <1>8, <2>1 DEF Meeting, Barrier
<1>9. \A u \in Threads \ {t} : Waiting(u)' = Waiting(u) /\ ~Last(u)'
  BY <1>6, <1>8, Frame
<1> DEFINE S == {u \in Active : Waiting(u)}  T == {u \in Active' : Waiting(u)'}
<1>10. /\ S \in SUBSET Threads /\ T \in SUBSET Threads /\ S \subseteq Active \ {t}
       /\ pool.n_barrier <= Cardinality(S)
  <2>1. \A u \in Threads : at[u] # "zero"
    BY <1>8 DEF Last
  <2> QED  BY <1>1, <1>4, <2>1, PoolKinds DEF Meeting, Barrier
<1>11. /\ IsFiniteSet(Active \ {t}) /\ Cardinality(Active \ {t}) = pool.active - 1
       /\ IsFiniteSet(S) /\ Cardinality(S) \in Nat
  <2>1. IsFiniteSet(Active) /\ Cardinality(Active) = pool.active
    <3> DEFINE n == pool.active
    <3>1. n \in Nat /\ Active = 0..(n - 1)
      BY PoolKinds DEF Active
    <3> HIDE DEF n
    <3>2. IsFiniteSet(0..(n - 1)) /\ Cardinality(0..(n - 1)) = n
      BY <3>1, FS_Interval
    <3> QED  BY <3>1, <3>2 DEF n
  <2>2. IsFiniteSet(Active \ {t}) /\ Cardinality(Active \ {t}) = pool.active - 1
    BY <1>1, <2>1, FS_RemoveElement
  <2>3. IsFiniteSet(S) /\ Cardinality(S) \in Nat
    BY <1>10, WaitersGrow
  <2> QED  BY <2>2, <2>3
<1>12. ~Over
  BY <1>1 DEF Here
<1>13. Barrier'
  <2> HIDE DEF S, T
  <2>1. CASE pool.n_barrier + 1 = pool.active
    <3>1. at'[t] = "zero"
      BY <1>2, <2>1
    <3>2. Cardinality(S) = Cardinality(Active \ {t})
      <4>1. Cardinality(S) <= Cardinality(Active \ {t})
        BY <1>10, <1>11, FS_Subset
      <4>2. pool.n_barrier <= Cardinality(S) /\ pool.n_barrier \in Nat /\ pool.active \in Nat
        BY <1>10, PoolKinds
      <4> QED  BY <1>11, <2>1, <4>1, <4>2
    <3>3. S = Active \ {t}
      BY <1>10, <1>11, <3>2, FS_Subset
    <3>4. \A u \in Active \ {t} : Waiting(u)
      BY <3>3 DEF S
    <3>5. \A u \in Active' \ {t} : Waiting(u)'
      BY <1>4, <1>9, <3>4, PoolKinds
    <3>6. \A u \in Threads : Last(u)' => u = t
      BY <1>9
    <3>7. \A u \in Threads : at'[u] # "release"
      BY <3>1, <3>6 DEF Last
    <3> QED  BY <1>6, <1>12, <3>1, <3>5, <3>6, <3>7 DEF Barrier
  <2>2. CASE pool.n_barrier + 1 # pool.active
    <3>1. at'[t] = "spin"
      BY <1>2, <2>2
    <3>2. Waiting(t)'
      BY <1>7, <3>1 DEF Waiting
    <3>3. S \cup {t} \subseteq T
      BY <1>1, <1>4, <1>9, <3>2, PoolKinds DEF S, T
    <3>4. Cardinality(S \cup {t}) = Cardinality(S) + 1
      BY <1>10, <1>11, FS_AddElement
    <3>5. Cardinality(S \cup {t}) <= Cardinality(T) /\ Cardinality(T) \in Nat
      BY <1>10, <3>3, WaitersGrow
    <3>6. pool'.n_barrier <= Cardinality(T)
      BY <1>3, <1>10, <1>11, <3>4, <3>5, PoolKinds
    <3>7. \A u \in Threads : ~Last(u)'
      BY <1>9, <3>1 DEF Last
    <3>8. \A u \in Threads : at'[u] # "release"
      BY <3>7 DEF Last
    <3> QED  BY <1>6, <1>12, <3>6, <3>7, <3>8 DEF Barrier, T
  <2> QED  BY <2>1, <2>2
<1>14. InGraph' /\ local'[0].stage > 0
  <2>1. CASE t = 0
    BY <1>2, <2>1 DEF InGraph, Working, Meeting
  <2>2. CASE t # 0
    BY <1>2, <2>2, PoolKinds DEF InGraph, Meeting
  <2> QED  BY <2>1, <2>2
<1> QED  BY <1>3, <1>6, <1>7, <1>13, <1>14, MeetingKept

\* The last thread empties the counter.
LEMMA Zeroes ==
  ASSUME PoolTyped, Meeting, NEW t \in Threads, Zero(t)
  PROVE  Meeting' /\ Kept(t) /\ Here(t)'
<1>1. t \in Active /\ Here(t) /\ at[t] = "zero" /\ Last(t)
  BY AtWork DEF Zero, Working, Last
<1>2. /\ pool' = [pool EXCEPT !.n_barrier = 0] /\ local' = local /\ splits' = splits /\ made' = made
      /\ at'[t] = "release" /\ DOMAIN at' = Threads /\ \A u \in Threads \ {t} : at'[u] = at[u]
  BY Going DEF Zero
<1>3. /\ pool'.n_barrier = 0 /\ pool'.n_passed = pool.n_passed
      /\ pool'.n_graph = pool.n_graph /\ pool'.active = pool.active /\ pool'.live = pool.live
      /\ pool'.stop = pool.stop
  BY <1>2 DEF PoolTyped, Pools, Locals
<1>4. Signal' = Signal /\ Graph' = Graph /\ Active' = Active
  BY <1>2, <1>3 DEF Signal, Graph, Active
<1>5. Stage' = Stage
  <2>1. at'[0] = at[0] \/ (at[0] # "spin" /\ at'[0] # "spin")
    BY <1>1, <1>2, PoolKinds
  <2> QED  BY <1>2, <1>3, <2>1 DEF Stage
<1>6. Kept(t) /\ Over' = Over /\ Product' = Product
  BY <1>2, <1>3, <1>4, <1>5 DEF Kept, Over, Product, Counts
<1>7. Here(t)' /\ Place(t)'
  <2>1. Here(t)'
    BY <1>1, <1>2, <1>3, <1>4, <1>5, <1>6 DEF Here, Joined, Working, Counts
  <2>2. t < pool'.active
    BY <1>1, <1>3, PoolKinds
  <2> QED  BY <2>1, <2>2 DEF Place
<1>8. \A u \in Threads \ {t} : Waiting(u)' = Waiting(u) /\ Last(u)' = Last(u)
  BY <1>6, Frame
<1>9. \A u \in Active \ {t} : Waiting(u)
  BY <1>1 DEF Meeting, Barrier
<1>10. \A u \in Active' \ {t} : Waiting(u)'
  BY <1>4, <1>8, <1>9, PoolKinds
<1>11. \A u \in Threads : Last(u)' => u = t
  <2> SUFFICES ASSUME NEW u \in Threads \ {t}, Last(u) PROVE FALSE
    BY <1>8
  <2>1. Waiting(t)
    BY <1>1 DEF Meeting, Barrier
  <2> QED  BY <1>1, <2>1 DEF Waiting
<1>12. Barrier'
  <2>1. Cardinality({u \in Active' : Waiting(u)'}) >= 0
    <3>1. {u \in Active' : Waiting(u)'} \in SUBSET Threads
      BY <1>4, PoolKinds
    <3> QED  BY <3>1, WaitersGrow
  <2> QED  BY <1>3, <1>10, <1>11, <2>1 DEF Barrier
<1>13. InGraph' /\ local'[0].stage > 0
  <2>1. CASE t = 0
    BY <1>2, <2>1 DEF InGraph, Working, Meeting
  <2>2. CASE t # 0
    BY <1>2, <2>2, PoolKinds DEF InGraph, Meeting
  <2> QED  BY <2>1, <2>2
<1> QED  BY <1>3, <1>6, <1>7, <1>12, <1>13, MeetingKept

\* The last thread lets the others go and goes on itself.
LEMMA Releases ==
  ASSUME PoolTyped, Sized, Meeting, NEW t \in Threads, Release(t)
  PROVE  (Resting' \/ Meeting') /\ OnNext /\ \A u \in Active : Past(u)
<1>1. /\ t \in Active /\ Here(t) /\ Last(t) /\ pool.n_barrier = 0 /\ ~Over
      /\ \A u \in Active \ {t} : Waiting(u)
  <2>1. at[t] = "release"
    BY DEF Release
  <2>2. t \in Active /\ Here(t) /\ Last(t)
    BY <2>1, AtWork DEF Working, Last
  <2> QED  BY <2>1, <2>2 DEF Meeting, Barrier, Here
<1>2. /\ pool' = [pool EXCEPT !.n_passed = (pool.n_passed + 1) % CounterWrap]
      /\ Advance(t) /\ splits' = splits
  BY DEF Release
<1>3. /\ pool'.n_barrier = 0 /\ pool'.n_passed = (pool.n_passed + 1) % CounterWrap
      /\ pool'.n_graph = pool.n_graph /\ pool'.active = pool.active /\ pool'.live = pool.live
      /\ pool'.stop = pool.stop
  BY <1>1, <1>2 DEF PoolTyped, Pools, Locals
<1>4. pool'.n_passed # pool.n_passed
  BY <1>3, PoolKinds, PoolAssumption
<1>5. Signal' = Signal /\ Graph' = Graph /\ Active' = Active
  BY <1>2, <1>3 DEF Signal, Graph, Active
<1>6. /\ \A u \in Threads \ {t} : at'[u] = at[u] /\ local'[u] = local[u]
      /\ local'[t].seen = local[t].seen
      /\ IF local[t].stage + 1 \in DOMAIN local[t].stages
         THEN /\ at'[t] = IF local[t].stages[local[t].stage + 1] > 0 THEN "chunk" ELSE "share"
              /\ local'[t].stages = local[t].stages /\ local'[t].stage = local[t].stage + 1
              /\ local'[t].chunk = t
         ELSE at'[t] = IF t = 0 THEN "computed" ELSE "top"
  BY <1>2, Advances
<1>7. \A u \in Active \ {t} :
        /\ at'[u] = "spin" /\ local'[u].passed # pool'.n_passed
        /\ local'[u].stages = Graph.stages /\ local'[u].stage = Stage
        /\ u # 0 => local'[u].seen = Signal
  BY <1>1, <1>4, <1>6, PoolKinds DEF Waiting, Here, Joined
<1>8. local[t].stages = Graph.stages /\ local[t].stage = Stage /\ (t # 0 => local[t].seen = Signal)
  BY <1>1 DEF Here, Joined
<1>9. \A w \in Threads \ Active : w # 0 /\ Left(w)'
  <2> SUFFICES ASSUME NEW w \in Threads \ Active PROVE w # 0 /\ Left(w)'
    OBVIOUS
  <2>1. w # 0 /\ Left(w) /\ w # t
    BY <1>1, PoolKinds DEF Meeting, Place
  <2> QED  BY <1>6, <2>1 DEF Left
<1>10. Stage \in Nat \ {0} /\ local[0].stage = Stage
  <2>1. local[0].stage > 0 /\ local[0].stage \in Nat /\ 0 \in Active
    BY PoolKinds DEF Meeting
  <2>2. Here(0)
    BY <1>1, <2>1 DEF Waiting
  <2> QED  BY <2>1, <2>2 DEF Here
<1>p. \A u \in Active : Past(u)
  BY <1>1 DEF Past, Waiting, Last
<1>11. CASE t = 0 /\ local[t].stage + 1 \notin DOMAIN local[t].stages
  <2>1. at'[0] = "computed"
    BY <1>6, <1>11
  <2>2. ASSUME NEW w \in Workers
        PROVE  /\ Left(w)'
               /\ w < pool'.active => /\ local'[w].seen = Signal'
                                      /\ at'[w] = "spin" => local'[w].passed # pool'.n_passed
    <3>1. CASE w \in Active
      BY <1>5, <1>7, <1>8, <1>11, <3>1, PoolKinds DEF Left
    <3>2. CASE w \notin Active
      <4>1. w \in Threads /\ ~(w < pool'.active)
        BY <1>3, <3>2, PoolKinds DEF Workers
      <4> QED  BY <1>9, <3>2, <4>1
    <3> QED  BY <3>1, <3>2
  <2> QED  BY <1>2, <1>3, <1>5, <1>8, <1>p, <1>11, <2>1, <2>2 DEF Resting, Meeting, OnNext
<1>12. CASE t # 0 \/ local[t].stage + 1 \in DOMAIN local[t].stages
  <2>1. Stage' = Stage + 1 /\ InGraph' /\ local'[0].stage > 0
    <3>1. CASE t = 0
      BY <1>6, <1>10, <1>12, <3>1 DEF Stage, InGraph, Working
    <3>2. CASE t # 0
      <4>1. 0 \in Active \ {t}
        BY <3>2, PoolKinds DEF Meeting
      <4> QED  BY <1>7, <1>10, <4>1 DEF Stage, InGraph
    <3> QED  BY <3>1, <3>2
  <2>2. Stage' # 1 /\ (Over' <=> Stage + 1 \notin DOMAIN Graph.stages)
    BY <1>5, <1>10, <2>1 DEF Over
  <2>3. \A u \in Active \ {t} : Freed(u)'
    BY <1>5, <1>7, <2>1, <2>2 DEF Freed, Joined
  <2>4. /\ local[t].stage + 1 \in DOMAIN local[t].stages => Here(t)'
        /\ local[t].stage + 1 \notin DOMAIN local[t].stages => Done(t)'
    <3>1. CASE local[t].stage + 1 \in DOMAIN local[t].stages
      BY <1>5, <1>6, <1>8, <2>1, <2>2, <3>1 DEF Here, Joined, Working, Product
    <3>2. CASE local[t].stage + 1 \notin DOMAIN local[t].stages
      <4>1. t # 0 /\ at'[t] = "top" /\ local'[t].seen = Signal'
        BY <1>5, <1>6, <1>8, <1>12, <3>2
      <4>2. Over'
        BY <1>8, <2>2, <3>2
      <4> QED  BY <3>2, <4>1, <4>2 DEF Done, Idle
    <3> QED  BY <3>1, <3>2
  <2>5. \A u \in Threads : Place(u)'
    <3> SUFFICES ASSUME NEW u \in Threads PROVE Place(u)'
      OBVIOUS
    <3>1. CASE u \in Active
      <4>1. u < pool'.active
        BY <1>3, <3>1, PoolKinds
      <4> QED  BY <1>12, <2>3, <2>4, <3>1, <4>1 DEF Place
    <3>2. CASE u \notin Active
      <4>1. ~(u < pool'.active)
        BY <1>3, <3>2, PoolKinds
      <4> QED  BY <1>9, <3>2, <4>1 DEF Place
    <3> QED  BY <3>1, <3>2
  <2>6. \A u \in Threads : ~Last(u)'
    <3> SUFFICES ASSUME NEW u \in Threads PROVE ~Last(u)'
      OBVIOUS
    <3>1. CASE u = t
      BY <1>6, <3>1 DEF Last
    <3>2. CASE u \in Active \ {t}
      BY <1>7, <3>2 DEF Last
    <3>3. CASE u \notin Active
      BY <1>9, <3>3 DEF Last, Left, Idle
    <3> QED  BY <3>1, <3>2, <3>3
  <2>7. Barrier'
    <3>1. {u \in Active' : Waiting(u)'} \in SUBSET Threads
      BY <1>5, PoolKinds
    <3>2. Cardinality({u \in Active' : Waiting(u)'}) >= 0
      BY <3>1, WaitersGrow
    <3>3. \A u \in Threads : at'[u] # "release"
      BY <2>6 DEF Last
    <3> QED  BY <1>3, <2>6, <3>2, <3>3 DEF Barrier
  <2>8. \A u \in Active : ~Past(u)' /\ Mine(u)' = u
    <3>1. \A u \in Active \ {t} : ~Past(u)' /\ Mine(u)' = u
      BY <1>7 DEF Past, Here, Mine
    <3>2. ~Past(t)' /\ Mine(t)' = t
      BY <1>6 DEF Past, Here, Mine, Working
    <3> QED  BY <3>1, <3>2
  <2> QED  BY <1>2, <1>3, <1>5, <1>p, <2>1, <2>5, <2>7, <2>8 DEF Meeting, OnNext
<1> QED  BY <1>11, <1>12

\* A thread notices that it was let go.
LEMMA Spins ==
  ASSUME PoolTyped, Meeting, NEW t \in Threads, Spin(t)
  PROVE  \/ Resting' /\ Over /\ at'[0] = "computed"
         \/ Meeting' /\ Kept(t) /\ ~Past(t) /\ ~Past(t)' /\ Mine(t) = t /\ Mine(t)' = t
<1>1. /\ at[t] = "spin" /\ pool.n_passed # local[t].passed /\ pool' = pool /\ splits' = splits
      /\ Advance(t) /\ made' = made
  BY DEF Spin
<1>2. ~Here(t) /\ ~Waiting(t) /\ ~Last(t) /\ ~Done(t) /\ Place(t)
  BY <1>1 DEF Here, Waiting, Last, Done, Idle, Meeting
<1>3. /\ \A u \in Threads \ {t} : at'[u] = at[u] /\ local'[u] = local[u]
      /\ local'[t].seen = local[t].seen
      /\ IF local[t].stage + 1 \in DOMAIN local[t].stages
         THEN /\ at'[t] = IF local[t].stages[local[t].stage + 1] > 0 THEN "chunk" ELSE "share"
              /\ local'[t].stages = local[t].stages /\ local'[t].stage = local[t].stage + 1
              /\ local'[t].chunk = t
         ELSE at'[t] = IF t = 0 THEN "computed" ELSE "top"
  BY <1>1, Advances
<1>4. Signal' = Signal /\ Graph' = Graph
  BY <1>1 DEF Signal, Graph
<1>5. CASE t = 0 /\ local[t].stage + 1 \notin DOMAIN local[t].stages
  <2>1. Freed(0) /\ at'[0] = "computed"
    BY <1>2, <1>3, <1>5 DEF Place
  <2>2. Over /\ Stage # 1 /\ pool.n_barrier = 0
    BY <1>5, <2>1 DEF Freed, Joined, Over, Meeting, Barrier
  <2>3. ASSUME NEW w \in Workers
        PROVE  /\ Left(w)'
               /\ w < pool'.active => /\ local'[w].seen = Signal'
                                      /\ at'[w] = "spin" => local'[w].passed # pool'.n_passed
    <3>1. w \in Threads \ {0} /\ Place(w) /\ ~Here(w) /\ ~Late(w)
      BY <2>2, PoolKinds DEF Workers, Meeting, Here, Late
    <3>2. at'[w] = at[w] /\ local'[w] = local[w]
      BY <1>3, <1>5, <3>1
    <3>3. CASE Freed(w)
      BY <1>1, <1>4, <2>2, <3>1, <3>2, <3>3 DEF Freed, Joined, Left, Over
    <3>4. CASE Done(w)
      BY <1>1, <1>4, <3>2, <3>4 DEF Done, Left, Idle
    <3>5. CASE ~(w < pool.active)
      BY <1>1, <3>1, <3>2, <3>5 DEF Left, Place
    <3> QED  BY <3>1, <3>3, <3>4, <3>5 DEF Place
  <2> QED  BY <1>1, <2>1, <2>2, <2>3 DEF Resting, Meeting
<1>6. CASE t # 0 \/ local[t].stage + 1 \in DOMAIN local[t].stages
  <2>1. Stage' = Stage
    <3>1. CASE t = 0
      <4>1. Freed(0)
        BY <1>2, <3>1 DEF Place
      <4> QED  BY <1>3, <1>6, <3>1, <4>1 DEF Stage, Freed
    <3>2. CASE t # 0
      <4>1. at'[0] = at[0] /\ local'[0] = local[0]
        BY <1>3, <3>2, PoolKinds
      <4> QED  BY <1>1, <4>1 DEF Stage
    <3> QED  BY <3>1, <3>2
  <2>2. Kept(t) /\ Over' = Over
    BY <1>1, <1>3, <1>4, <2>1 DEF Kept, Over, Counts
  <2>3. InGraph' /\ local'[0].stage > 0
    <3>1. CASE t = 0
      <4>1. at'[0] \in {"share", "chunk"} /\ local'[0].stage = local[0].stage + 1
        BY <1>3, <1>6, <3>1
      <4> QED  BY <4>1, PoolKinds DEF InGraph, Working
    <3>2. CASE t # 0
      BY <1>3, <3>2, PoolKinds DEF InGraph, Meeting
    <3> QED  BY <3>1, <3>2
  <2>4. Place(t)'
    <3>1. CASE Freed(t)
      <4>1. CASE local[t].stage + 1 \in DOMAIN local[t].stages
        <5>1. Here(t)'
          BY <1>3, <1>4, <2>1, <2>2, <3>1, <4>1 DEF Freed, Joined, Here, Working, Over, Product
        <5>2. t = 0 \/ t < pool'.active \/ ~(t < pool.active)
          BY <1>1
        <5>3. ~Left(t)
          BY <1>1, <4>1 DEF Left, Idle
        <5> QED  BY <1>1, <1>2, <5>1, <5>3 DEF Place
      <4>2. CASE local[t].stage + 1 \notin DOMAIN local[t].stages
        <5>1. at'[t] = "top" /\ t # 0 /\ local'[t].seen = Signal'
          BY <1>3, <1>4, <1>6, <3>1, <4>2 DEF Freed, Joined
        <5>2. Over'
          BY <2>2, <3>1, <4>2 DEF Freed, Joined, Over
        <5> QED  BY <5>1, <5>2 DEF Place, Done, Left, Idle
      <4> QED  BY <4>1, <4>2
    <3>2. CASE ~Freed(t)
      <4>1. t # 0 /\ Left(t) /\ (t < pool.active => Late(t))
        BY <1>2, <3>2 DEF Place, Late
      <4>2. local[t].stage + 1 \notin DOMAIN local[t].stages
        BY <1>1, <4>1 DEF Left, Idle
      <4>3. at'[t] = "top"
        BY <1>3, <4>1, <4>2
      <4> QED  BY <1>1, <2>1, <4>1, <4>3 DEF Place, Late, Left, Idle
    <3> QED  BY <3>1, <3>2
  <2>5. ~Last(t)'
    BY <1>3 DEF Last
  <2>6. Barrier'
    BY <1>1, <1>2, <2>2, <2>5, BarrierKept DEF Meeting
  <2>7. Meeting'
    BY <1>1, <2>2, <2>3, <2>4, <2>6, MeetingKept
  <2>8. ~Past(t) /\ ~Past(t)' /\ Mine(t) = t /\ Mine(t)' = t
    BY <1>1, <1>2, <1>3 DEF Past, Here, Mine, Working
  <2> QED  BY <2>2, <2>7, <2>8
<1> QED  BY <1>5, <1>6

\* What a worker between graphs does when it looks for a signal.
LEMMA Notices ==
  ASSUME PoolTyped, NEW w \in Threads, NEW ready \in BOOLEAN, NEW idle, Notice(w, ready, idle)
  PROVE  /\ DOMAIN at' = Threads
         /\ \A u \in Threads \ {w} : at'[u] = at[u] /\ local'[u] = local[u]
         /\ IF ready /\ ~pool.stop
            THEN /\ local'[w].seen = Signal
                 /\ IF w < pool.active
                    THEN /\ at'[w] = "share" /\ local'[w].stages = Graph.stages
                         /\ local'[w].stage = 1
                    ELSE at'[w] = idle
            ELSE local' = local /\ at'[w] = idle
<1>1. DOMAIN local = Threads /\ local[w] \in [seen : Nat \X Nat, stages : Seq(Nat), stage : Nat,
                                              chunk : Nat, passed : Nat]
  BY DEF PoolTyped, Pools, Locals
<1>2. CASE ready /\ ~pool.stop
  <2> DEFINE mine == w < pool.active
             stages == IF mine THEN Graph.stages ELSE <<>>
             stage == IF mine THEN 1 ELSE 0
  <2>1. /\ local' = [local EXCEPT ![w].seen = Signal, ![w].stages = stages, ![w].stage = stage]
        /\ Go(w, IF mine THEN "share" ELSE idle)
    BY <1>2 DEF Notice
  <2>2. at'[w] = (IF mine THEN "share" ELSE idle) /\ DOMAIN at' = Threads
        /\ \A u \in Threads \ {w} : at'[u] = at[u]
    BY <2>1, Going
  <2> HIDE DEF mine, stages, stage
  <2>3. local'[w] = [local[w] EXCEPT !.seen = Signal, !.stages = stages, !.stage = stage]
        /\ \A u \in Threads \ {w} : local'[u] = local[u]
    BY ONLY <1>1, <2>1
  <2>4. local'[w].seen = Signal /\ local'[w].stages = stages /\ local'[w].stage = stage
    BY ONLY <1>1, <2>3
  <2> QED  BY <1>2, <2>2, <2>3, <2>4 DEF mine, stages, stage
<1>3. CASE ~(ready /\ ~pool.stop)
  BY <1>3, Going DEF Notice
<1> QED  BY <1>2, <1>3

\* The steps of a worker between graphs.
IdleStep(w) == Top(w) \/ Poll(w) \/ Lock(w) \/ Spurious(w)

\* It stays outside, or joins a graph that it has not seen.
LEMMA Idles ==
  ASSUME PoolTyped, NEW w \in Workers, IdleStep(w)
  PROVE  /\ at[w] \in Idle /\ pool' = pool /\ splits' = splits /\ made' = made
         /\ DOMAIN at' = Threads
         /\ \A u \in Threads \ {w} : at'[u] = at[u] /\ local'[u] = local[u]
         /\ \/ local'[w] = local[w] /\ at'[w] \in Idle
            \/ /\ local[w].seen # Signal /\ ~pool.stop /\ local'[w].seen = Signal
               /\ IF w < pool.active
                  THEN at'[w] = "share" /\ local'[w].stages = Graph.stages /\ local'[w].stage = 1
                  ELSE at'[w] \in Idle
<1>0. w \in Threads
  BY DEF Workers
<1>1. CASE Top(w) \/ Spurious(w)
  <2>1. PICK step \in Idle : Go(w, step)
    BY <1>1 DEF Top, Spurious, Idle
  <2>2. at'[w] = step /\ DOMAIN at' = Threads /\ \A u \in Threads \ {w} : at'[u] = at[u]
    BY <1>0, <2>1, Going
  <2> QED  BY <1>1, <2>2 DEF Top, Spurious, Idle
<1>2. CASE Poll(w) \/ Lock(w)
  <2>1. PICK idle \in Idle : Notice(w, Ready(w), idle)
    BY <1>2 DEF Poll, Lock, Idle
  <2>2. Ready(w) \in BOOLEAN /\ (Ready(w) /\ ~pool.stop => local[w].seen # Signal)
    BY DEF Ready
  <2>3. /\ DOMAIN at' = Threads
        /\ \A u \in Threads \ {w} : at'[u] = at[u] /\ local'[u] = local[u]
        /\ IF Ready(w) /\ ~pool.stop
           THEN /\ local'[w].seen = Signal
                /\ IF w < pool.active
                   THEN /\ at'[w] = "share" /\ local'[w].stages = Graph.stages
                        /\ local'[w].stage = 1
                   ELSE at'[w] = idle
           ELSE local' = local /\ at'[w] = idle
    BY <1>0, <2>1, <2>2, Notices
  <2>4. at[w] \in Idle /\ pool' = pool /\ splits' = splits /\ made' = made
    BY <1>2 DEF Poll, Lock, Idle
  <2> QED  BY <2>1, <2>2, <2>3, <2>4
<1> QED  BY <1>1, <1>2 DEF IdleStep

\* A worker outside the graph joins it in its first stage or stays out.
LEMMA IdleMeets ==
  ASSUME PoolTyped, Meeting, NEW w \in Workers, IdleStep(w)
  PROVE  Meeting' /\ Kept(w) /\ ~Past(w) /\ ~Past(w)' /\ Mine(w) = w /\ Mine(w)' = w
<1>0. w \in Threads /\ w # 0 /\ (w \in Active <=> w < pool.active) /\ 0 \in Threads
  BY PoolKinds DEF Workers
<1>1. /\ at[w] \in Idle /\ pool' = pool /\ splits' = splits /\ made' = made
      /\ \A u \in Threads \ {w} : at'[u] = at[u] /\ local'[u] = local[u]
      /\ \/ local'[w] = local[w] /\ at'[w] \in Idle
         \/ /\ local[w].seen # Signal /\ ~pool.stop /\ local'[w].seen = Signal
            /\ IF w < pool.active
               THEN at'[w] = "share" /\ local'[w].stages = Graph.stages /\ local'[w].stage = 1
               ELSE at'[w] \in Idle
  BY Idles
<1>2. Stage' = Stage /\ Signal' = Signal /\ Graph' = Graph
  BY <1>0, <1>1 DEF Stage, Signal, Graph
<1>3. Kept(w) /\ Over' = Over
  BY <1>1, <1>2 DEF Kept, Over, Counts
<1>4. ~Here(w) /\ ~Freed(w) /\ ~Waiting(w) /\ ~Last(w)
  BY <1>1 DEF Here, Freed, Waiting, Last, Idle, Working
<1>5. ~Last(w)'
  BY <1>1 DEF Last, Idle
<1>6. Barrier'
  BY <1>0, <1>1, <1>3, <1>4, <1>5, BarrierKept DEF Meeting
<1>7. Place(w)'
  <2>1. Place(w)
    BY <1>0 DEF Meeting
  <2>2. CASE at'[w] \in Idle /\ (local'[w] = local[w] \/ local'[w].seen = Signal)
    <3>1. CASE w < pool.active
      <4>1. Late(w) \/ Done(w)
        BY <1>0, <1>4, <2>1, <3>1 DEF Place
      <4>2. Late(w)' \/ Done(w)'
        BY <1>2, <1>3, <2>2, <4>1 DEF Late, Done, Left
      <4> QED  BY <1>0, <1>1, <3>1, <4>2 DEF Place
    <3>2. CASE ~(w < pool.active)
      BY <1>0, <1>1, <2>2, <3>2 DEF Place, Left
    <3> QED  BY <3>1, <3>2
  <2>3. CASE /\ w < pool.active /\ local[w].seen # Signal /\ local'[w].seen = Signal
             /\ at'[w] = "share" /\ local'[w].stages = Graph.stages /\ local'[w].stage = 1
    <3>1. Stage = 1
      BY <1>0, <1>4, <2>1, <2>3 DEF Place, Late, Done
    <3>2. Here(w)'
      BY <1>2, <1>3, <2>3, <3>1, FirstIsShared DEF Here, Joined, Working, Over, Product, Meeting
    <3> QED  BY <1>0, <1>1, <2>3, <3>2 DEF Place
  <2> QED  BY <1>1, <2>2, <2>3
<1>8. InGraph' /\ local'[0].stage > 0
  BY <1>0, <1>1 DEF InGraph, Meeting
<1>9. Meeting'
  BY <1>0, <1>1, <1>3, <1>6, <1>7, <1>8, MeetingKept
<1>10. ~Past(w) /\ ~Past(w)' /\ Mine(w) = w /\ Mine(w)' = w
  BY <1>1 DEF Past, Here, Mine, Working, Idle
<1> QED  BY <1>3, <1>9, <1>10

\* Between graphs no worker joins one.
LEMMA WorkersRest ==
  ASSUME PoolTyped, Resting, NEW w \in Workers, WorkerStep(w) \/ Spurious(w)
  PROVE  Resting'
<1>0. w \in Threads /\ w # 0 /\ 0 \in Threads
  BY PoolKinds DEF Workers
<1>1. Left(w) /\ (w < pool.active => /\ local[w].seen = Signal
                                     /\ at[w] = "spin" => local[w].passed # pool.n_passed)
  BY DEF Resting
<1>2. CASE IdleStep(w)
  <2>1. /\ at[w] \in Idle /\ pool' = pool /\ splits' = splits
        /\ \A u \in Threads \ {w} : at'[u] = at[u] /\ local'[u] = local[u]
        /\ \/ local'[w] = local[w] /\ at'[w] \in Idle
           \/ /\ local[w].seen # Signal /\ ~pool.stop /\ local'[w].seen = Signal
              /\ IF w < pool.active
                 THEN at'[w] = "share" /\ local'[w].stages = Graph.stages /\ local'[w].stage = 1
                 ELSE at'[w] \in Idle
    BY <1>2, Idles
  <2>2. at'[w] \in Idle /\ (w < pool.active => local'[w] = local[w])
    BY <1>1, <2>1
  <2>3. Signal' = Signal /\ at'[0] = at[0]
    BY <1>0, <2>1 DEF Signal
  <2>4. ASSUME NEW u \in Workers
        PROVE  /\ Left(u)'
               /\ u < pool'.active => /\ local'[u].seen = Signal'
                                      /\ at'[u] = "spin" => local'[u].passed # pool'.n_passed
    <3>1. CASE u = w
      BY <1>1, <2>1, <2>2, <2>3, <3>1 DEF Left, Idle
    <3>2. CASE u # w
      BY <2>1, <2>3, <3>2 DEF Resting, Left, Workers
    <3> QED  BY <3>1, <3>2
  <2> QED  BY <2>1, <2>3, <2>4 DEF Resting
<1>3. CASE Spin(w)
  <2>1. /\ at[w] = "spin" /\ pool' = pool /\ splits' = splits /\ Advance(w)
    BY <1>3 DEF Spin
  <2>2. local[w].stage + 1 \notin DOMAIN local[w].stages
    BY <1>1, <2>1 DEF Left, Idle
  <2>3. /\ \A u \in Threads \ {w} : at'[u] = at[u] /\ local'[u] = local[u]
        /\ local'[w].seen = local[w].seen /\ at'[w] = "top"
    BY <1>0, <2>1, <2>2, Advances
  <2>4. Signal' = Signal /\ at'[0] = at[0]
    BY <1>0, <2>1, <2>3 DEF Signal
  <2>5. ASSUME NEW u \in Workers
        PROVE  /\ Left(u)'
               /\ u < pool'.active => /\ local'[u].seen = Signal'
                                      /\ at'[u] = "spin" => local'[u].passed # pool'.n_passed
    <3>1. CASE u = w
      BY <1>1, <2>1, <2>3, <2>4, <3>1 DEF Left, Idle
    <3>2. CASE u # w
      BY <2>1, <2>3, <2>4, <3>2 DEF Resting, Left, Workers
    <3> QED  BY <3>1, <3>2
  <2> QED  BY <2>1, <2>4, <2>5 DEF Resting
<1>4. at[w] \notin Working
  BY <1>1 DEF Left, Idle, Working
<1> QED  BY <1>2, <1>3, <1>4 DEF WorkerStep, ComputeStep, IdleStep, Working, Share, Chunk, Enter,
         Arrive, Zero, Release

\* A share that is computed counts for its thread.
LEMMA Counting ==
  ASSUME PoolTyped, NEW t \in Threads, Here(t), t \in Nat, \A u \in Threads : u \in Nat,
         made' = [made EXCEPT ![local[t].stage][t + 1] = @ + 1]
  PROVE  /\ Stage = 1 => Counts(t)'
         /\ \A u \in Threads \ {t} : Counts(u)' = Counts(u)
<1>1. local[t].stage = Stage /\ DOMAIN made' = DOMAIN made
  BY DEF Here
<1>2. CASE Stage = 1 /\ 1 \in DOMAIN made
  <2>1. made'[1] = [made[1] EXCEPT ![t + 1] = @ + 1]
    BY <1>1, <1>2
  <2>2. t + 1 \in DOMAIN made[1] => made'[1][t + 1] = made[1][t + 1] + 1 /\ made[1][t + 1] \in Nat
    BY <1>2, <2>1 DEF PoolTyped, Counted
  <2>3. \A u \in Threads \ {t} : u + 1 # t + 1
    OBVIOUS
  <2>4. Counts(t)'
    BY <1>2, <2>1, <2>2 DEF Counts
  <2>5. \A u \in Threads \ {t} : Counts(u)' = Counts(u)
    BY <1>1, <2>1, <2>3 DEF Counts
  <2> QED  BY <2>4, <2>5
<1>3. CASE Stage # 1 \/ 1 \notin DOMAIN made
  <2>1. 1 \in DOMAIN made => made'[1] = made[1]
    BY <1>1, <1>3
  <2> QED  BY <1>1, <1>3, <2>1 DEF Counts
<1> QED  BY <1>2, <1>3

\* A thread computes its share of a stage.
LEMMA SharesMove ==
  ASSUME PoolTyped, Sized, Meeting, NEW t \in Threads, Share(t)
  PROVE  /\ Resting' \/ Meeting'
         /\ IF pool.active = 1 THEN OnNext ELSE Meeting' /\ Kept(t) /\ Past(t)'
<1>1. /\ at[t] = "share" /\ Meet(t) /\ splits' = splits
      /\ pool' = [pool EXCEPT !.current_chunk = pool.active] \/ pool' = pool
      /\ made' = [made EXCEPT ![local[t].stage][t + 1] = @ + 1]
  BY DEF Share, Compute
<1>2. /\ pool'.n_passed = pool.n_passed /\ pool'.n_graph = pool.n_graph
      /\ pool'.active = pool.active /\ pool'.live = pool.live /\ pool'.stop = pool.stop
      /\ pool'.n_barrier = pool.n_barrier
  BY <1>1 DEF PoolTyped, Pools, Locals
<1>3. CASE pool.active = 1
  <2>1. Advance(t)
    BY <1>1, <1>3 DEF Meet
  <2> QED  BY <1>1, <1>2, <1>3, <2>1, AloneOnward
<1>4. CASE pool.active # 1
  <2>1. Go(t, "enter") /\ local' = local
    BY <1>1, <1>4 DEF Meet
  <2>2. at'[t] = "enter" /\ \A u \in Threads \ {t} : at'[u] = at[u]
    BY <2>1, Going
  <2>3. Here(t) /\ t \in Nat /\ \A u \in Threads : u \in Nat
    BY <1>1, AtWork, PoolKinds DEF Working
  <2>4. /\ Stage = 1 => Counts(t)'
        /\ \A u \in Threads \ {t} : Counts(u)' = Counts(u)
    BY <1>1, <2>3, Counting
  <2>5. Meeting' /\ Kept(t) /\ Here(t)'
    BY <1>1, <1>2, <2>1, <2>2, <2>4, InsideStage
  <2> QED  BY <1>4, <2>2, <2>5 DEF Past
<1> QED  BY <1>3, <1>4

\* A thread computes a chunk and takes the next one, or is done with the product.
LEMMA ChunksMove ==
  ASSUME PoolTyped, Sized, Meeting, NEW t \in Threads, Chunk(t)
  PROVE  /\ Resting' \/ Meeting'
         /\ IF local[t].chunk < local[t].stages[local[t].stage]
               /\ pool.active < local[t].stages[local[t].stage]
            THEN Meeting' /\ Kept(t) /\ ~Past(t)' /\ Mine(t)' = pool.current_chunk
            ELSE IF pool.active = 1 THEN OnNext ELSE Meeting' /\ Kept(t) /\ Past(t)'
<1> DEFINE chunks == local[t].stages[local[t].stage]
<1>0. DOMAIN local = Threads /\ local[t] \in [seen : Nat \X Nat, stages : Seq(Nat), stage : Nat,
                                              chunk : Nat, passed : Nat]
  BY DEF PoolTyped, Pools, Locals
<1>1. /\ at[t] = "chunk" /\ splits' = splits
      /\ made' = made \/ \E p : made' = [made EXCEPT ![local[t].stage][p] = @ + 1]
  BY DEF Chunk, Compute
<1>2. Here(t) /\ Stage # 1 /\ local[t].stage = Stage /\ local[t].stages = Graph.stages
      /\ Stage \in DOMAIN Graph.stages
  BY <1>1, AtWork, FirstIsShared DEF Here, Joined, Product, Working, Meeting
<1>3. \A u \in Threads : Counts(u)' = Counts(u)
  BY <1>1, <1>2 DEF Counts
<1>4. chunks \in Nat /\ pool.active \in Nat
  <2>1. Graph.stages \in Seq(Nat)
    BY Tasks DEF Meeting
  <2> QED  BY <1>2, <2>1, LenProperties, ElementOfSeq, PoolKinds
<1>5. CASE local[t].chunk < chunks /\ pool.active < chunks
  <2>1. /\ pool' = [pool EXCEPT !.current_chunk = @ + 1] /\ at' = at
        /\ local' = [local EXCEPT ![t].chunk = pool.current_chunk]
    BY <1>4, <1>5 DEF Chunk
  <2>2. /\ pool'.n_passed = pool.n_passed /\ pool'.n_graph = pool.n_graph
        /\ pool'.active = pool.active /\ pool'.live = pool.live /\ pool'.stop = pool.stop
        /\ pool'.n_barrier = pool.n_barrier
    BY <2>1 DEF PoolTyped, Pools, Locals
  <2>3. local'[t] = [local[t] EXCEPT !.chunk = pool.current_chunk]
        /\ \A u \in Threads \ {t} : local'[u] = local[u]
    BY ONLY <1>0, <2>1
  <2>4. /\ local'[t].seen = local[t].seen /\ local'[t].stages = local[t].stages
        /\ local'[t].stage = local[t].stage /\ local'[t].chunk = pool.current_chunk
    BY ONLY <1>0, <2>3
  <2>5. Meeting' /\ Kept(t)
    BY <1>1, <1>2, <1>3, <2>1, <2>2, <2>3, <2>4, InsideStage
  <2>6. ~Past(t)' /\ Mine(t)' = pool.current_chunk
    BY <1>1, <2>1, <2>4 DEF Past, Mine
  <2> QED  BY <1>5, <2>5, <2>6
<1>6. CASE ~(local[t].chunk < chunks /\ pool.active < chunks)
  <2>1. Meet(t) /\ pool' = pool
    BY <1>4, <1>6 DEF Chunk
  <2>2. CASE pool.active = 1
    <3>1. Advance(t)
      BY <2>1, <2>2 DEF Meet
    <3> QED  BY <1>1, <1>6, <2>1, <2>2, <3>1, AloneOnward
  <2>3. CASE pool.active # 1
    <3>1. Go(t, "enter") /\ local' = local
      BY <2>1, <2>3 DEF Meet
    <3>2. at'[t] = "enter" /\ \A u \in Threads \ {t} : at'[u] = at[u]
      BY <3>1, Going
    <3>3. Meeting' /\ Kept(t) /\ Here(t)'
      BY <1>1, <1>2, <1>3, <2>1, <3>1, <3>2, InsideStage
    <3> QED  BY <1>6, <2>3, <3>2, <3>3 DEF Past
  <2> QED  BY <2>2, <2>3
<1> QED  BY <1>5, <1>6

\* A thread looks at the barrier's turn before it goes in.
LEMMA EntersMove ==
  ASSUME PoolTyped, Sized, Meeting, NEW t \in Threads, Enter(t)
  PROVE  Meeting' /\ Kept(t) /\ Here(t)'
<1>0. DOMAIN local = Threads /\ local[t] \in [seen : Nat \X Nat, stages : Seq(Nat), stage : Nat,
                                              chunk : Nat, passed : Nat]
  BY DEF PoolTyped, Pools, Locals
<1>1. /\ at[t] = "enter" /\ Go(t, "arrive") /\ pool' = pool /\ splits' = splits
      /\ local' = [local EXCEPT ![t].passed = pool.n_passed] /\ made' = made
  BY DEF Enter
<1>2. at'[t] = "arrive" /\ \A u \in Threads \ {t} : at'[u] = at[u]
  BY <1>1, Going
<1>3. local'[t] = [local[t] EXCEPT !.passed = pool.n_passed]
      /\ \A u \in Threads \ {t} : local'[u] = local[u]
  BY ONLY <1>0, <1>1
<1>4. /\ local'[t].seen = local[t].seen /\ local'[t].stages = local[t].stages
      /\ local'[t].stage = local[t].stage /\ local'[t].passed = pool.n_passed
  BY ONLY <1>0, <1>3
<1>5. /\ Stage = 1 => Counts(t)'
      /\ \A u \in Threads : Counts(u)' = Counts(u)
  <2>1. Here(t)
    BY <1>1, AtWork DEF Working
  <2> QED  BY <1>1, <2>1 DEF Counts, Here
<1> QED  BY <1>1, <1>2, <1>3, <1>4, <1>5, InsideStage

\* One step of the computation.
LEMMA Computes ==
  ASSUME PoolTyped, Sized, Meeting, NEW t \in Threads, ComputeStep(t)
  PROVE  Resting' \/ Meeting'
BY SharesMove, ChunksMove, EntersMove, Arrives, Zeroes, Releases, Spins DEF ComputeStep

\* A broadcast leaves every worker where it was with respect to the graph.
LEMMA Wakes ==
  ASSUME PoolTyped, NEW step, at' = [Woken EXCEPT ![0] = step]
  PROVE  /\ at'[0] = step /\ DOMAIN at' = Threads
         /\ \A w \in Workers : /\ (at[w] = "asleep" /\ at'[w] = "lock") \/ at'[w] = at[w]
                               /\ at[w] \in Idle => at'[w] \in Idle
                               /\ at'[w] = "spin" => at[w] = "spin"
<1>1. DOMAIN at = Threads /\ 0 \in Threads /\ \A w \in Workers : w \in Threads /\ w # 0
  BY PoolKinds DEF PoolTyped, Pools, Locals, Workers
<1>2. \A t \in Threads : Woken[t] = IF at[t] = "asleep" THEN "lock" ELSE at[t]
  BY DEF Woken
<1>3. \A w \in Workers : at'[w] = IF at[w] = "asleep" THEN "lock" ELSE at[w]
  BY <1>1, <1>2 DEF Woken
<1> QED  BY <1>1, <1>3 DEF Woken, Idle

\* The caller announces a graph.
LEMMA Kicks ==
  ASSUME PoolTyped, Sized, Resting, Kickoff
  PROVE  Meeting'
<1>1. /\ at[0] = "kickoff" /\ splits' = splits /\ splits # <<>> /\ pool.live /\ ~pool.stop
      /\ pool' = [pool EXCEPT !.n_graph = (@ + 1) % CounterWrap, !.active = TasksOf(pool.size)]
      /\ local' = [local EXCEPT ![0].stages = Graph.stages, ![0].stage = 1]
      /\ at' = [Woken EXCEPT ![0] = "share"] /\ pool.n_barrier = 0
  BY DEF Kickoff, Announce, Resting
<1>2. /\ pool'.active = TasksOf(pool.size) /\ pool'.live /\ ~pool'.stop /\ pool'.n_barrier = 0
  BY <1>1 DEF PoolTyped, Pools, Locals
<1>3. pool'.active \in 1..pool.size /\ pool.size \in 0..MaxThreads
  <2>1. pool.size \in 0..MaxThreads
    BY DEF PoolTyped, Pools, Locals
  <2>2. pool.size \in Nat \ {0}
    BY <1>1, <2>1 DEF Sized
  <2> QED  BY <1>1, <1>2, <2>1, <2>2, Tasks
<1>4. /\ local'[0].stages = Graph.stages /\ local'[0].stage = 1 /\ 0 \in Threads
      /\ \A w \in Workers : local'[w] = local[w] /\ w # 0 /\ w \in Threads
  <2>1. DOMAIN local = Threads /\ 0 \in Threads
        /\ local[0] \in [seen : Nat \X Nat, stages : Seq(Nat), stage : Nat, chunk : Nat, passed : Nat]
    BY PoolKinds DEF PoolTyped, Pools, Locals
  <2>2. local'[0] = [local[0] EXCEPT !.stages = Graph.stages, !.stage = 1]
        /\ \A w \in Threads \ {0} : local'[w] = local[w]
    BY ONLY <1>1, <2>1
  <2> QED  BY <2>1, <2>2 DEF Workers
<1>5. /\ at'[0] = "share" /\ \A w \in Workers : /\ at[w] \in Idle => at'[w] \in Idle
                                                /\ at'[w] = at[w] \/ at[w] \in Idle
  <2>1. /\ at'[0] = "share"
        /\ \A w \in Workers : /\ (at[w] = "asleep" /\ at'[w] = "lock") \/ at'[w] = at[w]
                              /\ at[w] \in Idle => at'[w] \in Idle
    BY <1>1, Wakes
  <2> QED  BY <2>1 DEF Idle
<1>6. Stage' = 1 /\ Graph' = Graph
  BY <1>1, <1>4, <1>5 DEF Stage, Graph
<1>7. ~Over'
  BY <1>6 DEF Over
<1>8. Here(0)'
  BY <1>1, <1>4, <1>5, <1>6, <1>7, FirstIsShared DEF Here, Joined, Working, Product
<1>9. \A w \in Workers : Left(w)'
  BY <1>4, <1>5 DEF Resting, Left
<1>10. \A t \in Threads : Place(t)'
  BY <1>6, <1>8, <1>9 DEF Place, Late, Workers
<1>11. \A t \in Threads : ~Last(t)' /\ at'[t] # "release"
  <2>1. \A w \in Workers : ~Last(w)'
    BY <1>9 DEF Last, Left, Idle
  <2> QED  BY <1>5, <2>1 DEF Last, Workers
<1>12. Barrier'
  <2>1. {u \in Active' : Waiting(u)'} \in SUBSET Threads
    BY <1>3, PoolAssumption DEF Active, Threads
  <2>2. Cardinality({u \in Active' : Waiting(u)'}) >= 0
    BY <2>1, WaitersGrow
  <2> QED  BY <1>2, <1>7, <1>11, <2>2 DEF Barrier
<1>13. InGraph' /\ local'[0].stage > 0
  BY <1>4, <1>5 DEF InGraph, Working
<1> QED  BY <1>1, <1>2, <1>3, <1>10, <1>12, <1>13, PoolKinds DEF Meeting

\* What the caller does around a graph.
LEMMA CallerRests ==
  ASSUME PoolTyped, Sized, Resting, NEW n \in Nat \ {0}, Reset(n) \/ Computed \/ FreePool
  PROVE  Resting'
<1>0. DOMAIN at = Threads /\ 0 \in Threads /\ \A w \in Workers : w \in Threads /\ w # 0
  BY PoolKinds DEF PoolTyped, Pools, Locals, Workers
<1>1. CASE Reset(n) /\ pool.live
  <2>1. /\ at[0] = "reset" /\ pool' = [pool EXCEPT !.current_chunk = 0] /\ Go(0, "kickoff")
        /\ local' = local /\ splits' = splits
    BY <1>1 DEF Reset
  <2>2. at'[0] = "kickoff" /\ \A w \in Workers : at'[w] = at[w]
    BY <1>0, <2>1, Going
  <2>3. /\ pool'.n_passed = pool.n_passed /\ pool'.n_graph = pool.n_graph
        /\ pool'.active = pool.active /\ pool'.live = pool.live /\ pool'.stop = pool.stop
        /\ pool'.n_barrier = pool.n_barrier
    BY <2>1 DEF PoolTyped, Pools, Locals
  <2> QED  BY <1>1, <2>1, <2>2, <2>3 DEF Resting, Left, Signal
<1>2. CASE Reset(n) /\ ~pool.live
  <2>1. Spawn(TasksOf(n), FALSE, "kickoff") /\ splits' = splits /\ splits # <<>>
    BY <1>2 DEF Reset, Resting
  <2>2. pool' = NewPool(TasksOf(n), FALSE) /\ at'[0] = "kickoff"
        /\ \A w \in Workers : at'[w] \in {"top", "none"}
    BY <1>0, <2>1 DEF Spawn
  <2>3. pool'.live /\ ~pool'.stop /\ pool'.n_barrier = 0 /\ pool'.active = 0
    BY <2>2 DEF NewPool, NoPool
  <2>4. \A w \in Workers : ~(w < 0)
    BY PoolKinds DEF Workers
  <2> QED  BY <2>1, <2>2, <2>3, <2>4 DEF Resting, Left, Idle
<1>3. CASE Computed /\ pool.shared
  <2>1. /\ at[0] = "computed" /\ splits' = Tail(splits) /\ local' = local /\ pool' = pool
        /\ Go(0, IF Tail(splits) = <<>> THEN "none" ELSE "reset")
    BY <1>3 DEF Computed
  <2>2. at'[0] = (IF splits' = <<>> THEN "none" ELSE "reset") /\ \A w \in Workers : at'[w] = at[w]
    BY <1>0, <2>1, Going
  <2> QED  BY <2>1, <2>2 DEF Resting, Left, Signal
<1>4. CASE Computed /\ ~pool.shared
  <2>1. /\ at[0] = "computed" /\ local' = local /\ pool' = [pool EXCEPT !.stop = TRUE]
        /\ at' = [Woken EXCEPT ![0] = "join"]
    BY <1>4 DEF Computed
  <2>2. /\ at'[0] = "join"
        /\ \A w \in Workers : /\ (at[w] = "asleep" /\ at'[w] = "lock") \/ at'[w] = at[w]
                              /\ at[w] \in Idle => at'[w] \in Idle
    BY <2>1, Wakes
  <2>3. /\ pool'.n_passed = pool.n_passed /\ pool'.n_graph = pool.n_graph
        /\ pool'.active = pool.active /\ pool'.live = pool.live /\ pool'.n_barrier = pool.n_barrier
    BY <2>1 DEF PoolTyped, Pools, Locals
  <2> QED  BY <2>1, <2>2, <2>3 DEF Resting, Left, Signal
<1>5. CASE FreePool
  <2>1. /\ pool' = NoPool /\ splits' = splits /\ at'[0] = IF splits # <<>> THEN "reset" ELSE "none"
        /\ \A w \in Workers : at'[w] = "none"
    BY <1>0, <1>5 DEF FreePool
  <2>2. ~pool'.stop /\ pool'.n_barrier = 0 /\ pool'.active = 0
    BY <2>1 DEF NoPool
  <2>3. \A w \in Workers : ~(w < 0)
    BY PoolKinds DEF Workers
  <2> QED  BY <2>1, <2>2, <2>3 DEF Resting, Left, Idle
<1> QED  BY <1>1, <1>2, <1>3, <1>4, <1>5

\* Giving the pool up.
LEMMA DismissRests ==
  ASSUME PoolTyped, Resting, pool.live, Dismiss
  PROVE  Resting'
<1>1. /\ local' = local /\ splits' = splits /\ pool' = [pool EXCEPT !.stop = TRUE]
      /\ at' = [Woken EXCEPT ![0] = "join"]
  BY DEF Dismiss
<1>2. /\ at'[0] = "join"
      /\ \A w \in Workers : /\ (at[w] = "asleep" /\ at'[w] = "lock") \/ at'[w] = at[w]
                            /\ at[w] \in Idle => at'[w] \in Idle
  BY <1>1, Wakes
<1>3. /\ pool'.n_passed = pool.n_passed /\ pool'.n_graph = pool.n_graph
      /\ pool'.active = pool.active /\ pool'.live = pool.live /\ pool'.n_barrier = pool.n_barrier
  BY <1>1 DEF PoolTyped, Pools, Locals
<1> QED  BY <1>1, <1>2, <1>3 DEF Resting, Left, Signal

\* Making a pool for a context.
LEMMA SpawnRests ==
  ASSUME PoolTyped, NEW n, Spawn(n, TRUE, "none"), UNCHANGED splits
  PROVE  Resting'
<1>1. pool' = NewPool(n, TRUE) /\ at'[0] = "none" /\ \A w \in Workers : at'[w] \in {"top", "none"}
  BY PoolKinds DEF Spawn, Workers
<1>2. pool'.live /\ ~pool'.stop /\ pool'.n_barrier = 0 /\ pool'.active = 0
  BY <1>1 DEF NewPool, NoPool
<1>3. \A w \in Workers : ~(w < 0)
  BY PoolKinds DEF Workers
<1> QED  BY <1>1, <1>2, <1>3 DEF Resting, Left, Idle

\* Every step of the pool leaves it at rest or in a graph.
LEMMA PoolSteps ==
  ASSUME PoolTyped, Sized, Resting \/ Meeting, NEW n \in Nat \ {0},
         CallerStep(n) \/ \E w \in Workers : WorkerStep(w) \/ Spurious(w)
  PROVE  Resting' \/ Meeting'
<1>1. CASE Resting
  <2>1. CASE \E w \in Workers : WorkerStep(w) \/ Spurious(w)
    BY <1>1, <2>1, WorkersRest
  <2>2. CASE CallerStep(n)
    <3>1. ~ComputeStep(0)
      BY <1>1 DEF Resting, ComputeStep, Share, Chunk, Enter, Arrive, Zero, Release, Spin
    <3> QED  BY <1>1, <2>2, <3>1, CallerRests, Kicks DEF CallerStep
  <2> QED  BY <2>1, <2>2
<1>2. CASE Meeting
  <2>1. ASSUME NEW w \in Workers, WorkerStep(w) \/ Spurious(w) PROVE Resting' \/ Meeting'
    <3>1. w \in Threads
      BY DEF Workers
    <3> QED  BY <1>2, <2>1, <3>1, IdleMeets, Computes DEF WorkerStep, IdleStep
  <2>2. CASE CallerStep(n)
    <3>1. ~Reset(n) /\ ~Kickoff /\ ~Computed /\ ~FreePool
      BY <1>2 DEF Meeting, InGraph, Working, Reset, Kickoff, Announce, Computed, FreePool
    <3> QED  BY <1>2, <2>2, <3>1, Computes, PoolKinds DEF CallerStep
  <2> QED  BY <2>1, <2>2
<1> QED  BY <1>1, <1>2

\* A count that goes up is one.
LEMMA CountedOn ==
  ASSUME Counted(made), NEW s, NEW p, made' = [made EXCEPT ![s][p] = @ + 1]
  PROVE  Counted(made')
<1> DEFINE e == [made[s] EXCEPT ![p] = @ + 1]
<1>1. made' = [r \in DOMAIN made |-> IF r = s THEN e ELSE made[r]]
  OBVIOUS
<1>2. made' = [r \in DOMAIN made' |-> made'[r]]
  <2> HIDE DEF e
  <2> QED  BY ONLY <1>1
<1>3. ASSUME NEW r \in DOMAIN made', NEW q \in DOMAIN made'[r] PROVE made'[r][q] \in Nat
  <2>1. \A q2 \in DOMAIN made[r] : made[r][q2] \in Nat
    BY <1>1 DEF Counted
  <2> QED  BY <1>1, <2>1
<1> QED  BY <1>2, <1>3 DEF Counted

\* A computing thread keeps the pool's kinds, its size and its threads.
LEMMA ComputesTyped ==
  ASSUME PoolTyped, NEW t \in Threads, ComputeStep(t)
  PROVE  /\ PoolTyped' /\ at[t] # "none" /\ splits' = splits
         /\ pool'.active = pool.active /\ pool'.size = pool.size /\ pool'.live = pool.live
<1>0. /\ pool \in Pools /\ DOMAIN at = Threads /\ local \in [Threads -> Locals]
      /\ splits \in Seq(Graphs) /\ local[t] \in Locals
  BY DEF PoolTyped
<1>a. t \in Nat /\ CounterWrap \in Nat \ {0}
  BY PoolKinds, PoolAssumption
<1>m. Counted(made')
  <2>1. made' = made \/ \E s, p : made' = [made EXCEPT ![s][p] = @ + 1]
    BY DEF ComputeStep, Share, Chunk, Enter, Arrive, Zero, Release, Spin, Compute
  <2> QED  BY <2>1, CountedOn DEF PoolTyped
<1>1. Advance(t) => local' \in [Threads -> Locals] /\ DOMAIN at' = Threads
  <2> SUFFICES ASSUME Advance(t) PROVE local' \in [Threads -> Locals] /\ DOMAIN at' = Threads
    OBVIOUS
  <2>1. CASE local[t].stage + 1 \in DOMAIN local[t].stages
    <3>1. local' = [local EXCEPT ![t].stage = local[t].stage + 1, ![t].chunk = t, ![t].passed = 0]
      BY <2>1 DEF Advance
    <3>2. [local[t] EXCEPT !.stage = local[t].stage + 1, !.chunk = t, !.passed = 0] \in Locals
      <4>1. local[t] \in Locals /\ t \in Nat /\ local[t].stage + 1 \in Nat
        BY <1>0, <1>a, PoolKinds
      <4> QED  BY ONLY <4>1 DEF Locals
    <3>3. local' \in [Threads -> Locals]
      BY ONLY <1>0, <3>1, <3>2
    <3> QED  BY <3>3, Advances
  <2>2. CASE local[t].stage + 1 \notin DOMAIN local[t].stages
    <3>1. local' = [local EXCEPT ![t] = [NoLocal EXCEPT !.seen = local[t].seen]]
      BY <2>2 DEF Advance
    <3>2. [NoLocal EXCEPT !.seen = local[t].seen] \in Locals
      <4>1. local[t].seen \in Nat \X Nat
        BY <1>0 DEF Locals
      <4>2. <<>> \in Seq(Nat) /\ <<0, 0>> \in Nat \X Nat /\ 0 \in Nat
        OBVIOUS
      <4> QED  BY ONLY <4>1, <4>2 DEF NoLocal, Locals
    <3>3. local' \in [Threads -> Locals]
      BY ONLY <1>0, <3>1, <3>2
    <3> QED  BY <3>3, Advances
  <2> QED  BY <2>1, <2>2
<1>2. Meet(t) => local' \in [Threads -> Locals] /\ DOMAIN at' = Threads
  BY <1>0, <1>1, Going DEF Meet
<1>3. CASE Share(t)
  <2>1. /\ at[t] = "share" /\ Meet(t) /\ splits' = splits
        /\ pool' = [pool EXCEPT !.current_chunk = pool.active] \/ pool' = pool
    BY <1>3 DEF Share
  <2>2. /\ pool' \in Pools /\ pool'.active = pool.active /\ pool'.size = pool.size
        /\ pool'.live = pool.live
    BY ONLY <1>0, <2>1 DEF Pools
  <2> QED  BY <1>m, <1>0, <1>2, <2>1, <2>2 DEF PoolTyped
<1>4. CASE Chunk(t)
  <2>1. at[t] = "chunk" /\ splits' = splits
    BY <1>4 DEF Chunk
  <2>2. CASE Meet(t) /\ pool' = pool
    BY <1>m, <1>0, <1>2, <2>1, <2>2 DEF PoolTyped
  <2>3. CASE /\ at' = at /\ pool' = [pool EXCEPT !.current_chunk = @ + 1]
             /\ local' = [local EXCEPT ![t].chunk = pool.current_chunk]
    <3>1. /\ pool' \in Pools /\ pool'.active = pool.active /\ pool'.size = pool.size
          /\ pool'.live = pool.live
      BY ONLY <1>0, <2>3 DEF Pools
    <3>2. local' \in [Threads -> Locals]
      <4>1. [local[t] EXCEPT !.chunk = pool.current_chunk] \in Locals
        BY <1>0 DEF Locals, Pools
      <4> QED  BY ONLY <1>0, <2>3, <4>1
    <3> QED  BY <1>m, <1>0, <2>1, <2>3, <3>1, <3>2 DEF PoolTyped
  <2> QED  BY <1>4, <2>2, <2>3 DEF Chunk
<1>5. CASE Enter(t)
  <2>1. /\ at[t] = "enter" /\ Go(t, "arrive") /\ pool' = pool /\ splits' = splits
        /\ local' = [local EXCEPT ![t].passed = pool.n_passed]
    BY <1>5 DEF Enter
  <2>2. [local[t] EXCEPT !.passed = pool.n_passed] \in Locals
    BY <1>0 DEF Locals, Pools
  <2>3. local' \in [Threads -> Locals]
    BY <1>0, <2>1, <2>2
  <2> QED  BY <1>m, <1>0, <2>1, <2>3, Going DEF PoolTyped
<1>6. CASE Arrive(t)
  <2>1. /\ at[t] = "arrive" /\ pool' = [pool EXCEPT !.n_barrier = @ + 1] /\ local' = local
        /\ splits' = splits /\ DOMAIN at' = Threads
    BY <1>6, Going DEF Arrive
  <2>2. /\ pool' \in Pools /\ pool'.active = pool.active /\ pool'.size = pool.size
        /\ pool'.live = pool.live
    BY ONLY <1>0, <2>1 DEF Pools
  <2> QED  BY <1>m, <1>0, <2>1, <2>2 DEF PoolTyped
<1>7. CASE Zero(t)
  <2>1. /\ at[t] = "zero" /\ pool' = [pool EXCEPT !.n_barrier = 0] /\ local' = local
        /\ splits' = splits /\ DOMAIN at' = Threads
    BY <1>7, Going DEF Zero
  <2>2. /\ pool' \in Pools /\ pool'.active = pool.active /\ pool'.size = pool.size
        /\ pool'.live = pool.live
    BY ONLY <1>0, <2>1 DEF Pools
  <2> QED  BY <1>m, <1>0, <2>1, <2>2 DEF PoolTyped
<1>8. CASE Release(t)
  <2>1. /\ at[t] = "release" /\ pool' = [pool EXCEPT !.n_passed = (@ + 1) % CounterWrap]
        /\ splits' = splits /\ Advance(t)
    BY <1>8 DEF Release
  <2>2. (pool.n_passed + 1) % CounterWrap \in Nat
    BY <1>0, <1>a DEF Pools
  <2>3. /\ pool' \in Pools /\ pool'.active = pool.active /\ pool'.size = pool.size
        /\ pool'.live = pool.live
    BY ONLY <1>0, <2>1, <2>2 DEF Pools
  <2> QED  BY <1>m, <1>0, <1>1, <2>1, <2>3 DEF PoolTyped
<1>9. CASE Spin(t)
  BY <1>m, <1>0, <1>1, <1>9 DEF Spin, PoolTyped
<1> QED  BY <1>3, <1>4, <1>5, <1>6, <1>7, <1>8, <1>9 DEF ComputeStep

\* So does a worker between graphs.
LEMMA IdlesTyped ==
  ASSUME PoolTyped, Resting \/ Meeting, NEW w \in Workers, IdleStep(w)
  PROVE  PoolTyped' /\ pool' = pool /\ splits' = splits /\ made' = made
<1>0. w \in Threads /\ local \in [Threads -> Locals] /\ Signal \in Nat \X Nat
  BY DEF Workers, PoolTyped, Signal, Pools
<1>1. pool' = pool /\ splits' = splits /\ made' = made /\ DOMAIN at' = Threads
  BY Idles
<1>2. local' \in [Threads -> Locals]
  <2>1. CASE local' = local
    BY <1>0, <2>1
  <2>2. CASE Poll(w) \/ Lock(w)
    <3>1. PICK idle : Notice(w, Ready(w), idle) /\ at[w] \in Idle
      BY <2>2 DEF Poll, Lock, Idle
    <3>2. CASE Ready(w) /\ ~pool.stop
      <4> DEFINE mine == w < pool.active
                 stages == IF mine THEN Graph.stages ELSE <<>>
                 stage == IF mine THEN 1 ELSE 0
      <4>1. local' = [local EXCEPT ![w].seen = Signal, ![w].stages = stages, ![w].stage = stage]
        BY <3>1, <3>2 DEF Notice
      <4>2. stages \in Seq(Nat) /\ stage \in Nat
        <5>1. mine => splits # <<>>
          BY <3>1, <3>2 DEF Resting, Meeting, Ready
        <5>2. mine => Graph.stages \in Seq(Nat)
          BY <5>1, Tasks
        <5> QED  BY <5>2
      <4> HIDE DEF mine, stages, stage
      <4>3. [local[w] EXCEPT !.seen = Signal, !.stages = stages, !.stage = stage] \in Locals
        BY ONLY <1>0, <4>2 DEF Locals
      <4> QED  BY ONLY <1>0, <4>1, <4>3
    <3>3. CASE ~(Ready(w) /\ ~pool.stop)
      BY <1>0, <3>1, <3>3 DEF Notice
    <3> QED  BY <3>2, <3>3
  <2> QED  BY <2>1, <2>2 DEF IdleStep, Top, Spurious
<1> QED  BY <1>1, <1>2 DEF PoolTyped

\* A new pool is one for its threads.
LEMMA SpawnTyped ==
  ASSUME PoolTyped, NEW n \in 1..MaxThreads, NEW shared \in BOOLEAN, NEW step, Spawn(n, shared, step),
         UNCHANGED <<splits, made>>
  PROVE  PoolTyped' /\ Sized'
<1>1. pool' = NewPool(n, shared) /\ local' = [t \in Threads |-> NoLocal] /\ DOMAIN at' = Threads
  BY DEF Spawn
<1>2. pool' \in Pools /\ pool'.live /\ pool'.active = 0 /\ pool'.size = n
  <2>1. n \in 0..MaxThreads /\ 0 \in 0..MaxThreads /\ 0 \in Nat
    BY PoolAssumption
  <2> QED  BY ONLY <1>1, <2>1, shared \in BOOLEAN DEF NewPool, NoPool, Pools
<1>3. NoLocal \in Locals
  <2>1. <<>> \in Seq(Nat) /\ <<0, 0>> \in Nat \X Nat /\ 0 \in Nat
    OBVIOUS
  <2> QED  BY ONLY <2>1 DEF NoLocal, Locals
<1>4. PoolTyped'
  BY <1>1, <1>2, <1>3 DEF PoolTyped
<1> QED  BY <1>2, <1>4 DEF Sized

\* A pool that is given up keeps its kinds and its size.
LEMMA DismissTyped ==
  ASSUME PoolTyped, Sized, pool.live, pool' = [pool EXCEPT !.stop = TRUE], local' = local,
         DOMAIN at' = Threads, splits' \in Seq(Graphs), Counted(made')
  PROVE  PoolTyped' /\ Sized'
<1>1. pool' \in Pools /\ pool'.live = pool.live /\ pool'.active = pool.active /\ pool'.size = pool.size
  BY DEF PoolTyped, Pools
<1>2. PoolTyped'
  BY <1>1 DEF PoolTyped
<1> QED  BY <1>1, <1>2 DEF Sized

\* What the caller does around a graph keeps the kinds and sizes.
LEMMA CallerTyped ==
  ASSUME PoolTyped, Sized, Resting, NEW n \in 1..MaxThreads,
         Reset(n) \/ Kickoff \/ Computed \/ FreePool
  PROVE  PoolTyped' /\ Sized'
<1>0. /\ pool \in Pools /\ local \in [Threads -> Locals] /\ DOMAIN at = Threads /\ 0 \in Threads
      /\ splits \in Seq(Graphs) /\ Counted(made) /\ n \in Nat \ {0} /\ n <= MaxThreads
  BY PoolKinds DEF PoolTyped
<1>1. CASE Reset(n) /\ pool.live
  <2>1. /\ pool' = [pool EXCEPT !.current_chunk = 0] /\ Go(0, "kickoff")
        /\ local' = local /\ splits' = splits /\ made' = made
    BY <1>1 DEF Reset
  <2>2. pool' \in Pools /\ pool'.live = pool.live /\ pool'.active = pool.active /\ pool'.size = pool.size
    BY ONLY <1>0, <2>1 DEF Pools
  <2>3. PoolTyped'
    BY <1>0, <2>1, <2>2, Going DEF PoolTyped
  <2> QED  BY <1>1, <2>2, <2>3 DEF Sized
<1>2. CASE Reset(n) /\ ~pool.live
  <2>1. Spawn(TasksOf(n), FALSE, "kickoff") /\ UNCHANGED <<splits, made>> /\ splits # <<>>
    BY <1>2 DEF Reset, Resting
  <2>2. TasksOf(n) \in 1..MaxThreads
    <3>1. TasksOf(n) \in 1..n
      BY <1>0, <2>1, Tasks
    <3> QED  BY <1>0, <3>1, PoolAssumption
  <2> QED  BY <2>1, <2>2, SpawnTyped
<1>3. CASE Kickoff
  <2>1. /\ at[0] = "kickoff" /\ splits' = splits /\ splits # <<>> /\ pool.live
        /\ pool' = [pool EXCEPT !.n_graph = (@ + 1) % CounterWrap, !.active = TasksOf(pool.size)]
        /\ local' = [local EXCEPT ![0].stages = Graph.stages, ![0].stage = 1]
        /\ at' = [Woken EXCEPT ![0] = "share"]
    BY <1>3 DEF Kickoff, Announce, Resting
  <2>2. pool.size \in Nat \ {0} /\ pool.size \in 0..MaxThreads
    BY <1>0, <2>1 DEF Sized, Pools
  <2>3. TasksOf(pool.size) \in 1..pool.size /\ Graph.stages \in Seq(Nat)
    BY <2>1, <2>2, Tasks
  <2>4. TasksOf(pool.size) \in 0..MaxThreads /\ (pool.n_graph + 1) % CounterWrap \in Nat
    <3>1. pool.n_graph \in Nat /\ CounterWrap \in Nat \ {0} /\ MaxThreads \in Nat
      BY <1>0, PoolAssumption DEF Pools
    <3> QED  BY <2>2, <2>3, <3>1
  <2>5. pool' \in Pools /\ pool'.live = pool.live /\ pool'.active = TasksOf(pool.size)
        /\ pool'.size = pool.size
    BY ONLY <1>0, <2>1, <2>4 DEF Pools
  <2>6. local' \in [Threads -> Locals]
    <3>1. local[0] \in Locals
      BY <1>0
    <3>2. [local[0] EXCEPT !.stages = Graph.stages, !.stage = 1] \in Locals
      BY ONLY <2>3, <3>1 DEF Locals
    <3> QED  BY ONLY <1>0, <2>1, <3>2
  <2>a. Counted(made')
    BY <1>3 DEF Kickoff, Announce, Counted
  <2>7. PoolTyped'
    BY <1>0, <2>1, <2>5, <2>6, <2>a, Wakes DEF PoolTyped
  <2>8. pool'.active <= pool'.size
    BY <2>2, <2>3, <2>5
  <2> QED  BY <2>1, <2>2, <2>5, <2>7, <2>8 DEF Sized
<1>4. CASE Computed
  <2>1. at[0] = "computed" /\ local' = local /\ splits' = Tail(splits) /\ splits # <<>> /\ pool.live
    BY <1>4 DEF Computed, Resting
  <2>2. splits' \in Seq(Graphs) /\ Counted(made')
    BY <1>0, <1>4, <2>1 DEF Computed, Counted
  <2>3. CASE pool.shared
    <3>1. pool' = pool /\ Go(0, IF Tail(splits) = <<>> THEN "none" ELSE "reset")
      BY <1>4, <2>3 DEF Computed
    <3>2. PoolTyped'
      BY <1>0, <2>1, <2>2, <3>1, Going DEF PoolTyped
    <3> QED  BY <2>1, <3>1, <3>2 DEF Sized
  <2>4. CASE ~pool.shared
    <3>1. pool' = [pool EXCEPT !.stop = TRUE] /\ at' = [Woken EXCEPT ![0] = "join"]
      BY <1>4, <2>4 DEF Computed
    <3> QED  BY <2>1, <2>2, <3>1, Wakes, DismissTyped
  <2> QED  BY <2>3, <2>4
<1>5. CASE FreePool
  <2>1. /\ pool' = NoPool /\ splits' = splits /\ local' = [t \in Threads |-> NoLocal]
        /\ at' = [t \in Threads |-> IF t = 0 /\ splits # <<>> THEN "reset" ELSE "none"]
        /\ made' = made
    BY <1>5 DEF FreePool
  <2>2. NoPool \in Pools /\ ~NoPool.live /\ NoPool.active = 0 /\ NoPool.size = 0
    <3>1. 0 \in 0..MaxThreads
      BY PoolAssumption
    <3> QED  BY <3>1 DEF NoPool, Pools
  <2>3. NoLocal \in Locals
    <3>1. <<>> \in Seq(Nat) /\ <<0, 0>> \in Nat \X Nat /\ 0 \in Nat
      OBVIOUS
    <3> QED  BY ONLY <3>1 DEF NoLocal, Locals
  <2>4. PoolTyped'
    BY <1>0, <2>1, <2>2, <2>3 DEF PoolTyped
  <2> QED  BY <1>0, <2>1, <2>2, <2>4, PoolKinds DEF Sized, Workers
<1> QED  BY <1>1, <1>2, <1>3, <1>4, <1>5

\* Every step of the pool keeps its invariant.
LEMMA PoolKept ==
  ASSUME Pooled, NEW n \in 1..MaxThreads,
         CallerStep(n) \/ \E w \in Workers : WorkerStep(w) \/ Spurious(w)
  PROVE  Pooled'
<1>1. Resting' \/ Meeting'
  <2>1. n \in Nat \ {0}
    OBVIOUS
  <2> QED  BY <2>1, PoolSteps DEF Pooled
<1>2. ASSUME NEW t \in Threads, ComputeStep(t) PROVE PoolTyped' /\ Sized'
  <2>1. /\ PoolTyped' /\ at[t] # "none" /\ pool'.active = pool.active /\ pool'.size = pool.size
        /\ pool'.live = pool.live /\ at[t] # "reset"
    BY <1>2, ComputesTyped DEF Pooled, ComputeStep, Share, Chunk, Enter, Arrive, Zero, Release, Spin
  <2>2. pool.live
    BY <2>1, PoolKinds DEF Pooled, Sized
  <2> QED  BY <2>1, <2>2 DEF Sized, Pooled
<1>3. ASSUME NEW w \in Workers, IdleStep(w) PROVE PoolTyped' /\ Sized'
  <2>1. PoolTyped' /\ pool' = pool
    BY <1>3, IdlesTyped DEF Pooled
  <2>2. at[w] # "none"
    BY <1>3 DEF IdleStep, Top, Poll, Lock, Spurious
  <2> QED  BY <2>1, <2>2 DEF Pooled, Sized
<1>4. ASSUME NEW w \in Workers, WorkerStep(w) \/ Spurious(w) PROVE PoolTyped' /\ Sized'
  BY <1>2, <1>3, <1>4 DEF WorkerStep, IdleStep, Workers
<1>5. CASE CallerStep(n)
  <2>1. CASE Resting
    <3>1. ~ComputeStep(0)
      BY <2>1 DEF Resting, ComputeStep, Share, Chunk, Enter, Arrive, Zero, Release, Spin
    <3> QED  BY <1>1, <1>5, <2>1, <3>1, CallerTyped DEF CallerStep, Pooled
  <2>2. CASE Meeting
    <3>1. ~Reset(n) /\ ~Kickoff /\ ~Computed /\ ~FreePool
      BY <2>2 DEF Meeting, InGraph, Working, Reset, Kickoff, Announce, Computed, FreePool
    <3> QED  BY <1>1, <1>2, <1>5, <3>1, PoolKinds DEF CallerStep, Pooled
  <2> QED  BY <2>1, <2>2 DEF Pooled
<1> QED  BY <1>1, <1>4, <1>5 DEF Pooled

\* Nothing of the pool changes.
LEMMA PoolStays ==
  ASSUME Pooled, UNCHANGED poolVars
  PROVE  Pooled' /\ at' = at
<1>1. /\ pool' = pool /\ at' = at /\ local' = local /\ splits' = splits /\ made' = made
  BY DEF poolVars
<1>2. PoolTyped' /\ Sized'
  BY <1>1 DEF Pooled, PoolTyped, Sized
<1>3. Signal' = Signal /\ Graph' = Graph /\ Stage' = Stage /\ Active' = Active
  BY <1>1 DEF Signal, Graph, Stage, Active
<1>4. Resting => Resting'
  BY <1>1, <1>3 DEF Resting, Left
<1>5. Over' = Over
  BY <1>3 DEF Over
<1>6. \A t : /\ Here(t)' = Here(t) /\ Freed(t)' = Freed(t) /\ Late(t)' = Late(t) /\ Done(t)' = Done(t)
             /\ Left(t)' = Left(t) /\ Waiting(t)' = Waiting(t) /\ Last(t)' = Last(t)
  BY <1>1, <1>3, <1>5 DEF Here, Freed, Late, Done, Left, Waiting, Last, Joined, Product, Counts
<1>7. {t \in Active' : Waiting(t)'} = {t \in Active : Waiting(t)}
  BY <1>3, <1>6
<1>8. Barrier => Barrier'
  BY <1>1, <1>3, <1>5, <1>6, <1>7 DEF Barrier
<1>9. Meeting => Meeting'
  BY <1>1, <1>6, <1>8 DEF Meeting, InGraph, Place
<1> QED  BY <1>1, <1>2, <1>4, <1>9 DEF Pooled

\* A worker's step leaves the caller where it is.
LEMMA WorkersLeaveCaller ==
  ASSUME PoolTyped, NEW w \in Workers, WorkerStep(w) \/ Spurious(w)
  PROVE  at'[0] = at[0]
<1>1. w \in Threads /\ 0 \in Threads \ {w}
  BY PoolKinds DEF Workers
<1>2. CASE IdleStep(w)
  BY <1>1, <1>2, Idles
<1>3. CASE Advance(w)
  BY <1>1, <1>3, Advances
<1>4. ASSUME NEW step, Go(w, step) PROVE at'[0] = at[0]
  BY <1>1, <1>4, Going
<1>5. CASE ComputeStep(w)
  BY <1>3, <1>4, <1>5 DEF ComputeStep, Share, Chunk, Meet, Enter, Arrive, Zero, Release, Spin
<1> QED  BY <1>2, <1>5 DEF WorkerStep, IdleStep

\* The invariant is strong enough.
LEMMA PooledQuiet == Pooled => QuietPool
<1> SUFFICES ASSUME Pooled PROVE QuietPool
  OBVIOUS
<1>1. CASE Resting
  BY <1>1 DEF Pooled, Resting, Sized, QuietPool, Inside, Left, Idle
<1>2. CASE Meeting
  BY <1>2 DEF Meeting, InGraph, Working, QuietPool
<1> QED  BY <1>1, <1>2 DEF Pooled

(***************************************************************************)
(* What is computed of a graph: m counts the computations of each part, g  *)
(* are the stages, n the threads, s the stage, c the chunk counter, past   *)
(* the threads that are done with the stage, and mine the chunks that the  *)
(* others are about to compute.                                            *)
(***************************************************************************)
Team(n) == 0..(n - 1)

\* A stage that every thread does a share of.
Shares(m, n, s, past) ==
  /\ DOMAIN m[s] = 1..n
  /\ \A t \in Team(n) : m[s][t + 1] = IF t \in past THEN 1 ELSE 0

\* A product: the chunks below the counter are computed or in some thread's hands.
Chunks(m, g, n, s, c, past, mine) ==
  /\ DOMAIN m[s] = 1..g[s] /\ n <= c
  /\ \A t \in Team(n) : IF t \in past THEN g[s] <= c ELSE mine[t] \in Nat /\ mine[t] < c
  /\ \A t, u \in Team(n) \ past : mine[t] = mine[u] => t = u
  /\ \A p \in 1..g[s] :
       m[s][p] = IF p <= c /\ \A t \in Team(n) \ past : mine[t] + 1 # p THEN 1 ELSE 0

\* Earlier stages are complete, later ones not begun; the counter is set for a product
\* that comes next once the caller is done with the stage before.
Sheet(m, g, n, s, c, past, mine) ==
  /\ DOMAIN m = DOMAIN g
  /\ \A r \in DOMAIN m : r < s => NBN!Complete(m[r])
  /\ \A r \in DOMAIN m : r > s => /\ DOMAIN m[r] = 1..(IF g[r] = 0 THEN n ELSE g[r])
                                  /\ \A p \in DOMAIN m[r] : m[r][p] = 0
  /\ s \in DOMAIN g => IF g[s] > 0 THEN Chunks(m, g, n, s, c, past, mine) ELSE Shares(m, n, s, past)
  /\ s + 1 \in DOMAIN g /\ g[s + 1] > 0 /\ 0 \in past => c = n

\* A part that may be computed now.
Due(m, s, p) ==
  /\ s \in DOMAIN m /\ p \in DOMAIN m[s] /\ m[s][p] = 0
  /\ \A r \in 1..(s - 1) : r \in DOMAIN m /\ NBN!Complete(m[r])

\* A graph's stages and the numbers of its sheet.
SheetSized(g, n, s, c) == g \in Seq(Nat) /\ WellFormed(g) /\ n \in Nat \ {0} /\ s \in Nat \ {0} /\ c \in Nat

\* The others' stages do not depend on one stage's counts.
LEMMA SheetElsewhere ==
  ASSUME NEW m, NEW g, NEW n, NEW s, NEW c, NEW past, NEW mine, Sheet(m, g, n, s, c, past, mine),
         NEW w, DOMAIN w = DOMAIN m, \A r \in DOMAIN m \ {s} : w[r] = m[r],
         NEW c2, NEW past2, NEW mine2,
         s \in DOMAIN g => IF g[s] > 0 THEN Chunks(w, g, n, s, c2, past2, mine2)
                                       ELSE Shares(w, n, s, past2),
         s + 1 \in DOMAIN g /\ g[s + 1] > 0 /\ 0 \in past2 => c2 = n,
         s \in Nat, DOMAIN g \subseteq Nat
  PROVE  Sheet(w, g, n, s, c2, past2, mine2)
<1>1. DOMAIN w = DOMAIN g
  BY DEF Sheet
<1>2. \A r \in DOMAIN w : r < s => NBN!Complete(w[r])
  BY DEF Sheet
<1>3. \A r \in DOMAIN w : r > s => /\ DOMAIN w[r] = 1..(IF g[r] = 0 THEN n ELSE g[r])
                                   /\ \A p \in DOMAIN w[r] : w[r][p] = 0
  BY DEF Sheet
<1> QED  BY <1>1, <1>2, <1>3 DEF Sheet

\* A thread's share.
LEMMA SharesOne ==
  ASSUME NEW m, NEW g, NEW n, NEW s, NEW c, NEW past, NEW mine, SheetSized(g, n, s, c),
         Sheet(m, g, n, s, c, past, mine), s \in DOMAIN g, g[s] = 0,
         NEW t \in Team(n) \ past, NEW mine2,
         NEW c2, c2 = IF t = 0 /\ s + 1 \in DOMAIN g /\ g[s + 1] > 0 THEN n ELSE c
  PROVE  /\ Due(m, s, t + 1)
         /\ Sheet([m EXCEPT ![s][t + 1] = @ + 1], g, n, s, c2, past \cup {t}, mine2)
<1> DEFINE w == [m EXCEPT ![s][t + 1] = @ + 1]
<1>0. /\ Shares(m, n, s, past) /\ DOMAIN m = DOMAIN g /\ DOMAIN g = 1..Len(g) /\ Len(g) \in Nat
      /\ s \in Nat /\ n \in Nat \ {0} /\ t \in Nat /\ t < n
  BY LenProperties DEF Sheet, SheetSized, Team
<1>1. Due(m, s, t + 1)
  <2>1. t + 1 \in DOMAIN m[s] /\ m[s][t + 1] = 0
    BY <1>0 DEF Shares
  <2>2. \A r \in 1..(s - 1) : r \in DOMAIN m /\ NBN!Complete(m[r])
    BY <1>0 DEF Sheet
  <2> QED  BY <1>0, <2>1, <2>2 DEF Due
<1>2. /\ DOMAIN w = DOMAIN m /\ \A r \in DOMAIN m \ {s} : w[r] = m[r]
      /\ w[s] = [m[s] EXCEPT ![t + 1] = @ + 1]
  BY <1>0
<1>3. Shares(w, n, s, past \cup {t})
  <2>1. DOMAIN w[s] = 1..n
    BY <1>0, <1>2 DEF Shares
  <2>2. ASSUME NEW u \in Team(n) PROVE w[s][u + 1] = IF u \in past \cup {t} THEN 1 ELSE 0
    <3>1. u + 1 \in DOMAIN m[s] /\ u \in Nat
      BY <1>0 DEF Shares, Team
    <3>2. CASE u = t
      BY <1>0, <1>1, <1>2, <3>1, <3>2 DEF Due
    <3>3. CASE u # t
      <4>1. w[s][u + 1] = m[s][u + 1]
        BY <1>0, <1>2, <3>1, <3>3
      <4> QED  BY <1>0, <3>3, <4>1 DEF Shares
    <3> QED  BY <3>2, <3>3
  <2> QED  BY <2>1, <2>2 DEF Shares
<1>4. s + 1 \in DOMAIN g /\ g[s + 1] > 0 /\ 0 \in past \cup {t} => c2 = n
  BY DEF Sheet
<1>5. Sheet(w, g, n, s, c2, past \cup {t}, mine2)
  <2> HIDE DEF w
  <2>1. DOMAIN g \subseteq Nat
    BY <1>0
  <2> QED  BY <1>0, <1>2, <1>3, <1>4, <2>1, SheetElsewhere
<1> QED  BY <1>1, <1>5

\* No product follows another.
LEMMA NoTwoProducts ==
  ASSUME NEW g, NEW n, NEW c, NEW s, SheetSized(g, n, s, c), s \in DOMAIN g, g[s] > 0
  PROVE  ~(s + 1 \in DOMAIN g /\ g[s + 1] > 0)
<1>1. (s + 1) - 1 = s /\ ~(0 > 0)
  BY DEF SheetSized
<1> QED  BY <1>1 DEF SheetSized, WellFormed

\* A thread's chunk of the product, and what it does next.
LEMMA ChunksOne ==
  ASSUME NEW m, NEW g, NEW n, NEW s, NEW c, NEW past, NEW mine, SheetSized(g, n, s, c),
         Sheet(m, g, n, s, c, past, mine), s \in DOMAIN g, g[s] > 0,
         NEW t \in Team(n) \ past, mine[t] < g[s],
         NEW mine2, \A u \in Team(n) \ (past \cup {t}) : mine2[u] = mine[u]
  PROVE  /\ Due(m, s, mine[t] + 1)
         /\ n >= g[s] =>
              Sheet([m EXCEPT ![s][mine[t] + 1] = @ + 1], g, n, s, c, past \cup {t}, mine2)
         /\ n < g[s] /\ mine2[t] = c =>
              Sheet([m EXCEPT ![s][mine[t] + 1] = @ + 1], g, n, s, c + 1, past, mine2)
<1> DEFINE k == mine[t] + 1
           w == [m EXCEPT ![s][k] = @ + 1]
<1>0. /\ Chunks(m, g, n, s, c, past, mine) /\ DOMAIN m = DOMAIN g /\ DOMAIN g = 1..Len(g)
      /\ Len(g) \in Nat /\ s \in Nat /\ n \in Nat \ {0} /\ t \in Nat /\ t < n /\ c \in Nat /\ g[s] \in Nat
  BY LenProperties, ElementOfSeq DEF Sheet, SheetSized, Team
<1>1. /\ DOMAIN m[s] = 1..g[s] /\ n <= c /\ mine[t] \in Nat /\ mine[t] < c
      /\ \A u \in Team(n) : IF u \in past THEN g[s] <= c ELSE mine[u] \in Nat /\ mine[u] < c
      /\ \A u \in Team(n) \ past : mine[u] = mine[t] => u = t
      /\ \A u, v \in Team(n) \ past : mine[u] = mine[v] => u = v
  BY <1>0 DEF Chunks
<1>2. k \in 1..g[s] /\ m[s][k] = 0
  <2>1. k \in 1..g[s]
    BY <1>0, <1>1
  <2> QED  BY <1>0, <2>1 DEF Chunks
<1>3. Due(m, s, k)
  <2>1. \A r \in 1..(s - 1) : r \in DOMAIN m /\ NBN!Complete(m[r])
    BY <1>0 DEF Sheet
  <2> QED  BY <1>0, <1>1, <1>2, <2>1 DEF Due
<1>4. /\ DOMAIN w = DOMAIN m /\ \A r \in DOMAIN m \ {s} : w[r] = m[r]
      /\ w[s] = [m[s] EXCEPT ![k] = @ + 1] /\ DOMAIN w[s] = 1..g[s]
      /\ w[s][k] = 1 /\ \A p \in 1..g[s] : p # k => w[s][p] = m[s][p]
  BY <1>0, <1>1, <1>2
<1>5. ~(s + 1 \in DOMAIN g /\ g[s + 1] > 0)
  BY NoTwoProducts
<1>6. DOMAIN g \subseteq Nat
  BY <1>0
<1> HIDE DEF w
<1>7. ASSUME n >= g[s] PROVE Sheet(w, g, n, s, c, past \cup {t}, mine2)
  <2>1. \A u \in Team(n) : IF u \in past \cup {t} THEN g[s] <= c ELSE mine2[u] \in Nat /\ mine2[u] < c
    <3> TAKE u \in Team(n)
    <3>1. CASE u \in past
      BY <1>1, <3>1
    <3>2. CASE u = t
      BY <1>0, <1>1, <1>7, <3>2
    <3>3. CASE u \notin past \cup {t}
      BY <1>1, <3>3
    <3> QED  BY <3>1, <3>2, <3>3
  <2>2. \A u, v \in Team(n) \ (past \cup {t}) : mine2[u] = mine2[v] => u = v
    BY <1>1
  <2>3. ASSUME NEW p \in 1..g[s]
        PROVE  w[s][p] = IF p <= c /\ \A u \in Team(n) \ (past \cup {t}) : mine2[u] + 1 # p
                         THEN 1 ELSE 0
    <3>1. CASE p = k
      <4>1. p <= c
        BY <1>0, <1>1, <3>1
      <4>2. ASSUME NEW u \in Team(n) \ (past \cup {t}) PROVE mine2[u] + 1 # p
        <5>1. mine2[u] = mine[u] /\ mine[u] \in Nat /\ mine[u] # mine[t]
          BY <1>1
        <5> QED  BY <1>1, <3>1, <5>1
      <4> QED  BY <1>4, <3>1, <4>1, <4>2
    <3>2. CASE p # k
      <4>1. (\A u \in Team(n) \ past : mine[u] + 1 # p)
              <=> \A u \in Team(n) \ (past \cup {t}) : mine2[u] + 1 # p
        BY <3>2
      <4>2. m[s][p] = IF p <= c /\ \A u \in Team(n) \ past : mine[u] + 1 # p THEN 1 ELSE 0
        BY <1>0 DEF Chunks
      <4> QED  BY <1>4, <3>2, <4>1, <4>2
    <3> QED  BY <3>1, <3>2
  <2>4. Chunks(w, g, n, s, c, past \cup {t}, mine2)
    BY <1>1, <1>4, <2>1, <2>2, <2>3 DEF Chunks
  <2> QED  BY <1>0, <1>4, <1>5, <1>6, <2>4, SheetElsewhere
<1>8. ASSUME n < g[s], mine2[t] = c PROVE Sheet(w, g, n, s, c + 1, past, mine2)
  <2>0. \A u \in Team(n) \ past : /\ mine2[u] \in Nat /\ mine2[u] <= c
                                  /\ u # t => mine2[u] = mine[u] /\ mine2[u] < c
    <3> TAKE u \in Team(n) \ past
    <3>1. CASE u = t
      BY <1>0, <1>8, <3>1
    <3>2. CASE u # t
      <4>1. mine2[u] = mine[u] /\ mine[u] \in Nat /\ mine[u] < c
        BY <1>1, <3>2
      <4> QED  BY <1>0, <3>2, <4>1
    <3> QED  BY <3>1, <3>2
  <2>1. n <= c + 1 /\ \A u \in Team(n) :
          IF u \in past THEN g[s] <= c + 1 ELSE mine2[u] \in Nat /\ mine2[u] < c + 1
    BY <1>0, <1>1, <2>0
  <2>2. \A u, v \in Team(n) \ past : mine2[u] = mine2[v] => u = v
    BY <1>1, <1>8, <2>0
  <2>3. ASSUME NEW p \in 1..g[s]
        PROVE  w[s][p] = IF p <= c + 1 /\ \A u \in Team(n) \ past : mine2[u] + 1 # p
                         THEN 1 ELSE 0
    <3>0. m[s][p] = IF p <= c /\ \A u \in Team(n) \ past : mine[u] + 1 # p THEN 1 ELSE 0
      BY <1>0 DEF Chunks
    <3>1. CASE p = k
      <4>1. p <= c + 1
        BY <1>0, <1>1, <3>1
      <4>2. ASSUME NEW u \in Team(n) \ past PROVE mine2[u] + 1 # p
        <5>1. CASE u = t
          BY <1>0, <1>1, <1>8, <3>1, <5>1
        <5>2. CASE u # t
          <6>1. mine2[u] = mine[u] /\ mine[u] \in Nat /\ mine[u] # mine[t]
            BY <1>1, <5>2
          <6> QED  BY <1>1, <3>1, <6>1
        <5> QED  BY <5>1, <5>2
      <4> QED  BY <1>4, <3>1, <4>1, <4>2
    <3>2. CASE p = c + 1
      <4>1. p # k /\ w[s][p] = 0
        BY <1>0, <1>1, <1>4, <3>0, <3>2
      <4>2. t \in Team(n) \ past /\ mine2[t] + 1 = p
        BY <1>8, <3>2
      <4> QED  BY <4>1, <4>2
    <3>3. CASE p # k /\ p # c + 1
      <4>1. (\A u \in Team(n) \ past : mine[u] + 1 # p)
              <=> \A u \in Team(n) \ past : mine2[u] + 1 # p
        <5>1. mine[t] + 1 # p /\ mine2[t] + 1 # p
          BY <1>8, <3>3
        <5> QED  BY <5>1
      <4>2. p <= c <=> p <= c + 1
        BY <1>0, <3>3
      <4> QED  BY <1>4, <3>0, <3>3, <4>1, <4>2
    <3> QED  BY <3>1, <3>2, <3>3
  <2>4. Chunks(w, g, n, s, c + 1, past, mine2)
    BY <1>4, <2>1, <2>2, <2>3 DEF Chunks
  <2> QED  BY <1>0, <1>4, <1>5, <1>6, <2>4, SheetElsewhere
<1> QED  BY <1>3, <1>7, <1>8 DEF w

\* A thread that finds no chunk left.
LEMMA ChunksNone ==
  ASSUME NEW m, NEW g, NEW n, NEW s, NEW c, NEW past, NEW mine, SheetSized(g, n, s, c),
         Sheet(m, g, n, s, c, past, mine), s \in DOMAIN g, g[s] > 0,
         NEW t \in Team(n) \ past, ~(mine[t] < g[s]),
         NEW mine2, \A u \in Team(n) \ (past \cup {t}) : mine2[u] = mine[u]
  PROVE  Sheet(m, g, n, s, c, past \cup {t}, mine2)
<1>0. /\ Chunks(m, g, n, s, c, past, mine) /\ DOMAIN m = DOMAIN g /\ DOMAIN g = 1..Len(g)
      /\ Len(g) \in Nat /\ s \in Nat /\ n \in Nat \ {0} /\ t \in Nat /\ t < n /\ c \in Nat /\ g[s] \in Nat
  BY LenProperties, ElementOfSeq DEF Sheet, SheetSized, Team
<1>1. /\ DOMAIN m[s] = 1..g[s] /\ n <= c /\ mine[t] \in Nat /\ mine[t] < c
      /\ \A u \in Team(n) : IF u \in past THEN g[s] <= c ELSE mine[u] \in Nat /\ mine[u] < c
      /\ \A u, v \in Team(n) \ past : mine[u] = mine[v] => u = v
  BY <1>0 DEF Chunks
<1>2. \A u \in Team(n) : IF u \in past \cup {t} THEN g[s] <= c ELSE mine2[u] \in Nat /\ mine2[u] < c
  BY <1>0, <1>1
<1>3. ASSUME NEW p \in 1..g[s]
      PROVE  m[s][p] = IF p <= c /\ \A u \in Team(n) \ (past \cup {t}) : mine2[u] + 1 # p
                       THEN 1 ELSE 0
  <2>1. mine[t] + 1 # p
    BY <1>0, <1>1
  <2>2. (\A u \in Team(n) \ past : mine[u] + 1 # p)
          <=> \A u \in Team(n) \ (past \cup {t}) : mine2[u] + 1 # p
    BY <2>1
  <2> QED  BY <1>0, <2>2 DEF Chunks
<1>4. Chunks(m, g, n, s, c, past \cup {t}, mine2)
  BY <1>1, <1>2, <1>3 DEF Chunks
<1>5. ~(s + 1 \in DOMAIN g /\ g[s + 1] > 0)
  BY NoTwoProducts
<1>6. DOMAIN g \subseteq Nat
  BY <1>0
<1> QED  BY <1>0, <1>4, <1>5, <1>6, SheetElsewhere

\* A stage that all threads are done with is complete, and the next one begins.
LEMMA StageDone ==
  ASSUME NEW m, NEW g, NEW n, NEW s, NEW c, NEW past, NEW mine, SheetSized(g, n, s, c),
         Sheet(m, g, n, s, c, past, mine), Team(n) \subseteq past, s \in DOMAIN g \/ s = 1,
         NEW next, \A t \in Team(n) : next[t] = t
  PROVE  /\ s + 1 \in DOMAIN g => Sheet(m, g, n, s + 1, c, {}, next)
         /\ \A past2, mine2 : s + 1 \notin DOMAIN g => Sheet(m, g, n, s + 1, c, past2, mine2)
         /\ s + 1 \notin DOMAIN g => \A r \in DOMAIN m : NBN!Complete(m[r])
<1>0. /\ DOMAIN m = DOMAIN g /\ DOMAIN g = 1..Len(g)
      /\ Len(g) \in Nat /\ s \in Nat \ {0} /\ n \in Nat \ {0} /\ c \in Nat
      /\ 0 \in past /\ \A r \in DOMAIN g : g[r] \in Nat
  BY LenProperties, ElementOfSeq DEF Sheet, SheetSized, Team
<1>1. s \in DOMAIN g => NBN!Complete(m[s])
  <2> SUFFICES ASSUME s \in DOMAIN g, NEW p \in DOMAIN m[s] PROVE m[s][p] = 1
    BY DEF NBN!Complete
  <2>1. CASE g[s] > 0
    <3>1. Chunks(m, g, n, s, c, past, mine) /\ g[s] \in Nat
      BY <1>0, <2>1 DEF Sheet
    <3>2. p \in 1..g[s] /\ g[s] <= c
      <4>1. 0 \in Team(n)
        BY <1>0 DEF Team
      <4> QED  BY <1>0, <3>1, <4>1 DEF Chunks
    <3>3. Team(n) \ past = {} /\ p <= c
      BY <1>0, <3>1, <3>2
    <3> QED  BY <3>1, <3>2, <3>3 DEF Chunks
  <2>2. CASE ~(g[s] > 0)
    <3>1. Shares(m, n, s, past)
      BY <2>2 DEF Sheet
    <3>2. p - 1 \in Team(n) /\ (p - 1) + 1 = p
      BY <1>0, <3>1 DEF Shares, Team
    <3> QED  BY <3>1, <3>2 DEF Shares
  <2> QED  BY <2>1, <2>2
<1>2. \A r \in DOMAIN m : r < s + 1 => NBN!Complete(m[r])
  BY <1>0, <1>1 DEF Sheet
<1>3. \A r \in DOMAIN m : r > s + 1 => /\ DOMAIN m[r] = 1..(IF g[r] = 0 THEN n ELSE g[r])
                                       /\ \A p \in DOMAIN m[r] : m[r][p] = 0
  BY <1>0 DEF Sheet
<1>4. ASSUME s + 1 \notin DOMAIN g
      PROVE  /\ s + 2 \notin DOMAIN g
             /\ \A r \in DOMAIN m : r < s + 1
  BY <1>0, <1>4
<1>5. ASSUME s + 1 \in DOMAIN g
      PROVE  IF g[s + 1] > 0 THEN Chunks(m, g, n, s + 1, c, {}, next) ELSE Shares(m, n, s + 1, {})
  <2>0. /\ DOMAIN m[s + 1] = 1..(IF g[s + 1] = 0 THEN n ELSE g[s + 1])
        /\ \A p \in DOMAIN m[s + 1] : m[s + 1][p] = 0
    BY <1>0, <1>5 DEF Sheet
  <2>1. CASE g[s + 1] > 0
    <3>1. c = n /\ DOMAIN m[s + 1] = 1..g[s + 1]
      BY <1>0, <1>5, <2>0, <2>1 DEF Sheet
    <3>2. \A t \in Team(n) : next[t] \in Nat /\ next[t] < c /\ next[t] = t
      BY <1>0, <3>1 DEF Team
    <3>3. ASSUME NEW p \in 1..g[s + 1], p <= c PROVE \E t \in Team(n) : next[t] + 1 = p
      <4>1. p - 1 \in Team(n) /\ (p - 1) + 1 = p
        BY <1>0, <1>5, <3>1, <3>3 DEF Team
      <4> QED  BY <3>2, <4>1
    <3>4. \A p \in 1..g[s + 1] :
            m[s + 1][p] = IF p <= c /\ \A t \in Team(n) \ {} : next[t] + 1 # p THEN 1 ELSE 0
      BY <2>0, <3>1, <3>3
    <3>5. n <= c
      BY <1>0, <3>1
    <3> QED  BY <2>1, <3>1, <3>2, <3>4, <3>5 DEF Chunks
  <2>2. CASE ~(g[s + 1] > 0)
    <3>1. g[s + 1] = 0
      BY <1>0, <1>5, <2>2
    <3> QED  BY <1>0, <2>0, <2>2, <3>1 DEF Shares, Team
  <2> QED  BY <2>1, <2>2
<1>6. ASSUME s + 1 \in DOMAIN g PROVE Sheet(m, g, n, s + 1, c, {}, next)
  BY <1>0, <1>2, <1>3, <1>5, <1>6 DEF Sheet
<1>7. ASSUME s + 1 \notin DOMAIN g, NEW past2, NEW mine2 PROVE Sheet(m, g, n, s + 1, c, past2, mine2)
  <2>1. (s + 1) + 1 = s + 2
    BY <1>0
  <2> QED  BY <1>0, <1>2, <1>3, <1>4, <1>7, <2>1 DEF Sheet
<1> QED  BY <1>2, <1>4, <1>6, <1>7

\* A graph of which nothing is computed.
LEMMA NothingDone ==
  ASSUME NEW g, NEW n, NEW c, SheetSized(g, n, 1, c), NEW mine,
         NEW m, m = [s \in DOMAIN g |-> [p \in 1..(IF g[s] = 0 THEN n ELSE g[s]) |-> 0]]
  PROVE  Sheet(m, g, n, 1, c, {}, mine)
<1>0. /\ DOMAIN m = DOMAIN g /\ DOMAIN g = 1..Len(g) /\ Len(g) \in Nat /\ n \in Nat \ {0}
  BY LenProperties DEF SheetSized
<1>1. \A r \in DOMAIN m : /\ DOMAIN m[r] = 1..(IF g[r] = 0 THEN n ELSE g[r])
                          /\ \A p \in DOMAIN m[r] : m[r][p] = 0
  OBVIOUS
<1>2. 1 \in DOMAIN g => g[1] = 0 /\ ~(g[1] > 0)
  <2>1. 1 \in DOMAIN g => g[1] \in Nat
    BY <1>0, ElementOfSeq DEF SheetSized
  <2> QED  BY <2>1 DEF SheetSized, WellFormed
<1>3. 1 \in DOMAIN g => Shares(m, n, 1, {})
  BY <1>0, <1>1, <1>2 DEF Shares, Team
<1> QED  BY <1>0, <1>1, <1>2, <1>3 DEF Sheet

(***************************************************************************)
(* The sheet of the graph that is being computed.                          *)
(***************************************************************************)
PastNow == {t \in Active : Past(t)}
MineNow == [t \in Active |-> Mine(t)]

\* How much of the graph is computed.
Tally ==
  IF InGraph THEN Sheet(made, Graph.stages, pool.active, Stage, pool.current_chunk, PastNow, MineNow)
  ELSE IF at[0] = "computed" THEN \A s \in DOMAIN made : NBN!Complete(made[s])
  ELSE made = <<>>

\* What the steps promise.
Promised == made' = made \/ NBN!ANext

\* The numbers of the sheet.
LEMMA SheetKinds ==
  ASSUME PoolTyped, Meeting
  PROVE  /\ SheetSized(Graph.stages, pool.active, Stage, pool.current_chunk)
         /\ Team(pool.active) = Active /\ DOMAIN Graph.stages \subseteq Nat
<1>1. Graph.stages \in Seq(Nat) /\ WellFormed(Graph.stages)
  BY Tasks DEF Meeting
<1>2. pool.active \in Nat \ {0} /\ pool.current_chunk \in Nat /\ Team(pool.active) = Active
  BY PoolKinds DEF Meeting, Team, Active, PoolTyped, Pools
<1>3. Stage \in Nat \ {0}
  BY PoolKinds DEF Meeting, Stage
<1> QED  BY <1>1, <1>2, <1>3, LenProperties DEF SheetSized

\* A step inside the stage leaves the others' parts of the sheet.
LEMMA OthersKept ==
  ASSUME PoolTyped, NEW t \in Threads, Kept(t)
  PROVE  /\ Active' = Active /\ Graph' = Graph /\ Stage' = Stage /\ pool'.active = pool.active
         /\ \A u \in Active \ {t} : Past(u)' = Past(u) /\ Mine(u)' = Mine(u)
<1>1. Active' = Active /\ Graph' = Graph /\ Stage' = Stage /\ pool'.active = pool.active
  BY DEF Kept, Active, Graph
<1>2. ASSUME NEW u \in Threads \ {t} PROVE Past(u)' = Past(u) /\ Mine(u)' = Mine(u)
  <2>1. Here(u)' = Here(u)
    BY Frame
  <2>2. at'[u] = at[u] /\ local'[u] = local[u]
    BY DEF Kept
  <2> QED  BY <2>1, <2>2 DEF Past, Mine
<1> QED  BY <1>1, <1>2, PoolKinds

\* A step that computes nothing and leaves the thread on its side of the stage.
LEMMA TallyKept ==
  ASSUME PoolTyped, Meeting, Tally, NEW t \in Threads, Kept(t), InGraph', made' = made,
         pool'.current_chunk = pool.current_chunk, Past(t)' <=> Past(t), Mine(t)' = Mine(t)
  PROVE  Tally'
<1>1. \A u \in Active : (Past(u)' <=> Past(u)) /\ Mine(u)' = Mine(u)
  BY OthersKept
<1>2. PastNow' = PastNow /\ MineNow' = MineNow
  BY <1>1, OthersKept DEF PastNow, MineNow
<1> QED  BY <1>2, OthersKept DEF Tally, Meeting

\* A thread is done with the stage.
LEMMA TallyPast ==
  ASSUME PoolTyped, Meeting, NEW t \in Active, Kept(t), InGraph', Past(t)',
         \A mine : (\A u \in Active \ (PastNow \cup {t}) : mine[u] = MineNow[u]) =>
            Sheet(made', Graph.stages, pool.active, Stage, pool'.current_chunk, PastNow \cup {t}, mine)
  PROVE  Tally'
<1>0. t \in Threads
  BY PoolKinds
<1>1. PastNow' = PastNow \cup {t}
  BY <1>0, OthersKept DEF PastNow
<1>2. \A u \in Active \ (PastNow \cup {t}) : MineNow'[u] = MineNow[u]
  BY <1>0, OthersKept DEF MineNow
<1>3. Sheet(made', Graph.stages, pool.active, Stage, pool'.current_chunk, PastNow \cup {t}, MineNow')
  BY <1>2
<1> QED  BY <1>0, <1>1, <1>3, OthersKept DEF Tally

\* The last thread is done with the stage.
LEMMA TallyNext ==
  ASSUME PoolTyped, Meeting, OnNext, NEW past, Active \subseteq past, NEW mine,
         Sheet(made', Graph.stages, pool.active, Stage, pool'.current_chunk, past, mine),
         pool'.current_chunk \in Nat, Stage \in DOMAIN Graph.stages \/ Stage = 1
  PROVE  Tally'
<1> DEFINE g == Graph.stages  n == pool.active
<1>1. SheetSized(g, n, Stage, pool'.current_chunk) /\ Team(n) = Active
  BY SheetKinds DEF SheetSized
<1>2. /\ Stage + 1 \notin DOMAIN g => /\ \A r \in DOMAIN made' : NBN!Complete(made'[r])
                                     /\ \A past2, mine2 : Sheet(made', g, n, Stage + 1,
                                                                pool'.current_chunk, past2, mine2)
      /\ \A next : (\A t \in Active : next[t] = t) /\ Stage + 1 \in DOMAIN g =>
            Sheet(made', g, n, Stage + 1, pool'.current_chunk, {}, next)
  <2> HIDE DEF g, n
  <2>0. [t \in Active |-> t] \in [Active -> Active] /\ \A t \in Active : [u \in Active |-> u][t] = t
    OBVIOUS
  <2>1. ASSUME NEW next, \A t \in Team(n) : next[t] = t
        PROVE  /\ Stage + 1 \in DOMAIN g => Sheet(made', g, n, Stage + 1, pool'.current_chunk, {}, next)
               /\ \A past2, mine2 : Stage + 1 \notin DOMAIN g =>
                    Sheet(made', g, n, Stage + 1, pool'.current_chunk, past2, mine2)
               /\ Stage + 1 \notin DOMAIN g => \A r \in DOMAIN made' : NBN!Complete(made'[r])
    BY <1>1, <2>1, StageDone DEF g, n
  <2> QED  BY <1>1, <2>0, <2>1
<1>3. Graph' = Graph /\ pool'.active = pool.active /\ Active' = Active
  BY DEF OnNext, Active
<1>4. CASE at'[0] = "computed" /\ Stage + 1 \notin DOMAIN Graph.stages
  BY <1>2, <1>4 DEF Tally, InGraph, Working
<1>5. CASE InGraph' /\ Stage' = Stage + 1 /\ \A u \in Active : ~Past(u)' /\ Mine(u)' = u
  <2>1. PastNow' = {} /\ \A t \in Active : MineNow'[t] = t
    BY <1>3, <1>5 DEF PastNow, MineNow
  <2>2. Sheet(made', g, n, Stage + 1, pool'.current_chunk, PastNow', MineNow')
    BY <1>2, <2>1
  <2> QED  BY <1>3, <1>5, <2>2 DEF Tally
<1> QED  BY <1>4, <1>5 DEF OnNext

\* A part that is due is one of the abstract steps.
LEMMA DueIsPromised ==
  ASSUME NEW s, NEW p, Due(made, s, p), made' = [made EXCEPT ![s][p] = @ + 1]
  PROVE  Promised
<1>1. made' = [made EXCEPT ![s][p] = 1]
  BY DEF Due
<1>2. \A r \in 1..(s - 1) : NBN!Complete(made[r])
  BY DEF Due
<1>3. NBN!ACompute
  BY <1>1, <1>2 DEF Due, NBN!ACompute
<1> QED  BY <1>3 DEF Promised, NBN!ANext

\* What a share adds to the sheet.
LEMMA ShareTally ==
  ASSUME PoolTyped, Sized, Meeting, Tally, NEW t \in Threads, Share(t)
  PROVE  Tally' /\ Promised
<1> DEFINE g == Graph.stages  n == pool.active  c == pool.current_chunk
<1>1. /\ t \in Active /\ Here(t) /\ at[t] = "share" /\ ~Past(t) /\ t \notin PastNow /\ ~Product
      /\ local[t].stage = Stage /\ local[t].stages = g /\ (Stage \in DOMAIN g \/ Stage = 1)
  <2>1. at[t] = "share"
    BY DEF Share
  <2>2. t \in Active /\ Here(t)
    BY <2>1, AtWork DEF Working
  <2> QED  BY <2>1, <2>2 DEF Here, Joined, Past, PastNow, Over
<1>2. SheetSized(g, n, Stage, c) /\ Team(n) = Active /\ DOMAIN g \subseteq Nat
  BY SheetKinds
<1>3. Sheet(made, g, n, Stage, c, PastNow, MineNow)
  BY DEF Tally, Meeting
<1>4. /\ made' = [made EXCEPT ![Stage][t + 1] = @ + 1]
      /\ pool'.current_chunk = IF t = 0 /\ Stage + 1 \in DOMAIN g /\ g[Stage + 1] > 0 THEN n ELSE c
  <2>1. IsProduct(t, Stage + 1) <=> Stage + 1 \in DOMAIN g /\ g[Stage + 1] > 0
    BY <1>1 DEF IsProduct
  <2>2. pool' = IF t = 0 /\ IsProduct(t, Stage + 1) THEN [pool EXCEPT !.current_chunk = n] ELSE pool
    BY <1>1 DEF Share
  <2>3. pool'.current_chunk = IF t = 0 /\ IsProduct(t, Stage + 1) THEN n ELSE c
    BY <2>2 DEF PoolTyped, Pools
  <2> QED  BY <1>1, <2>1, <2>3 DEF Share, Compute
<1>5. IF n = 1 THEN OnNext ELSE Meeting' /\ Kept(t) /\ Past(t)'
  BY SharesMove
<1>6. pool'.current_chunk \in Nat
  BY <1>2, <1>4 DEF SheetSized
<1>7. /\ Promised
      /\ \A mine : Sheet(made', g, n, Stage, pool'.current_chunk, PastNow \cup {t}, mine)
  <2>1. CASE Stage \in DOMAIN g
    <3>1. g[Stage] = 0
      <4>1. g[Stage] \in Nat
        BY <1>2, <2>1, LenProperties, ElementOfSeq DEF SheetSized
      <4> QED  BY <1>1, <2>1, <4>1 DEF Product
    <3>2. t \in Team(n) \ PastNow
      BY <1>1, <1>2
    <3>3. ASSUME NEW mine
          PROVE  Due(made, Stage, t + 1) /\ Sheet(made', g, n, Stage, pool'.current_chunk, PastNow \cup {t}, mine)
      <4> HIDE DEF g, n, c
      <4> QED  BY <1>2, <1>3, <1>4, <2>1, <3>1, <3>2, SharesOne
    <3> QED  BY <1>4, <3>3, DueIsPromised
  <2>2. CASE Stage \notin DOMAIN g
    <3>1. Stage = 1 /\ DOMAIN g = {} /\ DOMAIN made = {}
      <4>1. DOMAIN g = 1..Len(g) /\ Len(g) \in Nat
        BY <1>2, LenProperties DEF SheetSized
      <4>2. Stage = 1 /\ 1 \notin 1..Len(g)
        BY <1>1, <2>2, <4>1
      <4> QED  BY <1>3, <4>1, <4>2 DEF Sheet
    <3>2. made' = made
      <4>1. made = [r \in DOMAIN made |-> made[r]]
        BY DEF PoolTyped, Counted
      <4> QED  BY ONLY <1>4, <3>1, <4>1
    <3>3. \A mine : Sheet(made', g, n, Stage, pool'.current_chunk, PastNow \cup {t}, mine)
      BY <3>1, <3>2 DEF Sheet
    <3> QED  BY <3>2, <3>3 DEF Promised
  <2> QED  BY <2>1, <2>2
<1>8. CASE n = 1
  <2>1. Active \subseteq PastNow \cup {t}
    <3>1. Active = {0}
      BY <1>8 DEF Active
    <3> QED  BY <1>1, <3>1
  <2>2. Sheet(made', g, n, Stage, pool'.current_chunk, PastNow \cup {t}, MineNow)
    BY <1>7
  <2> QED  BY <1>1, <1>5, <1>6, <1>7, <1>8, <2>1, <2>2, TallyNext
<1>9. CASE n # 1
  <2>1. InGraph'
    BY <1>5, <1>9 DEF Meeting
  <2> QED  BY <1>1, <1>5, <1>7, <1>9, <2>1, TallyPast
<1> QED  BY <1>8, <1>9

\* What a chunk adds to the sheet.
LEMMA ChunkTally ==
  ASSUME PoolTyped, Sized, Meeting, Tally, NEW t \in Threads, Chunk(t)
  PROVE  Tally' /\ Promised
<1> DEFINE g == Graph.stages  n == pool.active  c == pool.current_chunk
<1>1. /\ t \in Active /\ Here(t) /\ at[t] = "chunk" /\ ~Past(t) /\ t \notin PastNow
      /\ Stage \in DOMAIN g /\ g[Stage] > 0 /\ local[t].stage = Stage /\ local[t].stages = g
      /\ MineNow[t] = local[t].chunk
  <2>1. at[t] = "chunk"
    BY DEF Chunk
  <2>2. t \in Active /\ Here(t)
    BY <2>1, AtWork DEF Working
  <2> QED  BY <2>1, <2>2 DEF Here, Joined, Past, PastNow, Product, MineNow, Mine
<1>2. SheetSized(g, n, Stage, c) /\ Team(n) = Active /\ DOMAIN g \subseteq Nat
  BY SheetKinds
<1>3. Sheet(made, g, n, Stage, c, PastNow, MineNow)
  BY DEF Tally, Meeting
<1>4. g[Stage] \in Nat /\ n \in Nat /\ c \in Nat
  BY <1>1, <1>2, LenProperties, ElementOfSeq DEF SheetSized
<1>5. IF local[t].chunk < g[Stage] /\ n < g[Stage]
      THEN Meeting' /\ Kept(t) /\ ~Past(t)' /\ Mine(t)' = c
      ELSE IF n = 1 THEN OnNext ELSE Meeting' /\ Kept(t) /\ Past(t)'
  BY <1>1, ChunksMove
<1>6. t \in Team(n) \ PastNow
  BY <1>1, <1>2
<1>7. ASSUME pool' = pool, Promised, ~(local[t].chunk < g[Stage] /\ n < g[Stage]),
             \A mine : (\A u \in Team(n) \ (PastNow \cup {t}) : mine[u] = MineNow[u]) =>
                Sheet(made', g, n, Stage, c, PastNow \cup {t}, mine)
      PROVE  Tally'
  <2>1. CASE n = 1
    <3>1. Active \subseteq PastNow \cup {t}
      <4>1. Active = {0}
        BY <2>1 DEF Active
      <4> QED  BY <1>1, <4>1
    <3>2. Sheet(made', g, n, Stage, pool'.current_chunk, PastNow \cup {t}, MineNow)
      BY <1>7
    <3> QED  BY <1>1, <1>4, <1>5, <1>7, <2>1, <3>1, <3>2, TallyNext
  <2>2. CASE n # 1
    <3>1. InGraph'
      BY <1>5, <1>7, <2>2 DEF Meeting
    <3>2. \A mine : (\A u \in Active \ (PastNow \cup {t}) : mine[u] = MineNow[u]) =>
             Sheet(made', g, n, Stage, pool'.current_chunk, PastNow \cup {t}, mine)
      BY <1>2, <1>7
    <3> QED  BY <1>1, <1>5, <1>7, <2>2, <3>1, <3>2, TallyPast
  <2> QED  BY <2>1, <2>2
<1>8. CASE ~(local[t].chunk < g[Stage])
  <2>1. pool' = pool /\ made' = made
    BY <1>1, <1>8 DEF Chunk
  <2>2. ASSUME NEW mine, \A u \in Team(n) \ (PastNow \cup {t}) : mine[u] = MineNow[u]
        PROVE  Sheet(made', g, n, Stage, c, PastNow \cup {t}, mine)
    <3> HIDE DEF g, n, c
    <3> QED  BY <1>1, <1>2, <1>3, <1>6, <1>8, <2>1, <2>2, ChunksNone
  <2>3. Promised
    BY <2>1 DEF Promised
  <2> QED  BY <1>7, <1>8, <2>1, <2>2, <2>3
<1>9. CASE local[t].chunk < g[Stage]
  <2>1. made' = [made EXCEPT ![Stage][MineNow[t] + 1] = @ + 1]
    BY <1>1, <1>9 DEF Chunk, Compute
  <2>2. ASSUME NEW mine, \A u \in Team(n) \ (PastNow \cup {t}) : mine[u] = MineNow[u]
        PROVE  /\ Due(made, Stage, MineNow[t] + 1)
               /\ n >= g[Stage] => Sheet(made', g, n, Stage, c, PastNow \cup {t}, mine)
               /\ n < g[Stage] /\ mine[t] = c => Sheet(made', g, n, Stage, c + 1, PastNow, mine)
    <3>1. MineNow[t] < g[Stage]
      BY <1>1, <1>9
    <3> HIDE DEF g, n, c
    <3> QED  BY <1>1, <1>2, <1>3, <1>6, <2>1, <2>2, <3>1, ChunksOne
  <2>3. Promised
    BY <2>1, <2>2, DueIsPromised
  <2>4. CASE n >= g[Stage]
    <3>1. pool' = pool /\ ~(n < g[Stage])
      BY <1>1, <1>4, <1>9, <2>4 DEF Chunk
    <3> QED  BY <1>7, <2>2, <2>3, <2>4, <3>1
  <2>5. CASE ~(n >= g[Stage])
    <3>1. n < g[Stage] /\ pool' = [pool EXCEPT !.current_chunk = c + 1]
      BY <1>1, <1>4, <1>9, <2>5 DEF Chunk
    <3>2. pool'.current_chunk = c + 1
      BY <3>1 DEF PoolTyped, Pools
    <3>3. Meeting' /\ Kept(t) /\ ~Past(t)' /\ Mine(t)' = c
      BY <1>5, <1>9, <3>1
    <3>4. PastNow' = PastNow /\ MineNow'[t] = c
          /\ \A u \in Team(n) \ (PastNow \cup {t}) : MineNow'[u] = MineNow[u]
      BY <1>1, <1>2, <3>3, OthersKept DEF PastNow, MineNow
    <3>5. Sheet(made', g, n, Stage, c + 1, PastNow', MineNow')
      BY <2>2, <3>1, <3>4
    <3> QED  BY <2>3, <3>2, <3>3, <3>5, OthersKept DEF Tally, Meeting
  <2> QED  BY <2>4, <2>5
<1> QED  BY <1>8, <1>9

\* The barrier computes nothing.
LEMMA BarrierTally ==
  ASSUME PoolTyped, Sized, Meeting, Tally, NEW t \in Threads,
         Enter(t) \/ Arrive(t) \/ Zero(t) \/ Release(t) \/ Spin(t)
  PROVE  Tally' /\ made' = made
<1>1. made' = made /\ pool'.current_chunk = pool.current_chunk
  BY DEF Enter, Arrive, Zero, Release, Spin, PoolTyped, Pools
<1>2. CASE Enter(t) \/ Arrive(t) \/ Zero(t)
  <2>1. at[t] \in {"enter", "arrive", "zero"} /\ at'[t] \in {"arrive", "zero", "spin", "release"}
    BY <1>2, Going DEF Enter, Arrive, Zero
  <2>2. Meeting' /\ Kept(t) /\ Here(t)'
    BY <1>2, EntersMove, Arrives, Zeroes
  <2>3. Here(t)
    BY <2>1, AtWork DEF Working
  <2>4. Past(t) /\ Past(t)' /\ Mine(t) = t /\ Mine(t)' = t
    BY <2>1, <2>2, <2>3 DEF Past, Mine
  <2> QED  BY <1>1, <2>2, <2>4, TallyKept DEF Meeting
<1>3. CASE Release(t)
  <2>1. OnNext /\ Active \subseteq PastNow
    BY <1>3, Releases DEF PastNow
  <2>2. Stage \in DOMAIN Graph.stages \/ Stage = 1
    <3>1. at[t] = "release"
      BY <1>3 DEF Release
    <3>2. Here(t)
      BY <3>1, AtWork DEF Working
    <3> QED  BY <3>2 DEF Here, Over
  <2>3. pool'.current_chunk \in Nat
    BY <1>1, SheetKinds DEF SheetSized
  <2>4. Sheet(made', Graph.stages, pool.active, Stage, pool'.current_chunk, PastNow, MineNow)
    BY <1>1 DEF Tally, Meeting
  <2> QED  BY <1>1, <2>1, <2>2, <2>3, <2>4, TallyNext
<1>4. CASE Spin(t)
  <2>1. CASE Over /\ at'[0] = "computed"
    <3>1. DOMAIN Graph.stages = 1..Len(Graph.stages) /\ Len(Graph.stages) \in Nat
          /\ Stage \in Nat \ {0} /\ Stage # 1 /\ Stage \notin DOMAIN Graph.stages
      BY <2>1, SheetKinds, LenProperties DEF SheetSized, Over
    <3>2. Sheet(made, Graph.stages, pool.active, Stage, pool.current_chunk, PastNow, MineNow)
      BY DEF Tally, Meeting
    <3>3. \A r \in DOMAIN made : r < Stage
      BY <3>1, <3>2 DEF Sheet
    <3>4. \A r \in DOMAIN made : NBN!Complete(made[r])
      BY <3>2, <3>3 DEF Sheet
    <3> QED  BY <1>1, <2>1, <3>4 DEF Tally, InGraph, Working
  <2>2. CASE Meeting' /\ Kept(t) /\ ~Past(t) /\ ~Past(t)' /\ Mine(t) = t /\ Mine(t)' = t
    <3>1. InGraph' /\ (Past(t)' <=> Past(t)) /\ Mine(t)' = Mine(t)
      BY <2>2 DEF Meeting
    <3> QED  BY <1>1, <2>2, <3>1, TallyKept
  <2> QED  BY <1>1, <1>4, <2>1, <2>2, Spins
<1> QED  BY <1>1, <1>2, <1>3, <1>4

\* A worker between graphs computes nothing.
LEMMA IdleTally ==
  ASSUME PoolTyped, Sized, Resting \/ Meeting, Tally, NEW w \in Workers,
         IdleStep(w) \/ (Resting /\ WorkerStep(w))
  PROVE  Tally' /\ made' = made
<1>0. w \in Threads /\ 0 \in Threads \ {w}
  BY PoolKinds DEF Workers
<1>1. CASE Meeting /\ IdleStep(w)
  <2>1. made' = made /\ pool' = pool
    BY <1>1, Idles
  <2>2. Meeting' /\ Kept(w) /\ ~Past(w) /\ ~Past(w)' /\ Mine(w) = w /\ Mine(w)' = w
    BY <1>1, IdleMeets
  <2>3. InGraph' /\ (Past(w)' <=> Past(w)) /\ Mine(w)' = Mine(w) /\ pool'.current_chunk = pool.current_chunk
    BY <2>1, <2>2 DEF Meeting
  <2> QED  BY <1>0, <1>1, <2>1, <2>2, <2>3, TallyKept
<1>2. CASE Resting
  <2>1. made' = made
    <3>1. IdleStep(w) \/ Spin(w)
      <4>1. Left(w)
        BY <1>2 DEF Resting
      <4> QED  BY <4>1 DEF WorkerStep, ComputeStep, IdleStep, Left, Idle, Share, Chunk, Enter, Arrive,
               Zero, Release
    <3> QED  BY <3>1, Idles DEF Spin
  <2>2. at'[0] = at[0]
    BY <1>2, WorkersLeaveCaller DEF WorkerStep, IdleStep
  <2>3. ~InGraph /\ ~InGraph'
    BY <1>2, <2>2 DEF Resting, InGraph, Working
  <2>4. (at[0] = "computed" <=> at'[0] = "computed") /\ made' = made
    BY <2>1, <2>2
  <2>5. CASE at[0] = "computed"
    <3>1. \A s \in DOMAIN made : NBN!Complete(made[s])
      BY <2>3, <2>5 DEF Tally
    <3>2. \A s \in DOMAIN made' : NBN!Complete(made'[s])
      BY <2>1, <3>1
    <3> QED  BY <2>1, <2>3, <2>4, <2>5, <3>2 DEF Tally
  <2>6. CASE at[0] # "computed"
    <3>1. made = <<>>
      BY <2>3, <2>6 DEF Tally
    <3> QED  BY <2>1, <2>3, <2>4, <2>6, <3>1 DEF Tally
  <2> QED  BY <2>5, <2>6
<1> QED  BY <1>1, <1>2

\* Between two graphs nothing is counted.
LEMMA EmptyTally ==
  ASSUME Tally, at[0] \in {"none", "reset", "kickoff", "join"},
         at'[0] \in {"none", "reset", "kickoff", "join"}, made' = made
  PROVE  Tally' /\ made = <<>>
BY DEF Tally, InGraph, Working

\* The sheet of a new graph.
LEMMA KickoffTally ==
  ASSUME PoolTyped, Sized, Resting, Tally, Kickoff
  PROVE  Tally' /\ Promised
<1> DEFINE g == Graph.stages  n == TasksOf(pool.size)  c == pool.current_chunk
<1>1. /\ at[0] = "kickoff" /\ splits' = splits /\ splits # <<>> /\ made = <<>>
      /\ pool' = [pool EXCEPT !.n_graph = (@ + 1) % CounterWrap, !.active = n]
      /\ at' = [Woken EXCEPT ![0] = "share"]
  BY DEF Kickoff, Announce, Resting, Tally, InGraph, Working
<1>2. pool'.active = n /\ pool'.current_chunk = c /\ Graph' = Graph
  BY <1>1 DEF PoolTyped, Pools, Graph
<1>3. Meeting' /\ PoolTyped'
  <2>1. Meeting'
    BY Kicks
  <2>2. pool.size \in 1..MaxThreads
    BY PoolKinds, PoolAssumption DEF Sized, Resting, Kickoff, Announce, PoolTyped, Pools
  <2>3. PoolTyped'
    BY <2>2, CallerTyped
  <2> QED  BY <2>1, <2>3
<1>4. SheetSized(g, n, 1, c) /\ n <= MaxThreads
  <2>1. pool.size \in Nat \ {0} /\ pool.size <= MaxThreads
    <3>1. pool.live
      BY <1>1 DEF Resting
    <3>2. pool.size \in 0..MaxThreads /\ MaxThreads \in Nat
      BY PoolAssumption DEF PoolTyped, Pools
    <3> QED  BY <3>1, <3>2 DEF Sized
  <2>2. g \in Seq(Nat) /\ WellFormed(g) /\ n \in 1..pool.size
    BY <1>1, <2>1, Tasks
  <2>3. n \in Nat \ {0} /\ n <= MaxThreads
    <3> HIDE DEF n
    <3> QED  BY <2>1, <2>2, PoolAssumption
  <2>4. c \in Nat
    BY DEF PoolTyped, Pools
  <2> QED  BY <2>2, <2>3, <2>4 DEF SheetSized
<1>5. made' = [s \in DOMAIN g |-> [p \in 1..(IF g[s] = 0 THEN n ELSE g[s]) |-> 0]]
  BY DEF Kickoff, Announce, Parts
<1>6. at'[0] = "share" /\ InGraph' /\ local'[0].stage = 1 /\ Stage' = 1
  <2>1. at'[0] = "share"
    BY <1>1, Wakes
  <2>2. DOMAIN local = Threads /\ 0 \in Threads
        /\ local[0] \in [seen : Nat \X Nat, stages : Seq(Nat), stage : Nat, chunk : Nat, passed : Nat]
    BY PoolKinds DEF PoolTyped, Pools, Locals
  <2>3. local' = [local EXCEPT ![0].stages = g, ![0].stage = 1]
    BY DEF Kickoff, Announce
  <2>4. local'[0].stage = 1
    BY <2>2, <2>3
  <2> QED  BY <2>1, <2>4 DEF InGraph, Working, Stage
<1>7. ASSUME NEW mine PROVE Sheet(made', g, n, 1, c, {}, mine)
  <2> HIDE DEF g, n, c
  <2> QED  BY <1>4, <1>5, NothingDone
<1>8. DOMAIN g = 1..Len(g) /\ Len(g) \in Nat /\ \A r \in DOMAIN g : g[r] \in Nat
  BY <1>4, LenProperties, ElementOfSeq DEF SheetSized
<1>9. Sheet(made', g, n, 1, c, PastNow', MineNow')
  <2>1. CASE 1 \in DOMAIN g
    <3>1. g[1] = 0
      BY <1>4, <1>8, <2>1 DEF SheetSized, WellFormed
    <3>2. made'[1] = [p \in 1..n |-> 0] /\ 1 \in DOMAIN made'
      BY <1>5, <2>1, <3>1
    <3>3. ASSUME NEW w \in Active', Past(w)' PROVE FALSE
      <4>1. w \in Threads /\ w \in Nat /\ w < n
        <5>1. w \in 0..(n - 1)
          BY <1>2, <3>3 DEF Active
        <5>2. n \in Nat \ {0} /\ n <= MaxThreads /\ MaxThreads \in Nat
          BY <1>4, PoolAssumption DEF SheetSized
        <5> HIDE DEF n
        <5> QED  BY <5>1, <5>2 DEF Threads
      <4>2. w # 0 /\ w \in Workers
        BY <1>6, <3>3, <4>1 DEF Past, Workers
      <4>3. n \in Nat /\ w + 1 \in 1..n
        BY <1>4, <4>1 DEF SheetSized
      <4>4. ~Counts(w)'
        BY <3>2, <4>3 DEF Counts
      <4> QED  BY <1>6, <3>3, <4>4 DEF Past, Here
    <3>4. PastNow' = {}
      BY <3>3 DEF PastNow
    <3> QED  BY <1>7, <3>4
  <2>2. CASE 1 \notin DOMAIN g
    <3>1. DOMAIN g = {}
      BY <1>8, <2>2
    <3>2. DOMAIN made' = DOMAIN g
      BY <1>5
    <3> QED  BY <3>1, <3>2 DEF Sheet
  <2> QED  BY <2>1, <2>2
<1>10. Tally'
  BY <1>2, <1>6, <1>9 DEF Tally
<1>11. Promised
  <2>1. \A s \in DOMAIN made' : \A p \in DOMAIN made'[s] : made'[s][p] = 0
    BY <1>5
  <2>2. CASE made' = <<>>
    BY <1>1, <2>2 DEF Promised
  <2>3. CASE made' # <<>>
    BY <1>1, <2>1, <2>3 DEF Promised, NBN!ANext, NBN!AStart
  <2> QED  BY <2>2, <2>3
<1> QED  BY <1>10, <1>11

\* A call returns when all of its graph is computed.
LEMMA CallerTally ==
  ASSUME PoolTyped, Sized, Resting, Tally, NEW n, Reset(n) \/ Computed \/ FreePool
  PROVE  Tally' /\ Promised
<1>0. 0 \in Threads /\ DOMAIN at = Threads
  BY PoolKinds DEF PoolTyped
<1>1. CASE Reset(n) \/ FreePool
  <2>1. /\ at[0] \in {"reset", "join"} /\ made' = made
        /\ at'[0] \in {"kickoff", "reset", "none"}
    BY <1>0, <1>1, Going DEF Reset, FreePool, Spawn
  <2> QED  BY <2>1, EmptyTally DEF Promised
<1>2. CASE Computed
  <2>1. at[0] = "computed" /\ made' = <<>> /\ at'[0] \in {"none", "reset", "join"}
    BY <1>0, <1>2, Going, Wakes DEF Computed
  <2>2. \A s \in DOMAIN made : NBN!Complete(made[s])
    BY <2>1 DEF Tally, InGraph, Working
  <2>3. Tally'
    BY <2>1 DEF Tally, InGraph, Working
  <2> QED  BY <2>1, <2>2, <2>3 DEF Promised, NBN!ANext, NBN!AReturn
<1> QED  BY <1>1, <1>2

\* Every step of the pool keeps the sheet and is a step of NodeByNode.
LEMMA TallyStep ==
  ASSUME Pooled, Tally, NEW n \in 1..MaxThreads,
         CallerStep(n) \/ \E w \in Workers : WorkerStep(w) \/ Spurious(w)
  PROVE  Tally' /\ Promised
<1>0. PoolTyped /\ Sized /\ (Resting \/ Meeting)
  BY DEF Pooled
<1>1. ASSUME Meeting, NEW t \in Threads, ComputeStep(t) PROVE Tally' /\ Promised
  <2>1. CASE Share(t)
    BY <1>0, <1>1, <2>1, ShareTally
  <2>2. CASE Chunk(t)
    BY <1>0, <1>1, <2>2, ChunkTally
  <2>3. CASE Enter(t) \/ Arrive(t) \/ Zero(t) \/ Release(t) \/ Spin(t)
    BY <1>0, <1>1, <2>3, BarrierTally DEF Promised
  <2> QED  BY <1>1, <2>1, <2>2, <2>3 DEF ComputeStep
<1>2. ASSUME NEW w \in Workers, WorkerStep(w) \/ Spurious(w) PROVE Tally' /\ Promised
  <2>1. w \in Threads
    BY DEF Workers
  <2>2. CASE IdleStep(w) \/ (Resting /\ WorkerStep(w))
    BY <1>0, <2>2, IdleTally DEF Promised
  <2>3. CASE Meeting /\ ComputeStep(w)
    BY <1>1, <2>1, <2>3
  <2> QED  BY <1>0, <1>2, <2>2, <2>3 DEF WorkerStep, IdleStep
<1>3. CASE CallerStep(n)
  <2>1. CASE Resting
    <3>1. ~ComputeStep(0)
      BY <2>1 DEF Resting, ComputeStep, Share, Chunk, Enter, Arrive, Zero, Release, Spin
    <3> QED  BY <1>0, <1>3, <2>1, <3>1, KickoffTally, CallerTally DEF CallerStep
  <2>2. CASE Meeting
    <3>1. ~Reset(n) /\ ~Kickoff /\ ~Computed /\ ~FreePool
      BY <2>2 DEF Meeting, InGraph, Working, Reset, Kickoff, Announce, Computed, FreePool
    <3>2. 0 \in Threads
      BY <1>0, PoolKinds
    <3> QED  BY <1>1, <1>3, <2>2, <3>1, <3>2 DEF CallerStep
  <2> QED  BY <1>0, <2>1, <2>2
<1> QED  BY <1>2, <1>3

\* Nothing of the pool changes.
LEMMA TallyStays ==
  ASSUME Tally, UNCHANGED poolVars
  PROVE  Tally' /\ Promised
<1>1. pool' = pool /\ at' = at /\ local' = local /\ splits' = splits /\ made' = made
  BY DEF poolVars
<1>2. Stage' = Stage /\ Graph' = Graph /\ Active' = Active /\ (InGraph' <=> InGraph) /\ Signal' = Signal
  BY <1>1 DEF Stage, Graph, Active, InGraph, Signal
<1>3. \A t : (Past(t)' <=> Past(t)) /\ Mine(t)' = Mine(t)
  BY <1>1, <1>2 DEF Past, Here, Joined, Over, Product, Counts, Mine
<1>4. PastNow' = PastNow /\ MineNow' = MineNow
  BY <1>2, <1>3 DEF PastNow, MineNow
<1>5. Promised
  BY <1>1 DEF Promised
<1>6. CASE InGraph
  <2>1. Sheet(made', Graph.stages', pool'.active, Stage', pool'.current_chunk, PastNow', MineNow')
    BY <1>1, <1>2, <1>4, <1>6 DEF Tally
  <2>2. InGraph'
    BY <1>2, <1>6
  <2> QED  BY <1>5, <2>1, <2>2 DEF Tally
<1>7. CASE ~InGraph
  <2>1. ~InGraph'
    BY <1>2, <1>7
  <2>2. CASE at[0] = "computed"
    <3>1. \A s \in DOMAIN made : NBN!Complete(made[s])
      BY <1>7, <2>2 DEF Tally
    <3>2. \A s \in DOMAIN made' : NBN!Complete(made'[s])
      BY <1>1, <3>1
    <3>3. at'[0] = "computed"
      BY <1>1, <2>2
    <3> QED  BY <1>5, <2>1, <3>2, <3>3 DEF Tally
  <2>3. CASE at[0] # "computed"
    <3>1. made = <<>>
      BY <1>7, <2>3 DEF Tally
    <3>2. made' = <<>> /\ at'[0] # "computed"
      BY <1>1, <2>3, <3>1
    <3> QED  BY <1>5, <2>1, <3>2 DEF Tally
  <2> QED  BY <2>2, <2>3
<1> QED  BY <1>6, <1>7
===============================================================================
