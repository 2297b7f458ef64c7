-------------------------- MODULE LlamaRunLoopProofs --------------------------
(***************************************************************************)
(* Proofs about LlamaRunLoop, for every set of flows, channel capacity,    *)
(* length of replies and number of loads.                                  *)
(***************************************************************************)
EXTENDS LlamaRunLoop, SequenceTheorems, TLAPS

(***************************************************************************)
(* Type correctness, whatever the length of a reply.                       *)
(***************************************************************************)
\* A load that is waiting has a name left to take.
TypeInv == TypeOK /\ (mgr = "load" => loads < MaxLoads)

\* Nothing is queued, loaded or running at the start.
LEMMA TypeInit == Init => TypeInv
BY RunLoopAssumption DEF Init, TypeInv, TypeOK, Contexts, FlowSteps

\* The queue stays a sequence of tasks when a task is added or taken.
LEMMA QueueFacts ==
  ASSUME TypeOK
  PROVE  /\ \A t \in Gens \cup {Manager} : Append(tasks, t) \in Seq(Gens \cup {Manager})
         /\ tasks # <<>> => Tail(tasks) \in Seq(Gens \cup {Manager})
BY AppendProperties, HeadTailProperties DEF TypeOK

\* A step of the executor or of the main thread keeps the types.
LEMMA TypeStep == TypeInv /\ [Next]_vars => TypeInv'
<1> SUFFICES ASSUME TypeInv, [Next]_vars PROVE TypeInv'
  OBVIOUS
<1>p. TypeOK /\ (mgr = "load" => loads < MaxLoads)
  BY DEF TypeInv
<1>q. \A t \in Gens \cup {Manager} : Append(tasks, t) \in Seq(Gens \cup {Manager})
  BY <1>p, QueueFacts
<1>t. tasks # <<>> => Tail(tasks) \in Seq(Gens \cup {Manager})
  BY <1>p, QueueFacts
<1>1. ASSUME NEW g \in Gens, Collect(g) PROVE TypeOK'
  BY <1>p, <1>1, <1>q, RunLoopAssumption DEF Collect, TypeOK, FlowSteps, native, Step
<1>2. ASSUME NEW g \in Gens, Take(g) PROVE TypeOK'
  <2>1. tasks' \in Seq(Gens \cup {Manager}) /\ pc' \in [Gens -> FlowSteps]
    BY <1>p, <1>2, <1>q DEF Take, TypeOK, FlowSteps, Step
  <2>2. buf' \in [Gens -> 0..BufferCap]
    <3>1. buf[g] \in 0..BufferCap /\ buf[g] > 0 /\ buf[g] - 1 \in 0..BufferCap
      BY <1>p, <1>2, RunLoopAssumption DEF Take, TypeOK
    <3>2. buf' = buf \/ buf' = [buf EXCEPT ![g] = buf[g] - 1]
      BY <1>2 DEF Take
    <3> QED BY <1>p, <3>1, <3>2 DEF TypeOK
  <2> QED BY <1>p, <1>2, <2>1, <2>2 DEF Take, TypeOK, native
<1>3. ASSUME NEW g \in Gens, Cancel(g) PROVE TypeOK'
  <2>1. tasks' \in Seq(Gens \cup {Manager}) /\ pc' \in [Gens -> FlowSteps]
    BY <1>p, <1>3, <1>q DEF Cancel, TypeOK, FlowSteps, Step
  <2>2. buf' \in [Gens -> 0..BufferCap] /\ cancelled' \in [Gens -> BOOLEAN]
    BY <1>p, <1>3, RunLoopAssumption DEF Cancel, TypeOK
  <2> QED BY <1>p, <1>3, <2>1, <2>2 DEF Cancel, TypeOK, native
<1>4. ASSUME NEW g \in Gens, Finished(g) PROVE TypeOK'
  BY <1>p, <1>4 DEF Finished, TypeOK, FlowSteps, Step, native
<1>5. ASSUME NEW g \in Gens, StartIdle(g) PROVE TypeOK'
  BY <1>p, <1>5, <1>t DEF StartIdle, Dispatch, TypeOK, FlowSteps, Step, native
<1>6. ASSUME NEW g \in Gens, Start(g) PROVE TypeOK'
  BY <1>p, <1>6, <1>t DEF Start, Dispatch, TypeOK, FlowSteps, Step, native
<1>7. ASSUME NEW g \in Gens, Resume(g) PROVE TypeOK'
  BY <1>p, <1>7, <1>t DEF Resume, Dispatch, TypeOK, FlowSteps, Step, native
<1>8. ASSUME NEW g \in Gens, Token(g) PROVE TypeOK'
  <2>1. made' \in [Gens -> 0..MaxReply]
    BY <1>p, <1>8, RunLoopAssumption DEF Token, TypeOK
  <2>2. buf' \in [Gens -> 0..BufferCap]
    <3>1. buf[g] < BufferCap => buf[g] + 1 \in 0..BufferCap
      BY <1>p, RunLoopAssumption DEF TypeOK
    <3>2. buf' = buf \/ (buf[g] < BufferCap /\ buf' = [buf EXCEPT ![g] = buf[g] + 1])
      BY <1>8 DEF Token, Emit
    <3> QED BY <1>p, <3>1, <3>2 DEF TypeOK
  <2>3. /\ pc' \in [Gens -> FlowSteps] /\ thread' \in Gens \cup {None}
        /\ yielded' \in [Gens -> BOOLEAN]
    BY <1>p, <1>8 DEF Token, Emit, TypeOK, FlowSteps, Step
  <2> QED BY <1>p, <1>8, <2>1, <2>2, <2>3 DEF Token, TypeOK, native
<1>9. ASSUME NEW g \in Gens, Stop(g) PROVE TypeOK'
  BY <1>p, <1>9 DEF Stop, TypeOK, FlowSteps, Step, native
<1>10. ASSUME NEW op \in {"load", "unload"}, Request(op) PROVE TypeOK'
  BY <1>p, <1>10, <1>q DEF Request, TypeOK, native, flow
<1>11. ASSUME Unload PROVE TypeOK'
  <2>1. tasks' \in Seq(Gens \cup {Manager})
    BY <1>11, <1>t DEF Unload, Dispatch
  <2>2. ctx' \in Contexts /\ kv' \in Gens \cup {None} /\ mgr' = "none"
    BY <1>11, RunLoopAssumption DEF Unload, Contexts
  <2>3. live' \subseteq Contexts \ {0}
    BY <1>p, <1>11 DEF Unload, TypeOK
  <2> QED BY <1>p, <1>11, <2>1, <2>2, <2>3 DEF Unload, TypeOK, flow
<1>12. ASSUME Load PROVE TypeOK'
  <2>1. tasks' \in Seq(Gens \cup {Manager})
    BY <1>p, <1>12, <1>t DEF Load, Dispatch
  <2>2. loads' \in Contexts \ {0}
    BY <1>p, <1>12, RunLoopAssumption DEF Load, Dispatch, TypeOK, Contexts
  <2>3. ctx' \in Contexts /\ kv' \in Gens \cup {None} /\ mgr' = "none"
    BY <1>p, <1>12, <2>2 DEF Load, TypeOK
  <2>4. live' \subseteq Contexts \ {0} /\ lost' \subseteq Contexts \ {0}
    BY <1>p, <1>12, <2>2 DEF Load, TypeOK
  <2> QED BY <1>p, <1>12, <2>1, <2>2, <2>3, <2>4 DEF Load, TypeOK, flow
<1>13. ASSUME UNCHANGED vars PROVE TypeOK'
  BY <1>p, <1>13 DEF vars, native, flow, TypeOK
<1>14. TypeOK'
  BY <1>1, <1>2, <1>3, <1>4, <1>5, <1>6, <1>7, <1>8, <1>9, <1>10, <1>11, <1>12,
     <1>13 DEF Next, OnThread
<1>15. mgr' = "load" => loads' < MaxLoads
  <2>1. ASSUME NEW op \in {"load", "unload"}, Request(op) PROVE mgr' = "load" => loads' < MaxLoads
    BY <2>1 DEF Request, native
  <2>2. CASE Load \/ Unload
    BY <2>2 DEF Load, Unload
  <2>3. CASE UNCHANGED <<mgr, loads>>
    BY <2>3, <1>p
  <2> QED BY <2>1, <2>2, <2>3 DEF Next, OnThread, vars, native, Collect, Take, Cancel,
             Finished, StartIdle, Start, Resume, Token, Stop
<1> QED BY <1>14, <1>15 DEF TypeInv

\* The executor's queue, the channel of every flow and the context keep their
\* types; in particular no channel ever exceeds its capacity.
THEOREM TypeCorrect == Spec => []TypeOK
<1>1. TypeInv => TypeOK
  BY DEF TypeInv
<1> QED BY TypeInit, TypeStep, <1>1, PTL DEF Spec

(***************************************************************************)
(* A reply owns what it captured until it gives the thread away.           *)
(***************************************************************************)
\* Only a flow on the thread can be disturbed, and only a flow that has
\* suspended in emit comes back to the thread without Start.
Owns(g) ==
  /\ pc[g] \in {"blocked", "resuming"} => yielded[g]
  /\ pc[g] = "loop" <=> thread = g
  /\ thread = g /\ ~yielded[g] => held[g] = ctx /\ kv = g

RunLoopInv == TypeInv /\ \A g \in Gens : Owns(g)

\* At the start no flow is on the thread.
LEMMA InvInit == Init => RunLoopInv
<1> SUFFICES ASSUME Init, NEW g \in Gens PROVE Owns(g)
  BY TypeInit DEF RunLoopInv
<1>1. pc[g] = "idle" /\ thread = None /\ g # None
  BY RunLoopAssumption DEF Init
<1> QED BY <1>1 DEF Owns

\* A step of any flow, or of ModelManager, keeps what every flow owns.
LEMMA InvStep == RunLoopInv /\ [Next]_vars => RunLoopInv'
<1> SUFFICES ASSUME RunLoopInv, [Next]_vars, NEW h \in Gens PROVE Owns(h)'
  BY TypeStep DEF RunLoopInv
<1>t. TypeOK /\ \A g \in Gens : Owns(g)
  BY DEF RunLoopInv, TypeInv
<1>n. \A g \in Gens : g # None
  BY RunLoopAssumption
<1>u. ASSUME UNCHANGED <<thread, ctx, kv, pc, held, yielded>> PROVE Owns(h)'
  BY <1>u, <1>t DEF Owns
<1>1. ASSUME NEW g \in Gens, Collect(g) PROVE Owns(h)'
  BY <1>1, <1>t DEF Collect, Owns, TypeOK, Step, native
<1>2. ASSUME NEW g \in Gens, Take(g) PROVE Owns(h)'
  BY <1>2, <1>t DEF Take, Owns, TypeOK, Step, native
<1>3. ASSUME NEW g \in Gens, Cancel(g) PROVE Owns(h)'
  BY <1>3, <1>t DEF Cancel, Owns, TypeOK, Step, native
<1>4. ASSUME NEW g \in Gens, Finished(g) PROVE Owns(h)'
  BY <1>4, <1>t DEF Finished, Owns, TypeOK, Step, native
<1>5. ASSUME NEW g \in Gens, StartIdle(g) PROVE Owns(h)'
  BY <1>5, <1>t DEF StartIdle, Owns, TypeOK, Step, native
<1>6. ASSUME NEW g \in Gens, Start(g) PROVE Owns(h)'
  <2>1. /\ thread = None /\ thread' = g /\ pc' = [pc EXCEPT ![g] = "loop"]
        /\ held' = [held EXCEPT ![g] = ctx] /\ kv' = g /\ ctx' = ctx
        /\ yielded' = [yielded EXCEPT ![g] = FALSE]
    BY <1>6 DEF Start, Dispatch, Step, native
  <2> QED BY <2>1, <1>t, <1>n DEF Owns, TypeOK
<1>7. ASSUME NEW g \in Gens, Resume(g) PROVE Owns(h)'
  <2>1. /\ thread = None /\ pc[g] = "resuming" /\ yielded[g]
        /\ UNCHANGED <<ctx, kv, held, yielded>>
    BY <1>7, <1>t DEF Resume, Dispatch, Owns, native
  <2>2. \/ pc' = [pc EXCEPT ![g] = "closed"] /\ thread' = None
        \/ pc' = [pc EXCEPT ![g] = "loop"] /\ thread' = g
    BY <1>7, <2>1 DEF Resume, Step
  <2> QED BY <2>1, <2>2, <1>t, <1>n DEF Owns, TypeOK
<1>8. ASSUME NEW g \in Gens, Token(g) PROVE Owns(h)'
  <2>1. thread = g /\ pc[g] = "loop" /\ UNCHANGED <<ctx, kv, held>>
    BY <1>8 DEF Token, native
  <2>2. CASE cancelled[g]
    <3>1. pc' = [pc EXCEPT ![g] = "closed"] /\ thread' = None /\ UNCHANGED yielded
      BY <1>8, <2>2 DEF Token, Emit, Step
    <3> QED BY <2>1, <3>1, <1>t, <1>n DEF Owns, TypeOK
  <2>3. CASE ~cancelled[g] /\ buf[g] < BufferCap
    <3>1. UNCHANGED <<pc, thread, yielded>>
      BY <1>8, <2>3 DEF Token, Emit
    <3> QED BY <2>1, <3>1, <1>u
  <2>4. CASE ~cancelled[g] /\ ~(buf[g] < BufferCap)
    <3>1. /\ pc' = [pc EXCEPT ![g] = "blocked"] /\ thread' = None
          /\ yielded' = [yielded EXCEPT ![g] = TRUE]
      BY <1>8, <2>4 DEF Token, Emit, Step
    <3> QED BY <2>1, <3>1, <1>t, <1>n DEF Owns, TypeOK
  <2> QED BY <2>2, <2>3, <2>4
<1>9. ASSUME NEW g \in Gens, Stop(g) PROVE Owns(h)'
  BY <1>9, <1>t, <1>n DEF Stop, Owns, TypeOK, Step, native
<1>10. ASSUME NEW op \in {"load", "unload"}, Request(op) PROVE Owns(h)'
  BY <1>10, <1>u DEF Request, native, flow
<1>11. ASSUME Load \/ Unload PROVE Owns(h)'
  <2>1. thread = None /\ UNCHANGED <<thread, flow>>
    BY <1>11 DEF Load, Unload, Dispatch
  <2> QED BY <2>1, <1>t, <1>n DEF Owns, flow
<1>12. CASE UNCHANGED vars
  BY <1>12, <1>u DEF vars, native, flow
<1> QED BY <1>1, <1>2, <1>3, <1>4, <1>5, <1>6, <1>7, <1>8, <1>9, <1>10, <1>11, <1>12
        DEF Next, OnThread

\* As long as it has not suspended in emit, a reply calls the native side with
\* the context that is loaded, for any number of replies, loads and unloads.
THEOREM ContextOwned == Spec => []OwnContext
<1>1. RunLoopInv => OwnContext
  BY DEF RunLoopInv, Owns, OwnContext
<1> QED BY <1>1, InvInit, InvStep, PTL DEF Spec

\* Under the same condition the KV cache holds that reply's own tokens: no
\* other reply has cleared or refilled it.
THEOREM CacheOwned == Spec => []OwnCache
<1>1. RunLoopInv => OwnCache
  BY DEF RunLoopInv, Owns, OwnCache
<1> QED BY <1>1, InvInit, InvStep, PTL DEF Spec

(***************************************************************************)
(* Native memory.                                                          *)
(***************************************************************************)
\* The strengthening: a context that is lost is never the loaded one, so no
\* unload frees it, and a new load takes a name that is not in use.
MemoryInv == NoLeak /\ ctx \notin lost /\ \A c \in live : c <= loads

\* What is allocated is the loaded context and what failed loads left behind,
\* across any sequence of loads and unloads.
THEOREM MemoryAccounted == Spec => []NoLeak
<1>1. Init => MemoryInv
  BY DEF Init, MemoryInv, NoLeak
<1>2. MemoryInv /\ TypeOK /\ [Next]_vars => MemoryInv'
  <2> SUFFICES ASSUME MemoryInv, TypeOK, [Next]_vars PROVE MemoryInv'
    OBVIOUS
  <2>0. loads \in Nat /\ loads + 1 # 0 /\ (\A c \in live : c \in Nat) /\ 0 \notin lost
        /\ loads + 1 \notin live /\ lost \subseteq live
    BY RunLoopAssumption DEF TypeOK, Contexts, MemoryInv, NoLeak
  <2>1. CASE Load
    <3>0. loads' = loads + 1
      BY <2>1 DEF Load
    <3>1. CASE ctx = 0 /\ ctx' = loads' /\ live' = live \cup {loads'} /\ lost' = lost
      BY <3>0, <3>1, <2>0 DEF MemoryInv, NoLeak
    <3>2. CASE UNCHANGED <<ctx, live, lost>>
      BY <3>0, <3>2, <2>0 DEF MemoryInv, NoLeak
    <3>3. CASE /\ ctx = 0 /\ ctx' = ctx /\ live' = live \cup {loads'}
               /\ lost' = lost \cup {loads'}
      BY <3>0, <3>3, <2>0 DEF MemoryInv, NoLeak
    <3> QED BY <2>1, <3>1, <3>2, <3>3 DEF Load
  <2>2. CASE Unload
    BY <2>2, <2>0 DEF Unload, MemoryInv, NoLeak
  <2>3. CASE UNCHANGED native
    BY <2>3 DEF native, MemoryInv, NoLeak
  <2>4. ASSUME NEW g \in Gens,
               Collect(g) \/ Take(g) \/ Cancel(g) \/ Finished(g) \/ OnThread(g)
        PROVE  UNCHANGED native
    BY <2>4 DEF Collect, Take, Cancel, Finished, OnThread, StartIdle, Start, Resume,
       Token, Stop
  <2>5. ASSUME NEW op \in {"load", "unload"}, Request(op) PROVE UNCHANGED native
    BY <2>5 DEF Request
  <2>6. CASE UNCHANGED vars
    BY <2>6, <2>3 DEF vars
  <2> QED BY <2>1, <2>2, <2>3, <2>4, <2>5, <2>6 DEF Next
<1>3. MemoryInv => NoLeak
  BY DEF MemoryInv
<1> QED BY <1>1, <1>2, <1>3, TypeCorrect, PTL DEF Spec
===============================================================================
