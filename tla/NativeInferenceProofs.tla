------------------------- MODULE NativeInferenceProofs -------------------------
(***************************************************************************)
(* Theorems about the native calls and the pool that computes for them,    *)
(* for all workloads, batch sizes, context sizes and pool sizes.           *)
(***************************************************************************)
EXTENDS NativeInference, ThreadPoolProofs

(***************************************************************************)
(* Sizes.                                                                  *)
(***************************************************************************)
\* Rounding up to a multiple loses nothing.
LEMMA RoundedUp ==
  ASSUME NEW a \in Nat \ {0}, NEW p \in Nat \ {0}
  PROVE  ((a + p - 1) \div p) * p \in Nat \ {0}
<1> DEFINE q == (a + p - 1) \div p
<1>1. a + p - 1 \in Nat /\ a + p - 1 >= p
  OBVIOUS
<1>2. q \in Nat /\ q >= 1
  BY <1>1
<1> QED  BY <1>2

\* A prompt is not larger than its context's window, a batch of the context not larger
\* than completion_init()'s.
LEMMA Sizes ==
  ASSUME NEW d \in Workloads
  PROVE  /\ n_ctx(d) \in Nat \ {0} /\ n_batch(d) \in 1..N_BATCH
         /\ MaxPrompt(d) \in 1..n_ctx(d)
<1>1. d.requested \in Nat \ {0} /\ d.trained \in Nat /\ N_BATCH \in Nat \ {0} /\ PAD \in Nat \ {0}
  BY InferenceAssumption
<1>2. Requested(d) \in Nat \ {0}
  BY <1>1 DEF Requested, Least
<1>3. n_batch(d) \in 1..N_BATCH
  BY <1>1, <1>2 DEF n_batch, Least
<1>4. n_ctx(d) \in Nat \ {0}
  BY <1>1, <1>2, RoundedUp DEF n_ctx
<1>5. MaxPrompt(d) \in 1..n_ctx(d)
  <2>1. n_ctx(d) \div 4 \in Nat /\ n_ctx(d) \div 4 <= n_ctx(d)
    BY <1>4
  <2> QED  BY <1>4, <2>1 DEF MaxPrompt, Most
<1> QED  BY <1>3, <1>4, <1>5

(***************************************************************************)
(* Text that is held back.                                                 *)
(***************************************************************************)
\* The steps of the pool leave the calls alone.
LEMMA PoolLeavesCalls ==
  ASSUME [Next]_vars, ~Request, ~CallStep
  PROVE  UNCHANGED Rest
BY DEF Next, Caller, Worker, Rest, vars

\* Text is held back only while this reply's own bytes do not end on a whole glyph.
THEOREM NothingIsSwallowed == Spec => []NothingSwallowed
<1> DEFINE Same == cache = text
<1>1. Init => Same
  BY DEF Init
<1>2. Same /\ [Next]_vars => Same'
  <2> SUFFICES ASSUME Same, [Next]_vars PROVE Same'
    OBVIOUS
  <2>1. CASE Request
    BY <2>1 DEF Request, LoadModel, Unload, Begin, session
  <2>2. CASE CallStep
    BY <2>2 DEF CallStep, LoadFails, NewContext, Repool, LoadEnds, Unloaded, PromptBatch,
       DecodeAborts, DecodeRefused, DecodeNotAllocated, DecodeCompute, DecodeDone, Decoded,
       SampleAborts, ReplyEnds, SampleToken, Emit, KvCacheClear, session
  <2>3. CASE ~Request /\ ~CallStep
    BY <2>3, PoolLeavesCalls DEF Rest, session
  <2> QED  BY <2>1, <2>2, <2>3
<1>3. Same => NothingSwallowed
  BY DEF NothingSwallowed
<1> QED  BY <1>1, <1>2, <1>3, PTL DEF Spec

(***************************************************************************)
(* A reply and the cache.                                                  *)
(***************************************************************************)
\* The cells of the first n positions of this reply.
Held(n) == {[reply |-> reply, pos |-> p] : p \in 0..(n - 1)}

Typed ==
  /\ load \in Workloads
  /\ reply \in Nat /\ n_tokens \in Nat /\ fed \in Nat /\ n_cur \in Nat
  /\ batch \in [first : Nat, n : Nat, output : BOOLEAN]
  /\ n_outputs \in {0, 1} /\ failed \in {"no", "prompt", "yes"}

\* What is decoded: the next chunk of a prompt that was not cut off, or one token.
PromptChunk ==
  /\ batch.first = fed /\ fed < n_tokens /\ n_tokens <= MaxPrompt(load) /\ failed = "no"
  /\ batch.n \in 1..N_BATCH /\ fed + batch.n <= n_tokens
  /\ batch.output <=> fed + batch.n = n_tokens
OneToken ==
  /\ n_tokens <= batch.first /\ n_cur = batch.first + 1 /\ n_cur < n_ctx(load)
  /\ batch.n = 1 /\ batch.output

\* The cache holds what was decoded, the logits are of the last position.
Course ==
  /\ phase = "prompt" =>
       fed < n_tokens /\ n_tokens <= MaxPrompt(load) /\ failed = "no" /\ cells = Held(fed)
  /\ phase \in {"decode", "computing"} => PromptChunk \/ OneToken
  /\ phase = "decode" /\ failed = "no" => cells = Held(batch.first)
  /\ phase = "computing" /\ failed = "no" => cells = Held(batch.first + batch.n)
  /\ phase \in {"loop", "emit"} => n_tokens <= n_cur
  /\ phase \in {"loop", "emit"} /\ failed = "no" =>
       cells = Held(n_cur) /\ logits = [reply |-> reply, pos |-> n_cur - 1]

\* A prompt that this window's batches are too small for.
TooLong == ShortWindow(load) /\ n_tokens > n_batch(load)

\* There are logits to sample from unless the prompt was cut off.
Outputs ==
  /\ phase \in {"loop", "emit"} /\ failed # "prompt" => n_outputs = 1
  /\ phase = "decode" /\ OneToken /\ failed # "prompt" => n_outputs = 1
  /\ phase = "computing" => n_outputs = IF batch.output THEN 1 ELSE 0
  /\ phase = "aborted" => failed = "prompt" \/ TooLong

\* The cells of two sets of positions.
LEMMA CellsOfUnion ==
  ASSUME NEW r, NEW S, NEW T
  PROVE  {[reply |-> r, pos |-> p] : p \in S \cup T}
         = {[reply |-> r, pos |-> p] : p \in S} \cup {[reply |-> r, pos |-> p] : p \in T}
OBVIOUS

\* As many cells as positions.
LEMMA HeldCells ==
  ASSUME NEW n \in Nat
  PROVE  /\ IsFiniteSet(Held(n)) /\ Cardinality(Held(n)) = n
         /\ {c.pos : c \in Held(n)} = 0..(n - 1)
<1> DEFINE f == [p \in 0..(n - 1) |-> [reply |-> reply, pos |-> p]]
<1>1. f \in Bijection(0..(n - 1), Held(n))
  <2>1. \A p \in 0..(n - 1) : f[p] = [reply |-> reply, pos |-> p] /\ f[p].pos = p
    OBVIOUS
  <2>2. f \in [0..(n - 1) -> Held(n)]
    BY DEF Held
  <2>3. \A a, b \in 0..(n - 1) : f[a] = f[b] => a = b
    BY <2>1
  <2>4. \A h \in Held(n) : \E p \in 0..(n - 1) : f[p] = h
    BY <2>1 DEF Held
  <2> HIDE DEF f
  <2> QED  BY <2>2, <2>3, <2>4 DEF Bijection, Injection, Surjection, IsInjective
<1>2. IsFiniteSet(0..(n - 1)) /\ Cardinality(0..(n - 1)) = n
  BY FS_Interval
<1>3. IsFiniteSet(Held(n)) /\ Cardinality(Held(n)) = n
  BY <1>1, <1>2, FS_Bijection DEF ExistsBijection
<1>4. {c.pos : c \in Held(n)} = 0..(n - 1)
  <2>1. ASSUME NEW p \in 0..(n - 1) PROVE p \in {c.pos : c \in Held(n)}
    <3>1. [reply |-> reply, pos |-> p] \in Held(n) /\ [reply |-> reply, pos |-> p].pos = p
      BY DEF Held
    <3> QED  BY <3>1
  <2>2. \A c \in Held(n) : c.pos \in 0..(n - 1)
    BY DEF Held
  <2> QED  BY <2>1, <2>2
<1> QED  BY <1>3, <1>4

\* A batch that comes next is accepted, unless the prompt is too long for it.
LEMMA NextFits ==
  ASSUME Typed, Course, phase = "decode"
  PROVE  /\ batch.n >= 1 /\ (~Oversized \/ TooLong)
         /\ failed = "no" => HasSlot /\ Continues
<1>1. /\ n_ctx(load) \in Nat \ {0} /\ n_batch(load) \in 1..N_BATCH /\ N_BATCH \in Nat \ {0}
      /\ MaxPrompt(load) \in 1..n_ctx(load)
  BY Sizes, InferenceAssumption DEF Typed
<1>2. batch.first \in Nat /\ batch.n \in Nat /\ fed \in Nat /\ n_tokens \in Nat /\ n_cur \in Nat
  BY DEF Typed
<1>3. PromptChunk \/ OneToken
  BY DEF Course
<1>4. batch.n >= 1 /\ batch.first + batch.n <= n_ctx(load)
  BY <1>1, <1>2, <1>3 DEF PromptChunk, OneToken
<1>5. ~Oversized \/ TooLong
  <2>1. CASE PromptChunk
    BY <1>1, <1>2, <2>1 DEF PromptChunk, Oversized, TooLong, ShortWindow, Least
  <2>2. CASE OneToken
    BY <1>1, <2>2 DEF OneToken, Oversized
  <2> QED  BY <1>3, <2>1, <2>2
<1>6. ASSUME failed = "no" PROVE HasSlot /\ Continues
  <2>1. cells = Held(batch.first)
    BY <1>6 DEF Course
  <2>2. Cardinality(cells) = batch.first /\ Positions = 0..(batch.first - 1)
    BY <1>2, <2>1, HeldCells DEF Positions
  <2>3. HasSlot
    BY <1>4, <2>2 DEF HasSlot
  <2>4. batch.first = 0 => cells = {}
    BY <2>1 DEF Held
  <2>5. Continues
    BY <1>2, <2>2, <2>4 DEF Continues
  <2> QED  BY <2>3, <2>5
<1> QED  BY <1>4, <1>5, <1>6

\* Every step keeps the types.
LEMMA TypeStep == Typed /\ Course /\ [Next]_vars => Typed'
<1> SUFFICES ASSUME Typed, Course, [Next]_vars PROVE Typed'
  OBVIOUS
<1> USE DEF Typed, session, memory
<1>0. MaxPrompt(load) \in Nat /\ N_BATCH \in Nat /\ load.prompts \in SUBSET Nat
  BY Sizes, InferenceAssumption
<1>b. NoBatch \in [first : Nat, n : Nat, output : BOOLEAN]
  BY DEF NoBatch
<1>1. CASE LoadModel \/ Unload
  BY <1>1 DEF LoadModel, Unload
<1>2. ASSUME NEW n \in load.prompts, Begin(n) PROVE Typed'
  BY <1>0, <1>2 DEF Begin, Least
<1>3. CASE \/ LoadFails \/ Repool \/ LoadEnds \/ Unloaded \/ DecodeAborts \/ SampleAborts
           \/ ReplyEnds \/ Emit \/ KvCacheClear \/ NewContext
  BY <1>3 DEF LoadFails, Repool, LoadEnds, Unloaded, DecodeAborts, SampleAborts, ReplyEnds, Emit,
     KvCacheClear, NewContext
<1>4. CASE PromptBatch
  <2>1. PICK m : /\ batch' = [first |-> fed, n |-> m, output |-> fed + m = n_tokens]
                 /\ m = Least(N_BATCH, n_tokens - fed)
    BY <1>4 DEF PromptBatch
  <2>2. m \in Nat
    BY <1>0, <1>4, <2>1 DEF PromptBatch, Least, Course
  <2> QED  BY <1>0, <1>4, <2>1, <2>2 DEF PromptBatch
<1>5. ASSUME NEW ok \in BOOLEAN, Decoded(ok), n_outputs' \in {0, 1} PROVE Typed'
  BY <1>5, <1>b DEF Decoded
<1>6. CASE DecodeRefused \/ DecodeNotAllocated \/ DecodeDone
  <2>1. n_outputs' \in {0, 1}
    BY <1>6 DEF DecodeRefused, DecodeNotAllocated, DecodeDone, Accepted
  <2> QED  BY <1>5, <1>6, <2>1 DEF DecodeRefused, DecodeNotAllocated, DecodeDone
<1>7. CASE DecodeCompute
  BY <1>7 DEF DecodeCompute, Accepted
<1>8. ASSUME NEW piece, SampleToken(piece) PROVE Typed'
  BY <1>8 DEF SampleToken
<1>9. CASE ~Request /\ ~CallStep
  BY <1>9, PoolLeavesCalls DEF Rest
<1> QED  BY <1>1, <1>2, <1>3, <1>4, <1>6, <1>7, <1>8, <1>9 DEF Request, CallStep

\* What a decode leaves behind when it is done or has failed.
LEMMA AfterDecode ==
  ASSUME Typed, Course, Typed', NEW ok \in BOOLEAN, Decoded(ok),
         PromptChunk \/ OneToken,
         ok /\ failed = "no" => cells' = Held(batch.first + batch.n),
         ok /\ batch.output =>
           logits' = [reply |-> reply, pos |-> batch.first + batch.n - 1],
         batch.output /\ failed # "prompt" => n_outputs' = 1
  PROVE  Course' /\ Outputs'
<1>q. /\ fed \in Nat /\ n_tokens \in Nat /\ n_cur \in Nat /\ batch.first \in Nat /\ batch.n \in Nat
      /\ failed \in {"no", "prompt", "yes"} /\ batch.output \in BOOLEAN
  BY DEF Typed
<1>d. /\ InPrompt => /\ fed' = IF ok THEN fed + batch.n ELSE n_tokens
                     /\ IF fed' = n_tokens THEN n_cur' = n_tokens /\ phase' = "loop"
                                           ELSE n_cur' = n_cur /\ phase' = "prompt"
      /\ ~InPrompt => UNCHANGED <<fed, n_cur>> /\ phase' = "emit"
      /\ failed' = IF ok \/ failed = "prompt" THEN failed
                   ELSE IF InPrompt /\ ~batch.output THEN "prompt" ELSE "yes"
      /\ UNCHANGED <<load, reply, n_tokens>>
  BY DEF Decoded
<1>h. \A n : Held(n)' = {[reply |-> reply, pos |-> p] : p \in 0..(n - 1)}
  BY <1>d DEF Held
<1>1. CASE PromptChunk
  <2>1. InPrompt /\ batch.first = fed /\ failed = "no"
    BY <1>1 DEF PromptChunk, InPrompt
  <2>2. CASE ok /\ batch.output
    <3>1. phase' = "loop" /\ n_cur' = n_tokens /\ failed' = "no" /\ batch.first + batch.n = n_tokens
      BY <1>1, <1>d, <2>1, <2>2 DEF PromptChunk
    <3>2. cells' = Held(n_tokens) /\ logits' = [reply |-> reply, pos |-> n_tokens - 1] /\ n_outputs' = 1
      <4> DEFINE end == batch.first + batch.n
      <4>1. cells' = Held(end)
        BY <2>1, <2>2
      <4>2. logits' = [reply |-> reply, pos |-> end - 1]
        <5>1. end - 1 = batch.first + batch.n - 1
          BY <1>q
        <5> QED  BY <2>2, <5>1
      <4>3. n_outputs' = 1
        BY <2>1, <2>2
      <4>4. end = n_tokens
        BY <3>1
      <4> HIDE DEF end
      <4> QED  BY ONLY <4>1, <4>2, <4>3, <4>4
    <3>3. cells' = Held(n_cur)'
      BY <1>d, <3>1, <3>2 DEF Held
    <3> QED  BY <1>q, <1>d, <3>1, <3>2, <3>3 DEF Course, Outputs
  <2>3. CASE ok /\ ~batch.output
    <3>1. fed' = fed + batch.n /\ fed' < n_tokens /\ phase' = "prompt" /\ failed' = "no"
      BY <1>1, <1>q, <1>d, <2>1, <2>3 DEF PromptChunk
    <3>2. cells' = Held(fed)'
      BY <1>d, <2>1, <2>3, <3>1 DEF Held
    <3>3. n_tokens' <= MaxPrompt(load)'
      BY <1>1, <1>d DEF PromptChunk, MaxPrompt, n_ctx, Requested
    <3> QED  BY <1>d, <3>1, <3>2, <3>3 DEF Course, Outputs
  <2>4. CASE ~ok
    <3>1. fed' = n_tokens /\ phase' = "loop" /\ n_cur' = n_tokens
          /\ failed' = IF batch.output THEN "yes" ELSE "prompt"
      BY <1>d, <2>1, <2>4
    <3> QED  BY <1>q, <1>d, <2>1, <3>1 DEF Course, Outputs
  <2> QED  BY <1>q, <2>2, <2>3, <2>4
<1>2. CASE OneToken
  <2>1. ~InPrompt /\ batch.output /\ n_cur = batch.first + batch.n
    BY <1>2, <1>q DEF OneToken, InPrompt
  <2>2. phase' = "emit" /\ n_cur' = n_cur /\ n_tokens' <= n_cur'
    BY <1>2, <1>q, <1>d, <2>1 DEF OneToken
  <2>3. failed' # "prompt" => failed # "prompt" /\ n_outputs' = 1
    BY <1>d, <2>1
  <2>4. ASSUME failed' = "no" PROVE cells' = Held(n_cur)' /\ logits' = [reply |-> reply', pos |-> n_cur' - 1]
    <3>1. ok /\ failed = "no"
      BY <1>d, <2>1, <2>4
    <3>2. cells' = Held(batch.first + batch.n)
      BY <3>1
    <3>3. cells' = Held(n_cur)
      BY ONLY <2>1, <3>2
    <3>5. logits' = [reply |-> reply, pos |-> n_cur - 1]
      <4> DEFINE end == batch.first + batch.n
      <4>1. logits' = [reply |-> reply, pos |-> end - 1]
        <5>1. end - 1 = batch.first + batch.n - 1
          BY <1>q
        <5> QED  BY <2>1, <3>1, <5>1
      <4>2. end = n_cur
        BY <2>1
      <4> HIDE DEF end
      <4> QED  BY ONLY <4>1, <4>2
    <3>6. n_cur' = n_cur /\ reply' = reply
      BY <1>d, <2>2
    <3>7. Held(n_cur)' = Held(n_cur)
      BY ONLY <3>6 DEF Held
    <3> QED  BY ONLY <3>3, <3>5, <3>6, <3>7
  <2> QED  BY <1>d, <2>2, <2>3, <2>4 DEF Course, Outputs
<1> QED  BY <1>1, <1>2

\* The steps of llama_decode().
LEMMA DecodeSteps ==
  ASSUME Typed, Course, Outputs, Typed',
         DecodeRefused \/ DecodeNotAllocated \/ DecodeCompute \/ DecodeDone
  PROVE  Course' /\ Outputs'
<1>q. /\ failed \in {"no", "prompt", "yes"} /\ batch.output \in BOOLEAN
      /\ batch.first \in Nat /\ batch.n \in Nat /\ fed \in Nat /\ n_tokens \in Nat
  BY DEF Typed
<1>1. CASE DecodeRefused
  <2>1. phase = "decode" /\ Decoded(FALSE) /\ UNCHANGED <<cells, n_outputs, logits>> 
          /\ (~Continues \/ ~HasSlot)
    BY <1>1 DEF DecodeRefused, memory
  <2>2. (PromptChunk \/ OneToken) /\ failed # "no"
    BY <2>1, NextFits DEF Course
  <2>3. OneToken
    BY <2>2 DEF PromptChunk
  <2>4. failed # "prompt" => n_outputs' = 1
    BY <2>1, <2>3 DEF Outputs
  <2> QED  BY <2>1, <2>3, <2>4, AfterDecode
<1>2. CASE DecodeNotAllocated
  <2>1. /\ phase = "decode" /\ Decoded(FALSE) /\ n_outputs' = IF batch.output THEN 1 ELSE 0
    BY <1>2 DEF DecodeNotAllocated, Accepted
  <2>2. PromptChunk \/ OneToken
    BY <2>1 DEF Course
  <2> QED  BY <2>1, <2>2, AfterDecode
<1>3. CASE DecodeCompute
  <2>1. /\ phase = "decode" /\ phase' = "computing" /\ n_outputs' = IF batch.output THEN 1 ELSE 0
        /\ cells' = cells \cup {[reply |-> reply, pos |-> p]
                                  : p \in batch.first..(batch.first + batch.n - 1)}
        /\ UNCHANGED <<load, reply, n_tokens, fed, n_cur, batch, failed>>
    BY <1>3 DEF DecodeCompute, Accepted, session
  <2>2. (PromptChunk \/ OneToken)'
    BY <2>1 DEF Course, PromptChunk, OneToken, MaxPrompt, n_ctx, Requested
  <2>3. ASSUME failed = "no" PROVE cells' = Held(batch.first + batch.n)'
    <3>1. cells = Held(batch.first)
      BY <2>1, <2>3 DEF Course
    <3>3. Held(batch.first + batch.n) =
            Held(batch.first) \cup {[reply |-> reply, pos |-> p]
                                      : p \in batch.first..(batch.first + batch.n - 1)}
      <4> DEFINE S == 0..(batch.first - 1)
                 T == batch.first..(batch.first + batch.n - 1)
                 U == 0..((batch.first + batch.n) - 1)
      <4>1. U = S \cup T
        BY <1>q
      <4>2. Held(batch.first + batch.n) = {[reply |-> reply, pos |-> p] : p \in U}
            /\ Held(batch.first) = {[reply |-> reply, pos |-> p] : p \in S}
        BY DEF Held
      <4> HIDE DEF S, T, U
      <4>3. {[reply |-> reply, pos |-> p] : p \in U}
            = {[reply |-> reply, pos |-> p] : p \in S} \cup {[reply |-> reply, pos |-> p] : p \in T}
        BY ONLY <4>1, CellsOfUnion
      <4>4. Held(batch.first + batch.n) = Held(batch.first) \cup {[reply |-> reply, pos |-> p] : p \in T}
        BY ONLY <4>2, <4>3
      <4> QED  BY ONLY <4>4 DEF T
    <3>4. Held(batch.first + batch.n)' = Held(batch.first + batch.n)
      BY ONLY <2>1 DEF Held
    <3> QED  BY ONLY <2>1, <3>1, <3>3, <3>4
  <2> QED  BY <2>1, <2>2, <2>3 DEF Course, Outputs
<1>4. CASE DecodeDone
  <2>1. phase = "computing" /\ (PromptChunk \/ OneToken) /\ n_outputs = IF batch.output THEN 1 ELSE 0
    BY <1>4 DEF DecodeDone, Course, Outputs
  <2>2. CASE /\ logits' = IF batch.output
                          THEN [reply |-> reply, pos |-> batch.first + batch.n - 1] ELSE logits
             /\ Decoded(TRUE) /\ UNCHANGED <<cells, n_outputs, faults>>
    <3>1. failed = "no" => cells' = Held(batch.first + batch.n)
      BY <2>1, <2>2 DEF Course
    <3> QED  BY <2>1, <2>2, <3>1, AfterDecode
  <2>3. CASE Decoded(FALSE) /\ UNCHANGED <<n_outputs, logits>>
    BY <2>1, <2>3, AfterDecode
  <2> QED  BY <1>4, <2>2, <2>3 DEF DecodeDone
<1> QED  BY <1>1, <1>2, <1>3, <1>4

\* Every step keeps what the cache holds and what there is to sample from.
LEMMA CourseStep == Typed /\ Course /\ Outputs /\ [Next]_vars => Course' /\ Outputs'
<1> SUFFICES ASSUME Typed, Course, Outputs, [Next]_vars PROVE Course' /\ Outputs'
  OBVIOUS
<1>q. /\ fed \in Nat /\ n_tokens \in Nat /\ n_cur \in Nat /\ reply \in Nat /\ Typed'
      /\ n_ctx(load) \in Nat \ {0} /\ MaxPrompt(load) \in 1..n_ctx(load) /\ N_BATCH \in Nat \ {0}
  BY Sizes, TypeStep, InferenceAssumption DEF Typed
<1>1. CASE LoadModel \/ Unload \/ LoadFails \/ NewContext \/ Repool \/ LoadEnds \/ Unloaded
           \/ ReplyEnds \/ KvCacheClear
  <2>1. phase' \in {"context", "idle", "closing", "repool", "batch", "ready", "clear"}
    BY <1>1 DEF LoadModel, Unload, LoadFails, NewContext, Repool, LoadEnds, Unloaded, ReplyEnds,
       KvCacheClear
  <2> QED  BY <2>1 DEF Course, Outputs
<1>2. ASSUME NEW n \in load.prompts, Begin(n) PROVE Course' /\ Outputs'
  <2>1. n \in Nat \ {0}
    BY <1>2, InferenceAssumption DEF Typed
  <2>2. /\ phase' = "prompt" /\ fed' = 0 /\ n_tokens' = Least(n, MaxPrompt(load)) /\ failed' = "no"
        /\ cells' = {} /\ UNCHANGED load
    BY <1>2 DEF Begin
  <2>3. fed' < n_tokens' /\ n_tokens' <= MaxPrompt(load)
    BY <1>q, <2>1, <2>2 DEF Least
  <2>4. cells' = Held(fed)'
    BY <2>2 DEF Held
  <2>5. MaxPrompt(load)' = MaxPrompt(load)
    BY <2>2 DEF MaxPrompt, n_ctx, Requested
  <2> QED  BY <2>2, <2>3, <2>4, <2>5 DEF Course, Outputs
<1>3. CASE PromptBatch
  <2>1. PICK m : /\ batch' = [first |-> fed, n |-> m, output |-> fed + m = n_tokens]
                 /\ m = Least(N_BATCH, n_tokens - fed)
    BY <1>3 DEF PromptBatch
  <2>2. /\ phase = "prompt" /\ phase' = "decode"
        /\ UNCHANGED <<load, reply, n_tokens, fed, n_cur, failed, cells, n_outputs, logits>>
    BY <1>3 DEF PromptBatch, session, memory
  <2>3. m \in 1..N_BATCH /\ fed + m <= n_tokens
    BY <1>q, <2>1, <2>2 DEF Least, Course
  <2>4. PromptChunk' /\ ~OneToken'
    <3>1. fed < n_tokens /\ n_tokens <= MaxPrompt(load) /\ failed = "no"
          /\ MaxPrompt(load)' = MaxPrompt(load)
      BY <2>2 DEF Course, MaxPrompt, n_ctx, Requested
    <3>2. batch'.first = fed /\ batch'.n = m /\ batch'.output = (fed + m = n_tokens)
      BY <2>1
    <3>3. PromptChunk'
      BY <2>2, <2>3, <3>1, <3>2 DEF PromptChunk
    <3>4. ~OneToken'
      BY <1>q, <2>2, <3>1, <3>2 DEF OneToken
    <3> QED  BY <3>3, <3>4
  <2>5. cells' = Held(batch.first)'
    BY <2>1, <2>2 DEF Held, Course
  <2> QED  BY <2>2, <2>4, <2>5 DEF Course, Outputs
<1>4. ASSUME NEW piece, SampleToken(piece) PROVE Course' /\ Outputs'
  <2>1. /\ phase = "loop" /\ phase' = "decode" /\ n_outputs > 0 /\ n_cur < n_ctx(load) - 1
        /\ batch' = [first |-> n_cur, n |-> 1, output |-> TRUE] /\ n_cur' = n_cur + 1
        /\ UNCHANGED <<load, reply, n_tokens, fed, failed, cells, n_outputs, logits>>
    BY <1>4 DEF SampleToken, HasRoom, memory
  <2>2. n_outputs' = 1
    BY <2>1 DEF Typed
  <2>3. OneToken'
    BY <1>q, <2>1 DEF Course, OneToken, n_ctx, Requested
  <2>4. failed' = "no" => cells' = Held(batch.first)'
    BY <2>1 DEF Held, Course
  <2> QED  BY <2>1, <2>2, <2>3, <2>4 DEF Course, Outputs
<1>5. CASE SampleAborts
  <2>1. phase = "loop" /\ phase' = "aborted" /\ n_outputs = 0 /\ UNCHANGED failed
    BY <1>5 DEF SampleAborts, session
  <2> QED  BY <2>1 DEF Course, Outputs
<1>6. CASE Emit
  <2>1. /\ phase = "emit" /\ phase' \in {"loop", "ready"}
        /\ UNCHANGED <<reply, n_tokens, n_cur, failed, cells, n_outputs, logits>>
    BY <1>6 DEF Emit, session, memory
  <2> QED  BY <2>1 DEF Course, Outputs, Held
<1>7. CASE ~Request /\ ~CallStep
  BY <1>7, PoolLeavesCalls DEF Rest, session, memory, Course, Outputs, Held, PromptChunk, OneToken,
     TooLong, ShortWindow, n_batch, MaxPrompt, n_ctx, Requested
<1>8. CASE DecodeRefused \/ DecodeNotAllocated \/ DecodeCompute \/ DecodeDone
  BY <1>8, <1>q, DecodeSteps
<1>9. CASE DecodeAborts
  <2>1. phase = "decode" /\ phase' = "aborted" /\ Oversized /\ UNCHANGED <<load, n_tokens>>
    BY <1>9 DEF DecodeAborts, session
  <2>2. TooLong
    BY <2>1, NextFits
  <2>3. TooLong'
    BY <2>1, <2>2 DEF TooLong, ShortWindow, n_batch, MaxPrompt, n_ctx, Requested
  <2> QED  BY <2>1, <2>3 DEF Course, Outputs
<1> QED  BY <1>1, <1>2, <1>3, <1>4, <1>5, <1>6, <1>7, <1>8, <1>9 DEF Request, CallStep

\* At the start nothing is loaded.
LEMMA CallsInit == Init => Typed /\ Course /\ Outputs
<1> SUFFICES ASSUME Init PROVE Typed /\ Course /\ Outputs
  OBVIOUS
<1>1. Typed
  BY DEF Init, Typed, NoBatch
<1> QED  BY <1>1 DEF Init, Course, Outputs

\* Every batch fits the window, and n_batch unless the window is short; it finds exactly the positions before it.
THEOREM DecodesFit == Spec => []EveryDecodeFits
<1>1. Typed /\ Course => EveryDecodeFits
  <2> SUFFICES ASSUME Typed, Course, phase = "decode", failed = "no"
               PROVE  /\ batch.n >= 1 /\ HasSlot
                      /\ batch.n <= n_batch(load) \/ TooLong
                      /\ cells = Held(batch.first)
    BY DEF EveryDecodeFits, TooLong, Held
  <2>1. n_batch(load) \in Nat /\ batch.n \in Nat
    BY Sizes, InferenceAssumption DEF Typed
  <2>2. cells = Held(batch.first)
    BY DEF Course
  <2> QED  BY <2>1, <2>2, NextFits DEF Oversized
<1> QED  BY <1>1, CallsInit, TypeStep, CourseStep, PTL DEF Spec

\* A token is sampled from the logits of the position before it.
THEOREM LogitsFresh == Spec => []FreshLogits
<1>1. Typed /\ Course /\ Outputs => FreshLogits
  BY DEF FreshLogits, Course, Outputs, TooLong
<1> QED  BY <1>1, CallsInit, TypeStep, CourseStep, PTL DEF Spec

(***************************************************************************)
(* The pool between the calls.                                             *)
(***************************************************************************)
\* The calls touch the pool only when it is at rest.
Engaged == /\ load \in Workloads
           /\ phase \notin {"computing", "repool", "closing"} => at[0] = "none"

\* A context has at least two threads and no more than a pool may have.
LEMMA EffectiveThreads ==
  ASSUME NEW d \in Workloads
  PROVE  effectiveThreads(d) \in 1..MaxThreads
<1>1. d.cores \in Nat /\ d.chosen \in Nat /\ effectiveThreads(d) <= MaxThreads
  BY InferenceAssumption
<1>2. effectiveThreads(d) \in Nat \ {0}
  <2>1. d.cores \div 2 \in Nat
    BY <1>1
  <2> QED  BY <1>1, <2>1 DEF effectiveThreads, recommendedThreads, maxThreads, Within, Most, Least
<1> QED  BY <1>1, <1>2, PoolAssumption

\* At rest, what a call does to the pool keeps its invariant.
LEMMA PinKeeps ==
  ASSUME Pooled, load \in Workloads, at[0] = "none", Pin
  PROVE  Pooled' /\ at'[0] = "none"
<1>1. CASE Spawn(effectiveThreads(load), TRUE, "none") /\ UNCHANGED <<splits, made>>
  <2>1. Resting' /\ PoolTyped' /\ Sized'
    BY <1>1, EffectiveThreads, SpawnRests, SpawnTyped DEF Pooled
  <2>2. at'[0] = "none"
    BY <1>1, PoolKinds DEF Pooled, Spawn
  <2> QED  BY <2>1, <2>2 DEF Pooled
<1>2. CASE UNCHANGED poolVars
  BY <1>2, PoolStays
<1> QED  BY <1>1, <1>2 DEF Pin

\* Giving the pool up.
LEMMA DismissKeeps ==
  ASSUME Pooled, at[0] = "none", pool.live, Dismiss
  PROVE  Pooled'
<1>1. Resting /\ PoolTyped /\ Sized
  BY DEF Pooled, Meeting, InGraph, Working
<1>2. Resting'
  BY <1>1, DismissRests
<1>3. /\ pool' = [pool EXCEPT !.stop = TRUE] /\ local' = local /\ splits' = splits /\ made' = made
      /\ DOMAIN at' = Threads
  BY <1>1, Wakes DEF Dismiss
<1>4. splits' \in Seq(Graphs) /\ Counted(made')
  BY <1>1, <1>3 DEF PoolTyped
<1> QED  BY <1>1, <1>2, <1>3, <1>4, DismissTyped DEF Pooled

\* Handing over the graphs of a decode.
LEMMA ComputeKeeps ==
  ASSUME Pooled, load \in Workloads, at[0] = "none", DecodeCompute
  PROVE  Pooled'
<1>1. Resting /\ PoolTyped /\ Sized
  BY DEF Pooled, Meeting, InGraph, Working
<1>2. splits' = load.splits /\ Go(0, "reset") /\ pool' = pool /\ local' = local /\ made' = made
  BY DEF DecodeCompute
<1>3. splits' \in Seq(Graphs) /\ splits' # <<>>
  <2>1. /\ load.splits \in Seq([tasks : Nat \ {0}, stages : Seq(Nat)]) /\ load.splits # <<>>
        /\ \A i \in DOMAIN load.splits : WellFormed(load.splits[i].stages)
    BY InferenceAssumption
  <2>2. /\ Len(load.splits) \in Nat /\ DOMAIN load.splits = 1..Len(load.splits)
        /\ load.splits \in [1..Len(load.splits) -> [tasks : Nat \ {0}, stages : Seq(Nat)]]
    BY <2>1, LenProperties
  <2>3. \A i \in 1..Len(load.splits) : load.splits[i] \in Graphs
    BY <2>1, <2>2 DEF Graphs
  <2>4. load.splits \in [1..Len(load.splits) -> Graphs]
    BY <2>2, <2>3
  <2>5. load.splits \in Seq(Graphs)
    BY <2>2, <2>4
  <2> QED  BY <1>2, <2>1, <2>5
<1>4. at'[0] = "reset" /\ DOMAIN at' = Threads /\ \A w \in Workers : at'[w] = at[w]
  BY <1>1, <1>2, Going, PoolKinds DEF Workers
<1>5. Resting'
  BY <1>1, <1>2, <1>3, <1>4 DEF Resting, Left, Signal
<1>6. PoolTyped' /\ Sized'
  BY <1>1, <1>2, <1>3, <1>4 DEF PoolTyped, Sized
<1> QED  BY <1>5, <1>6 DEF Pooled

\* Every step keeps the pool's invariant and its place among the calls.
LEMMA PooledStep == Pooled /\ Engaged /\ [Next]_vars => Pooled' /\ Engaged'
<1> SUFFICES ASSUME Pooled, Engaged, [Next]_vars PROVE Pooled' /\ Engaged'
  OBVIOUS
<1>1. effectiveThreads(load) \in 1..MaxThreads
  BY EffectiveThreads DEF Engaged
<1>2. CASE Unload
  <2>1. at[0] = "none" /\ load' = load
    BY <1>2 DEF Unload, Engaged
  <2>2. CASE pool.live
    BY <1>2, <2>1, <2>2, DismissKeeps DEF Unload, Engaged
  <2>3. CASE ~pool.live
    BY <1>2, <2>1, <2>3, PoolStays DEF Unload, Engaged
  <2> QED  BY <2>2, <2>3
<1>3. CASE NewContext
  <2>1. at[0] = "none" /\ load' = load
    BY <1>3 DEF NewContext, Engaged
  <2>2. CASE pool.live
    BY <1>3, <2>1, <2>2, DismissKeeps DEF NewContext, Engaged
  <2>3. CASE ~pool.live
    BY <1>3, <2>1, <2>3, PinKeeps DEF NewContext, Engaged
  <2> QED  BY <2>2, <2>3
<1>4. CASE Repool
  BY <1>4, PinKeeps DEF Repool, Engaged
<1>5. CASE DecodeCompute
  BY <1>5, ComputeKeeps DEF DecodeCompute, Accepted, Engaged, session
<1>6. ASSUME UNCHANGED poolVars, load' = load,
             phase \notin {"computing", "repool", "closing"} \/ at[0] = "none"
      PROVE  Pooled' /\ Engaged'
  BY <1>6, PoolStays DEF Engaged
<1>7. CASE LoadModel \/ \E n \in load.prompts : Begin(n)
  BY <1>6, <1>7 DEF LoadModel, Begin
<1>8. CASE \/ LoadFails \/ LoadEnds \/ Unloaded \/ PromptBatch \/ DecodeRefused
           \/ DecodeNotAllocated \/ DecodeDone \/ SampleAborts \/ ReplyEnds
           \/ (\E piece \in load.pieces : SampleToken(piece)) \/ Emit \/ KvCacheClear
           \/ DecodeAborts
  BY <1>6, <1>8 DEF LoadFails, LoadEnds, Unloaded, PromptBatch, DecodeRefused, DecodeNotAllocated,
     Accepted, DecodeDone, Decoded, SampleAborts, ReplyEnds, SampleToken, Emit, KvCacheClear,
     DecodeAborts
<1>9. CASE /\ UNCHANGED Rest
           /\ CallerStep(effectiveThreads(load)) \/ \E w \in Workers : WorkerStep(w) \/ Spurious(w)
  <2>1. Pooled'
    BY <1>1, <1>9, PoolKept
  <2>2. at[0] = "none" => at'[0] = "none"
    <3>1. ASSUME at[0] = "none", CallerStep(effectiveThreads(load)) PROVE FALSE
      BY <3>1 DEF CallerStep, Reset, Kickoff, Announce, Computed, FreePool, ComputeStep, Share,
         Chunk, Enter, Arrive, Zero, Release, Spin
    <3>2. ASSUME NEW w \in Workers, WorkerStep(w) \/ Spurious(w) PROVE at'[0] = at[0]
      BY <3>2, WorkersLeaveCaller DEF Pooled
    <3> QED  BY <1>9, <3>1, <3>2
  <2> QED  BY <1>9, <2>1, <2>2 DEF Rest, Engaged
<1>10. CASE UNCHANGED vars
  BY <1>10, PoolStays DEF vars, poolVars, Engaged
<1> QED  BY <1>2, <1>3, <1>4, <1>5, <1>7, <1>8, <1>9, <1>10 DEF Next, Request, Caller, CallStep, Worker

\* There is no pool at first.
LEMMA PooledInit == Init => Pooled /\ Engaged
<1> SUFFICES ASSUME Init PROVE Pooled /\ Engaged
  OBVIOUS
<1>1. /\ pool = NoPool /\ splits = <<>> /\ at = [t \in Threads |-> "none"]
      /\ local = [t \in Threads |-> NoLocal] /\ phase = "idle" /\ load \in Workloads
      /\ made = <<>>
  BY DEF Init, PoolInit
<1>2. 0 \in Threads /\ 0 \in 0..MaxThreads /\ \A w \in Workers : w \in Threads /\ ~(w < 0)
  BY PoolAssumption DEF Threads, Workers
<1>3. NoPool \in Pools /\ NoLocal \in Locals
  <2>1. <<>> \in Seq(Nat) /\ <<0, 0>> \in Nat \X Nat /\ 0 \in Nat
    OBVIOUS
  <2> QED  BY ONLY <1>2, <2>1 DEF NoPool, NoLocal, Pools, Locals
<1>4. PoolTyped
  <2>1. Counted(made)
    BY <1>1 DEF Counted
  <2> QED  BY <1>1, <1>3, <2>1 DEF PoolTyped
<1>5. Sized /\ Resting
  BY <1>1, <1>2 DEF Sized, Resting, NoPool, Left, Idle
<1> QED  BY <1>1, <1>2, <1>4, <1>5 DEF Pooled, Engaged

\* Outside a graph no worker touches what the caller rewrites or frees.
THEOREM PoolIsQuiet == Spec => []QuietPool
<1> QED  BY PooledInit, PooledStep, PooledQuiet, PTL DEF Spec

(***************************************************************************)
(* Every part of a graph is computed once, stage by stage.                 *)
(***************************************************************************)
\* What a call does to the pool computes nothing.
LEMMA CallTally ==
  ASSUME Pooled, Tally, at[0] = "none", load \in Workloads,
         Pin \/ (pool.live /\ Dismiss) \/ DecodeCompute
  PROVE  Tally' /\ Promised
<1>1. PoolTyped /\ 0 \in Threads /\ DOMAIN at = Threads
  BY PoolKinds DEF Pooled, PoolTyped
<1>2. CASE Pin
  <2>1. at'[0] = "none" /\ made' = made
    BY <1>2, PinKeeps DEF Pin, poolVars
  <2> QED  BY <2>1, EmptyTally DEF Promised
<1>3. CASE Dismiss
  <2>1. at'[0] = "join" /\ made' = made
    BY <1>1, <1>3, Wakes DEF Dismiss
  <2> QED  BY <2>1, EmptyTally DEF Promised
<1>4. CASE DecodeCompute
  <2>1. at'[0] = "reset" /\ made' = made
    BY <1>1, <1>4, Going DEF DecodeCompute
  <2> QED  BY <2>1, EmptyTally DEF Promised
<1> QED  BY <1>2, <1>3, <1>4

\* Every step keeps the sheet and is a step of NodeByNode, or changes nothing there.
LEMMA TallyKeeps == Pooled /\ Engaged /\ Tally /\ [Next]_vars => Tally' /\ [NBN!ANext]_made
<1> SUFFICES ASSUME Pooled, Engaged, Tally, [Next]_vars PROVE Tally' /\ Promised
  BY DEF Promised
<1>1. effectiveThreads(load) \in 1..MaxThreads /\ load \in Workloads
  BY EffectiveThreads DEF Engaged
<1>2. CASE UNCHANGED poolVars
  BY <1>2, TallyStays
<1>3. CASE at[0] = "none" /\ (Pin \/ (pool.live /\ Dismiss) \/ DecodeCompute)
  BY <1>1, <1>3, CallTally
<1>4. CASE CallerStep(effectiveThreads(load)) \/ \E w \in Workers : WorkerStep(w) \/ Spurious(w)
  BY <1>1, <1>4, TallyStep
<1>5. CASE Request
  <2>1. UNCHANGED poolVars \/ (at[0] = "none" /\ pool.live /\ Dismiss)
    BY <1>5 DEF Request, LoadModel, Unload, Begin, Engaged
  <2> QED  BY <1>2, <1>3, <2>1
<1>6. CASE NewContext \/ Repool \/ DecodeCompute
  <2>1. at[0] = "none" /\ (Pin \/ (pool.live /\ Dismiss) \/ DecodeCompute)
    BY <1>6 DEF NewContext, Repool, DecodeCompute, Accepted, Engaged
  <2> QED  BY <1>3, <2>1
<1>7. CASE \/ LoadFails \/ LoadEnds \/ Unloaded \/ PromptBatch \/ DecodeRefused
           \/ DecodeNotAllocated \/ DecodeDone \/ SampleAborts \/ ReplyEnds
           \/ (\E piece \in load.pieces : SampleToken(piece)) \/ Emit \/ KvCacheClear
           \/ DecodeAborts
  <2>1. UNCHANGED poolVars
    BY <1>7 DEF LoadFails, LoadEnds, Unloaded, PromptBatch, DecodeRefused, DecodeNotAllocated,
       DecodeDone, SampleAborts, ReplyEnds, SampleToken, Emit, KvCacheClear,
       DecodeAborts
  <2> QED  BY <1>2, <2>1
<1>8. CASE UNCHANGED vars
  BY <1>2, <1>8 DEF vars
<1> QED  BY <1>4, <1>5, <1>6, <1>7, <1>8 DEF Next, Caller, CallStep, Worker

\* Nothing is computed yet.
LEMMA TallyInit == Init => Tally /\ NBN!AInit
<1> SUFFICES ASSUME Init PROVE Tally /\ NBN!AInit
  OBVIOUS
<1>1. made = <<>> /\ at = [t \in Threads |-> "none"] /\ 0 \in Threads
  BY PoolAssumption DEF Init, PoolInit, Threads
<1>2. at[0] = "none"
  BY <1>1
<1> QED  BY <1>1, <1>2 DEF Tally, InGraph, Working, NBN!AInit

\* ggml_graph_compute() computes every part of a graph once and in order, whatever the
\* threads do.
THEOREM PoolComputesInOrder == Spec => ComputesInOrder
<1> QED  BY PooledInit, PooledStep, TallyInit, TallyKeeps, PTL DEF Spec, ComputesInOrder, NBN!ASpec
================================================================================
