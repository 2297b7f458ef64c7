--------------------------- MODULE NativeInference ---------------------------
(***************************************************************************)
(* The native calls behind one loaded model (llama-android.cpp as          *)
(* LLamaAndroid.kt calls it): load, a reply as prefill and token loop, and *)
(* unload, over llama.cpp's decode -- batch check, KV cache, outputs --    *)
(* whose graphs the threads of ThreadPool compute.  All calls are made by  *)
(* one thread, here thread 0, one after the other; how replies of several  *)
(* flows interleave on it is the subject of LlamaRunLoop.                  *)
(*                                                                         *)
(* Tokens are positions of a reply; a piece of text is what it does to the *)
(* UTF-8 check.                                                            *)
(***************************************************************************)
EXTENDS ThreadPool, FiniteSets

CONSTANTS
  Workloads,    \* the devices, models, prompts and failures that are explored
  N_BATCH,      \* tokens per prompt batch (512)
  PAD           \* llama.cpp rounds n_ctx up to a multiple of this (256)

VARIABLES
  load,     \* the workload of this behaviour; fixed by Init
  phase,    \* where the thread is between steps of the pool
  reply,    \* number of replies begun; also the owner of what they leave behind
  n_tokens, \* tokens of the prompt after truncation
  fed,      \* prompt tokens decoded
  n_cur,    \* position of the next token
  batch,    \* the batch being decoded
  cells,    \* KV cache: the used cells, each with its reply and position
  n_outputs, logits, \* outputs of the last decode; reply and position of the logits
  cache,    \* g_token_cache: "empty", "open" (inside a glyph) or "broken"
  text,     \* history variable: the same for the text of this reply alone
  failed,   \* history variable: a decode of this reply failed, "prompt" if the
            \* prompt was cut off by it
  faults    \* failures the environment may still inflict

session == <<reply, n_tokens, fed, n_cur, cache, text, failed>>
memory == <<cells, n_outputs, logits>>
vars == <<poolVars, load, phase, session, batch, memory, faults>>

Least(a, b) == IF a < b THEN a ELSE b
Most(a, b) == IF a > b THEN a ELSE b

(***************************************************************************)
(* Sizing: DeviceCapabilities and ModelManager choose the threads, the     *)
(* native side clamps and rounds the context.                              *)
(***************************************************************************)
Within(n, lo, hi) == Most(lo, Least(n, hi))
maxThreads(d) == Most(2, Least(6, d.cores))
recommendedThreads(d) == Within(d.cores \div 2, 2, Least(d.cores, 6))
effectiveThreads(d) ==
  IF d.chosen > 0 THEN Within(d.chosen, 2, maxThreads(d)) ELSE recommendedThreads(d)

\* Cores to pin to: the fastest ones, or none if /sys was unreadable.
affinity(d) == IF d.readable THEN effectiveThreads(d) ELSE 0

Requested(d) == IF d.trained > 0 THEN Least(d.requested, d.trained) ELSE d.requested
n_ctx(d) == ((Requested(d) + PAD - 1) \div PAD) * PAD
n_batch(d) == Least(Requested(d), N_BATCH)
MaxPrompt(d) == Most(1, n_ctx(d) - n_ctx(d) \div 4)

\* The model was trained on fewer tokens than completion_init() puts in a batch, and
\* rounding the window up left room for a prompt of more.
ShortWindow(d) == n_batch(d) < Least(N_BATCH, MaxPrompt(d))

\* ggml_graph_compute() asserts that a plan has threads (line 3312).
\* coerceIn() throws on a device of one core.
ASSUME InferenceAssumption ==
  /\ N_BATCH \in Nat \ {0} /\ PAD \in Nat \ {0}
  /\ Workloads \subseteq
       [cores : Nat, chosen : Nat, readable : BOOLEAN, requested : Nat, trained : Nat,
        prompts : SUBSET Nat, pieces : SUBSET {"whole", "head", "rest"}, replies : Nat,
        faults : Nat, splits : Seq([tasks : Nat \ {0}, stages : Seq(Nat)])]
  /\ \A d \in Workloads :
       /\ d.cores >= 2 /\ effectiveThreads(d) <= MaxThreads
       /\ d.requested > 0
       /\ d.splits # <<>> /\ \A n \in d.prompts : n > 0
       /\ \A i \in DOMAIN d.splits : WellFormed(d.splits[i].stages)

NoBatch == [first |-> 0, n |-> 0, output |-> FALSE]
NoLogits == [reply |-> 0, pos |-> 0]

Init ==
  /\ PoolInit
  /\ load \in Workloads /\ faults = load.faults
  /\ phase = "idle"
  /\ reply = 0 /\ n_tokens = 0 /\ fed = 0 /\ n_cur = 0 /\ batch = NoBatch
  /\ cells = {} /\ n_outputs = 0 /\ logits = NoLogits
  /\ cache = "empty" /\ text = "empty" /\ failed = "no"

Fault == faults > 0 /\ faults' = faults - 1

(***************************************************************************)
(* load() and unload().                                                    *)
(***************************************************************************)
LoadModel ==
  /\ phase = "idle" /\ phase' = "context"
  /\ UNCHANGED <<poolVars, load, session, batch, memory, faults>>

\* load_model() or llama_init_from_model() returned null: nothing else happened,
\* a pool that an earlier failed load left behind included.
LoadFails ==
  /\ phase = "context" /\ Fault
  /\ phase' = "idle"
  /\ UNCHANGED <<poolVars, load, session, batch, memory>>

\* The context's own pool, pinned to the fastest cores, or none.
Pin == IF affinity(load) > 0
       THEN Spawn(effectiveThreads(load), TRUE, "none") /\ UNCHANGED <<splits, made>>
       ELSE UNCHANGED poolVars

\* new_context(): a pool that is still there is freed before the new one is made.
NewContext ==
  /\ phase = "context"
  /\ IF pool.live THEN Dismiss /\ phase' = "repool" ELSE Pin /\ phase' = "batch"
  /\ cells' = {} /\ n_outputs' = 0 /\ logits' = NoLogits
  /\ UNCHANGED <<load, session, batch, faults>>

Repool ==
  /\ phase = "repool" /\ at[0] = "none"
  /\ Pin /\ phase' = "batch"
  /\ UNCHANGED <<load, session, batch, memory, faults>>

\* new_batch() and new_sampler(); load() allows for a null from either: it throws,
\* and nobody owns the context and its pool.
LoadEnds ==
  /\ phase = "batch"
  /\ \/ phase' = "ready" /\ UNCHANGED faults
     \/ phase' = "idle" /\ Fault
  /\ UNCHANGED <<poolVars, load, session, batch, memory>>

\* free_context() detaches and frees the pool, then the context.
Unload ==
  /\ phase = "ready"
  /\ IF pool.live THEN Dismiss /\ phase' = "closing"
                  ELSE UNCHANGED poolVars /\ phase' = "idle"
  /\ UNCHANGED <<load, session, batch, memory, faults>>

Unloaded ==
  /\ phase = "closing" /\ at[0] = "none"
  /\ phase' = "idle"
  /\ UNCHANGED <<poolVars, load, session, batch, memory, faults>>

(***************************************************************************)
(* completion_init().                                                      *)
(***************************************************************************)
\* Mutation: bytes of the last reply stay in g_token_cache.
BeginInsideGlyph(n) ==
  /\ phase = "ready" /\ reply < load.replies
  /\ reply' = reply + 1 /\ phase' = "prompt"
  /\ n_tokens' = Least(n, MaxPrompt(load)) /\ fed' = 0 /\ n_cur' = 0
  /\ cache' = cache /\ text' = "empty" /\ failed' = "no"
  /\ cells' = {} /\ UNCHANGED <<n_outputs, logits>>
  /\ UNCHANGED <<poolVars, load, batch, faults>>

\* Mutation: the prompt is not truncated.
BeginUnclamped(n) ==
  /\ phase = "ready" /\ reply < load.replies
  /\ reply' = reply + 1 /\ phase' = "prompt"
  /\ n_tokens' = n /\ fed' = 0 /\ n_cur' = 0
  /\ cache' = "empty" /\ text' = "empty" /\ failed' = "no"
  /\ cells' = {} /\ UNCHANGED <<n_outputs, logits>>
  /\ UNCHANGED <<poolVars, load, batch, faults>>

\* The prompt is truncated so that a quarter of the window is left for the reply;
\* whatever the last reply left in g_token_cache and in the KV cache is cleared.
Begin(n) ==
  /\ phase = "ready" /\ reply < load.replies
  /\ reply' = reply + 1 /\ phase' = "prompt"
  /\ n_tokens' = Least(n, MaxPrompt(load)) /\ fed' = 0 /\ n_cur' = 0
  /\ cache' = "empty" /\ text' = "empty" /\ failed' = "no"
  /\ cells' = {} /\ UNCHANGED <<n_outputs, logits>>
  /\ UNCHANGED <<poolVars, load, batch, faults>>

\* Mutation: the logits are asked of the first chunk.
PromptBatchFirst ==
  /\ phase = "prompt" /\ phase' = "decode"
  /\ LET n == Least(N_BATCH, n_tokens - fed)
     IN  batch' = [first |-> fed, n |-> n, output |-> fed = 0]
  /\ UNCHANGED <<poolVars, load, session, memory, faults>>

\* The next chunk; only the prompt's last token asks for logits.
PromptBatch ==
  /\ phase = "prompt" /\ phase' = "decode"
  /\ LET n == Least(N_BATCH, n_tokens - fed)
     IN  batch' = [first |-> fed, n |-> n, output |-> fed + n = n_tokens]
  /\ UNCHANGED <<poolVars, load, session, memory, faults>>

(***************************************************************************)
(* llama_decode() of the batch.                                            *)
(***************************************************************************)
Positions == {c.pos : c \in cells}

\* llama_batch_allocr::init(): a sequence goes on where the cache ends.
Continues ==
  cells = {} \/ (batch.first - 1 \in Positions /\ \A p \in Positions : p < batch.first)

\* llama_kv_cache::find_slot(): any free cells will do.
HasSlot == Cardinality(cells) + batch.n <= n_ctx(load)

InPrompt == batch.first < n_tokens

\* completion_init() cuts the prompt by N_BATCH, whatever n_batch the context got.
Oversized == batch.n > n_batch(load)

\* What completion_init() and completion_loop() do with the result: a failure
\* cuts the prompt short, and is only logged in the token loop.
Decoded(ok) ==
  /\ IF InPrompt
     THEN /\ fed' = IF ok THEN fed + batch.n ELSE n_tokens
          /\ IF fed' = n_tokens THEN n_cur' = n_tokens /\ phase' = "loop"
                                ELSE UNCHANGED n_cur /\ phase' = "prompt"
     ELSE UNCHANGED <<fed, n_cur>> /\ phase' = "emit"
  /\ failed' = IF ok \/ failed = "prompt" THEN failed
               ELSE IF InPrompt /\ ~batch.output THEN "prompt" ELSE "yes"
  /\ batch' = NoBatch
  /\ UNCHANGED <<load, reply, n_tokens, cache, text>>

\* decode() asserts that the batch is not larger than n_batch: the process dies.
DecodeAborts ==
  /\ phase = "decode" /\ Continues /\ Oversized
  /\ phase' = "aborted"
  /\ UNCHANGED <<poolVars, load, session, batch, memory, faults>>

\* Refused before anything changed; the outputs of the last decode stay.
DecodeRefused ==
  /\ phase = "decode" /\ (~Continues \/ (~Oversized /\ ~HasSlot))
  /\ Decoded(FALSE)
  /\ UNCHANGED <<poolVars, memory, faults>>

Accepted == phase = "decode" /\ Continues /\ ~Oversized /\ HasSlot
            /\ n_outputs' = IF batch.output THEN 1 ELSE 0

\* process_ubatch() could not allocate the graph; the cells are removed again.
DecodeNotAllocated ==
  /\ Accepted /\ Fault
  /\ Decoded(FALSE)
  /\ UNCHANGED <<poolVars, cells, logits>>

DecodeCompute ==
  /\ Accepted
  /\ cells' = cells \cup {[reply |-> reply, pos |-> p]
                            : p \in batch.first..(batch.first + batch.n - 1)}
  /\ splits' = load.splits /\ Go(0, "reset")
  /\ phase' = "computing"
  /\ UNCHANGED <<pool, local, made, load, session, batch, logits, faults>>

\* All splits were computed, or a backend reported a failure: the batch's
\* positions are removed, its outputs are not.
DecodeDone ==
  /\ phase = "computing" /\ at[0] = "none"
  /\ \/ /\ logits' = IF batch.output
                       THEN [reply |-> reply, pos |-> batch.first + batch.n - 1] ELSE logits
        /\ Decoded(TRUE) /\ UNCHANGED <<cells, n_outputs, faults>>
     \/ /\ Fault /\ cells' = {c \in cells : c.pos < batch.first}
        /\ Decoded(FALSE) /\ UNCHANGED <<n_outputs, logits>>
  /\ UNCHANGED poolVars

(***************************************************************************)
(* The token loop (runCompletion) and completion_loop().                   *)
(***************************************************************************)
\* is_valid_utf8() of bytes to which a piece is added: a whole text, the head of
\* a glyph or the rest of one.
Appended(bytes, piece) ==
  CASE <<bytes, piece>> \in {<<"empty", "whole">>, <<"open", "rest">>} -> "empty"
    [] <<bytes, piece>> = <<"empty", "head">> -> "open"
    [] OTHER -> "broken"

HasRoom == n_cur < n_ctx(load) - 1

\* llama_sampler_sample() asserts that there are logits; the process dies, and what
\* its other threads may still do here no longer matters.
SampleAborts ==
  /\ phase = "loop" /\ HasRoom /\ n_outputs = 0
  /\ phase' = "aborted"
  /\ UNCHANGED <<poolVars, load, session, batch, memory, faults>>

\* The end of the turn was sampled, or the window is full.
ReplyEnds ==
  /\ phase = "loop" /\ (HasRoom => n_outputs > 0)
  /\ phase' = "clear"
  /\ UNCHANGED <<poolVars, load, session, batch, memory, faults>>

SampleToken(piece) ==
  /\ phase = "loop" /\ HasRoom /\ n_outputs > 0
  /\ cache' = Appended(cache, piece) /\ text' = Appended(text, piece)
  /\ batch' = [first |-> n_cur, n |-> 1, output |-> TRUE]
  /\ n_cur' = n_cur + 1 /\ phase' = "decode"
  /\ UNCHANGED <<poolVars, load, reply, n_tokens, fed, failed, memory, faults>>

\* emit() hands the text over; a cancelled collector ends the flow there and
\* kv_cache_clear() is not called.
Emit ==
  /\ phase = "emit"
  /\ phase' \in {"loop", "ready"}
  /\ UNCHANGED <<poolVars, load, session, batch, memory, faults>>

KvCacheClear ==
  /\ phase = "clear" /\ phase' = "ready"
  /\ cells' = {}
  /\ UNCHANGED <<poolVars, load, session, batch, n_outputs, logits, faults>>

(***************************************************************************)
(* The system.                                                             *)
(***************************************************************************)
Rest == <<load, phase, session, batch, memory, faults>>

CallStep ==
  \/ LoadFails \/ NewContext \/ Repool \/ LoadEnds \/ Unloaded
  \/ PromptBatch
  \/ DecodeAborts \/ DecodeRefused \/ DecodeNotAllocated \/ DecodeCompute \/ DecodeDone
  \/ SampleAborts \/ ReplyEnds \/ \E piece \in load.pieces : SampleToken(piece)
  \/ Emit \/ KvCacheClear

Request == LoadModel \/ Unload \/ \E n \in load.prompts : Begin(n)

Caller == CallStep \/ (CallerStep(effectiveThreads(load)) /\ UNCHANGED Rest)
Worker(w) == WorkerStep(w) /\ UNCHANGED Rest

Next == \/ Request \/ Caller
        \/ \E w \in Workers : Worker(w) \/ (Spurious(w) /\ UNCHANGED Rest)

\* The scheduler runs every thread; requests and failures are nobody's duty.
Spec == Init /\ [][Next]_vars /\ WF_vars(Caller) /\ \A w \in Workers : WF_vars(Worker(w))

(***************************************************************************)
(* Properties.                                                             *)
(***************************************************************************)
\* "This is the difference between a clamped prompt and a native crash"
\* (completion_init, line 330), and where it is not: every batch, of a prompt of any
\* length and of the token loop up to the window's edge, fits the cache, and finds there
\* exactly the positions of its own reply that come before it, unless a decode of this
\* reply failed; and it fits n_batch, unless the model was trained on fewer tokens than
\* a batch and the prompt is longer than that.
EveryDecodeFits ==
  phase = "decode" /\ failed = "no" =>
    /\ batch.n >= 1 /\ HasSlot
    /\ batch.n <= n_batch(load) \/ (ShortWindow(load) /\ n_tokens > n_batch(load))
    /\ cells = {[reply |-> reply, pos |-> p] : p \in 0..(batch.first - 1)}

\* A token is sampled from the logits of the position before it in the same reply,
\* whatever the replies before it left behind, unless a decode of this one failed;
\* the process is aborted only if the prompt was cut off by a failure, or in a short
\* window by a prompt longer than n_batch.
FreshLogits ==
  /\ phase = "loop" /\ HasRoom /\ failed = "no" =>
       n_outputs = 1 /\ logits = [reply |-> reply, pos |-> n_cur - 1]
  /\ phase = "aborted" =>
       failed = "prompt" \/ (ShortWindow(load) /\ n_tokens > n_batch(load))

\* Text is held back only while this reply's own bytes do not end on a whole glyph:
\* the rest of a reply that was cancelled inside one swallows nothing.
NothingSwallowed ==
  phase \in {"prompt", "decode", "computing", "loop", "emit", "clear"} /\ text = "empty"
    => cache = "empty"

\* Every native call returns or aborts: no thread is left behind at a barrier, no
\* worker sleeps through a graph or the end of its pool, and the token loop ends.
CallsReturn ==
  phase \notin {"idle", "ready", "aborted"} ~> phase \in {"idle", "ready", "aborted"}
=============================================================================
