-------------------------- MODULE ModelTransferProofs --------------------------
(***************************************************************************)
(* Theorems about a transfer, for every number of mirrors, retries and     *)
(* pieces, and about the foreground service it uses, for every finite set  *)
(* of callers.                                                             *)
(***************************************************************************)
EXTENDS ModelTransfer, FiniteSetTheorems, TLAPS

(***************************************************************************)
(* The foreground service, for every finite set of callers.                *)
(***************************************************************************)
\* The count never exceeds the work in progress, is below zero only before a reset,
\* and the service is never on with everybody out.
Rest == /\ TypeOKWork
        /\ active <= Cardinality(Holding)
        /\ active < 0 => \E c \in Callers : at[c] = "reset"
        /\ service => ~Out

\* Undisturbed, the count is exact and nobody works beside a caller that is about
\* to stop the service.
Exact == ~bare => /\ active = Cardinality(Holding)
                  /\ (\E c \in Callers : at[c] = "reset") => Holding = {}
                  /\ (\E c \in Callers : at[c] = "stop") => \A c \in Callers : at[c] # "working"
                  /\ Covered

WorkInv == Rest /\ Exact

\* What a begin() does to the set of those that count.
LEMMA HoldingGrows ==
  ASSUME TypeOKWork, NEW c \in Callers, BeginCount(c)
  PROVE  Cardinality(Holding') = Cardinality(Holding) + 1
<1>1. Holding' = Holding \cup {c} /\ c \notin Holding
  BY DEF Holding, BeginCount, Go, TypeOKWork
<1>2. IsFiniteSet(Holding)
  BY CallersAssumption, FS_Subset DEF Holding
<1> QED  BY <1>1, <1>2, FS_AddElement

\* What an end() does to it.
LEMMA HoldingShrinks ==
  ASSUME TypeOKWork, NEW c \in Callers, EndCount(c)
  PROVE  Cardinality(Holding') = Cardinality(Holding) - 1
<1>1. Holding' = Holding \ {c} /\ c \in Holding
  BY DEF Holding, EndCount, Go, TypeOKWork
<1>2. IsFiniteSet(Holding)
  BY CallersAssumption, FS_Subset DEF Holding
<1> QED  BY <1>1, <1>2, FS_RemoveElement

\* The other steps leave it alone.
LEMMA HoldingStays ==
  ASSUME TypeOKWork, NEW c \in Callers, BeginStart(c) \/ EndReset(c) \/ EndStop(c)
  PROVE  Holding' = Holding
BY DEF Holding, BeginStart, EndReset, EndStop, Go, TypeOKWork

\* Cardinalities here are natural numbers, and zero only for the empty set.
LEMMA HoldingFinite ==
  /\ Cardinality(Holding) \in Nat
  /\ Cardinality(Holding) = 0 <=> Holding = {}
<1>1. IsFiniteSet(Holding)
  BY CallersAssumption, FS_Subset DEF Holding
<1> QED  BY <1>1, FS_CardinalityType, FS_EmptySet

\* Once all are out nothing is disturbed any more.
LEMMA OutIsExact == Rest /\ Out => Exact
<1> SUFFICES ASSUME Rest, Out PROVE Exact
  OBVIOUS
<1>1. Holding = {}
  BY DEF Out, Holding
<1>2. active = 0
  BY <1>1, HoldingFinite DEF Rest, TypeOKWork, Out
<1> QED  BY <1>1, <1>2, HoldingFinite DEF Exact, Covered, Out

\* Initially nobody works.
LEMMA WorkInit == InitWork => WorkInv
<1> SUFFICES ASSUME InitWork PROVE WorkInv
  OBVIOUS
<1>b. at \in [Callers -> Places] /\ Out
  BY DEF InitWork, Places, Out
<1>1. TypeOKWork /\ Out
  BY <1>b, 0 \in Int, Zenon DEF InitWork, TypeOKWork
<1>a. Holding = {}
  BY <1>1 DEF Out, Holding
<1>2. Rest
  BY <1>1, <1>a, HoldingFinite DEF Rest, InitWork
<1> QED  BY <1>1, <1>2, OutIsExact DEF WorkInv

\* Types and the bound on the count survive every step.
LEMMA RestStep == Rest /\ [NextWork]_work => Rest'
<1> SUFFICES ASSUME Rest, [NextWork]_work PROVE Rest'
  OBVIOUS
<1> USE DEF Places
<1>1. ASSUME NEW c \in Callers, BeginCount(c) PROVE Rest'
  <2>1. TypeOKWork'
    BY <1>1 DEF Rest, TypeOKWork, BeginCount, Go, BareUnless
  <2>2. active' <= Cardinality(Holding')
    <3>1. Cardinality(Holding') = Cardinality(Holding) + 1
      BY <1>1, HoldingGrows DEF Rest
    <3> QED  BY <1>1, <3>1, HoldingFinite DEF Rest, TypeOKWork, BeginCount
  <2>3. active' < 0 => \E d \in Callers : at'[d] = "reset"
    BY <1>1 DEF Rest, TypeOKWork, BeginCount, Go
  <2>4. ~Out'
    BY <1>1 DEF Out, BeginCount, Go, Rest, TypeOKWork
  <2> QED  BY <2>1, <2>2, <2>3, <2>4 DEF Rest
<1>2. ASSUME NEW c \in Callers, BeginStart(c) PROVE Rest'
  <2>1. TypeOKWork'
    BY <1>2 DEF Rest, TypeOKWork, BeginStart, Go, BareUnless
  <2>2. active' <= Cardinality(Holding')
    BY <1>2, HoldingStays DEF Rest, BeginStart
  <2>3. active' < 0 => \E d \in Callers : at'[d] = "reset"
    BY <1>2 DEF Rest, TypeOKWork, BeginStart, Go
  <2>4. ~Out'
    BY <1>2 DEF Out, BeginStart, Go, Rest, TypeOKWork
  <2> QED  BY <2>1, <2>2, <2>3, <2>4 DEF Rest
<1>3. ASSUME NEW c \in Callers, EndCount(c) PROVE Rest'
  <2>1. TypeOKWork'
    BY <1>3 DEF Rest, TypeOKWork, EndCount, Go, BareUnless
  <2>2. active' <= Cardinality(Holding')
    <3>1. Cardinality(Holding') = Cardinality(Holding) - 1
      BY <1>3, HoldingShrinks DEF Rest
    <3> QED  BY <1>3, <3>1, HoldingFinite DEF Rest, TypeOKWork, EndCount
  <2>3. active' < 0 => \E d \in Callers : at'[d] = "reset"
    BY <1>3 DEF Rest, TypeOKWork, EndCount, Go
  <2>4. ~Out'
    <3>1. CASE active' <= 0
      BY <1>3, <3>1 DEF Out, EndCount, Go, Rest, TypeOKWork
    <3>2. CASE active' > 0
      <4>1. Holding' # {}
        BY <3>2, <2>1, <2>2, FS_EmptySet DEF TypeOKWork
      <4> QED  BY <4>1 DEF Out, Holding
    <3> QED  BY <3>1, <3>2, <2>1 DEF TypeOKWork
  <2> QED  BY <2>1, <2>2, <2>3, <2>4 DEF Rest
<1>4. ASSUME NEW c \in Callers, EndReset(c) PROVE Rest'
  <2>1. TypeOKWork'
    BY <1>4 DEF Rest, TypeOKWork, EndReset, Go
  <2>2. active' <= Cardinality(Holding') /\ ~(active' < 0)
    BY <1>4, HoldingStays, HoldingFinite DEF Rest, EndReset
  <2>3. ~Out'
    BY <1>4 DEF Out, EndReset, Go, Rest, TypeOKWork
  <2> QED  BY <2>1, <2>2, <2>3 DEF Rest
<1>5. ASSUME NEW c \in Callers, EndStop(c) PROVE Rest'
  <2>1. TypeOKWork' /\ ~service'
    BY <1>5 DEF Rest, TypeOKWork, EndStop, Go, BareUnless
  <2>2. active' <= Cardinality(Holding')
    BY <1>5, HoldingStays DEF Rest, EndStop
  <2>3. active' < 0 => \E d \in Callers : at'[d] = "reset"
    BY <1>5 DEF Rest, TypeOKWork, EndStop, Go
  <2> QED  BY <2>1, <2>2, <2>3 DEF Rest
<1>6. CASE TaskRemoved
  <2>1. TypeOKWork' /\ ~service' /\ Holding' = Holding
    BY <1>6 DEF Rest, TypeOKWork, TaskRemoved, BareUnless, Holding
  <2> QED  BY <1>6, <2>1 DEF Rest, TaskRemoved
<1>7. CASE Killed
  <2>a. at' \in [Callers -> Places]
    BY <1>7 DEF Killed
  <2>1. TypeOKWork' /\ ~service' /\ active' = 0
    BY <1>7, <2>a, 0 \in Int, Zenon DEF TypeOKWork, Killed
  <2>2. Holding' = {}
    BY <1>7 DEF Killed, Holding
  <2>3. Cardinality(Holding') = 0
    BY <2>2, FS_EmptySet
  <2> QED  BY <2>1, <2>3 DEF Rest
<1>8. CASE UNCHANGED work
  BY <1>8 DEF Rest, TypeOKWork, work, Holding, Out
<1> QED  BY <1>1, <1>2, <1>3, <1>4, <1>5, <1>6, <1>7, <1>8 DEF NextWork

\* So does the exact count, until something disturbs it.
LEMMA ExactStep == WorkInv /\ [NextWork]_work => Exact'
<1> SUFFICES ASSUME Rest, Exact, [NextWork]_work PROVE Exact'
  BY DEF WorkInv
<1>0. Rest' /\ TypeOKWork
  BY RestStep DEF Rest
<1>a. CASE Out'
  BY <1>a, <1>0, OutIsExact, PTL
<1>b. ASSUME ~Out', ~bare' PROVE Exact'
  <2>1. ASSUME NEW c \in Callers, BeginCount(c) PROVE Exact'
    <3>1. ~bare /\ \A d \in Callers : at[d] # "reset"
      BY <1>b, <2>1 DEF BeginCount, BareUnless
    <3>2. active' = Cardinality(Holding')
      BY <1>0, <2>1, <3>1, HoldingGrows DEF Exact, BeginCount
    <3> QED  BY <1>0, <2>1, <3>1, <3>2 DEF Exact, Covered, BeginCount, Go, TypeOKWork
  <2>2. ASSUME NEW c \in Callers, BeginStart(c) PROVE Exact'
    <3>1. ~bare /\ service' /\ \A d \in Callers : at[d] \notin {"reset", "stop"}
      BY <1>b, <2>2 DEF BeginStart, BareUnless
    <3>2. active' = Cardinality(Holding')
      BY <1>0, <2>2, <3>1, HoldingStays DEF Exact, BeginStart
    <3> QED  BY <1>0, <2>2, <3>1, <3>2 DEF Exact, Covered, BeginStart, Go, TypeOKWork
  <2>3. ASSUME NEW c \in Callers, EndCount(c) PROVE Exact'
    <3>1. ~bare /\ at[c] = "working" /\ c \in Holding
      BY <1>b, <2>3 DEF EndCount, BareUnless, Go, Out, Holding
    <3>2. \A d \in Callers : at[d] \notin {"reset", "stop"}
      BY <3>1 DEF Exact
    <3>3. active' = Cardinality(Holding')
      BY <1>0, <2>3, <3>1, HoldingShrinks, HoldingFinite DEF Exact, EndCount, TypeOKWork
    <3>4. at'[c] = "reset" => Holding' = {}
      <4>1. SUFFICES ASSUME at'[c] = "reset" PROVE Holding' = {}
        OBVIOUS
      <4>2. active' <= 0
        BY <1>0, <2>3, <4>1 DEF EndCount, Go, TypeOKWork
      <4>3. IsFiniteSet(Holding')
        BY CallersAssumption, FS_Subset DEF Holding
      <4> QED  BY <3>3, <4>2, <4>3, FS_CardinalityType, FS_EmptySet
    <3> QED  BY <1>0, <2>3, <3>1, <3>2, <3>3, <3>4
             DEF Exact, Covered, EndCount, Go, TypeOKWork
  <2>4. ASSUME NEW c \in Callers, EndReset(c) PROVE Exact'
    <3>1. ~bare /\ Holding = {} /\ at[c] = "reset"
      BY <1>b, <2>4 DEF EndReset, Go, Exact
    <3>2. active' = Cardinality(Holding') /\ Holding' = {}
      BY <1>0, <2>4, <3>1, HoldingStays, HoldingFinite DEF EndReset
    <3>3. \A d \in Callers : at'[d] # "working"
      BY <3>2 DEF Holding
    <3> QED  BY <3>2, <3>3 DEF Exact, Covered
  <2>5. ASSUME NEW c \in Callers, EndStop(c) PROVE Exact'
    <3>1. ~bare /\ at[c] = "stop"
      BY <1>b, <2>5 DEF EndStop, Go, BareUnless, Out
    <3>2. active' = Cardinality(Holding')
      BY <1>0, <2>5, <3>1, HoldingStays DEF Exact, EndStop
    <3>3. \A d \in Callers : at'[d] # "working"
      BY <1>0, <2>5, <3>1 DEF Exact, EndStop, Go, TypeOKWork
    <3>4. (\E d \in Callers : at'[d] = "reset") => Holding' = {}
      BY <1>0, <2>5, <3>1, HoldingStays DEF Exact, EndStop, Go, TypeOKWork
    <3> QED  BY <3>2, <3>3, <3>4 DEF Exact, Covered
  <2>6. CASE TaskRemoved
    BY <1>b, <2>6 DEF TaskRemoved, BareUnless, Out
  <2>7. CASE Killed
    BY <1>b, <2>7 DEF Killed, Out
  <2>8. CASE UNCHANGED work
    BY <2>8 DEF Exact, Covered, work, Holding
  <2> QED  BY <2>1, <2>2, <2>3, <2>4, <2>5, <2>6, <2>7, <2>8 DEF NextWork
<1> QED  BY <1>a, <1>b DEF Exact

\* Nobody can do anything to leave the invariant.
LEMMA WorkIsInductive == SpecWork => []WorkInv
<1>1. WorkInv /\ [NextWork]_work => WorkInv'
  BY RestStep, ExactStep DEF WorkInv
<1> QED  BY <1>1, WorkInit, PTL DEF SpecWork

\* Whatever the number of callers and the interleaving of their begin() and end(),
\* no service is left behind once all have ended, and the count is zero again.
THEOREM AtRest == SpecWork => []StopsAtRest
<1>1. WorkInv => StopsAtRest
  <2> SUFFICES ASSUME WorkInv, Out PROVE active = 0 /\ ~service
    BY DEF StopsAtRest
  <2>1. Holding = {}
    BY DEF Out, Holding
  <2> QED  BY <2>1, HoldingFinite DEF WorkInv, Rest, TypeOKWork, Out
<1> QED  BY <1>1, WorkIsInductive, PTL

\* Work is covered by the service from its start to its end, unless the system took
\* the service away or a begin() ran into an end().
THEOREM WorkCovered == SpecWork => []Covered
<1>1. WorkInv => Covered
  BY DEF WorkInv, Exact, Covered
<1> QED  BY <1>1, WorkIsInductive, PTL

(***************************************************************************)
(* A transfer's use of the service.                                        *)
(***************************************************************************)
\* Watcher and replies use the service as its specification says.
LEMMA WorkSteps == [Next]_vars => [NextWork]_work
<1> SUFFICES ASSUME [Next]_vars PROVE [NextWork]_work
  OBVIOUS
<1> USE WorkAssumption
<1>1. CASE Receive
  BY <1>1 DEF Receive, collect, beginTransfer, endTransfer, W, NextWork
<1>2. CASE watcherGoesOn \/ reply
  BY <1>2 DEF watcherGoesOn, reply, Within, W, NextWork
<1>3. CASE onTaskRemoved \/ Restarted
  BY <1>3 DEF onTaskRemoved, Restarted, NextWork
<1>4. CASE UNCHANGED work
  BY <1>4
<1> QED  BY <1>1, <1>2, <1>3, <1>4 DEF Next, vars, watching, startDownload, startImport, startLoad,
            cancelDownload, clearTransfer, JobStep, fetchStep, mirrorFailed, cleanedUp, unwound,
            downloaded, importCopy, imported, importFailed, finalizeDelete, finalizeRename,
            renameFailed, dropped, activate, loadEnds, work

\* A transfer, the watcher and the replies implement the specification of the service.
THEOREM UsesTheService == Spec => SpecWork
<1>1. Init => InitWork
  BY DEF Init
<1> QED  BY <1>1, WorkSteps, PTL DEF Spec, SpecWork

\* So, with downloads, imports, loads and replies on it, no service is left behind
\* once all have ended.
THEOREM TransferRests == Spec => []StopsAtRest
BY UsesTheService, AtRest, PTL

\* And a transfer or reply is covered until it ends, as far as the system lets it.
THEOREM TransferCovered == Spec => []Covered
BY UsesTheService, WorkCovered, PTL

(***************************************************************************)
(* The job and its files.                                                  *)
(***************************************************************************)
Jobs == [kind : {"none", "download", "import", "select"},
         step : {"idle", "fetch", "cleanup", "copy", "delete", "rename", "promoted", "load"},
         mirror : 0..Mirrors, cancel : BOOLEAN]

\* The types of what the job writes.
Kinds == /\ TypeOKTransfer /\ job \in Jobs
         /\ state \in States /\ transfer \in Transfers

\* A job goes through the steps of its own kind, and the published transfer with it.
Course ==
  /\ job.kind = "none" => job = NoJob
  /\ job.kind = "select" => job.step = "load"
  /\ job.kind = "download" => /\ job.step \notin {"idle", "copy"}
                              /\ job.mirror \in 1..Mirrors
  /\ job.kind = "import" => job.step \notin {"idle", "fetch", "cleanup"}
  /\ Transferring => IF job.step = "load" THEN transfer = "Idle" /\ state = "Loading"
                                          ELSE transfer = "Running"

\* What is in the temporary file at each step.  Unless another origin's transfer or a
\* short body left it, all of it came from where its first bytes came from; a download
\* goes on only with what the same mirror sent.
Piece ==
  /\ leftover # "mixed" /\ part.head \notin {Nowhere, Junk} => part.pure
  /\ job.step \in {"idle", "load"} /\ leftover = "none" => part = Absent
  /\ job.step \in {"idle", "load"} /\ leftover = "kept" => part.head = 1
  /\ job.step = "promoted" => part = Absent /\ leftover = "none"
  /\ job.step = "copy" => part.head \in {Own, Junk} /\ leftover = "none"
  /\ Fetching /\ fetch.step = "stream" => part # Absent /\ fetch.body \in Origins
  /\ Fetching /\ leftover # "mixed" =>
       /\ part.head \in {Nowhere, job.mirror, Junk}
       /\ fetch.step = "stream" /\ part.head = job.mirror => fetch.body = job.mirror
       /\ fetch.step = "done" /\ part.head = job.mirror => part.len = Size
  /\ PromotesWhole

Sound == Kinds /\ Course /\ Piece

\* The fields of a file, and the origins apart.
LEMMA FileFacts ==
  /\ \A f \in Files : /\ f.head \in 0..(Mirrors + 2) /\ f.len \in 0..Size /\ f.pure \in BOOLEAN
                      /\ f.head = Nowhere <=> f = Absent
                      /\ f.head \in Origins <=> f # Absent
  /\ Absent \in Files
  /\ \A o \in Origins, n \in 0..Size, b \in BOOLEAN : [head |-> o, len |-> n, pure |-> b] \in Files
  /\ \A f \in Files : f = [head |-> f.head, len |-> f.len, pure |-> f.pure]
  /\ {Own, Junk} \subseteq Origins /\ 1..Mirrors \subseteq Origins /\ Own # Junk
  /\ \A m \in 1..Mirrors : m \notin {Nowhere, Own, Junk}
  /\ \A o \in Origins : LengthOf(o) \in 1..Size /\ o # Nowhere
<1> USE DownloadAssumption DEF Nowhere, Origins, Own, Junk, LengthOf
<1>1. ASSUME NEW f \in Files
      PROVE  /\ f.head \in 0..(Mirrors + 2) /\ f.len \in 0..Size /\ f.pure \in BOOLEAN
             /\ f.head = Nowhere <=> f = Absent
             /\ f.head \in Origins <=> f # Absent
             /\ f = [head |-> f.head, len |-> f.len, pure |-> f.pure]
  <2>1. CASE f = Absent
    BY <2>1 DEF Absent
  <2>2. CASE f \in [head : Origins, len : 0..Size, pure : BOOLEAN]
    BY <2>2 DEF Absent
  <2> QED  BY <2>1, <2>2 DEF Files
<1>2. Absent \in Files
  BY DEF Files
<1>3. \A o \in Origins, n \in 0..Size, b \in BOOLEAN : [head |-> o, len |-> n, pure |-> b] \in Files
  BY DEF Files
<1>4. {Own, Junk} \subseteq Origins /\ 1..Mirrors \subseteq Origins /\ Own # Junk
  OBVIOUS
<1>5. \A m \in 1..Mirrors : m \notin {Nowhere, Own, Junk}
  OBVIOUS
<1>6. \A o \in Origins : LengthOf(o) \in 1..Size /\ o # Nowhere
  OBVIOUS
<1> QED  BY <1>1, <1>2, <1>3, <1>4, <1>5, <1>6

\* What the downloader writes is of its type.
LEMMA DownloaderTyped ==
  ASSUME TypeOKTransfer
  PROVE  /\ \A o \in Origins : Opened(o) => part' \in Files /\ leftover' = "none"
         /\ Deleted => part' \in Files /\ leftover' = "none"
         /\ \A o \in Origins : part # Absent /\ part.len < LengthOf(o) /\ Grown(o)
               => /\ part' \in Files /\ part' # Absent
                  /\ part'.head = part.head /\ part'.len = part.len + 1
                  /\ part'.pure = (part.pure /\ part.head = o)
         /\ NoFetch \in Fetches /\ \A s \in {"done", "failed"} : Ended(s) \in Fetches
         /\ StartFetch => fetch' \in Fetches
         /\ Transient => fetch' \in Fetches /\ fetch'.step \in {"failed", "request"}
         /\ \A o \in Origins : [fetch EXCEPT !.step = "stream", !.body = o] \in Fetches
         /\ Leaving \in {"none", "kept", "mixed"}
<1> USE FileFacts, DownloadAssumption DEF TypeOKTransfer
<1>1. \A o \in Origins : Opened(o) => part' \in Files /\ leftover' = "none"
  <2>1. 0 \in 0..Size /\ TRUE \in BOOLEAN
    OBVIOUS
  <2>2. \A o \in Origins : [head |-> o, len |-> 0, pure |-> TRUE] \in Files
    BY <2>1, FileFacts, Zenon
  <2> QED  BY <2>2 DEF Opened
<1>2. Deleted => part' \in Files /\ leftover' = "none"
  BY DEF Deleted
<1>3. ASSUME NEW o \in Origins, part # Absent, part.len < LengthOf(o), Grown(o)
      PROVE  /\ part' \in Files /\ part' # Absent
             /\ part'.head = part.head /\ part'.len = part.len + 1
             /\ part'.pure = (part.pure /\ part.head = o)
  <2>1. part' = [head |-> part.head, len |-> part.len + 1, pure |-> part.pure /\ part.head = o]
    <3>1. part = [head |-> part.head, len |-> part.len, pure |-> part.pure]
      OBVIOUS
    <3> DEFINE h == part.head  n == part.len  p == part.pure
    <3>2. part = [head |-> h, len |-> n, pure |-> p]
      BY <3>1
    <3>3. part' = [part EXCEPT !.len = n + 1, !.pure = p /\ h = o]
      BY <1>3 DEF Grown
    <3> HIDE DEF h, n, p
    <3>4. part' = [head |-> h, len |-> n + 1, pure |-> p /\ h = o]
      BY <3>2, <3>3
    <3> QED  BY <3>4 DEF h, n, p
  <2>2. part.len + 1 \in 0..Size /\ part.head \in Origins /\ (part.pure /\ part.head = o) \in BOOLEAN
    BY <1>3
  <2> QED  BY <2>1, <2>2
<1>4. NoFetch \in Fetches /\ \A s \in {"done", "failed"} : Ended(s) \in Fetches
  BY DEF NoFetch, Ended, Fetches
<1>5. StartFetch => fetch' \in Fetches
  BY DEF StartFetch, NoFetch, Fetches
<1>6. Transient => fetch' \in Fetches /\ fetch'.step \in {"failed", "request"}
  <2>1. fetch.attempt \in Nat
    BY DEF Fetches
  <2>2. ~(fetch.attempt + 1 >= MaxRetries) => fetch.attempt + 1 \in 0..(MaxRetries - 1)
    BY <2>1
  <2>3. ASSUME NEW s \in {"failed", "request"}, NEW n \in 0..(MaxRetries - 1)
        PROVE  [step |-> s, attempt |-> n, body |-> Nowhere] \in Fetches
    BY DEF Fetches
  <2>4. SUFFICES ASSUME Transient PROVE fetch' \in Fetches /\ fetch'.step \in {"failed", "request"}
    OBVIOUS
  <2>5. CASE fetch.attempt + 1 >= MaxRetries
    <3>1. fetch' = [step |-> "failed", attempt |-> 0, body |-> Nowhere]
      BY <2>4, <2>5 DEF Transient, Ended, NoFetch
    <3> QED  BY <2>3, <3>1
  <2>6. CASE ~(fetch.attempt + 1 >= MaxRetries)
    <3>1. fetch' = [step |-> "request", attempt |-> fetch.attempt + 1, body |-> Nowhere]
      BY <2>4, <2>6 DEF Transient, NoFetch
    <3> QED  BY <2>2, <2>3, <2>6, <3>1
  <2> QED  BY <2>5, <2>6
<1>7. \A o \in Origins : [fetch EXCEPT !.step = "stream", !.body = o] \in Fetches
  BY DEF Fetches
<1>8. Leaving \in {"none", "kept", "mixed"}
  BY DEF Leaving
<1> QED  BY <1>1, <1>2, <1>3, <1>4, <1>5, <1>6, <1>7, <1>8

\* At the start there is no file and no job.
LEMMA SoundInit == Init => Sound
<1> SUFFICES ASSUME Init PROVE Sound
  OBVIOUS
<1> USE DEF Init, InitTransfer, InitVolatile
<1>1. TypeOKTransfer
  <2>1. NoFetch \in Fetches
    BY DownloadAssumption DEF NoFetch, Fetches
  <2> QED  BY <2>1, FileFacts DEF TypeOKTransfer
<1>2. Kinds /\ Course
  BY <1>1, DownloadAssumption DEF Kinds, Course, Jobs, NoJob, States, Transfers, Transferring
<1>3. Piece
  BY DEF Piece, NoJob, Absent, Fetching, PromotesWhole
<1> QED  BY <1>2, <1>3 DEF Sound

\* One step of the download of a mirror.
LEMMA FetchSound == Sound /\ fetchStep => Sound'
<1> SUFFICES ASSUME Sound, fetchStep PROVE Sound'
  OBVIOUS
<1> USE DownloadAssumption
<1>0. /\ TypeOKTransfer /\ job.step = "fetch" /\ ~job.cancel /\ UNCHANGED <<job, state, transfer>>
      /\ job.mirror \in 1..Mirrors /\ job.mirror \in Origins /\ UNCHANGED installed
  <2>1. TypeOKTransfer /\ job.step = "fetch" /\ ~job.cancel /\ UNCHANGED <<job, state, transfer>>
    BY DEF Sound, Kinds, fetchStep, Fetching
  <2>2. job.kind = "download"
    BY <2>1 DEF Sound, Kinds, Course, Jobs, NoJob
  <2>3. UNCHANGED installed
    BY DEF fetchStep, Respond, Read, ShortBody
  <2> QED  BY <2>1, <2>2, <2>3, FileFacts DEF Sound, Course
<1>c. Course' /\ (TypeOKTransfer' => Kinds')
  BY <1>0 DEF Sound, Course, Kinds, Transferring
<1>p. /\ leftover # "mixed" /\ part.head \notin {Nowhere, Junk} => part.pure
      /\ fetch.step = "stream" => part # Absent /\ fetch.body \in Origins
      /\ leftover # "mixed" =>
           /\ part.head \in {Nowhere, job.mirror, Junk}
           /\ fetch.step = "stream" /\ part.head = job.mirror => fetch.body = job.mirror
           /\ fetch.step = "done" /\ part.head = job.mirror => part.len = Size
  BY <1>0 DEF Sound, Piece, Fetching
<1> SUFFICES
      /\ part' \in Files /\ fetch' \in Fetches /\ leftover' \in {"none", "kept", "mixed"}
      /\ leftover' # "mixed" /\ part'.head \notin {Nowhere, Junk} => part'.pure
      /\ fetch'.step = "stream" => part' # Absent /\ fetch'.body \in Origins
      /\ leftover' # "mixed" =>
           /\ part'.head \in {Nowhere, job.mirror, Junk}
           /\ fetch'.step = "stream" /\ part'.head = job.mirror => fetch'.body = job.mirror
           /\ fetch'.step = "done" /\ part'.head = job.mirror => part'.len = Size
  <2>1. TypeOKTransfer'
    BY <1>0 DEF TypeOKTransfer
  <2>2. Piece'
    BY <1>0 DEF Piece, Fetching, PromotesWhole
  <2> QED  BY <1>c, <2>1, <2>2 DEF Sound
<1>t. part \in Files /\ fetch \in Fetches /\ leftover \in {"none", "kept", "mixed"}
  BY <1>0 DEF TypeOKTransfer
<1>1. CASE Transient
  <2>1. fetch' \in Fetches /\ fetch'.step \in {"failed", "request"}
    BY <1>0, <1>1, DownloaderTyped
  <2>2. UNCHANGED <<part, leftover>>
    BY <1>1 DEF Transient
  <2> QED  BY <1>t, <1>p, <2>1, <2>2
<1>2. CASE Failure
  <2>1. fetch' \in Fetches /\ fetch'.step = "failed"
    BY <1>0, <1>2, DownloaderTyped DEF Failure, Ended, NoFetch
  <2>2. UNCHANGED <<part, leftover>>
    BY <1>2 DEF Failure
  <2> QED  BY <1>t, <1>p, <2>1, <2>2
<1>3. CASE Unsatisfiable
  <2>1. fetch' \in Fetches /\ fetch'.step = "done" /\ UNCHANGED <<part, leftover>>
    BY <1>0, <1>3, DownloaderTyped DEF Unsatisfiable, Ended, NoFetch
  <2>2. part.len = Size
    BY <1>t, <1>3, FileFacts DEF Unsatisfiable
  <2> QED  BY <1>t, <1>p, <2>1, <2>2
<1>4. CASE Resume(job.mirror)
  <2>1. fetch'.step = "stream" /\ fetch'.body = job.mirror /\ fetch' \in Fetches
    BY <1>0, <1>t, <1>4, DownloaderTyped DEF Resume, Fetches
  <2>2. part # Absent
    BY <1>4 DEF Resume, Absent
  <2> QED  BY <1>0, <1>t, <1>p, <1>4, <2>1, <2>2 DEF Resume
<1>5. ASSUME NEW o \in {job.mirror, Junk}, Restart(o)
      PROVE  /\ part' \in Files /\ fetch' \in Fetches /\ leftover' = "none"
             /\ part'.head = o /\ part'.pure /\ fetch'.step = "stream" /\ fetch'.body = o
             /\ part' # Absent /\ o \in Origins
  <2>1. o \in Origins
    BY <1>0, FileFacts
  <2>2. part' \in Files /\ fetch' \in Fetches
    BY <1>0, <1>5, <2>1, DownloaderTyped DEF Restart
  <2>3. fetch'.step = "stream" /\ fetch'.body = o
    BY <1>t, <1>5 DEF Restart, Fetches
  <2> QED  BY <1>5, <2>1, <2>2, <2>3, FileFacts DEF Restart, Opened
<1>6. CASE fetch.step = "stream" /\ part.len < LengthOf(fetch.body) /\ Grown(fetch.body)
           /\ UNCHANGED <<fetch, leftover>>
  BY <1>0, <1>t, <1>p, <1>6, DownloaderTyped
<1>7. CASE fetch.step = "stream" /\ part.len >= LengthOf(fetch.body)
           /\ fetch' = Ended("done") /\ UNCHANGED <<part, leftover>>
  <2>1. fetch' \in Fetches /\ fetch'.step = "done"
    BY <1>0, <1>7, DownloaderTyped DEF Ended, NoFetch
  <2>2. fetch.body = job.mirror => part.len = Size
    BY <1>0, <1>t, <1>7, FileFacts DEF LengthOf
  <2> QED  BY <1>t, <1>p, <1>7, <2>1, <2>2
<1>8. CASE ShortBody
  BY <1>0, <1>t, <1>p, <1>8, DownloaderTyped DEF ShortBody, Ended, NoFetch
<1>9. CASE \E o \in {job.mirror, Junk} : Restart(o)
  BY <1>5, <1>9
<1> QED  BY <1>1, <1>2, <1>3, <1>4, <1>9, <1>6, <1>7, <1>8 DEF fetchStep, Respond, Read

\* The other steps of the download and import.
LEMMA JobSound == Sound /\ JobStep => Sound'
<1> SUFFICES ASSUME Sound, JobStep PROVE Sound'
  OBVIOUS
<1> USE DownloadAssumption
<1>0. TypeOKTransfer /\ job \in Jobs /\ state \in States /\ transfer \in Transfers
  BY DEF Sound, Kinds
<1>t. part \in Files /\ fetch \in Fetches /\ leftover \in {"none", "kept", "mixed"}
      /\ installed \in BOOLEAN
  BY <1>0 DEF TypeOKTransfer
<1>n. /\ NoFetch \in Fetches /\ NoFetch.step = "idle" /\ Absent \in Files /\ NoJob \in Jobs
      /\ Absent.head = Nowhere
  <2>1. NoJob \in Jobs
    BY DEF NoJob, Jobs
  <2>2. NoFetch.step = "idle" /\ Absent.head = Nowhere
    BY DEF NoFetch, Absent
  <2> QED  BY <1>0, <2>1, <2>2, DownloaderTyped, FileFacts
<1>k. /\ job.step \in {"fetch", "cleanup"} => job.kind = "download"
      /\ job.step = "copy" => job.kind = "import"
      /\ job.step \in {"delete", "rename", "promoted"} => job.kind \in {"download", "import"}
      /\ job.kind = "download" => job.mirror \in 1..Mirrors
      /\ job.step \notin {"idle", "load"} => transfer = "Running"
  BY <1>0 DEF Sound, Course, Jobs, NoJob, Transferring
<1> DEFINE Goal == TypeOKTransfer' /\ job' \in Jobs /\ state' \in States /\ transfer' \in Transfers
                   /\ Course' /\ Piece'
<1> SUFFICES Goal
  BY DEF Sound, Kinds
<1>1. CASE mirrorFailed
  <2>1. Kinds'
    BY <1>0, <1>t, <1>n, <1>1 DEF mirrorFailed, Kinds, TypeOKTransfer, Jobs
  <2>2. Course'
    BY <1>0, <1>1 DEF mirrorFailed, Sound, Course, Jobs, Fetching, Transferring, NoJob
  <2>3. Piece'
    BY <1>0, <1>1 DEF mirrorFailed, Sound, Piece, Jobs, Fetching, PromotesWhole
  <2> QED  BY <2>1, <2>2, <2>3 DEF Kinds
<1>2. CASE cleanedUp
  <2>0. job.kind = "download" /\ job.mirror \in 1..Mirrors /\ ~job.cancel /\ job.step = "cleanup"
        /\ transfer = "Running"
    BY <1>0, <1>2 DEF cleanedUp, Sound, Course, Jobs, NoJob, Transferring
  <2>1. part' = Absent /\ leftover' = "none" /\ UNCHANGED <<installed, state>>
    BY <1>2 DEF cleanedUp, Deleted
  <2>2. CASE job.mirror < Mirrors
    <3>1. job' = [job EXCEPT !.mirror = @ + 1, !.step = "fetch"] /\ transfer' = transfer
          /\ fetch' = [NoFetch EXCEPT !.step = "request"] /\ fetch' \in Fetches
      BY <1>0, <1>2, <2>2, DownloaderTyped DEF cleanedUp, StartFetch
    <3>2. job.mirror + 1 \in 1..Mirrors
      BY <2>0, <2>2
    <3>3. job' \in Jobs /\ job'.kind = "download" /\ job'.step = "fetch" /\ job'.mirror = job.mirror + 1
      <4>1. job = [kind |-> job.kind, step |-> job.step, mirror |-> job.mirror, cancel |-> job.cancel]
        BY <1>0 DEF Jobs
      <4>2. job'.kind = "download" /\ job'.step = "fetch" /\ job'.mirror = job.mirror + 1
            /\ job'.cancel = job.cancel /\ DOMAIN job' = DOMAIN job
        BY <2>0, <3>1, <4>1
      <4>3. job' = [kind |-> "download", step |-> "fetch", mirror |-> job.mirror + 1, cancel |-> job.cancel]
        BY <2>0, <3>1, <4>1, <4>2
      <4>4. job.mirror + 1 \in 0..Mirrors /\ job.cancel \in BOOLEAN
        BY <1>0, <3>2 DEF Jobs
      <4>5. \A m \in 0..Mirrors, c \in BOOLEAN :
              [kind |-> "download", step |-> "fetch", mirror |-> m, cancel |-> c] \in Jobs
        BY DEF Jobs
      <4> QED  BY <4>2, <4>3, <4>4, <4>5
    <3>4. fetch'.step = "request"
      BY <3>1 DEF NoFetch
    <3>5. Course'
      BY <2>0, <3>1, <3>2, <3>3 DEF Course, Transferring, NoJob
    <3>6. Piece'
      BY <1>n, <2>1, <3>3, <3>4 DEF Piece, Fetching, PromotesWhole
    <3> QED  BY <1>0, <1>t, <1>n, <2>1, <3>1, <3>3, <3>5, <3>6 DEF TypeOKTransfer
  <2>3. CASE ~(job.mirror < Mirrors)
    <3>1. job' = NoJob /\ transfer' = "Failed" /\ UNCHANGED fetch
      BY <1>2, <2>3 DEF cleanedUp
    <3>2. Course' /\ Piece'
      BY <1>n, <2>1, <3>1 DEF Course, Piece, NoJob, Fetching, PromotesWhole, Transferring
    <3> QED  BY <1>0, <1>t, <1>n, <2>1, <3>1, <3>2 DEF TypeOKTransfer, Transfers
  <2> QED  BY <2>2, <2>3
<1>3. CASE unwound
  <2>1. job' = NoJob /\ UNCHANGED <<fetch, installed, state, transfer>>
    BY <1>3 DEF unwound
  <2>2. CASE Deleted
    BY <1>0, <1>t, <1>n, <2>1, <2>2
       DEF Deleted, TypeOKTransfer, Course, Piece, NoJob, Fetching, PromotesWhole, Transferring
  <2>3. CASE UNCHANGED part /\ leftover' = Leaving
    <3>1. Course' /\ Piece'
      BY <1>0, <1>n, <2>1, <2>3
         DEF Sound, Leaving, Course, Piece, NoJob, Fetching, PromotesWhole, Transferring
    <3> QED  BY <1>0, <1>t, <1>n, <2>1, <2>3, <3>1, DownloaderTyped DEF TypeOKTransfer
  <2> QED  BY <1>3, <2>2, <2>3 DEF unwound
<1>4. CASE downloaded
  <2>1. job.kind = "download" /\ job.mirror \in 1..Mirrors /\ Fetching /\ fetch.step = "done"
    BY <1>0, <1>4 DEF downloaded, Fetching, Sound, Course, Jobs, NoJob
  <2>2. isGguf(part) /\ UNCHANGED <<part, leftover, fetch, installed, state, transfer>>
        /\ job' = [job EXCEPT !.step = "delete"]
    BY <1>4 DEF downloaded, transferVars
  <2>3. leftover # "mixed" => Whole(part)
    <3>1. leftover # "mixed" => part.head = job.mirror /\ part.len = Size /\ part.pure
      BY <2>1, <2>2 DEF Sound, Piece, isGguf
    <3> QED  BY <2>1, <3>1, FileFacts DEF Whole
  <2>4. job' \in Jobs /\ job'.step = "delete" /\ job'.kind = "download" /\ job'.mirror = job.mirror
    BY <1>0, <2>1, <2>2 DEF Jobs
  <2>5. Course'
    BY <2>1, <2>2, <2>4 DEF Sound, Course, Fetching, Transferring, NoJob
  <2>6. Piece'
    BY <2>2, <2>3, <2>4 DEF Sound, Piece, Fetching, PromotesWhole, isGguf, Whole
  <2> QED  BY <1>0, <2>2, <2>4, <2>5, <2>6 DEF TypeOKTransfer
<1>5. CASE importCopy
  <2>1. /\ job.step = "copy" /\ Grown(part.head) /\ part.len < LengthOf(part.head)
        /\ UNCHANGED <<installed, fetch, leftover, job, state, transfer>>
    BY <1>5 DEF importCopy
  <2>2. part.head \in Origins /\ part # Absent
    BY <1>t, <2>1, FileFacts DEF Sound, Piece
  <2>3. part' \in Files /\ part'.head = part.head /\ part'.pure = part.pure
    BY <1>0, <1>t, <2>1, <2>2, DownloaderTyped, FileFacts
  <2>4. Piece'
    BY <2>1, <2>3 DEF Sound, Piece, Fetching, PromotesWhole
  <2> QED  BY <1>0, <1>t, <2>1, <2>3, <2>4 DEF TypeOKTransfer, Sound, Course, Transferring
<1>6. CASE imported
  <2>1. /\ job.step = "copy" /\ part.len = LengthOf(part.head) /\ UNCHANGED <<installed, fetch, state>>
        /\ job.kind = "import" /\ part.head \in {Own, Junk} /\ leftover = "none"
    BY <1>k, <1>6 DEF imported, Sound, Piece
  <2>2. CASE isGguf(part)
    <3>1. job' = [job EXCEPT !.step = "delete"] /\ UNCHANGED <<part, leftover, transfer>>
      BY <1>6, <2>2 DEF imported
    <3>2. job' \in Jobs /\ job'.step = "delete" /\ job'.kind = "import"
      BY <1>0, <2>1, <3>1 DEF Jobs
    <3>3. Whole(part)
      BY <2>1, <2>2, FileFacts DEF Whole, isGguf, LengthOf, Sound, Piece
    <3>4. Course'
      BY <1>k, <2>1, <3>1, <3>2 DEF Course, Transferring
    <3>5. Piece'
      BY <2>1, <2>2, <3>1, <3>2, <3>3 DEF Sound, Piece, Fetching, PromotesWhole, isGguf, Whole
    <3> QED  BY <1>0, <2>1, <3>1, <3>2, <3>4, <3>5 DEF TypeOKTransfer
  <2>3. CASE ~isGguf(part)
    <3>1. Deleted /\ job' = NoJob /\ transfer' = "Failed"
      BY <1>6, <2>3 DEF imported
    <3> QED  BY <1>0, <1>t, <1>n, <2>1, <3>1 DEF Deleted, TypeOKTransfer, Course, Piece, NoJob,
                Fetching, PromotesWhole, Transferring, Transfers
  <2> QED  BY <2>2, <2>3
<1>7. CASE importFailed
  BY <1>0, <1>t, <1>n, <1>7 DEF importFailed, TypeOKTransfer, Course, Piece, NoJob,
     Fetching, PromotesWhole, Transferring, Transfers
<1>8. CASE finalizeDelete
  <2>1. /\ job.step = "delete" /\ job' = [job EXCEPT !.step = "rename"] /\ installed' = FALSE
        /\ UNCHANGED <<part, fetch, leftover, state, transfer>>
    BY <1>8 DEF finalizeDelete, FinalizeDelete
  <2>2. job' \in Jobs /\ job'.step = "rename" /\ job'.kind = job.kind /\ job'.mirror = job.mirror
    BY <1>0, <2>1 DEF Jobs
  <2>3. Course'
    BY <1>k, <2>1, <2>2 DEF Course, Transferring
  <2>4. Piece'
    BY <2>1, <2>2 DEF Sound, Piece, Fetching, PromotesWhole, isGguf, Whole
  <2> QED  BY <1>0, <1>t, <2>1, <2>2, <2>3, <2>4 DEF TypeOKTransfer
<1>9. CASE finalizeRename
  <2>1. /\ job.step = "rename" /\ job' = [job EXCEPT !.step = "promoted"] /\ installed' = TRUE
        /\ part' = Absent /\ leftover' = "none" /\ fetch' = NoFetch /\ UNCHANGED <<state, transfer>>
    BY <1>9 DEF finalizeRename, FinalizeRename
  <2>2. job' \in Jobs /\ job'.step = "promoted" /\ job'.kind = job.kind /\ job'.mirror = job.mirror
    BY <1>0, <2>1 DEF Jobs
  <2>3. Course'
    BY <1>k, <2>1, <2>2 DEF Course, Transferring
  <2>4. Piece'
    BY <1>n, <2>1, <2>2 DEF Piece, Fetching, PromotesWhole
  <2> QED  BY <1>0, <1>n, <2>1, <2>2, <2>3, <2>4 DEF TypeOKTransfer
<1>10. CASE renameFailed
  <2>1. job.step = "rename" /\ UNCHANGED <<part, installed, state>>
    BY <1>10 DEF renameFailed
  <2>2. CASE job.kind = "download"
    <3>1. job' = [job EXCEPT !.step = "cleanup"] /\ fetch' = NoFetch /\ UNCHANGED <<leftover, transfer>>
      BY <1>10, <2>2 DEF renameFailed
    <3>2. job' \in Jobs /\ job'.step = "cleanup" /\ job'.kind = job.kind /\ job'.mirror = job.mirror
      BY <1>0, <3>1 DEF Jobs
    <3>3. Course'
      BY <1>k, <2>1, <2>2, <3>1, <3>2 DEF Course, Transferring
    <3>4. Piece'
      BY <2>1, <3>1, <3>2 DEF Sound, Piece, Fetching, PromotesWhole
    <3> QED  BY <1>0, <1>t, <1>n, <2>1, <3>1, <3>2, <3>3, <3>4 DEF TypeOKTransfer
  <2>3. CASE job.kind # "download"
    <3>1. job' = NoJob /\ transfer' = "Failed" /\ leftover' = "mixed" /\ UNCHANGED fetch
      BY <1>10, <2>3 DEF renameFailed
    <3> QED  BY <1>0, <1>t, <1>n, <2>1, <3>1 DEF TypeOKTransfer, Course, Piece, NoJob,
                Fetching, PromotesWhole, Transferring, Transfers
  <2> QED  BY <2>2, <2>3
<1>11. CASE dropped
  BY <1>0, <1>t, <1>n, <1>11 DEF dropped, Deleted, TypeOKTransfer, Course, Piece, NoJob,
     Fetching, PromotesWhole, Transferring, Transfers
<1>12. CASE activate
  <2>1. /\ job.step = "promoted" /\ job' = [job EXCEPT !.step = "load"]
        /\ transfer' = "Idle" /\ state' = "Loading" /\ UNCHANGED transferVars
    BY <1>12 DEF activate
  <2>2. job' \in Jobs /\ job'.step = "load" /\ job'.kind = job.kind /\ job'.mirror = job.mirror
    BY <1>0, <2>1 DEF Jobs
  <2>3. Course'
    BY <1>k, <2>1, <2>2 DEF Course, Transferring
  <2>4. Piece'
    BY <2>1, <2>2 DEF transferVars, Sound, Piece, Fetching, PromotesWhole
  <2> QED  BY <1>t, <2>1, <2>2, <2>3, <2>4 DEF transferVars, TypeOKTransfer, States, Transfers
<1>13. CASE loadEnds
  <2>1. job.step = "load" /\ job' = NoJob /\ state' = "Ended" /\ UNCHANGED <<transferVars, transfer>>
    BY <1>13 DEF loadEnds
  <2> QED  BY <1>0, <1>t, <1>n, <2>1 DEF transferVars, TypeOKTransfer, Sound, Course, Piece, NoJob,
              Fetching, PromotesWhole, Transferring, States
<1> QED  BY <1>1, <1>2, <1>3, <1>4, <1>5, <1>6, <1>7, <1>8, <1>9, <1>10, <1>11, <1>12, <1>13,
            FetchSound DEF JobStep, Sound, Kinds

\* Every step: requests, cancellations, and the ends of the app and of the process.
LEMMA SoundStep == Sound /\ [Next]_vars => Sound'
<1> SUFFICES ASSUME Sound, [Next]_vars PROVE Sound'
  OBVIOUS
<1> USE DownloadAssumption
<1>0. TypeOKTransfer /\ job \in Jobs /\ state \in States /\ transfer \in Transfers
  BY DEF Sound, Kinds
<1>t. part \in Files /\ fetch \in Fetches /\ leftover \in {"none", "kept", "mixed"}
      /\ installed \in BOOLEAN
  BY <1>0 DEF TypeOKTransfer
<1>n. /\ NoFetch \in Fetches /\ NoFetch.step = "idle" /\ Absent \in Files /\ NoJob \in Jobs
      /\ Absent.head = Nowhere
  <2>1. NoJob \in Jobs
    BY DEF NoJob, Jobs
  <2>2. NoFetch.step = "idle" /\ Absent.head = Nowhere
    BY DEF NoFetch, Absent
  <2> QED  BY <1>0, <2>1, <2>2, DownloaderTyped, FileFacts
<1>1. CASE startDownload
  <2>1. /\ job = NoJob /\ job' = [kind |-> "download", step |-> "fetch", mirror |-> 1, cancel |-> FALSE]
        /\ transfer' = "Running" /\ UNCHANGED <<part, installed, leftover, state>>
        /\ fetch' \in Fetches /\ fetch'.step = "request"
    BY <1>0, <1>1, DownloaderTyped DEF startDownload, NoJob, StartFetch, NoFetch
  <2>2. Kinds'
    BY <1>0, <1>t, <2>1 DEF Kinds, TypeOKTransfer, Jobs, Transfers
  <2>3. Course'
    BY <2>1 DEF Course, Transferring
  <2>4. /\ leftover # "mixed" => part.head \in {Nowhere, 1}
        /\ leftover # "mixed" /\ part.head \notin {Nowhere, Junk} => part.pure
    BY <1>t, <1>n, <2>1 DEF Sound, Piece, NoJob
  <2>5. Piece'
    BY <2>1, <2>4 DEF Piece, Fetching, PromotesWhole
  <2> QED  BY <2>2, <2>3, <2>5 DEF Sound
<1>2. CASE startImport
  <2>1. /\ job' = [kind |-> "import", step |-> "copy", mirror |-> 0, cancel |-> FALSE]
        /\ transfer' = "Running" /\ UNCHANGED <<installed, fetch, state>>
        /\ \E o \in {Own, Junk} : Opened(o)
    BY <1>2 DEF startImport, NoJob
  <2>2. part' \in Files /\ leftover' = "none" /\ part'.head \in {Own, Junk} /\ part'.pure
    <3>1. part' \in Files /\ leftover' = "none"
      BY <1>0, <2>1, DownloaderTyped, FileFacts
    <3> QED  BY <2>1, <3>1 DEF Opened
  <2>3. Kinds'
    BY <1>0, <1>t, <2>1, <2>2 DEF Kinds, TypeOKTransfer, Jobs, Transfers
  <2>4. Course' /\ Piece'
    BY <2>1, <2>2 DEF Course, Transferring, Piece, Fetching, PromotesWhole
  <2> QED  BY <2>3, <2>4 DEF Sound
<1>3. CASE startLoad
  <2>1. /\ job = NoJob /\ job' = [kind |-> "select", step |-> "load", mirror |-> 0, cancel |-> FALSE]
        /\ state' = "Loading" /\ UNCHANGED <<transferVars, transfer>>
    BY <1>3 DEF startLoad, NoJob
  <2>2. Kinds'
    BY <1>0, <1>t, <2>1 DEF Kinds, transferVars, TypeOKTransfer, Jobs, States
  <2>3. Course' /\ Piece'
    BY <2>1 DEF transferVars, Sound, Course, Transferring, Piece, Fetching, PromotesWhole, NoJob
  <2> QED  BY <2>2, <2>3 DEF Sound
<1>4. ASSUME job.kind = "download", Cancelled PROVE Sound'
  <2>1. job' = [job EXCEPT !.cancel = TRUE] /\ fetch' = NoFetch
        /\ UNCHANGED <<part, installed, leftover, state, transfer>>
    BY <1>4 DEF Cancelled
  <2>2. job' \in Jobs /\ job'.step = job.step /\ job'.kind = job.kind /\ job'.mirror = job.mirror /\ job'.cancel
    BY <1>0, <2>1 DEF Jobs
  <2>3. Kinds'
    BY <1>0, <1>t, <1>n, <2>1, <2>2 DEF Kinds, TypeOKTransfer
  <2>4. Course'
    BY <1>4, <2>1, <2>2 DEF Sound, Course, Transferring
  <2>5. Piece'
    BY <2>1, <2>2 DEF Sound, Piece, Fetching, PromotesWhole
  <2> QED  BY <2>3, <2>4, <2>5 DEF Sound
<1>5. CASE clearTransfer
  <2>1. transfer = "Failed" /\ transfer' = "Idle" /\ UNCHANGED <<transferVars, job, state>>
    BY <1>5 DEF clearTransfer
  <2>2. Kinds' /\ Course'
    BY <1>0, <1>t, <2>1 DEF transferVars, Kinds, TypeOKTransfer, Transfers, Sound, Course, Transferring
  <2>3. Piece'
    BY <2>1 DEF transferVars, Sound, Piece, Fetching, PromotesWhole
  <2> QED  BY <2>2, <2>3 DEF Sound
<1>6. CASE Restarted
  <2>1. /\ job' = NoJob /\ state' = "NotLoaded" /\ transfer' = "Idle" /\ fetch' = NoFetch
        /\ leftover' = Leaving /\ UNCHANGED <<part, installed>>
    BY <1>6 DEF Restarted
  <2>2. Kinds'
    BY <1>0, <1>t, <1>n, <2>1, DownloaderTyped DEF Kinds, TypeOKTransfer, States, Transfers
  <2>3. Course' /\ Piece'
    BY <1>n, <2>1 DEF Sound, Leaving, Course, Transferring, Piece, Fetching, PromotesWhole, NoJob
  <2> QED  BY <2>2, <2>3 DEF Sound
<1>7. CASE UNCHANGED manager
  BY <1>7 DEF manager, transferVars, Sound, Kinds, TypeOKTransfer, Course, Transferring, Piece,
              Fetching, PromotesWhole
<1>8. CASE onTaskRemoved
  BY <1>4, <1>7, <1>8 DEF onTaskRemoved
<1>9. CASE cancelDownload
  BY <1>4, <1>9 DEF cancelDownload
<1>10. CASE Receive \/ watcherGoesOn \/ reply \/ UNCHANGED vars
  BY <1>7, <1>10 DEF Receive, watcherGoesOn, reply, vars, manager
<1> QED  BY <1>1, <1>2, <1>3, <1>5, <1>6, <1>8, <1>9, <1>10, JobSound DEF Next

\* Whatever interruptions, retries, mirrors, pages of proxies and deaths came before,
\* only a whole file of one origin is promoted.
THEOREM OnlyWholePromoted == Spec => []PromotesWhole
<1>1. Sound => PromotesWhole
  BY DEF Sound, Piece
<1> QED  BY <1>1, SoundInit, SoundStep, PTL DEF Spec

\* Between operations a temporary file is there only if something is known to have
\* left it.
THEOREM StaysTidy == Spec => []Tidy
<1>1. Sound => Tidy
  BY DEF Sound, Piece, Tidy, NoJob
<1> QED  BY <1>1, SoundInit, SoundStep, PTL DEF Spec

(***************************************************************************)
(* The watcher.                                                            *)
(***************************************************************************)
\* The types of what the watcher writes.
WatcherTyped ==
  /\ got \in [state : States, transfer : Transfers]
  /\ watch \in [transferring : BOOLEAN, loading : BOOLEAN] /\ missed \in BOOLEAN

\* Nothing missed, the watcher holds the service from the moment it knows of a transfer
\* to the end of the load it sees; between operations it holds it only until it learns
\* of the failure, or of the end of the load.
Watched ==
  /\ watch.loading => watch.transferring
  /\ ~missed =>
       /\ job.kind = "none" /\ watch.transferring =>
            \/ transfer = "Failed" /\ got.transfer # "Failed"
            \/ /\ watch.loading /\ state = "Ended" /\ transfer = "Idle"
               /\ got.state = "Loading" /\ got.transfer = "Idle"
       /\ job.kind = "select" => ~watch.transferring
       /\ Transferring /\ job.step # "load" =>
            /\ watch.transferring <=> got.transfer = "Running"
            /\ ~watch.loading
       /\ Transferring /\ job.step = "load" =>
            /\ watch.transferring /\ got.transfer \in {"Running", "Idle"}
            /\ watch.loading <=> got.state = "Loading" /\ got.transfer = "Idle"

\* Caught up, field by field.
LEMMA CaughtUpFields ==
  ASSUME WatcherTyped
  PROVE  CaughtUp <=> got.state = state /\ got.transfer = transfer
<1>1. got = [state |-> got.state, transfer |-> got.transfer]
  BY DEF WatcherTyped
<1> QED  BY <1>1 DEF CaughtUp

\* A step that publishes nothing and does not begin or end the load changes nothing.
LEMMA QuietSteps ==
  ASSUME Watched, UNCHANGED <<state, transfer, got, watch, missed>>, job'.kind = job.kind,
         job'.step = "load" <=> job.step = "load"
  PROVE  Watched'
BY DEF Watched, Transferring

\* A request or the end of an operation, published to a watcher that may lag behind.
LEMMA JobWatched == Sound /\ WatcherTyped /\ Watched /\ [Next]_vars /\ ~Receive /\ ~Restarted => Watched'
<1> SUFFICES ASSUME Sound, WatcherTyped, Watched, [Next]_vars, ~Receive, ~Restarted PROVE Watched'
  OBVIOUS
<1> USE DEF watching
<1>0. job \in Jobs
  BY DEF Sound, Kinds
<1>k. /\ job.step \in {"fetch", "cleanup"} => job.kind = "download"
      /\ job.step = "copy" => job.kind = "import"
      /\ job.step \in {"delete", "rename", "promoted"} => job.kind \in {"download", "import"}
      /\ Transferring /\ job.step # "load" => transfer = "Running"
      /\ Transferring /\ job.step = "load" => transfer = "Idle" /\ state = "Loading"
      /\ job.kind \in {"none", "select"} \/ Transferring
  BY <1>0 DEF Sound, Course, Jobs, NoJob, Transferring
<1>n. NoJob.kind = "none" /\ NoJob.step = "idle"
  BY DEF NoJob
<1>q. ASSUME ~missed', Overtakes
      PROVE  ~missed /\ got.state = state /\ got.transfer = transfer
  BY <1>q, CaughtUpFields DEF Overtakes, WatcherTyped
<1>1. CASE fetchStep
  BY <1>1, QuietSteps DEF fetchStep
<1>2. CASE mirrorFailed \/ downloaded \/ importCopy \/ finalizeDelete \/ finalizeRename
  BY <1>0, <1>2, QuietSteps DEF mirrorFailed, downloaded, importCopy, finalizeDelete,
     finalizeRename, Jobs, Fetching
<1>3. ASSUME Transferring, job.step # "load", job' = NoJob, transfer' = "Failed",
             UNCHANGED <<state, got, watch, missed>>
      PROVE  Watched'
  BY <1>3, <1>n DEF Watched, Transferring
<1>4. CASE cleanedUp
  <2>1. UNCHANGED <<state, got, watch, missed>> /\ Transferring /\ job.step = "cleanup"
    BY <1>4, <1>k DEF cleanedUp, Transferring
  <2>2. CASE job.mirror < Mirrors
    BY <1>0, <1>4, <2>1, <2>2, QuietSteps DEF cleanedUp, Jobs
  <2>3. CASE ~(job.mirror < Mirrors)
    BY <1>3, <1>4, <2>1, <2>3 DEF cleanedUp
  <2> QED  BY <2>2, <2>3
<1>5. CASE imported
  <2>1. UNCHANGED <<state, got, watch, missed>> /\ Transferring /\ job.step = "copy"
    BY <1>5, <1>k DEF imported, Transferring
  <2>2. CASE isGguf(part)
    BY <1>0, <1>5, <2>1, <2>2, QuietSteps DEF imported, Jobs
  <2>3. CASE ~isGguf(part)
    BY <1>3, <1>5, <2>1, <2>3 DEF imported
  <2> QED  BY <2>2, <2>3
<1>6. CASE importFailed
  BY <1>3, <1>6, <1>k DEF importFailed, Transferring
<1>7. CASE renameFailed
  <2>1. UNCHANGED <<state, got, watch, missed>> /\ Transferring /\ job.step = "rename"
    BY <1>7, <1>k DEF renameFailed, Transferring
  <2>2. CASE job.kind = "download"
    BY <1>0, <1>7, <2>1, <2>2, QuietSteps DEF renameFailed, Jobs
  <2>3. CASE job.kind # "download"
    BY <1>3, <1>7, <2>1, <2>3 DEF renameFailed
  <2> QED  BY <2>2, <2>3
<1>8. CASE unwound \/ dropped
  BY <1>8 DEF unwound, dropped, Watched
<1>9. CASE startDownload \/ startImport
  <2>1. /\ job = NoJob /\ transfer # "Running" /\ transfer' = "Running" /\ Overtakes
        /\ UNCHANGED <<got, watch, state>>
        /\ job'.kind \in {"download", "import"} /\ job'.step \in {"fetch", "copy"}
    BY <1>9 DEF startDownload, startImport, NoJob
  <2> QED  BY <1>n, <1>q, <2>1 DEF Watched, Transferring
<1>10. CASE startLoad
  <2>1. /\ job = NoJob /\ state' = "Loading" /\ Overtakes /\ UNCHANGED <<got, watch, transfer>>
        /\ job'.kind = "select"
    BY <1>10 DEF startLoad, NoJob
  <2> QED  BY <1>n, <1>q, <2>1 DEF Watched, Transferring
<1>11. CASE activate
  <2>1. /\ job.step = "promoted" /\ job'.step = "load" /\ job'.kind = job.kind
        /\ transfer' = "Idle" /\ state' = "Loading" /\ Overtakes /\ UNCHANGED <<got, watch>>
    BY <1>0, <1>11 DEF activate, Jobs
  <2> QED  BY <1>k, <1>q, <2>1 DEF Watched, Transferring
<1>12. CASE loadEnds
  <2>1. /\ job.step = "load" /\ job' = NoJob /\ state' = "Ended" /\ Overtakes
        /\ UNCHANGED <<transfer, got, watch>>
    BY <1>12 DEF loadEnds
  <2>2. job.kind # "none"
    BY <2>1 DEF Sound, Course, NoJob
  <2> QED  BY <1>k, <1>n, <1>q, <2>1, <2>2 DEF Watched, Transferring
<1>13. CASE clearTransfer
  <2>1. /\ transfer = "Failed" /\ transfer' = "Idle" /\ Overtakes
        /\ UNCHANGED <<job, state, got, watch>>
    BY <1>13 DEF clearTransfer
  <2> QED  BY <1>k, <1>q, <2>1 DEF Watched, Transferring
<1>14. CASE cancelDownload \/ onTaskRemoved
  BY <1>0, <1>14, QuietSteps DEF cancelDownload, onTaskRemoved, Cancelled, manager, Jobs
<1>15. CASE watcherGoesOn \/ reply \/ UNCHANGED vars
  BY <1>15, QuietSteps DEF watcherGoesOn, reply, manager, vars
<1> QED  BY <1>1, <1>2, <1>4, <1>5, <1>6, <1>7, <1>8, <1>9, <1>10, <1>11, <1>12, <1>13,
            <1>14, <1>15 DEF Next, JobStep

\* What the watcher does with the pair it receives.
LEMMA ReceiveWatched == Sound /\ WatcherTyped /\ Watched /\ Receive => Watched' /\ WatcherTyped'
<1> SUFFICES ASSUME Sound, WatcherTyped, Watched, Receive PROVE Watched' /\ WatcherTyped'
  OBVIOUS
<1>0. state \in States /\ transfer \in Transfers /\ UNCHANGED <<job, state, transfer>>
  BY DEF Sound, Kinds, Receive, manager
<1>k. /\ Transferring /\ job.step # "load" => transfer = "Running"
      /\ Transferring /\ job.step = "load" => transfer = "Idle" /\ state = "Loading"
      /\ job = NoJob => job.kind = "none"
      /\ job.kind = "none" => job = NoJob
      /\ job.kind = "none" => ~Transferring
      /\ job.kind = "select" => ~Transferring
  BY DEF Sound, Course, NoJob, Transferring
<1>1. PICK s \in {got.state, state}, t \in {got.transfer, transfer} :
        /\ <<s, t>> # <<got.state, got.transfer>>
        /\ got' = [state |-> s, transfer |-> t]
        /\ collect(s, t)
  BY DEF Receive
<1>2. /\ got'.state = s /\ got'.transfer = t /\ s \in States /\ t \in Transfers
      /\ s # got.state \/ t # got.transfer
  BY <1>0, <1>1 DEF WatcherTyped
<1>3. got' \in [state : States, transfer : Transfers]
  BY <1>1, <1>2
<1>w. watch.transferring \in BOOLEAN /\ watch.loading \in BOOLEAN
  BY DEF WatcherTyped
<1>4. CASE t = "Running" /\ beginTransfer
  <2>1. CASE watch.transferring
    <3>1. UNCHANGED <<watch, missed>>
      BY <1>4, <2>1 DEF beginTransfer
    <3> QED  BY <1>0, <1>k, <1>1, <1>2, <1>3, <1>4, <2>1, <3>1 DEF Watched, WatcherTyped, Transferring
  <2>2. CASE ~watch.transferring
    <3>1. /\ watch' = [watch EXCEPT !.transferring = TRUE] /\ missed' = ~Transferring
      BY <1>4, <2>2 DEF beginTransfer
    <3>2. watch' \in [transferring : BOOLEAN, loading : BOOLEAN] /\ watch'.transferring
          /\ watch'.loading = watch.loading /\ missed' \in BOOLEAN
      BY <3>1 DEF WatcherTyped
    <3> QED  BY <1>0, <1>k, <1>2, <1>3, <1>4, <2>2, <3>1, <3>2 DEF Watched, WatcherTyped, Transferring
  <2> QED  BY <2>1, <2>2
<1>5. ASSUME endTransfer
      PROVE  /\ WatcherTyped' /\ ~watch'.transferring /\ ~watch'.loading
             /\ ~missed' => job = NoJob \/ ~missed
  <2>1. watch' = [transferring |-> FALSE, loading |-> FALSE]
    BY <1>5 DEF endTransfer, Unwatched
  <2>2. missed' = (IF watch.transferring THEN missed /\ job # NoJob ELSE missed)
    BY <1>5 DEF endTransfer
  <2>3. missed' \in BOOLEAN
    BY <2>2 DEF WatcherTyped
  <2> QED  BY <1>3, <2>1, <2>2, <2>3 DEF WatcherTyped
<1>6. CASE t = "Failed" /\ endTransfer
  BY <1>0, <1>k, <1>1, <1>2, <1>5, <1>6 DEF Watched, Transferring
<1>7. CASE t = "Idle" /\ watch.transferring /\ s = "Loading"
             /\ watch' = [watch EXCEPT !.loading = TRUE] /\ UNCHANGED <<work, missed>>
  <2>1. watch' \in [transferring : BOOLEAN, loading : BOOLEAN] /\ watch'.transferring
        /\ watch'.loading /\ UNCHANGED missed
    BY <1>7 DEF WatcherTyped
  <2> QED  BY <1>0, <1>k, <1>1, <1>2, <1>3, <1>7, <2>1 DEF Watched, WatcherTyped, Transferring
<1>8. CASE t = "Idle" /\ watch.transferring /\ s = "Ended" /\ watch.loading /\ endTransfer
  BY <1>0, <1>k, <1>1, <1>2, <1>5, <1>8 DEF Watched, Transferring
<1>9. CASE /\ t = "Idle"
           /\ watch.transferring => s # "Loading" /\ ~(s = "Ended" /\ watch.loading)
           /\ UNCHANGED <<watch, work, missed>>
  <2>1. WatcherTyped'
    BY <1>3, <1>9 DEF WatcherTyped
  <2> QED  BY <1>0, <1>k, <1>1, <1>2, <1>9, <2>1 DEF Watched, Transferring
<1> QED  BY <1>1, <1>4, <1>6, <1>7, <1>8, <1>9 DEF collect

\* Every step.
LEMMA WatcherStep == Sound /\ WatcherTyped /\ Watched /\ [Next]_vars => WatcherTyped' /\ Watched'
<1> SUFFICES ASSUME Sound, WatcherTyped, Watched, [Next]_vars PROVE WatcherTyped' /\ Watched'
  OBVIOUS
<1>1. CASE Receive
  BY <1>1, ReceiveWatched
<1>2. CASE Restarted
  BY <1>2 DEF Restarted, Watched, WatcherTyped, States, Transfers, Unwatched, NoJob, Transferring
<1>3. CASE ~Receive /\ ~Restarted
  <2>1. UNCHANGED <<got, watch>> /\ missed' \in BOOLEAN
    BY <1>3 DEF WatcherTyped, Next, vars, watching, startDownload, startImport, startLoad,
       cancelDownload, clearTransfer, JobStep, fetchStep, mirrorFailed, cleanedUp, unwound,
       downloaded, importCopy, imported, importFailed, finalizeDelete, finalizeRename,
       renameFailed, dropped, activate, loadEnds, onTaskRemoved, watcherGoesOn, reply,
       Overtakes, CaughtUp
  <2> QED  BY <1>3, <2>1, JobWatched DEF WatcherTyped
<1> QED  BY <1>1, <1>2, <1>3

\* All of it holds together.
LEMMA TransferInvariant == Spec => [](Sound /\ WatcherTyped /\ Watched)
<1>1. Init => WatcherTyped /\ Watched
  <2> SUFFICES ASSUME Init PROVE WatcherTyped /\ Watched
    OBVIOUS
  <2>1. got = [state |-> "NotLoaded", transfer |-> "Idle"] /\ watch = Unwatched /\ ~missed /\ missed \in BOOLEAN
        /\ job = NoJob
    BY DEF Init, InitVolatile
  <2> QED  BY <2>1 DEF WatcherTyped, Watched, States, Transfers, Unwatched, NoJob, Transferring
<1> QED  BY <1>1, SoundInit, SoundStep, WatcherStep, PTL DEF Spec

\* Every variable keeps its type, those of the service too.
THEOREM TransferTypes == Spec => []TypeOK
<1>1. Sound /\ WatcherTyped /\ WorkInv => TypeOK
  BY DEF Sound, Kinds, Jobs, WatcherTyped, WorkInv, Rest, TypeOK
<1> QED  BY <1>1, TransferInvariant, UsesTheService, WorkIsInductive, PTL

\* Unless a transfer was cancelled or outran it, the watcher holds the service while a
\* transfer that it knows of runs, and lets go of it when all is done.
THEOREM WatcherFollows == Spec => []Follows
<1>1. Sound /\ WatcherTyped /\ Watched => Follows
  <2> SUFFICES ASSUME Sound, WatcherTyped, Watched, ~missed
               PROVE  /\ Settled => ~watch.transferring
                      /\ Transferring /\ CaughtUp => watch.transferring
    BY DEF Follows
  <2>1. Settled => ~watch.transferring
    BY CaughtUpFields DEF Watched, Settled, NoJob
  <2>2. Transferring /\ CaughtUp => watch.transferring
    BY CaughtUpFields DEF Watched, Sound, Course
  <2> QED  BY <2>1, <2>2
<1> QED  BY <1>1, TransferInvariant, PTL
==============================================================================
