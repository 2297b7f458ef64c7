---------------------------- MODULE ModelDownloader ----------------------------
(***************************************************************************)
(* One URL streamed into the temporary file of a model, with retries that  *)
(* resume it (inference/ModelDownloader.kt), and the files of that model   *)
(* (data/local/ModelStorage.kt).  Downloads and imports of a model of the  *)
(* same name share the temporary file.                                     *)
(*                                                                         *)
(* A file is described by where its first byte came from, its length in    *)
(* pieces, and whether all of it came from there.  Each mirror publishes   *)
(* its own build of the model, of the same length here.                    *)
(***************************************************************************)
EXTENDS Naturals

CONSTANTS
  Mirrors,     \* bound: URLs of the model, 1..Mirrors in the order they are tried
  MaxRetries,  \* MAX_RETRIES (3 in the build)
  Size         \* bound: length of the model, in pieces

ASSUME DownloadAssumption ==
  /\ Mirrors \in Nat \ {0} /\ MaxRetries \in Nat \ {0} /\ Size \in Nat \ {0, 1}

VARIABLES
  part,       \* the temporary file
  installed,  \* the model's file exists
  fetch,      \* download()
  leftover    \* history variable: "kept" if an earlier download left part and the next may
              \* resume it, "mixed" if another origin's transfer left it, or its sender
              \* ended it early

transferVars == <<part, installed, fetch, leftover>>

\* Besides the mirrors: a file the user imports, and anything that is not GGUF.
Nowhere == 0
Own == Mirrors + 1
Junk == Mirrors + 2
Origins == 1..(Mirrors + 2)
Absent == [head |-> Nowhere, len |-> 0, pure |-> TRUE]
Files == [head : Origins, len : 0..Size, pure : BOOLEAN] \cup {Absent}
LengthOf(o) == IF o = Junk THEN 1 ELSE Size
Whole(f) == f.pure /\ f.head \in Origins \ {Junk} /\ f.len = Size

\* The first bytes are the magic number.
isGguf(f) == f.len > 0 /\ f.head \notin {Nowhere, Junk}

Fetches == [step : {"idle", "request", "stream", "done", "failed"},
            attempt : 0..(MaxRetries - 1), body : Origins \cup {Nowhere}]
NoFetch == [step |-> "idle", attempt |-> 0, body |-> Nowhere]

TypeOKTransfer ==
  /\ part \in Files /\ installed \in BOOLEAN /\ fetch \in Fetches /\ leftover \in {"none", "kept", "mixed"}

InitTransfer ==
  part = Absent /\ installed = FALSE /\ fetch = NoFetch /\ leftover = "none"

Opened(o) == part' = [head |-> o, len |-> 0, pure |-> TRUE] /\ leftover' = "none"
Grown(o) == part' = [part EXCEPT !.len = @ + 1, !.pure = @ /\ part.head = o]
Deleted == part' = Absent /\ leftover' = "none"

\* Downloads start with the first mirror.
Leaving == IF part = Absent THEN "none"
           ELSE IF leftover # "mixed" /\ part.head = 1 THEN "kept" ELSE "mixed"

Ended(step) == [NoFetch EXCEPT !.step = step]

StartFetch == fetch' = [NoFetch EXCEPT !.step = "request"]

\* Mutation: one try too many.
TransientOnceMore ==
  /\ fetch' = IF fetch.attempt + 1 > MaxRetries
              THEN Ended("failed")
              ELSE [NoFetch EXCEPT !.step = "request", !.attempt = fetch.attempt + 1]
  /\ UNCHANGED <<part, leftover>>

\* Mutation: the attempts are not counted.
TransientUncounted ==
  /\ fetch' = [NoFetch EXCEPT !.step = "request", !.attempt = fetch.attempt]
  /\ UNCHANGED <<part, leftover>>

\* Retried in place after a pause, from the part that is there, or given up.
Transient ==
  /\ fetch' = IF fetch.attempt + 1 >= MaxRetries
              THEN Ended("failed")
              ELSE [NoFetch EXCEPT !.step = "request", !.attempt = fetch.attempt + 1]
  /\ UNCHANGED <<part, leftover>>

Failure == fetch' = Ended("failed") /\ UNCHANGED <<part, leftover>>

\* 200: from the first byte, into an emptied file.
Restart(o) ==
  /\ fetch' = [fetch EXCEPT !.step = "stream", !.body = o]
  /\ Opened(o)

\* 206: the rest, appended.
Resume(o) ==
  /\ part.len > 0 /\ part.len < Size
  /\ fetch' = [fetch EXCEPT !.step = "stream", !.body = o]
  /\ UNCHANGED <<part, leftover>>

\* 416: taken for a part that is already complete.
Unsatisfiable ==
  /\ part.len >= Size
  /\ fetch' = Ended("done")
  /\ UNCHANGED <<part, leftover>>

\* The answer to the request for mirror m.  A host that does not know the range
\* sends everything; a proxy may send a page of its own.
Respond(m) ==
  /\ fetch.step = "request"
  /\ \/ Transient
     \/ Failure
     \/ Unsatisfiable
     \/ Resume(m)
     \/ \E o \in {m, Junk} : Restart(o)
  /\ UNCHANGED installed

\* One more piece of the body, its end, or an error of the network or the disk.
Read ==
  /\ fetch.step = "stream"
  /\ \/ part.len < LengthOf(fetch.body) /\ Grown(fetch.body) /\ UNCHANGED <<fetch, leftover>>
     \/ /\ part.len >= LengthOf(fetch.body)
        /\ fetch' = Ended("done") /\ UNCHANGED <<part, leftover>>
     \/ Transient
     \/ Failure
  /\ UNCHANGED installed

\* A body without a length ends where its sender stops.
ShortBody ==
  /\ fetch.step = "stream" /\ part.len < LengthOf(fetch.body)
  /\ fetch' = Ended("done") /\ leftover' = "mixed"
  /\ UNCHANGED <<part, installed>>

\* finalize(): the old file goes, then the new one takes its name.
FinalizeDelete == installed' = FALSE /\ UNCHANGED <<part, fetch, leftover>>
FinalizeRename == /\ installed' = TRUE /\ part' = Absent /\ leftover' = "none"
                  /\ fetch' = NoFetch
==============================================================================
