---------------------------- MODULE AtomicHistory ----------------------------
(***************************************************************************)
(* What ConversationStore promises to its callers: the history a restart   *)
(* shows is a single cell.  A save replaces it in one step or not at all,  *)
(* a save that reports success has replaced it, and nothing else -- not a  *)
(* crash, not a failed write, not a load -- changes it.                    *)
(***************************************************************************)
EXTENDS Naturals

CONSTANT MaxVersion   \* bound: versions of the history a behaviour creates

VARIABLES
  stored,    \* the version a restart would show; 0 is the empty history
  pending,   \* version of the save in flight, 0 when there is none
  next       \* next unused version

avars == <<stored, pending, next>>

AInit == stored \in {0, 1} /\ pending = 0 /\ next = 2

ABegin ==
  /\ pending = 0 /\ next <= MaxVersion
  /\ pending' = next /\ next' = next + 1
  /\ UNCHANGED stored

ACommit == pending # 0 /\ stored' = pending /\ UNCHANGED <<pending, next>>

\* A save reports success only after its version is the stored one.
AReturn ==
  /\ pending # 0 /\ stored = pending
  /\ pending' = 0
  /\ UNCHANGED <<stored, next>>

\* The process dies, by itself or because a save threw; the save is over.
ADie == pending' = 0 /\ UNCHANGED <<stored, next>>

ANext == ABegin \/ ACommit \/ AReturn \/ ADie

ASpec == AInit /\ [][ANext]_avars
==============================================================================
