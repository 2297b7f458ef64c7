----------------------------- MODULE NodeByNode -----------------------------
(***************************************************************************)
(* What ggml_graph_compute() promises, whatever the threads do: a graph is *)
(* a sequence of stages (the nodes, and inside a matrix product the        *)
(* conversion of its input before the product), each cut into parts.       *)
(* Every part is computed exactly once, only when all parts of the earlier *)
(* stages are done, and the call returns when all of them are.             *)
(***************************************************************************)
EXTENDS Naturals, Sequences

VARIABLE made   \* how often each part of each stage was computed; <<>> outside a call

Complete(stage) == \A p \in DOMAIN stage : stage[p] = 1

AInit == made = <<>>

AStart ==
  /\ made = <<>> /\ made' # <<>>
  /\ \A s \in DOMAIN made' : \A p \in DOMAIN made'[s] : made'[s][p] = 0

ACompute ==
  \E s \in DOMAIN made : \E p \in DOMAIN made[s] :
    /\ made[s][p] = 0
    /\ \A r \in 1..(s - 1) : Complete(made[r])
    /\ made' = [made EXCEPT ![s][p] = 1]

AReturn == /\ \A s \in DOMAIN made : Complete(made[s])
           /\ made' = <<>>

ANext == AStart \/ ACompute \/ AReturn

ASpec == AInit /\ [][ANext]_made
=============================================================================
