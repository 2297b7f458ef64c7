-------------------------- MODULE MCNativeInference --------------------------
(***************************************************************************)
(* Four workloads: a session of two replies on a small pool, with prompts  *)
(* around the batch and window sizes; graphs of two matrix products on     *)
(* three threads; a device without pinning, whose graphs get a pool each;  *)
(* and a model trained on fewer tokens than a batch.                       *)
(***************************************************************************)
EXTENDS NativeInference

Session ==
  [cores |-> 4, chosen |-> 0, readable |-> TRUE, requested |-> 8, trained |-> 6,
   prompts |-> {2, 5, 9}, pieces |-> {"whole", "head", "rest"}, replies |-> 2, faults |-> 1,
   splits |-> <<[tasks |-> 2, stages |-> <<0>>]>>]

Wide ==
  [cores |-> 6, chosen |-> 0, readable |-> TRUE, requested |-> 4, trained |-> 0,
   prompts |-> {1}, pieces |-> {"whole"}, replies |-> 1, faults |-> 1,
   splits |-> <<[tasks |-> 1, stages |-> <<0>>], [tasks |-> 4, stages |-> <<0, 5, 0, 4>>]>>]

Unpinned ==
  [cores |-> 8, chosen |-> 2, readable |-> FALSE, requested |-> 4, trained |-> 0,
   prompts |-> {2}, pieces |-> {"whole"}, replies |-> 1, faults |-> 1,
   splits |-> <<[tasks |-> 2, stages |-> <<0, 2>>]>>]

Short ==
  [cores |-> 4, chosen |-> 0, readable |-> TRUE, requested |-> 8, trained |-> 2,
   prompts |-> {2, 5}, pieces |-> {"whole"}, replies |-> 2, faults |-> 0,
   splits |-> <<[tasks |-> 1, stages |-> <<0>>]>>]

MCWorkloads == {Session, Wide, Unpinned, Short}
=============================================================================
