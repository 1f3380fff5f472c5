-------------------------- MODULE MCReplicaSeries --------------------------
(* Two resolved accelerator types beside the unresolved label, and the      *)
(* replica counts 0 (whose ratio is special), 1 and 2.                      *)
EXTENDS ReplicaSeries
=============================================================================
