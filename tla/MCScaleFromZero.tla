-------------------------- MODULE MCScaleFromZero --------------------------
(* Instances of the scale-from-zero engine: two variants, over one place,   *)
(* with a pool that comes and goes and a shutdown; and over two places,     *)
(* with other writers, where one variant fails every time.                  *)
EXTENDS ScaleFromZero

MCVariants == {"v", "w"}
MCSetups ==
  {[maxConcurrency |-> 1, broken |-> {}, waiting |-> {"v"}, environment |-> {"pool", "cancel"}],
   [maxConcurrency |-> 2, broken |-> {"w"}, waiting |-> {"v"}, environment |-> {"scale"}]}
=============================================================================
