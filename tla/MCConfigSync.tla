---------------------------- MODULE MCConfigSync ----------------------------
(* One kind of ConfigMap. *)
EXTENDS ConfigSync

MCOneKind == <<"saturation">>
=============================================================================
