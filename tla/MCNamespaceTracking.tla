------------------------ MODULE MCNamespaceTracking ------------------------
(* Instances: two HPAs without KEDA; an HPA and a ScaledObject with it.      *)
EXTENDS NamespaceTracking

MCPopulation ==
  [both \in BOOLEAN |->
     IF both THEN [hpa |-> {"h"}, scaledobject |-> {"s"}]
     ELSE [hpa |-> {"h", "s"}, scaledobject |-> {}]]
=============================================================================
