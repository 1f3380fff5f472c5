--------------------------- MODULE MCCoordinator ---------------------------
(* Two HPAs that share a namespace, and a ScaledObject in a namespace where  *)
(* every call may fail; its pool has the name of another's.                  *)
EXTENDS Coordinator, TLC

MCNamespace == "a" :> "n" @@ "b" :> "n" @@ "c" :> "m"
MCPool == "a" :> "p" @@ "b" :> "q" @@ "c" :> "p"
MCKinds == {"a" :> "hpa" @@ "b" :> "hpa" @@ "c" :> "so"}
=============================================================================
