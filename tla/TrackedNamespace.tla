-------------------------- MODULE TrackedNamespace --------------------------
(***************************************************************************)
(* What the datastore promises of one namespace (datastore.go, interface   *)
(* Datastore): tracking a scaler makes its namespace tracked, and the      *)
(* namespace stops being tracked when its last tracked scaler goes.        *)
(* Namespaces do not share any state, so one of them is enough.            *)
(***************************************************************************)
CONSTANT Names          \* the names of the scalers of the namespace

VARIABLES members,      \* the scalers the namespace is tracked for
          tracked       \* what IsNamespaceTracked answers

TrackingInit == members = {} /\ tracked = FALSE

Track(n) ==
  /\ members' = members \cup {n}
  /\ tracked' = TRUE

Untrack(n) ==
  /\ members' = members \ {n}
  /\ tracked' = (members' # {})

TrackingNext == \E n \in Names : Track(n) \/ Untrack(n)

TrackingSpec == TrackingInit /\ [][TrackingNext]_<<members, tracked>>
=============================================================================
