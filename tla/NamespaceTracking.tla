------------------------- MODULE NamespaceTracking -------------------------
(***************************************************************************)
(* How the HPA and ScaledObject controllers keep the datastore's record of *)
(* one namespace (controller/hpa_reconciler.go, scaledobject_reconciler.go,*)
(* predicates.go, datastore/datastore.go).  Each controller has one worker *)
(* (controller-runtime's default) and a work queue that keeps a key once.  *)
(*                                                                         *)
(* The record is a map of maps, all sync.Map: namespaces -> resource type  *)
(* -> resource name.  One operation on one sync.Map is atomic and is one   *)
(* step here; NamespaceTrack and NamespaceUntrack are several operations   *)
(* and are not.  Both controllers use the one resource type                *)
(* "AnnotatedScaler", so the middle map has at most one entry.             *)
(***************************************************************************)
EXTENDS Naturals, FiniteSets, Sequences

CONSTANTS Names,        \* the names of scalers
          Population,   \* Population[keda][c]: the names of c's objects
          MapIds,       \* the addresses of sync.Maps
          None

Controllers == {"hpa", "scaledobject"}

ASSUME PopulationAssumption ==
  /\ Population \in [BOOLEAN -> [Controllers -> SUBSET Names]]
  /\ Population[FALSE]["scaledobject"] = {}
ASSUME NoneAssumption == None \notin MapIds /\ None \notin Names
\* A worker holds at most one map of each level, so fresh addresses suffice.
ASSUME MapIdsAssumption == Cardinality(MapIds) > 4

VARIABLES keda,         \* kedaEnabled: the ScaledObject controller runs too
          scaler,       \* scaler[c][n]: the object in the cluster
          queue,        \* queue[c]: the keys waiting for c's worker, in order
          worker,       \* worker[c]: its place in the code and its locals
          namespaces,   \* the map stored under the namespace, or None
          nsMap,        \* nsMap[a]: the map under "AnnotatedScaler", or None
          typeMap       \* typeMap[a]: the resource names in it

heap == <<namespaces, nsMap, typeMap>>
vars == <<keda, scaler, queue, worker, heap>>

Idle == [pc |-> "idle", name |-> None, ns |-> None, type |-> None]

Owns == Population[keda]

Init ==
  /\ keda \in BOOLEAN
  /\ scaler = [c \in Controllers |-> [n \in Owns[c] |-> "absent"]]
  /\ queue = [c \in Controllers |-> <<>>]
  /\ worker = [c \in Controllers |-> Idle]
  /\ namespaces = None
  /\ nsMap = [a \in MapIds |-> None]
  /\ typeMap = [a \in MapIds |-> {}]

----------------------------------------------------------------------------
(* The cluster.  "plain" objects lack the managed annotation; an object    *)
(* with a deletion timestamp stays until its finalizers are done.          *)

IsManaged(state) == state \in {"managed", "deleting"}

AnnotatedScalerPredicate(old, new) == IsManaged(old) \/ IsManaged(new)

Changes == {<<"absent", "plain">>, <<"absent", "managed">>,
            <<"plain", "managed">>, <<"managed", "plain">>,
            <<"plain", "absent">>, <<"managed", "absent">>,
            <<"managed", "deleting">>, <<"deleting", "absent">>}

Waiting(c, n) == \E i \in DOMAIN queue[c] : queue[c][i] = n

EditScaler(c, n) ==
  /\ \E new \in {"absent", "plain", "managed", "deleting"} :
       /\ <<scaler[c][n], new>> \in Changes
       /\ scaler' = [scaler EXCEPT ![c][n] = new]
       /\ queue' = IF /\ AnnotatedScalerPredicate(scaler[c][n], new)
                      /\ ~Waiting(c, n)
                   THEN [queue EXCEPT ![c] = Append(@, n)] ELSE queue
  /\ UNCHANGED <<keda, worker, heap>>

----------------------------------------------------------------------------
(* Reconcile.  A Get that fails for another reason than NotFound returns   *)
(* the error and the key is queued again: nothing changes.                 *)

Reconcile(c) ==
  /\ worker[c].pc = "idle"
  /\ queue[c] # <<>>
  /\ queue' = [queue EXCEPT ![c] = Tail(@)]
  /\ LET n == Head(queue[c])
     IN  worker' = [worker EXCEPT ![c] =
           [Idle EXCEPT !.pc = IF scaler[c][n] = "managed"
                               THEN "trackNamespace" ELSE "untrackNamespace",
                        !.name = n]]
  /\ UNCHANGED <<keda, scaler, heap>>

Goto(c, pc) == worker' = [worker EXCEPT ![c].pc = pc]
Done(c) == worker' = [worker EXCEPT ![c] = Idle]

\* A new(sync.Map) has an address that nothing refers to.
FreshNs == CHOOSE a \in MapIds :
             a # namespaces /\ \A c \in Controllers : a # worker[c].ns
LiveNs == ({namespaces} \cup {worker[c].ns : c \in Controllers}) \ {None}
FreshType == CHOOSE a \in MapIds :
               /\ \A m \in LiveNs : a # nsMap[m]
               /\ \A c \in Controllers : a # worker[c].type

\* ds.namespaces.LoadOrStore(namespace, &sync.Map{})
TrackNamespace(c) ==
  /\ worker[c].pc = "trackNamespace"
  /\ LET m == IF namespaces # None THEN namespaces ELSE FreshNs
     IN  /\ worker' = [worker EXCEPT ![c].pc = "trackType", ![c].ns = m]
         /\ namespaces' = m
         /\ nsMap' = IF namespaces # None THEN nsMap
                     ELSE [nsMap EXCEPT ![m] = None]
  /\ UNCHANGED <<keda, scaler, queue, typeMap>>

\* nsMap.LoadOrStore(resourceType, &sync.Map{})
TrackType(c) ==
  /\ worker[c].pc = "trackType"
  /\ LET m == worker[c].ns
         t == IF nsMap[m] # None THEN nsMap[m] ELSE FreshType
     IN  /\ worker' = [worker EXCEPT ![c].pc = "trackName", ![c].type = t]
         /\ nsMap' = [nsMap EXCEPT ![m] = t]
         /\ typeMap' = IF nsMap[m] # None THEN typeMap
                       ELSE [typeMap EXCEPT ![t] = {}]
  /\ UNCHANGED <<keda, scaler, queue, namespaces>>

\* typeMap.Store(resourceNamespacedName, true)
TrackName(c) ==
  /\ worker[c].pc = "trackName"
  /\ typeMap' = [typeMap EXCEPT ![worker[c].type] = @ \cup {worker[c].name}]
  /\ Done(c)
  /\ UNCHANGED <<keda, scaler, queue, namespaces, nsMap>>

\* ds.namespaces.Load(namespace)
UntrackNamespace(c) ==
  /\ worker[c].pc = "untrackNamespace"
  /\ IF namespaces = None
     THEN Done(c)
     ELSE worker' = [worker EXCEPT ![c].pc = "untrackType",
                                   ![c].ns = namespaces]
  /\ UNCHANGED <<keda, scaler, queue, heap>>

\* nsMap.Load(resourceType)
UntrackType(c) ==
  /\ worker[c].pc = "untrackType"
  /\ LET t == nsMap[worker[c].ns]
     IN  IF t = None
         THEN Done(c)
         ELSE worker' = [worker EXCEPT ![c].pc = "untrackName", ![c].type = t]
  /\ UNCHANGED <<keda, scaler, queue, heap>>

\* typeMap.Delete(resourceNamespacedName)
UntrackName(c) ==
  /\ worker[c].pc = "untrackName"
  /\ typeMap' = [typeMap EXCEPT ![worker[c].type] = @ \ {worker[c].name}]
  /\ Goto(c, "typeEmpty")
  /\ UNCHANGED <<keda, scaler, queue, namespaces, nsMap>>

\* typeMap.Range, which stops at the first entry
TypeEmptyMutant(c) ==
  /\ worker[c].pc = "typeEmpty"
  /\ Goto(c, "deleteType")
  /\ UNCHANGED <<keda, scaler, queue, heap>>

TypeEmpty(c) ==
  /\ worker[c].pc = "typeEmpty"
  /\ Goto(c, IF typeMap[worker[c].type] = {} THEN "deleteType"
             ELSE "namespaceEmpty")
  /\ UNCHANGED <<keda, scaler, queue, heap>>

\* nsMap.Delete(resourceType)
DeleteType(c) ==
  /\ worker[c].pc = "deleteType"
  /\ nsMap' = [nsMap EXCEPT ![worker[c].ns] = None]
  /\ Goto(c, "namespaceEmpty")
  /\ UNCHANGED <<keda, scaler, queue, namespaces, typeMap>>

\* nsMap.Range
NamespaceEmptyMutant(c) ==
  /\ worker[c].pc = "namespaceEmpty"
  /\ Done(c)
  /\ UNCHANGED <<keda, scaler, queue, heap>>

NamespaceEmpty(c) ==
  /\ worker[c].pc = "namespaceEmpty"
  /\ IF nsMap[worker[c].ns] = None THEN Goto(c, "deleteNamespace") ELSE Done(c)
  /\ UNCHANGED <<keda, scaler, queue, heap>>

\* ds.namespaces.Delete(namespace)
DeleteNamespace(c) ==
  /\ worker[c].pc = "deleteNamespace"
  /\ namespaces' = None
  /\ Done(c)
  /\ UNCHANGED <<keda, scaler, queue, nsMap, typeMap>>

NamespaceTrack(c) == TrackNamespace(c) \/ TrackType(c) \/ TrackName(c)

NamespaceUntrack(c) ==
  \/ UntrackNamespace(c) \/ UntrackType(c) \/ UntrackName(c)
  \/ TypeEmpty(c) \/ DeleteType(c) \/ NamespaceEmpty(c) \/ DeleteNamespace(c)

Step(c) == Reconcile(c) \/ NamespaceTrack(c) \/ NamespaceUntrack(c)

Next == \E c \in Controllers : Step(c) \/ \E n \in Owns[c] : EditScaler(c, n)

\* A worker that has a key runs; users owe no further edits.
Spec == Init /\ [][Next]_vars /\ \A c \in Controllers : WF_vars(Step(c))

----------------------------------------------------------------------------

IsNamespaceTracked == namespaces # None

Members == IF namespaces = None THEN {}
           ELSE IF nsMap[namespaces] = None THEN {}
           ELSE typeMap[nsMap[namespaces]]

Managed == {n \in Names :
              \E c \in Controllers : n \in Owns[c] /\ scaler[c][n] = "managed"}

AtRest == \A c \in Controllers : queue[c] = <<>> /\ worker[c] = Idle

\* Once the controllers have caught up, the namespace is tracked exactly when
\* it holds a managed scaler: no call of NamespaceUntrack cleans up a map that
\* a NamespaceTrack is about to fill.
TrackedIffManaged == AtRest => (IsNamespaceTracked <=> Managed # {})

\* Once the controllers have caught up, a namespace that is still tracked
\* holds a managed scaler: whatever the interleaving of the two controllers'
\* untracking, one of them sees the maps empty and removes them.
NoLeak == AtRest => (IsNamespaceTracked => Managed # {})

\* Without KEDA, a scaler that stays managed has its namespace tracked for
\* good, whatever happens to the other scalers of the namespace meanwhile.
EventuallyTracked ==
  \A n \in Population[FALSE]["hpa"] :
    <>[](~keda /\ scaler["hpa"][n] = "managed") => <>[]IsNamespaceTracked

(* With one controller no two calls overlap.  NamespaceTrack then takes     *)
(* effect when the namespace's key appears, and NamespaceUntrack when the   *)
(* name goes or, for the last name, when the namespace's key goes.          *)
Arriving == {worker[c].name : c \in {d \in Controllers :
               worker[d].pc \in {"trackType", "trackName"}}}
Leaving == {worker[c].name : c \in {d \in Controllers :
              worker[d].pc \in {"typeEmpty", "deleteType", "namespaceEmpty",
                                "deleteNamespace"}}}
Recorded == IF Members \cup Arriving = {} THEN Leaving ELSE Members \cup Arriving

Promise == INSTANCE TrackedNamespace
             WITH members <- IF keda THEN {} ELSE Recorded,
                  tracked <- ~keda /\ IsNamespaceTracked

\* The sequence of sync.Map operations of each call amounts to one atomic
\* change of what the interface Datastore documents, as long as only the HPA
\* controller runs: IsNamespaceTracked never shows a state between two calls.
KeepsPromise == Promise!TrackingSpec
============================================================================
