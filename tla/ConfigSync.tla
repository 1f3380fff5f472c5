----------------------------- MODULE ConfigSync -----------------------------
(***************************************************************************)
(* How ConfigMaps reach the controller's Config: the bootstrap before the  *)
(* manager starts, the watch with its predicate, and the reconciler        *)
(* (controller/configmap_bootstrap.go, predicates.go,                      *)
(* configmap_reconciler.go, configmap_helpers.go, config/config.go,        *)
(* cmd/main.go).  One namespace with ConfigMaps of its own ("local")       *)
(* stands beside the controller's ("global").  Whether it is tracked is    *)
(* what TrackedNamespace promises.                                         *)
(*                                                                         *)
(* A ConfigMap's content is "a" or "b", or "invalid" when no entry of it   *)
(* parses.  Content "b" of the saturation ConfigMap lists the throughput   *)
(* analyzer as enabled.                                                    *)
(***************************************************************************)
EXTENDS Sequences, Functions, TrackedNamespace

CONSTANTS KindOrder,        \* the ConfigMap kinds, in bootstrap order
          Contents,         \* what a ConfigMap may hold; "absent": no such one
          Labels,           \* values the config-enabled label may take
          Exclusions,       \* values the exclude annotation may take
          None

Kinds == Range(KindOrder)
Keys == {"global", "local"} \X Kinds

ASSUME KindsAssumption == "saturation" \in Kinds
ASSUME ContentsAssumption ==
  {"absent", "b"} \subseteq Contents /\ Contents \subseteq {"absent", "invalid", "a", "b"}
ASSUME MetadataAssumption ==
  /\ Labels \subseteq BOOLEAN /\ Labels # {}
  /\ Exclusions \subseteq BOOLEAN /\ Exclusions # {}
ASSUME NoneAssumption ==
  None \notin [pc : {"decide", "apply"}, key : Keys, content : Contents]

VARIABLES single,      \* --watch-namespace names the local namespace
          cm,          \* cm[key]: the ConfigMap in the cluster
          marked,      \* ConfigMaps with the label that the manager's cache selects
          labelled, excluded,  \* the local namespace's label and annotation
          proc,        \* the controller process: "down", "boot" or "run"
          targets,     \* ConfigMaps the bootstrap has yet to load
          store,       \* store[key]: the parsed entries in Config
          events,      \* changes the informer has yet to deliver
          queue,       \* the reconciler's work queue
          req,         \* the request its worker is handling, or None
          registered,  \* ThroughputRegistered, frozen after the bootstrap
          warned       \* the last global saturation update drew a warning

cluster == <<cm, marked, labelled, excluded>>
tracking == <<members, tracked>>
vars == <<single, cluster, tracking, proc, targets, store, events, queue, req,
          registered, warned>>

Emptied == [key \in Keys |-> "absent"]

Init ==
  /\ single \in BOOLEAN
  /\ cm \in [Keys -> {"absent", "b"}]
  /\ marked \in SUBSET {key \in Keys : cm[key] # "absent"}
  /\ labelled \in Labels /\ excluded \in Exclusions
  /\ TrackingInit
  /\ proc = "down" /\ targets = <<>>
  /\ store = Emptied
  /\ events = {} /\ queue = <<>> /\ req = None
  /\ registered = FALSE /\ warned = FALSE

----------------------------------------------------------------------------
(* Config: an update replaces all entries of its kind and scope.           *)

\* Entries that do not parse or validate are skipped; the rest are kept.
Parsed(content) == IF content = "invalid" THEN "empty" ELSE content

ThroughputAnalyzerEnabled(st) == st[<<"global", "saturation">>] = "b"

DivergedMutant(key, st) ==
  key = <<"global", "saturation">> /\ ThroughputAnalyzerEnabled(st) # registered

\* warnIfThroughputRegistrationDiverged, silent during the bootstrap
Diverged(key, st) ==
  /\ key = <<"global", "saturation">>
  /\ proc = "run"
  /\ ThroughputAnalyzerEnabled(st) # registered

HandleConfigMap(key, content) ==
  /\ store' = [store EXCEPT ![key] = Parsed(content)]
  /\ warned' = IF key = <<"global", "saturation">>
               THEN Diverged(key, store') ELSE warned

\* What the engine reads: namespace-local entries, if any, before global ones.
Resolve(scope, k) ==
  LET Entries(sc) == IF store[<<sc, k>>] = "empty" THEN "absent"
                     ELSE store[<<sc, k>>]
  IN  IF Entries(scope) # "absent" THEN Entries(scope) ELSE Entries("global")

RemoveNamespaceConfig ==
  /\ store' = [key \in Keys |-> IF key[1] = "local" THEN "absent"
                                ELSE store[key]]
  /\ UNCHANGED warned

----------------------------------------------------------------------------
(* Startup.  A bootstrap read that fails ends the process, as a crash does.*)

Labelled == ~excluded /\ labelled

BootstrapTargets ==
  [i \in DOMAIN KindOrder |-> <<"global", KindOrder[i]>>]
  \o IF single \/ Labelled
     THEN [i \in DOMAIN KindOrder |-> <<"local", KindOrder[i]>>] ELSE <<>>

BootstrapInitialConfigMaps ==
  /\ proc = "down"
  /\ proc' = "boot"
  /\ targets' = BootstrapTargets
  /\ UNCHANGED <<single, cluster, tracking, store, events, queue, req, registered,
                 warned>>

BootstrapConfigMap ==
  /\ proc = "boot" /\ targets # <<>>
  /\ targets' = Tail(targets)
  /\ LET key == Head(targets)
     IN  IF cm[key] = "absent" THEN UNCHANGED <<store, warned>>
         ELSE HandleConfigMap(key, cm[key])
  /\ UNCHANGED <<single, cluster, tracking, proc, events, queue, req, registered>>

\* What the manager's cache holds of the ConfigMaps c, of which those in m are
\* labelled: in single-namespace mode that namespace, otherwise whatever is
\* labelled app.kubernetes.io/name=workload-variant-autoscaler.
Cached(c, m) ==
  {key \in Keys : c[key] # "absent" /\ IF single THEN key[1] = "local" ELSE key \in m}

StartManagerMutant ==
  /\ proc = "boot" /\ targets = <<>>
  /\ proc' = "run"
  /\ registered' = ThroughputAnalyzerEnabled(store)
  /\ UNCHANGED <<single, cluster, tracking, targets, store, events, queue, req, warned>>

\* The informers list what exists; everything listed is a Create event.
StartManager ==
  /\ proc = "boot" /\ targets = <<>>
  /\ proc' = "run"
  /\ registered' = ThroughputAnalyzerEnabled(store)
  /\ events' = Cached(cm, marked)
  /\ UNCHANGED <<single, cluster, tracking, targets, store, queue, req, warned>>

Crash ==
  /\ proc # "down"
  /\ proc' = "down" /\ targets' = <<>>
  /\ store' = Emptied
  /\ members' = {} /\ tracked' = FALSE
  /\ events' = {} /\ queue' = <<>> /\ req' = None
  /\ registered' = FALSE /\ warned' = FALSE
  /\ UNCHANGED <<single, cluster>>

----------------------------------------------------------------------------
(* The cluster and the scaler controllers.                                 *)

\* A ConfigMap that leaves the cache or enters it is a change, too.
EditConfigMap(key) ==
  /\ \E content \in Contents : cm' = [cm EXCEPT ![key] = content]
  /\ marked' \in {marked \ {key}} \cup IF cm'[key] = "absent" THEN {} ELSE {marked \cup {key}}
  /\ <<cm', marked'>> # <<cm, marked>>
  /\ events' = IF proc = "run" /\ key \in Cached(cm, marked) \cup Cached(cm', marked')
               THEN events \cup {key} ELSE events
  /\ UNCHANGED <<single, labelled, excluded, tracking, proc, targets, store, queue, req,
                 registered, warned>>

EditNamespace ==
  /\ labelled' \in Labels /\ excluded' \in Exclusions
  /\ <<labelled', excluded'>> # <<labelled, excluded>>
  /\ UNCHANGED <<single, cm, marked, tracking, proc, targets, store, events, queue, req,
                 registered, warned>>

ScalerChanges ==
  /\ proc = "run"
  /\ TrackingNext
  /\ tracking' # tracking
  /\ UNCHANGED <<single, cluster, proc, targets, store, events, queue, req, registered,
                 warned>>

----------------------------------------------------------------------------
(* The watch and the reconciler, which has one worker.                     *)

ConfigMapPredicateMutant(key) == single \/ tracked

ConfigMapPredicate(key) == key[1] = "global" \/ single \/ tracked

\* The informer delivers a change; the predicate lets it into the queue.
Deliver(key) ==
  /\ key \in events
  /\ events' = events \ {key}
  /\ queue' = IF ConfigMapPredicate(key) /\ key \notin Range(queue)
              THEN Append(queue, key) ELSE queue
  /\ UNCHANGED <<single, cluster, tracking, proc, targets, store, req, registered,
                 warned>>

\* r.Get, which reads the API server and not the cache
FetchConfigMap ==
  /\ req = None /\ queue # <<>>
  /\ req' = [pc |-> "decide", key |-> Head(queue), content |-> cm[Head(queue)]]
  /\ queue' = Tail(queue)
  /\ UNCHANGED <<single, cluster, tracking, proc, targets, store, events, registered,
                 warned>>

ShouldWatchNamespaceLocalConfigMap ==
  single \/ (~excluded /\ (tracked \/ labelled))

\* Whether the ConfigMap is handled; a deleted global one never is.
Decide ==
  /\ req # None /\ req.pc = "decide"
  /\ req' = IF IF req.key[1] = "global" THEN req.content # "absent"
               ELSE ShouldWatchNamespaceLocalConfigMap
            THEN [req EXCEPT !.pc = "apply"] ELSE None
  /\ UNCHANGED <<single, cluster, tracking, proc, targets, store, events, queue,
                 registered, warned>>

Apply ==
  /\ req # None /\ req.pc = "apply"
  /\ IF req.content = "absent" THEN RemoveNamespaceConfig
     ELSE HandleConfigMap(req.key, req.content)
  /\ req' = None
  /\ UNCHANGED <<single, cluster, tracking, proc, targets, events, queue, registered>>

Reconcile == FetchConfigMap \/ Decide \/ Apply
Startup == BootstrapInitialConfigMaps \/ BootstrapConfigMap \/ StartManager

Next ==
  \/ Startup \/ Crash
  \/ EditNamespace \/ ScalerChanges \/ Reconcile
  \/ \E key \in Keys : EditConfigMap(key) \/ Deliver(key)

\* The process is restarted, informers deliver, and the worker does its work.
Spec == /\ Init /\ [][Next]_vars
        /\ WF_vars(Startup) /\ WF_vars(Reconcile)
        /\ \A key \in Keys : WF_vars(Deliver(key))

----------------------------------------------------------------------------

Quiet == proc = "run" /\ events = {} /\ queue = <<>> /\ req = None

\* A global ConfigMap that keeps its content and the label that the cache selects
\* (manager-configmap.yaml has it), under a controller of all namespaces that
\* keeps running, comes to be the global configuration for good, wherever in
\* the startup it was edited or labelled.
GlobalFollows ==
  \A k \in Kinds, content \in Contents \ {"absent"} :
    LET key == <<"global", k>>
    IN  <>[](~single /\ proc = "run" /\ cm[key] = content /\ key \in marked)
          => <>[](store[key] = Parsed(content))

\* While the manager runs, the operator stands warned exactly when the live
\* global saturation config asks for another throughput-analyzer registration
\* than the one frozen at startup: no spurious warning from the bootstrap, no
\* inert edit without one.
DivergenceWarned ==
  proc = "run" => (warned <=> ThroughputAnalyzerEnabled(store) # registered)

\* With --watch-namespace, when nothing is left to deliver or handle, a lookup
\* for the watched namespace gives what its ConfigMap says now, or what a
\* global lookup gives: never an earlier content of a ConfigMap that exists.
NeverOutdated ==
  Quiet /\ single => \A k \in Kinds :
    LET key == <<"local", k>>
    IN  cm[key] # "absent" => Resolve("local", k) \in {cm[key], Resolve("global", k)}
=============================================================================
