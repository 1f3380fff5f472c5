-------------------------- MODULE ConfigSyncProofs --------------------------
(***************************************************************************)
(* The invariants of the configuration sync for any kinds of ConfigMap and *)
(* any contents.                                                           *)
(***************************************************************************)
EXTENDS ConfigSync, TLAPS

Requests == [pc : {"decide", "apply"}, key : Keys, content : Contents]

TypeInv ==
  /\ single \in BOOLEAN
  /\ cm \in [Keys -> Contents]
  /\ store \in [Keys -> {"absent", "empty", "a", "b"}]
  /\ events \subseteq Keys
  /\ queue \in Seq(Keys)
  /\ req \in Requests \cup {None}
  /\ proc \in {"down", "boot", "run"}
  /\ registered \in BOOLEAN /\ warned \in BOOLEAN

\* Only a running manager has anything to deliver or handle, or has warned.
StartInv ==
  proc # "run" => ~warned /\ events = {} /\ queue = <<>> /\ req = None

Handling(key) == req # None /\ req.key = key

\* A local ConfigMap is about to be handled, or is being handled with the content
\* it has, or the store has what it says, or nothing.
Fresh(key) ==
  \/ key \in events
  \/ key \in Range(queue)
  \/ Handling(key) /\ req.content = cm[key]
  \/ ~Handling(key) /\ store[key] \in {Parsed(cm[key]), "absent", "empty"}

\* With --watch-namespace a running manager never forgets a change of a
\* ConfigMap of the watched namespace.
FreshInv ==
  single /\ proc = "run" =>
    \A key \in Keys : key[1] = "local" /\ cm[key] # "absent" => Fresh(key)

\* The inductive invariant of the configuration sync
IInv == TypeInv /\ StartInv /\ DivergenceWarned /\ FreshInv

USE Zenon

-----------------------------------------------------------------------------
\* The keys of a queue after a delivery and after a fetch.
LEMMA QueueKeys ==
  ASSUME NEW q \in Seq(Keys)
  PROVE  /\ \A key \in Keys : /\ Append(q, key) \in Seq(Keys)
                              /\ Range(Append(q, key)) = Range(q) \cup {key}
         /\ q # <<>> => /\ Head(q) \in Keys /\ Tail(q) \in Seq(Keys)
                        /\ Range(q) = Range(Tail(q)) \cup {Head(q)}
<1>1. ASSUME NEW key \in Keys
      PROVE  /\ Append(q, key) \in Seq(Keys)
             /\ Range(Append(q, key)) = Range(q) \cup {key}
  <2>1. /\ DOMAIN Append(q, key) = 1..(Len(q) + 1) /\ DOMAIN q = 1..Len(q) /\ Len(q) \in Nat
        /\ Append(q, key)[Len(q) + 1] = key
        /\ \A i \in 1..Len(q) : Append(q, key)[i] = q[i]
    BY SMT
  <2> QED
    BY SMT, <2>1 DEF Range
<1>2. ASSUME q # <<>>
      PROVE  /\ Head(q) \in Keys /\ Tail(q) \in Seq(Keys)
             /\ Range(q) = Range(Tail(q)) \cup {Head(q)}
  <2>1. /\ DOMAIN q = 1..Len(q) /\ Len(q) \in Nat \ {0} /\ Head(q) = q[1]
        /\ DOMAIN Tail(q) = 1..(Len(q) - 1)
        /\ \A i \in 1..(Len(q) - 1) : Tail(q)[i] = q[i + 1]
        /\ Head(q) \in Keys /\ Tail(q) \in Seq(Keys)
    BY SMT, <1>2
  <2>2. ASSUME NEW i \in 1..Len(q), i # 1
        PROVE  \E j \in 1..(Len(q) - 1) : Tail(q)[j] = q[i]
    <3>1. i - 1 \in 1..(Len(q) - 1) /\ Tail(q)[i - 1] = q[i]
      BY SMT, <2>1, <2>2
    <3> QED
      BY <3>1
  <2>3. Range(q) \subseteq Range(Tail(q)) \cup {Head(q)}
    <3>1. ASSUME NEW i \in 1..Len(q) PROVE q[i] \in Range(Tail(q)) \cup {Head(q)}
      <4>1. CASE i = 1
        BY <2>1, <4>1
      <4>2. CASE i # 1
        <5>1. PICK j \in DOMAIN Tail(q) : Tail(q)[j] = q[i]
          BY <2>1, <2>2, <4>2
        <5> QED
          BY <5>1 DEF Range
      <4> QED
        BY <4>1, <4>2
    <3> QED
      BY <2>1, <3>1 DEF Range
  <2>4. ASSUME NEW j \in 1..(Len(q) - 1) PROVE \E i \in 1..Len(q) : q[i] = Tail(q)[j]
    <3>1. j + 1 \in 1..Len(q) /\ q[j + 1] = Tail(q)[j]
      BY SMT, <2>1
    <3> QED
      BY <3>1
  <2>5. Range(Tail(q)) \subseteq Range(q) /\ Head(q) \in Range(q)
    BY SMT, <2>1, <2>4 DEF Range
  <2> QED
    BY <2>1, <2>3, <2>5
<1> QED
  BY <1>1, <1>2

\* The global saturation ConfigMap is one of those that are watched.
LEMMA GlobalKey == <<"global", "saturation">> \in Keys
BY KindsAssumption DEF Keys

\* Nothing is stored or handled before the manager starts.
LEMMA InitIInv == Init => IInv
<1> SUFFICES ASSUME Init PROVE IInv
  OBVIOUS
<1>1. TypeInv
  <2>1. store \in [Keys -> {"absent", "empty", "a", "b"}] /\ cm \in [Keys -> Contents]
    BY ContentsAssumption DEF Init, Emptied
  <2>2. queue \in Seq(Keys)
    BY SMT DEF Init
  <2>3. single \in BOOLEAN /\ registered \in BOOLEAN /\ warned \in BOOLEAN
    BY DEF Init
  <2> QED
    BY <2>1, <2>2, <2>3 DEF Init, TypeInv
<1> QED
  BY <1>1 DEF Init, IInv, StartInv, DivergenceWarned, FreshInv

\* An update of the store and its warning keep what the operator is told right.
LEMMA HandleWarns ==
  ASSUME TypeInv, StartInv, DivergenceWarned, NEW key, NEW content \in Contents,
         HandleConfigMap(key, content), UNCHANGED <<proc, registered>>
  PROVE  /\ store' \in [Keys -> {"absent", "empty", "a", "b"}]
         /\ warned' \in BOOLEAN
         /\ proc # "run" => ~warned'
         /\ DivergenceWarned'
<1>1. store' \in [Keys -> {"absent", "empty", "a", "b"}]
  BY ContentsAssumption DEF TypeInv, HandleConfigMap, Parsed
<1>2. CASE key = <<"global", "saturation">>
  BY <1>1, <1>2 DEF HandleConfigMap, Diverged, DivergenceWarned, ThroughputAnalyzerEnabled
<1>3. CASE key # <<"global", "saturation">>
  <2>1. store'[<<"global", "saturation">>] = store[<<"global", "saturation">>]
    BY <1>3, GlobalKey DEF HandleConfigMap, TypeInv
  <2>2. warned' = warned
    BY <1>3 DEF HandleConfigMap
  <2> QED
    BY <1>1, <2>1, <2>2 DEF TypeInv, StartInv, DivergenceWarned, ThroughputAnalyzerEnabled
<1> QED
  BY <1>2, <1>3

\* The bootstrap warns of nothing, and the informers list what exists.
LEMMA StartupStep == IInv /\ (Startup \/ Crash) => IInv'
<1> SUFFICES ASSUME IInv, Startup \/ Crash PROVE IInv'
  OBVIOUS
<1> USE DEF IInv, TypeInv, StartInv, cluster
<1>1. CASE BootstrapInitialConfigMaps
  BY <1>1 DEF BootstrapInitialConfigMaps, DivergenceWarned, FreshInv
<1>2. CASE BootstrapConfigMap
  <2>1. CASE UNCHANGED <<store, warned>>
    BY <1>2, <2>1 DEF BootstrapConfigMap, DivergenceWarned, FreshInv
  <2>2. CASE HandleConfigMap(Head(targets), cm[Head(targets)])
    <3>1. CASE Head(targets) \in Keys
      <4>1. cm[Head(targets)] \in Contents
        BY <3>1
      <4> QED
        BY <1>2, <2>2, <4>1, HandleWarns DEF BootstrapConfigMap, FreshInv
    <3>2. CASE Head(targets) \notin Keys
      <4>1. store' = store /\ warned' = warned
        BY <2>2, <3>2, GlobalKey DEF HandleConfigMap
      <4> QED
        BY <1>2, <4>1 DEF BootstrapConfigMap, DivergenceWarned, FreshInv
    <3> QED
      BY <3>1, <3>2
  <2> QED
    BY <1>2, <2>1, <2>2 DEF BootstrapConfigMap
<1>3. CASE StartManager
  <2>1. registered' \in BOOLEAN /\ ~warned'
    BY <1>3 DEF StartManager, ThroughputAnalyzerEnabled
  <2>2. DivergenceWarned'
    BY <1>3, <2>1 DEF StartManager, DivergenceWarned, ThroughputAnalyzerEnabled
  <2>3. FreshInv'
    BY <1>3 DEF StartManager, FreshInv, Fresh, Cached
  <2>4. events' \subseteq Keys
    BY <1>3 DEF StartManager, Cached
  <2> QED
    BY <1>3, <2>1, <2>2, <2>3, <2>4 DEF StartManager
<1>4. CASE Crash
  <2>1. store' \in [Keys -> {"absent", "empty", "a", "b"}] /\ queue' \in Seq(Keys)
    BY SMT, <1>4 DEF Crash, Emptied
  <2> QED
    BY <1>4, <2>1 DEF Crash, DivergenceWarned, FreshInv
<1> QED
  BY <1>1, <1>2, <1>3, <1>4 DEF Startup

\* An edit of a ConfigMap that the manager watches becomes an event, and an event
\* of the watched namespace gets past the predicate.
LEMMA WatchStep ==
  ASSUME IInv, NEW k \in Keys, EditConfigMap(k) \/ Deliver(k) PROVE IInv'
<1> USE DEF IInv, TypeInv, StartInv
<1>1. CASE EditConfigMap(k)
  <2>1. PICK content \in Contents : cm' = [cm EXCEPT ![k] = content]
    BY <1>1 DEF EditConfigMap
  <2>2. TypeInv' /\ StartInv' /\ DivergenceWarned'
    BY <1>1, <2>1 DEF EditConfigMap, DivergenceWarned, ThroughputAnalyzerEnabled
  <2>3. ASSUME single, proc = "run", NEW key \in Keys, key[1] = "local", cm'[key] # "absent"
        PROVE  Fresh(key)'
    <3>1. CASE key = k
      BY <1>1, <2>3, <3>1 DEF EditConfigMap, Cached, Fresh
    <3>2. CASE key # k
      <4>1. cm'[key] = cm[key] /\ Fresh(key)
        BY <2>1, <2>3, <3>2 DEF FreshInv
      <4> QED
        BY <1>1, <4>1 DEF EditConfigMap, Fresh, Handling, Parsed
    <3> QED
      BY <3>1, <3>2
  <2> QED
    BY <1>1, <2>2, <2>3 DEF EditConfigMap, FreshInv
<1>2. CASE Deliver(k)
  <2>1. queue' \in Seq(Keys) /\ Range(queue) \subseteq Range(queue')
    BY SMT, <1>2, QueueKeys DEF Deliver
  <2>2. TypeInv' /\ StartInv' /\ DivergenceWarned'
    BY <1>2, <2>1 DEF Deliver, cluster, DivergenceWarned, ThroughputAnalyzerEnabled
  <2>3. single => k \in Range(queue')
    BY SMT, <1>2, QueueKeys DEF Deliver, ConfigMapPredicate
  <2>4. FreshInv'
    <3> SUFFICES ASSUME single, proc = "run", NEW key \in Keys, key[1] = "local",
                        cm[key] # "absent"
                 PROVE  Fresh(key)'
      BY <1>2 DEF Deliver, cluster, FreshInv
    <3>1. Fresh(key)
      BY DEF FreshInv
    <3>2. CASE key = k
      BY <2>3, <3>2 DEF Fresh
    <3>3. CASE key # k
      BY <1>2, <2>1, <3>1, <3>3 DEF Deliver, cluster, Fresh, Handling, Parsed
    <3> QED
      BY <3>2, <3>3
  <2> QED
    BY <2>2, <2>4
<1> QED
  BY <1>1, <1>2

\* The worker takes the content of the moment it fetches; what changes later is
\* an event again, so it never overwrites newer entries for good.
LEMMA ReconcileStep == IInv /\ Reconcile => IInv'
<1> SUFFICES ASSUME IInv, Reconcile PROVE IInv'
  OBVIOUS
<1> USE DEF IInv, TypeInv, StartInv, cluster
<1>1. CASE FetchConfigMap
  <2>1. /\ Head(queue) \in Keys /\ Tail(queue) \in Seq(Keys)
        /\ Range(queue) = Range(Tail(queue)) \cup {Head(queue)}
    BY <1>1, QueueKeys DEF FetchConfigMap
  <2>2. req' \in Requests /\ req' # None
    BY SMT, <1>1, <2>1, NoneAssumption DEF FetchConfigMap, Requests
  <2>3. TypeInv' /\ StartInv' /\ DivergenceWarned'
    BY <1>1, <2>1, <2>2 DEF FetchConfigMap, DivergenceWarned, ThroughputAnalyzerEnabled
  <2>4. FreshInv'
    <3> SUFFICES ASSUME single, proc = "run", NEW key \in Keys, key[1] = "local",
                        cm[key] # "absent"
                 PROVE  Fresh(key)'
      BY <1>1 DEF FetchConfigMap, FreshInv
    <3>1. Fresh(key)
      BY DEF FreshInv
    <3>2. CASE key = Head(queue)
      BY <1>1, <2>2, <3>2 DEF FetchConfigMap, Fresh, Handling
    <3>3. CASE key # Head(queue)
      <4>1. ~Handling(key)' /\ ~Handling(key)
        BY <1>1, <3>3 DEF FetchConfigMap, Handling
      <4>2. key \in Range(queue) => key \in Range(queue')
        BY <1>1, <2>1, <3>3 DEF FetchConfigMap
      <4> QED
        BY <1>1, <3>1, <4>1, <4>2 DEF FetchConfigMap, Fresh, Parsed
    <3> QED
      BY <3>2, <3>3
  <2> QED
    BY <2>3, <2>4
<1>2. CASE Decide
  <2>1. req \in Requests
    BY <1>2 DEF Decide
  <2>2. \/ req' = [req EXCEPT !.pc = "apply"]
        \/ req' = None /\ (single => req.key[1] = "global")
    BY <1>2, <2>1 DEF Decide, ShouldWatchNamespaceLocalConfigMap, Requests, Keys
  <2>3. req' \in Requests \cup {None}
    BY <2>1, <2>2 DEF Requests
  <2>4. TypeInv' /\ StartInv' /\ DivergenceWarned'
    BY <1>2, <2>3 DEF Decide, DivergenceWarned, ThroughputAnalyzerEnabled
  <2>5. FreshInv'
    <3> SUFFICES ASSUME single, proc = "run", NEW key \in Keys, key[1] = "local",
                        cm[key] # "absent"
                 PROVE  Fresh(key)'
      BY <1>2 DEF Decide, FreshInv
    <3>1. Fresh(key)
      BY DEF FreshInv
    <3>2. CASE req' = [req EXCEPT !.pc = "apply"]
      <4>1. req' \in Requests /\ req'.key = req.key /\ req'.content = req.content
        BY <2>1, <3>2 DEF Requests
      <4>2. req' # None /\ req # None
        BY <1>2, <4>1, NoneAssumption DEF Decide, Requests
      <4> QED
        BY <1>2, <3>1, <4>1, <4>2 DEF Decide, Fresh, Handling, Parsed
    <3>3. CASE req' = None /\ req.key[1] = "global"
      BY <1>2, <3>1, <3>3 DEF Decide, Fresh, Handling, Parsed
    <3> QED
      BY <2>2, <3>2, <3>3
  <2> QED
    BY <2>4, <2>5
<1>3. CASE Apply
  <2>1. req \in Requests /\ req.key \in Keys /\ req.content \in Contents /\ proc = "run"
    BY <1>3 DEF Apply, Requests
  <2>2. CASE RemoveNamespaceConfig /\ req.content = "absent"
    <3>1. store'[<<"global", "saturation">>] = store[<<"global", "saturation">>]
      BY <2>2, GlobalKey DEF RemoveNamespaceConfig
    <3>2. store' \in [Keys -> {"absent", "empty", "a", "b"}]
      BY <2>2 DEF RemoveNamespaceConfig
    <3>3. TypeInv' /\ StartInv' /\ DivergenceWarned'
      BY <1>3, <2>1, <2>2, <3>1, <3>2
      DEF Apply, RemoveNamespaceConfig, DivergenceWarned, ThroughputAnalyzerEnabled
    <3>4. \A key \in Keys : key[1] = "local" => store'[key] = "absent"
      BY <2>2 DEF RemoveNamespaceConfig
    <3>5. FreshInv'
      BY <1>3, <3>4 DEF Apply, FreshInv, Fresh, Handling
    <3> QED
      BY <3>3, <3>5
  <2>3. CASE HandleConfigMap(req.key, req.content)
    <3>1. TypeInv' /\ StartInv' /\ DivergenceWarned'
      BY <1>3, <2>1, <2>3, HandleWarns DEF Apply
    <3>2. FreshInv'
      <4> SUFFICES ASSUME single, NEW key \in Keys, key[1] = "local", cm[key] # "absent"
                   PROVE  Fresh(key)'
        BY <1>3 DEF Apply, FreshInv
      <4>1. Fresh(key)
        BY <2>1 DEF FreshInv
      <4>2. CASE Handling(key)
        <5>1. store'[key] = Parsed(req.content)
          BY <2>1, <2>3, <4>2 DEF HandleConfigMap, Handling
        <5> QED
          BY <1>3, <4>1, <4>2, <5>1 DEF Apply, Fresh, Handling, Parsed
      <4>3. CASE ~Handling(key)
        <5>1. store'[key] = store[key]
          BY <1>3, <2>3, <4>3 DEF Apply, HandleConfigMap, Handling
        <5> QED
          BY <1>3, <4>1, <4>3, <5>1 DEF Apply, Fresh, Handling, Parsed
      <4> QED
        BY <4>2, <4>3
    <3> QED
      BY <3>1, <3>2
  <2> QED
    BY <1>3, <2>2, <2>3 DEF Apply
<1> QED
  BY <1>1, <1>2, <1>3 DEF Reconcile

\* Nothing the invariant reads changes.
LEMMA IdleStep ==
  ASSUME IInv, UNCHANGED <<single, cm, proc, store, events, queue, req, registered, warned>>
  PROVE  IInv'
BY DEF IInv, TypeInv, StartInv, DivergenceWarned, FreshInv, Fresh, Handling, Parsed,
       ThroughputAnalyzerEnabled

\* Users, the watch, the reconciler, crashes and restarts all keep the invariant.
LEMMA NextIInv == IInv /\ [Next]_vars => IInv'
<1> SUFFICES ASSUME IInv, [Next]_vars PROVE IInv'
  OBVIOUS
<1>1. CASE EditNamespace \/ ScalerChanges
  BY <1>1, IdleStep DEF EditNamespace, ScalerChanges, cluster
<1>2. CASE UNCHANGED vars
  BY <1>2, IdleStep DEF vars, cluster
<1> QED
  BY <1>1, <1>2, StartupStep, WatchStep, ReconcileStep DEF Next

\* Theorem about the bootstrap and the ConfigMap reconciler: whatever users edit
\* and whenever the manager restarts, its state is well typed, only a running
\* manager has anything to handle, a divergence is warned of, and a ConfigMap of
\* the watched namespace that was changed is in the store or on its way there.
THEOREM SpecIInv == Spec => []IInv
BY InitIInv, NextIInv, PTL DEF Spec

\* Through every crash, bootstrap and edit, the last update of the global
\* saturation entries drew a warning exactly when they and the registration that
\* the start froze now differ.
THEOREM OperatorIsWarned == Spec => []DivergenceWarned
<1>1. IInv => DivergenceWarned
  BY DEF IInv
<1> QED
  BY <1>1, SpecIInv, PTL

\* With --watch-namespace a content that a local ConfigMap no longer has is gone
\* from the lookups once nothing is left to deliver or to handle, however the
\* edits fell between the worker's read and its update.
THEOREM NothingOutdated == Spec => []NeverOutdated
<1>1. IInv => NeverOutdated
  <2> SUFFICES ASSUME IInv, Quiet, single, NEW k \in Kinds, cm[<<"local", k>>] # "absent"
               PROVE  Resolve("local", k) \in {cm[<<"local", k>>], Resolve("global", k)}
    BY DEF NeverOutdated
  <2> DEFINE key == <<"local", k>>
  <2>1. key \in Keys /\ key[1] = "local"
    BY DEF Keys
  <2>2. Fresh(key) /\ key \notin events /\ ~Handling(key)
    BY <2>1 DEF IInv, FreshInv, Quiet, Handling
  <2>3. key \notin Range(queue)
    BY SMT DEF Quiet, Range
  <2>4. store[key] \in {Parsed(cm[key]), "absent", "empty"}
    BY <2>2, <2>3 DEF Fresh
  <2> QED
    BY <2>4 DEF Resolve, Parsed
<1> QED
  BY <1>1, SpecIInv, PTL
=============================================================================
