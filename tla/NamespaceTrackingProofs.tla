---------------------- MODULE NamespaceTrackingProofs ----------------------
(***************************************************************************)
(* The datastore's record of a namespace for any set of scalers: nothing   *)
(* leaks with two controllers, and with one the record keeps its promise.  *)
(***************************************************************************)
EXTENDS NamespaceTracking, FiniteSetTheorems, TLAPS

States == {"absent", "plain", "managed", "deleting"}
Tracking == {"trackNamespace", "trackType", "trackName"}
Cleaning == {"typeEmpty", "deleteType", "namespaceEmpty", "deleteNamespace"}
PCs == Tracking \cup Cleaning
         \cup {"idle", "untrackNamespace", "untrackType", "untrackName"}
Addresses == MapIds \cup {None}
Workers == [pc : PCs, name : Names \cup {None}, ns : Addresses, type : Addresses]

\* The types of the variables
TypeInv ==
  /\ keda \in BOOLEAN
  /\ scaler = [c \in Controllers |-> scaler[c]]
  /\ queue = [c \in Controllers |-> queue[c]]
  /\ \A c \in Controllers : /\ scaler[c] \in [Owns[c] -> States]
                            /\ queue[c] \in Seq(Owns[c])
  /\ worker \in [Controllers -> Workers]
  /\ namespaces \in Addresses
  /\ nsMap \in [MapIds -> Addresses]
  /\ typeMap \in [MapIds -> SUBSET Names]

\* What a worker holds at each place of the code.
LocalInv ==
  \A c \in Controllers : LET w == worker[c] IN
    /\ w.pc # "idle" => w.name \in Owns[c]
    /\ w.pc \in {"idle", "trackNamespace", "untrackNamespace"} <=> w.ns = None
    /\ w.pc \in {"idle", "trackNamespace", "untrackNamespace", "trackType", "untrackType"}
         <=> w.type = None

\* No two namespace maps in use lead to one map of names, and a worker that holds
\* a map of names got it through the namespace map it holds.
AddressInv ==
  /\ \A k, l \in LiveNs : nsMap[k] = nsMap[l] /\ nsMap[k] # None => k = l
  /\ \A c \in Controllers : \A k \in LiveNs :
       nsMap[k] = worker[c].type /\ nsMap[k] # None => k = worker[c].ns

\* What the two invariants about the record rest on
BaseInv == TypeInv /\ LocalInv /\ AddressInv

\* Worker c is on its way to fill the record, or to remove it if it stays empty.
Responsible(c) ==
  /\ worker[c].ns = namespaces
  /\ \/ worker[c].pc \in {"trackType", "deleteType", "deleteNamespace"}
     \/ worker[c].pc \in {"trackName", "typeEmpty"} /\ worker[c].type = nsMap[namespaces]
     \/ worker[c].pc = "namespaceEmpty" /\ nsMap[namespaces] = None

\* A record without names has somebody who fills or removes it.
KeepInv == IsNamespaceTracked /\ Members = {} => \E c \in Controllers : Responsible(c)

\* Worker c is on its way to remove n from the record that is there now.
Untracking(c, n) ==
  /\ worker[c].name = n
  /\ \/ worker[c].pc = "untrackNamespace"
     \/ worker[c].pc = "untrackType" /\ worker[c].ns = namespaces
     \/ /\ worker[c].pc = "untrackName" /\ worker[c].ns = namespaces
        /\ worker[c].type = nsMap[namespaces]

\* Controller c still has to do with n.
Wanted(c, n) == n \in Owns[c] /\ (scaler[c][n] = "managed" \/ Waiting(c, n))

\* Every recorded name is managed or about to be looked at again or removed, for
\* the sake of one controller or the other.
MemberInv ==
  /\ \A c \in Controllers : worker[c].pc \in Tracking => Wanted(c, worker[c].name)
  /\ \A n \in Members : \E c \in Controllers :
       Wanted(c, n) \/ (n \in Owns[c] /\ Untracking(c, n))

----------------------------------------------------------------------------
(* Addresses *)

\* Leaves go to Zenon; those that it does not prove name SMT.
USE Zenon

\* One element more is at most one more.
LEMMA OneMore ==
  ASSUME NEW S, NEW x, IsFiniteSet(S)
  PROVE  /\ IsFiniteSet(S \cup {x})
         /\ Cardinality(S) \in Nat /\ Cardinality(S \cup {x}) \in Nat
         /\ Cardinality(S \cup {x}) <= Cardinality(S) + 1
<1>1. Cardinality(S) \in Nat
  BY FS_CardinalityType
<1>2. /\ IsFiniteSet(S \cup {x})
      /\ Cardinality(S \cup {x}) = IF x \in S THEN Cardinality(S) ELSE Cardinality(S) + 1
  BY FS_AddElement
<1> QED
  BY <1>1, <1>2, SMT

\* Four addresses never use up MapIds.
LEMMA UnusedAddress ==
  ASSUME NEW p, NEW q, NEW r, NEW s
  PROVE  \E a \in MapIds : a \notin {p, q, r, s}
<1> DEFINE Two == {p} \cup {q}
           Three == Two \cup {r}
           Four == Three \cup {s}
<1>1. SUFFICES ASSUME MapIds \subseteq Four PROVE FALSE
  OBVIOUS
<1>2. IsFiniteSet({p}) /\ Cardinality({p}) = 1
  BY FS_Singleton
<1>3. IsFiniteSet(Two) /\ Cardinality(Two) <= Cardinality({p}) + 1 /\ Cardinality(Two) \in Nat
  BY <1>2, OneMore
<1> HIDE DEF Two
<1>4. /\ IsFiniteSet(Three) /\ Cardinality(Three) <= Cardinality(Two) + 1
      /\ Cardinality(Three) \in Nat
  BY <1>3, OneMore
<1> HIDE DEF Three
<1>5. IsFiniteSet(Four) /\ Cardinality(Four) <= Cardinality(Three) + 1 /\ Cardinality(Four) \in Nat
  BY <1>4, OneMore
<1> HIDE DEF Four
<1>6. IsFiniteSet(MapIds) /\ Cardinality(MapIds) <= Cardinality(Four)
  BY <1>1, <1>5, FS_Subset
<1>7. Cardinality(MapIds) \in Nat
  BY <1>6, FS_CardinalityType
<1> QED
  BY <1>2, <1>3, <1>4, <1>5, <1>6, <1>7, MapIdsAssumption, SMT

\* The map a first NamespaceTrack stores is nobody else's.
LEMMA FreshNsIsFresh ==
  /\ FreshNs \in MapIds
  /\ FreshNs # namespaces
  /\ \A c \in Controllers : FreshNs # worker[c].ns
<1>1. \E a \in MapIds : a # namespaces /\ \A c \in Controllers : a # worker[c].ns
  BY UnusedAddress, SMT DEF Controllers
<1> QED
  BY <1>1 DEF FreshNs

\* And so is the map of names that TrackType stores, which it does only if the
\* namespace map it holds is empty.
LEMMA FreshTypeIsFresh ==
  ASSUME NEW c \in Controllers, worker[c].type = None, nsMap[worker[c].ns] = None
  PROVE  /\ FreshType \in MapIds
         /\ \A m \in LiveNs : FreshType # nsMap[m]
         /\ \A d \in Controllers : FreshType # worker[d].type
<1>1. PICK d \in Controllers : Controllers = {c, d}
  BY DEF Controllers
<1>2. PICK a \in MapIds : a \notin {nsMap[namespaces], nsMap[worker[d].ns], worker[d].type, None}
  BY UnusedAddress
<1>3. \A m \in LiveNs : a # nsMap[m]
  BY <1>1, <1>2 DEF LiveNs
<1>4. \A e \in Controllers : a # worker[e].type
  BY <1>1, <1>2
<1> QED
  BY <1>3, <1>4 DEF FreshType

----------------------------------------------------------------------------
(* Types, locals and addresses *)

\* Nothing is recorded and nobody works at first.
LEMMA InitBase == Init => BaseInv
<1> SUFFICES ASSUME Init PROVE BaseInv
  OBVIOUS
<1>1. Idle \in Workers
  BY DEF Idle, Workers, PCs, Addresses
<1>2. \A c \in Controllers : scaler[c] \in [Owns[c] -> States] /\ queue[c] \in Seq(Owns[c])
  BY SMT DEF Init, States
<1>3. TypeInv
  BY <1>1, <1>2 DEF Init, TypeInv, Addresses
<1>4. LocalInv /\ AddressInv
  BY DEF Init, LocalInv, AddressInv, LiveNs, Idle
<1> QED
  BY <1>3, <1>4 DEF BaseInv

\* Reconcile takes the name it works on from its own queue.
LEMMA QueueStep ==
  ASSUME TypeInv, NEW c \in Controllers, queue[c] # <<>>
  PROVE  /\ Head(queue[c]) \in Owns[c] /\ Head(queue[c]) \in Names
         /\ Tail(queue[c]) \in Seq(Owns[c])
<1>1. Head(queue[c]) \in Owns[c] /\ Tail(queue[c]) \in Seq(Owns[c])
  BY SMT DEF TypeInv
<1>2. Owns[c] \subseteq Names
  BY PopulationAssumption DEF TypeInv, Owns
<1> QED
  BY <1>1, <1>2

\* What one step leaves of the other worker, and what its own becomes.
Becomes(c, w) == worker' = [d \in Controllers |-> IF d = c THEN w ELSE worker[d]]

\* The worker of c, moved to another place of the code
At(c, pc) == [worker[c] EXCEPT !.pc = pc]

\* The worker after each step of the code
LEMMA WorkerChange ==
  ASSUME TypeInv, NEW c \in Controllers
  PROVE  /\ TrackNamespace(c) =>
              Becomes(c, [At(c, "trackType") EXCEPT
                            !.ns = IF namespaces # None THEN namespaces ELSE FreshNs])
         /\ TrackType(c) =>
              Becomes(c, [At(c, "trackName") EXCEPT
                            !.type = IF nsMap[worker[c].ns] # None
                                     THEN nsMap[worker[c].ns] ELSE FreshType])
         /\ UntrackNamespace(c) /\ namespaces # None =>
              Becomes(c, [At(c, "untrackType") EXCEPT !.ns = namespaces])
         /\ UntrackType(c) /\ nsMap[worker[c].ns] # None =>
              Becomes(c, [At(c, "untrackName") EXCEPT !.type = nsMap[worker[c].ns]])
         /\ \A pc : Goto(c, pc) => Becomes(c, At(c, pc))
         /\ Done(c) => Becomes(c, Idle)
BY DEF TypeInv, Workers, TrackNamespace, TrackType, UntrackNamespace, UntrackType, Goto,
       Done, Becomes, At

\* A step that adds no address keeps them apart, if it leaves its worker with maps
\* that are in use, or without.
LEMMA NoNewAddress ==
  ASSUME BaseInv, NEW c \in Controllers, NEW w, Becomes(c, w),
         namespaces' \in {namespaces, None},
         \A k \in LiveNs : nsMap'[k] \in {nsMap[k], None},
         w.ns \in LiveNs \cup {None},
         \/ w.type = None
         \/ w.type = nsMap[w.ns] /\ w.ns # None
         \/ w.type = worker[c].type /\ w.ns = worker[c].ns
  PROVE  AddressInv'
<1>1. LiveNs' \subseteq LiveNs
  BY DEF Becomes, LiveNs
<1>2. \A d \in Controllers : worker'[d] = IF d = c THEN w ELSE worker[d]
  BY DEF Becomes
<1>3. \A k, l \in LiveNs' : nsMap'[k] = nsMap'[l] /\ nsMap'[k] # None => k = l
  BY <1>1 DEF BaseInv, AddressInv
<1>4. ASSUME NEW d \in Controllers, NEW k \in LiveNs', nsMap'[k] = worker'[d].type,
             nsMap'[k] # None
      PROVE  k = worker'[d].ns
  <2>1. nsMap'[k] = nsMap[k] /\ k \in LiveNs
    BY <1>1, <1>4
  <2>2. CASE d # c
    BY <1>2, <1>4, <2>1, <2>2, ZenonT(30) DEF BaseInv, AddressInv
  <2>3. CASE d = c
    <3>1. worker'[d] = w /\ nsMap[k] = w.type /\ w.type # None
      BY <1>2, <1>4, <2>1, <2>3
    <3>2. CASE w.type = nsMap[w.ns] /\ w.ns # None
      BY <2>1, <3>1, <3>2 DEF BaseInv, AddressInv
    <3>3. CASE w.type = worker[c].type /\ w.ns = worker[c].ns
      BY <2>1, <3>1, <3>3 DEF BaseInv, AddressInv
    <3> QED
      BY <3>1, <3>2, <3>3
  <2> QED
    BY <2>2, <2>3
<1> QED
  BY <1>3, <1>4 DEF AddressInv

\* The operations of a worker keep the types, and with them the locals.
LEMMA StepTypes == ASSUME BaseInv, NEW c \in Controllers, Step(c) PROVE TypeInv' /\ LocalInv'
<1> USE DEF BaseInv, heap
<1>0. /\ worker[c] \in Workers /\ Idle \in Workers
      /\ \A pc \in PCs : /\ At(c, pc) \in Workers
                         /\ At(c, pc).pc = pc /\ At(c, pc).name = worker[c].name
                         /\ At(c, pc).ns = worker[c].ns /\ At(c, pc).type = worker[c].type
  BY ZenonT(30) DEF TypeInv, Workers, Idle, PCs, Addresses, At
<1> DEFINE Local(d, w) ==
      /\ w.pc # "idle" => w.name \in Owns[d]
      /\ w.pc \in {"idle", "trackNamespace", "untrackNamespace"} <=> w.ns = None
      /\ w.pc \in {"idle", "trackNamespace", "untrackNamespace", "trackType", "untrackType"}
           <=> w.type = None
<1>1. ASSUME NEW w \in Workers, Becomes(c, w), Local(c, w), UNCHANGED <<keda, scaler>>,
             queue' = queue \/ Reconcile(c),
             namespaces' \in Addresses, nsMap' \in [MapIds -> Addresses],
             typeMap' \in [MapIds -> SUBSET Names]
      PROVE  TypeInv' /\ LocalInv'
  <2>1. \A d \in Controllers : worker'[d] = IF d = c THEN w ELSE worker[d]
    BY <1>1 DEF Becomes
  <2>2. worker' \in [Controllers -> Workers]
    BY <1>1 DEF Becomes, TypeInv
  <2>3. queue' = [d \in Controllers |-> queue'[d]] /\ \A d \in Controllers : queue'[d] \in Seq(Owns[d])
    BY <1>1, QueueStep, ZenonT(30) DEF TypeInv, Reconcile
  <2>4. Owns' = Owns
    BY <1>1 DEF Owns
  <2>5. TypeInv'
    BY <1>1, <2>2, <2>3, <2>4 DEF TypeInv
  <2>6. LocalInv'
    BY <1>1, <2>1, <2>4 DEF LocalInv
  <2> QED
    BY <2>5, <2>6
<1>2. Local(c, worker[c]) /\ Local(c, Idle)
  BY DEF LocalInv, Idle
<1> HIDE DEF Local
<1>3. CASE Reconcile(c)
  <2> DEFINE n == Head(queue[c])
             w == [Idle EXCEPT !.pc = IF scaler[c][n] = "managed"
                                      THEN "trackNamespace" ELSE "untrackNamespace",
                               !.name = n]
  <2>1. n \in Owns[c] /\ n \in Names
    BY <1>3, QueueStep DEF Reconcile
  <2>2. w \in Workers /\ Local(c, w)
    BY <2>1 DEF Workers, Idle, PCs, Tracking, Addresses, Local
  <2>3. Becomes(c, w)
    BY <1>3 DEF Reconcile, Becomes, TypeInv
  <2> HIDE DEF w
  <2> QED
    BY <1>1, <1>3, <2>2, <2>3 DEF Reconcile, TypeInv
<1>4. CASE TrackNamespace(c)
  <2> DEFINE m == IF namespaces # None THEN namespaces ELSE FreshNs
             w == [At(c, "trackType") EXCEPT !.ns = m]
  <2>1. m \in MapIds /\ m # None /\ worker[c].pc = "trackNamespace"
    BY <1>4, FreshNsIsFresh, NoneAssumption DEF TrackNamespace, TypeInv, Addresses
  <2> HIDE DEF m
  <2>2. w \in Workers /\ Local(c, w)
    BY <1>0, <1>2, <2>1 DEF Workers, PCs, Tracking, Addresses, Local, At
  <2>3. Becomes(c, w) /\ namespaces' = m
    BY <1>4, WorkerChange DEF TrackNamespace, m
  <2>4. nsMap' \in [MapIds -> Addresses]
    BY <1>4 DEF TrackNamespace, TypeInv, Addresses
  <2> HIDE DEF w
  <2> QED
    BY <1>1, <1>4, <2>1, <2>2, <2>3, <2>4 DEF TrackNamespace, TypeInv, Addresses
<1>5. CASE TrackType(c)
  <2> DEFINE t == IF nsMap[worker[c].ns] # None THEN nsMap[worker[c].ns] ELSE FreshType
             w == [At(c, "trackName") EXCEPT !.type = t]
  <2>1. worker[c].ns \in MapIds /\ worker[c].type = None /\ worker[c].pc = "trackType"
    BY <1>5, <1>0, <1>2 DEF TrackType, Local, Workers, Addresses
  <2>2. t \in MapIds /\ t # None
    BY <2>1, FreshTypeIsFresh, NoneAssumption DEF TypeInv, Addresses
  <2> HIDE DEF t
  <2>3. w \in Workers /\ Local(c, w)
    BY <1>0, <1>2, <2>1, <2>2 DEF Workers, PCs, Tracking, Addresses, Local, At
  <2>4. Becomes(c, w)
    BY <1>5, WorkerChange DEF t
  <2>5. nsMap' = [nsMap EXCEPT ![worker[c].ns] = t]
    BY <1>5 DEF TrackType, t
  <2>6. typeMap' = typeMap \/ typeMap' = [typeMap EXCEPT ![t] = {}]
    BY <1>5 DEF TrackType, t
  <2> HIDE DEF w
  <2>7. nsMap' \in [MapIds -> Addresses] /\ typeMap' \in [MapIds -> SUBSET Names]
    BY <2>2, <2>5, <2>6 DEF TypeInv, Addresses
  <2> QED
    BY <1>1, <1>5, <2>3, <2>4, <2>7 DEF TrackType, TypeInv
<1>6. CASE TrackName(c)
  <2>1. worker[c].name \in Names
    BY <1>6, <1>2, PopulationAssumption DEF TrackName, Local, TypeInv, Owns
  <2>2. typeMap' \in [MapIds -> SUBSET Names]
    BY <1>6, <2>1 DEF TrackName, TypeInv
  <2> QED
    BY <1>0, <1>1, <1>2, <1>6, <2>2, WorkerChange DEF TrackName, TypeInv
<1>7. CASE UntrackNamespace(c)
  <2>1. CASE namespaces = None
    BY <1>0, <1>1, <1>2, <1>7, <2>1, WorkerChange DEF UntrackNamespace, TypeInv
  <2>2. CASE namespaces # None
    <3> DEFINE w == [At(c, "untrackType") EXCEPT !.ns = namespaces]
    <3>1. w \in Workers /\ Local(c, w)
      BY <1>7, <1>0, <1>2, <2>2
      DEF UntrackNamespace, Workers, PCs, Tracking, Addresses, Local, At, TypeInv
    <3>2. Becomes(c, w)
      BY <1>7, <2>2, WorkerChange
    <3> HIDE DEF w
    <3> QED
      BY <1>1, <1>7, <3>1, <3>2 DEF UntrackNamespace, TypeInv
  <2> QED
    BY <2>1, <2>2
<1>8. CASE UntrackType(c)
  <2>1. CASE nsMap[worker[c].ns] = None
    BY <1>0, <1>1, <1>2, <1>8, <2>1, WorkerChange DEF UntrackType, TypeInv
  <2>2. CASE nsMap[worker[c].ns] # None
    <3> DEFINE w == [At(c, "untrackName") EXCEPT !.type = nsMap[worker[c].ns]]
    <3>0. worker[c].ns \in MapIds
      BY <1>8, <1>0, <1>2 DEF UntrackType, Local, Workers, Addresses
    <3>1. w \in Workers /\ Local(c, w)
      BY <1>8, <1>0, <1>2, <2>2, <3>0, SMT
      DEF UntrackType, Workers, PCs, Tracking, Addresses, Local, At, TypeInv
    <3>2. Becomes(c, w)
      BY <1>8, <2>2, WorkerChange
    <3> HIDE DEF w
    <3> QED
      BY <1>1, <1>8, <3>1, <3>2 DEF UntrackType, TypeInv
  <2> QED
    BY <2>1, <2>2
<1>9. ASSUME NEW pc \in Cleaning, worker[c].pc \in Cleaning \cup {"untrackName"}
      PROVE  At(c, pc) \in Workers /\ Local(c, At(c, pc))
  BY <1>0, <1>2, <1>9 DEF PCs, Cleaning, Local
<1>10. CASE UntrackName(c)
  <2>1. typeMap' \in [MapIds -> SUBSET Names]
    BY <1>10 DEF UntrackName, TypeInv
  <2> QED
    BY <1>1, <1>9, <1>10, <2>1, WorkerChange DEF UntrackName, TypeInv, Cleaning
<1>11. CASE TypeEmpty(c)
  BY <1>1, <1>9, <1>11, WorkerChange DEF TypeEmpty, TypeInv, Cleaning
<1>12. CASE DeleteType(c)
  <2>1. nsMap' \in [MapIds -> Addresses]
    BY <1>12 DEF DeleteType, TypeInv, Addresses
  <2> QED
    BY <1>1, <1>9, <1>12, <2>1, WorkerChange DEF DeleteType, TypeInv, Cleaning
<1>13. CASE NamespaceEmpty(c)
  BY <1>0, <1>1, <1>2, <1>9, <1>13, WorkerChange DEF NamespaceEmpty, TypeInv, Cleaning
<1>14. CASE DeleteNamespace(c)
  BY <1>0, <1>1, <1>2, <1>14, WorkerChange DEF DeleteNamespace, TypeInv, Addresses
<1> QED
  BY <1>3, <1>4, <1>5, <1>6, <1>7, <1>8, <1>10, <1>11, <1>12, <1>13, <1>14
  DEF Step, NamespaceTrack, NamespaceUntrack

\* The operations of a worker keep the maps of names apart: a map that is in use
\* is never reached through two namespace maps.
LEMMA StepAddresses == ASSUME BaseInv, NEW c \in Controllers, Step(c) PROVE AddressInv'
<1> USE DEF BaseInv, heap
<1>0. /\ worker[c] \in Workers
      /\ worker[c].ns # None => worker[c].ns \in LiveNs /\ worker[c].ns \in MapIds
      /\ namespaces # None => namespaces \in LiveNs /\ namespaces \in MapIds
  BY DEF TypeInv, Workers, LiveNs, Addresses
<1>1. \A pc : At(c, pc).ns = worker[c].ns /\ At(c, pc).type = worker[c].type
  BY <1>0 DEF Workers, At
<1>2. Idle.ns = None /\ Idle.type = None
  BY DEF Idle
<1>3. CASE Reconcile(c)
  <2> DEFINE n == Head(queue[c])
             w == [Idle EXCEPT !.pc = IF scaler[c][n] = "managed"
                                      THEN "trackNamespace" ELSE "untrackNamespace",
                               !.name = n]
  <2>1. Becomes(c, w)
    BY <1>3 DEF Reconcile, Becomes, TypeInv
  <2>2. w.ns = None /\ w.type = None
    BY DEF Idle
  <2> HIDE DEF w
  <2> QED
    BY <1>3, <2>1, <2>2, NoNewAddress DEF Reconcile
<1>4. CASE TrackNamespace(c)
  <2>1. worker[c].pc = "trackNamespace" /\ worker[c].ns = None /\ worker[c].type = None
    BY <1>4 DEF TrackNamespace, LocalInv
  <2>2. CASE namespaces # None
    <3> DEFINE w == [At(c, "trackType") EXCEPT !.ns = namespaces]
    <3>1. Becomes(c, w)
      BY <1>4, <2>2, WorkerChange
    <3>2. w.ns = namespaces /\ w.type = None
      BY <1>0, <2>1 DEF At, Workers
    <3> HIDE DEF w
    <3> QED
      BY <1>0, <1>4, <2>2, <3>1, <3>2, NoNewAddress DEF TrackNamespace
  <2>3. CASE namespaces = None
    <3> DEFINE m == FreshNs
               w == [At(c, "trackType") EXCEPT !.ns = m]
    <3>1. Becomes(c, w)
      BY <1>4, <2>3, WorkerChange
    <3>2. w.ns = m /\ w.type = None
      BY <1>0, <2>1 DEF At, Workers
    <3>3. m \in MapIds /\ m \notin LiveNs
      BY <2>3, FreshNsIsFresh, NoneAssumption DEF LiveNs
    <3>4. namespaces' = m /\ nsMap' = [nsMap EXCEPT ![m] = None]
      BY <1>4, <2>3 DEF TrackNamespace
    <3> HIDE DEF w, m
    <3>5. \A d \in Controllers : worker'[d] = IF d = c THEN w ELSE worker[d]
      BY <3>1 DEF Becomes
    <3>6. LiveNs' \subseteq LiveNs \cup {m}
      BY <3>2, <3>4, <3>5 DEF LiveNs
    <3>7. nsMap'[m] = None /\ \A k \in LiveNs : nsMap'[k] = nsMap[k]
      BY <1>0, <3>3, <3>4, SMT DEF TypeInv, LiveNs, Workers, Addresses
    <3>8. \A d \in Controllers, k \in LiveNs' :
            nsMap'[k] = worker'[d].type /\ nsMap'[k] # None => k = worker'[d].ns
      BY <3>2, <3>5, <3>6, <3>7, SMT DEF AddressInv
    <3>9. \A k, l \in LiveNs' : nsMap'[k] = nsMap'[l] /\ nsMap'[k] # None => k = l
      BY <3>6, <3>7 DEF AddressInv
    <3> QED
      BY <3>8, <3>9 DEF AddressInv
  <2> QED
    BY <2>2, <2>3
<1>5. CASE TrackType(c)
  <2> DEFINE m == worker[c].ns
  <2>1. worker[c].type = None /\ m \in MapIds /\ m # None /\ m \in LiveNs
    BY <1>0, <1>5 DEF TrackType, LocalInv
  <2>2. CASE nsMap[m] # None
    <3> DEFINE w == [At(c, "trackName") EXCEPT !.type = nsMap[m]]
    <3>1. Becomes(c, w)
      BY <1>5, <2>2, WorkerChange
    <3>2. w.ns = m /\ w.type = nsMap[m]
      BY <1>0 DEF At, Workers
    <3>3. \A k \in LiveNs : nsMap'[k] = nsMap[k]
      BY <1>5, <2>2, <2>1 DEF TrackType, TypeInv
    <3> HIDE DEF w
    <3> QED
      BY <1>5, <2>1, <3>1, <3>2, <3>3, NoNewAddress DEF TrackType
  <2>3. CASE nsMap[m] = None
    <3> DEFINE t == FreshType
               w == [At(c, "trackName") EXCEPT !.type = t]
    <3>1. Becomes(c, w)
      BY <1>5, <2>3, WorkerChange
    <3>2. w.ns = m /\ w.type = t
      BY <1>0 DEF At, Workers
    <3>3. /\ \A k \in LiveNs : t # nsMap[k]
          /\ \A d \in Controllers : t # worker[d].type
      BY <2>1, <2>3, FreshTypeIsFresh
    <3>4. namespaces' = namespaces /\ nsMap' = [nsMap EXCEPT ![m] = t]
      BY <1>5, <2>3 DEF TrackType
    <3> HIDE DEF w, t
    <3>5. \A d \in Controllers : worker'[d] = IF d = c THEN w ELSE worker[d]
      BY <3>1 DEF Becomes
    <3>6. LiveNs' = LiveNs
      BY <3>2, <3>4, <3>5 DEF LiveNs
    <3> HIDE DEF m
    <3>7. nsMap'[m] = t /\ \A k \in LiveNs : k # m => nsMap'[k] = nsMap[k]
      BY <2>1, <3>4, SMT DEF TypeInv
    <3>8. \A d \in Controllers, k \in LiveNs' :
            nsMap'[k] = worker'[d].type /\ nsMap'[k] # None => k = worker'[d].ns
      BY <2>1, <3>2, <3>3, <3>5, <3>6, <3>7, SMT DEF AddressInv
    <3>9. \A k, l \in LiveNs' : nsMap'[k] = nsMap'[l] /\ nsMap'[k] # None => k = l
      BY <2>1, <3>3, <3>6, <3>7, SMT DEF AddressInv
    <3> QED
      BY <3>8, <3>9 DEF AddressInv
  <2> QED
    BY <2>2, <2>3
<1>6. CASE TrackName(c)
  BY <1>2, <1>6, WorkerChange, NoNewAddress DEF TrackName
<1>7. CASE UntrackNamespace(c)
  <2>1. CASE namespaces = None
    BY <1>2, <1>7, <2>1, WorkerChange, NoNewAddress DEF UntrackNamespace
  <2>2. CASE namespaces # None
    <3> DEFINE w == [At(c, "untrackType") EXCEPT !.ns = namespaces]
    <3>1. Becomes(c, w)
      BY <1>7, <2>2, WorkerChange
    <3>2. w.ns = namespaces /\ w.type = None
      BY <1>0, <1>7 DEF At, Workers, UntrackNamespace, LocalInv
    <3> HIDE DEF w
    <3> QED
      BY <1>0, <1>7, <2>2, <3>1, <3>2, NoNewAddress DEF UntrackNamespace
  <2> QED
    BY <2>1, <2>2
<1>8. CASE UntrackType(c)
  <2>1. CASE nsMap[worker[c].ns] = None
    BY <1>2, <1>8, <2>1, WorkerChange, NoNewAddress DEF UntrackType
  <2>2. CASE nsMap[worker[c].ns] # None
    <3> DEFINE w == [At(c, "untrackName") EXCEPT !.type = nsMap[worker[c].ns]]
    <3>1. Becomes(c, w)
      BY <1>8, <2>2, WorkerChange
    <3>2. w.ns = worker[c].ns /\ w.type = nsMap[w.ns] /\ w.ns # None
      BY <1>0, <1>8 DEF At, Workers, UntrackType, LocalInv
    <3> HIDE DEF w
    <3> QED
      BY <1>0, <1>8, <3>1, <3>2, NoNewAddress DEF UntrackType
  <2> QED
    BY <2>1, <2>2
<1>9. CASE UntrackName(c) \/ TypeEmpty(c) \/ NamespaceEmpty(c)
  BY <1>0, <1>1, <1>2, <1>9, WorkerChange, NoNewAddress DEF UntrackName, TypeEmpty, NamespaceEmpty
<1>10. CASE DeleteType(c)
  <2>1. \A k \in LiveNs : nsMap'[k] \in {nsMap[k], None}
    BY <1>10, <1>0, SMT DEF DeleteType, TypeInv, LiveNs, Workers, Addresses
  <2> QED
    BY <1>0, <1>1, <1>10, <2>1, WorkerChange, NoNewAddress DEF DeleteType
<1>11. CASE DeleteNamespace(c)
  BY <1>2, <1>11, WorkerChange, NoNewAddress DEF DeleteNamespace
<1> QED
  BY <1>3, <1>4, <1>5, <1>6, <1>7, <1>8, <1>9, <1>10, <1>11
  DEF Step, NamespaceTrack, NamespaceUntrack

\* An edit leaves the controllers alone and may queue the scaler's name.
LEMMA EditTypes ==
  ASSUME BaseInv, NEW c \in Controllers, NEW n \in Owns[c], EditScaler(c, n)
  PROVE  /\ BaseInv' /\ Owns' = Owns /\ UNCHANGED <<worker, heap>>
         /\ \A d \in Controllers : \A m \in Owns[d] : Wanted(d, m) => Wanted(d, m)'
<1> USE DEF heap
<1>1. PICK new \in States :
        /\ <<scaler[c][n], new>> \in Changes
        /\ scaler' = [scaler EXCEPT ![c][n] = new]
        /\ queue' = IF AnnotatedScalerPredicate(scaler[c][n], new) /\ ~Waiting(c, n)
                    THEN [queue EXCEPT ![c] = Append(@, n)] ELSE queue
  BY DEF EditScaler, States
<1>2. Owns' = Owns /\ UNCHANGED <<keda, worker, heap>>
  BY DEF EditScaler, Owns
<1>3. /\ scaler' = [d \in Controllers |-> scaler'[d]]
      /\ \A d \in Controllers : scaler'[d] \in [Owns[d] -> States]
      /\ \A d \in Controllers : \A m \in Owns[d] : d # c \/ m # n => scaler'[d][m] = scaler[d][m]
  BY <1>1 DEF BaseInv, TypeInv
<1>4. /\ queue' = [d \in Controllers |-> queue'[d]]
      /\ \A d \in Controllers : queue'[d] \in Seq(Owns[d])
  <2>1. queue[c] \in Seq(Owns[c]) /\ Append(queue[c], n) \in Seq(Owns[c])
    BY SMT DEF BaseInv, TypeInv
  <2>2. CASE queue' = queue
    BY <2>2 DEF BaseInv, TypeInv
  <2>3. CASE queue' = [queue EXCEPT ![c] = Append(queue[c], n)]
    <3>1. DOMAIN queue = Controllers
      BY DEF BaseInv, TypeInv
    <3>2. \A d \in Controllers : queue'[d] = IF d = c THEN Append(queue[c], n) ELSE queue[d]
      BY <2>3, <3>1
    <3>3. queue' = [d \in Controllers |-> queue'[d]]
      BY <2>3, <3>1
    <3> QED
      BY <2>1, <3>2, <3>3 DEF BaseInv, TypeInv
  <2> QED
    BY <1>1, <2>2, <2>3
<1>5. \A d \in Controllers : \A m \in Owns[d] : Waiting(d, m) => Waiting(d, m)'
  <2> SUFFICES ASSUME NEW d \in Controllers, NEW m \in Owns[d], Waiting(d, m)
               PROVE  Waiting(d, m)'
    OBVIOUS
  <2>1. CASE queue'[d] = queue[d]
    BY <2>1 DEF Waiting
  <2>2. CASE d = c /\ queue'[d] = Append(queue[d], n)
    <3>1. queue[d] \in Seq(Owns[d])
      BY DEF BaseInv, TypeInv
    <3>2. PICK i \in DOMAIN queue[d] : queue[d][i] = m
      BY DEF Waiting
    <3>3. i \in DOMAIN queue'[d] /\ queue'[d][i] = m
      BY <2>2, <3>1, <3>2, SMT
    <3> QED
      BY <3>3 DEF Waiting
  <2> QED
    BY <1>1, <2>1, <2>2 DEF BaseInv, TypeInv
<1>6. scaler[c][n] = "managed" => Waiting(c, n)'
  <2> SUFFICES ASSUME scaler[c][n] = "managed", ~Waiting(c, n) PROVE Waiting(c, n)'
    BY <1>5
  <2>1. queue[c] \in Seq(Owns[c]) /\ queue'[c] = Append(queue[c], n)
    BY <1>1 DEF BaseInv, TypeInv, AnnotatedScalerPredicate, IsManaged
  <2>2. Len(queue[c]) + 1 \in DOMAIN queue'[c] /\ queue'[c][Len(queue[c]) + 1] = n
    BY <2>1, SMT
  <2> QED
    BY <2>2 DEF Waiting
<1>7. TypeInv'
  BY <1>2, <1>3, <1>4 DEF BaseInv, TypeInv
<1>8. LocalInv' /\ AddressInv'
  BY <1>2, SMT DEF BaseInv, LocalInv, AddressInv, LiveNs
<1>9. \A d \in Controllers : \A m \in Owns[d] : Wanted(d, m) => Wanted(d, m)'
  BY <1>2, <1>3, <1>5, <1>6 DEF Wanted
<1> QED
  BY <1>2, <1>7, <1>8, <1>9 DEF BaseInv

\* Workers keep to the maps that they found.
LEMMA NextBase == BaseInv /\ [Next]_vars => BaseInv'
<1> SUFFICES ASSUME BaseInv, [Next]_vars PROVE BaseInv'
  OBVIOUS
<1>1. ASSUME NEW c \in Controllers, Step(c) PROVE BaseInv'
  BY <1>1, StepTypes, StepAddresses DEF BaseInv
<1>2. CASE UNCHANGED vars
  BY <1>2, SMT DEF vars, heap, BaseInv, TypeInv, LocalInv, AddressInv, LiveNs, Owns
<1> QED
  BY <1>1, <1>2, EditTypes DEF Next

----------------------------------------------------------------------------
(* Nothing leaks *)

\* A namespace that is tracked for nothing has a worker that sees to it.
LEMMA StepKeep == ASSUME BaseInv, KeepInv, NEW c \in Controllers, Step(c) PROVE KeepInv'
<1> USE DEF heap
<1> SUFFICES ASSUME namespaces' # None, Members' = {} PROVE \E d \in Controllers : Responsible(d)'
  BY DEF KeepInv, IsNamespaceTracked
<1>0. /\ worker[c] \in Workers /\ worker[c].ns \in Addresses
      /\ nsMap \in [MapIds -> Addresses] /\ typeMap \in [MapIds -> SUBSET Names]
      /\ namespaces \in Addresses
  BY DEF BaseInv, TypeInv, Workers
<1>1. \A pc : /\ At(c, pc).ns = worker[c].ns /\ At(c, pc).type = worker[c].type
              /\ At(c, pc).pc = pc
  BY <1>0 DEF Workers, At
<1>2. ASSUME NEW w, Becomes(c, w), namespaces' = namespaces,
             namespaces # None => nsMap'[namespaces] = nsMap[namespaces],
             Members = {}, ~Responsible(c)
      PROVE  \E d \in Controllers : Responsible(d)'
  <2>1. PICK d \in Controllers : Responsible(d)
    BY <1>2 DEF KeepInv, IsNamespaceTracked
  <2>2. worker'[d] = worker[d]
    BY <1>2, <2>1 DEF Becomes
  <2> QED
    BY <1>2, <2>1, <2>2 DEF Responsible
<1>3. CASE Reconcile(c)
  <2> DEFINE n == Head(queue[c])
             w == [Idle EXCEPT !.pc = IF scaler[c][n] = "managed"
                                      THEN "trackNamespace" ELSE "untrackNamespace",
                               !.name = n]
  <2>1. Becomes(c, w)
    BY <1>3 DEF Reconcile, Becomes, BaseInv, TypeInv
  <2> QED
    BY <1>2, <1>3, <2>1 DEF Reconcile, Members, Responsible
<1>4. CASE TrackNamespace(c)
  <2>1. CASE namespaces # None
    BY <1>2, <1>4, <2>1, WorkerChange DEF TrackNamespace, Members, Responsible, BaseInv
  <2>2. CASE namespaces = None
    <3>1. Becomes(c, [At(c, "trackType") EXCEPT !.ns = FreshNs]) /\ namespaces' = FreshNs
      BY <1>4, <2>2, WorkerChange DEF TrackNamespace, BaseInv
    <3>2. worker'[c].pc = "trackType" /\ worker'[c].ns = namespaces'
      BY <1>0, <3>1 DEF Becomes, At, Workers
    <3> QED
      BY <3>2 DEF Responsible
  <2> QED
    BY <2>1, <2>2
<1>5. CASE TrackType(c)
  <2> DEFINE m == worker[c].ns
             t == IF nsMap[m] # None THEN nsMap[m] ELSE FreshType
  <2>1. m \in MapIds /\ worker[c].type = None
    BY <1>0, <1>5 DEF TrackType, BaseInv, LocalInv, Addresses
  <2>2. Becomes(c, [At(c, "trackName") EXCEPT !.type = t])
    BY <1>5, WorkerChange DEF BaseInv
  <2>3. namespaces' = namespaces /\ nsMap' = [nsMap EXCEPT ![m] = t]
    BY <1>5 DEF TrackType
  <2>4. CASE m = namespaces
    <3>1. worker'[c].pc = "trackName" /\ worker'[c].ns = m /\ worker'[c].type = t
      BY <1>0, <2>2 DEF Becomes, At, Workers
    <3> HIDE DEF t
    <3> QED
      BY <1>0, <2>1, <2>3, <2>4, <3>1 DEF Responsible
  <2>5. CASE m # namespaces
    <3>1. nsMap'[namespaces] = nsMap[namespaces]
      BY <1>0, <2>3, <2>5 DEF Addresses
    <3>2. nsMap[namespaces] # None => typeMap'[nsMap[namespaces]] = typeMap[nsMap[namespaces]]
      <4>1. CASE typeMap' = typeMap
        BY <4>1
      <4>2. CASE nsMap[m] = None /\ typeMap' = [typeMap EXCEPT ![FreshType] = {}]
        <5>1. namespaces \in LiveNs
          BY <2>3 DEF LiveNs
        <5>2. FreshType # nsMap[namespaces]
          BY <2>1, <4>2, <5>1, FreshTypeIsFresh
        <5>3. namespaces \in MapIds
          BY <1>0, <2>3 DEF Addresses
        <5> QED
          BY <1>0, <4>2, <5>2, <5>3 DEF Addresses
      <4> QED
        BY <1>5, <4>1, <4>2 DEF TrackType
    <3>3. Members = {}
      BY <2>3, <3>1, <3>2 DEF Members
    <3>4. ~Responsible(c)
      BY <2>5 DEF Responsible
    <3> HIDE DEF t
    <3> QED
      BY <1>2, <2>2, <2>3, <3>1, <3>3, <3>4
  <2> QED
    BY <2>4, <2>5
<1>6. CASE TrackName(c)
  <2>1. Becomes(c, Idle)
    BY <1>6, WorkerChange DEF TrackName, BaseInv
  <2>2. worker[c].type \in MapIds /\ worker[c].ns # None
    BY <1>0, <1>6 DEF TrackName, BaseInv, LocalInv, Workers, Addresses
  <2>3. /\ typeMap'[worker[c].type] = typeMap[worker[c].type] \cup {worker[c].name}
        /\ \A t \in MapIds : t # worker[c].type => typeMap'[t] = typeMap[t]
    BY <1>0, <1>6, <2>2 DEF TrackName
  <2>4. UNCHANGED <<namespaces, nsMap>>
    BY <1>6 DEF TrackName
  <2>5. nsMap[namespaces] # worker[c].type
    BY <2>2, <2>3, <2>4, NoneAssumption DEF Members
  <2>6. Members = {}
    BY <1>0, <2>3, <2>4, <2>5 DEF Members, Addresses
  <2> QED
    BY <1>2, <1>6, <2>1, <2>4, <2>5, <2>6 DEF Responsible, TrackName
<1>7. CASE UntrackNamespace(c) \/ UntrackType(c)
  <2>1. PICK w : Becomes(c, w)
    BY <1>7, WorkerChange DEF UntrackNamespace, UntrackType, BaseInv
  <2> QED
    BY <1>2, <1>7, <2>1 DEF UntrackNamespace, UntrackType, Members, Responsible
<1>8. CASE UntrackName(c)
  <2>1. Becomes(c, At(c, "typeEmpty")) /\ UNCHANGED <<namespaces, nsMap>>
    BY <1>8, WorkerChange DEF UntrackName, BaseInv
  <2>2. worker[c].type \in MapIds /\ worker[c].ns # None
    BY <1>0, <1>8 DEF UntrackName, BaseInv, LocalInv, Workers, Addresses
  <2>3. CASE nsMap[namespaces] = worker[c].type
    <3>1. namespaces \in LiveNs
      BY <2>1 DEF LiveNs
    <3>2. namespaces = worker[c].ns
      BY <2>2, <2>3, <3>1, NoneAssumption DEF BaseInv, AddressInv
    <3> QED
      BY <1>1, <2>1, <2>3, <3>2 DEF Responsible, Becomes
  <2>4. CASE nsMap[namespaces] # worker[c].type
    <3>1. \A t \in MapIds : t # worker[c].type => typeMap'[t] = typeMap[t]
      BY <1>0, <1>8, <2>2 DEF UntrackName
    <3>2. Members = {}
      BY <1>0, <2>1, <2>4, <3>1 DEF Members, Addresses
    <3> QED
      BY <1>2, <1>8, <2>1, <3>2 DEF Responsible, UntrackName
  <2> QED
    BY <2>3, <2>4
<1>9. CASE TypeEmpty(c)
  <2>1. UNCHANGED <<namespaces, nsMap, typeMap>> /\ Members = {}
    BY <1>9 DEF TypeEmpty, Members
  <2>2. CASE Responsible(c)
    <3>1. worker[c].ns = namespaces /\ worker[c].type = nsMap[namespaces] /\ worker[c].type # None
      BY <1>9, <2>2 DEF TypeEmpty, Responsible, BaseInv, LocalInv
    <3>2. typeMap[worker[c].type] = {}
      BY <2>1, <3>1 DEF Members
    <3>3. Becomes(c, At(c, "deleteType"))
      BY <1>9, <3>2, WorkerChange DEF TypeEmpty, BaseInv
    <3> QED
      BY <1>1, <2>1, <3>1, <3>3 DEF Responsible, Becomes
  <2>3. CASE ~Responsible(c)
    <3>1. PICK w : Becomes(c, w)
      BY <1>9, WorkerChange DEF TypeEmpty, BaseInv
    <3> QED
      BY <1>2, <2>1, <2>3, <3>1
  <2> QED
    BY <2>2, <2>3
<1>10. CASE DeleteType(c)
  <2>1. /\ Becomes(c, At(c, "namespaceEmpty")) /\ UNCHANGED <<namespaces, typeMap>>
        /\ nsMap' = [nsMap EXCEPT ![worker[c].ns] = None]
    BY <1>10, WorkerChange DEF DeleteType, BaseInv
  <2>2. CASE worker[c].ns = namespaces
    BY <1>0, <1>1, <2>1, <2>2 DEF Responsible, Becomes, Addresses
  <2>3. CASE worker[c].ns # namespaces
    <3>1. nsMap'[namespaces] = nsMap[namespaces]
      BY <1>0, <2>1, <2>3 DEF Addresses
    <3> QED
      BY <1>2, <2>1, <2>3, <3>1 DEF Responsible, Members
  <2> QED
    BY <2>2, <2>3
<1>11. CASE NamespaceEmpty(c)
  <2>1. UNCHANGED <<namespaces, nsMap, typeMap>> /\ Members = {}
    BY <1>11 DEF NamespaceEmpty, Members
  <2>2. CASE Responsible(c)
    <3>1. worker[c].ns = namespaces /\ nsMap[namespaces] = None
      BY <1>11, <2>2 DEF NamespaceEmpty, Responsible
    <3>2. Becomes(c, At(c, "deleteNamespace"))
      BY <1>11, <3>1, WorkerChange DEF NamespaceEmpty, BaseInv
    <3> QED
      BY <1>1, <2>1, <3>1, <3>2 DEF Responsible, Becomes
  <2>3. CASE ~Responsible(c)
    <3>1. PICK w : Becomes(c, w)
      BY <1>11, WorkerChange DEF NamespaceEmpty, BaseInv
    <3> QED
      BY <1>2, <2>1, <2>3, <3>1
  <2> QED
    BY <2>2, <2>3
<1>12. CASE DeleteNamespace(c)
  BY <1>12 DEF DeleteNamespace
<1> QED
  BY <1>3, <1>4, <1>5, <1>6, <1>7, <1>8, <1>9, <1>10, <1>11, <1>12
  DEF Step, NamespaceTrack, NamespaceUntrack

\* A name that Reconcile takes from the queue stays wanted, or is untracked.
LEMMA ReconcileMembers ==
  ASSUME BaseInv, MemberInv, NEW c \in Controllers, Reconcile(c) PROVE MemberInv'
<1> USE DEF heap
<1> DEFINE n == Head(queue[c])
           w == [Idle EXCEPT !.pc = IF scaler[c][n] = "managed"
                                    THEN "trackNamespace" ELSE "untrackNamespace",
                             !.name = n]
<1>1. Becomes(c, w) /\ UNCHANGED <<keda, scaler, heap>> /\ n \in Owns[c]
  BY QueueStep DEF Reconcile, Becomes, BaseInv, TypeInv
<1>2. w.name = n /\ w.pc = IF scaler[c][n] = "managed" THEN "trackNamespace" ELSE "untrackNamespace"
  BY DEF Idle
<1> HIDE DEF w
<1>3. \A d \in Controllers : worker'[d] = IF d = c THEN w ELSE worker[d]
  BY <1>1 DEF Becomes
<1>4. Owns' = Owns /\ Members' = Members
  BY <1>1 DEF Owns, Members
<1>5. ASSUME NEW d \in Controllers, NEW m, Waiting(d, m), d # c \/ m # n PROVE Waiting(d, m)'
  <2>1. CASE d # c
    BY <1>5, <2>1 DEF Reconcile, Waiting, BaseInv, TypeInv
  <2>2. CASE d = c
    <3>1. queue[c] \in Seq(Owns[c]) /\ queue[c] # <<>> /\ queue'[c] = Tail(queue[c])
      BY DEF Reconcile, BaseInv, TypeInv
    <3>2. PICK i \in 1..Len(queue[c]) : queue[c][i] = m
      BY <1>5, <2>2, <3>1, SMT DEF Waiting
    <3>3. i # 1
      BY <1>5, <2>2, <3>1, <3>2, SMT
    <3>4. i - 1 \in DOMAIN queue'[c] /\ queue'[c][i - 1] = m
      BY <3>1, <3>2, <3>3, SMT
    <3> QED
      BY <2>2, <3>4 DEF Waiting
  <2> QED
    BY <2>1, <2>2
<1>6. ASSUME NEW d \in Controllers, NEW m, Wanted(d, m), d # c \/ m # n PROVE Wanted(d, m)'
  BY <1>1, <1>4, <1>5, <1>6 DEF Wanted
<1>7. worker[c].pc = "idle"
  BY DEF Reconcile
<1>8. \A d \in Controllers : worker'[d].pc \in Tracking => Wanted(d, worker[d].name)'
  <2> SUFFICES ASSUME NEW d \in Controllers, worker'[d].pc \in Tracking
               PROVE  Wanted(d, worker[d].name)'
    OBVIOUS
  <2>1. CASE d = c
    BY <1>1, <1>2, <1>3, <1>4, <2>1 DEF Wanted, Tracking
  <2>2. CASE d # c
    BY <1>3, <1>6, <2>2 DEF MemberInv
  <2> QED
    BY <2>1, <2>2
<1>9. ASSUME NEW m \in Members
      PROVE  \E d \in Controllers : Wanted(d, m)' \/ (m \in Owns'[d] /\ Untracking(d, m)')
  <2>1. PICK d \in Controllers : Wanted(d, m) \/ (m \in Owns[d] /\ Untracking(d, m))
    BY <1>9 DEF MemberInv
  <2>2. CASE d = c /\ m = n
    BY <1>1, <1>2, <1>3, <1>4, <2>2 DEF Wanted, Untracking
  <2>3. CASE d # c \/ m # n
    <3>1. CASE Wanted(d, m)
      BY <1>6, <2>3, <3>1
    <3>2. CASE m \in Owns[d] /\ Untracking(d, m)
      <4>1. d # c
        BY <1>7, <3>2 DEF Untracking
      <4> QED
        BY <1>1, <1>3, <1>4, <3>2, <4>1 DEF Untracking
    <3> QED
      BY <2>1, <3>1, <3>2
  <2> QED
    BY <2>2, <2>3
<1> QED
  BY <1>4, <1>8, <1>9 DEF MemberInv

\* The operations on the maps add only names that are wanted, and an operation
\* that has a name to remove removes it or finds the record gone.
LEMMA HeapMembers ==
  ASSUME BaseInv, MemberInv, NEW c \in Controllers, NamespaceTrack(c) \/ NamespaceUntrack(c)
  PROVE  MemberInv'
<1> USE DEF heap
<1>0. /\ worker[c] \in Workers /\ worker[c].ns \in Addresses /\ worker[c].type \in Addresses
      /\ nsMap \in [MapIds -> Addresses] /\ typeMap \in [MapIds -> SUBSET Names]
      /\ namespaces \in Addresses
  BY DEF BaseInv, TypeInv, Workers
<1>1. \A pc : /\ At(c, pc).ns = worker[c].ns /\ At(c, pc).type = worker[c].type
              /\ At(c, pc).pc = pc /\ At(c, pc).name = worker[c].name
  BY <1>0 DEF Workers, At
<1>2. UNCHANGED <<keda, scaler, queue>>
  BY DEF NamespaceTrack, TrackNamespace, TrackType, TrackName, NamespaceUntrack,
     UntrackNamespace, UntrackType, UntrackName, TypeEmpty, DeleteType, NamespaceEmpty,
     DeleteNamespace
<1>3. /\ Owns' = Owns
      /\ \A d \in Controllers : \A m : Wanted(d, m)' <=> Wanted(d, m)
  BY <1>2 DEF Owns, Wanted, Waiting
<1>4. ASSUME NEW w, Becomes(c, w),
             w.pc \in Tracking => worker[c].pc \in Tracking /\ w.name = worker[c].name,
             \A m \in Members' : \/ Wanted(c, m)
                                 \/ /\ m \in Members
                                    /\ UNCHANGED namespaces /\ nsMap'[namespaces] = nsMap[namespaces]
                                    /\ Untracking(c, m) => Untracking(c, m)'
      PROVE  MemberInv'
  <2>1. \A d \in Controllers : worker'[d] = IF d = c THEN w ELSE worker[d]
    BY <1>4 DEF Becomes
  <2>2. \A d \in Controllers : worker'[d].pc \in Tracking => Wanted(d, worker[d].name)'
    BY <1>3, <1>4, <2>1 DEF MemberInv
  <2>3. ASSUME NEW m \in Members'
        PROVE  \E d \in Controllers : Wanted(d, m)' \/ (m \in Owns'[d] /\ Untracking(d, m)')
    <3>1. CASE Wanted(c, m)
      BY <1>3, <3>1
    <3>2. CASE /\ m \in Members
               /\ UNCHANGED namespaces /\ nsMap'[namespaces] = nsMap[namespaces]
               /\ Untracking(c, m) => Untracking(c, m)'
      <4>1. PICK d \in Controllers : Wanted(d, m) \/ (m \in Owns[d] /\ Untracking(d, m))
        BY <3>2 DEF MemberInv
      <4>2. CASE d = c
        BY <1>3, <3>2, <4>1, <4>2
      <4>3. CASE d # c
        BY <1>3, <2>1, <3>2, <4>1, <4>3 DEF Untracking
      <4> QED
        BY <4>2, <4>3
    <3> QED
      BY <1>4, <2>3, <3>1, <3>2
  <2> QED
    BY <2>2, <2>3 DEF MemberInv
<1>5. \A m : Untracking(c, m) =>
        worker[c].pc \in {"untrackNamespace", "untrackType", "untrackName"}
  BY DEF Untracking
<1>6. CASE TrackNamespace(c)
  <2>1. CASE namespaces # None
    <3> DEFINE w == [At(c, "trackType") EXCEPT !.ns = namespaces]
    <3>1. Becomes(c, w) /\ UNCHANGED heap
      BY <1>6, <2>1, WorkerChange DEF TrackNamespace, BaseInv
    <3>2. w.name = worker[c].name
      BY <1>0 DEF At, Workers
    <3> HIDE DEF w
    <3> QED
      BY <1>4, <1>5, <1>6, <3>1, <3>2 DEF TrackNamespace, Members, Tracking
  <2>2. CASE namespaces = None
    <3> DEFINE w == [At(c, "trackType") EXCEPT !.ns = FreshNs]
    <3>1. /\ Becomes(c, w) /\ namespaces' = FreshNs
          /\ nsMap' = [nsMap EXCEPT ![FreshNs] = None]
      BY <1>6, <2>2, WorkerChange DEF TrackNamespace, BaseInv
    <3>2. w.name = worker[c].name
      BY <1>0 DEF At, Workers
    <3>3. Members' = {}
      BY <1>0, <3>1, FreshNsIsFresh DEF Members
    <3> HIDE DEF w
    <3> QED
      BY <1>4, <1>6, <3>1, <3>2, <3>3 DEF TrackNamespace, Tracking
  <2> QED
    BY <2>1, <2>2
<1>7. CASE TrackType(c)
  <2> DEFINE m == worker[c].ns
             t == IF nsMap[m] # None THEN nsMap[m] ELSE FreshType
             w == [At(c, "trackName") EXCEPT !.type = t]
  <2>1. m \in MapIds /\ worker[c].type = None /\ worker[c].pc = "trackType"
    BY <1>0, <1>7 DEF TrackType, BaseInv, LocalInv, Addresses
  <2>2. Becomes(c, w) /\ namespaces' = namespaces /\ nsMap' = [nsMap EXCEPT ![m] = t]
    BY <1>7, WorkerChange DEF TrackType, BaseInv
  <2>3. w.name = worker[c].name
    BY <1>0 DEF At, Workers
  <2>4. CASE nsMap[m] # None
    <3>1. nsMap' = nsMap /\ typeMap' = typeMap
      BY <1>0, <1>7, <2>2, <2>4 DEF TrackType
    <3> HIDE DEF w
    <3> QED
      BY <1>4, <1>5, <2>1, <2>2, <2>3, <3>1 DEF Members, Tracking
  <2>5. CASE nsMap[m] = None
    <3>1. /\ nsMap' = [nsMap EXCEPT ![m] = FreshType]
          /\ typeMap' = [typeMap EXCEPT ![FreshType] = {}]
      BY <1>7, <2>5 DEF TrackType
    <3>2. FreshType \in MapIds /\ \A k \in LiveNs : FreshType # nsMap[k]
      BY <2>1, <2>5, FreshTypeIsFresh
    <3>3. CASE m = namespaces
      <4>1. nsMap'[namespaces'] = FreshType /\ typeMap'[FreshType] = {}
        BY <1>0, <2>1, <2>2, <3>1, <3>2, <3>3
      <4>2. Members' = {}
        BY <4>1 DEF Members
      <4> HIDE DEF w
      <4> QED
        BY <1>4, <2>1, <2>2, <2>3, <4>2 DEF Tracking
    <3>4. CASE m # namespaces
      <4>1. nsMap'[namespaces] = nsMap[namespaces]
        BY <1>0, <3>1, <3>4, SMT DEF Addresses
      <4>2. namespaces # None /\ nsMap[namespaces] # None =>
              typeMap'[nsMap[namespaces]] = typeMap[nsMap[namespaces]]
        BY <1>0, <3>1, <3>2 DEF Addresses, LiveNs
      <4>3. Members' = Members
        BY <2>2, <4>1, <4>2 DEF Members
      <4> HIDE DEF w
      <4> QED
        BY <1>4, <1>5, <2>1, <2>2, <2>3, <4>1, <4>3 DEF Tracking
    <3> QED
      BY <3>3, <3>4
  <2> QED
    BY <2>4, <2>5
<1>8. CASE TrackName(c)
  <2>1. /\ Becomes(c, Idle) /\ UNCHANGED <<namespaces, nsMap>> /\ worker[c].pc = "trackName"
        /\ typeMap' = [typeMap EXCEPT ![worker[c].type] = @ \cup {worker[c].name}]
    BY <1>8, WorkerChange DEF TrackName, BaseInv
  <2>2. \A m \in Members' : m \in Members \/ m = worker[c].name
    BY <1>0, <2>1 DEF Members, Addresses
  <2>3. Wanted(c, worker[c].name)
    BY <2>1 DEF MemberInv, Tracking
  <2> QED
    BY <1>4, <1>5, <2>1, <2>2, <2>3 DEF Idle, Tracking
<1>9. CASE UntrackNamespace(c)
  <2>1. CASE namespaces = None
    <3>1. Members' = {} /\ Becomes(c, Idle)
      BY <1>9, <2>1, WorkerChange DEF UntrackNamespace, Members, BaseInv
    <3> QED
      BY <1>4, <3>1 DEF Idle, Tracking
  <2>2. CASE namespaces # None
    <3> DEFINE w == [At(c, "untrackType") EXCEPT !.ns = namespaces]
    <3>1. Becomes(c, w) /\ UNCHANGED heap
      BY <1>9, <2>2, WorkerChange DEF UntrackNamespace, BaseInv
    <3>2. w.pc = "untrackType" /\ w.name = worker[c].name /\ w.ns = namespaces
      BY <1>0 DEF At, Workers
    <3>3. worker'[c] = w
      BY <3>1 DEF Becomes
    <3> HIDE DEF w
    <3>4. \A m : Untracking(c, m) => Untracking(c, m)'
      BY <3>1, <3>2, <3>3 DEF Untracking
    <3> QED
      BY <1>4, <3>1, <3>2, <3>4 DEF Members, Tracking
  <2> QED
    BY <2>1, <2>2
<1>10. CASE UntrackType(c)
  <2>1. UNCHANGED heap /\ worker[c].pc = "untrackType" /\ Members' = Members
    BY <1>10 DEF UntrackType, Members
  <2>2. CASE nsMap[worker[c].ns] = None
    <3>1. Becomes(c, Idle)
      BY <1>10, <2>2, WorkerChange DEF UntrackType, BaseInv
    <3>2. \A m \in Members : ~Untracking(c, m)
      BY <2>1, <2>2 DEF Untracking, Members
    <3> QED
      BY <1>4, <2>1, <3>1, <3>2 DEF Idle, Tracking
  <2>3. CASE nsMap[worker[c].ns] # None
    <3> DEFINE w == [At(c, "untrackName") EXCEPT !.type = nsMap[worker[c].ns]]
    <3>1. Becomes(c, w)
      BY <1>10, <2>3, WorkerChange DEF UntrackType, BaseInv
    <3>2. /\ w.pc = "untrackName" /\ w.name = worker[c].name /\ w.ns = worker[c].ns
          /\ w.type = nsMap[worker[c].ns]
      BY <1>0 DEF At, Workers
    <3>3. worker'[c] = w
      BY <3>1 DEF Becomes
    <3> HIDE DEF w
    <3>4. \A m : Untracking(c, m) => Untracking(c, m)'
      BY <2>1, <3>2, <3>3 DEF Untracking
    <3> QED
      BY <1>4, <2>1, <3>1, <3>2, <3>4 DEF Tracking
  <2> QED
    BY <2>2, <2>3
<1>11. CASE UntrackName(c)
  <2>1. /\ Becomes(c, At(c, "typeEmpty")) /\ UNCHANGED <<namespaces, nsMap>>
        /\ typeMap' = [typeMap EXCEPT ![worker[c].type] = @ \ {worker[c].name}]
        /\ worker[c].pc = "untrackName"
    BY <1>11, WorkerChange DEF UntrackName, BaseInv
  <2>2. Members' \subseteq Members
    BY <1>0, <2>1 DEF Members, Addresses
  <2>3. worker[c].ns = namespaces /\ worker[c].type = nsMap[namespaces]
          => worker[c].name \notin Members'
    BY <1>0, <2>1 DEF Members, Addresses
  <2>4. \A m \in Members' : ~Untracking(c, m)
    BY <2>1, <2>3 DEF Untracking
  <2> QED
    BY <1>1, <1>4, <2>1, <2>2, <2>4 DEF Tracking
<1>12. CASE TypeEmpty(c) \/ NamespaceEmpty(c)
  <2>1. PICK w : Becomes(c, w) /\ w.pc \notin Tracking
    <3>1. \A pc \in Cleaning : At(c, pc).pc \notin Tracking
      BY <1>1 DEF Cleaning, Tracking
    <3>2. Idle.pc \notin Tracking
      BY DEF Idle, Tracking
    <3>3. CASE TypeEmpty(c)
      BY <3>1, <3>3, WorkerChange DEF TypeEmpty, BaseInv, Cleaning
    <3>4. CASE NamespaceEmpty(c)
      BY <3>1, <3>2, <3>4, WorkerChange DEF NamespaceEmpty, BaseInv, Cleaning
    <3> QED
      BY <1>12, <3>3, <3>4
  <2>2. UNCHANGED heap /\ Members' = Members
    BY <1>12 DEF TypeEmpty, NamespaceEmpty, Members
  <2> QED
    BY <1>4, <1>5, <1>12, <2>1, <2>2 DEF TypeEmpty, NamespaceEmpty
<1>13. CASE DeleteType(c)
  <2>1. /\ Becomes(c, At(c, "namespaceEmpty")) /\ UNCHANGED <<namespaces, typeMap>>
        /\ nsMap' = [nsMap EXCEPT ![worker[c].ns] = None] /\ worker[c].pc = "deleteType"
    BY <1>13, WorkerChange DEF DeleteType, BaseInv
  <2>2. CASE worker[c].ns = namespaces
    <3>1. Members' = {}
      BY <1>0, <2>1, <2>2 DEF Members, Addresses
    <3> QED
      BY <1>1, <1>4, <2>1, <3>1 DEF Tracking
  <2>3. CASE worker[c].ns # namespaces
    <3>1. nsMap'[namespaces] = nsMap[namespaces]
      BY <1>0, <2>1, <2>3, SMT DEF Addresses
    <3>2. Members' = Members
      BY <2>1, <3>1, SMT DEF Members
    <3> QED
      BY <1>1, <1>4, <1>5, <2>1, <3>1, <3>2 DEF Tracking
  <2> QED
    BY <2>2, <2>3
<1>14. CASE DeleteNamespace(c)
  <2>1. Becomes(c, Idle) /\ Members' = {}
    BY <1>14, WorkerChange DEF DeleteNamespace, Members, BaseInv
  <2> QED
    BY <1>4, <2>1 DEF Idle, Tracking
<1> QED
  BY <1>6, <1>7, <1>8, <1>9, <1>10, <1>11, <1>12, <1>13, <1>14
  DEF NamespaceTrack, NamespaceUntrack

\* The inductive invariant of the record, whoever uses it
IInv == BaseInv /\ KeepInv /\ MemberInv

\* The first state has no record.
LEMMA InitIInv == Init => IInv
<1>1. Init => KeepInv /\ MemberInv
  BY SMT DEF Init, KeepInv, IsNamespaceTracked, MemberInv, Members, Idle, Tracking
<1> QED
  BY <1>1, InitBase DEF IInv

\* A step of either controller keeps the invariant.
LEMMA NextIInv == IInv /\ [Next]_vars => IInv'
<1> SUFFICES ASSUME IInv, [Next]_vars PROVE IInv'
  OBVIOUS
<1>0. BaseInv'
  BY NextBase DEF IInv
<1>1. ASSUME NEW c \in Controllers, Step(c) PROVE IInv'
  BY <1>0, <1>1, StepKeep, ReconcileMembers, HeapMembers DEF IInv, Step
<1>2. ASSUME NEW c \in Controllers, NEW n \in Owns[c], EditScaler(c, n) PROVE IInv'
  <2>1. /\ Owns' = Owns /\ UNCHANGED <<worker, heap>>
        /\ \A d \in Controllers : \A m \in Owns[d] : Wanted(d, m) => Wanted(d, m)'
    BY <1>2, EditTypes DEF IInv
  <2>2. KeepInv'
    BY <2>1 DEF IInv, KeepInv, IsNamespaceTracked, Members, Responsible, heap
  <2>3. \A d \in Controllers : worker'[d].pc \in Tracking => Wanted(d, worker[d].name)'
    BY <2>1 DEF IInv, MemberInv, Wanted
  <2>4. Members' = Members
    BY <2>1 DEF Members, heap
  <2>5. \A m \in Members : \E d \in Controllers :
          Wanted(d, m)' \/ (m \in Owns'[d] /\ Untracking(d, m)')
    BY <2>1, SMT DEF IInv, MemberInv, Wanted, Untracking, heap
  <2> QED
    BY <1>0, <2>2, <2>3, <2>4, <2>5 DEF IInv, MemberInv
<1>3. CASE UNCHANGED vars
  BY <1>0, <1>3, SMT DEF vars, heap, IInv, KeepInv, IsNamespaceTracked, Members, Responsible,
     MemberInv, Wanted, Waiting, Untracking, Owns
<1> QED
  BY <1>1, <1>2, <1>3 DEF Next

\* Theorem about NamespaceTrack and NamespaceUntrack with their maps shared by
\* two controllers: every step keeps the addresses apart, a record without names
\* has a worker in charge of it, and a recorded name has a controller that
\* still has to do with it.
THEOREM SpecIInv == Spec => []IInv
BY InitIInv, NextIInv, PTL DEF Spec

\* However the operations of the two controllers on the maps interleave, and even
\* if both know scalers of one name, a namespace without a managed scaler is not
\* tracked any more when both have caught up.
THEOREM NothingLeaks == Spec => []NoLeak
<1>1. IInv => NoLeak
  <2> SUFFICES ASSUME IInv, AtRest, IsNamespaceTracked PROVE Managed # {}
    BY DEF NoLeak
  <2>1. \A c \in Controllers : worker[c].pc = "idle" /\ \A n : ~Waiting(c, n)
    BY SMT DEF AtRest, Idle, Waiting
  <2>2. Members # {}
    BY <2>1 DEF IInv, KeepInv, Responsible
  <2>3. PICK n \in Members : TRUE
    BY <2>2
  <2>4. PICK c \in Controllers : Wanted(c, n) \/ (n \in Owns[c] /\ Untracking(c, n))
    BY <2>3 DEF IInv, MemberInv
  <2>5. n \in Owns[c] /\ scaler[c][n] = "managed"
    BY <2>1, <2>4 DEF Wanted, Untracking
  <2>6. n \in Names
    BY <2>5, PopulationAssumption DEF IInv, BaseInv, TypeInv, Owns
  <2> QED
    BY <2>5, <2>6 DEF Managed
<1> QED
  BY <1>1, SpecIInv, PTL

----------------------------------------------------------------------------
(* The HPA controller alone *)

hpa == worker["hpa"]

\* Without KEDA nobody else changes the maps: what the worker holds is what is
\* there, and every managed scaler is recorded or still to be.
SoloInv ==
  ~keda =>
    /\ worker["scaledobject"] = Idle /\ queue["scaledobject"] = <<>>
    /\ hpa.ns # None => hpa.ns = namespaces
    /\ hpa.pc \in {"trackName", "untrackName", "typeEmpty", "deleteType"} =>
         hpa.type = nsMap[namespaces]
    /\ hpa.pc \in Cleaning => hpa.name \notin Members
    /\ hpa.pc \in {"deleteType", "deleteNamespace"} => Members = {}
    /\ hpa.pc \in {"untrackNamespace", "untrackType", "untrackName"}
         /\ scaler["hpa"][hpa.name] = "managed" => Waiting("hpa", hpa.name)
    /\ \A n \in Owns["hpa"] : scaler["hpa"][n] = "managed" =>
         n \in Members \/ Waiting("hpa", n) \/ (hpa.pc \in Tracking /\ hpa.name = n)

\* What the maps hold after each operation of the only worker.
LEMMA SoloMembers ==
  ASSUME IInv, SoloInv, ~keda, Step("hpa")
  PROVE  /\ TrackName("hpa") => Members' = Members \cup {hpa.name}
         /\ UntrackName("hpa") => Members' = Members \ {hpa.name}
         /\ ~TrackName("hpa") /\ ~UntrackName("hpa") => Members' = Members
         /\ TrackNamespace("hpa") => namespaces' # None
         /\ DeleteNamespace("hpa") => namespaces' = None
         /\ ~TrackNamespace("hpa") /\ ~DeleteNamespace("hpa") => namespaces' = namespaces
         /\ ~TrackNamespace("hpa") /\ ~TrackType("hpa") /\ ~DeleteType("hpa") => nsMap' = nsMap
<1> USE DEF heap
<1> DEFINE c == "hpa"
<1>0. /\ hpa \in Workers /\ hpa.ns \in Addresses /\ hpa.type \in Addresses /\ c \in Controllers
      /\ nsMap \in [MapIds -> Addresses] /\ typeMap \in [MapIds -> SUBSET Names]
      /\ namespaces \in Addresses
  BY DEF IInv, BaseInv, TypeInv, Workers, Controllers, hpa
<1>1. /\ hpa.pc \in {"trackType", "trackName", "untrackName", "deleteType"} =>
           hpa.ns = namespaces /\ namespaces \in MapIds
      /\ hpa.pc \in {"trackName", "untrackName"} => hpa.type = nsMap[namespaces] /\ hpa.type \in MapIds
      /\ hpa.pc = "trackType" => hpa.type = None
  BY <1>0 DEF SoloInv, IInv, BaseInv, LocalInv, hpa, Addresses
<1>2. CASE TrackName(c)
  BY <1>0, <1>1, <1>2, NoneAssumption DEF TrackName, UntrackName, TrackNamespace, TrackType,
     DeleteType, DeleteNamespace, Members, hpa
<1>3. CASE UntrackName(c)
  BY <1>0, <1>1, <1>3, NoneAssumption DEF TrackName, UntrackName, TrackNamespace, TrackType,
     DeleteType, DeleteNamespace, Members, hpa
<1>4. CASE TrackNamespace(c)
  <2>1. CASE namespaces # None
    BY <1>4, <2>1 DEF TrackNamespace, DeleteNamespace, TrackName, UntrackName, Members
  <2>2. CASE namespaces = None
    <3>1. FreshNs \in MapIds /\ namespaces' = FreshNs /\ nsMap' = [nsMap EXCEPT ![FreshNs] = None]
      BY <1>4, <2>2, FreshNsIsFresh DEF TrackNamespace
    <3>2. Members' = {} /\ Members = {} /\ namespaces' # None
      BY <1>0, <2>2, <3>1, NoneAssumption DEF Members
    <3> QED
      BY <1>4, <3>2 DEF TrackNamespace, TrackName, UntrackName, DeleteNamespace
  <2> QED
    BY <2>1, <2>2
<1>5. CASE TrackType(c)
  <2>1. /\ hpa.ns = namespaces /\ namespaces \in MapIds /\ namespaces' = namespaces
        /\ hpa.type = None
    BY <1>1, <1>5 DEF TrackType, hpa
  <2>2. CASE nsMap[namespaces] # None
    <3>1. nsMap' = nsMap /\ typeMap' = typeMap
      BY <1>0, <1>5, <2>1, <2>2 DEF TrackType, hpa
    <3>2. Members' = Members
      BY <2>1, <3>1 DEF Members
    <3> QED
      BY <1>5, <2>1, <3>1, <3>2 DEF TrackType, TrackName, UntrackName, TrackNamespace, DeleteNamespace
  <2>3. CASE nsMap[namespaces] = None
    <3>1. FreshType \in MapIds
      BY <1>0, <2>1, <2>3, FreshTypeIsFresh DEF hpa
    <3>2. nsMap'[namespaces] = FreshType /\ typeMap'[FreshType] = {}
      BY <1>0, <1>5, <2>1, <2>3, <3>1 DEF TrackType, hpa
    <3>3. Members' = {} /\ Members = {}
      BY <2>1, <2>3, <3>2 DEF Members
    <3> QED
      BY <1>5, <2>1, <3>3 DEF TrackType, TrackName, UntrackName, TrackNamespace, DeleteNamespace
  <2> QED
    BY <2>2, <2>3
<1>6. CASE DeleteType(c)
  <2>1. hpa.ns = namespaces /\ namespaces \in MapIds /\ Members = {}
    BY <1>1, <1>6 DEF DeleteType, hpa, SoloInv
  <2>2. Members' = {}
    BY <1>0, <1>6, <2>1 DEF DeleteType, Members, hpa
  <2> QED
    BY <1>6, <2>1, <2>2 DEF DeleteType, TrackName, UntrackName, TrackNamespace, DeleteNamespace
<1>7. CASE DeleteNamespace(c)
  <2>1. Members = {} /\ Members' = {}
    BY <1>7 DEF DeleteNamespace, SoloInv, hpa, Members
  <2> QED
    BY <1>7, <2>1 DEF DeleteNamespace, TrackName, UntrackName, TrackNamespace
<1>8. CASE UNCHANGED heap
  <2>1. Members' = Members
    BY <1>8 DEF Members
  <2>2. TrackName(c) \/ UntrackName(c) \/ TrackNamespace(c) \/ DeleteNamespace(c) \/
          (~TrackName(c) /\ ~UntrackName(c) /\ ~TrackNamespace(c) /\ ~DeleteNamespace(c))
    OBVIOUS
  <2> QED
    BY <1>2, <1>3, <1>4, <1>7, <1>8, <2>1, <2>2
<1>9. Reconcile(c) \/ UntrackNamespace(c) \/ UntrackType(c) \/ TypeEmpty(c)
        \/ NamespaceEmpty(c) => UNCHANGED heap
  BY DEF Reconcile, UntrackNamespace, UntrackType, TypeEmpty, NamespaceEmpty
<1> QED
  BY <1>2, <1>3, <1>4, <1>5, <1>6, <1>7, <1>8, <1>9
  DEF Step, NamespaceTrack, NamespaceUntrack

\* Where the worker goes, and what it holds there.
LEMMA SoloWorker ==
  ASSUME IInv, SoloInv, ~keda, Step("hpa")
  PROVE  /\ worker'["scaledobject"] = worker["scaledobject"]
         /\ TrackNamespace("hpa") =>
              hpa'.pc = "trackType" /\ hpa'.name = hpa.name /\ hpa'.ns = namespaces'
         /\ TrackType("hpa") => /\ hpa'.pc = "trackName" /\ hpa'.name = hpa.name
                                /\ hpa'.ns = hpa.ns /\ hpa'.type = nsMap'[hpa.ns]
         /\ UntrackNamespace("hpa") \/ UntrackType("hpa") \/ NamespaceEmpty("hpa") =>
              hpa' = Idle \/ hpa'.name = hpa.name
         /\ UntrackNamespace("hpa") /\ hpa' # Idle =>
              hpa'.pc = "untrackType" /\ hpa'.ns = namespaces
         /\ UntrackType("hpa") /\ hpa' # Idle =>
              hpa'.pc = "untrackName" /\ hpa'.ns = hpa.ns /\ hpa'.type = nsMap[hpa.ns]
         /\ UntrackName("hpa") => hpa' = At("hpa", "typeEmpty")
         /\ TypeEmpty("hpa") => hpa' = IF typeMap[hpa.type] = {} THEN At("hpa", "deleteType")
                                       ELSE At("hpa", "namespaceEmpty")
         /\ DeleteType("hpa") => hpa' = At("hpa", "namespaceEmpty")
         /\ NamespaceEmpty("hpa") => hpa' = IF nsMap[hpa.ns] = None
                                            THEN At("hpa", "deleteNamespace") ELSE Idle
         /\ TrackName("hpa") \/ DeleteNamespace("hpa") => hpa' = Idle
<1> DEFINE c == "hpa"
<1>0. hpa \in Workers /\ c \in Controllers /\ TypeInv /\ "scaledobject" \in Controllers
  BY DEF IInv, BaseInv, TypeInv, Controllers, hpa
<1>1. \A w : Becomes(c, w) => hpa' = w /\ worker'["scaledobject"] = worker["scaledobject"]
  BY <1>0 DEF Becomes, hpa
<1>2. \E w : Becomes(c, w)
  <2>1. CASE Reconcile(c)
    BY <1>0, <2>1 DEF Reconcile, Becomes, TypeInv
  <2> QED
    BY <1>0, <2>1, WorkerChange DEF Step, NamespaceTrack, NamespaceUntrack, TrackName, UntrackNamespace,
       UntrackType, UntrackName, TypeEmpty, DeleteType, NamespaceEmpty, DeleteNamespace
<1>3. TrackNamespace(c) =>
        hpa'.pc = "trackType" /\ hpa'.name = hpa.name /\ hpa'.ns = namespaces'
  <2> SUFFICES ASSUME TrackNamespace(c)
               PROVE  hpa'.pc = "trackType" /\ hpa'.name = hpa.name /\ hpa'.ns = namespaces'
    OBVIOUS
  <2>1. hpa' = [At(c, "trackType") EXCEPT !.ns = namespaces']
    BY <1>0, <1>1, WorkerChange DEF TrackNamespace
  <2> QED
    BY <1>0, <2>1 DEF At, Workers, hpa
<1>4. TrackType(c) => /\ hpa'.pc = "trackName" /\ hpa'.name = hpa.name
                      /\ hpa'.ns = hpa.ns /\ hpa'.type = nsMap'[hpa.ns]
  <2> SUFFICES ASSUME TrackType(c)
               PROVE  /\ hpa'.pc = "trackName" /\ hpa'.name = hpa.name
                      /\ hpa'.ns = hpa.ns /\ hpa'.type = nsMap'[hpa.ns]
    OBVIOUS
  <2> DEFINE t == IF nsMap[hpa.ns] # None THEN nsMap[hpa.ns] ELSE FreshType
  <2>1. hpa' = [At(c, "trackName") EXCEPT !.type = t]
    BY <1>0, <1>1, WorkerChange DEF hpa
  <2>2. nsMap' = [nsMap EXCEPT ![hpa.ns] = t] /\ hpa.ns \in MapIds
    BY <1>0 DEF TrackType, hpa, IInv, BaseInv, LocalInv, Workers, Addresses
  <2> HIDE DEF t
  <2>3. nsMap'[hpa.ns] = t
    BY <1>0, <2>2 DEF TypeInv
  <2> QED
    BY <1>0, <2>1, <2>3 DEF At, Workers, hpa
<1>5. UntrackNamespace(c) => \/ hpa' = Idle
                             \/ /\ hpa'.name = hpa.name /\ hpa'.pc = "untrackType"
                                /\ hpa'.ns = namespaces
  <2>1. UntrackNamespace(c) =>
          hpa' = Idle \/ hpa' = [At(c, "untrackType") EXCEPT !.ns = namespaces]
    BY <1>0, <1>1, WorkerChange DEF UntrackNamespace
  <2> QED
    BY <1>0, <2>1 DEF At, Workers, hpa
<1>6. UntrackType(c) => \/ hpa' = Idle
                        \/ /\ hpa'.name = hpa.name /\ hpa'.pc = "untrackName"
                           /\ hpa'.ns = hpa.ns /\ hpa'.type = nsMap[hpa.ns]
  <2>1. UntrackType(c) =>
          hpa' = Idle \/ hpa' = [At(c, "untrackName") EXCEPT !.type = nsMap[hpa.ns]]
    BY <1>0, <1>1, WorkerChange DEF UntrackType, hpa
  <2> QED
    BY <1>0, <2>1 DEF At, Workers, hpa
<1>7. NamespaceEmpty(c) => hpa' = IF nsMap[hpa.ns] = None THEN At(c, "deleteNamespace") ELSE Idle
  BY <1>0, <1>1, WorkerChange DEF NamespaceEmpty, hpa
<1>8. /\ UntrackName(c) => hpa' = At(c, "typeEmpty")
      /\ DeleteType(c) => hpa' = At(c, "namespaceEmpty")
      /\ TrackName(c) \/ DeleteNamespace(c) => hpa' = Idle
  BY <1>0, <1>1, WorkerChange DEF UntrackName, DeleteType, TrackName, DeleteNamespace
<1>9. TypeEmpty(c) => hpa' = IF typeMap[hpa.type] = {} THEN At(c, "deleteType")
                             ELSE At(c, "namespaceEmpty")
  BY <1>0, <1>1, WorkerChange DEF TypeEmpty, hpa
<1>10. At(c, "deleteNamespace").name = hpa.name
  BY <1>0 DEF At, Workers, hpa
<1> QED
  BY <1>1, <1>2, <1>3, <1>4, <1>5, <1>6, <1>7, <1>8, <1>9, <1>10

\* The only worker's operations find the maps as it left them.
LEMMA SoloStep == ASSUME IInv, SoloInv, ~keda, Step("hpa") PROVE SoloInv'
<1> USE DEF heap
<1> DEFINE c == "hpa"
<1>0. /\ worker["scaledobject"] = Idle /\ worker'["scaledobject"] = Idle
      /\ queue'["scaledobject"] = <<>>
  <2>1. worker["scaledobject"] = Idle /\ worker'["scaledobject"] = Idle
    BY SoloWorker DEF SoloInv
  <2>2. CASE Reconcile(c)
    BY <2>1, <2>2 DEF SoloInv, Reconcile, IInv, BaseInv, TypeInv, Controllers
  <2>3. CASE queue' = queue
    BY <2>1, <2>3 DEF SoloInv
  <2> QED
    BY <2>2, <2>3 DEF Step, NamespaceTrack, TrackNamespace, TrackType,
     TrackName, NamespaceUntrack, UntrackNamespace, UntrackType, UntrackName, TypeEmpty,
     DeleteType, NamespaceEmpty, DeleteNamespace
<1>1. /\ hpa \in Workers /\ c \in Controllers /\ c # "scaledobject" /\ Idle.pc = "idle"
      /\ Idle.ns = None
      /\ \A pc : /\ At(c, pc).pc = pc /\ At(c, pc).name = hpa.name
                 /\ At(c, pc).ns = hpa.ns /\ At(c, pc).type = hpa.type
  BY DEF IInv, BaseInv, TypeInv, Controllers, hpa, At, Workers, Idle
<1>2. ASSUME hpa'.ns # None => hpa'.ns = namespaces',
             hpa'.pc \in {"trackName", "untrackName", "typeEmpty", "deleteType"} =>
               hpa'.type = nsMap'[namespaces'],
             hpa'.pc \in Cleaning => hpa'.name \notin Members',
             hpa'.pc \in {"deleteType", "deleteNamespace"} => Members' = {},
             UNCHANGED <<keda, scaler, queue>>,
             hpa'.pc \in {"untrackNamespace", "untrackType", "untrackName"} =>
               /\ hpa.pc \in {"untrackNamespace", "untrackType", "untrackName"}
               /\ hpa'.name = hpa.name,
             \A n \in Members : n \in Members' \/
               (hpa.pc = "untrackName" /\ n = hpa.name),
             hpa.pc \in Tracking =>
               hpa.name \in Members' \/ (hpa'.pc \in Tracking /\ hpa'.name = hpa.name)
      PROVE  SoloInv'
  <2>1. Owns' = Owns /\ \A n : Waiting(c, n)' <=> Waiting(c, n)
    BY <1>2 DEF Owns, Waiting
  <2>2. hpa'.pc \in {"untrackNamespace", "untrackType", "untrackName"}
          /\ scaler[c][hpa'.name] = "managed" => Waiting(c, hpa'.name)
    BY <1>2 DEF SoloInv
  <2>3. hpa'.pc \in {"untrackNamespace", "untrackType", "untrackName"}
          /\ scaler'[c][hpa'.name] = "managed" => Waiting(c, hpa.name)'
    BY <1>2, <2>1, <2>2
  <2>4. \A n \in Owns'[c] : scaler'[c][n] = "managed" =>
          n \in Members' \/ Waiting(c, n)' \/ (hpa'.pc \in Tracking /\ hpa'.name = n)
    BY <1>2, <2>1 DEF SoloInv
  <2> QED
    BY <1>0, <1>2, <2>3, <2>4 DEF SoloInv
<1>3. CASE Reconcile(c)
  <2> DEFINE m == Head(queue[c])
             w == [Idle EXCEPT !.pc = IF scaler[c][m] = "managed"
                                      THEN "trackNamespace" ELSE "untrackNamespace",
                               !.name = m]
  <2>1. m \in Owns[c]
    BY <1>1, <1>3, QueueStep DEF Reconcile, IInv, BaseInv
  <2>2. hpa' = w
    BY <1>1, <1>3 DEF Reconcile, IInv, BaseInv, TypeInv, hpa
  <2>3. /\ hpa'.ns = None /\ hpa'.name = m
        /\ hpa'.pc = IF scaler[c][m] = "managed" THEN "trackNamespace" ELSE "untrackNamespace"
    BY <2>2 DEF Idle
  <2> HIDE DEF w
  <2>4. \A n : Waiting(c, n) => Waiting(c, n)' \/ n = m
    <3> SUFFICES ASSUME NEW n, Waiting(c, n), n # m PROVE Waiting(c, n)'
      OBVIOUS
    <3>1. queue[c] \in Seq(Owns[c]) /\ queue[c] # <<>> /\ queue'[c] = Tail(queue[c])
      BY <1>1, <1>3 DEF Reconcile, IInv, BaseInv, TypeInv
    <3>2. PICK i \in 1..Len(queue[c]) : queue[c][i] = n
      BY <3>1, SMT DEF Waiting
    <3>3. i # 1
      BY <3>1, <3>2, SMT
    <3>4. i - 1 \in DOMAIN queue'[c] /\ queue'[c][i - 1] = n
      BY <3>1, <3>2, <3>3, SMT
    <3> QED
      BY <3>4 DEF Waiting
  <2> HIDE DEF m
  <2>5. /\ Owns' = Owns /\ scaler' = scaler /\ Members' = Members
        /\ hpa.pc = "idle"
    BY <1>3 DEF Reconcile, Owns, Members, hpa
  <2>6. \A n \in Owns'[c] : scaler'[c][n] = "managed" =>
          n \in Members' \/ Waiting(c, n)' \/ (hpa'.pc \in Tracking /\ hpa'.name = n)
    BY <2>3, <2>4, <2>5 DEF SoloInv, Tracking
  <2>7. hpa'.pc \in {"trackNamespace", "untrackNamespace"}
          /\ (hpa'.pc = "untrackNamespace" => scaler'[c][hpa'.name] # "managed")
    BY <2>3, <2>5
  <2> QED
    BY <1>0, <2>3, <2>6, <2>7 DEF SoloInv, Cleaning
<1>4. CASE TrackNamespace(c)
  BY <1>2, <1>4, SoloWorker, SoloMembers
  DEF TrackNamespace, UntrackName, TrackName, hpa, Cleaning, Tracking
<1>5. CASE TrackType(c)
  <2>1. hpa.pc = "trackType" /\ hpa.ns = namespaces /\ namespaces' = namespaces
    BY <1>1, <1>5 DEF TrackType, hpa, IInv, BaseInv, LocalInv, SoloInv
  <2>2. Members' = Members
    BY <1>5, <2>1, SoloMembers DEF TrackName, UntrackName, hpa
  <2> QED
    BY <1>2, <1>5, <2>1, <2>2, SoloWorker DEF TrackType, Cleaning, Tracking
<1>6. CASE TrackName(c)
  <2>1. hpa' = Idle /\ Members' = Members \cup {hpa.name} /\ hpa.pc = "trackName"
    BY <1>6, SoloWorker, SoloMembers DEF TrackName, hpa
  <2> QED
    BY <1>1, <1>2, <1>6, <2>1 DEF TrackName, Cleaning, Tracking
<1>7. CASE UntrackNamespace(c)
  <2>1. hpa.pc = "untrackNamespace" /\ UNCHANGED <<namespaces, nsMap>> /\ Members' = Members
    BY <1>7 DEF UntrackNamespace, hpa, Members
  <2> QED
    BY <1>1, <1>2, <1>7, <2>1, SoloWorker DEF UntrackNamespace, Cleaning, Tracking
<1>8. CASE UntrackType(c)
  <2>1. hpa.pc = "untrackType" /\ UNCHANGED <<namespaces, nsMap>> /\ Members' = Members
    BY <1>8 DEF UntrackType, hpa, Members
  <2>2. hpa.ns = namespaces
    BY <1>1, <2>1 DEF SoloInv, IInv, BaseInv, LocalInv, hpa
  <2> QED
    BY <1>1, <1>2, <1>8, <2>1, <2>2, SoloWorker DEF UntrackType, Cleaning, Tracking
<1>9. CASE UntrackName(c)
  <2>1. hpa' = At(c, "typeEmpty") /\ Members' = Members \ {hpa.name} /\ hpa.pc = "untrackName"
        /\ UNCHANGED <<namespaces, nsMap>>
    BY <1>9, SoloWorker, SoloMembers DEF UntrackName, hpa
  <2>2. hpa.ns # None => hpa.ns = namespaces
    BY DEF SoloInv
  <2>3. hpa.type = nsMap[namespaces]
    BY <2>1 DEF SoloInv
  <2> QED
    BY <1>1, <1>2, <1>9, <2>1, <2>2, <2>3 DEF UntrackName, Cleaning, Tracking
<1>10. CASE TypeEmpty(c)
  <2>1. /\ hpa.pc = "typeEmpty" /\ UNCHANGED <<namespaces, nsMap, typeMap>> /\ Members' = Members
        /\ hpa' = IF typeMap[hpa.type] = {} THEN At(c, "deleteType") ELSE At(c, "namespaceEmpty")
    BY <1>10, SoloWorker DEF TypeEmpty, hpa, Members
  <2>2. /\ hpa.ns # None => hpa.ns = namespaces
        /\ hpa.type = nsMap[namespaces] /\ hpa.name \notin Members
    BY <2>1 DEF SoloInv, Cleaning
  <2>3. typeMap[hpa.type] = {} => Members = {}
    BY <2>2 DEF Members
  <2> QED
    BY <1>1, <1>2, <1>10, <2>1, <2>2, <2>3 DEF TypeEmpty, Cleaning, Tracking
<1>11. CASE DeleteType(c)
  <2>1. /\ hpa.pc = "deleteType" /\ namespaces' = namespaces
        /\ hpa' = At(c, "namespaceEmpty")
    BY <1>11, SoloWorker DEF DeleteType, hpa
  <2>2. Members' = Members
    BY <1>11, <2>1, SoloMembers DEF TrackName, UntrackName, hpa
  <2>3. hpa.ns # None => hpa.ns = namespaces
    BY DEF SoloInv
  <2>4. hpa.name \notin Members
    BY <2>1 DEF SoloInv, Cleaning
  <2> QED
    BY <1>1, <1>2, <1>11, <2>1, <2>2, <2>3, <2>4 DEF DeleteType, Cleaning, Tracking
<1>12. CASE NamespaceEmpty(c)
  <2>1. /\ hpa.pc = "namespaceEmpty" /\ UNCHANGED <<namespaces, nsMap, typeMap>> /\ Members' = Members
        /\ hpa' = IF nsMap[hpa.ns] = None THEN At(c, "deleteNamespace") ELSE Idle
    BY <1>12, SoloWorker DEF NamespaceEmpty, hpa, Members
  <2>2. hpa.ns = namespaces /\ hpa.name \notin Members
    BY <1>1, <2>1 DEF SoloInv, IInv, BaseInv, LocalInv, hpa, Cleaning
  <2>3. nsMap[hpa.ns] = None => Members = {}
    BY <2>2 DEF Members
  <2> QED
    BY <1>1, <1>2, <1>12, <2>1, <2>2, <2>3 DEF NamespaceEmpty, Cleaning, Tracking
<1>13. CASE DeleteNamespace(c)
  <2>1. hpa' = Idle /\ hpa.pc = "deleteNamespace"
    BY <1>13, SoloWorker DEF DeleteNamespace, hpa
  <2>2. Members' = Members
    BY <1>13, <2>1, SoloMembers DEF TrackName, UntrackName, hpa
  <2> QED
    BY <1>1, <1>2, <1>13, <2>1, <2>2 DEF DeleteNamespace, Cleaning, Tracking
<1> QED
  BY <1>3, <1>4, <1>5, <1>6, <1>7, <1>8, <1>9, <1>10, <1>11, <1>12, <1>13
  DEF Step, NamespaceTrack, NamespaceUntrack

\* One controller alone has recorded nothing at first.
LEMMA InitSolo == Init => SoloInv
BY SMT DEF Init, SoloInv, hpa, Idle, Controllers, Owns, Cleaning

\* One controller alone finds its maps as it left them.
LEMMA NextSolo == IInv /\ SoloInv /\ [Next]_vars => SoloInv'
<1> SUFFICES ASSUME IInv, SoloInv, [Next]_vars, ~keda' PROVE SoloInv'
  BY DEF SoloInv
<1> USE DEF heap
<1>0. keda' = keda
  BY DEF Next, Step, Reconcile, NamespaceTrack, TrackNamespace, TrackType,
     TrackName, NamespaceUntrack, UntrackNamespace, UntrackType, UntrackName, TypeEmpty,
     DeleteType, NamespaceEmpty, DeleteNamespace, EditScaler, vars
<1>1. /\ worker["scaledobject"].pc = "idle" /\ queue["scaledobject"] = <<>>
      /\ Owns["scaledobject"] = {}
  <2>1. keda = FALSE
    BY <1>0 DEF IInv, BaseInv, TypeInv
  <2>2. Owns["scaledobject"] = {}
    BY <2>1, PopulationAssumption DEF Owns
  <2>3. worker["scaledobject"] = Idle /\ queue["scaledobject"] = <<>>
    BY <1>0 DEF SoloInv
  <2> QED
    BY <2>2, <2>3, SMT DEF Idle
<1>2. ASSUME NEW c \in Controllers, Step(c) PROVE c = "hpa"
  BY <1>1, <1>2 DEF Step, Reconcile, NamespaceTrack, TrackNamespace, TrackType,
     TrackName, NamespaceUntrack, UntrackNamespace, UntrackType, UntrackName, TypeEmpty,
     DeleteType, NamespaceEmpty, DeleteNamespace, Controllers
<1>3. ASSUME NEW c \in Controllers, NEW n \in Owns[c], EditScaler(c, n) PROVE SoloInv'
  <2>1. c = "hpa"
    BY <1>1 DEF Controllers
  <2>2. PICK new \in States :
          /\ scaler' = [scaler EXCEPT !["hpa"][n] = new]
          /\ queue' = IF AnnotatedScalerPredicate(scaler["hpa"][n], new) /\ ~Waiting("hpa", n)
                      THEN [queue EXCEPT !["hpa"] = Append(@, n)] ELSE queue
    BY <1>3, <2>1 DEF EditScaler, States
  <2>3. UNCHANGED <<worker, heap>> /\ Owns' = Owns /\ hpa' = hpa /\ Members' = Members
    BY <1>3 DEF EditScaler, Owns, hpa, Members
  <2>4. queue'["scaledobject"] = <<>>
    BY <1>1, <2>2 DEF IInv, BaseInv, TypeInv, Controllers
  <2>5. \A m : Waiting("hpa", m) => Waiting("hpa", m)'
    <3> SUFFICES ASSUME NEW m, Waiting("hpa", m) PROVE Waiting("hpa", m)'
      OBVIOUS
    <3>1. queue["hpa"] \in Seq(Owns["hpa"])
      BY DEF IInv, BaseInv, TypeInv, Controllers
    <3>2. CASE queue' = queue
      BY <3>2 DEF Waiting
    <3>3. CASE queue' = [queue EXCEPT !["hpa"] = Append(@, n)]
      <4>1. queue'["hpa"] = Append(queue["hpa"], n)
        BY <3>3 DEF IInv, BaseInv, TypeInv, Controllers
      <4>2. PICK i \in DOMAIN queue["hpa"] : queue["hpa"][i] = m
        BY DEF Waiting
      <4>3. i \in DOMAIN queue'["hpa"] /\ queue'["hpa"][i] = m
        BY <2>1, <3>1, <4>1, <4>2, SMT
      <4> QED
        BY <4>3 DEF Waiting
    <3> QED
      BY <2>2, <3>2, <3>3
  <2>6. new = "managed" => Waiting("hpa", n)'
    <3> SUFFICES ASSUME new = "managed", ~Waiting("hpa", n) PROVE Waiting("hpa", n)'
      BY <2>5
    <3>1. queue["hpa"] \in Seq(Owns["hpa"]) /\ queue'["hpa"] = Append(queue["hpa"], n)
      BY <2>2 DEF IInv, BaseInv, TypeInv, Controllers, AnnotatedScalerPredicate, IsManaged
    <3>2. Len(queue["hpa"]) + 1 \in DOMAIN queue'["hpa"] /\ queue'["hpa"][Len(queue["hpa"]) + 1] = n
      BY <2>1, <3>1, SMT
    <3> QED
      BY <3>2 DEF Waiting
  <2>7. /\ scaler'["hpa"][n] = new
        /\ \A m \in Owns["hpa"] : m # n => scaler'["hpa"][m] = scaler["hpa"][m]
    BY <2>1, <2>2 DEF IInv, BaseInv, TypeInv, Controllers
  <2>8. hpa.pc # "idle" => hpa.name \in Owns["hpa"]
    BY DEF IInv, BaseInv, LocalInv, hpa, Controllers
  <2>9. hpa.pc \in {"untrackNamespace", "untrackType", "untrackName"}
          /\ scaler'["hpa"][hpa.name] = "managed" => Waiting("hpa", hpa.name)'
    <3> SUFFICES ASSUME hpa.pc \in {"untrackNamespace", "untrackType", "untrackName"},
                        scaler'["hpa"][hpa.name] = "managed"
                 PROVE  Waiting("hpa", hpa.name)'
      OBVIOUS
    <3>1. CASE hpa.name = n
      BY <2>3, <2>6, <2>7, <3>1
    <3>2. CASE hpa.name # n
      BY <1>0, <2>3, <2>5, <2>7, <2>8, <3>2 DEF SoloInv
    <3> QED
      BY <3>1, <3>2
  <2>10. \A m \in Owns'["hpa"] : scaler'["hpa"][m] = "managed" =>
          m \in Members' \/ Waiting("hpa", m)' \/ (hpa'.pc \in Tracking /\ hpa'.name = m)
    BY <1>0, <2>3, <2>5, <2>6, <2>7 DEF SoloInv
  <2> QED
    BY <1>0, <2>3, <2>4, <2>9, <2>10 DEF SoloInv
<1>4. CASE UNCHANGED vars
  BY <1>4 DEF vars, SoloInv, hpa, Members, Waiting, Owns
<1> QED
  BY <1>0, <1>2, <1>3, <1>4, SoloStep DEF Next

\* Theorem about a manager without KEDA: the one controller that is left never
\* holds a map that has been replaced, removes a map only when it is empty, and
\* every managed scaler is recorded or about to be.
THEOREM SpecSolo == Spec => [](IInv /\ SoloInv)
<1>1. Init => IInv /\ SoloInv
  BY InitIInv, InitSolo
<1>2. IInv /\ SoloInv /\ [Next]_vars => (IInv /\ SoloInv)'
  BY NextIInv, NextSolo
<1> QED
  BY <1>1, <1>2, PTL DEF Spec

\* Where ScaledObjects are not watched the namespace is tracked exactly when it
\* holds a managed HPA, once the HPA controller has caught up: what two
\* controllers can break, one cannot.
THEOREM AloneTracksManaged == Spec => [](~keda => TrackedIffManaged)
<1>1. IInv /\ SoloInv => (~keda => TrackedIffManaged)
  <2> SUFFICES ASSUME IInv, SoloInv, ~keda, AtRest PROVE IsNamespaceTracked <=> Managed # {}
    BY DEF TrackedIffManaged
  <2>1. \A c \in Controllers : worker[c].pc = "idle" /\ \A n : ~Waiting(c, n)
    BY SMT DEF AtRest, Idle, Waiting
  <2>2. ASSUME IsNamespaceTracked PROVE Managed # {}
    <3>1. Members # {}
      BY <2>1, <2>2 DEF IInv, KeepInv, Responsible
    <3>2. PICK n \in Members : TRUE
      BY <3>1
    <3>3. PICK c \in Controllers : n \in Owns[c] /\ scaler[c][n] = "managed"
      BY <2>1, <3>2 DEF IInv, MemberInv, Wanted, Untracking
    <3>4. n \in Names
      BY <3>3, PopulationAssumption DEF IInv, BaseInv, TypeInv, Owns
    <3> QED
      BY <3>3, <3>4 DEF Managed
  <2>3. ASSUME NEW n \in Managed PROVE IsNamespaceTracked
    <3>1. PICK c \in Controllers : n \in Owns[c] /\ scaler[c][n] = "managed"
      BY DEF Managed
    <3>2. keda = FALSE
      BY DEF IInv, BaseInv, TypeInv
    <3>3. c = "hpa"
      BY <3>1, <3>2, PopulationAssumption DEF Controllers, Owns
    <3>4. n \in Members
      BY <2>1, <3>1, <3>3 DEF SoloInv, hpa, Tracking
    <3> QED
      BY <3>4 DEF Members, IsNamespaceTracked
  <2> QED
    BY <2>2, <2>3
<1> QED
  BY <1>1, SpecSolo, PTL

----------------------------------------------------------------------------
(* The HPA controller alone implements TrackedNamespace *)

\* What one worker adds to the record and takes from it.
LEMMA SoloRecorded ==
  ASSUME worker["scaledobject"] = Idle
  PROVE  /\ Arriving = IF hpa.pc \in {"trackType", "trackName"} THEN {hpa.name} ELSE {}
         /\ Leaving = IF hpa.pc \in Cleaning THEN {hpa.name} ELSE {}
BY SMT DEF Arriving, Leaving, Controllers, Idle, hpa, Cleaning

\* A step of the worker is a Track, an Untrack or no change of the record.
LEMMA SoloPromise ==
  ASSUME IInv, SoloInv, ~keda, Step("hpa"), SoloInv', ~keda'
  PROVE  \/ Recorded' = Recorded /\ (IsNamespaceTracked' <=> IsNamespaceTracked)
         \/ \E n \in Names : Recorded' = Recorded \cup {n} /\ IsNamespaceTracked'
         \/ \E n \in Names : /\ Recorded' = Recorded \ {n}
                             /\ IsNamespaceTracked' <=> Recorded' # {}
<1> USE DEF IsNamespaceTracked
<1> DEFINE c == "hpa"
<1>0. /\ Arriving = IF hpa.pc \in {"trackType", "trackName"} THEN {hpa.name} ELSE {}
      /\ Leaving = IF hpa.pc \in Cleaning THEN {hpa.name} ELSE {}
  BY SoloRecorded DEF SoloInv
<1>1. /\ Arriving' = IF hpa'.pc \in {"trackType", "trackName"} THEN {hpa'.name} ELSE {}
      /\ Leaving' = IF hpa'.pc \in Cleaning THEN {hpa'.name} ELSE {}
  <2>1. worker'["scaledobject"] = Idle
    BY DEF SoloInv
  <2> QED
    BY <2>1, SMT DEF Arriving, Leaving, Controllers, Idle, hpa, Cleaning
<1>2. hpa.pc # "idle" => hpa.name \in Names
  BY PopulationAssumption DEF IInv, BaseInv, LocalInv, TypeInv, hpa, Controllers, Owns
<1>3. /\ hpa \in Workers /\ c \in Controllers /\ Idle.pc = "idle"
      /\ \A pc : At(c, pc).pc = pc /\ At(c, pc).name = hpa.name
  BY DEF IInv, BaseInv, TypeInv, Controllers, hpa, At, Workers, Idle
<1>4. namespaces # None /\ Members = {} =>
        hpa.pc \in {"trackType", "trackName"} \cup Cleaning
          /\ (hpa.pc = "namespaceEmpty" => nsMap[hpa.ns] = None)
  BY SMT DEF IInv, KeepInv, Responsible, SoloInv, Idle, Controllers, hpa, Cleaning
<1>5. namespaces = None => Members = {}
  BY DEF Members
<1>6. CASE Reconcile(c)
  <2>1. hpa.pc = "idle" /\ UNCHANGED <<namespaces, nsMap, typeMap>>
    BY <1>6 DEF Reconcile, hpa, heap
  <2>2. hpa'.pc \in {"trackNamespace", "untrackNamespace"}
    BY <1>3, <1>6 DEF Reconcile, hpa, Idle, IInv, BaseInv, TypeInv
  <2>3. Arriving = {} /\ Leaving = {} /\ Arriving' = {} /\ Leaving' = {}
    BY <1>0, <1>1, <2>1, <2>2 DEF Cleaning
  <2>4. Members' = Members
    BY <2>1 DEF Members
  <2> QED
    BY <2>1, <2>3, <2>4 DEF Recorded
<1>7. CASE TrackNamespace(c)
  <2>1. hpa.pc = "trackNamespace" /\ hpa'.pc = "trackType" /\ hpa'.name = hpa.name
    BY <1>7, SoloWorker DEF TrackNamespace, hpa
  <2>2. Members' = Members /\ namespaces' # None
    BY <1>7, <2>1, SoloMembers DEF TrackName, UntrackName, hpa
  <2>3. Arriving = {} /\ Leaving = {} /\ Arriving' = {hpa.name}
    BY <1>0, <1>1, <2>1 DEF Cleaning
  <2>4. Recorded' = Recorded \cup {hpa.name}
    BY <2>2, <2>3 DEF Recorded
  <2> QED
    BY <1>2, <2>1, <2>2, <2>4
<1>8. CASE TrackType(c)
  <2>1. hpa.pc = "trackType" /\ hpa'.pc = "trackName" /\ hpa'.name = hpa.name
    BY <1>8, SoloWorker DEF TrackType, hpa
  <2>2. Members' = Members /\ namespaces' = namespaces
    BY <1>8, <2>1, SoloMembers DEF TrackType, TrackName, UntrackName, hpa
  <2>3. Arriving = {hpa.name} /\ Arriving' = {hpa.name}
    BY <1>0, <1>1, <2>1
  <2> QED
    BY <2>2, <2>3 DEF Recorded
<1>9. CASE TrackName(c)
  <2>1. hpa.pc = "trackName" /\ hpa'.pc = "idle"
    BY <1>3, <1>9, SoloWorker DEF TrackName, hpa
  <2>2. Members' = Members \cup {hpa.name} /\ namespaces' = namespaces
    BY <1>9, SoloMembers DEF TrackName
  <2>3. Arriving = {hpa.name} /\ Arriving' = {}
    BY <1>0, <1>1, <2>1
  <2> QED
    BY <2>2, <2>3 DEF Recorded
<1>10. CASE UntrackNamespace(c) \/ UntrackType(c)
  <2>1. /\ hpa.pc \in {"untrackNamespace", "untrackType"}
        /\ hpa'.pc \in {"idle", "untrackType", "untrackName"}
    BY <1>3, <1>10, SoloWorker DEF UntrackNamespace, UntrackType, hpa
  <2>2. Members' = Members /\ namespaces' = namespaces
    BY <1>10 DEF UntrackNamespace, UntrackType, Members, heap
  <2>3. Arriving = {} /\ Leaving = {} /\ Arriving' = {} /\ Leaving' = {}
    BY <1>0, <1>1, <2>1 DEF Cleaning
  <2> QED
    BY <2>2, <2>3 DEF Recorded
<1>11. CASE UntrackName(c)
  <2>1. hpa.pc = "untrackName" /\ hpa'.pc = "typeEmpty" /\ hpa'.name = hpa.name
    BY <1>3, <1>11, SoloWorker DEF UntrackName, hpa
  <2>2. Members' = Members \ {hpa.name} /\ namespaces' = namespaces
    BY <1>11, SoloMembers DEF UntrackName
  <2>3. Arriving = {} /\ Leaving = {} /\ Arriving' = {} /\ Leaving' = {hpa.name}
    BY <1>0, <1>1, <2>1 DEF Cleaning
  <2>4. namespaces # None /\ Members # {}
    <3>1. hpa.ns # None
      BY <2>1 DEF IInv, BaseInv, LocalInv, hpa, Controllers
    <3> QED
      BY <1>4, <2>1, <3>1 DEF SoloInv, Cleaning
  <2>5. CASE Members \ {hpa.name} = {}
    BY <2>2, <2>3, <2>4, <2>5, SMT DEF Recorded
  <2>6. CASE Members \ {hpa.name} # {}
    <3>1. Recorded' = Recorded \ {hpa.name} /\ Recorded' # {}
      BY <2>2, <2>3, <2>4, <2>6 DEF Recorded
    <3> QED
      BY <1>2, <2>1, <2>2, <2>4, <3>1
  <2> QED
    BY <2>5, <2>6
<1>12. CASE TypeEmpty(c) \/ DeleteType(c)
  <2>1. /\ hpa.pc \in Cleaning /\ hpa'.pc \in Cleaning /\ hpa'.name = hpa.name
        /\ hpa.pc \in {"typeEmpty", "deleteType"}
    BY <1>3, <1>12, SoloWorker, SMT DEF TypeEmpty, DeleteType, hpa, Cleaning
  <2>2. Members' = Members /\ namespaces' = namespaces
    BY <1>12, <2>1, SoloMembers DEF TypeEmpty, DeleteType, TrackName, UntrackName, hpa, heap
  <2>3. Arriving = {} /\ Leaving = {hpa.name} /\ Arriving' = {} /\ Leaving' = {hpa.name}
    BY <1>0, <1>1, <2>1 DEF Cleaning
  <2> QED
    BY <2>2, <2>3 DEF Recorded
<1>13. CASE NamespaceEmpty(c)
  <2>1. /\ hpa.pc = "namespaceEmpty" /\ namespaces' = namespaces /\ Members' = Members
        /\ hpa' = IF nsMap[hpa.ns] = None THEN At(c, "deleteNamespace") ELSE Idle
    BY <1>13, SoloWorker DEF NamespaceEmpty, hpa, heap, Members
  <2>2. namespaces # None
    BY <2>1 DEF IInv, BaseInv, LocalInv, hpa, Controllers, SoloInv
  <2>3. Arriving = {} /\ Leaving = {hpa.name} /\ Arriving' = {}
    BY <1>0, <1>1, <1>3, <2>1 DEF Cleaning
  <2>4. Members # {} \/ Leaving' = {hpa.name}
    BY <1>1, <1>3, <1>4, <2>1, <2>2 DEF Cleaning
  <2> QED
    BY <2>1, <2>3, <2>4 DEF Recorded
<1>14. CASE DeleteNamespace(c)
  <2>1. hpa.pc = "deleteNamespace" /\ hpa'.pc = "idle" /\ namespaces' = None
    BY <1>3, <1>14, SoloWorker DEF DeleteNamespace, hpa
  <2>2. Members = {} /\ Members' = {}
    BY <2>1 DEF SoloInv, Members
  <2>3. Arriving = {} /\ Leaving = {hpa.name} /\ Arriving' = {} /\ Leaving' = {}
    BY <1>0, <1>1, <2>1 DEF Cleaning
  <2>4. Recorded = {hpa.name} /\ Recorded' = {}
    BY <2>2, <2>3 DEF Recorded
  <2> QED
    BY <1>2, <2>1, <2>4
<1> QED
  BY <1>6, <1>7, <1>8, <1>9, <1>10, <1>11, <1>12, <1>13, <1>14
  DEF Step, NamespaceTrack, NamespaceUntrack

\* As long as only the HPA controller runs, the sequence of operations on the maps
\* implements the promise of the interface: every NamespaceTrack and every
\* NamespaceUntrack takes effect in one of its steps.
THEOREM KeepsItsPromise == Spec => KeepsPromise
<1>1. Init => Promise!TrackingInit
  <2> SUFFICES ASSUME Init PROVE Promise!TrackingInit
    OBVIOUS
  <2>1. namespaces = None /\ Members = {} /\ Arriving = {} /\ Leaving = {}
    BY DEF Init, Members, Arriving, Leaving, Idle, Controllers
  <2>2. Recorded = {}
    BY <2>1 DEF Recorded
  <2> QED
    BY <2>1, <2>2 DEF Promise!TrackingInit, IsNamespaceTracked
<1>2. IInv /\ SoloInv /\ (IInv /\ SoloInv)' /\ [Next]_vars
        => [Promise!TrackingNext]_<<IF keda THEN {} ELSE Recorded, ~keda /\ IsNamespaceTracked>>
  <2> SUFFICES ASSUME IInv, SoloInv, IInv', SoloInv', [Next]_vars
               PROVE  [Promise!TrackingNext]_<<IF keda THEN {} ELSE Recorded,
                                               ~keda /\ IsNamespaceTracked>>
    OBVIOUS
  <2>0. keda' = keda
    BY DEF Next, Step, Reconcile, NamespaceTrack, TrackNamespace, TrackType,
       TrackName, NamespaceUntrack, UntrackNamespace, UntrackType, UntrackName, TypeEmpty,
       DeleteType, NamespaceEmpty, DeleteNamespace, EditScaler, vars
  <2>1. CASE keda
    BY <2>0, <2>1
  <2>2. CASE ~keda /\ UNCHANGED <<worker, heap>>
    <3>1. UNCHANGED <<Recorded, IsNamespaceTracked>>
      BY <2>2, SMT DEF Recorded, Members, Arriving, Leaving, IsNamespaceTracked, heap
    <3> QED
      BY <2>0, <2>2, <3>1
  <2>3. CASE ~keda /\ Step("hpa")
    <3>1. \/ Recorded' = Recorded /\ (IsNamespaceTracked' <=> IsNamespaceTracked)
          \/ \E n \in Names : Recorded' = Recorded \cup {n} /\ IsNamespaceTracked'
          \/ \E n \in Names : /\ Recorded' = Recorded \ {n}
                              /\ IsNamespaceTracked' <=> Recorded' # {}
      BY <2>0, <2>3, SoloPromise
    <3>2. IsNamespaceTracked \in BOOLEAN /\ IsNamespaceTracked' \in BOOLEAN
      BY DEF IsNamespaceTracked
    <3> QED
      BY <2>0, <2>3, <3>1, <3>2 DEF Promise!TrackingNext, Promise!Track, Promise!Untrack
  <2>4. ASSUME NEW c \in Controllers, Step(c), ~keda PROVE c = "hpa"
    <3>1. worker["scaledobject"].pc = "idle" /\ queue["scaledobject"] = <<>>
      BY <2>4, SMT DEF SoloInv, Idle
    <3> QED
      BY <2>4, <3>1 DEF Step, Reconcile, NamespaceTrack, TrackNamespace, TrackType,
       TrackName, NamespaceUntrack, UntrackNamespace, UntrackType, UntrackName, TypeEmpty,
       DeleteType, NamespaceEmpty, DeleteNamespace, Controllers
  <2> QED
    BY <2>1, <2>2, <2>3, <2>4 DEF Next, EditScaler, vars
<1> QED
  BY <1>1, <1>2, SpecSolo, PTL DEF Spec, KeepsPromise, Promise!TrackingSpec
============================================================================
