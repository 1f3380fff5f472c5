---------------------------- MODULE Coordinator ----------------------------
(***************************************************************************)
(* The coordinator (coordinator/coordinator.go, selection.go) with its     *)
(* GPU-rebalance plugin (coordinator/plugins/gpurebalance/plugin.go).      *)
(* Every tick lists the scalers under control and splits the GPU quota of  *)
(* each namespace over their replica ceilings, by the queues of their      *)
(* pools.  Ceilings are patched one at a time, under an optimistic lock.   *)
(*                                                                         *)
(* The lists and the Get before a patch read the informer cache, which     *)
(* follows the API server at its own pace; only the patch itself meets the *)
(* API server.  A resourceVersion is modelled by whether it is the current *)
(* one: behind holds the scalers whose cached version is not, and current  *)
(* tells it of the copy that is about to be patched.  Beside the           *)
(* coordinator others edit, delete and create scalers, quotas and queues   *)
(* change, calls fail and the process restarts.                            *)
(***************************************************************************)
EXTENDS Integers, FiniteSetsExt, SequencesExt

CONSTANTS
  Scalers, Namespaces, Pools,
  Namespace,    \* namespace of a scaler
  Pool,         \* its inference-pool annotation; queues are by this name alone
  Kinds,        \* the kinds scalers may have: "hpa" or "so"
  Editable,     \* the scalers that others write
  Ceilings, Floors,            \* what they set maxReplicas and minReplicas to
  Marks,                       \* what they add or remove
  Quotas, Queues,              \* GPU quotas, 0 for none, and queue depths
  Healthy,      \* namespaces whose calls do not fail for ever
  MaxTries,     \* retry.DefaultRetry.Steps
  MaxChanges    \* bound on what happens beside the coordinator

\* A scaler that does not exist
Absent == [max |-> 0, min |-> 0, marks |-> {}]

ASSUME ScalersAssumption ==
  /\ Namespace \in [Scalers -> Namespaces] /\ Pool \in [Scalers -> Pools]
  /\ Kinds \subseteq [Scalers -> {"hpa", "so"}]
  /\ Healthy \subseteq Namespaces /\ Editable \subseteq Scalers
  /\ IsFiniteSet(Scalers)
ASSUME NumbersAssumption ==
  /\ Ceilings \subseteq Nat \ {0} /\ Floors \subseteq Nat
  /\ Quotas \subseteq Nat /\ Queues \subseteq Nat
  /\ MaxTries \in Nat \ {0} /\ MaxChanges \in Nat

VARIABLES
  kind,      \* of each scaler
  obj,       \* the scalers in the API server
  seen,      \* the scalers in the informer cache
  behind,    \* those whose cached version is not the current one
  quota, queue,
  changes,
  pc,        \* "idle", "tick", "get" or "patch"
  snapshot,  \* entries of the namespaces rebalanceNamespace has not reached
  jobs,      \* the ceilings still to be patched in its namespace
  copy,      \* what the Get before the patch returned
  current,   \* its resourceVersion is the one in the API server
  tries      \* attempts RetryOnConflict has made

worldVars == <<kind, quota, queue>>
tickVars == <<pc, snapshot, jobs, copy, current, tries>>
vars == <<kind, obj, seen, behind, quota, queue, changes, tickVars>>

\* A scaler as the API server admits it. The marks are "managed", the
\* annotation; "wva", a metric or trigger on wva_desired_replicas; "owned", by
\* a ScaledObject; and "pool", a non-empty inference-pool annotation.
Valid(o) == o.min <= o.max
Created == {[max |-> m, min |-> 1, marks |-> {"managed", "pool"}] : m \in Ceilings}

Init ==
  /\ kind \in Kinds
  /\ \E o \in Created : obj = [s \in Scalers |-> o]
  /\ seen = obj /\ behind = {}
  /\ \E q \in Quotas \ {0} : quota = [n \in Namespaces |-> q]
  /\ queue = [p \in Pools |-> 0]
  /\ changes = 0
  /\ pc = "idle" /\ snapshot = [n \in Namespaces |-> <<>>] /\ jobs = <<>>
  /\ copy = Absent /\ current = FALSE /\ tries = 0

----------------------------------------------------------------------------
(* Discovery *)

IsUnderControlMutant(s, o) == o # Absent /\ "managed" \in o.marks

\* IsHPAUnderControl, IsScaledObjectUnderControl
IsUnderControl(s, o) ==
  /\ o # Absent
  /\ "managed" \in o.marks /\ "wva" \notin o.marks
  /\ kind[s] = "hpa" => "owned" \notin o.marks


effectiveMinReplicas(o) == IF o.min > 1 THEN o.min ELSE 1

scalerEntry(s) ==
  [scaler |-> s, max |-> seen[s].max, min |-> effectiveMinReplicas(seen[s])]

\* The scalers of one kind that a listing selects in a namespace
Selected(n, k) ==
  {s \in Scalers : /\ Namespace[s] = n /\ kind[s] = k
                   /\ IsUnderControl(s, seen[s]) /\ "pool" \in seen[s].marks}

\* Informer caches list in any order; ScaledObjects come after the HPAs.
Listings(n, k) == SetToSeqs({scalerEntry(s) : s \in Selected(n, k)})
Entries(n) == {h \o o : h \in Listings(n, "hpa"), o \in Listings(n, "so")}

\* A list that fails skips the cycle, and one with nothing selected is a no-op.
Discover ==
  /\ pc = "idle" /\ pc' = "tick"
  /\ LET listed == [n \in Namespaces |-> Entries(n)]
     IN  \E found \in [Namespaces -> UNION Range(listed)] :
           /\ \A n \in Namespaces : found[n] \in listed[n]
           /\ \E n \in Namespaces : found[n] # <<>>
           /\ snapshot' = found
  /\ UNCHANGED <<worldVars, obj, seen, behind, changes, jobs, copy, current, tries>>

----------------------------------------------------------------------------
(* The split *)

Total(f(_), n) == FoldFunctionOnSet(+, 0, [i \in 1..n |-> f(i)], 1..n)

MinimumTotal(entries) == Total(LAMBDA i : entries[i].min, Len(entries))

\* The queue of each entry's pool, and what may be read of them: a query that
\* fails gives 0.
Depths(entries) == [i \in 1..Len(entries) |-> queue[Pool[entries[i].scaler]]]
Readings(entries) ==
  {[i \in 1..Len(entries) |-> IF i \in lost THEN 0 ELSE Depths(entries)[i]] :
     lost \in SUBSET {i \in 1..Len(entries) : Depths(entries)[i] > 0}}

TotalQueue(q) == Total(LAMBDA i : q[i], Len(q))

PartMutant(q, i) == 1

\* A weight is a fraction of this whole: equal parts when all queues are empty.
Whole(q) == IF TotalQueue(q) = 0 THEN Len(q) ELSE TotalQueue(q)
Part(q, i) == IF TotalQueue(q) = 0 THEN 1 ELSE q[i]

\* The first of those with the highest weight
MaxWeightIdx(q) ==
  CHOOSE i \in 1..Len(q) :
    \A j \in 1..Len(q) : Part(q, j) < Part(q, i) \/ (Part(q, j) = Part(q, i) /\ i <= j)

Share(entries, q, budget, i) ==
  entries[i].min + ((budget - MinimumTotal(entries)) * Part(q, i)) \div Whole(q)

TargetMutant(entries, q, budget, i) == Share(entries, q, budget, i)

\* Every minimum is reserved, the rest goes by weight, and what rounding
\* leaves over goes to the highest weight.
Target(entries, q, budget, i) ==
  LET allocated == Total(LAMBDA j : Share(entries, q, budget, j), Len(entries))
  IN  Share(entries, q, budget, i)
        + (IF i = MaxWeightIdx(q) THEN budget - allocated ELSE 0)

\* The ceilings to patch, in the order of the entries
Patches(entries, q, budget) ==
  SelectSeq([i \in 1..Len(entries) |->
               [scaler |-> entries[i].scaler, max |-> entries[i].max,
                target |-> Target(entries, q, budget, i)]],
            LAMBDA p : p.target # p.max)

Feasible(n) == quota[n] > 0 /\ MinimumTotal(snapshot[n]) <= quota[n]

----------------------------------------------------------------------------
(* The tick *)

\* Continues with the next namespace, or ends the tick.
NextNamespace(rest) ==
  pc' = IF \A n \in Namespaces : rest[n] = <<>> THEN "idle" ELSE "tick"

\* Namespaces come from a map, in any order. A queue that cannot be read counts
\* as empty.
RebalanceNamespace(n) ==
  /\ pc = "tick" /\ snapshot[n] # <<>>
  /\ snapshot' = [snapshot EXCEPT ![n] = <<>>]
  /\ IF Feasible(n)
     THEN \E q \in Readings(snapshot[n]) : jobs' = Patches(snapshot[n], q, quota[n])
     ELSE jobs' = <<>>
  /\ IF jobs' = <<>> THEN NextNamespace(snapshot') ELSE pc' = "get"
  /\ UNCHANGED <<worldVars, obj, seen, behind, changes, copy, current, tries>>

\* The read half of an attempt of setMaxReplicas
Get(s) ==
  /\ pc = "get" /\ Head(jobs).scaler = s /\ seen[s] # Absent
  /\ copy' = seen[s]
  /\ current' = (s \notin behind)
  /\ pc' = "patch"
  /\ UNCHANGED <<worldVars, obj, seen, behind, changes, snapshot, jobs, tries>>

Patched(s, o) ==
  /\ obj' = [obj EXCEPT ![s] = o]
  /\ behind' = IF o = obj[s] THEN behind ELSE behind \cup {s}
  /\ jobs' = Tail(jobs)
  /\ IF jobs' = <<>> THEN NextNamespace(snapshot) ELSE pc' = "get"
  /\ copy' = Absent /\ current' = FALSE /\ tries' = 0
  /\ UNCHANGED <<worldVars, seen, changes, snapshot>>

PatchMutant(s) ==
  LET o == [copy EXCEPT !.max = Head(jobs).target]
  IN  /\ pc = "patch" /\ Head(jobs).scaler = s
      /\ obj[s] # Absent /\ Valid(o)
      /\ Patched(s, o)

\* The patch sets the ceiling alone, if the version is the current one and the
\* API server accepts the object.
Patch(s) ==
  LET o == [obj[s] EXCEPT !.max = Head(jobs).target]
  IN  /\ pc = "patch" /\ Head(jobs).scaler = s
      /\ obj[s] # Absent /\ current /\ Valid(o)
      /\ Patched(s, o)

\* RetryOnConflict reads again, until its attempts are used up.
Conflict(s) ==
  /\ pc = "patch" /\ Head(jobs).scaler = s
  /\ obj[s] # Absent /\ ~current /\ tries + 1 < MaxTries
  /\ pc' = "get" /\ tries' = tries + 1
  /\ copy' = Absent
  /\ UNCHANGED <<worldVars, obj, seen, behind, changes, snapshot, jobs, current>>

\* An error ends the tick for all namespaces: reading the quota or the scaler
\* fails, the scaler is gone, the patch is refused or conflicts too often. So
\* does a restart.
Abandon ==
  /\ pc # "idle"
  /\ pc' = "idle" /\ snapshot' = [n \in Namespaces |-> <<>>] /\ jobs' = <<>>
  /\ copy' = Absent /\ current' = FALSE /\ tries' = 0
  /\ UNCHANGED <<worldVars, obj, seen, behind, changes>>

Tick ==
  \/ Discover \/ Abandon
  \/ \E n \in Namespaces : RebalanceNamespace(n)
  \/ \E s \in Scalers : Get(s) \/ Patch(s) \/ Conflict(s)

----------------------------------------------------------------------------
(* What happens beside the coordinator *)

CacheSync(s) ==
  /\ s \in behind
  /\ seen' = [seen EXCEPT ![s] = obj[s]]
  /\ behind' = behind \ {s}
  /\ UNCHANGED <<worldVars, obj, changes, tickVars>>

Edited(o) ==
  {[o EXCEPT !.max = m] : m \in Ceilings} \cup {[o EXCEPT !.min = m] : m \in Floors}
    \cup {[o EXCEPT !.marks = SymDiff(@, {m})] : m \in Marks}
    \cup {Absent}

OthersWrite(s) ==
  /\ changes < MaxChanges
  /\ changes' = changes + 1
  /\ \E o \in (IF obj[s] = Absent THEN Created ELSE Edited(obj[s])) \ {obj[s]} :
       /\ o # Absent => Valid(o)
       /\ obj' = [obj EXCEPT ![s] = o]
  /\ behind' = behind \cup {s}
  /\ current' = (current /\ Head(jobs).scaler # s)
  /\ UNCHANGED <<worldVars, seen, pc, snapshot, jobs, copy, tries>>

WorldChanges ==
  /\ changes < MaxChanges
  /\ changes' = changes + 1
  /\ \/ \E n \in Namespaces : \E q \in Quotas \ {quota[n]} :
          quota' = [quota EXCEPT ![n] = q] /\ UNCHANGED queue
     \/ \E p \in Pools : \E q \in Queues \ {queue[p]} :
          queue' = [queue EXCEPT ![p] = q] /\ UNCHANGED quota
  /\ UNCHANGED <<kind, obj, seen, behind, tickVars>>

Next ==
  \/ Tick
  \/ \E s \in Scalers : CacheSync(s)
  \/ \E s \in Editable : OthersWrite(s)
  \/ WorldChanges

\* The loop runs and the cache follows. In a healthy namespace what can fail
\* does not fail every time; a map does not put a namespace last for ever.
Fairness ==
  /\ WF_vars(Tick)
  /\ \A s \in Scalers : WF_vars(CacheSync(s))
  /\ \A n \in Healthy : SF_vars(RebalanceNamespace(n))
  /\ \A s \in {u \in Scalers : Namespace[u] \in Healthy} :
       SF_vars(Get(s)) /\ SF_vars(Patch(s))

Spec == Init /\ [][Next]_vars
FairSpec == Spec /\ Fairness

----------------------------------------------------------------------------
(* Properties *)

\* The targets of a namespace add up to its quota, and none is below the
\* minimum of its scaler ("Reserve every scaler's effective minimum, then
\* distribute the remaining quota proportionally"), whichever queues could be
\* read.
SplitsTheQuota ==
  pc = "tick" =>
    \A n \in Namespaces : \A q \in Readings(snapshot[n]) :
      LET entries == snapshot[n]
          target(i) == Target(entries, q, quota[n], i)
      IN  entries # <<>> /\ Feasible(n) =>
            /\ Total(target, Len(entries)) = quota[n]
            /\ \A i \in 1..Len(entries) : target(i) >= entries[i].min

\* A patch changes the ceiling it is meant to change and nothing else, of
\* exactly the object that was read: "the API server rejects a stale write with a
\* 409 Conflict rather than silently overwriting a concurrent change".
NothingOverwritten ==
  [][pc = "patch" =>
       \A s \in Scalers :
         obj'[s] # obj[s] /\ changes' = changes =>
           /\ s = Head(jobs).scaler /\ obj[s] = copy
           /\ obj'[s] = [copy EXCEPT !.max = Head(jobs).target]]_vars

\* The scalers of a namespace whose ceilings the coordinator sets
Controlled(n) ==
  {s \in Scalers : Namespace[s] = n /\ IsUnderControl(s, obj[s]) /\ "pool" \in obj[s].marks}

\* Their ceilings add up to the quota, if there is one that covers the minima.
Balanced(n) ==
  LET sum(f(_)) == MapThenSumSet(f, Controlled(n))
  IN  \/ Controlled(n) = {} \/ quota[n] = 0
      \/ sum(LAMBDA s : effectiveMinReplicas(obj[s])) > quota[n]
      \/ sum(LAMBDA s : obj[s].max) = quota[n]


\* No two scalers of a namespace share the highest weight.
Untied ==
  \A n \in Namespaces : \A s, u \in Controlled(n) :
    s # u /\ queue[Pool[s]] = queue[Pool[u]] =>
      \E w \in Controlled(n) : queue[Pool[w]] > queue[Pool[s]]

\* The patches that a namespace is given, if any, are those of its true queues.
QueuesRead ==
  \A n \in Namespaces :
    snapshot[n] # <<>> /\ snapshot'[n] = <<>> /\ jobs' # <<>> =>
      jobs' = Patches(snapshot[n], Depths(snapshot[n]), quota[n])

\* Once nothing changes any more and the queues can be read the ceilings stay as
\* they are, unless two scalers tie for what rounding leaves over: it then
\* follows the order of the list, which is arbitrary.
Settles == <>[]Untied /\ <>[][QueuesRead]_vars => <>[][obj' = obj]_obj

\* A scaler that loses the managed annotation or is given the
\* wva_desired_replicas metric for good is in the end not written any more ("the
\* Coordinator must stay out"); the running tick may still write it.
StaysOut ==
  \A s \in Editable :
    <>[]("managed" \notin obj[s].marks \/ "wva" \in obj[s].marks)
      => <>[][obj'[s] = obj[s]]_obj
=============================================================================
