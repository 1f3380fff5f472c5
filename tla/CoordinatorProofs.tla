------------------------- MODULE CoordinatorProofs -------------------------
(* The optimistic lock of the coordinator, for any scalers, any edits beside *)
(* it and any number of attempts, and the split of a quota, for any quotas,  *)
(* queues and entries.                                                       *)
EXTENDS Coordinator, FiniteTheorems, SequenceTheorems

\* What makes the lock work: a cached scaler that is not behind is the one in
\* the API server, and a copy with the current version is what is stored there.
Coherent ==
  /\ DOMAIN obj = Scalers /\ obj = [s \in Scalers |-> obj[s]]
  /\ DOMAIN seen = Scalers /\ seen = [s \in Scalers |-> seen[s]]
  /\ changes \in Nat
  /\ \A s \in Scalers \ behind : seen[s] = obj[s]
  /\ current => /\ pc = "patch"
                /\ Head(jobs).scaler \in Scalers
                /\ copy = obj[Head(jobs).scaler]

\* Leaves go to Zenon; those that it does not prove name SMT.
USE Zenon

\* The coordinator starts with a cache in step and no copy at hand.
LEMMA InitCoherent == Init => Coherent
<1> SUFFICES ASSUME Init PROVE Coherent
  OBVIOUS
<1>1. PICK o \in Created : obj = [s \in Scalers |-> o]
  BY DEF Init
<1>2. seen = obj /\ behind = {} /\ changes = 0 /\ current = FALSE
  BY DEF Init
<1> QED
  BY <1>1, <1>2 DEF Coherent

\* No step of the coordinator or beside it breaks the coherence.
LEMMA NextCoherent == Coherent /\ [Next]_vars => Coherent'
<1> SUFFICES ASSUME Coherent, [Next]_vars PROVE Coherent'
  OBVIOUS
<1>1. CASE Discover
  BY <1>1 DEF Discover, Coherent, worldVars
<1>2. CASE Abandon
  BY <1>2 DEF Abandon, Coherent, worldVars
<1>3. ASSUME NEW n \in Namespaces, RebalanceNamespace(n) PROVE Coherent'
  BY <1>3 DEF RebalanceNamespace, Coherent, worldVars
<1>4. ASSUME NEW s \in Scalers, Get(s) PROVE Coherent'
  BY <1>4 DEF Get, Coherent, worldVars
<1>5. ASSUME NEW s \in Scalers, Patch(s) PROVE Coherent'
  <2> DEFINE o == [obj[s] EXCEPT !.max = Head(jobs).target]
  <2>1. obj' = [obj EXCEPT ![s] = o] /\ behind' = IF o = obj[s] THEN behind ELSE behind \cup {s}
    BY <1>5 DEF Patch, Patched
  <2>2. seen' = seen /\ changes' = changes /\ current' = FALSE
    BY <1>5 DEF Patch, Patched
  <2> HIDE DEF o
  <2> QED
    BY <2>1, <2>2 DEF Coherent
<1>6. ASSUME NEW s \in Scalers, Conflict(s) PROVE Coherent'
  BY <1>6 DEF Conflict, Coherent, worldVars
<1>7. ASSUME NEW s \in Scalers, CacheSync(s) PROVE Coherent'
  BY <1>7 DEF CacheSync, Coherent, worldVars, tickVars
<1>8. ASSUME NEW s \in Scalers, OthersWrite(s) PROVE Coherent'
  <2>1. PICK o : obj' = [obj EXCEPT ![s] = o]
    BY <1>8 DEF OthersWrite
  <2>2. /\ behind' = behind \cup {s} /\ seen' = seen /\ changes' = changes + 1
        /\ current' = (current /\ Head(jobs).scaler # s)
        /\ UNCHANGED <<pc, jobs, copy>>
    BY <1>8 DEF OthersWrite
  <2>3. current' => current /\ Head(jobs).scaler # s
    BY <2>2
  <2>4. /\ DOMAIN obj' = Scalers /\ obj' = [u \in Scalers |-> obj'[u]]
        /\ \A u \in Scalers \ {s} : obj'[u] = obj[u]
    BY <2>1 DEF Coherent
  <2>5. \A u \in Scalers \ behind' : seen'[u] = obj'[u]
    BY <2>2, <2>4 DEF Coherent
  <2>6. current' => pc' = "patch" /\ Head(jobs').scaler \in Scalers
                      /\ copy' = obj'[Head(jobs').scaler]
    BY <2>2, <2>3, <2>4 DEF Coherent
  <2> QED
    BY <2>2, <2>4, <2>5, <2>6, SMT DEF Coherent
<1>9. CASE WorldChanges
  BY <1>9, SMT DEF WorldChanges, Coherent, tickVars
<1>10. CASE UNCHANGED vars
  BY <1>10 DEF vars, Coherent, tickVars
<1> QED
  BY <1>1, <1>2, <1>3, <1>4, <1>5, <1>6, <1>7, <1>8, <1>9, <1>10, ScalersAssumption, SMT
  DEF Next, Tick

\* Whatever others edit and however far the cache lags, a ceiling is written
\* only into the object the coordinator has read, and nothing else of it
\* changes: no concurrent edit is overwritten.
THEOREM NoLostUpdate == Spec => NothingOverwritten
<1> DEFINE Careful ==
      pc = "patch" =>
        \A s \in Scalers :
          obj'[s] # obj[s] /\ changes' = changes =>
            /\ s = Head(jobs).scaler /\ obj[s] = copy
            /\ obj'[s] = [copy EXCEPT !.max = Head(jobs).target]
<1>1. Coherent /\ [Next]_vars => [Careful]_vars
  <2> SUFFICES ASSUME Coherent, Next,
                      NEW s \in Scalers, pc = "patch", obj'[s] # obj[s], changes' = changes
               PROVE  /\ s = Head(jobs).scaler /\ obj[s] = copy
                      /\ obj'[s] = [copy EXCEPT !.max = Head(jobs).target]
    OBVIOUS
  <2>1. CASE \E u \in Scalers : Patch(u)
    <3>1. PICK u \in Scalers : Patch(u)
      BY <2>1
    <3>2. /\ Head(jobs).scaler = u /\ current
          /\ obj' = [obj EXCEPT ![u] = [obj[u] EXCEPT !.max = Head(jobs).target]]
      BY <3>1 DEF Patch, Patched
    <3>3. s = u /\ copy = obj[u]
      BY <3>2 DEF Coherent
    <3> QED
      BY <3>2, <3>3 DEF Coherent
  <2>2. CASE \E u \in Editable : OthersWrite(u)
    BY <2>2, SMT DEF OthersWrite, Coherent
  <2>3. CASE obj' = obj
    BY <2>3
  <2> QED
    BY <2>1, <2>2, <2>3 DEF Next, Tick, Discover, Abandon, RebalanceNamespace, Get,
       Conflict, CacheSync, WorldChanges
<1> QED
  BY <1>1, InitCoherent, NextCoherent, PTL DEF Spec, NothingOverwritten

-----------------------------------------------------------------------------
(* The split. *)

\* Entries that a listing can hold
Listed(entries) ==
  /\ \E X : entries \in Seq(X)
  /\ \A i \in 1..Len(entries) : entries[i].scaler \in Scalers /\ entries[i].min \in Nat

\* The library's fold with + is a sum.
LEMMA TotalIsSum ==
  ASSUME NEW f, NEW n
  PROVE  FoldFunctionOnSet(+, 0, f, 1..n) = SumOf(f, 1..n)
BY SumOfFold DEF SumFunctionOnSet

\* Somebody has the highest weight.
LEMMA MaxWeightIn ==
  ASSUME NEW q, Len(q) \in Nat, Len(q) > 0,
         \A i \in 1..Len(q) : Part(q, i) \in Nat
  PROVE  MaxWeightIdx(q) \in 1..Len(q)
<1> DEFINE X == 1..Len(q)
           R == {p \in X \X X : \/ Part(q, p[2]) < Part(q, p[1])
                                \/ Part(q, p[2]) = Part(q, p[1]) /\ p[1] <= p[2]}
<1>1. \A i, j \in X : <<i, j>> \in R <=> \/ Part(q, j) < Part(q, i)
                                         \/ Part(q, j) = Part(q, i) /\ i <= j
  OBVIOUS
<1>2. \A i \in X : Part(q, i) \in Nat /\ i \in Nat
  BY SMT
<1>3. \A i, j \in X : i # j => <<i, j>> \in R \/ <<j, i>> \in R
  <2> HIDE DEF R
  <2> QED BY <1>1, <1>2, SMT
<1>4. \A i, j, k \in X : <<i, j>> \in R /\ <<j, k>> \in R => <<i, k>> \in R
  <2> HIDE DEF R
  <2> QED BY <1>1, <1>2, SMT
<1>5. IsFiniteSet(X) /\ 1 \in X
  BY IntervalCardinality, SMT
<1> HIDE DEF X, R
<1>6. \E i \in X : \A j \in X \ {i} : <<i, j>> \in R
  BY <1>3, <1>4, <1>5, FiniteTop, ZenonT(30)
<1>7. PICK i \in X : \A j \in X \ {i} : <<i, j>> \in R
  BY <1>6
<1>8. \A j \in X : \/ Part(q, j) < Part(q, i)
                   \/ Part(q, j) = Part(q, i) /\ i <= j
  <2>1. SUFFICES ASSUME NEW j \in X
                 PROVE  \/ Part(q, j) < Part(q, i)
                        \/ Part(q, j) = Part(q, i) /\ i <= j
    OBVIOUS
  <2>2. CASE j = i
    BY <1>2, <2>2, SMT
  <2>3. CASE j # i
    BY <1>1, <1>7, <2>3
  <2> QED BY <2>2, <2>3
<1> QED BY <1>8 DEF MaxWeightIdx, X

\* What rebalanceNamespace makes of a quota that covers the minima: rounding
\* takes nothing away from anybody, and nothing of the quota is lost.
LEMMA Split ==
  ASSUME NEW entries, Listed(entries), entries # <<>>, NEW q \in [1..Len(entries) -> Nat],
         NEW budget \in Nat, MinimumTotal(entries) <= budget
  PROVE  /\ Total(LAMBDA i : Target(entries, q, budget, i), Len(entries)) = budget
         /\ \A i \in 1..Len(entries) : Target(entries, q, budget, i) >= entries[i].min
<1> DEFINE n == Len(entries)
           N == 1..n
           min == [i \in N |-> entries[i].min]
           depth == [i \in N |-> q[i]]
           part == [i \in N |-> Part(q, i)]
           share == [i \in N |-> Share(entries, q, budget, i)]
           target == [i \in N |-> Target(entries, q, budget, i)]
           extra == [i \in N |-> ((budget - MinimumTotal(entries)) * Part(q, i)) \div Whole(q)]
           W == Whole(q)
           rest == budget - MinimumTotal(entries)
<1>1. n \in Nat /\ n > 0 /\ IsFiniteSet(N) /\ Cardinality(N) = n
  <2>1. PICK X : entries \in Seq(X)
    BY DEF Listed
  <2>2. n \in Nat /\ n # 0
    BY <2>1, EmptySeq, LenProperties
  <2> QED BY <2>2, IntervalCardinality, SMT
<1>q. Len(q) = n
  <2>1. DOMAIN q = 1..n /\ q \in Seq(Nat)
    BY <1>1, SMT
  <2> QED BY <1>1, <2>1, LenProperties, SMT
<1>2. /\ MinimumTotal(entries) = SumOf(min, N)
      /\ TotalQueue(q) = SumOf(depth, N)
      /\ Total(LAMBDA i : Target(entries, q, budget, i), n) = SumOf(target, N)
      /\ Total(LAMBDA j : Share(entries, q, budget, j), n) = SumOf(share, N)
  <2>1. MinimumTotal(entries) = SumOf(min, N)
    BY TotalIsSum DEF MinimumTotal, Total
  <2>2. TotalQueue(q) = SumOf(depth, N)
    BY <1>q, TotalIsSum DEF TotalQueue, Total
  <2>3. Total(LAMBDA i : Target(entries, q, budget, i), n) = SumOf(target, N)
    BY TotalIsSum DEF Total
  <2>4. Total(LAMBDA j : Share(entries, q, budget, j), n) = SumOf(share, N)
    BY TotalIsSum DEF Total
  <2> QED BY <2>1, <2>2, <2>3, <2>4
<1>3. \A i \in N : /\ min[i] = entries[i].min /\ depth[i] = q[i]
                   /\ part[i] = Part(q, i) /\ share[i] = Share(entries, q, budget, i)
                   /\ target[i] = Target(entries, q, budget, i)
                   /\ extra[i] = (rest * Part(q, i)) \div W
  OBVIOUS
<1>4. \A i \in N : min[i] \in Nat /\ depth[i] \in Nat
  BY <1>3 DEF Listed
<1>5. SumOf(min, N) \in Nat /\ SumOf(depth, N) \in Nat
  <2> HIDE DEF min, depth
  <2> QED BY <1>1, <1>4, SumNatural
<1>6. /\ \A i \in N : part[i] \in Nat
      /\ W \in Nat /\ W > 0 /\ SumOf(part, N) = W
  <2>1. CASE TotalQueue(q) = 0
    <3>1. W = n /\ \A i \in N : part[i] = 1
      BY <1>q, <1>3, <2>1 DEF Whole, Part
    <3> HIDE DEF part, W, N, n
    <3>2. SumOf(part, N) = 1 * n
      BY <1>1, <3>1, SumConstant, SMT
    <3> QED BY <1>1, <3>1, <3>2, SMT
  <2>2. CASE TotalQueue(q) # 0
    <3>1. W = SumOf(depth, N) /\ W # 0 /\ \A i \in N : part[i] = depth[i]
      BY <1>2, <1>3, <2>2 DEF Whole, Part
    <3> HIDE DEF part, depth, W, N, n
    <3>2. \A i \in N : depth[i] \in Int /\ part[i] = depth[i]
      BY <1>4, <3>1, SMT
    <3>3. SumOf(part, N) = SumOf(depth, N)
      BY <1>1, <3>2, SumSame
    <3> QED BY <1>4, <1>5, <3>1, <3>3, SMT
  <2> QED BY <2>1, <2>2
<1>7. rest \in Nat /\ rest = budget - SumOf(min, N)
  BY <1>2, <1>5, SMT
<1>8. \A i \in N : /\ share[i] = min[i] + extra[i]
                   /\ extra[i] = (rest * part[i]) \div W
  BY <1>3 DEF Share
<1> HIDE DEF min, depth, part, share, target, extra, W, rest, N, n
<1>9. \A i \in N : extra[i] \in Nat /\ W * extra[i] <= rest * part[i] /\ share[i] \in Nat
  <2>1. SUFFICES ASSUME NEW i \in N
                 PROVE  extra[i] \in Nat /\ W * extra[i] <= rest * part[i] /\ share[i] \in Nat
    OBVIOUS
  <2>2. \A a, b \in Nat : b > 0 => a \div b \in Nat /\ b * (a \div b) <= a
    BY SMT
  <2>3. rest * part[i] \in Nat
    BY <1>6, <1>7, SMT
  <2>4. extra[i] \in Nat /\ W * extra[i] <= rest * part[i]
    BY <1>6, <1>8, <2>2, <2>3
  <2> QED BY <1>4, <1>8, <2>4, SMT
<1>10. SumOf(extra, N) \in Nat /\ SumOf(extra, N) <= rest
  <2> DEFINE g == [i \in N |-> W * extra[i]]
             h == [i \in N |-> rest * part[i]]
  <2>1. \A i \in N : /\ g[i] = W * extra[i] /\ h[i] = rest * part[i]
                     /\ extra[i] \in Int /\ part[i] \in Int
                     /\ g[i] \in Int /\ h[i] \in Int /\ g[i] <= h[i]
    BY <1>6, <1>7, <1>9, SMT
  <2>2. SumOf(extra, N) \in Nat
    BY <1>1, <1>9, SumNatural
  <2> HIDE DEF g, h
  <2>3. SumOf(g, N) = W * SumOf(extra, N)
    BY <1>1, <1>6, <2>1, SumScale, SMT
  <2>4. SumOf(h, N) = rest * SumOf(part, N)
    BY <1>1, <1>7, <2>1, SumScale, SMT
  <2>5. SumOf(g, N) <= SumOf(h, N)
    BY <1>1, <2>1, SumMonotone
  <2>6. W * SumOf(extra, N) <= rest * W
    BY <1>6, <2>3, <2>4, <2>5
  <2>7. \A a, b, c \in Nat : a > 0 /\ a * b <= c * a => b <= c
    BY SMT
  <2> QED BY <1>6, <1>7, <2>2, <2>6, <2>7
<1>11. SumOf(share, N) = SumOf(min, N) + SumOf(extra, N)
  <2>1. \A i \in N : min[i] \in Int /\ extra[i] \in Int /\ share[i] = min[i] + extra[i]
    BY <1>4, <1>8, <1>9, SMT
  <2> QED BY <1>1, <2>1, SumAdd, SMT
<1>12. SumOf(share, N) \in Nat /\ SumOf(share, N) <= budget
  BY <1>5, <1>7, <1>10, <1>11, SMT
<1> DEFINE m == MaxWeightIdx(q)
<1>13. m \in N
  BY <1>q, <1>1, <1>3, <1>6, MaxWeightIn DEF N, n
<1>14. \A i \in N : target[i] = share[i] + (IF i = m THEN budget - SumOf(share, N) ELSE 0)
  BY <1>2, <1>3 DEF Target, n
<1> HIDE DEF m
<1>15. SumOf(target, N) = SumOf(share, N) - share[m] + target[m]
  <2>1. \A i \in N : share[i] \in Int /\ target[i] \in Int
    BY <1>9, <1>12, <1>14, SMT
  <2>2. \A i \in N \ {m} : target[i] = share[i]
    BY <1>9, <1>14, SMT
  <2> QED BY <1>1, <1>13, <2>1, <2>2, SumChange, SMT
<1>16. SumOf(target, N) = budget
  <2>1. target[m] = share[m] + (budget - SumOf(share, N)) /\ share[m] \in Nat
    BY <1>9, <1>13, <1>14
  <2> QED BY <1>12, <1>15, <2>1, SMT
<1>17. \A i \in N : target[i] >= min[i]
  BY <1>4, <1>8, <1>9, <1>12, <1>14, SMT
<1> QED BY <1>2, <1>3, <1>16, <1>17 DEF N, n

\* Scalers as the API server keeps them, as far as the split reads them
IsScaler(o) == DOMAIN o = {"max", "min", "marks"} /\ o.min \in Nat

\* What the split is given: the quotas, the queues and the entries of a listing
SplitInv ==
  /\ quota \in [Namespaces -> Nat] /\ queue \in [Pools -> Nat]
  /\ DOMAIN obj = Scalers /\ DOMAIN seen = Scalers
  /\ \A s \in Scalers : IsScaler(obj[s]) /\ IsScaler(seen[s])
  /\ DOMAIN snapshot = Namespaces /\ \A n \in Namespaces : Listed(snapshot[n])

\* A listing without entries is a listing.
LEMMA NothingListed == Listed(<<>>)
<1>1. <<>> \in Seq({}) /\ Len(<<>>) = 0
  BY EmptySeq
<1> QED BY <1>1, SMT DEF Listed

\* A listing of the cache holds entries of scalers.
LEMMA EntriesListed ==
  ASSUME \A s \in Scalers : IsScaler(seen[s]), NEW n, NEW entries \in Entries(n)
  PROVE  Listed(entries)
<1> DEFINE all == {scalerEntry(s) : s \in Scalers}
           some(k) == {scalerEntry(s) : s \in Selected(n, k)}
<1>1. PICK h \in Listings(n, "hpa"), o \in Listings(n, "so") : entries = h \o o
  BY SMT DEF Entries
<1>2. IsFiniteSet(all)
  <2> DEFINE f == [s \in Scalers |-> scalerEntry(s)]
  <2>1. f \in Surjection(Scalers, all)
    <3> DEFINE e(s) == scalerEntry(s)
    <3> HIDE DEF e
    <3>1. [s \in Scalers |-> e(s)] \in Surjection(Scalers, {e(s) : s \in Scalers})
      BY DEF Surjection
    <3> QED BY <3>1 DEF e
  <2> HIDE DEF all, f
  <2> QED BY <2>1, ScalersAssumption, FS_Surjection
<1>3. \A k : some(k) \subseteq all /\ Listings(n, k) = SetToSeqs(some(k))
  BY DEF Selected, Listings
<1>4. ASSUME NEW T, T \subseteq all, NEW f \in SetToSeqs(T) PROVE f \in Seq(all)
  <2>1. Cardinality(T) \in Nat
    BY <1>2, <1>4, FS_Subset, FS_CardinalityType
  <2>2. f \in [1..Cardinality(T) -> T]
    BY <1>4 DEF SetToSeqs
  <2> HIDE DEF all
  <2> QED BY <1>4, <2>1, <2>2, SMT
<1>5. h \in Seq(all) /\ o \in Seq(all)
  <2> HIDE DEF all, some
  <2> QED BY <1>1, <1>3, <1>4
<1>6. entries \in Seq(all)
  <2> HIDE DEF all, some
  <2> QED BY <1>1, <1>5, ConcatProperties
<1>7. \A e \in all : e.scaler \in Scalers /\ e.min \in Nat
  BY SMT DEF scalerEntry, effectiveMinReplicas, IsScaler
<1> HIDE DEF all
<1>8. \A i \in 1..Len(entries) : entries[i] \in all
  BY <1>6, SMT
<1> QED BY <1>6, <1>7, <1>8 DEF Listed

\* The first snapshots are listings of what is there.
LEMMA InitSplit == Init => SplitInv
<1> SUFFICES ASSUME Init PROVE SplitInv
  OBVIOUS
<1>1. PICK o \in Created : obj = [s \in Scalers |-> o]
  BY DEF Init
<1>2. seen = obj /\ queue = [p \in Pools |-> 0] /\ snapshot = [n \in Namespaces |-> <<>>]
  BY DEF Init
<1>3. PICK q \in Quotas : quota = [n \in Namespaces |-> q]
  BY DEF Init
<1>4. IsScaler(o)
  BY SMT DEF Created, IsScaler
<1>5. quota \in [Namespaces -> Nat] /\ queue \in [Pools -> Nat]
  BY <1>2, <1>3, NumbersAssumption
<1> QED BY <1>1, <1>2, <1>4, <1>5, NothingListed DEF SplitInv

\* No write, edit or refresh of the cache gives the split anything else.
LEMMA NextSplit == SplitInv /\ [Next]_vars => SplitInv'
<1> SUFFICES ASSUME SplitInv, [Next]_vars PROVE SplitInv'
  OBVIOUS
<1>i. /\ quota \in [Namespaces -> Nat] /\ queue \in [Pools -> Nat]
      /\ DOMAIN obj = Scalers /\ DOMAIN seen = Scalers
      /\ \A s \in Scalers : IsScaler(obj[s]) /\ IsScaler(seen[s])
      /\ DOMAIN snapshot = Namespaces /\ \A n \in Namespaces : Listed(snapshot[n])
  BY DEF SplitInv
<1>l. ASSUME UNCHANGED <<quota, queue, obj, seen>>, DOMAIN snapshot' = Namespaces,
             \A n \in Namespaces : Listed(snapshot'[n])
      PROVE  SplitInv'
  BY <1>i, <1>l DEF SplitInv, IsScaler, Listed
<1>o. ASSUME UNCHANGED <<quota, queue, snapshot>>, DOMAIN obj' = Scalers, DOMAIN seen' = Scalers,
             \A s \in Scalers : IsScaler(obj'[s]) /\ IsScaler(seen'[s])
      PROVE  SplitInv'
  BY <1>i, <1>o DEF SplitInv, IsScaler, Listed
<1>1. CASE Discover
  <2>1. UNCHANGED <<quota, queue, obj, seen>>
    BY <1>1 DEF Discover, worldVars
  <2>2. PICK found : /\ DOMAIN found = Namespaces /\ snapshot' = found
                     /\ \A n \in Namespaces : found[n] \in Entries(n)
    BY <1>1 DEF Discover
  <2>3. \A n \in Namespaces : Listed(found[n])
    BY <1>i, <2>2, EntriesListed
  <2> QED BY <1>l, <2>1, <2>2, <2>3
<1>2. CASE Abandon
  <2>1. UNCHANGED <<quota, queue, obj, seen>> /\ snapshot' = [n \in Namespaces |-> <<>>]
    BY <1>2 DEF Abandon, worldVars
  <2> QED BY <1>l, <2>1, NothingListed
<1>3. ASSUME NEW n \in Namespaces, RebalanceNamespace(n) PROVE SplitInv'
  <2>1. UNCHANGED <<quota, queue, obj, seen>> /\ snapshot' = [snapshot EXCEPT ![n] = <<>>]
    BY <1>3 DEF RebalanceNamespace, worldVars
  <2> QED BY <1>i, <1>l, <2>1, NothingListed
<1>4. ASSUME NEW s \in Scalers, Get(s) \/ Conflict(s) PROVE SplitInv'
  <2>1. UNCHANGED <<quota, queue, obj, seen, snapshot>>
    BY <1>4 DEF Get, Conflict, worldVars
  <2> QED BY <1>i, <1>l, <2>1
<1>5. ASSUME NEW s \in Scalers, Patch(s) PROVE SplitInv'
  <2> DEFINE o == [obj[s] EXCEPT !.max = Head(jobs).target]
  <2>1. obj' = [obj EXCEPT ![s] = o] /\ UNCHANGED <<quota, queue, seen, snapshot>>
    BY <1>5 DEF Patch, Patched, worldVars
  <2>2. IsScaler(o)
    BY <1>i, <1>5 DEF IsScaler
  <2> HIDE DEF o
  <2> QED BY <1>i, <1>o, <2>1, <2>2
<1>7. ASSUME NEW s \in Scalers, CacheSync(s) PROVE SplitInv'
  <2>1. seen' = [seen EXCEPT ![s] = obj[s]] /\ UNCHANGED <<quota, queue, obj, snapshot>>
    BY <1>7 DEF CacheSync, worldVars, tickVars
  <2> QED BY <1>i, <1>o, <2>1
<1>8. ASSUME NEW s \in Editable, OthersWrite(s) PROVE SplitInv'
  <2>1. UNCHANGED <<quota, queue, seen, snapshot>>
    BY <1>8 DEF OthersWrite, worldVars
  <2>2. PICK o \in Created \cup Edited(obj[s]) : obj' = [obj EXCEPT ![s] = o]
    BY <1>8 DEF OthersWrite
  <2>3. s \in Scalers /\ IsScaler(obj[s])
    BY <1>i, <1>8, ScalersAssumption
  <2>4. IsScaler(o)
    <3>1. CASE o \in Created
      BY <3>1, SMT DEF Created, IsScaler
    <3>2. CASE o = Absent
      BY <3>2 DEF Absent, IsScaler
    <3>3. CASE \E m \in Ceilings : o = [obj[s] EXCEPT !.max = m]
      BY <2>3, <3>3 DEF IsScaler
    <3>4. CASE \E m \in Floors : o = [obj[s] EXCEPT !.min = m]
      BY <2>3, <3>4, NumbersAssumption DEF IsScaler
    <3>5. CASE \E x : o = [obj[s] EXCEPT !.marks = x]
      BY <2>3, <3>5 DEF IsScaler
    <3>6. o \in Edited(obj[s]) =>
            \/ o = Absent
            \/ \E m \in Ceilings : o = [obj[s] EXCEPT !.max = m]
            \/ \E m \in Floors : o = [obj[s] EXCEPT !.min = m]
            \/ \E x : o = [obj[s] EXCEPT !.marks = x]
      BY DEF Edited
    <3> QED BY <2>2, <3>1, <3>2, <3>3, <3>4, <3>5, <3>6
  <2> QED BY <1>i, <1>o, <2>1, <2>2, <2>3, <2>4
<1>9. CASE WorldChanges
  <2>1. UNCHANGED <<obj, seen, snapshot>>
    BY <1>9 DEF WorldChanges, tickVars
  <2>2. quota' \in [Namespaces -> Nat] /\ queue' \in [Pools -> Nat]
    BY <1>i, <1>9, NumbersAssumption DEF WorldChanges
  <2> QED BY <1>i, <2>1, <2>2 DEF SplitInv, IsScaler, Listed
<1>10. CASE UNCHANGED vars
  <2>1. UNCHANGED <<quota, queue, obj, seen, snapshot>>
    BY <1>10 DEF vars, tickVars
  <2> QED BY <1>i, <1>l, <2>1
<1> QED BY <1>1, <1>2, <1>3, <1>4, <1>5, <1>7, <1>8, <1>9, <1>10, SMT DEF Next, Tick

\* Whatever could be read, a reading is a queue depth for each entry.
LEMMA ReadingsAreDepths ==
  ASSUME NEW entries, Listed(entries), queue \in [Pools -> Nat], NEW q \in Readings(entries)
  PROVE  q \in [1..Len(entries) -> Nat]
<1> DEFINE N == 1..Len(entries)
<1>1. \A i \in N : Depths(entries)[i] \in Nat
  BY ScalersAssumption DEF Depths, Listed
<1>2. PICK lost : q = [i \in N |-> IF i \in lost THEN 0 ELSE Depths(entries)[i]]
  BY DEF Readings
<1>3. \A i \in N : (IF i \in lost THEN 0 ELSE Depths(entries)[i]) \in Nat
  BY <1>1, SMT
<1> HIDE DEF N
<1>4. q \in [N -> Nat]
  BY <1>2, <1>3
<1> QED BY <1>4 DEF N

\* The targets of a namespace whose quota covers the minima of its scalers make
\* up the quota exactly and keep every minimum, for any scalers, queues, quotas
\* and edits, and whichever of the queues could be read.
THEOREM QuotaIsSplit == Spec => []SplitsTheQuota
<1>1. SplitInv => SplitsTheQuota
  <2> SUFFICES ASSUME SplitInv, NEW n \in Namespaces, NEW q \in Readings(snapshot[n]),
                      snapshot[n] # <<>>, Feasible(n)
               PROVE  /\ Total(LAMBDA i : Target(snapshot[n], q, quota[n], i), Len(snapshot[n])) = quota[n]
                      /\ \A i \in 1..Len(snapshot[n]) :
                           Target(snapshot[n], q, quota[n], i) >= snapshot[n][i].min
    BY DEF SplitsTheQuota
  <2>1. Listed(snapshot[n]) /\ quota[n] \in Nat /\ queue \in [Pools -> Nat]
    BY DEF SplitInv
  <2>2. MinimumTotal(snapshot[n]) <= quota[n]
    BY DEF Feasible
  <2>3. q \in [1..Len(snapshot[n]) -> Nat]
    BY <2>1, ReadingsAreDepths
  <2> QED BY <2>1, <2>2, <2>3, Split
<1> QED BY <1>1, InitSplit, NextSplit, PTL DEF Spec
=============================================================================
