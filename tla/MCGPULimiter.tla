---------------------------- MODULE MCGPULimiter ----------------------------
(* Instance of GPULimiter for TLC: three variants in two namespaces, two    *)
(* accelerator types, and one chain of each kind the factory builds.        *)
EXTENDS GPULimiter, TLC

CONSTANTS v1, v2, v3, n1, n2, A, H

MCVariants == {v1, v2, v3}
MCNamespaces == {n1, n2}
MCTypes == {A, H}

Entry(name, scope, quotas, exclude) ==
  [name |-> name, scope |-> scope, quotas |-> quotas, exclude |-> exclude]

Inventory(q) == <<Entry("gpu-limiter", "inventory", Cluster :> q, {})>>
ClusterQuota(q) == Entry("cluster-quota", "cluster", Cluster :> q, {})
NamespaceQuota(q, ex) == Entry("namespace-quota", "namespace", q, ex)

MCChains ==
  { Inventory(A :> 4),
    Inventory(A :> 5 @@ H :> 1),
    <<ClusterQuota(A :> 5),
      NamespaceQuota(n1 :> (A :> 3) @@ Default :> (A :> 1), {})>>,
    <<NamespaceQuota(n1 :> (A :> 3 @@ H :> 0) @@ Default :> (A :> Unlimited), {}),
      ClusterQuota(A :> 4 @@ H :> Unlimited)>>,
    <<NamespaceQuota(n2 :> (A :> 2), {n1})>>,
    <<NamespaceQuota(n1 :> (A :> 4 @@ H :> 0), {}), ClusterQuota(A :> 9)>> }

Req(ns, acc, gpus, cur, tgt, min, max, spare, cost) ==
  [ns |-> ns, acc |-> acc, gpus |-> gpus, cur |-> cur, tgt |-> tgt,
   min |-> min, max |-> max, spare |-> spare, cost |-> cost]

\* v1 needs two GPUs a replica; v2 has bounds; v3's accelerator may be
\* unresolved. Targets go up, down or stay.
MCBatches ==
  { (v1 :> Req(n1, A, 2, 1, t1, 0, 0, s1, 1)) @@
    (v2 :> Req(n2, A, 1, c2, t2, m2, x2, 1, 2)) @@
    (v3 :> Req(n1, a3, 1, 1, t3, 0, 0, 1, 1)) :
      t1 \in {0, 2, 3}, s1 \in {0, 2}, c2 \in {0, 1, 3}, t2 \in {1, 4},
      m2 \in {0, 2}, x2 \in {0, 2}, a3 \in {A, H, Unknown, Empty}, t3 \in {1, 3} }
=============================================================================
