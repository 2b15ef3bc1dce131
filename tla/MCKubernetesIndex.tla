-------------------------- MODULE MCKubernetesIndex --------------------------
(* Instance of KubernetesIndex for TLC: an ingress declares nothing that     *)
(* counts, one app, the same app elsewhere, or two apps on one domain.       *)
EXTENDS KubernetesIndex, TLC

CONSTANTS a1, a2, d1, d2

MCAppName == {a1, a2}
MCDomain == {d1, d2}
MCManifest ==
    {[readable |-> TRUE, hosts |-> {}, apps |-> (a1 :> d1)],
     [readable |-> TRUE, hosts |-> {d2}, apps |-> (a1 :> d2 @@ a2 :> d1)],
     [readable |-> TRUE, hosts |-> {}, apps |-> (a1 :> d1 @@ a2 :> d1)],
     [readable |-> TRUE, hosts |-> {}, apps |-> (a2 :> NoDomain)]}

Symmetry == Permutations(Ingress)
=============================================================================
