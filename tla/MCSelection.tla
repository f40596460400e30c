---- MODULE MCSelection ----
(* A pod with two volumes on the tainted node 1, one of which may fail and  *)
(* be tried again, and a volume without a consumer that moves off node 2 by *)
(* its annotation.  Either target, 3 or 4, has room for the pod or for the  *)
(* other volume.                                                            *)
EXTENDS Selection, TLC

CONSTANTS a, b, w

PodVol == {a, b, w}
PodHome == (a :> 1) @@ (b :> 1) @@ (w :> 2)
PodSize == (a :> 10) @@ (b :> 10) @@ (w :> 13)
PodGroup == (a :> {a, b}) @@ (b :> {a, b}) @@ (w :> {})
PodPool == (1 :> 20) @@ (2 :> 0) @@ (3 :> 22) @@ (4 :> 22)
PodAdmits == (a :> {2, 3, 4}) @@ (b :> {2, 3, 4}) @@ (w :> {1, 3, 4})
PodExplicit == [v \in PodVol |-> NoNode]
====
