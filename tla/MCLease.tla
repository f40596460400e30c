---- MODULE MCLease ----
(* Two replicas; one of them dies and loses calls, the other one does not. *)
EXTENDS Lease
====
