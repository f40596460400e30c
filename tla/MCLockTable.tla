---- MODULE MCLockTable ----
(* Evacuations of which one has an unreliable API server. *)
EXTENDS LockTable
====
