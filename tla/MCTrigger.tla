---- MODULE MCTrigger ----
(* The trigger loop of one leader. *)
EXTENDS Trigger
====
