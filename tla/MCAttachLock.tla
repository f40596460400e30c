---- MODULE MCAttachLock ----
(* Two pods, either mode. *)
EXTENDS AttachLock
====
