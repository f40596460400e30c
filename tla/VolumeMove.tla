----------------------------- MODULE VolumeMove -----------------------------
(***************************************************************************)
(* What an evacuation promises about one volume, with phases, CRs, relays  *)
(* and retries left out: the volume lives on the source, is between homes  *)
(* during the swap, then lives on the target.  As long as its claim is     *)
(* attached to it, the copy at its home is never given up: a home is left  *)
(* only when both copies are complete, and the source copy only when the   *)
(* volume has arrived.  A claim that is deleted, or whose PV an operator   *)
(* replaces, releases the controller from the promise for good.            *)
(***************************************************************************)

VARIABLES
  home,     \* "source", "moving" (committed, PV being swapped), "target"
  src,      \* the source copy exists
  dst,      \* a complete, adopted copy exists on the target
  claimed   \* the recorded claim is attached to this volume

vars == <<home, src, dst, claimed>>

Init == home = "source" /\ src = TRUE /\ dst = FALSE /\ claimed = TRUE

Copy == (home = "source" \/ ~claimed) /\ dst' = TRUE /\ UNCHANGED <<home, src, claimed>>
Discard == (home = "source" \/ ~claimed) /\ dst' = FALSE /\ UNCHANGED <<home, src, claimed>>
Commit == /\ home = "source" /\ claimed /\ src /\ dst
          /\ home' = "moving" /\ UNCHANGED <<src, dst, claimed>>
Arrive == home = "moving" /\ home' = "target" /\ UNCHANGED <<src, dst, claimed>>
Reclaim == (home = "target" \/ ~claimed) /\ src' = FALSE /\ UNCHANGED <<home, dst, claimed>>
Release == claimed' = FALSE /\ UNCHANGED <<home, src, dst>>

Next == Copy \/ Discard \/ Commit \/ Arrive \/ Reclaim \/ Release
Spec == Init /\ [][Next]_vars
=============================================================================
