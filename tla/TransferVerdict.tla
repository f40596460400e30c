--------------------------- MODULE TransferVerdict ---------------------------
(***************************************************************************)
(* The pure decision of the Transferring phase (controller/transfer.rs):   *)
(* given everything that can be observed about one copy attempt, in which  *)
(* order do success, recorded failure, agent failure, staleness, the       *)
(* attempt timeout and the stall detector win?                             *)
(*                                                                         *)
(* Statuses are the strings of crd/openebs.rs; "" is a CR that does not    *)
(* exist or has no status yet.  An in-memory relay that does not exist     *)
(* (`mem: None`) has attempt 0: real attempts are numbered from 1.         *)
(***************************************************************************)
EXTENDS Naturals

(* u64::saturating_sub *)
SaturatingSub(a, b) == IF a > b THEN a - b ELSE 0

(* Mutant: a relay that waits for its first byte counts as flowing.        *)
Listening(m) == ~m.task_finished

(* Bytes have reached the target and the relay task still runs: the one    *)
(* state the attempt timeout does not bound.                               *)
Flowing(m) == ~m.task_finished /\ m.bytes > 0

transfer_verdict(o) ==
  IF o.bkp_status = "Done" /\ o.rst_status = "Done" THEN "Complete"
  ELSE IF \/ o.failure_reason
          \/ {o.bkp_status, o.rst_status} \cap {"Failed", "Invalid"} # {}
          \/ o.mem.attempt = 0 THEN "FailAttempt"
  ELSE IF o.mem.attempt > o.attempt THEN "StaleStatus"
  ELSE IF o.mem.attempt < o.attempt THEN "StaleRelay"
  ELSE IF ~Flowing(o.mem) /\ o.elapsed_secs > o.timeout_secs THEN "FailAttempt"
  ELSE IF ~o.rst_exists THEN
         IF o.mem.source_connected THEN "CreateRestore" ELSE "WaitingForSource"
  ELSE IF /\ Flowing(o.mem)
          /\ SaturatingSub(o.now_secs, o.mem.last_activity) > o.stall_secs
         THEN "FailAttempt"
  ELSE "Continue"
=============================================================================
