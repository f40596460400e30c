----------------------------- MODULE Evacuation -----------------------------
(***************************************************************************)
(* One evacuation of one zfs-localpv volume: the phase machine of          *)
(* controller/{state_machine,transfer,pv_swap,abort}.rs, the Kubernetes    *)
(* objects it reads and writes, and the actors that change those objects   *)
(* while a reconcile runs: users, the PV controller, the provisioner and   *)
(* the zfs-localpv node agents.                                            *)
(*                                                                         *)
(* A reconcile of a phase before the commit point is two steps: Begin      *)
(* (finalizer, cancel check) and the phase handler, so anything may happen *)
(* between the check and the act.  A handler's API writes happen in order; *)
(* \E n \in Cut(k) says how many of its k writes took effect before an API *)
(* error or a crash ended it, and Wrote(n, i, new, old) is the i-th write. *)
(* A handler takes the status `v` it was called with, so that              *)
(* evac' = [v EXCEPT ...] is exactly the status write it performs: the     *)
(* whole status, so a wait message writes v too (Waits).                   *)
(***************************************************************************)
EXTENDS TransferVerdict

CONSTANTS
  MaxAttempts,  \* spec.max_attempts
  Trigger,      \* spec.trigger: "Annotation" or "NodeTaint"
  Removable,    \* which of the two nodes may leave the cluster
  ApiErrors,    \* may an API call fail (or the process die) inside a handler?
  Reused        \* names that may come back with another UID: "pvc", "pv"

ASSUME MaxAttemptsAssumption == MaxAttempts \in Nat
ASSUME TriggerAssumption == Trigger \in {"Annotation", "NodeTaint"}
ASSUME RemovableAssumption == Removable \subseteq {"source", "target"}
ASSUME ApiErrorsAssumption == ApiErrors \in BOOLEAN
ASSUME ReusedAssumption == Reused \subseteq {"pvc", "pv"}

VARIABLES
  evac,    \* ZFSEvacuation.status, as stored in etcd
  cr,      \* the ZFSEvacuation object: no finalizer / finalizer / deleting / gone
  armed,   \* a reconcile passed the cancel check and has not yet acted
  relay,   \* Ctx.transfers: the in-memory relay of this evacuation
  pv,      \* the PersistentVolume under the evacuated name
  pvc,     \* the claim: the recorded UID, deleted, or recreated with a new UID
  wanted,  \* the trigger condition: PV annotation / node taint
  lock,    \* the PVC key is in the EvacuationParams lists
  szv,     \* source ZFSVolume CR: guard = our finalizer, fin = the agent's
  sdata,   \* the source dataset exists
  snode,   \* the source node exists
  bkp,     \* the ZFSBackup CR
  rst,     \* the ZFSRestore CR
  tried,   \* the attempt whose number bkp and rst have in their names
  tzv,     \* target ZFSVolume CR
  tdata,   \* target dataset: none, empty (created by adoption), full (received)
  tsnap,   \* the transfer snapshot exists on the target dataset
  scr,     \* ZFSSnapshot CR standing for that snapshot
  tnode,   \* the target node exists
  faulty   \* API calls may still fail (a fault period ends for good)

ctlVars == <<evac, cr, armed, relay>>
k8sVars == <<pv, pvc, wanted, lock>>
srcVars == <<szv, sdata, snode>>
xferVars == <<bkp, rst, tried>>
tgtVars == <<tzv, tdata, tsnap, scr, tnode>>
vars == <<ctlVars, k8sVars, srcVars, xferVars, tgtVars, faulty>>

-----------------------------------------------------------------------------
(* State                                                                   *)

(* Mutant: the cancel check is not limited to the time before the commit.  *)
CancelableAfterCommit == {"Pending", "Guarding", "Retaining", "Locking", "Quiescing",
                          "TargetSelecting", "Transferring", "Adopting", "Committing", "Swapping"}
CancelablePhase == {"Pending", "Guarding", "Retaining", "Locking", "Quiescing",
                    "TargetSelecting", "Transferring", "Adopting", "Committing"}
Terminal == {"Completed", "Failed"}
Phase == CancelablePhase \cup {"Swapping", "CleaningUp", "Aborting"} \cup Terminal

AttemptLimit == IF MaxAttempts = 0 THEN 1 ELSE MaxAttempts
Policy == {"Delete", "Retain"}

ZFSEvacuationStatus ==
  [phase: Phase, committed: BOOLEAN, cancelled: BOOLEAN,
   orig: Policy \cup {"None"},        \* original_reclaim_policy, source and pvc_ref recorded
   target: BOOLEAN,                   \* target (node, pool, new handle) recorded
   attempt: 0 .. AttemptLimit,        \* transfer.attempt, 0 = no transfer recorded
   failed: BOOLEAN,                   \* transfer.failure_reason is set
   snapDel: BOOLEAN]                  \* transfer.target_snap_delete_issued

NoRelay == [attempt |-> 0, connected |-> FALSE, bytes |-> 0, finished |-> FALSE]
Relay(a) == [NoRelay EXCEPT !.attempt = a]
NoPV == [obj |-> "none", policy |-> "Retain", deleting |-> FALSE, bound |-> FALSE]
GoneZV == [s |-> "gone", guard |-> FALSE, fin |-> FALSE]
NoCR == [s |-> "none", del |-> FALSE]
InitCR == [s |-> "Init", del |-> FALSE]

RelayType == [attempt: 0 .. AttemptLimit, connected: BOOLEAN, bytes: {0, 1}, finished: BOOLEAN]
PVType == [obj: {"none", "old", "new", "foreign"}, policy: Policy,
           deleting: BOOLEAN, bound: BOOLEAN]
ZVType == [s: {"live", "deleting", "gone"}, guard: BOOLEAN, fin: BOOLEAN]
BkpType == [s: {"none", "Init", "Sent", "Done", "Failed"}, del: BOOLEAN]
RstType == [s: {"none", "Init", "Recvd", "Done", "Failed"}, del: BOOLEAN]

TypeOK ==
  /\ evac \in ZFSEvacuationStatus
  /\ cr \in {"bare", "live", "deleting", "gone"}
  /\ armed \in BOOLEAN
  /\ relay \in RelayType
  /\ pv \in PVType
  /\ pvc \in {"ours", "gone", "other"}
  /\ wanted \in BOOLEAN
  /\ lock \in BOOLEAN
  /\ szv \in ZVType
  /\ sdata \in BOOLEAN
  /\ snode \in BOOLEAN
  /\ bkp \in BkpType
  /\ rst \in RstType
  /\ tried \in 0 .. AttemptLimit
  /\ tzv \in {"none", "Pending", "Ready", "Failed", "Deleting"}
  /\ tdata \in {"none", "empty", "full"}
  /\ tsnap \in BOOLEAN
  /\ scr \in {"none", "Pending", "Ready", "Deleting"}
  /\ tnode \in BOOLEAN
  /\ faulty \in BOOLEAN

Init ==
  /\ evac = [phase |-> "Pending", committed |-> FALSE, cancelled |-> FALSE,
             orig |-> "None", target |-> FALSE, attempt |-> 0,
             failed |-> FALSE, snapDel |-> FALSE]
  /\ cr = "bare" /\ armed = FALSE /\ relay = NoRelay
  /\ pv \in [obj: {"old"}, policy: Policy, deleting: {FALSE}, bound: {TRUE}]
  /\ pvc = "ours" /\ wanted = TRUE /\ lock = FALSE
  /\ szv = [s |-> "live", guard |-> FALSE, fin |-> TRUE]
  /\ sdata = TRUE /\ snode = TRUE
  /\ bkp = NoCR /\ rst = NoCR /\ tried = 0
  /\ tzv = "none" /\ tdata = "none" /\ tsnap = FALSE /\ scr = "none" /\ tnode = TRUE
  /\ faulty = ApiErrors

-----------------------------------------------------------------------------
(* API objects                                                             *)

Cut(k) == IF faulty THEN 0 .. k ELSE {k}
Wrote(n, i, new, old) == IF n >= i THEN new ELSE old

(* An object being deleted disappears with its last finalizer.             *)
Settle(z) == IF z.s = "deleting" /\ ~z.guard /\ ~z.fin THEN GoneZV ELSE z
Deleted(z) == IF z.s = "gone" THEN z ELSE Settle([z EXCEPT !.s = "deleting"])
(* Mutant: the guard finalizer is not added.                               *)
NotGuarded(z) == z
Guarded(z) == IF z.s = "gone" THEN z ELSE [z EXCEPT !.guard = TRUE]
Unguarded(z) == Settle([z EXCEPT !.guard = FALSE])
Stripped(z) == Settle([z EXCEPT !.fin = FALSE])

(* The agent attaches its finalizer together with a terminal status, so a  *)
(* ZFSBackup, ZFSRestore or ZFSVolume deleted earlier vanishes at once.    *)
DeletedCR(c) == IF c.s \in {"Done", "Failed"} THEN [c EXCEPT !.del = TRUE] ELSE NoCR
DeletedTZV(z) == IF z \in {"Ready", "Deleting"} THEN "Deleting" ELSE "none"

(* Mutant: the finalizer of an agent whose node is gone is not stripped.   *)
CleanedByAgentOnly(c, node) == IF c.s = "none" \/ c.del THEN c ELSE DeletedCR(c)

(* cleanup_transfer_crs on one CR whose agent runs on a node that exists   *)
(* iff `node`: delete it, or strip the finalizer nobody will process.      *)
Cleaned(c, node) ==
  IF c.s = "none" THEN c
  ELSE IF ~c.del THEN DeletedCR(c)
  ELSE IF ~node THEN NoCR ELSE c

TransferCRsGone == bkp.s = "none" /\ rst.s = "none"

(* The CRs found under the names of status v's attempt.                    *)
Bkp(v) == IF v.attempt = tried THEN bkp ELSE NoCR
Rst(v) == IF v.attempt = tried THEN rst ELSE NoCR
(* Mutant: the ZFSRestore is not waited for.                               *)
NoBackupFor(v) == v.attempt # tried \/ bkp.s = "none"
NoneFor(v) == v.attempt # tried \/ TransferCRsGone

-----------------------------------------------------------------------------
(* reconcile: prologue, and what every handler shares                      *)

Advance(v, p) == [v EXCEPT !.phase = p]

(* cancel_reason: never in Pending.  A vanished node is no cancel.         *)
CancelReason(v) ==
  /\ v.phase # "Pending"
  /\ \/ pv.obj = "none"
     \/ Trigger = "Annotation" /\ ~wanted
     \/ Trigger = "NodeTaint" /\ snode /\ ~wanted
     \/ pvc # "ours"

Begin ==
  /\ ~armed /\ cr \in {"bare", "live"} /\ evac.phase \in CancelablePhase
  /\ \E n \in Cut(2) :
       /\ cr' = Wrote(n, 1, "live", cr)
       /\ IF CancelReason(evac)
          THEN /\ evac' = Wrote(n, 2, [evac EXCEPT !.phase = "Aborting", !.cancelled = TRUE], evac)
               /\ armed' = FALSE
          ELSE /\ armed' = (n = 2)
               /\ UNCHANGED evac
  /\ UNCHANGED <<relay, k8sVars, srcVars, xferVars, tgtVars>>

(* A wait writes the status it was called with, unless it already carries  *)
(* the message.                                                            *)
Waits(v) == {evac, v}

(* The phases whose handler may wait before it has done anything else.     *)
MayWait(v) ==
  \/ v.phase \in {"Quiescing", "TargetSelecting"}
  \/ v.phase = "Adopting" /\ tzv = "Pending"
  \/ v.phase = "Committing" /\ pvc = "ours"

(* The handler waits, requeues or fails before it has written anything else.*)
GiveUp(v) ==
  /\ armed /\ armed' = FALSE
  /\ evac' \in IF MayWait(v) THEN Waits(v) ELSE {evac}
  /\ UNCHANGED <<cr, relay, k8sVars, srcVars, xferVars, tgtVars>>

Handling(v, p) == armed /\ v.phase = p /\ armed' = FALSE

-----------------------------------------------------------------------------
(* Phases up to the transfer (state_machine.rs)                            *)

(* Validation may refuse the volume for reasons outside this model (clone, *)
(* snapshots, resize, capacity); the conditions inside it are `movable`.   *)
Pending(v) ==
  LET movable == pv.obj = "old" /\ pvc = "ours" /\ szv.s # "gone" /\ snode IN
  /\ Handling(v, "Pending")
  /\ \/ evac' = Advance(v, "Failed")
     \/ movable /\ evac' = [v EXCEPT !.phase = "Guarding", !.orig = pv.policy]
  /\ UNCHANGED <<cr, relay, k8sVars, srcVars, xferVars, tgtVars>>

(* The API server refuses a new finalizer on an object being deleted.      *)
Guarding(v) ==
  /\ Handling(v, "Guarding")
  /\ szv.s = "deleting" => szv.guard
  /\ \E n \in Cut(2) :
       /\ szv' = Wrote(n, 1, Guarded(szv), szv)
       /\ evac' = Wrote(n, 2, Advance(v, "Retaining"), evac)
  /\ UNCHANGED <<cr, relay, k8sVars, sdata, snode, xferVars, tgtVars>>

Retaining(v) ==
  /\ Handling(v, "Retaining")
  /\ pv.obj # "none"
  /\ \E n \in Cut(2) :
       /\ pv' = Wrote(n, 1, [pv EXCEPT !.policy = "Retain"], pv)
       /\ evac' = Wrote(n, 2, Advance(v, "Locking"), evac)
  /\ UNCHANGED <<cr, relay, pvc, wanted, lock, srcVars, xferVars, tgtVars>>

(* Labelling a PVC that is gone fails after the lock has been taken.       *)
Locking(v) ==
  /\ Handling(v, "Locking")
  /\ \E n \in Cut(IF pvc = "gone" THEN 1 ELSE 2) :
       /\ lock' = Wrote(n, 1, TRUE, lock)
       /\ evac' = Wrote(n, 2, Advance(v, "Quiescing"), evac)
  /\ UNCHANGED <<cr, relay, pv, pvc, wanted, srcVars, xferVars, tgtVars>>

(* Whether pods block the copy, and the settle period, are not state here: *)
(* a blocked reconcile is GiveUp.                                          *)
Quiescing(v) ==
  /\ Handling(v, "Quiescing")
  /\ evac' = Advance(v, "TargetSelecting")
  /\ UNCHANGED <<cr, relay, k8sVars, srcVars, xferVars, tgtVars>>

TargetSelecting(v) ==
  /\ Handling(v, "TargetSelecting")
  /\ IF pv.obj = "none"
     THEN evac' = Advance(v, "Failed")
     ELSE tnode /\ evac' = [v EXCEPT !.phase = "Transferring", !.target = TRUE]
  /\ UNCHANGED <<cr, relay, k8sVars, srcVars, xferVars, tgtVars>>

-----------------------------------------------------------------------------
(* Transferring (transfer.rs)                                              *)

(* create_if_absent: a CR of this name that exists already is kept.        *)
Created(c) == IF c.s = "none" THEN InitCR ELSE c

(* Mutant: the ZFSBackup is created before the status that names it.       *)
StartAttemptBackupFirst(v, a) ==
  IF snode /\ tnode
  THEN \E n \in Cut(3) :
         /\ relay' = Wrote(n, 1, Relay(a), NoRelay)
         /\ bkp' = Wrote(n, 2, Created(bkp), bkp)
         /\ tried' = Wrote(n, 2, a, tried)
         /\ evac' = Wrote(n, 3, [v EXCEPT !.attempt = a, !.failed = FALSE, !.snapDel = FALSE], evac)
         /\ UNCHANGED rst
  ELSE relay' = NoRelay /\ UNCHANGED <<evac, xferVars>>

(* start_attempt after its re-entry check: relay, status, then ZFSBackup.  *)
StartAttempt(v, a) ==
  IF snode /\ tnode
  THEN \E n \in Cut(3) :
         /\ relay' = Wrote(n, 1, Relay(a), NoRelay)
         /\ evac' = Wrote(n, 2, [v EXCEPT !.attempt = a, !.failed = FALSE, !.snapDel = FALSE], evac)
         /\ bkp' = Wrote(n, 3, Created(bkp), bkp)
         /\ tried' = Wrote(n, 3, a, tried)
         /\ UNCHANGED rst
  ELSE relay' = NoRelay /\ UNCHANGED <<evac, xferVars>>

(* cleanup_transfer_crs, as writes i and i + 1 of a handler cut after n.   *)
CleanupTransferCRs(n, i) ==
  /\ bkp' = Wrote(n, i, Cleaned(bkp, snode), bkp)
  /\ rst' = Wrote(n, i + 1, Cleaned(rst, tnode), rst)
  /\ UNCHANGED tried

(* The teardown of an attempt waits with the verdict recorded.             *)
AttemptFailed(v) == [v EXCEPT !.failed = TRUE]

(* Mutant: attempts are counted from zero, one too many.                   *)
RetryOrFailOneMore(v) ==
  IF ~NoneFor(v)
  THEN \E n \in Cut(3) :
         /\ relay' = NoRelay
         /\ CleanupTransferCRs(n, 1)
         /\ evac' \in Wrote(n, 3, IF v.failed THEN Waits(v) ELSE {AttemptFailed(v)}, {evac})
  ELSE IF v.attempt > MaxAttempts
  THEN /\ relay' = NoRelay
       /\ \E n \in Cut(1) :
            evac' = Wrote(n, 1, Advance(AttemptFailed(v), "Aborting"), evac)
       /\ UNCHANGED xferVars
  ELSE StartAttempt(v, v.attempt + 1)

RetryOrFail(v) ==
  IF ~NoneFor(v)
  THEN \E n \in Cut(3) :
         /\ relay' = NoRelay
         /\ CleanupTransferCRs(n, 1)
         /\ evac' \in Wrote(n, 3, IF v.failed THEN Waits(v) ELSE {AttemptFailed(v)}, {evac})
  ELSE IF v.attempt >= MaxAttempts
  THEN /\ relay' = NoRelay
       /\ \E n \in Cut(1) :
            evac' = Wrote(n, 1, Advance(AttemptFailed(v), "Aborting"), evac)
       /\ UNCHANGED xferVars
  ELSE StartAttempt(v, v.attempt + 1)

Complete(v) ==
  /\ relay' = NoRelay
  /\ \E n \in Cut(1) : evac' = Wrote(n, 1, Advance(v, "Adopting"), evac)
  /\ UNCHANGED xferVars

(* What the controller reads of a CR's status: work in progress is "Init". *)
Reported(c) == IF c.s \in {"Done", "Failed"} THEN c.s
               ELSE IF c.s = "none" THEN "" ELSE "Init"

(* A status read before the agent's last update and used after it.         *)
SeenStatus(c) == {Reported(c)} \cup (IF c.s \in {"Done", "Failed"} THEN {"Init"} ELSE {})

(* Time enters as two bits: has the attempt timeout (late) or the stall    *)
(* limit (quiet) passed?                                                   *)
Observe(v, b, r, late, quiet) ==
  [attempt |-> v.attempt, failure_reason |-> v.failed,
   bkp_status |-> b, rst_status |-> r, rst_exists |-> Rst(v).s # "none",
   mem |-> [attempt |-> relay.attempt, bytes |-> relay.bytes, last_activity |-> 0,
            task_finished |-> relay.finished, source_connected |-> relay.connected],
   elapsed_secs |-> late, now_secs |-> quiet, timeout_secs |-> 0, stall_secs |-> 0]

(* StaleStatus changes nothing: GiveUp.  StaleRelay needs a second writer  *)
(* of the status (two leaders at a time): with the one controller of this  *)
(* module it never arises.  A connected relay's attempt has its ZFSBackup. *)
Apply(v, verdict) ==
  \/ verdict = "Complete" /\ Complete(v)
  \/ verdict = "FailAttempt" /\ RetryOrFail(v)
  \/ verdict = "StaleRelay" /\ relay' = NoRelay /\ UNCHANGED <<evac, xferVars>>
  \/ /\ verdict = "CreateRestore" /\ szv.s # "gone" /\ v.attempt = tried
     /\ rst' = Created(rst) /\ UNCHANGED <<evac, relay, bkp, tried>>

(* Mutant: start_attempt does not look for a live relay.                   *)
TransferringRespawns(v, b, r) ==
  /\ Handling(v, "Transferring")
  /\ IF v.attempt = 0
     THEN StartAttempt(v, 1)
     ELSE \E late, quiet \in {0, 1} : Apply(v, transfer_verdict(Observe(v, b, r, late, quiet)))
  /\ UNCHANGED <<cr, k8sVars, srcVars, tgtVars>>

Transferring(v, b, r) ==
  /\ Handling(v, "Transferring")
  /\ IF v.attempt = 0
     THEN relay.attempt < 1 /\ StartAttempt(v, 1)
     ELSE \E late, quiet \in {0, 1} : Apply(v, transfer_verdict(Observe(v, b, r, late, quiet)))
  /\ UNCHANGED <<cr, k8sVars, srcVars, tgtVars>>

(* WaitingForSource writes its message, Continue the bytes relayed so far. *)
TransferWaits(v, b, r) ==
  /\ Handling(v, "Transferring") /\ v.attempt > 0
  /\ \E late, quiet \in {0, 1} :
       transfer_verdict(Observe(v, b, r, late, quiet)) \in {"WaitingForSource", "Continue"}
  /\ evac' \in Waits(v)
  /\ UNCHANGED <<cr, relay, k8sVars, srcVars, xferVars, tgtVars>>

-----------------------------------------------------------------------------
(* Adoption, commit and the PV swap (state_machine.rs, pv_swap.rs)         *)

Adopting(v) ==
  /\ Handling(v, "Adopting")
  /\ \/ tzv = "none" /\ szv.s # "gone" /\ tzv' = "Pending" /\ UNCHANGED evac
     \/ tzv \in {"Ready", "Deleting"} /\ evac' = Advance(v, "Committing") /\ UNCHANGED tzv
     \/ tzv = "Failed" /\ evac' = Advance(v, "Aborting") /\ UNCHANGED tzv
  /\ UNCHANGED <<cr, relay, k8sVars, srcVars, xferVars, tdata, tsnap, scr, tnode>>

(* Mutant: the PVC UID is not compared before the commit record.           *)
CommittingAnyClaim(v) ==
  /\ Handling(v, "Committing")
  /\ pvc # "gone"
  /\ \/ evac' = Advance(v, "Aborting")
     \/ pv.obj \in {"new", "foreign"} /\ evac' = Advance(v, "Failed")
     \/ pv.obj = "old" /\ evac' = [v EXCEPT !.phase = "Swapping", !.committed = TRUE]
  /\ UNCHANGED <<cr, relay, k8sVars, srcVars, xferVars, tgtVars>>

(* Pods on the claim are nondeterministic here: the first disjunct is both *)
(* "PVC UID changed" and "pods appeared despite the lock".                 *)
Committing(v) ==
  /\ Handling(v, "Committing")
  /\ pvc # "gone"
  /\ \/ evac' = Advance(v, "Aborting")
     \/ pvc = "ours" /\ pv.obj \in {"new", "foreign"} /\ evac' = Advance(v, "Failed")
     \/ pvc = "ours" /\ pv.obj = "old"
        /\ evac' = [v EXCEPT !.phase = "Swapping", !.committed = TRUE]
  /\ UNCHANGED <<cr, relay, k8sVars, srcVars, xferVars, tgtVars>>

NewPV == [obj |-> "new", policy |-> "Retain", deleting |-> FALSE, bound |-> FALSE]

(* Mutant: a PV somebody else already deleted is left to its finalizers.   *)
DeleteOldPVOnce ==
  /\ pv.obj = "old" /\ ~pv.deleting
  /\ \E n \in Cut(2) :
       pv' = Wrote(n, 2, NoPV, Wrote(n, 1, [pv EXCEPT !.deleting = TRUE], pv))
  /\ UNCHANGED <<evac, wanted>>

(* The old PV is deleted (unless it already is being deleted) and the      *)
(* finalizers that hold it are stripped.                                   *)
DeleteOldPV ==
  /\ pv.obj = "old"
  /\ \E n \in Cut(2) :
       pv' = Wrote(n, 2, NoPV, Wrote(n, 1, [pv EXCEPT !.deleting = TRUE], pv))
  /\ UNCHANGED <<evac, wanted>>

(* A pod, or a missing cordon, holds the delete.                           *)
HoldDelete(v) == pv.obj = "old" /\ ~pv.deleting /\ evac' \in Waits(v) /\ UNCHANGED <<pv, wanted>>

(* The rendered manifest drops the evacuate annotation.                    *)
CreateNewPV ==
  /\ pv.obj = "none" /\ pv' = NewPV
  /\ wanted' = (wanted /\ Trigger # "Annotation")
  /\ UNCHANGED evac

(* Mutant: the swap does not wait for the replacement PV to be Bound.      *)
VerifyCreated(v) ==
  /\ pv.obj \in {"new", "foreign"}
  /\ \E n \in Cut(2) :
       /\ pv' = Wrote(n, 1, [pv EXCEPT !.policy = v.orig], pv)
       /\ evac' = Wrote(n, 2, Advance(v, "CleaningUp"), evac)
  /\ UNCHANGED wanted

(* Any PV with another UID counts as ours; wait until it is Bound.         *)
VerifyRebind(v) ==
  /\ pv.obj \in {"new", "foreign"} /\ pv.bound
  /\ \E n \in Cut(2) :
       /\ pv' = Wrote(n, 1, [pv EXCEPT !.policy = v.orig], pv)
       /\ evac' = Wrote(n, 2, Advance(v, "CleaningUp"), evac)
  /\ UNCHANGED wanted

Swapping(v) ==
  /\ ~armed /\ v.phase = "Swapping"
  /\ DeleteOldPV \/ HoldDelete(v) \/ CreateNewPV \/ VerifyRebind(v)
  /\ UNCHANGED <<cr, armed, relay, pvc, lock, srcVars, xferVars, tgtVars>>

-----------------------------------------------------------------------------
(* CleaningUp (state_machine.rs, transfer.rs)                              *)

(* Mutant: no snapshot CR is taken for a destroyed snapshot.               *)
SnapshotUnregistered(v) == scr = "none"
SnapshotGone(v) == scr = "none" /\ (v.snapDel \/ tzv = "none")

(* Register a ZFSSnapshot CR for the received snapshot, wait for the       *)
(* agent's finalizer, delete it, remember that the delete was issued.      *)
(* Every pass that has not found it gone ends in a wait.                   *)
DestroyTargetSnapshot(v) ==
  LET marked == [v EXCEPT !.snapDel = TRUE]
      delete(to) == \E n \in Cut(2) : /\ scr' = Wrote(n, 1, to, scr)
                                      /\ evac' = Wrote(n, 2, marked, evac)
      wait(to) == \E n \in Cut(2) : /\ scr' = Wrote(n, 1, to, scr)
                                    /\ evac' \in Wrote(n, 2, Waits(v), {evac})
  IN
  \/ v.snapDel /\ scr # "none" /\ wait(IF scr = "Deleting" /\ ~tnode THEN "none" ELSE scr)
  \/ ~v.snapDel /\ scr = "none" /\ tzv # "none" /\ wait("Pending")
  \/ ~v.snapDel /\ scr = "Deleting" /\ delete("Deleting")
  \/ ~v.snapDel /\ scr = "Ready" /\ delete("Deleting")
  \/ ~v.snapDel /\ scr = "Pending" /\ ~tnode /\ delete("none")
  \/ ~v.snapDel /\ scr = "Pending" /\ tnode /\ wait("Pending")

(* Mutants: the guard is forgotten; the source is deleted on every release.*)
ReleaseSourceGuarded(n, i, delete) ==
  LET d == Wrote(n, i, IF delete THEN Deleted(szv) ELSE szv, szv)
  IN  szv' = Wrote(n, i + 2, IF snode THEN d ELSE Stripped(d), d)
ReleaseSourceAlways(n, i, delete) ==
  LET d == Wrote(n, i, Deleted(szv), szv)
      g == Wrote(n, i + 1, Unguarded(d), d)
  IN  szv' = Wrote(n, i + 2, IF snode THEN g ELSE Stripped(g), g)

(* Writes i .. i + 2 on the source ZFSVolume: delete it if `delete`, drop  *)
(* our guard, strip the agent's finalizer if its node is gone.             *)
ReleaseSource(n, i, delete) ==
  LET d == Wrote(n, i, IF delete THEN Deleted(szv) ELSE szv, szv)
      g == Wrote(n, i + 1, Unguarded(d), d)
  IN  szv' = Wrote(n, i + 2, IF snode THEN g ELSE Stripped(g), g)

(* remove_evac_finalizer *)
Released(c) == IF c = "deleting" THEN "gone" ELSE "bare"

FinishCleanup(v) ==
  \E n \in Cut(4) :
    /\ lock' = Wrote(n, 1, FALSE, lock)
    /\ wanted' = Wrote(n, 2, wanted /\ (Trigger # "Annotation" \/ pv.obj = "none"), wanted)
    /\ evac' = Wrote(n, 3, Advance(v, "Completed"), evac)
    /\ cr' = Wrote(n, 4, Released(cr), cr)

CleaningUp(v) ==
  /\ ~armed /\ v.phase = "CleaningUp"
  /\ \/ /\ ~NoneFor(v)
        /\ \E n \in Cut(3) : /\ CleanupTransferCRs(n, 1)
                              /\ evac' \in Wrote(n, 3, Waits(v), {evac})
        /\ UNCHANGED <<cr, wanted, lock, szv, scr>>
     \/ /\ NoneFor(v) /\ ~SnapshotGone(v)
        /\ DestroyTargetSnapshot(v)
        /\ UNCHANGED <<cr, wanted, lock, szv, xferVars>>
     \/ /\ NoneFor(v) /\ SnapshotGone(v) /\ szv.s # "gone"
        /\ \E n \in Cut(4) : /\ ReleaseSource(n, 1, TRUE)
                              /\ evac' \in Wrote(n, 4, Waits(v), {evac})
        /\ UNCHANGED <<cr, wanted, lock, xferVars, scr>>
     \/ /\ NoneFor(v) /\ SnapshotGone(v) /\ szv.s = "gone"
        /\ FinishCleanup(v)
        /\ UNCHANGED <<szv, xferVars, scr>>
  /\ UNCHANGED <<armed, relay, pv, pvc, sdata, snode, tzv, tdata, tsnap, tnode>>

(* Terminal phases: only the finalizer of a deleted CR is left to remove.  *)
ReleaseTerminal ==
  /\ ~armed /\ evac.phase \in Terminal /\ cr = "deleting"
  /\ cr' = Released(cr)
  /\ UNCHANGED <<evac, armed, relay, k8sVars, srcVars, xferVars, tgtVars>>

-----------------------------------------------------------------------------
(* Abort (abort.rs): in phase Aborting, or when the CR is deleted before   *)
(* the commit point.  Write 1 is the Aborting status.                      *)

AbortTargetVolume(n) ==
  LET d == Wrote(n, 2, DeletedTZV(tzv), tzv) IN
  /\ tzv # "none"
  /\ tzv' = Wrote(n, 3, IF tnode THEN d ELSE "none", d)
  /\ UNCHANGED <<pv, lock, szv, xferVars, cr>>

(* A dataset landed and no ZFSVolume owns it: create one to delete it.     *)
AdoptOrphan(v, n) ==
  /\ tzv = "none" /\ Rst(v).s = "Done" /\ szv.s # "gone"
  /\ tzv' = Wrote(n, 2, "Pending", tzv)
  /\ UNCHANGED <<pv, lock, szv, xferVars, cr>>

AbortTransferCRs(v, n) ==
  /\ tzv = "none" /\ ~(Rst(v).s = "Done" /\ szv.s # "gone") /\ ~NoneFor(v)
  /\ CleanupTransferCRs(n, 2)
  /\ UNCHANGED <<pv, lock, szv, tzv, cr>>

(* Restore the reclaim policy, unlock, finish a deletion the user asked    *)
(* for, drop the guard, and end: writes 2 .. 7.                            *)
AbortRelease(v, deleted, n) ==
  LET recorded == v.orig # "None"
      reclaim == pvc = "gone" /\ pv.obj = "none" /\ v.orig = "Delete"
  IN
  /\ pv' = IF recorded /\ pv.obj = "old" THEN Wrote(n, 2, [pv EXCEPT !.policy = v.orig], pv) ELSE pv
  /\ lock' = IF recorded THEN Wrote(n, 3, FALSE, lock) ELSE lock
  /\ IF recorded THEN ReleaseSource(n, 4, reclaim) ELSE UNCHANGED szv
  /\ cr' = Wrote(n, 7, IF deleted THEN Released(cr) ELSE cr, cr)
  /\ UNCHANGED <<xferVars, tzv>>

(* deleted: the reconcile was called with a CR that is being deleted.      *)
Abort(v, deleted) ==
  /\ ~armed /\ cr # "gone"
  /\ \/ v.phase = "Aborting"
     \/ deleted /\ v.phase \in CancelablePhase
  /\ \E n \in Cut(7) :
       LET busy == v.target /\ v.attempt > 0 /\ (tzv # "none" \/ ~NoneFor(v))
           ends == n = 7 /\ ~deleted /\ ~busy
       IN
       /\ relay' = Wrote(n, 1, NoRelay, relay)
       /\ evac' \in IF ends THEN {Advance(v, "Failed")}
                     ELSE IF v.phase # "Aborting" THEN {Wrote(n, 1, Advance(v, "Aborting"), evac)}
                     ELSE IF busy /\ n = 7 THEN Waits(v) ELSE {evac}
       /\ IF busy THEN AbortTargetVolume(n) \/ AdoptOrphan(v, n) \/ AbortTransferCRs(v, n)
          ELSE AbortRelease(v, deleted, n)
  /\ UNCHANGED <<armed, pvc, wanted, sdata, snode, tdata, tsnap, scr, tnode>>

-----------------------------------------------------------------------------
(* The controller                                                          *)

(* The process dies: the in-memory relay and the running reconcile go.     *)
Crash ==
  /\ armed \/ relay # NoRelay
  /\ armed' = FALSE /\ relay' = NoRelay
  /\ UNCHANGED <<evac, cr, k8sVars, srcVars, xferVars, tgtVars>>

Reconcile ==
  \/ Begin \/ GiveUp(evac)
  \/ Pending(evac) \/ Guarding(evac) \/ Retaining(evac) \/ Locking(evac)
  \/ Quiescing(evac) \/ TargetSelecting(evac)
  \/ \E b \in SeenStatus(Bkp(evac)), r \in SeenStatus(Rst(evac)) :
       Transferring(evac, b, r) \/ TransferWaits(evac, b, r)
  \/ Adopting(evac) \/ Committing(evac) \/ Swapping(evac) \/ CleaningUp(evac)
  \/ ReleaseTerminal \/ Abort(evac, cr = "deleting")

-----------------------------------------------------------------------------
(* Users and Kubernetes                                                    *)

UserDeletesPVC ==
  /\ pvc = "ours" /\ pvc' = "gone"
  /\ pv' = [pv EXCEPT !.bound = FALSE]
  /\ UNCHANGED <<ctlVars, wanted, lock, srcVars, xferVars, tgtVars>>

UserRecreatesPVC ==
  /\ "pvc" \in Reused /\ pvc = "gone" /\ pvc' = "other"
  /\ UNCHANGED <<ctlVars, pv, wanted, lock, srcVars, xferVars, tgtVars>>

(* The annotation or the taint is removed, or put back.                    *)
UserTogglesTrigger ==
  /\ Trigger = "Annotation" => pv.obj # "none"
  /\ Trigger = "NodeTaint" => snode
  /\ wanted' = ~wanted
  /\ UNCHANGED <<ctlVars, pv, pvc, lock, srcVars, xferVars, tgtVars>>

UserDeletesEvacuation ==
  /\ cr \in {"bare", "live"} /\ cr' = (IF cr = "bare" THEN "gone" ELSE "deleting")
  /\ UNCHANGED <<evac, armed, relay, k8sVars, srcVars, xferVars, tgtVars>>

AdminDeletesPV ==
  /\ pv.obj # "none" /\ ~pv.deleting
  /\ pv' = [pv EXCEPT !.deleting = TRUE]
  /\ UNCHANGED <<ctlVars, pvc, wanted, lock, srcVars, xferVars, tgtVars>>

(* pv-protection holds a PV until it is no longer bound.                   *)
PVFinalized ==
  /\ pv.deleting /\ ~pv.bound /\ pv' = NoPV
  /\ UNCHANGED <<ctlVars, pvc, wanted, lock, srcVars, xferVars, tgtVars>>

(* An operator force-replaces the recorded PV by one of the same name.     *)
OperatorReplacesPV ==
  /\ "pv" \in Reused /\ evac.orig # "None" /\ pv.obj = "old"
  /\ pv' = [pv EXCEPT !.obj = "foreign", !.deleting = FALSE]
  /\ UNCHANGED <<ctlVars, pvc, wanted, lock, srcVars, xferVars, tgtVars>>

PVControllerBinds ==
  /\ pv.obj = "new" /\ ~pv.bound /\ ~pv.deleting /\ pvc = "ours"
  /\ pv' = [pv EXCEPT !.bound = TRUE]
  /\ UNCHANGED <<ctlVars, pvc, wanted, lock, srcVars, xferVars, tgtVars>>

(* A released PV with policy Delete: its ZFSVolume is deleted, then itself.*)
ProvisionerReclaims ==
  /\ pv.obj # "none" /\ ~pv.bound /\ pvc # "ours" /\ pv.policy = "Delete"
  /\ pv' = NoPV
  /\ IF pv.obj = "new"
     THEN tzv' = DeletedTZV(tzv) /\ UNCHANGED szv
     ELSE szv' = Deleted(szv) /\ UNCHANGED tzv
  /\ UNCHANGED <<ctlVars, pvc, wanted, lock, sdata, snode, xferVars, tdata, tsnap, scr, tnode>>

SourceNodeLeaves ==
  /\ "source" \in Removable /\ snode /\ snode' = FALSE
  /\ UNCHANGED <<ctlVars, k8sVars, szv, sdata, xferVars, tgtVars>>

TargetNodeLeaves ==
  /\ "target" \in Removable /\ tnode /\ tnode' = FALSE
  /\ UNCHANGED <<ctlVars, k8sVars, srcVars, xferVars, tzv, tdata, tsnap, scr>>

-----------------------------------------------------------------------------
(* zfs-localpv node agents and the bytes they move (external)              *)

SourceConnects ==
  /\ snode /\ sdata /\ bkp = InitCR /\ relay.attempt = tried
  /\ ~relay.connected /\ ~relay.finished
  /\ relay' = [relay EXCEPT !.connected = TRUE]
  /\ UNCHANGED <<evac, cr, armed, k8sVars, srcVars, xferVars, tgtVars>>

(* zfs send has written its last byte (possibly only into the buffer).     *)
SourceSends ==
  /\ snode /\ bkp = InitCR /\ relay.connected /\ bkp' = [bkp EXCEPT !.s = "Sent"]
  /\ UNCHANGED <<ctlVars, k8sVars, srcVars, rst, tried, tgtVars>>

TargetReceives ==
  /\ tnode /\ rst = InitCR /\ relay.connected /\ ~relay.finished /\ relay.bytes = 0
  /\ relay' = [relay EXCEPT !.bytes = 1]
  /\ UNCHANGED <<evac, cr, armed, k8sVars, srcVars, xferVars, tgtVars>>

(* The stream is complete: dataset and transfer snapshot exist.            *)
DatasetLands ==
  /\ tnode /\ rst = InitCR /\ bkp.s \in {"Sent", "Done"}
  /\ relay.bytes > 0 /\ ~relay.finished
  /\ relay' = [relay EXCEPT !.finished = TRUE]
  /\ rst' = [rst EXCEPT !.s = "Recvd"]
  /\ tdata' = "full" /\ tsnap' = TRUE
  /\ UNCHANGED <<evac, cr, armed, k8sVars, srcVars, bkp, tried, tzv, scr, tnode>>

RelayBreaks ==
  /\ relay.connected /\ ~relay.finished /\ relay' = [relay EXCEPT !.finished = TRUE]
  /\ UNCHANGED <<evac, cr, armed, k8sVars, srcVars, xferVars, tgtVars>>

BackupDone ==
  /\ snode /\ bkp.s = "Sent" /\ bkp' = [bkp EXCEPT !.s = "Done"]
  /\ UNCHANGED <<ctlVars, k8sVars, srcVars, rst, tried, tgtVars>>

BackupFails ==
  /\ snode /\ bkp.s \in {"Init", "Sent"} /\ bkp' = [bkp EXCEPT !.s = "Failed"]
  /\ UNCHANGED <<ctlVars, k8sVars, srcVars, rst, tried, tgtVars>>

BackupFinalized ==
  /\ snode /\ bkp.del /\ bkp' = NoCR
  /\ UNCHANGED <<ctlVars, k8sVars, srcVars, rst, tried, tgtVars>>

RestoreCompletes ==
  /\ tnode /\ rst.s = "Recvd" /\ rst' = [rst EXCEPT !.s = "Done"]
  /\ UNCHANGED <<ctlVars, k8sVars, srcVars, bkp, tried, tgtVars>>

RestoreFails ==
  /\ tnode /\ rst.s = "Init" /\ rst' = [rst EXCEPT !.s = "Failed"]
  /\ UNCHANGED <<ctlVars, k8sVars, srcVars, bkp, tried, tgtVars>>

RestoreFinalized ==
  /\ tnode /\ rst.del /\ rst' = NoCR
  /\ UNCHANGED <<ctlVars, k8sVars, srcVars, bkp, tried, tgtVars>>

(* The agent takes over the dataset of a new ZFSVolume, creating an empty  *)
(* one if there is none.                                                   *)
TargetAdopts ==
  /\ tnode /\ tzv = "Pending" /\ tzv' = "Ready"
  /\ tdata' = IF tdata = "none" THEN "empty" ELSE tdata
  /\ UNCHANGED <<ctlVars, k8sVars, srcVars, xferVars, tsnap, scr, tnode>>

TargetAdoptFails ==
  /\ tnode /\ tzv = "Pending" /\ tzv' = "Failed"
  /\ UNCHANGED <<ctlVars, k8sVars, srcVars, xferVars, tdata, tsnap, scr, tnode>>

TargetDestroys ==
  /\ tnode /\ tzv = "Deleting" /\ tzv' = "none" /\ tdata' = "none" /\ tsnap' = FALSE
  /\ UNCHANGED <<ctlVars, k8sVars, srcVars, xferVars, scr, tnode>>

(* Our guard keeps the CR, and with it the dataset, from being destroyed.  *)
SourceDestroys ==
  /\ snode /\ szv.s = "deleting" /\ ~szv.guard
  /\ szv' = GoneZV /\ sdata' = FALSE
  /\ UNCHANGED <<ctlVars, k8sVars, snode, xferVars, tgtVars>>

(* The agent's create is a no-op on an existing snapshot.                  *)
SnapshotRegistered ==
  /\ tnode /\ scr = "Pending" /\ scr' = "Ready"
  /\ tsnap' = (tdata # "none")
  /\ UNCHANGED <<ctlVars, k8sVars, srcVars, xferVars, tzv, tdata, tnode>>

SnapshotDestroyed ==
  /\ tnode /\ scr = "Deleting" /\ scr' = "none" /\ tsnap' = FALSE
  /\ UNCHANGED <<ctlVars, k8sVars, srcVars, xferVars, tzv, tdata, tnode>>

-----------------------------------------------------------------------------
Users == UserDeletesPVC \/ UserRecreatesPVC \/ UserTogglesTrigger \/ UserDeletesEvacuation
         \/ AdminDeletesPV \/ OperatorReplacesPV
Cluster == PVFinalized \/ PVControllerBinds \/ ProvisionerReclaims
           \/ SourceNodeLeaves \/ TargetNodeLeaves
Stream == SourceConnects \/ SourceSends \/ TargetReceives \/ DatasetLands \/ RelayBreaks
          \/ BackupDone \/ BackupFails \/ BackupFinalized
          \/ RestoreCompletes \/ RestoreFails \/ RestoreFinalized
Agents == TargetAdopts \/ TargetAdoptFails \/ TargetDestroys \/ SourceDestroys
          \/ SnapshotRegistered \/ SnapshotDestroyed

(* The fault period may end; no handler changes `faulty`.                  *)
FaultsEnd == faulty /\ faulty' = FALSE /\ UNCHANGED <<ctlVars, k8sVars, srcVars, xferVars, tgtVars>>

Step == Reconcile \/ Crash \/ Users \/ Cluster \/ Stream \/ Agents
SameFaults(A) == A /\ UNCHANGED faulty
Next == SameFaults(Step) \/ FaultsEnd

Spec == Init /\ [][Next]_vars

(* A reconcile that ends early is requeued (Action::requeue, error_policy),*)
(* so a phase whose work is possible again and again is worked on.  The    *)
(* node agents and the PV controller retry too.  Users, node removal,      *)
(* crashes and stream progress get no fairness.  WF of Swapping assumes    *)
(* that pods or a missing cordon do not hold the old-PV delete forever     *)
(* (blocking_reason asks the operator for the cordon).                     *)
ControllerFairness ==
  /\ WF_vars(FaultsEnd)
  /\ WF_vars(SameFaults(Begin)) /\ WF_vars(SameFaults(GiveUp(evac)))
  /\ WF_vars(SameFaults(ReleaseTerminal))
  /\ SF_vars(SameFaults(Transferring(evac, Reported(Bkp(evac)), Reported(Rst(evac)))))
  /\ WF_vars(SameFaults(Swapping(evac))) /\ WF_vars(SameFaults(CleaningUp(evac)))
  /\ WF_vars(SameFaults(Abort(evac, cr = "deleting")))
AgentFairness ==
  /\ SF_vars(SameFaults(PVControllerBinds)) /\ WF_vars(SameFaults(PVFinalized))
  /\ WF_vars(SameFaults(BackupFinalized)) /\ WF_vars(SameFaults(RestoreFinalized))
  /\ SF_vars(SameFaults(TargetAdopts)) /\ WF_vars(SameFaults(TargetDestroys))
  /\ WF_vars(SameFaults(SnapshotRegistered)) /\ WF_vars(SameFaults(SnapshotDestroyed))
  /\ WF_vars(SameFaults(SourceDestroys))
FairSpec == Spec /\ ControllerFairness /\ AgentFairness

-----------------------------------------------------------------------------
(* Correctness                                                             *)

(* As long as the claim exists, whatever PV carries its name has the data  *)
(* behind it: the old PV the source dataset, the new PV an adopted copy of *)
(* all of it, and in the swap window without a PV a committed evacuation   *)
(* that will recreate it holds both copies.  Across PVC deletion, reclaim, *)
(* aborts, crashes between writes and old statuses of the transfer CRs     *)
(* (pv_swap.rs, abort.rs).  Old statuses of the evacuation itself are the  *)
(* subject of StaleEvacuation.  The disk leaves with a removed node, so    *)
(* its data is not counted as destroyed; a PV an operator force-replaced   *)
(* is their own.                                                           *)
OldPVBacked == pv.obj = "old" => sdata
NewPVBacked == pv.obj = "new" => tzv = "Ready" /\ tdata = "full"
SwapRecoverable ==
  pv.obj = "none" => /\ evac.phase = "Swapping" /\ evac.committed /\ cr # "gone"
                     /\ tzv = "Ready" /\ tdata = "full" /\ sdata
PVBacked == pvc = "ours" => OldPVBacked /\ NewPVBacked /\ SwapRecoverable

(* What makes PVBacked inductive: who may remove a PV, a ZFSVolume or a    *)
(* copy in which phase.                                                    *)
CommitMarksPhase == evac.committed <=> evac.phase \in {"Swapping", "CleaningUp", "Completed"}
SourceRecorded == evac.phase \notin {"Pending", "Aborting", "Failed"} => evac.orig # "None"
FinalizerHolds ==
  /\ armed => evac.phase \in CancelablePhase /\ cr \in {"live", "deleting"}
  /\ evac.phase \notin {"Pending", "Aborting"} \cup Terminal => cr \in {"live", "deleting"}
ClaimKeepsPV ==
  pvc = "ours" =>
    /\ pv.obj \in {"old", "foreign"} => pv.bound
    /\ pv.obj = "none" => evac.phase = "Swapping"
    /\ evac.phase \in {"CleaningUp", "Completed"} => pv.obj \in {"new", "foreign"} /\ pv.bound
NewPVCommitted == pv.obj = "new" => evac.committed
SourceKept ==
  pvc = "ours" /\ (pv.obj = "old" \/ (evac.phase = "Swapping" /\ pv.obj # "foreign"))
    => szv.s = "live" /\ sdata
CopyKept ==
  /\ evac.phase \in CancelablePhase => tzv # "Deleting"
  /\ evac.phase \in CancelablePhase /\ rst.s \in {"Recvd", "Done"} => tdata = "full"
  /\ evac.phase \in {"Adopting", "Committing"} => tdata = "full"
  /\ evac.phase = "Committing" => tzv = "Ready"
  /\ evac.committed /\ pvc = "ours" => tzv = "Ready" /\ tdata = "full"
GuardSet ==
  evac.phase \in {"Retaining", "Locking", "Quiescing", "TargetSelecting", "Transferring",
                  "Adopting", "Committing", "Swapping"}
    => szv.guard \/ szv.s = "gone"
Safe == /\ CommitMarksPhase /\ SourceRecorded /\ FinalizerHolds /\ ClaimKeepsPV
        /\ NewPVCommitted /\ SourceKept /\ CopyKept /\ GuardSet

(* What makes AbortUnwinds and CompletedSettles hold inductively: what exists is  *)
(* on record, so that whoever ends the evacuation finds it.                *)
NothingTaken ==
  /\ evac.phase = "Pending" => evac.orig = "None"
  /\ evac.orig = "None" => ~lock /\ ~szv.guard /\ ~evac.target
AttemptRecorded ==
  /\ TransferCRsGone \/ tried = evac.attempt
  /\ evac.attempt > 0 \/ evac.phase \in {"Transferring", "Adopting", "Committing"} => evac.target
  /\ tzv # "none" \/ ~TransferCRsGone \/ evac.phase \in {"Adopting", "Committing"}
       => evac.attempt > 0
AbortHeld == evac.phase = "Aborting" => cr # "bare"
RelayOwned == relay # NoRelay => evac.phase \in {"Transferring", "Aborting"}
PolicyBack == evac.phase \in {"CleaningUp", "Completed"} /\ pv.obj = "new" => pv.policy = evac.orig
SnapshotOwned ==
  /\ scr # "none" => evac.phase = "CleaningUp"
  /\ evac.committed => tzv \in {"none", "Ready", "Deleting"}
  /\ evac.snapDel =>
       /\ evac.phase \in {"CleaningUp", "Completed"} /\ TransferCRsGone
       /\ scr = "Deleting" \/ (scr = "none" /\ (tnode /\ tzv = "Ready" => ~tsnap))
NothingLeft ==
  evac.phase = "Completed" =>
    ~lock /\ szv.s = "gone" /\ TransferCRsGone /\ (evac.snapDel \/ tzv = "none")
Recorded == /\ NothingTaken /\ AttemptRecorded /\ AbortHeld /\ RelayOwned
            /\ PolicyBack /\ SnapshotOwned /\ NothingLeft

IInv == TypeOK /\ Safe /\ Recorded

(* The evacuation implements VolumeMove: it moves the volume or leaves it  *)
(* where it is, and gives up a copy only when the other one is home.       *)
Home == IF ~evac.committed THEN "source"
        ELSE IF evac.phase = "Swapping" THEN "moving" ELSE "target"
Adopted == tzv = "Ready" /\ tdata = "full"
Claimed == pvc = "ours" /\ pv.obj # "foreign"
Move == INSTANCE VolumeMove WITH home <- Home, src <- sdata, dst <- Adopted, claimed <- Claimed
MovesVolume == Move!Spec

(* Once the commit record is written the evacuation only rolls forward,    *)
(* and deleting its CR cannot make it disappear before it is Completed.    *)
RollForwardOnly ==
  [][evac.committed => /\ evac'.committed
                       /\ evac'.phase \in {"Swapping", "CleaningUp", "Completed"}
                       /\ cr' = "gone" => evac'.phase = "Completed"]_vars

(* The end of an abort leaves the volume as it was (abort.rs:1-3): when    *)
(* abort.rs records Failed, and whenever a CR that is not Completed or     *)
(* Failed disappears, the attach lock, the guard, the target ZFSVolume,    *)
(* the transfer CRs and the relay are gone and the old PV, if it exists,   *)
(* has its reclaim policy back.  What fail() ends is not covered: see      *)
(* EndedUnwound.                                                           *)
Unwound == /\ ~lock /\ ~szv.guard /\ tzv = "none" /\ TransferCRsGone /\ relay = NoRelay
           /\ pv.obj = "old" /\ evac.orig # "None" => pv.policy = evac.orig
AbortUnwinds ==
  [][\/ evac.phase = "Aborting" /\ evac'.phase = "Failed"
     \/ cr # "gone" /\ cr' = "gone" /\ evac'.phase \notin Terminal
       => Unwound']_vars

(* From Retaining to the swap the guard finalizer keeps the source dataset *)
(* alive, even when the claim is deleted and the provisioner reclaims it.  *)
GuardHolds ==
  [][sdata /\ ~sdata' =>
       evac.phase \notin {"Retaining", "Locking", "Quiescing", "TargetSelecting", "Transferring",
                          "Adopting", "Committing", "Swapping"}]_vars

(* The source ZFSVolume of a live claim is deleted only when the claim is  *)
(* bound to the replacement PV, the transfer CRs are gone and no transfer  *)
(* snapshot is left on the target (state_machine.rs, cleaning_up).         *)
SourceDeletedLast ==
  [][szv.s = "live" /\ szv'.s # "live" /\ pvc = "ours" =>
       /\ pv.obj \in {"new", "foreign"} /\ pv.bound
       /\ TransferCRsGone /\ (tnode => ~tsnap)]_vars

(* A Completed evacuation leaves nothing behind: no lock, no source        *)
(* ZFSVolume, no transfer CR, no transfer snapshot pinning blocks on the   *)
(* target, and the replacement PV has the original reclaim policy.         *)
CompletedSettles ==
  evac.phase = "Completed" =>
     /\ ~lock /\ szv.s = "gone" /\ TransferCRsGone /\ scr = "none" /\ relay = NoRelay
     /\ tnode /\ tzv = "Ready" => ~tsnap
     /\ pv.obj = "new" => pv.policy = evac.orig

(* A new attempt starts only when the CRs of the previous one are gone,    *)
(* and no attempt's CR is ever without a status record that names it       *)
(* (retry_or_fail, start_attempt).                                         *)
OneAttemptAtATime ==
  [][/\ evac'.attempt # evac.attempt => evac'.attempt = evac.attempt + 1 /\ TransferCRsGone
     /\ ~TransferCRsGone' => evac'.attempt > 0]_vars

(* A committed evacuation completes unless the claim is deleted or an      *)
(* operator replaces the PV: neither API errors between two writes, nor a  *)
(* PV somebody else is deleting, nor a source node that leaves stop it     *)
(* (pv_swap.rs swapping, cleaning_up).                                     *)
CommittedCompletes ==
  evac.committed ~> (evac.phase = "Completed" \/ pvc # "ours" \/ pv.obj = "foreign")

(* A transfer ends: every attempt is decided by the agents, the timeout or *)
(* the stall detector, and attempts are bounded (transfer_verdict).  Lost  *)
(* API calls between relay, record and ZFSBackup do not stop it, save one: *)
(* a relay registered for an attempt whose record was never written makes  *)
(* every later reconcile of the same process back off (transfer.rs:439).   *)
TransferEnds ==
  (evac.phase = "Transferring" /\ snode /\ tnode)
    ~> (evac.phase # "Transferring" \/ ~snode \/ ~tnode \/ relay.attempt > evac.attempt)

(* An abort ends: the CR is Failed or gone.                                *)
Ended == evac.phase = "Failed" \/ cr = "gone"
AbortEnds == evac.phase = "Aborting" ~> Ended

(* An abort during which no restore reports Done ends.                     *)
UnlandedAbortEnds == evac.phase = "Aborting" ~> (Ended \/ rst.s = "Done")

(* README.md: cancellation is honoured any time before the old-PV delete.  *)
CancelHonouredUntilDelete ==
  [][pv.obj = "old" /\ ~pv.deleting /\ ~armed /\ CancelReason(evac) /\ evac.phase = "Swapping"
       => evac'.phase # "Swapping" \/ pv' = pv \/ pv'.obj = "foreign"]_vars

(* zfs_evacuation.rs:15: "Finalizer on ZFSEvacuation so deletion runs      *)
(* abort logic": an evacuation deleted before it completed leaves neither  *)
(* the attach lock nor the guard behind.                                   *)
EndedUnwound == cr = "gone" /\ evac.phase # "Completed" => ~lock /\ ~szv.guard

(* target.rs:106: "Failed evacuations reserve nothing (their target never  *)
(* kept data)".                                                            *)
FailedKeepsNoCopy == evac.phase = "Failed" => ~Adopted

(* transfer.rs:196-200: one clock bounds every state of a transfer that is *)
(* not flowing, while the request stands, also when a node leaves.         *)
TransferBounded == <>[]wanted => (evac.phase = "Transferring" ~> evac.phase # "Transferring")

(* abort.rs:1: an abort unwinds everything, the dataset on the target too. *)
AbortDestroysCopy == evac.phase = "Failed" /\ tzv = "none" /\ tnode => tdata = "none"
=============================================================================
