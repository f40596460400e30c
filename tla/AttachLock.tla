------------------------------ MODULE AttachLock ------------------------------
(***************************************************************************)
(* What keeps writers off the source volume while it is copied and its PV  *)
(* is swapped: the attach lock (EvacuationParams and the admission policy  *)
(* of deploy/admission.yaml), the quiescence and settle checks of          *)
(* state_machine.rs, the checks of Committing and Swapping in pv_swap.rs,  *)
(* and the node's cordon or taint.  One evacuation, the pods that use its  *)
(* claim, the scheduler and an operator.                                   *)
(*                                                                         *)
(* A reconcile lists the pods, then reads the node and acts: anything may  *)
(* happen between the two, and between the last check and the PV delete.   *)
(* Copying stands for TargetSelecting, Transferring and Adopting, which    *)
(* module Evacuation has in full.                                          *)
(***************************************************************************)
EXTENDS Naturals

CONSTANTS
  Pod,          \* pods that may reference the claim
  EarlyKinds,   \* kinds of pods created while no lock is enforced
  Kinds,        \* kinds of pods users try to create under the lock
  Modes,        \* the values of spec.mode, when the evacuation is created and later
  Settle,       \* spec.settle_seconds
  Propagation,  \* LOCK_PROPAGATION_SECONDS
  MayUncordon,  \* modes in which the operator may make the source schedulable again
  MayEditMode   \* may the operator edit spec.mode after the lock was taken?

PodKind == {"routed", "named", "cordonTolerant", "evacuateTolerant", "noExecuteTolerant"}

ASSUME LockAssumption ==
  /\ Kinds \subseteq PodKind /\ EarlyKinds \subseteq PodKind
  /\ Modes \subseteq {"WhenIdle", "WhenClaimed"}
  /\ Settle \in Nat /\ Propagation \in Nat \ {0}
  /\ MayUncordon \subseteq {"WhenIdle", "WhenClaimed"} /\ MayEditMode \in BOOLEAN

VARIABLES
  phase, mode,  \* status.phase, spec.mode
  lockedAt,     \* status.locked_at, as an age
  quiescedAt,   \* status.quiesced_at, as an age; NoAge when not set
  message,      \* status.message of a blocked evacuation
  pc, listed,   \* the reconcile: how far it is, the pods it listed
  params,       \* the list of EvacuationParams that holds the claim's key
  enforced,     \* the same, as the admission policy's cache has it
  lag,          \* time since params changed
  pods, node,   \* where each pod is and its kind; what the source node repels
  pv,           \* the PV: old, none (deleted), new
  copied,       \* a snapshot of the source was taken for the copy
  dirty,        \* the source was written after that snapshot
  released,     \* time since a pod last ran on the source
  unblocked     \* time since a reconcile last found the evacuation blocked

ctlVars == <<phase, mode, lockedAt, quiescedAt, message, pc, listed>>
lockVars == <<params, enforced, lag>>
podVars == <<pods, node>>
dataVars == <<pv, copied, dirty>>
history == <<released, unblocked>>
vars == <<ctlVars, lockVars, podVars, dataVars, history>>

-----------------------------------------------------------------------------
(* Pods, the node and the admission policy                                 *)

NoPod == [at |-> "none", kind |-> "routed"]
PodType == [at: {"none", "pending", "source", "target"}, kind: PodKind]

(* What keeps pods off the source: nothing, spec.unschedulable, or the     *)
(* evacuate taint with a hard effect; node_repels_pods.                    *)
NodeState == {"open", "cordoned", "NoSchedule", "NoExecute"}
RepelsPods == node # "open"

(* Kubernetes: does a pod of this kind tolerate what the node repels with? *)
(* A noExecuteTolerant pod has a toleration without a key and the effect   *)
(* NoExecute.                                                              *)
Tolerates(kind, state) ==
  \/ kind = "cordonTolerant" /\ state = "cordoned"
  \/ kind = "evacuateTolerant" /\ state \in {"NoSchedule", "NoExecute"}
  \/ kind = "noExecuteTolerant" /\ state = "NoExecute"

(* The CEL variable bypassesCordon of the policy.                          *)
(* Mutant: only spec.nodeName counts as a bypass.                          *)
BypassesByName(kind) == kind = "named"
BypassesCordon(kind) == kind \in {"named", "cordonTolerant", "evacuateTolerant"}

(* The two validations: the lists as the policy's param cache has them.    *)
Admitted(kind) ==
  /\ enforced # "pvcKeys"
  /\ ~(enforced = "claimablePvcKeys" /\ BypassesCordon(kind))

Scheduled == {p \in Pod : pods[p].at \in {"source", "target"}}
Unscheduled == {p \in Pod : pods[p].at = "pending"}

Creatable == IF enforced = "none" THEN EarlyKinds ELSE Kinds

(* A user creates a pod that references the claim.  With spec.nodeName it  *)
(* is bound at creation; the volume is on the source until it has moved.   *)
CreatePod(p, kind) ==
  /\ pods[p].at = "none"
  /\ Admitted(kind)
  /\ pods' = [pods EXCEPT ![p] =
       [at |-> IF kind # "named" THEN "pending" ELSE IF pv = "new" THEN "target" ELSE "source",
        kind |-> kind]]
  /\ UNCHANGED <<ctlVars, lockVars, node, dataVars, history>>

(* The scheduler: PV affinity pins the pod to the volume's node.  A claim  *)
(* whose PV is gone cannot be scheduled.                                   *)
BindPod(p) ==
  /\ pods[p].at = "pending"
  /\ \/ /\ pv = "old"
        /\ ~RepelsPods \/ Tolerates(pods[p].kind, node)
        /\ pods' = [pods EXCEPT ![p].at = "source"]
     \/ /\ pv = "new"
        /\ pods' = [pods EXCEPT ![p].at = "target"]
  /\ UNCHANGED <<ctlVars, lockVars, node, dataVars, history>>

(* A running pod writes to the volume it has mounted.                      *)
WritePod(p) ==
  /\ pods[p].at = "source" /\ copied
  /\ dirty' = TRUE
  /\ released' = 0
  /\ UNCHANGED <<ctlVars, lockVars, podVars, pv, copied, unblocked>>

(* A pod object disappears, after its volumes were unmounted.              *)
DeletePod(p) ==
  /\ pods[p].at # "none"
  /\ pods' = [pods EXCEPT ![p] = NoPod]
  /\ released' = IF pods[p].at = "source" THEN 0 ELSE released
  /\ UNCHANGED <<ctlVars, lockVars, node, dataVars, unblocked>>

Repel(state) ==
  /\ node = "open"
  /\ node' = state
  /\ UNCHANGED <<ctlVars, lockVars, pods, dataVars, history>>

Uncordon ==
  /\ mode \in MayUncordon /\ RepelsPods
  /\ node' = "open"
  /\ UNCHANGED <<ctlVars, lockVars, pods, dataVars, history>>

(* The policy's informer sees the current params.                          *)
PropagateLock ==
  /\ enforced # params
  /\ enforced' = params
  /\ UNCHANGED <<ctlVars, params, lag, podVars, dataVars, history>>

-----------------------------------------------------------------------------
(* The evacuation                                                          *)

NoAge == Settle + 1
NoMessage == [scheduled |-> {}, unscheduled |-> {}, cordon |-> FALSE]
BlockingPods(s, u) == [scheduled |-> s, unscheduled |-> u, cordon |-> FALSE]

NotListed == [scheduled |-> {}, unscheduled |-> {}]

(* blocking_reason: of the pods listed before and the node as it is now.   *)
(* Mutant: WhenClaimed with no pods does not ask for the cordon.           *)
BlockingReasonPodsOnly ==
  IF mode = "WhenIdle" THEN BlockingPods(listed.scheduled, listed.unscheduled)
  ELSE IF listed.scheduled # {} THEN BlockingPods(listed.scheduled, {})
  ELSE [scheduled |-> {}, unscheduled |-> listed.unscheduled,
        cordon |-> ~RepelsPods /\ listed.unscheduled # {}]
BlockingReason ==
  IF mode = "WhenIdle" THEN BlockingPods(listed.scheduled, listed.unscheduled)
  ELSE IF listed.scheduled # {} THEN BlockingPods(listed.scheduled, {})
  ELSE [scheduled |-> {}, unscheduled |-> IF RepelsPods THEN {} ELSE listed.unscheduled,
        cordon |-> ~RepelsPods]
Blocked == BlockingReason # NoMessage

(* EvacuationParamsSpec::lock: the list for the mode, and no other.        *)
ListFor(m) == IF m = "WhenIdle" THEN "pvcKeys" ELSE "claimablePvcKeys"

Lock ==
  /\ phase = "Locking" /\ pc = "idle"
  /\ params' = ListFor(mode) /\ lag' = IF params = ListFor(mode) THEN lag ELSE 0
  /\ pc' = "locked"
  /\ UNCHANGED <<phase, mode, lockedAt, quiescedAt, message, listed, enforced,
                 podVars, dataVars, history>>

(* advance: every phase change clears the message.                         *)
Advance(p) == phase' = p /\ message' = NoMessage /\ pc' = "idle" /\ listed' = NotListed

LockRecorded ==
  /\ phase = "Locking" /\ pc = "locked"
  /\ lockedAt' = 0
  /\ Advance("Quiescing")
  /\ UNCHANGED <<mode, quiescedAt, lockVars, podVars, dataVars, history>>

(* The first half of a reconcile: pods_referencing_pvc.                    *)
(* Mutant: the pods are listed without waiting for the lock to propagate.  *)
ListPodsAtOnce ==
  /\ phase \in {"Quiescing", "Committing"} \/ (phase = "Swapping" /\ pv = "old")
  /\ pc = "idle"
  /\ listed' = [scheduled |-> Scheduled, unscheduled |-> Unscheduled]
  /\ pc' = "listed"
  /\ UNCHANGED <<phase, mode, lockedAt, quiescedAt, message, lockVars, podVars, dataVars, history>>
ListPods ==
  /\ phase \in {"Quiescing", "Committing"} \/ (phase = "Swapping" /\ pv = "old")
  /\ phase = "Quiescing" => lockedAt >= Propagation
  /\ pc = "idle"
  /\ listed' = [scheduled |-> Scheduled, unscheduled |-> Unscheduled]
  /\ pc' = "listed"
  /\ UNCHANGED <<phase, mode, lockedAt, quiescedAt, message, lockVars, podVars, dataVars, history>>

(* wait: the status is written only if the message changes, and with it    *)
(* the quiesced_at the handler changed in memory.                          *)
WaitBlocked(clear) ==
  /\ Blocked
  /\ message' = BlockingReason
  /\ quiescedAt' = IF clear /\ message # BlockingReason THEN NoAge ELSE quiescedAt
  /\ unblocked' = 0
  /\ pc' = "idle" /\ listed' = NotListed
  /\ UNCHANGED <<phase, mode, lockedAt, lockVars, podVars, dataVars, released>>

(* Mutant: the settle period starts when the lock is taken.                *)
QuiescingSinceLock ==
  /\ phase = "Quiescing" /\ pc = "listed"
  /\ \/ WaitBlocked(TRUE)
     \/ /\ ~Blocked /\ lockedAt >= Settle
        /\ Advance("Copying")
        /\ UNCHANGED <<mode, lockedAt, quiescedAt, lockVars, podVars, dataVars, history>>
     \/ /\ ~Blocked /\ lockedAt < Settle
        /\ pc' = "idle" /\ listed' = NotListed
        /\ UNCHANGED <<phase, mode, lockedAt, quiescedAt, message, lockVars, podVars, dataVars, history>>
(* Mutant: the anchor is only kept in memory.                              *)
QuiescingUnrecorded ==
  /\ phase = "Quiescing" /\ pc = "listed"
  /\ \/ WaitBlocked(TRUE)
     \/ /\ ~Blocked
        /\ pc' = "idle" /\ listed' = NotListed
        /\ UNCHANGED <<phase, mode, lockedAt, quiescedAt, message, lockVars, podVars, dataVars, history>>
Quiescing ==
  /\ phase = "Quiescing" /\ pc = "listed"
  /\ \/ WaitBlocked(TRUE)
     \/ /\ ~Blocked /\ (quiescedAt = NoAge \/ quiescedAt < Settle)
        /\ quiescedAt' = IF quiescedAt = NoAge THEN 0 ELSE quiescedAt
        /\ pc' = "idle" /\ listed' = NotListed
        /\ UNCHANGED <<phase, mode, lockedAt, message, lockVars, podVars, dataVars, history>>
     \/ /\ ~Blocked /\ quiescedAt = Settle
        /\ Advance("Copying")
        /\ UNCHANGED <<mode, lockedAt, quiescedAt, lockVars, podVars, dataVars, history>>

(* The ZFSBackup of an attempt snapshots the source; a retry does it anew. *)
Snapshot ==
  /\ phase = "Copying" /\ pc = "idle"
  /\ copied' = TRUE /\ dirty' = FALSE
  /\ UNCHANGED <<ctlVars, lockVars, podVars, pv, history>>

CopyDone ==
  /\ phase = "Copying" /\ pc = "idle" /\ copied
  /\ Advance("Committing")
  /\ UNCHANGED <<mode, lockedAt, quiescedAt, lockVars, podVars, dataVars, history>>

(* Pods that must not be there at commit, and the hold for the cordon.     *)
Unexpected ==
  listed.scheduled \cup (IF mode = "WhenIdle" THEN listed.unscheduled ELSE {})
Committing ==
  /\ phase = "Committing" /\ pc = "listed"
  /\ \/ /\ Unexpected # {}
        /\ Advance("Aborting")
        /\ UNCHANGED <<mode, lockedAt, quiescedAt, lockVars, podVars, dataVars, history>>
     \/ /\ Unexpected = {}
        /\ WaitBlocked(FALSE)
     \/ /\ Unexpected = {} /\ ~Blocked
        /\ Advance("Swapping")
        /\ UNCHANGED <<mode, lockedAt, quiescedAt, lockVars, podVars, dataVars, history>>

(* Swapping re-checks and, one API call later, deletes the old PV.         *)
SwapCheck ==
  /\ phase = "Swapping" /\ pc = "listed"
  /\ \/ WaitBlocked(FALSE)
     \/ /\ ~Blocked
        /\ pc' = "checked"
        /\ UNCHANGED <<phase, mode, lockedAt, quiescedAt, message, listed, lockVars, podVars,
                       dataVars, history>>

DeleteOldPV ==
  /\ phase = "Swapping" /\ pc = "checked"
  /\ pv' = "none"
  /\ pc' = "idle" /\ listed' = NotListed
  /\ UNCHANGED <<phase, mode, lockedAt, quiescedAt, message, lockVars, podVars, copied, dirty, history>>

CreateNewPV ==
  /\ phase = "Swapping" /\ pc = "idle" /\ pv = "none"
  /\ pv' = "new"
  /\ Advance("CleaningUp")
  /\ UNCHANGED <<mode, lockedAt, quiescedAt, lockVars, podVars, copied, dirty, history>>

(* CleaningUp and abort end with unlock; before the commit a reconcile may *)
(* turn to Aborting (cancel, failed transfer).                             *)
Unlock ==
  /\ phase \in {"CleaningUp", "Aborting"} /\ pc = "idle"
  /\ params' = "none" /\ lag' = 0
  /\ Advance(IF phase = "Aborting" THEN "Failed" ELSE "Completed")
  /\ UNCHANGED <<mode, lockedAt, quiescedAt, enforced, podVars, dataVars, history>>

Cancel ==
  /\ phase \in {"Locking", "Quiescing", "Copying", "Committing"} /\ pc = "idle"
  /\ Advance("Aborting")
  /\ UNCHANGED <<mode, lockedAt, quiescedAt, lockVars, podVars, dataVars, history>>

(* The process dies, or an API call fails: the reconcile starts over.      *)
Restart ==
  /\ pc # "idle"
  /\ pc' = "idle" /\ listed' = NotListed
  /\ UNCHANGED <<phase, mode, lockedAt, quiescedAt, message, lockVars, podVars, dataVars, history>>

(* The operator edits spec.mode, in time for the lock or too late.         *)
EditMode ==
  /\ phase \notin {"Completed", "Failed"}
  /\ MayEditMode \/ (phase = "Locking" /\ pc = "idle")
  /\ mode' \in Modes \ {mode}
  /\ UNCHANGED <<phase, lockedAt, quiescedAt, message, pc, listed, lockVars, podVars, dataVars, history>>

(* Time passes.  The policy sees a change of its params in less than       *)
(* Propagation (the assumption behind LOCK_PROPAGATION_SECONDS); ages are  *)
(* capped.                                                                 *)
Older(age, cap) == IF age >= cap THEN age ELSE age + 1
Tick ==
  /\ enforced = params \/ lag + 1 < Propagation
  /\ lag' = Older(lag, Propagation)
  /\ lockedAt' = Older(lockedAt, IF Propagation > Settle THEN Propagation ELSE Settle)
  /\ quiescedAt' = IF quiescedAt = NoAge THEN NoAge ELSE Older(quiescedAt, Settle)
  /\ released' = IF \E p \in Pod : pods[p].at = "source" THEN 0 ELSE Older(released, Settle)
  /\ unblocked' = Older(unblocked, Settle)
  /\ UNCHANGED <<phase, mode, message, pc, listed, params, enforced, podVars, dataVars>>

-----------------------------------------------------------------------------
(* The specification                                                       *)

TypeOK ==
  /\ phase \in {"Locking", "Quiescing", "Copying", "Committing", "Swapping", "CleaningUp",
                "Completed", "Aborting", "Failed"}
  /\ mode \in {"WhenIdle", "WhenClaimed"}
  /\ lockedAt \in Nat /\ quiescedAt \in 0 .. NoAge
  /\ message \in [scheduled: SUBSET Pod, unscheduled: SUBSET Pod, cordon: BOOLEAN]
  /\ pc \in {"idle", "locked", "listed", "checked"}
  /\ listed \in [scheduled: SUBSET Pod, unscheduled: SUBSET Pod]
  /\ params \in {"none", "pvcKeys", "claimablePvcKeys"}
  /\ enforced \in {"none", "pvcKeys", "claimablePvcKeys"}
  /\ lag \in 0 .. Propagation
  /\ pods \in [Pod -> PodType]
  /\ node \in NodeState
  /\ pv \in {"old", "none", "new"}
  /\ copied \in BOOLEAN /\ dirty \in BOOLEAN
  /\ released \in 0 .. Settle /\ unblocked \in 0 .. Settle

Init ==
  /\ phase = "Locking" /\ mode \in Modes
  /\ lockedAt = 0 /\ quiescedAt = NoAge /\ message = NoMessage
  /\ pc = "idle" /\ listed = NotListed
  /\ params = "none" /\ enforced = "none" /\ lag = 0
  /\ pods = [p \in Pod |-> NoPod]
  /\ node \in NodeState
  /\ pv = "old" /\ copied = FALSE /\ dirty = FALSE
  /\ released = 0 /\ unblocked = 0

Users ==
  \/ \E p \in Pod : (\E k \in Creatable : CreatePod(p, k)) \/ BindPod(p) \/ WritePod(p) \/ DeletePod(p)
  \/ (\E s \in NodeState \ {"open"} : Repel(s)) \/ Uncordon \/ EditMode

Reconcile ==
  \/ Lock \/ LockRecorded \/ ListPods \/ Quiescing \/ Snapshot \/ CopyDone \/ Committing
  \/ SwapCheck \/ DeleteOldPV \/ CreateNewPV \/ Unlock

Next == Users \/ Reconcile \/ Cancel \/ Restart \/ PropagateLock \/ Tick

Spec == Init /\ [][Next]_vars

(* The controller keeps reconciling and its API calls do not fail forever: *)
(* a handler that is reached again and again gets through.                 *)
Fairness ==
  /\ WF_vars(Reconcile) /\ WF_vars(PropagateLock) /\ WF_vars(Tick)
  /\ SF_vars(LockRecorded) /\ SF_vars(Quiescing) /\ SF_vars(Committing)
  /\ SF_vars(SwapCheck) /\ SF_vars(DeleteOldPV)

FairSpec == Spec /\ Fairness

-----------------------------------------------------------------------------
(* Properties                                                              *)

(* No write is lost by the swap: once the old PV is deleted the target has *)
(* everything the source was told to store (README.md, "the VAP lock       *)
(* prevents any writer from re-attaching mid-copy"; pv_swap.rs:171-184).   *)
NoLostWrites == pv # "old" => ~dirty

(* From the start of the copy to the delete of the old PV no pod runs on   *)
(* the source (state_machine.rs:501-506).                                  *)
NoWriterMidCopy ==
  phase \in {"Copying", "Committing", "Swapping"} /\ pv = "old" =>
    \A p \in Pod : pods[p].at # "source"

(* With no pod left (WhenIdle), the copy starts no sooner than a settle    *)
(* period after the last one was gone from the source (README.md, "no pod  *)
(* objects + settle period").  With pods pending (WhenClaimed) it may,     *)
(* since the node is read after the pods were listed.                      *)
SettledBeforeCopy ==
  [][mode = "WhenIdle" /\ phase = "Quiescing" /\ phase' = "Copying" =>
       released >= Settle /\ \A p \in Pod : pods[p].at # "source"]_vars

(* Finding the evacuation blocked restarts the settle period               *)
(* (state_machine.rs:473-475, zfs_evacuation.rs:249).                      *)
SettleRestarts ==
  [][phase = "Quiescing" /\ phase' = "Copying" => unblocked >= Settle]_vars

(* Once the pods are gone for good and nothing can land on the source, the *)
(* evacuation gets past every hold for pods and cordon                     *)
(* (state_machine.rs:458-489, pv_swap.rs:45-68, 171-184).                  *)
Quiet == /\ \A p \in Pod : pods[p].at = "none"
         /\ mode = "WhenIdle" \/ RepelsPods
QuietEnds == <>[]Quiet => <>(phase \in {"Completed", "Failed"})

-----------------------------------------------------------------------------
(* The inductive invariant.  It holds of an orderly run: spec.mode is not  *)
(* edited and, for WhenClaimed, a node that repels pods keeps doing so, no *)
(* pod from before the lock tolerates that, and no pod tolerates it in a   *)
(* way the policy overlooks.                                               *)
Orderly ==
  /\ ~MayEditMode
  /\ "WhenClaimed" \in Modes =>
       /\ "WhenClaimed" \notin MayUncordon
       /\ EarlyKinds \subseteq {"routed", "named"}
       /\ "noExecuteTolerant" \notin Kinds

Window == {"Copying", "Committing", "Swapping"}
AtSource == {p \in Pod : pods[p].at = "source"}

(* The lock is on before anything relies on it.                            *)
Enforced ==
  /\ enforced # params => lag < Propagation
  /\ (phase = "Locking" /\ pc = "locked") \/ phase \in Window \cup {"Quiescing"}
       => params = ListFor(mode)
  /\ phase = "Locking" => quiescedAt = NoAge
  /\ phase = "Quiescing" => lag >= Propagation \/ lag >= lockedAt
  /\ phase = "Quiescing" /\ pc = "listed" => enforced = params
  /\ phase = "Quiescing" /\ quiescedAt # NoAge => enforced = params
  /\ phase \in Window => enforced = params

(* What a list of pods still says when the reconcile acts on it.           *)
ListedInTime ==
  phase = "Quiescing" /\ pc = "listed" =>
    /\ mode = "WhenIdle" =>
         \A p \in Pod : pods[p].at # "none" => p \in listed.scheduled \cup listed.unscheduled
    /\ mode = "WhenClaimed" /\ quiescedAt # NoAge => AtSource \subseteq listed.scheduled

(* Nobody is on the source, and nobody can get there.                      *)
Closed ==
  /\ mode = "WhenIdle" /\ phase \in Window => \A p \in Pod : pods[p].at = "none"
  /\ "WhenClaimed" \in Modes => \A p \in Pod : pods[p].at = "pending" => pods[p].kind = "routed"
  /\ mode = "WhenClaimed" =>
       /\ phase = "Quiescing" /\ quiescedAt # NoAge => RepelsPods
       /\ phase \in Window => RepelsPods /\ AtSource = {}

(* The snapshot is still the whole truth.                                  *)
Unwritten ==
  /\ phase \in Window => ~dirty
  /\ dirty => copied
  /\ copied => phase \notin {"Locking", "Quiescing"}
  /\ pv = "old" \/ (pv = "none" /\ phase = "Swapping") \/ (pv = "new" /\ phase \in {"CleaningUp", "Completed"})
  /\ pv # "old" => ~dirty /\ AtSource = {}
  /\ phase = "Swapping" /\ pc = "listed" => pv = "old"
  /\ pc = "checked" => phase = "Swapping" /\ pv = "old"

(* The settle period is time without a pod.                                *)
Settled ==
  mode = "WhenIdle" /\ phase = "Quiescing" /\ quiescedAt # NoAge =>
    released >= quiescedAt /\ \A p \in Pod : pods[p].at = "none"

IInv == TypeOK /\ mode \in Modes /\ Enforced /\ ListedInTime /\ Closed /\ Unwritten /\ Settled
=============================================================================
