------------------------------- MODULE Trigger -------------------------------
(***************************************************************************)
(* The trigger loop (controller/trigger.rs) for one volume: it lists PVs,  *)
(* nodes and ZFSVolumes, removes a terminal ZFSEvacuation to make room,    *)
(* checks the condition again and creates a new one.  The operator sets    *)
(* and withdraws the annotation and the taint and deletes ZFSEvacuations;  *)
(* the controller runs the one that exists (controller/state_machine.rs,   *)
(* reconcile).  A move of the volume gives the PV a new volumeHandle: the  *)
(* handle is the number of moves.                                          *)
(***************************************************************************)
EXTENDS Naturals

CONSTANTS
  Loop,         \* trigger loops; two only while two replicas think they lead
  MaxMoves,     \* bound on the moves of the volume
  MaxRequests,  \* bound on what the operator sets and deletes
  MayWithdraw,  \* may the operator withdraw a request?
  MayFail,      \* may an evacuation fail?
  MayDelete,    \* may the operator delete a ZFSEvacuation?
  ApiErrors     \* may an API call of the loop fail?

ASSUME TriggerAssumption ==
  /\ MaxMoves \in Nat /\ MaxRequests \in Nat
  /\ {MayWithdraw, MayFail, MayDelete, ApiErrors} \subseteq BOOLEAN

VARIABLES
  annotated,  \* does the PV carry evacuate=true?
  tainted,    \* per handle: is the node that owns this ZFSVolume tainted?
  moved,      \* the handle of the PV
  cr,         \* the ZFSEvacuation of the PV's name
  loop,       \* per loop: the tick
  requests,   \* what the operator has set and deleted so far (bound only)
  overtaken   \* loops about to create whose last check a withdrawal has followed

vars == <<annotated, tainted, moved, cr, loop, requests, overtaken>>

Handle == 0 .. MaxMoves
Kind == {"Annotation", "NodeTaint"}
CrPhase == {"absent", "running", "committed", "swapped", "completed", "failed", "cancelled"}
(* "new": no finalizer yet; "deleting": deletionTimestamp is set.          *)
CrType == [phase: CrPhase, trigger: Kind, life: {"new", "held", "deleting"}]
Absent == [phase |-> "absent", trigger |-> "Annotation", life |-> "new"]
(* pc names the next API call of the tick; handle is what the list of PVs  *)
(* said.                                                                   *)
TickPc == {"idle", "get", "delete", "fresh", "create", "nodes", "volumes"}
LoopType == [pc: TickPc, kind: Kind, handle: Handle]
Asleep == [pc |-> "idle", kind |-> "Annotation", handle |-> 0]

TypeOK ==
  /\ annotated \in BOOLEAN
  /\ tainted \in [Handle -> BOOLEAN]
  /\ moved \in Handle
  /\ cr \in CrType
  /\ loop \in [Loop -> LoopType]
  /\ requests \in 0 .. MaxRequests
  /\ overtaken \subseteq Loop

Init ==
  /\ annotated = FALSE
  /\ tainted = [h \in Handle |-> FALSE]
  /\ moved = 0
  /\ cr = Absent
  /\ loop = [l \in Loop |-> Asleep]
  /\ requests = 0
  /\ overtaken = {}

-----------------------------------------------------------------------------
(* The tick                                                                *)

(* cleaning_up deletes the ZFSVolume of the old handle.                    *)
VolumeExists(h) == h = moved \/ (h + 1 = moved /\ cr.phase = "swapped")

(* wants_evacuation of the current PV; taint_condition_fresh.              *)
Fresh(kind, h) ==
  IF kind = "Annotation" THEN annotated ELSE moved = h /\ VolumeExists(h) /\ tainted[h]

Go(l, pc) == loop' = [loop EXCEPT ![l].pc = pc]
(* On to phase 2 of the tick, or to its end.                               *)
Done(l) == Go(l, IF loop[l].kind = "Annotation" THEN "nodes" ELSE "idle")

ListPVs(l) ==
  /\ loop[l].pc = "idle"
  /\ loop' = [loop EXCEPT ![l] = [pc |-> IF annotated THEN "get" ELSE "nodes",
                                  kind |-> "Annotation", handle |-> moved]]
  /\ UNCHANGED <<annotated, tainted, moved, cr, requests, overtaken>>

(* The tick ends here unless the node that owns the volume is tainted.     *)
ListNodes(l) ==
  /\ loop[l].pc = "nodes"
  /\ Go(l, IF tainted[loop[l].handle] THEN "volumes" ELSE "idle")
  /\ UNCHANGED <<annotated, tainted, moved, cr, requests, overtaken>>

(* The ZFSVolume of a tainted node, mapped to the PV by the handle in the  *)
(* list of PVs.                                                            *)
ListVolumes(l) ==
  /\ loop[l].pc = "volumes"
  /\ loop' = [loop EXCEPT ![l].pc = IF VolumeExists(loop[l].handle) THEN "get" ELSE "idle",
                          ![l].kind = "NodeTaint"]
  /\ UNCHANGED <<annotated, tainted, moved, cr, requests, overtaken>>

(* Mutants: a cancelled evacuation blocks the next one; a failed one does  *)
(* not.                                                                    *)
ReplaceableCompleted(phase) == phase = "completed"
ReplaceableAny(phase) == phase \in {"completed", "failed", "cancelled"}
Replaceable(phase) == phase \in {"completed", "cancelled"}
(* clear_for_creation: get, then delete by name.                           *)
GetCR(l) ==
  /\ loop[l].pc = "get"
  /\ \/ cr.phase = "absent" /\ Go(l, "fresh")
     \/ Replaceable(cr.phase) /\ Go(l, "delete")
     \/ cr.phase # "absent" /\ ~Replaceable(cr.phase) /\ Done(l)
  /\ UNCHANGED <<annotated, tainted, moved, cr, requests, overtaken>>

(* The API server: without a finalizer the object is gone at once.         *)
Deleted == IF cr.phase = "absent" \/ cr.life = "new" THEN Absent ELSE [cr EXCEPT !.life = "deleting"]
DeleteCR(l) ==
  /\ loop[l].pc = "delete"
  /\ cr' = Deleted
  /\ Go(l, "fresh")
  /\ UNCHANGED <<annotated, tainted, moved, requests, overtaken>>

(* Mutant: no second look at the condition.                                *)
CheckNothing(l) ==
  /\ loop[l].pc = "fresh"
  /\ Go(l, "create")
  /\ UNCHANGED <<annotated, tainted, moved, cr, requests, overtaken>>
CheckFresh(l) ==
  /\ loop[l].pc = "fresh"
  /\ IF Fresh(loop[l].kind, loop[l].handle) THEN Go(l, "create") ELSE Done(l)
  /\ UNCHANGED <<annotated, tainted, moved, cr, requests, overtaken>>

(* create_evacuation; a 409 is ignored.                                    *)
Create(l) ==
  /\ loop[l].pc = "create"
  /\ cr' = IF cr.phase = "absent"
           THEN [phase |-> "running", trigger |-> loop[l].kind, life |-> "new"] ELSE cr
  /\ Done(l)
  /\ UNCHANGED <<annotated, tainted, moved, requests>>
  /\ overtaken' = overtaken \ {l}

(* A list that fails ends the tick; any other call that fails skips the    *)
(* volume.                                                                 *)
CallFails(l) ==
  /\ ApiErrors /\ loop[l].pc # "idle"
  /\ IF loop[l].pc \in {"nodes", "volumes"} THEN Go(l, "idle") ELSE Done(l)
  /\ UNCHANGED <<annotated, tainted, moved, cr, requests>>
  /\ overtaken' = overtaken \ {l}

Tick(l) == ListPVs(l) \/ ListNodes(l) \/ ListVolumes(l) \/ GetCR(l) \/ DeleteCR(l)
           \/ CheckFresh(l) \/ Create(l)

-----------------------------------------------------------------------------
(* The controller, as far as the trigger sees it                           *)

Phase(from, to) == cr.phase = from /\ cr' = [cr EXCEPT !.phase = to]

EnsureFinalizer ==
  /\ cr.phase = "running" /\ cr.life = "new"
  /\ cr' = [cr EXCEPT !.life = "held"]
  /\ UNCHANGED <<annotated, tainted, moved, loop, requests, overtaken>>

(* cancel_reason; the abort ends in Failed with cancelled set.             *)
CancelSeen ==
  /\ cr.life = "held" /\ ~Fresh(cr.trigger, moved)
  /\ Phase("running", "cancelled")
  /\ UNCHANGED <<annotated, tainted, moved, loop, requests, overtaken>>

Fail ==
  /\ MayFail /\ cr.life = "held" /\ Phase("running", "failed")
  /\ UNCHANGED <<annotated, tainted, moved, loop, requests, overtaken>>

Commit ==
  /\ cr.life = "held" /\ moved < MaxMoves /\ Phase("running", "committed")
  /\ UNCHANGED <<annotated, tainted, moved, loop, requests, overtaken>>

(* The replacement PV has a new handle, on a node without the taint, and   *)
(* no evacuate annotation.                                                 *)
Swap ==
  /\ Phase("committed", "swapped")
  /\ moved' = moved + 1
  /\ annotated' = FALSE
  /\ UNCHANGED <<tainted, loop, requests, overtaken>>

Complete ==
  /\ Phase("swapped", "completed")
  /\ UNCHANGED <<annotated, tainted, moved, loop, requests, overtaken>>

(* A deleted ZFSEvacuation is unwound before the commit point, and let go  *)
(* once it is terminal.                                                    *)
LetGo ==
  /\ cr.life = "deleting" /\ cr.phase \notin {"committed", "swapped"}
  /\ cr' = Absent
  /\ UNCHANGED <<annotated, tainted, moved, loop, requests, overtaken>>

Reconcile == EnsureFinalizer \/ CancelSeen \/ Commit \/ Swap \/ Complete \/ LetGo

-----------------------------------------------------------------------------
(* The operator                                                            *)

Annotate ==
  /\ requests < MaxRequests /\ ~annotated /\ annotated' = TRUE
  /\ requests' = requests + 1
  /\ UNCHANGED <<tainted, moved, cr, loop, overtaken>>
Taint ==
  /\ requests < MaxRequests /\ ~tainted[moved] /\ tainted' = [tainted EXCEPT ![moved] = TRUE]
  /\ requests' = requests + 1
  /\ UNCHANGED <<annotated, moved, cr, loop, overtaken>>
Withdraw ==
  /\ MayWithdraw
  /\ \/ annotated /\ annotated' = FALSE /\ UNCHANGED tainted
     \/ \E h \in Handle : tainted[h] /\ tainted' = [tainted EXCEPT ![h] = FALSE] /\ UNCHANGED annotated
  /\ UNCHANGED <<moved, cr, loop, requests>>
  /\ overtaken' = {l \in Loop : loop[l].pc = "create"}
OperatorDelete ==
  /\ MayDelete /\ cr.phase # "absent" /\ cr.life # "deleting"
  /\ requests < MaxRequests /\ requests' = requests + 1
  /\ cr' = Deleted
  /\ UNCHANGED <<annotated, tainted, moved, loop, overtaken>>

Next ==
  \/ \E l \in Loop : Tick(l) \/ CallFails(l)
  \/ Reconcile \/ Fail
  \/ Annotate \/ Taint \/ Withdraw \/ OperatorDelete

Spec == Init /\ [][Next]_vars

(* The loop ticks every 15 seconds, a call that is made again and again    *)
(* succeeds at some time, and a ZFSEvacuation is reconciled.               *)
FairSpec ==
  /\ Spec /\ WF_vars(Reconcile)
  /\ \A l \in Loop : /\ WF_vars(ListPVs(l)) /\ SF_vars(ListNodes(l)) /\ SF_vars(ListVolumes(l))
                     /\ SF_vars(GetCR(l)) /\ SF_vars(DeleteCR(l)) /\ SF_vars(CheckFresh(l))
                     /\ SF_vars(Create(l))

-----------------------------------------------------------------------------
(* Properties                                                              *)

(* The trigger removes only what is finished or was withdrawn: never an    *)
(* evacuation in flight, and a failed one stays until the operator deletes *)
(* it (trigger.rs:163-165, 173-174).                                       *)
Removes(l) == loop[l].pc = "delete" /\ loop'[l].pc = "fresh" /\ cr.phase # "absent"
NeverInterrupts == [][\A l \in Loop : Removes(l) => cr.phase \in {"completed", "cancelled"}]_vars

(* What the trigger removes makes room for a new request                   *)
(* (trigger.rs:170-173, 183).                                              *)
MakesRoom == [][\A l \in Loop : Removes(l) => Fresh(loop[l].kind, loop[l].handle)]_vars

(* An evacuation is created only while the volume is to be moved, however  *)
(* old the lists of the tick are, unless the operator withdraws between    *)
(* the last check and the create (trigger.rs:101-105).                     *)
Justified ==
  [][\A l \in Loop \ overtaken : Create(l) /\ cr' # cr => Fresh(cr'.trigger, moved)]_vars

(* A request that stands is served: the volume moves, or an evacuation     *)
(* fails and waits for the operator, whatever was cancelled or completed   *)
(* before (trigger.rs:14-16, 170-177).  The moves are bounded, so the last *)
(* handle is not moved again.                                              *)
Served ==
  /\ annotated /\ moved < MaxMoves ~> (~annotated \/ cr.phase = "failed")
  /\ \A h \in Handle \ {MaxMoves} :
       tainted[h] /\ moved = h ~> (~tainted[h] \/ moved # h \/ cr.phase = "failed")

(* The inductive invariant of a single loop: what it read before the       *)
(* delete can only go away, so nothing moves the volume before it creates; *)
(* and what it checked last holds, unless it was withdrawn since.          *)
SingleLoop == \A l, k \in Loop : l = k
Doomed ==
  \A l \in Loop : loop[l].pc \in {"delete", "fresh", "create"}
                   => cr.phase \in {"absent", "completed", "cancelled"}
Bounded == cr.phase = "committed" => moved < MaxMoves
Checked == \A l \in Loop \ overtaken :
             loop[l].pc = "create" => Fresh(loop[l].kind, loop[l].handle)
IInv == TypeOK /\ Doomed /\ Bounded /\ Checked
=============================================================================
