------------------------------ MODULE Selection ------------------------------
(***************************************************************************)
(* Target selection of several evacuations: target_selecting               *)
(* (controller/state_machine.rs), select_target and its reservation ledger *)
(* (controller/target.rs), resolve and pick_anchor                         *)
(* (controller/colocation.rs).  The rest of an evacuation is kept only as  *)
(* far as selection sees it: its phase, whether its PV exists, where its   *)
(* data is.  Sizes are in units of space; every node has one pool.  A node *)
(* is a number, which is also the order of the node names.                 *)
(***************************************************************************)
EXTENDS Integers, FiniteSets, Functions

CONSTANTS
  Vol,         \* volumes, each with at most one ZFSEvacuation of its name
  Node,        \* nodes, by zfs-localpv id
  NoNode,
  Home,        \* where a volume is at first
  Tainted,     \* nodes with the evacuate taint; a volume elsewhere moves by its annotation
  Size,        \* capacity_bytes of a volume
  Pool,        \* free space of a node at first
  Headroom,    \* spec.headroomPercent
  Group,       \* volumes of the Pending pod that claims a volume; {} if none (or WhenIdle)
  Explicit,    \* spec.targetNode or NoNode
  Admits,      \* nodes that the placement and the allowedTopologies of a volume admit
  Unsteady,    \* volumes whose evacuations may fail, be cancelled, be retried
  Flapping     \* may a node be found not Ready, or unschedulable, now and then?

ASSUME SelectionAssumption ==
  /\ Node \subseteq Nat /\ NoNode \notin Node /\ IsFiniteSet(Vol) /\ IsFiniteSet(Node)
  /\ Home \in [Vol -> Node] /\ Tainted \subseteq Node /\ Size \in [Vol -> Nat \ {0}] /\ Pool \in [Node -> Nat]
  /\ Headroom \in Nat
  /\ Group \in [Vol -> SUBSET Vol] /\ \A v \in Vol : Group[v] = {} \/ v \in Group[v]
  /\ Explicit \in [Vol -> Node \cup {NoNode}] /\ Admits \in [Vol -> SUBSET Node]
  /\ Unsteady \subseteq Vol /\ Flapping \in BOOLEAN

VARIABLES
  phase,   \* of the evacuation of a volume; "none" when there is no ZFSEvacuation
  target,  \* status.target
  hold,    \* status.colocation.members, {} when it is absent
  owner,   \* ownerNodeID of the ZFSVolume the PV points to
  free,    \* space that is really free
  report,  \* the free space the ZFSNode says there is
  sel,     \* target_selecting: how far it has come and what it has read
  blind,   \* history: volumes placed while the PV of a sibling did not exist
  misled   \* history: volumes whose target was chosen on a report above what was free

vars == <<phase, target, hold, owner, free, report, sel, blind, misled>>
history == <<blind, misled>>

(* "gap" is Swapping while no PV exists, "swapped" is Swapping after the   *)
(* new PV was created and CleaningUp, "unwinding" is Aborting while there  *)
(* is a dataset on the target.                                             *)
Phase == {"none", "selecting", "transferring", "adopting", "committing", "gap", "swapped",
          "completed", "aborting", "unwinding", "failed"}
Place == Node \cup {NoNode}
Idle == [pc |-> "idle", members |-> {}, anchor |-> NoNode, missed |-> FALSE, choice |-> NoNode]
SelType == [pc: {"idle", "capped", "resolved", "placed"},
            members: SUBSET Vol, anchor: Place, missed: BOOLEAN, choice: Place]

TypeOK ==
  /\ phase \in [Vol -> Phase]
  /\ target \in [Vol -> Place]
  /\ hold \in [Vol -> SUBSET Vol]
  /\ owner \in [Vol -> Node]
  /\ free \in [Node -> Int]
  /\ report \in [Node -> Int]
  /\ sel \in [Vol -> SelType]
  /\ blind \subseteq Vol
  /\ misled \subseteq Vol

Init ==
  /\ phase = [v \in Vol |-> "none"]
  /\ target = [v \in Vol |-> NoNode]
  /\ hold = [v \in Vol |-> {}]
  /\ owner = Home
  /\ free = Pool
  /\ report = Pool
  /\ sel = [v \in Vol |-> Idle]
  /\ blind = {} /\ misled = {}

SizeOf(S) == SumFunctionOnSet(Size, S)

-----------------------------------------------------------------------------
(* colocation::resolve                                                     *)

(* A sibling whose evacuation says where the data is heading.              *)
Heading(m) == phase[m] \notin {"none", "completed", "failed", "aborting", "unwinding"}

(* The node that anchors sibling m of v, NoNode for a member that still    *)
(* has to be placed.                                                       *)
AnchorOf(v, m) ==
  IF Heading(m) /\ Explicit[m] # NoNode THEN Explicit[m]
  ELSE IF Heading(m) /\ target[m] # NoNode THEN target[m]
  ELSE IF owner[m] # owner[v] THEN owner[m] ELSE NoNode

(* A claim whose PV does not exist at the moment is skipped.               *)
Found(v) == {m \in Group[v] : phase[m] # "gap"}
Anchored(v) == {m \in Found(v) \ {v} : AnchorOf(v, m) # NoNode}
Members(v) == Found(v) \ Anchored(v)

(* pick_anchor: the node with the most votes, the smallest of those that   *)
(* are equal; the one element of the set.                                  *)
Votes(v, n) == Cardinality({m \in Anchored(v) : AnchorOf(v, m) = n})
PickAnchor(v) ==
  LET voted == {AnchorOf(v, m) : m \in Anchored(v)}
  IN  IF voted = {} THEN {NoNode}
      ELSE {n \in voted : \A k \in voted \ {n} : \/ Votes(v, n) > Votes(v, k)
                                                 \/ Votes(v, n) = Votes(v, k) /\ n < k}

-----------------------------------------------------------------------------
(* target::select_target                                                   *)

Placed(m) == target[m] # NoNode
(* Mutant: a completed evacuation keeps its node busy.                     *)
ReceivingForGood(e) == phase[e] \notin {"none", "failed"} /\ target[e] # NoNode
Receiving(e) == phase[e] \notin {"none", "failed", "completed"} /\ target[e] # NoNode
(* What the members of e that nobody has placed yet will take, seen by v.  *)
GroupShare(e, v) == SizeOf({m \in hold[e] \ {e, v} : ~Placed(m)})
Reserved(v, n) ==
  SumFunctionOnSet([e \in Vol |-> (IF phase[e] = "completed" THEN 0 ELSE Size[e]) + GroupShare(e, v)],
                   {e \in Vol \ {v} : phase[e] \notin {"none", "failed"} /\ target[e] = n})
(* Mutant: a node that is receiving takes another evacuation if it fits.   *)
BusyNever(v, n) == FALSE
BusyTarget(v, n) == \E e \in Vol \ {v} : Receiving(e) /\ target[e] = n

Need(v, members) ==
  LET bytes == Size[v] + SizeOf(members \ {v})
  IN  bytes + (bytes * Headroom) \div 100

Wanted(v, anchor) == IF Explicit[v] # NoNode THEN Explicit[v] ELSE anchor
Left(v, n) == report[n] - Reserved(v, n)
Candidates(v, s, ready) ==
  {n \in (Admits[v] \cap ready) \ (Tainted \cup {owner[v]}) :
     /\ Wanted(v, s.anchor) \in {NoNode, n}
     /\ ~BusyTarget(v, n)
     /\ Left(v, n) >= Need(v, s.members)}

-----------------------------------------------------------------------------
(* target_selecting.  The guard of ctx.selection_lock is held from the     *)
(* first action to the last; the steps in between are API calls.           *)

BusySource(v) == \E e \in Vol \ {v} : phase[e] \in {"transferring", "adopting"} /\ owner[e] = owner[v]
Locked == \E v \in Vol : sel[v].pc # "idle"

(* Mutant: no lock around check and write.                                 *)
CapsUnlocked(v) ==
  /\ phase[v] = "selecting" /\ sel[v].pc = "idle"
  /\ ~BusySource(v)
  /\ sel' = [sel EXCEPT ![v].pc = "capped"]
  /\ UNCHANGED <<phase, target, hold, owner, free, report, history>>
(* If the source is busy, it waits: nothing changes.                       *)
Caps(v) ==
  /\ ~Locked /\ phase[v] = "selecting"
  /\ ~BusySource(v)
  /\ sel' = [sel EXCEPT ![v].pc = "capped"]
  /\ UNCHANGED <<phase, target, hold, owner, free, report, history>>

(* Mutant: every volume is placed on its own.                              *)
ResolveAlone(v) ==
  /\ sel[v].pc = "capped"
  /\ sel' = [sel EXCEPT ![v] = [Idle EXCEPT !.pc = "resolved", !.members = Group[v]]]
  /\ UNCHANGED <<phase, target, hold, owner, free, report, history>>
Resolve(v) ==
  /\ sel[v].pc = "capped"
  /\ \E n \in PickAnchor(v) :
       sel' = [sel EXCEPT ![v] = [Idle EXCEPT !.pc = "resolved", !.members = Members(v), !.anchor = n,
                                              !.missed = (Found(v) # Group[v])]]
  /\ UNCHANGED <<phase, target, hold, owner, free, report, history>>

(* select_target: the candidate with the most space left, or another       *)
(* attempt later.                                                          *)
Select(v) ==
  /\ sel[v].pc = "resolved"
  /\ \E ready \in IF Flapping THEN SUBSET Node ELSE {Node} :
       LET C == Candidates(v, sel[v], ready)
       IN  \/ C = {} /\ sel' = [sel EXCEPT ![v] = Idle] /\ UNCHANGED misled
           \/ \E n \in C : /\ \A k \in C : Left(v, n) >= Left(v, k)
                           /\ sel' = [sel EXCEPT ![v].pc = "placed", ![v].choice = n]
                           /\ misled' = IF report[n] <= free[n] THEN misled \ {v} ELSE misled \cup {v}
  /\ UNCHANGED <<phase, target, hold, owner, free, report, blind>>

(* The status write that ends the critical section.                        *)
Write(v) ==
  /\ sel[v].pc = "placed"
  /\ phase' = [phase EXCEPT ![v] = "transferring"]
  /\ target' = [target EXCEPT ![v] = sel[v].choice]
  /\ hold' = [hold EXCEPT ![v] = sel[v].members]
  /\ sel' = [sel EXCEPT ![v] = Idle]
  /\ blind' = IF sel[v].missed THEN blind \cup {v} ELSE blind
  /\ UNCHANGED <<owner, free, report, misled>>

(* An API error or a crash anywhere in between.                            *)
GiveUp(v) ==
  /\ v \in Unsteady /\ sel[v].pc # "idle"
  /\ sel' = [sel EXCEPT ![v] = Idle]
  /\ UNCHANGED <<phase, target, hold, owner, free, report, history>>

-----------------------------------------------------------------------------
(* The other phases, as selection sees them.  One evacuation is reconciled *)
(* by one task at a time.                                                  *)

Step(v, from, to) ==
  /\ phase[v] = from /\ sel[v].pc = "idle"
  /\ phase' = [phase EXCEPT ![v] = to]
  /\ UNCHANGED <<sel, history>>

Start(v) ==
  /\ owner[v] = Home[v] /\ Step(v, "none", "selecting")
  /\ UNCHANGED <<target, hold, owner, free, report>>

(* The dataset has been received.                                          *)
Land(v) ==
  /\ Step(v, "transferring", "adopting")
  /\ free' = [free EXCEPT ![target[v]] = @ - Size[v]]
  /\ UNCHANGED <<target, hold, owner, report>>

Adopt(v) == Step(v, "adopting", "committing") /\ UNCHANGED <<target, hold, owner, free, report>>

(* The old PV is deleted; two seconds later the new one is created.        *)
DeleteOldPV(v) == Step(v, "committing", "gap") /\ UNCHANGED <<target, hold, owner, free, report>>
CreateNewPV(v) ==
  /\ Step(v, "gap", "swapped")
  /\ owner' = [owner EXCEPT ![v] = target[v]]
  /\ UNCHANGED <<target, hold, free, report>>

(* cleaning_up deletes the source dataset.  It does not wait for the       *)
(* target's agent to report what is left.                                  *)
Complete(v) ==
  /\ Step(v, "swapped", "completed")
  /\ free' = [free EXCEPT ![Home[v]] = @ + Size[v]]
  /\ UNCHANGED <<target, hold, owner, report>>

(* retry_or_fail after the last attempt; nothing has landed.               *)
TransferFails(v) ==
  /\ v \in Unsteady /\ Step(v, "transferring", "failed")
  /\ UNCHANGED <<target, hold, owner, free, report>>

(* A cancel before the commit point, and the unwinding that follows.       *)
Cancel(v) ==
  /\ v \in Unsteady
  /\ \/ \E from \in {"selecting", "transferring"} : Step(v, from, "aborting")
     \/ \E from \in {"adopting", "committing"} : Step(v, from, "unwinding")
  /\ UNCHANGED <<target, hold, owner, free, report>>
AbortDone(v) ==
  /\ \/ Step(v, "aborting", "failed") /\ UNCHANGED free
     \/ Step(v, "unwinding", "failed") /\ free' = [free EXCEPT ![target[v]] = @ + Size[v]]
  /\ UNCHANGED <<target, hold, owner, report>>

(* The operator deletes the Failed ZFSEvacuation.                          *)
Forget(v) ==
  /\ v \in Unsteady /\ Step(v, "failed", "none")
  /\ target' = [target EXCEPT ![v] = NoNode]
  /\ hold' = [hold EXCEPT ![v] = {}]
  /\ UNCHANGED <<owner, free, report>>

(* The node agent updates its ZFSNode, every 60 seconds.                   *)
Report(n) ==
  /\ report[n] # free[n]
  /\ report' = [report EXCEPT ![n] = free[n]]
  /\ UNCHANGED <<phase, target, hold, owner, free, sel, history>>

Selecting(v) == Caps(v) \/ Resolve(v) \/ Select(v) \/ Write(v)
Running(v) == Land(v) \/ Adopt(v) \/ DeleteOldPV(v) \/ CreateNewPV(v) \/ Complete(v) \/ AbortDone(v)

Next ==
  \/ \E v \in Vol : \/ Selecting(v) \/ GiveUp(v) \/ Start(v) \/ Running(v)
                    \/ TransferFails(v) \/ Cancel(v) \/ Forget(v)
  \/ \E n \in Node : Report(n)

Spec == Init /\ [][Next]_vars

(* A waiting evacuation is reconciled every 60 seconds and the mutex is    *)
(* handed over in turn; a node that may be chosen again and again is Ready *)
(* at one of these times; the other phases go on, and agents report.       *)
Succeed(v) == Select(v) /\ sel'[v].pc = "placed"
FairSpec ==
  /\ Spec
  /\ \A v \in Vol : /\ SF_vars(Caps(v)) /\ SF_vars(Succeed(v))
                    /\ WF_vars(Resolve(v) \/ Select(v) \/ Write(v))
                    /\ WF_vars(Start(v)) /\ WF_vars(Running(v))
  /\ \A n \in Node : WF_vars(Report(n))

-----------------------------------------------------------------------------
(* Properties                                                              *)

(* No node receives two evacuations at once, from the choice of the target *)
(* until the evacuation completes or has failed (target.rs:92-93, 184).    *)
OneInbound ==
  \A a, b \in Vol : a # b /\ Receiving(a) /\ Receiving(b) => target[a] # target[b]

(* No node sends two volumes at once (state_machine.rs:558-570).           *)
Sending(v) == phase[v] \in {"transferring", "adopting"}
OneOutbound ==
  \A a, b \in Vol : a # b /\ Sending(a) /\ Sending(b) => owner[a] # owner[b]

(* A transfer that was started has room to land, if the report that its    *)
(* target was chosen on did not overstate what was free then: neither what *)
(* the ledger counts twice nor what it leaves out harms (target.rs:99-140, *)
(* 210).  A report does overstate it after a Complete.                     *)
RoomToLand ==
  \A v \in Vol : phase[v] = "transferring" /\ v \notin misled => free[target[v]] >= Size[v]

(* The volumes of one pod that have moved or are moving go to one node, if *)
(* they come from one node and none of them was placed while the PV of a   *)
(* sibling did not exist (state_machine.rs:633-635, colocation.rs:63-65).  *)
Destination(v) ==
  IF owner[v] # Home[v] THEN owner[v] ELSE IF Heading(v) THEN target[v] ELSE NoNode
Whole(v) == \A m \in Group[v] : Group[m] = Group[v] /\ Home[m] = Home[v] /\ Explicit[m] = NoNode
Sighted(v) == Group[v] \cap blind = {}
NeverSplit ==
  \A v \in Vol : Whole(v) /\ Sighted(v) =>
    \A m \in Group[v] : Destination(v) = Destination(m) \/ NoNode \in {Destination(v), Destination(m)}

(* Once a volume of a pod has arrived, the pod's other volumes follow it   *)
(* as soon as the ledger leaves room for them for good, which is all it    *)
(* takes: the mutex, a busy source, a node that is receiving or not Ready  *)
(* and stale reports only delay them (state_machine.rs:553-570, 633-636).  *)
RoomSuffices ==
  \A v \in Vol : \A n \in PickAnchor(v) :
    phase[v] = "selecting" /\ Wanted(v, n) # NoNode =>
      /\ Wanted(v, n) \in Admits[v] \ (Tainted \cup {owner[v]})
      /\ Left(v, Wanted(v, n)) >= Need(v, Members(v))
FollowersArrive ==
  <>[](RoomSuffices /\ \A v \in Unsteady : phase[v] \in {"completed", "failed"}) =>
    \A v \in Vol : (phase[v] = "selecting" /\ \E m \in Group[v] : phase[m] = "completed")
                    ~> phase[v] \in {"completed", "failed"}

(* target.rs:121-129: a leader keeps holding its group's unplaced members  *)
(* after it completes, so that no other evacuation takes their space: when *)
(* the reports are right and the node of the group is not receiving, a     *)
(* waiting follower finds the room it asks for.  The code does not ensure  *)
(* it: see README.md.                                                      *)
HoldSuffices ==
  misled = {} /\ blind = {} /\ report = free =>
    \A v \in Vol : \A n \in PickAnchor(v) :
      phase[v] = "selecting" /\ n # NoNode /\ ~BusyTarget(v, n) => Left(v, n) >= Need(v, Members(v))

(* What target_selecting has read stays true until it writes, because only *)
(* the holder of the lock makes a node busier (state_machine.rs:553-556).  *)
Exclusive == \A a, b \in Vol : sel[a].pc # "idle" /\ sel[b].pc # "idle" => a = b
Checked ==
  \A v \in Vol : sel[v].pc # "idle" =>
    /\ phase[v] = "selecting" /\ ~BusySource(v)
    /\ sel[v].pc = "placed" => sel[v].choice \in Node /\ ~BusyTarget(v, sel[v].choice)
Targeted ==
  \A v \in Vol :
    /\ phase[v] \in {"none", "selecting"} => target[v] = NoNode
    /\ phase[v] \notin {"none", "selecting", "aborting", "failed"} => target[v] \in Node
Capped == TypeOK /\ Exclusive /\ Checked /\ Targeted /\ OneInbound /\ OneOutbound

(* No data goes to a node that is marked for evacuation, and a PV moves    *)
(* once, to the target.                                                    *)
Undrained ==
  \A v \in Vol : target[v] \notin Tainted /\ (sel[v].pc = "placed" => sel[v].choice \notin Tainted)
Moved ==
  \A v \in Vol : /\ owner[v] # Home[v] => phase[v] \in {"swapped", "completed"}
                 /\ phase[v] \in {"swapped", "completed"} => owner[v] = target[v]

(* What was chosen on a true report stays true.                            *)
Roomy ==
  RoomToLand /\ \A v \in Vol : sel[v].pc = "placed" /\ v \notin misled => free[sel[v].choice] >= Size[v]

(* The node the siblings go to is still the one they go to when v follows. *)
Following(v, m) ==
  Destination(m) # NoNode =>
    /\ sel[v].pc = "resolved" => sel[v].anchor = Destination(m)
    /\ sel[v].pc = "placed" => sel[v].choice = Destination(m)
Joined ==
  /\ NeverSplit
  /\ \A v \in Vol : Whole(v) /\ Sighted(v) /\ ~sel[v].missed =>
       \A m \in Group[v] \ {v} : Following(v, m)

(* The inductive invariant.                                                *)
IInv == Capped /\ Undrained /\ Moved /\ Roomy /\ Joined
=============================================================================
