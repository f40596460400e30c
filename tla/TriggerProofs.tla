---------------------------- MODULE TriggerProofs ----------------------------
(***************************************************************************)
(* Proofs about Trigger: one trigger loop, whatever the operator and the   *)
(* controller do between its API calls, removes no evacuation in flight    *)
(* and no failed one, although it deletes by name, and creates one only    *)
(* for a request that stands, although its lists are old.                  *)
(***************************************************************************)
EXTENDS Trigger, TLAPS

(* A step of the loop that is not the delete.                              *)
LEMMA GoStep ==
  ASSUME TypeOK, NEW l \in Loop, NEW pc \in TickPc, Go(l, pc)
  PROVE  /\ loop' \in [Loop -> LoopType] /\ loop'[l].pc = pc
         /\ \A k \in Loop \ {l} : loop'[k] = loop[k]
  BY DEF TypeOK, Go, LoopType

LEMMA DoneStep ==
  ASSUME TypeOK, NEW l \in Loop, Done(l)
  PROVE  /\ loop' \in [Loop -> LoopType] /\ loop'[l].pc \in {"nodes", "idle"}
         /\ \A k \in Loop \ {l} : loop'[k] = loop[k]
<1>1. PICK pc \in {"nodes", "idle"} : Go(l, pc)
  BY DEF Done
<1>. QED
  BY <1>1, GoStep DEF TickPc

LEMMA InitInv == Init => IInv
<1>. SUFFICES ASSUME Init PROVE IInv
  OBVIOUS
<1>1. Asleep \in LoopType /\ Asleep.pc = "idle"
  BY TriggerAssumption DEF Asleep, LoopType, TickPc, Kind, Handle
<1>2. Absent \in CrType /\ Absent.phase = "absent"
  BY DEF Absent, CrType, CrPhase, Kind
<1>3. 0 \in Handle /\ 0 \in 0 .. MaxRequests
  BY TriggerAssumption DEF Handle
<1>4. loop \in [Loop -> LoopType] /\ \A l \in Loop : loop[l].pc = "idle"
  BY <1>1 DEF Init
<1>5. tainted \in [Handle -> BOOLEAN] /\ annotated \in BOOLEAN
  BY DEF Init
<1>. QED
  BY <1>2, <1>3, <1>4, <1>5 DEF Init, IInv, TypeOK, Doomed, Bounded, Checked

(* The steps of the loop.  It reaches the delete only by GetCR, which has  *)
(* just seen what it will delete; from then on nobody else creates.        *)
LEMMA TickDoomed ==
  ASSUME SingleLoop, IInv, NEW l \in Loop, Tick(l) \/ CallFails(l)
  PROVE  TypeOK' /\ Doomed' /\ Bounded'
<1>. USE DEF IInv
<1>0. overtaken' \subseteq Loop
  BY DEF Tick, ListPVs, ListNodes, ListVolumes, GetCR, DeleteCR, CheckFresh, Create, CallFails, TypeOK
<1>1. ASSUME loop' \in [Loop -> LoopType], cr' \in CrType,
             UNCHANGED <<annotated, tainted, moved, requests>>,
             loop'[l].pc \in {"delete", "fresh", "create"} => cr'.phase \in {"absent", "completed", "cancelled"},
             cr'.phase = "committed" => cr.phase = "committed"
      PROVE  TypeOK' /\ Doomed' /\ Bounded'
  BY <1>0, <1>1 DEF TypeOK, Doomed, Bounded, SingleLoop
<1>2. CASE ListPVs(l)
  <2>1. loop' \in [Loop -> LoopType]
    BY <1>2 DEF ListPVs, TypeOK, LoopType, TickPc, Kind
  <2>2. loop'[l].pc \notin {"delete", "fresh", "create"}
    BY <1>2 DEF ListPVs, TypeOK
  <2>. QED
    BY <1>1, <1>2, <2>1, <2>2 DEF ListPVs, TypeOK
<1>3. CASE ListNodes(l)
  BY <1>1, <1>3, GoStep DEF ListNodes, TypeOK, TickPc
<1>4. CASE ListVolumes(l)
  <2>1. loop' \in [Loop -> LoopType] /\ loop'[l].pc \notin {"delete", "fresh", "create"}
    BY <1>4 DEF ListVolumes, TypeOK, LoopType, TickPc, Kind
  <2>. QED
    BY <1>1, <1>4, <2>1 DEF ListVolumes, TypeOK
<1>5. CASE GetCR(l)
  <2>1. CASE cr.phase = "absent" /\ Go(l, "fresh")
    BY <1>1, <1>5, <2>1, GoStep DEF GetCR, TypeOK, TickPc
  <2>2. CASE Replaceable(cr.phase) /\ Go(l, "delete")
    BY <1>1, <1>5, <2>2, GoStep DEF GetCR, TypeOK, TickPc, Replaceable
  <2>3. CASE Done(l)
    BY <1>1, <1>5, <2>3, DoneStep DEF GetCR, TypeOK
  <2>. QED
    BY <1>5, <2>1, <2>2, <2>3 DEF GetCR
<1>6. CASE DeleteCR(l)
  <2>1. cr' \in CrType /\ cr'.phase \in {"absent", cr.phase}
    BY <1>6 DEF DeleteCR, Deleted, TypeOK, CrType, CrPhase, Absent, Kind
  <2>2. cr.phase \in {"absent", "completed", "cancelled"}
    BY <1>6 DEF DeleteCR, Doomed
  <2>. QED
    BY <1>1, <1>6, <2>1, <2>2, GoStep DEF DeleteCR, TickPc
<1>7. CASE CheckFresh(l)
  <2>1. CASE Go(l, "create")
    BY <1>1, <1>7, <2>1, GoStep DEF CheckFresh, TypeOK, TickPc, Doomed
  <2>2. CASE Done(l)
    BY <1>1, <1>7, <2>2, DoneStep DEF CheckFresh, TypeOK
  <2>. QED
    BY <1>7, <2>1, <2>2 DEF CheckFresh
<1>8. CASE Create(l)
  <2>1. cr' \in CrType /\ (cr'.phase = "committed" => cr.phase = "committed")
    BY <1>8 DEF Create, TypeOK, CrType, CrPhase, LoopType
  <2>. QED
    BY <1>1, <1>8, <2>1, DoneStep DEF Create
<1>9. CASE CallFails(l)
  <2>1. CASE Go(l, "idle")
    BY <1>1, <1>9, <2>1, GoStep DEF CallFails, TypeOK, TickPc
  <2>2. CASE Done(l)
    BY <1>1, <1>9, <2>2, DoneStep DEF CallFails, TypeOK
  <2>. QED
    BY <1>9, <2>1, <2>2 DEF CallFails
<1>. QED
  BY <1>2, <1>3, <1>4, <1>5, <1>6, <1>7, <1>8, <1>9 DEF Tick

(* The steps of the controller and the operator: what is replaceable stays *)
(* so, or goes away.                                                       *)
LEMMA OtherDoomed ==
  ASSUME IInv, Reconcile \/ Fail \/ Annotate \/ Taint \/ Withdraw \/ OperatorDelete
  PROVE  TypeOK' /\ Doomed' /\ Bounded'
<1>. USE DEF IInv
<1>1. loop' = loop
  BY DEF Reconcile, EnsureFinalizer, CancelSeen, Commit, Swap, Complete, LetGo, Fail, Annotate, Taint,
         Withdraw, OperatorDelete
<1>2. /\ cr' \in CrType
      /\ cr.phase \in {"absent", "completed", "cancelled"}
         => cr'.phase \in {"absent", "completed", "cancelled"}
  <2>1. CASE EnsureFinalizer \/ LetGo \/ OperatorDelete
    BY <2>1 DEF EnsureFinalizer, LetGo, OperatorDelete, Deleted, Absent, TypeOK, CrType, CrPhase, Kind
  <2>2. CASE CancelSeen \/ Commit \/ Swap \/ Complete \/ Fail
    BY <2>2 DEF CancelSeen, Commit, Swap, Complete, Fail, Phase, TypeOK, CrType, CrPhase
  <2>3. CASE Annotate \/ Taint \/ Withdraw
    BY <2>3 DEF Annotate, Taint, Withdraw, TypeOK
  <2>. QED
    BY <2>1, <2>2, <2>3 DEF Reconcile
<1>3. moved' \in Handle /\ Bounded'
  <2>1. CASE Swap
    BY <2>1, TriggerAssumption DEF Swap, Phase, TypeOK, Handle, Bounded, CrType, CrPhase
  <2>2. CASE Commit
    BY <2>2 DEF Commit, Phase, TypeOK, Bounded, CrType, CrPhase
  <2>3. CASE EnsureFinalizer \/ LetGo \/ OperatorDelete
    BY <2>3 DEF EnsureFinalizer, LetGo, OperatorDelete, Deleted, Absent, TypeOK, Bounded, CrType
  <2>4. CASE CancelSeen \/ Complete \/ Fail
    BY <2>4 DEF CancelSeen, Complete, Fail, Phase, TypeOK, Bounded, CrType, CrPhase
  <2>5. CASE Annotate \/ Taint \/ Withdraw
    BY <2>5 DEF Annotate, Taint, Withdraw, TypeOK, Bounded
  <2>. QED
    BY <2>1, <2>2, <2>3, <2>4, <2>5 DEF Reconcile
<1>4. annotated' \in BOOLEAN /\ tainted' \in [Handle -> BOOLEAN]
  BY DEF Reconcile, EnsureFinalizer, CancelSeen, Commit, Swap, Complete, LetGo, Fail, Annotate, Taint,
         Withdraw, OperatorDelete, TypeOK
<1>5. requests' \in 0 .. MaxRequests
  BY TriggerAssumption
     DEF Reconcile, EnsureFinalizer, CancelSeen, Commit, Swap, Complete, LetGo, Fail, Annotate, Taint,
         Withdraw, OperatorDelete, TypeOK
<1>6. overtaken' \subseteq Loop
  BY DEF Reconcile, EnsureFinalizer, CancelSeen, Commit, Swap, Complete, LetGo, Fail, Annotate, Taint,
         Withdraw, OperatorDelete, TypeOK
<1>. QED
  BY <1>1, <1>2, <1>3, <1>4, <1>5, <1>6 DEF TypeOK, Doomed

(* What the loop checked stays true until it creates: the evacuation that  *)
(* could move the volume does not exist, and a withdrawal is remembered.   *)
LEMMA CheckedStep ==
  ASSUME SingleLoop, IInv, Next
  PROVE  Checked'
<1>. SUFFICES ASSUME NEW l \in Loop, l \notin overtaken', loop'[l].pc = "create"
              PROVE  Fresh(loop[l].kind, loop[l].handle)'
  BY DEF Checked
<1>1. TypeOK /\ Doomed /\ Checked
  BY DEF IInv
<1>2. CASE \E k \in Loop : Tick(k) \/ CallFails(k)
  <2>1. Tick(l) \/ CallFails(l)
    BY <1>2 DEF SingleLoop
  <2>2. CheckFresh(l) /\ Fresh(loop[l].kind, loop[l].handle) /\ Go(l, "create")
    <3>1. ~CallFails(l) /\ ~ListNodes(l) /\ ~DeleteCR(l)
      BY <1>1, GoStep, DoneStep DEF CallFails, ListNodes, DeleteCR, TickPc
    <3>2. ~GetCR(l) /\ ~Create(l)
      BY <1>1, GoStep, DoneStep DEF GetCR, Create, TickPc
    <3>3. ~ListPVs(l) /\ ~ListVolumes(l)
      BY <1>1 DEF ListPVs, ListVolumes, TypeOK, LoopType
    <3>4. CheckFresh(l) /\ ~Done(l)
      BY <1>1, <2>1, <3>1, <3>2, <3>3, DoneStep DEF Tick
    <3>. QED
      BY <3>4 DEF CheckFresh
  <2>3. loop'[l].kind = loop[l].kind /\ loop'[l].handle = loop[l].handle
    BY <1>1, <2>2 DEF Go, TypeOK, LoopType
  <2>4. UNCHANGED <<annotated, tainted, moved, cr>>
    BY <2>2 DEF CheckFresh
  <2>. QED
    BY <2>2, <2>3, <2>4 DEF Fresh, VolumeExists
<1>3. CASE Reconcile \/ Fail \/ Annotate \/ Taint \/ Withdraw \/ OperatorDelete
  <2>1. loop' = loop
    BY <1>3 DEF Reconcile, EnsureFinalizer, CancelSeen, Commit, Swap, Complete, LetGo, Fail, Annotate,
           Taint, Withdraw, OperatorDelete
  <2>2. cr.phase \in {"absent", "completed", "cancelled"}
    BY <1>1, <2>1 DEF Doomed
  <2>3. ~Withdraw /\ ~Swap
    BY <2>1, <2>2 DEF Withdraw, Swap, Phase
  <2>4. overtaken' = overtaken /\ moved' = moved
    BY <1>3, <2>3 DEF Reconcile, EnsureFinalizer, CancelSeen, Commit, Complete, LetGo, Fail, Annotate,
           Taint, OperatorDelete
  <2>5. Fresh(loop[l].kind, loop[l].handle)
    BY <1>1, <2>1, <2>4 DEF Checked
  <2>6. (annotated => annotated') /\ \A h \in Handle : tainted[h] => tainted'[h]
    BY <1>1, <1>3, <2>3 DEF Reconcile, EnsureFinalizer, CancelSeen, Commit, Complete, LetGo, Fail,
           Annotate, Taint, OperatorDelete, TypeOK
  <2>7. moved \in Handle
    BY <1>1 DEF TypeOK
  <2>. QED
    BY <2>1, <2>4, <2>5, <2>6, <2>7 DEF Fresh, VolumeExists
<1>. QED
  BY <1>2, <1>3 DEF Next

LEMMA NextInv == SingleLoop /\ IInv /\ [Next]_vars => IInv'
<1>. SUFFICES ASSUME SingleLoop, IInv, [Next]_vars PROVE IInv'
  OBVIOUS
<1>1. CASE UNCHANGED vars
  BY <1>1 DEF vars, IInv, TypeOK, Doomed, Bounded, Checked, Fresh, VolumeExists
<1>2. CASE Next
  <2>1. TypeOK' /\ Doomed' /\ Bounded'
    BY <1>2, TickDoomed, OtherDoomed DEF Next
  <2>. QED
    BY <1>2, <2>1, CheckedStep DEF IInv
<1>. QED
  BY <1>1, <1>2

(* With one loop the invariant holds always (controller/trigger.rs).       *)
THEOREM Invariance == SingleLoop => (Spec => []IInv)
<1>. SUFFICES ASSUME SingleLoop PROVE Spec => []IInv
  OBVIOUS
<1>1. IInv /\ [Next]_vars => IInv'
  BY NextInv
<1>. QED
  BY <1>1, InitInv, PTL DEF Spec

(* One trigger loop deletes no evacuation in flight and no failed one,     *)
(* for any bounds and whatever happens between its get and its delete      *)
(* (trigger.rs:166-199).                                                   *)
THEOREM OneLoopNeverInterrupts == SingleLoop => (Spec => NeverInterrupts)
<1>. SUFFICES ASSUME SingleLoop PROVE Spec => NeverInterrupts
  OBVIOUS
<1>1. IInv /\ [Next]_vars => [\A l \in Loop : Removes(l) => cr.phase \in {"completed", "cancelled"}]_vars
  BY DEF IInv, Doomed, Removes
<1>2. Spec => []IInv
  BY Invariance
<1>. QED
  BY <1>1, <1>2, PTL DEF Spec, NeverInterrupts

(* One trigger loop creates an evacuation only while the volume is to be   *)
(* moved, however old its lists are, or in the instant after a withdrawal  *)
(* (trigger.rs:101-105).                                                   *)
THEOREM OneLoopJustified == SingleLoop => (Spec => Justified)
<1>. SUFFICES ASSUME SingleLoop PROVE Spec => Justified
  OBVIOUS
<1>1. IInv /\ [Next]_vars =>
        [\A l \in Loop \ overtaken : Create(l) /\ cr' # cr => Fresh(cr'.trigger, moved)]_vars
  <2>. SUFFICES ASSUME IInv, NEW l \in Loop \ overtaken, Create(l), cr' # cr
                PROVE  Fresh(cr'.trigger, moved)
    OBVIOUS
  <2>1. Fresh(loop[l].kind, loop[l].handle)
    BY DEF IInv, Checked, Create
  <2>2. cr'.trigger = loop[l].kind
    BY DEF Create
  <2>. QED
    BY <2>1, <2>2 DEF Fresh
<1>2. Spec => []IInv
  BY Invariance
<1>. QED
  BY <1>1, <1>2, PTL DEF Spec, Justified
=============================================================================
