-------------------------- MODULE AttachLockProofs --------------------------
(***************************************************************************)
(* Proofs about AttachLock, for any pods, settle and propagation times: in *)
(* an orderly run the copy starts a settle period after the last pod left, *)
(* no pod runs on the source from then to the delete of the old PV, and    *)
(* the swap loses no write.                                                *)
(***************************************************************************)
EXTENDS AttachLock, TLAPS

(* Where WhenClaimed may be used, only routed pods can be created          *)
(* unscheduled, whatever the admission policy enforces.                    *)
LEMMA AdmittedRouted ==
  ASSUME Orderly, "WhenClaimed" \in Modes, TypeOK,
         NEW k \in Creatable, Admitted(k), k # "named"
  PROVE  k = "routed"
  BY LockAssumption DEF Orderly, Creatable, Admitted, BypassesCordon, PodKind, TypeOK

(* BlockingReason is a message, and NoMessage lists no pods.               *)
LEMMA Reason ==
  ASSUME TypeOK
  PROVE  /\ BlockingReason \in [scheduled: SUBSET Pod, unscheduled: SUBSET Pod, cordon: BOOLEAN]
         /\ ~Blocked /\ mode = "WhenIdle" => listed.scheduled = {} /\ listed.unscheduled = {}
         /\ ~Blocked /\ mode = "WhenClaimed" => listed.scheduled = {} /\ RepelsPods
<1>1. /\ listed.scheduled \subseteq Pod /\ listed.unscheduled \subseteq Pod
      /\ RepelsPods \in BOOLEAN /\ mode \in {"WhenIdle", "WhenClaimed"}
  BY DEF TypeOK, RepelsPods
<1>2. BlockingReason \in [scheduled: SUBSET Pod, unscheduled: SUBSET Pod, cordon: BOOLEAN]
  BY <1>1 DEF BlockingReason, BlockingPods
<1>3. ASSUME mode = "WhenIdle"
      PROVE  /\ BlockingReason.scheduled = listed.scheduled
             /\ BlockingReason.unscheduled = listed.unscheduled
  BY <1>3 DEF BlockingReason, BlockingPods
<1>4. ASSUME mode = "WhenClaimed"
      PROVE  /\ BlockingReason.scheduled = listed.scheduled
             /\ listed.scheduled = {} => (BlockingReason.cordon <=> ~RepelsPods)
  BY <1>4 DEF BlockingReason, BlockingPods
<1>5. NoMessage.scheduled = {} /\ NoMessage.unscheduled = {} /\ ~NoMessage.cordon
  BY DEF NoMessage
<1>. QED
  BY <1>1, <1>2, <1>3, <1>4, <1>5 DEF Blocked

(* Every step keeps the types.                                             *)
LEMMA TypeStep == TypeOK /\ mode \in Modes /\ [Next]_vars => TypeOK'
<1>. SUFFICES ASSUME TypeOK, [Next]_vars PROVE TypeOK'
  OBVIOUS
<1>. USE LockAssumption DEF TypeOK, NoAge
<1>. NoMessage \in [scheduled: SUBSET Pod, unscheduled: SUBSET Pod, cordon: BOOLEAN]
  BY DEF NoMessage
<1>. NotListed \in [scheduled: SUBSET Pod, unscheduled: SUBSET Pod]
  BY DEF NotListed
<1>1. ASSUME NEW p \in Pod, NEW k \in Creatable, CreatePod(p, k) PROVE TypeOK'
  BY <1>1 DEF CreatePod, ctlVars, lockVars, podVars, dataVars, history, Creatable, PodType
<1>2. ASSUME NEW p \in Pod, BindPod(p) PROVE TypeOK'
  BY <1>2 DEF BindPod, ctlVars, lockVars, podVars, dataVars, history, PodType
<1>3. ASSUME NEW p \in Pod, WritePod(p) PROVE TypeOK'
  BY <1>3 DEF WritePod, ctlVars, lockVars, podVars, dataVars, history
<1>4. ASSUME NEW p \in Pod, DeletePod(p) PROVE TypeOK'
  BY <1>4 DEF DeletePod, ctlVars, lockVars, podVars, dataVars, history, PodType, NoPod, PodKind
<1>5. ASSUME NEW s \in NodeState \ {"open"}, Repel(s) PROVE TypeOK'
  BY <1>5 DEF Repel, ctlVars, lockVars, podVars, dataVars, history, NodeState
<1>6. CASE Lock
  BY <1>6 DEF Lock, ListFor, ctlVars, lockVars, podVars, dataVars, history
<1>7. CASE LockRecorded
  BY <1>7 DEF LockRecorded, Advance, ctlVars, lockVars, podVars, dataVars, history
<1>8. CASE ListPods
  BY <1>8 DEF ListPods, Scheduled, Unscheduled, ctlVars, lockVars, podVars, dataVars, history
<1>9. CASE Quiescing
  BY <1>9, Reason DEF Quiescing, WaitBlocked, Advance, ctlVars, lockVars, podVars, dataVars, history
<1>10. CASE Snapshot
  BY <1>10 DEF Snapshot, ctlVars, lockVars, podVars, dataVars, history
<1>11. CASE CopyDone
  BY <1>11 DEF CopyDone, Advance, ctlVars, lockVars, podVars, dataVars, history
<1>12. CASE Committing
  BY <1>12, Reason DEF Committing, WaitBlocked, Advance, ctlVars, lockVars, podVars, dataVars, history
<1>13. CASE SwapCheck
  BY <1>13, Reason DEF SwapCheck, WaitBlocked, ctlVars, lockVars, podVars, dataVars, history
<1>14. CASE DeleteOldPV
  BY <1>14 DEF DeleteOldPV, ctlVars, lockVars, podVars, dataVars, history
<1>15. CASE CreateNewPV
  BY <1>15 DEF CreateNewPV, Advance, ctlVars, lockVars, podVars, dataVars, history
<1>16. CASE Unlock
  BY <1>16 DEF Unlock, Advance, ctlVars, lockVars, podVars, dataVars, history
<1>17. CASE Cancel
  BY <1>17 DEF Cancel, Advance, ctlVars, lockVars, podVars, dataVars, history
<1>18. CASE Restart
  BY <1>18 DEF Restart, ctlVars, lockVars, podVars, dataVars, history
<1>19. CASE PropagateLock
  BY <1>19 DEF PropagateLock, ctlVars, lockVars, podVars, dataVars, history
<1>20. CASE Tick
  BY <1>20 DEF Tick, Older, ctlVars, lockVars, podVars, dataVars, history
<1>21. CASE Uncordon
  BY <1>21 DEF Uncordon, ctlVars, lockVars, podVars, dataVars, history, NodeState
<1>22. CASE EditMode
  BY <1>22 DEF EditMode, ctlVars, lockVars, podVars, dataVars, history
<1>23. CASE UNCHANGED vars
  BY <1>23 DEF vars, ctlVars, lockVars, podVars, dataVars, history
<1>. QED
  BY <1>1, <1>2, <1>3, <1>4, <1>5, <1>6, <1>7, <1>8, <1>9, <1>10, <1>11, <1>12, <1>13, <1>14, <1>15, <1>16, <1>17, <1>18, <1>19, <1>20, <1>21, <1>22, <1>23 DEF Next, Users, Reconcile

(* The lock is on before anything relies on it.                            *)
LEMMA EnforcedStep == Orderly /\ IInv /\ [Next]_vars => Enforced'
<1>. SUFFICES ASSUME Orderly, IInv, [Next]_vars PROVE Enforced'
  OBVIOUS
<1>. USE LockAssumption
<1>f. TypeOK /\ Enforced /\ Unwritten /\ ~MayEditMode
  BY DEF IInv, Orderly
<1>. USE DEF Enforced, Window, ListFor, TypeOK, NoAge, Unwritten
<1>1. ASSUME NEW p \in Pod, NEW k \in Creatable, CreatePod(p, k) PROVE Enforced'
  BY <1>1, <1>f DEF CreatePod, ctlVars, lockVars, podVars, dataVars, history
<1>2. ASSUME NEW p \in Pod, BindPod(p) PROVE Enforced'
  BY <1>2, <1>f DEF BindPod, ctlVars, lockVars, podVars, dataVars, history
<1>3. ASSUME NEW p \in Pod, WritePod(p) PROVE Enforced'
  BY <1>3, <1>f DEF WritePod, ctlVars, lockVars, podVars, dataVars, history
<1>4. ASSUME NEW p \in Pod, DeletePod(p) PROVE Enforced'
  BY <1>4, <1>f DEF DeletePod, ctlVars, lockVars, podVars, dataVars, history
<1>5. ASSUME NEW s \in NodeState \ {"open"}, Repel(s) PROVE Enforced'
  BY <1>5, <1>f DEF Repel, ctlVars, lockVars, podVars, dataVars, history
<1>6. CASE Lock
  BY <1>6, <1>f DEF Lock, ctlVars, lockVars, podVars, dataVars, history, ListFor
<1>7. CASE LockRecorded
  BY <1>7, <1>f DEF LockRecorded, Advance, ctlVars, lockVars, podVars, dataVars, history
<1>8. CASE ListPods
  BY <1>8, <1>f DEF ListPods, Scheduled, Unscheduled, ctlVars, lockVars, podVars, dataVars, history
<1>9. CASE Quiescing
  BY <1>9, <1>f DEF Quiescing, WaitBlocked, Advance, ctlVars, lockVars, podVars, dataVars, history
<1>10. CASE Snapshot
  BY <1>10, <1>f DEF Snapshot, ctlVars, lockVars, podVars, dataVars, history
<1>11. CASE CopyDone
  BY <1>11, <1>f DEF CopyDone, Advance, ctlVars, lockVars, podVars, dataVars, history
<1>12. CASE Committing
  BY <1>12, <1>f DEF Committing, WaitBlocked, Advance, ctlVars, lockVars, podVars, dataVars, history
<1>13. CASE SwapCheck
  BY <1>13, <1>f DEF SwapCheck, WaitBlocked, ctlVars, lockVars, podVars, dataVars, history
<1>14. CASE DeleteOldPV
  BY <1>14, <1>f DEF DeleteOldPV, ctlVars, lockVars, podVars, dataVars, history
<1>15. CASE CreateNewPV
  BY <1>15, <1>f DEF CreateNewPV, Advance, ctlVars, lockVars, podVars, dataVars, history
<1>16. CASE Unlock
  BY <1>16, <1>f DEF Unlock, Advance, ctlVars, lockVars, podVars, dataVars, history, ListFor
<1>17. CASE Cancel
  BY <1>17, <1>f DEF Cancel, Advance, ctlVars, lockVars, podVars, dataVars, history
<1>18. CASE Restart
  BY <1>18, <1>f DEF Restart, ctlVars, lockVars, podVars, dataVars, history
<1>19. CASE PropagateLock
  BY <1>19, <1>f DEF PropagateLock, ctlVars, lockVars, podVars, dataVars, history
<1>20. CASE Tick
  BY <1>20, <1>f DEF Tick, Older, ctlVars, lockVars, podVars, dataVars, history
<1>21. CASE Uncordon
  BY <1>21, <1>f DEF Uncordon, ctlVars, lockVars, podVars, dataVars, history
<1>22. CASE EditMode
  BY <1>22, <1>f DEF EditMode, ctlVars, lockVars, podVars, dataVars, history
<1>23. CASE UNCHANGED vars
  BY <1>23, <1>f DEF vars, ctlVars, lockVars, podVars, dataVars, history
<1>. QED
  BY <1>1, <1>2, <1>3, <1>4, <1>5, <1>6, <1>7, <1>8, <1>9, <1>10, <1>11, <1>12, <1>13, <1>14, <1>15, <1>16, <1>17, <1>18, <1>19, <1>20, <1>21, <1>22, <1>23 DEF Next, Users, Reconcile

(* A list of pods is acted on before it can be wrong.                      *)
LEMMA ListedStep == Orderly /\ IInv /\ [Next]_vars => ListedInTime'
<1>. SUFFICES ASSUME Orderly, IInv, [Next]_vars PROVE ListedInTime'
  OBVIOUS
<1>. USE LockAssumption
<1>f. TypeOK /\ Enforced /\ ListedInTime /\ Closed /\ ~MayEditMode /\ mode \in Modes
  BY DEF IInv, Orderly
<1>. USE DEF ListedInTime, Enforced, TypeOK, AtSource
<1>1. ASSUME NEW p \in Pod, NEW k \in Creatable, CreatePod(p, k) PROVE ListedInTime'
  BY <1>1, <1>f, AdmittedRouted DEF CreatePod, ctlVars, lockVars, podVars, dataVars, history, Admitted, AtSource, BypassesCordon, ListFor, PodType
<1>2. ASSUME NEW p \in Pod, BindPod(p) PROVE ListedInTime'
  BY <1>2, <1>f DEF BindPod, ctlVars, lockVars, podVars, dataVars, history, Closed, AtSource, RepelsPods, Tolerates, PodType
<1>3. ASSUME NEW p \in Pod, WritePod(p) PROVE ListedInTime'
  BY <1>3, <1>f DEF WritePod, ctlVars, lockVars, podVars, dataVars, history, AtSource
<1>4. ASSUME NEW p \in Pod, DeletePod(p) PROVE ListedInTime'
  BY <1>4, <1>f DEF DeletePod, ctlVars, lockVars, podVars, dataVars, history, AtSource, NoPod, PodType
<1>5. ASSUME NEW s \in NodeState \ {"open"}, Repel(s) PROVE ListedInTime'
  BY <1>5, <1>f DEF Repel, ctlVars, lockVars, podVars, dataVars, history
<1>6. CASE Lock
  BY <1>6, <1>f DEF Lock, ctlVars, lockVars, podVars, dataVars, history
<1>7. CASE LockRecorded
  BY <1>7, <1>f DEF LockRecorded, Advance, ctlVars, lockVars, podVars, dataVars, history
<1>8. CASE ListPods
  BY <1>8, <1>f DEF ListPods, Scheduled, Unscheduled, ctlVars, lockVars, podVars, dataVars, history, AtSource, PodType
<1>9. CASE Quiescing
  BY <1>9, <1>f DEF Quiescing, WaitBlocked, Advance, ctlVars, lockVars, podVars, dataVars, history
<1>10. CASE Snapshot
  BY <1>10, <1>f DEF Snapshot, ctlVars, lockVars, podVars, dataVars, history
<1>11. CASE CopyDone
  BY <1>11, <1>f DEF CopyDone, Advance, ctlVars, lockVars, podVars, dataVars, history
<1>12. CASE Committing
  BY <1>12, <1>f DEF Committing, WaitBlocked, Advance, ctlVars, lockVars, podVars, dataVars, history
<1>13. CASE SwapCheck
  BY <1>13, <1>f DEF SwapCheck, WaitBlocked, ctlVars, lockVars, podVars, dataVars, history
<1>14. CASE DeleteOldPV
  BY <1>14, <1>f DEF DeleteOldPV, ctlVars, lockVars, podVars, dataVars, history
<1>15. CASE CreateNewPV
  BY <1>15, <1>f DEF CreateNewPV, Advance, ctlVars, lockVars, podVars, dataVars, history
<1>16. CASE Unlock
  BY <1>16, <1>f DEF Unlock, Advance, ctlVars, lockVars, podVars, dataVars, history
<1>17. CASE Cancel
  BY <1>17, <1>f DEF Cancel, Advance, ctlVars, lockVars, podVars, dataVars, history
<1>18. CASE Restart
  BY <1>18, <1>f DEF Restart, ctlVars, lockVars, podVars, dataVars, history
<1>19. CASE PropagateLock
  BY <1>19, <1>f DEF PropagateLock, ctlVars, lockVars, podVars, dataVars, history
<1>20. CASE Tick
  BY <1>20, <1>f DEF Tick, Older, ctlVars, lockVars, podVars, dataVars, history
<1>21. CASE Uncordon
  BY <1>21, <1>f DEF Uncordon, ctlVars, lockVars, podVars, dataVars, history
<1>22. CASE EditMode
  BY <1>22, <1>f DEF EditMode, ctlVars, lockVars, podVars, dataVars, history
<1>23. CASE UNCHANGED vars
  BY <1>23, <1>f DEF vars, ctlVars, lockVars, podVars, dataVars, history
<1>. QED
  BY <1>1, <1>2, <1>3, <1>4, <1>5, <1>6, <1>7, <1>8, <1>9, <1>10, <1>11, <1>12, <1>13, <1>14, <1>15, <1>16, <1>17, <1>18, <1>19, <1>20, <1>21, <1>22, <1>23 DEF Next, Users, Reconcile

(* Nobody reaches the source once the settle period has begun.             *)
LEMMA ClosedStep == Orderly /\ IInv /\ [Next]_vars => Closed'
<1>. SUFFICES ASSUME Orderly, IInv, [Next]_vars PROVE Closed'
  OBVIOUS
<1>. USE LockAssumption
<1>f. TypeOK /\ Enforced /\ ListedInTime /\ Closed /\ Orderly /\ mode \in Modes
  BY DEF IInv
<1>. ~MayEditMode /\ mode \in {"WhenIdle", "WhenClaimed"}
  BY <1>f DEF Orderly, TypeOK
<1>. USE DEF Closed, Window, TypeOK, AtSource, RepelsPods
<1>1. ASSUME NEW p \in Pod, NEW k \in Creatable, CreatePod(p, k) PROVE Closed'
  BY <1>1, <1>f, AdmittedRouted DEF CreatePod, ctlVars, lockVars, podVars, dataVars, history, Admitted, BypassesCordon, ListFor, PodType, Enforced, Creatable
<1>2. ASSUME NEW p \in Pod, BindPod(p) PROVE Closed'
  BY <1>2, <1>f DEF BindPod, ctlVars, lockVars, podVars, dataVars, history, Tolerates, PodType
<1>3. ASSUME NEW p \in Pod, WritePod(p) PROVE Closed'
  BY <1>3, <1>f DEF WritePod, ctlVars, lockVars, podVars, dataVars, history
<1>4. ASSUME NEW p \in Pod, DeletePod(p) PROVE Closed'
  BY <1>4, <1>f DEF DeletePod, ctlVars, lockVars, podVars, dataVars, history, NoPod, PodType
<1>5. ASSUME NEW s \in NodeState \ {"open"}, Repel(s) PROVE Closed'
  BY <1>5, <1>f DEF Repel, ctlVars, lockVars, podVars, dataVars, history, NodeState
<1>6. CASE Lock
  BY <1>6, <1>f DEF Lock, ctlVars, lockVars, podVars, dataVars, history
<1>7. CASE LockRecorded
  BY <1>7, <1>f DEF LockRecorded, Advance, ctlVars, lockVars, podVars, dataVars, history, Enforced
<1>8. CASE ListPods
  BY <1>8, <1>f DEF ListPods, Scheduled, Unscheduled, ctlVars, lockVars, podVars, dataVars, history
<1>9. CASE Quiescing
  BY <1>9, <1>f, Reason DEF Quiescing, WaitBlocked, Advance, ctlVars, lockVars, podVars, dataVars, history, ListedInTime, NoAge
<1>10. CASE Snapshot
  BY <1>10, <1>f DEF Snapshot, ctlVars, lockVars, podVars, dataVars, history
<1>11. CASE CopyDone
  BY <1>11, <1>f DEF CopyDone, Advance, ctlVars, lockVars, podVars, dataVars, history
<1>12. CASE Committing
  BY <1>12, <1>f DEF Committing, WaitBlocked, Advance, ctlVars, lockVars, podVars, dataVars, history
<1>13. CASE SwapCheck
  BY <1>13, <1>f DEF SwapCheck, WaitBlocked, ctlVars, lockVars, podVars, dataVars, history
<1>14. CASE DeleteOldPV
  BY <1>14, <1>f DEF DeleteOldPV, ctlVars, lockVars, podVars, dataVars, history
<1>15. CASE CreateNewPV
  BY <1>15, <1>f DEF CreateNewPV, Advance, ctlVars, lockVars, podVars, dataVars, history
<1>16. CASE Unlock
  BY <1>16, <1>f DEF Unlock, Advance, ctlVars, lockVars, podVars, dataVars, history
<1>17. CASE Cancel
  BY <1>17, <1>f DEF Cancel, Advance, ctlVars, lockVars, podVars, dataVars, history
<1>18. CASE Restart
  BY <1>18, <1>f DEF Restart, ctlVars, lockVars, podVars, dataVars, history
<1>19. CASE PropagateLock
  BY <1>19, <1>f DEF PropagateLock, ctlVars, lockVars, podVars, dataVars, history
<1>20. CASE Tick
  BY <1>20, <1>f DEF Tick, Older, ctlVars, lockVars, podVars, dataVars, history
<1>21. CASE Uncordon
  BY <1>21, <1>f DEF Uncordon, ctlVars, lockVars, podVars, dataVars, history, Orderly
<1>22. CASE EditMode
  BY <1>22, <1>f DEF EditMode, ctlVars, lockVars, podVars, dataVars, history
<1>23. CASE UNCHANGED vars
  BY <1>23, <1>f DEF vars, ctlVars, lockVars, podVars, dataVars, history
<1>. QED
  BY <1>1, <1>2, <1>3, <1>4, <1>5, <1>6, <1>7, <1>8, <1>9, <1>10, <1>11, <1>12, <1>13, <1>14, <1>15, <1>16, <1>17, <1>18, <1>19, <1>20, <1>21, <1>22, <1>23 DEF Next, Users, Reconcile

(* The source is not written between snapshot and swap.                    *)
LEMMA UnwrittenStep == Orderly /\ IInv /\ [Next]_vars => Unwritten'
<1>. SUFFICES ASSUME Orderly, IInv, [Next]_vars PROVE Unwritten'
  OBVIOUS
<1>. USE LockAssumption
<1>f. TypeOK /\ Enforced /\ Closed /\ Unwritten /\ ~MayEditMode
  BY DEF IInv, Orderly
<1>. mode \in {"WhenIdle", "WhenClaimed"}
  BY <1>f DEF TypeOK
<1>. USE DEF Unwritten, Closed, Window, TypeOK, AtSource
<1>1. ASSUME NEW p \in Pod, NEW k \in Creatable, CreatePod(p, k) PROVE Unwritten'
  BY <1>1, <1>f DEF CreatePod, ctlVars, lockVars, podVars, dataVars, history, Admitted, BypassesCordon, ListFor, PodType, Enforced
<1>2. ASSUME NEW p \in Pod, BindPod(p) PROVE Unwritten'
  BY <1>2, <1>f DEF BindPod, ctlVars, lockVars, podVars, dataVars, history, PodType
<1>3. ASSUME NEW p \in Pod, WritePod(p) PROVE Unwritten'
  BY <1>3, <1>f DEF WritePod, ctlVars, lockVars, podVars, dataVars, history
<1>4. ASSUME NEW p \in Pod, DeletePod(p) PROVE Unwritten'
  BY <1>4, <1>f DEF DeletePod, ctlVars, lockVars, podVars, dataVars, history, NoPod, PodType
<1>5. ASSUME NEW s \in NodeState \ {"open"}, Repel(s) PROVE Unwritten'
  BY <1>5, <1>f DEF Repel, ctlVars, lockVars, podVars, dataVars, history
<1>6. CASE Lock
  BY <1>6, <1>f DEF Lock, ctlVars, lockVars, podVars, dataVars, history
<1>7. CASE LockRecorded
  BY <1>7, <1>f DEF LockRecorded, Advance, ctlVars, lockVars, podVars, dataVars, history
<1>8. CASE ListPods
  BY <1>8, <1>f DEF ListPods, Scheduled, Unscheduled, ctlVars, lockVars, podVars, dataVars, history
<1>9. CASE Quiescing
  BY <1>9, <1>f DEF Quiescing, WaitBlocked, Advance, ctlVars, lockVars, podVars, dataVars, history
<1>10. CASE Snapshot
  BY <1>10, <1>f DEF Snapshot, ctlVars, lockVars, podVars, dataVars, history
<1>11. CASE CopyDone
  BY <1>11, <1>f DEF CopyDone, Advance, ctlVars, lockVars, podVars, dataVars, history
<1>12. CASE Committing
  BY <1>12, <1>f DEF Committing, WaitBlocked, Advance, ctlVars, lockVars, podVars, dataVars, history
<1>13. CASE SwapCheck
  BY <1>13, <1>f DEF SwapCheck, WaitBlocked, ctlVars, lockVars, podVars, dataVars, history
<1>14. CASE DeleteOldPV
  BY <1>14, <1>f DEF DeleteOldPV, ctlVars, lockVars, podVars, dataVars, history
<1>15. CASE CreateNewPV
  BY <1>15, <1>f DEF CreateNewPV, Advance, ctlVars, lockVars, podVars, dataVars, history
<1>16. CASE Unlock
  BY <1>16, <1>f DEF Unlock, Advance, ctlVars, lockVars, podVars, dataVars, history
<1>17. CASE Cancel
  BY <1>17, <1>f DEF Cancel, Advance, ctlVars, lockVars, podVars, dataVars, history
<1>18. CASE Restart
  BY <1>18, <1>f DEF Restart, ctlVars, lockVars, podVars, dataVars, history
<1>19. CASE PropagateLock
  BY <1>19, <1>f DEF PropagateLock, ctlVars, lockVars, podVars, dataVars, history
<1>20. CASE Tick
  BY <1>20, <1>f DEF Tick, Older, ctlVars, lockVars, podVars, dataVars, history
<1>21. CASE Uncordon
  BY <1>21, <1>f DEF Uncordon, ctlVars, lockVars, podVars, dataVars, history
<1>22. CASE EditMode
  BY <1>22, <1>f DEF EditMode, ctlVars, lockVars, podVars, dataVars, history
<1>23. CASE UNCHANGED vars
  BY <1>23, <1>f DEF vars, ctlVars, lockVars, podVars, dataVars, history
<1>. QED
  BY <1>1, <1>2, <1>3, <1>4, <1>5, <1>6, <1>7, <1>8, <1>9, <1>10, <1>11, <1>12, <1>13, <1>14, <1>15, <1>16, <1>17, <1>18, <1>19, <1>20, <1>21, <1>22, <1>23 DEF Next, Users, Reconcile

(* The settle period is time without a pod.                                *)
LEMMA SettledStep == Orderly /\ IInv /\ [Next]_vars => Settled'
<1>. SUFFICES ASSUME Orderly, IInv, [Next]_vars,
                     mode' = "WhenIdle", phase' = "Quiescing", quiescedAt' # NoAge
              PROVE  released' >= quiescedAt' /\ \A p \in Pod : pods'[p].at = "none"
  BY DEF Settled, NoAge
<1>. DEFINE Empty == \A p \in Pod : pods[p].at = "none"
<1>1. TypeOK /\ Enforced /\ ListedInTime /\ Settled /\ ~MayEditMode
  BY DEF IInv, Orderly
<1>2. /\ Settle \in Nat /\ released \in 0 .. Settle /\ quiescedAt \in 0 .. NoAge
      /\ pods \in [Pod -> PodType]
  BY <1>1, LockAssumption DEF TypeOK
<1>3. CASE Quiescing /\ quiescedAt = NoAge
  <2>1. ~Blocked /\ quiescedAt' = 0 /\ UNCHANGED <<mode, pods, released>>
    BY <1>3 DEF Quiescing, WaitBlocked, Advance, podVars, history
  <2>2. listed.scheduled = {} /\ listed.unscheduled = {}
    BY <1>1, <2>1, Reason
  <2>3. phase = "Quiescing" /\ pc = "listed" /\ mode = "WhenIdle"
    BY <1>3, <2>1 DEF Quiescing
  <2>4. Empty
    BY <1>1, <2>2, <2>3 DEF ListedInTime
  <2>5. released >= 0
    BY <1>2
  <2>. QED
    BY <2>1, <2>4, <2>5
<1>4. CASE LockRecorded
  BY <1>1, <1>4 DEF LockRecorded, Enforced
<1>5. ASSUME ~LockRecorded, ~(Quiescing /\ quiescedAt = NoAge)
      PROVE  phase = "Quiescing" /\ mode = "WhenIdle" /\ quiescedAt # NoAge
  BY <1>1, <1>5 DEF Next, Users, Reconcile, vars, ctlVars, CreatePod, BindPod, WritePod,
         DeletePod, Repel, Uncordon, EditMode, Lock, LockRecorded, ListPods, Quiescing, WaitBlocked,
         Snapshot, CopyDone, Committing, SwapCheck, DeleteOldPV, CreateNewPV, Unlock, Cancel,
         Restart, PropagateLock, Tick, Advance
<1>6. CASE phase = "Quiescing" /\ mode = "WhenIdle" /\ quiescedAt # NoAge
  <2>1. Empty /\ released >= quiescedAt /\ enforced = "pvcKeys"
    BY <1>1, <1>6 DEF Settled, Enforced, ListFor
  <2>2. ASSUME NEW p \in Pod PROVE ~BindPod(p) /\ ~WritePod(p) /\ ~DeletePod(p)
    BY <2>1 DEF BindPod, WritePod, DeletePod
  <2>3. ASSUME NEW p \in Pod, NEW k PROVE ~CreatePod(p, k)
    BY <2>1 DEF CreatePod, Admitted
  <2>4. UNCHANGED pods
    BY <2>2, <2>3 DEF Next, Users, Reconcile, vars, podVars, Repel, Uncordon, EditMode, Lock,
           LockRecorded, ListPods, Quiescing, WaitBlocked, Snapshot, CopyDone, Committing, SwapCheck,
           DeleteOldPV, CreateNewPV, Unlock, Cancel, Restart, PropagateLock, Tick
  <2>5. CASE Tick
    <3>1. /\ released' = IF \E p \in Pod : pods[p].at = "source" THEN 0 ELSE Older(released, Settle)
          /\ quiescedAt' = IF quiescedAt = NoAge THEN NoAge ELSE Older(quiescedAt, Settle)
      BY <2>5 DEF Tick
    <3>2. released' = Older(released, Settle) /\ quiescedAt' = Older(quiescedAt, Settle)
      BY <1>6, <2>1, <3>1
    <3>3. released' >= quiescedAt'
      BY <1>2, <2>1, <3>2 DEF Older, NoAge
    <3>. QED
      BY <2>1, <2>4, <3>3
  <2>6. CASE ~Tick
    <3>1. UNCHANGED released
      BY <2>2, <2>3, <2>6 DEF Next, Users, Reconcile, vars, history, Repel, Uncordon, EditMode, Lock,
             LockRecorded, ListPods, Quiescing, WaitBlocked, Snapshot, CopyDone, Committing, SwapCheck,
             DeleteOldPV, CreateNewPV, Unlock, Cancel, Restart, PropagateLock
    <3>2. quiescedAt' = quiescedAt
      BY <1>6, <2>2, <2>3, <2>6 DEF Next, Users, Reconcile, vars, ctlVars, Repel, Uncordon, EditMode,
             Lock, LockRecorded, ListPods, Quiescing, WaitBlocked, Snapshot, CopyDone, Committing,
             SwapCheck, DeleteOldPV, CreateNewPV, Unlock, Cancel, Restart, PropagateLock, NoAge
    <3>. QED
      BY <2>1, <2>4, <3>1, <3>2
  <2>. QED
    BY <2>5, <2>6
<1>. QED
  BY <1>3, <1>4, <1>5, <1>6

(* Init establishes the invariant.                                         *)
LEMMA InitInv == Orderly /\ Init => IInv
<1>. SUFFICES ASSUME Orderly, Init PROVE IInv
  OBVIOUS
<1>. USE LockAssumption DEF Init
<1>1. TypeOK
  <2>1. pods \in [Pod -> PodType]
    BY DEF NoPod, PodType, PodKind
  <2>2. /\ message \in [scheduled: SUBSET Pod, unscheduled: SUBSET Pod, cordon: BOOLEAN]
        /\ listed \in [scheduled: SUBSET Pod, unscheduled: SUBSET Pod]
    BY DEF NoMessage, NotListed
  <2>3. quiescedAt \in 0 .. NoAge /\ lag \in 0 .. Propagation /\ released \in 0 .. Settle
    BY DEF NoAge
  <2>. QED
    BY <2>1, <2>2, <2>3 DEF TypeOK
<1>2. Enforced /\ ListedInTime /\ Closed /\ Unwritten /\ Settled
  BY DEF Enforced, ListedInTime, Closed, Unwritten, Settled, Window, NoPod, NoAge, AtSource
<1>. QED
  BY <1>1, <1>2 DEF IInv

(* Nobody edits spec.mode.                                                 *)
LEMMA ModeStep == Orderly /\ IInv /\ [Next]_vars => mode' \in Modes
  BY DEF Orderly, IInv, Next, Users, Reconcile, vars, ctlVars, CreatePod, BindPod, WritePod,
         DeletePod, Repel, Uncordon, EditMode, Lock, LockRecorded, ListPods, Quiescing, WaitBlocked,
         Snapshot, CopyDone, Committing, SwapCheck, DeleteOldPV, CreateNewPV, Unlock, Cancel,
         Restart, PropagateLock, Tick

(* In an orderly run the invariant holds in every reachable state.         *)
THEOREM Invariance == Orderly => (Spec => []IInv)
<1>. SUFFICES ASSUME Orderly PROVE Spec => []IInv
  OBVIOUS
<1>1. Init => IInv
  BY InitInv
<1>2. IInv /\ [Next]_vars => IInv'
  <2>. SUFFICES ASSUME IInv, [Next]_vars PROVE IInv'
    OBVIOUS
  <2>1. TypeOK'
    BY TypeStep DEF IInv
  <2>2. Enforced' /\ ListedInTime' /\ Closed' /\ Unwritten' /\ Settled'
    BY EnforcedStep, ListedStep, ClosedStep, UnwrittenStep, SettledStep
  <2>. QED
    BY <2>1, <2>2, ModeStep DEF IInv
<1>. QED
  BY <1>1, <1>2, PTL DEF Spec

(* No write is lost by the swap of an orderly run.                         *)
THEOREM WritesKept == Orderly => (Spec => []NoLostWrites)
<1>. SUFFICES ASSUME Orderly PROVE Spec => []NoLostWrites
  OBVIOUS
<1>1. IInv => NoLostWrites
  BY DEF IInv, Unwritten, NoLostWrites
<1>2. Spec => []IInv
  BY Invariance
<1>. QED
  BY <1>1, <1>2, PTL

(* In an orderly run no pod is on the source while it is copied.           *)
THEOREM SourceQuiet == Orderly => (Spec => []NoWriterMidCopy)
<1>. SUFFICES ASSUME Orderly PROVE Spec => []NoWriterMidCopy
  OBVIOUS
<1>1. IInv => NoWriterMidCopy
  BY DEF IInv, TypeOK, Closed, Window, AtSource, NoWriterMidCopy
<1>2. Spec => []IInv
  BY Invariance
<1>. QED
  BY <1>1, <1>2, PTL

(* The copy starts a settle period after the last pod left, not after the  *)
(* lock or after the first look (state_machine.rs:458-489).                *)
THEOREM CopySettled == Orderly => (Spec => SettledBeforeCopy)
<1>. SUFFICES ASSUME Orderly PROVE Spec => SettledBeforeCopy
  OBVIOUS
<1>. DEFINE Q == mode = "WhenIdle" /\ phase = "Quiescing" /\ phase' = "Copying" =>
                   released >= Settle /\ \A p \in Pod : pods[p].at # "source"
<1>1. IInv /\ [Next]_vars => [Q]_vars
  <2>. SUFFICES ASSUME IInv, Next, mode = "WhenIdle", phase = "Quiescing", phase' = "Copying"
                PROVE  released >= Settle /\ \A p \in Pod : pods[p].at # "source"
    OBVIOUS
  <2>1. Quiescing
    BY DEF Next, Users, Reconcile, ctlVars, CreatePod, BindPod, WritePod, DeletePod, Repel,
           Uncordon, EditMode, Lock, LockRecorded, ListPods, Snapshot, CopyDone, Committing, SwapCheck,
           DeleteOldPV, CreateNewPV, Unlock, Cancel, Restart, PropagateLock, Tick, Advance
  <2>2. quiescedAt = Settle /\ Settle # NoAge
    BY <2>1, LockAssumption DEF Quiescing, WaitBlocked, NoAge
  <2>. QED
    BY <2>2 DEF IInv, Settled
<1>2. Spec => []IInv
  BY Invariance
<1>. QED
  BY <1>1, <1>2, PTL DEF Spec, SettledBeforeCopy
=============================================================================
