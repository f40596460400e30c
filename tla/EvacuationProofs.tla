-------------------------- MODULE EvacuationProofs --------------------------
(***************************************************************************)
(* TLAPS proofs about Evacuation, for every number of attempts, either     *)
(* trigger, any removable nodes, with and without API faults.              *)
(*                                                                         *)
(* IInv == TypeOK /\ Safe /\ Recorded is inductive.  The proof has three   *)
(* layers: lemmas on the operators (what a status update or an object      *)
(* update returns), typing and effect lemmas per action, and one step per  *)
(* action for Safe and for Recorded.  Steps are implications on purpose:   *)
(* the SMT encoding of Boolean-valued variables works best on closed       *)
(* formulas.  The last part shows that Evacuation implements VolumeMove.   *)
(***************************************************************************)
EXTENDS Evacuation, TLAPS

-----------------------------------------------------------------------------
(* Operators                                                               *)

(* Finalizer and deletion updates of a ZFSVolume CR yield a ZFSVolume CR   *)
(* (set_finalizers, strip_zfs_finalizer_if_node_gone).                     *)
LEMMA ZVOps ==
  ASSUME NEW z \in ZVType
  PROVE  /\ Deleted(z) \in ZVType /\ Guarded(z) \in ZVType
         /\ Unguarded(z) \in ZVType /\ Stripped(z) \in ZVType
<1>1. GoneZV \in ZVType  BY DEF GoneZV, ZVType
<1>2. \A y \in ZVType : Settle(y) \in ZVType  BY <1>1 DEF Settle
<1>3. [z EXCEPT !.s = "deleting"] \in ZVType  BY DEF ZVType
<1>4. [z EXCEPT !.guard = TRUE] \in ZVType  BY DEF ZVType
<1>5. [z EXCEPT !.guard = FALSE] \in ZVType  BY DEF ZVType
<1>6. [z EXCEPT !.fin = FALSE] \in ZVType  BY DEF ZVType
<1> QED BY <1>2, <1>3, <1>4, <1>5, <1>6 DEF Deleted, Guarded, Unguarded, Stripped

(* Releasing a live source ZFSVolume without deleting it leaves it live    *)
(* (abort.rs, remove the guard).                                           *)
LEMMA ReleaseKeepsLive ==
  ASSUME NEW z \in ZVType, z.s = "live"
  PROVE  Unguarded(z).s = "live" /\ Stripped(z).s = "live" /\ Stripped(Unguarded(z)).s = "live"
  BY DEF ZVType, Unguarded, Stripped, Settle, GoneZV

(* The number of attempts is bounded by spec.max_attempts, at least one.   *)
LEMMA Limits ==
  AttemptLimit \in Nat /\ AttemptLimit >= 1 /\ (MaxAttempts > 0 => AttemptLimit = MaxAttempts)
  BY MaxAttemptsAssumption DEF AttemptLimit

(* No relay is a relay record of no attempt.                               *)
LEMMA NoRelayTyped == /\ NoRelay \in RelayType /\ NoRelay.attempt = 0 /\ NoRelay.bytes = 0
                     /\ NoRelay.connected = FALSE
  BY Limits DEF NoRelay, RelayType

(* cleanup_transfer_crs yields CRs, and never turns one into a landed one. *)
LEMMA CROps ==
  /\ NoCR \in BkpType /\ NoCR \in RstType /\ InitCR \in BkpType /\ InitCR \in RstType
  /\ \A c \in BkpType, n \in BOOLEAN : Cleaned(c, n) \in BkpType
  /\ \A c \in RstType, n \in BOOLEAN :
       Cleaned(c, n) \in RstType /\ Cleaned(c, n).s \in {c.s, "none"}
<1>1. /\ NoCR \in BkpType /\ NoCR \in RstType
      /\ InitCR \in BkpType /\ InitCR \in RstType /\ NoCR.s = "none"
  BY DEF NoCR, InitCR, BkpType, RstType
<1>2. /\ \A c \in BkpType : [c EXCEPT !.del = TRUE] \in BkpType
      /\ \A c \in RstType : [c EXCEPT !.del = TRUE] \in RstType /\ [c EXCEPT !.del = TRUE].s = c.s
  BY DEF BkpType, RstType
<1> QED BY <1>1, <1>2 DEF Cleaned, DeletedCR

(* A wait of the handler that was called with the stored status changes    *)
(* nothing of it.                                                          *)
LEMMA WaitsSame == Waits(evac) = {evac}
  BY DEF Waits

(* The CRs of the recorded attempt are the ones that exist (start_attempt).*)
LEMMA Named ==
  AttemptRecorded => /\ NoneFor(evac) <=> TransferCRsGone
                     /\ ~TransferCRsGone => Bkp(evac) = bkp /\ Rst(evac) = rst
  BY DEF AttemptRecorded, NoneFor, Bkp, Rst

(* create_if_absent yields a CR, and never touches one that exists.        *)
LEMMA CreatedOps ==
  /\ \A c \in BkpType : Created(c) \in BkpType
  /\ \A c \in RstType : Created(c) \in RstType /\ Created(c).s \in {c.s, "Init"}
<1>1. InitCR \in BkpType /\ InitCR \in RstType /\ InitCR.s = "Init"
  BY DEF InitCR, BkpType, RstType
<1> QED BY <1>1 DEF Created

(* Every phase a handler advances to is a phase.                           *)
LEMMA PhaseNames ==
  /\ "Failed" \in Phase /\ "Guarding" \in Phase /\ "Retaining" \in Phase /\ "Locking" \in Phase
  /\ "Quiescing" \in Phase /\ "TargetSelecting" \in Phase /\ "Transferring" \in Phase
  /\ "Adopting" \in Phase /\ "Committing" \in Phase /\ "Swapping" \in Phase
  /\ "CleaningUp" \in Phase /\ "Completed" \in Phase /\ "Aborting" \in Phase
  BY DEF Phase, CancelablePhase, Terminal

(* Every status write of a handler writes a well-formed status.            *)
LEMMA AdvanceType ==
  ASSUME NEW v \in ZFSEvacuationStatus, NEW p \in Phase
  PROVE  Advance(v, p) \in ZFSEvacuationStatus
  BY DEF Advance, ZFSEvacuationStatus

(* The same for the writes that change more than the phase.                *)
LEMMA StatusTypes ==
  ASSUME NEW v \in ZFSEvacuationStatus
  PROVE  /\ \A q \in Policy : [v EXCEPT !.phase = "Guarding", !.orig = q] \in ZFSEvacuationStatus
         /\ \A a \in 0 .. AttemptLimit :
              [v EXCEPT !.attempt = a, !.failed = FALSE, !.snapDel = FALSE] \in ZFSEvacuationStatus
         /\ Advance(AttemptFailed(v), "Aborting") \in ZFSEvacuationStatus
         /\ AttemptFailed(v) \in ZFSEvacuationStatus
         /\ [v EXCEPT !.snapDel = TRUE] \in ZFSEvacuationStatus
         /\ [v EXCEPT !.phase = "Aborting", !.cancelled = TRUE] \in ZFSEvacuationStatus
         /\ [v EXCEPT !.phase = "Transferring", !.target = TRUE] \in ZFSEvacuationStatus
         /\ [v EXCEPT !.phase = "Swapping", !.committed = TRUE] \in ZFSEvacuationStatus
         /\ v.attempt \in 0 .. AttemptLimit
<1>1. \A q \in Policy : [v EXCEPT !.phase = "Guarding", !.orig = q] \in ZFSEvacuationStatus
  BY PhaseNames DEF ZFSEvacuationStatus
<1>2. \A a \in 0 .. AttemptLimit :
        [v EXCEPT !.attempt = a, !.failed = FALSE, !.snapDel = FALSE] \in ZFSEvacuationStatus
  BY DEF ZFSEvacuationStatus
<1>3. AttemptFailed(v) \in ZFSEvacuationStatus
  BY DEF AttemptFailed, ZFSEvacuationStatus
<1>4. Advance(AttemptFailed(v), "Aborting") \in ZFSEvacuationStatus
  BY <1>3, AdvanceType, PhaseNames
<1>5. [v EXCEPT !.snapDel = TRUE] \in ZFSEvacuationStatus
  BY DEF ZFSEvacuationStatus
<1>6. [v EXCEPT !.phase = "Aborting", !.cancelled = TRUE] \in ZFSEvacuationStatus
  BY PhaseNames DEF ZFSEvacuationStatus
<1>7. [v EXCEPT !.phase = "Transferring", !.target = TRUE] \in ZFSEvacuationStatus
  BY PhaseNames DEF ZFSEvacuationStatus
<1>8. [v EXCEPT !.phase = "Swapping", !.committed = TRUE] \in ZFSEvacuationStatus
  BY PhaseNames DEF ZFSEvacuationStatus
<1>9. v.attempt \in 0 .. AttemptLimit
  BY DEF ZFSEvacuationStatus
<1> QED BY <1>1, <1>2, <1>3, <1>4, <1>5, <1>6, <1>7, <1>8, <1>9

(* Status w is status v in phase p, as far as Safe can tell.               *)
Became(w, v, p) == w.phase = p /\ w.committed = v.committed /\ w.orig = v.orig

(* Every status write but Pending's and the commit record changes only the *)
(* phase of what Safe looks at.                                            *)
LEMMA StatusFields ==
  ASSUME NEW v \in ZFSEvacuationStatus
  PROVE  /\ Became(v, v, v.phase)
         /\ \A p \in Phase : Became(Advance(v, p), v, p)
         /\ Became([v EXCEPT !.phase = "Aborting", !.cancelled = TRUE], v, "Aborting")
         /\ Became(Advance(AttemptFailed(v), "Aborting"), v, "Aborting")
         /\ Became([v EXCEPT !.phase = "Transferring", !.target = TRUE], v, "Transferring")
         /\ Became(AttemptFailed(v), v, v.phase)
         /\ Became([v EXCEPT !.snapDel = TRUE], v, v.phase)
         /\ \A a \in 0 .. AttemptLimit :
              Became([v EXCEPT !.attempt = a, !.failed = FALSE, !.snapDel = FALSE], v, v.phase)
  BY DEF Became, Advance, AttemptFailed, ZFSEvacuationStatus

-----------------------------------------------------------------------------
(* Effects of the actions that write more than one thing                   *)

(* Begin passes the cancel check with the finalizer in place, or aborts.   *)
LEMMA BeginEffect ==
  evac \in ZFSEvacuationStatus /\ Begin =>
     /\ evac.phase \in CancelablePhase
     /\ Became(evac', evac, evac.phase) \/ (Became(evac', evac, "Aborting") /\ ~armed')
     /\ armed' => cr' = "live"
     /\ cr' \in {cr, "live"}
<1>1. Begin => \/ evac' = evac
               \/ evac' = [evac EXCEPT !.phase = "Aborting", !.cancelled = TRUE] /\ ~armed'
  BY DEF Begin, Wrote
<1>2. ASSUME Begin, armed' PROVE cr' = "live"
  <2>1. PICK n \in Cut(2) : cr' = Wrote(n, 1, "live", cr) /\ (armed' = FALSE \/ armed' = (n = 2))
    BY <1>2 DEF Begin
  <2>2. n = 2  BY <1>2, <2>1
  <2> QED BY <2>1, <2>2 DEF Wrote
<1>3. Begin => cr' \in {cr, "live"} /\ evac.phase \in CancelablePhase
  BY DEF Begin, Wrote
<1>4. evac \in ZFSEvacuationStatus =>
        /\ Became(evac, evac, evac.phase)
        /\ Became([evac EXCEPT !.phase = "Aborting", !.cancelled = TRUE], evac, "Aborting")
  BY StatusFields
<1> QED BY <1>1, <1>2, <1>3, <1>4

(* Pending refuses the volume or records its policy, and changes nothing   *)
(* else.                                                                   *)
LEMMA PendingEffect ==
  evac \in ZFSEvacuationStatus /\ pv \in PVType /\ Pending(evac) =>
     /\ evac.phase = "Pending" /\ armed /\ armed' = FALSE
     /\ UNCHANGED <<cr, pv, pvc, szv, sdata, tzv, tdata, rst>>
     /\ \/ Became(evac', evac, "Failed")
        \/ evac'.phase = "Guarding" /\ evac'.committed = evac.committed /\ evac'.orig \in Policy
<1>1. evac \in ZFSEvacuationStatus /\ pv \in PVType =>
        LET w == [evac EXCEPT !.phase = "Guarding", !.orig = pv.policy]
        IN  w.phase = "Guarding" /\ w.committed = evac.committed /\ w.orig \in Policy
  BY DEF ZFSEvacuationStatus, PVType
<1>2. evac \in ZFSEvacuationStatus => Became(Advance(evac, "Failed"), evac, "Failed")
  BY StatusFields, PhaseNames
<1>3. Pending(evac) => /\ evac.phase = "Pending" /\ armed /\ armed' = FALSE
                       /\ UNCHANGED <<cr, pv, pvc, szv, sdata, tzv, tdata, rst>>
  BY DEF Pending, Handling, k8sVars, srcVars, xferVars, tgtVars
<1>4. Pending(evac) => \/ evac' = Advance(evac, "Failed")
                       \/ evac' = [evac EXCEPT !.phase = "Guarding", !.orig = pv.policy]
  BY DEF Pending
<1> QED BY <1>1, <1>2, <1>3, <1>4

(* Committing fails, aborts, or writes the commit record over the old PV.  *)
LEMMA CommittingEffect ==
  evac \in ZFSEvacuationStatus /\ Committing(evac) =>
     \/ Became(evac', evac, "Failed") \/ Became(evac', evac, "Aborting")
     \/ /\ pv.obj = "old" /\ pvc = "ours"
        /\ evac'.phase = "Swapping" /\ evac'.committed = TRUE /\ evac'.orig = evac.orig
<1>1. Committing(evac) =>
        \/ evac' = Advance(evac, "Failed") \/ evac' = Advance(evac, "Aborting")
        \/ /\ pv.obj = "old" /\ pvc = "ours"
           /\ evac' = [evac EXCEPT !.phase = "Swapping", !.committed = TRUE]
  BY DEF Committing
<1>2. evac \in ZFSEvacuationStatus /\ evac' = [evac EXCEPT !.phase = "Swapping", !.committed = TRUE]
        => evac'.phase = "Swapping" /\ evac'.committed = TRUE /\ evac'.orig = evac.orig
  BY DEF ZFSEvacuationStatus
<1>3. evac \in ZFSEvacuationStatus =>
        /\ Became(Advance(evac, "Failed"), evac, "Failed")
        /\ Became(Advance(evac, "Aborting"), evac, "Aborting")
  BY StatusFields, PhaseNames
<1> QED BY <1>1, <1>2, <1>3

(* CleaningUp stays with its finalizer, or completes.                      *)
LEMMA CleaningUpEffect ==
  evac \in ZFSEvacuationStatus /\ CleaningUp(evac) =>
     \/ Became(evac', evac, "CleaningUp") /\ cr' = cr
     \/ Became(evac', evac, "Completed")
<1>1. evac \in ZFSEvacuationStatus /\ evac.phase = "CleaningUp" /\ FinishCleanup(evac) =>
        \/ Became(evac', evac, "CleaningUp") /\ cr' = cr
        \/ Became(evac', evac, "Completed")
  BY StatusFields, PhaseNames DEF FinishCleanup, Wrote, Cut, Became
<1>2. evac \in ZFSEvacuationStatus /\ evac.phase = "CleaningUp" /\ DestroyTargetSnapshot(evac) =>
        Became(evac', evac, "CleaningUp")
  BY StatusFields, PhaseNames, WaitsSame DEF DestroyTargetSnapshot, Wrote
<1>3. CleaningUp(evac) => \/ UNCHANGED <<evac, cr>>
                          \/ DestroyTargetSnapshot(evac) /\ cr' = cr
                          \/ FinishCleanup(evac)
  BY WaitsSame DEF CleaningUp, Wrote
<1>4. CleaningUp(evac) => evac.phase = "CleaningUp"
  BY DEF CleaningUp
<1> QED BY <1>1, <1>2, <1>3, <1>4, StatusFields

(* An abort that did not record its phase did nothing; it never deletes    *)
(* the source ZFSVolume of a live claim.                                   *)
LEMMA AbortEffect ==
  evac \in ZFSEvacuationStatus /\ Abort(evac, cr = "deleting") =>
     /\ \/ Became(evac', evac, evac.phase) /\ UNCHANGED <<cr, pv, szv, tzv, rst>>
        \/ Became(evac', evac, "Aborting") \/ Became(evac', evac, "Failed")
     /\ pv' = pv \/ pv' = [pv EXCEPT !.policy = evac.orig]
     /\ szv \in ZVType /\ pvc = "ours" /\ szv.s = "live" => szv'.s = "live"
<1> SUFFICES ASSUME evac \in ZFSEvacuationStatus, Abort(evac, cr = "deleting")
             PROVE  /\ \/ Became(evac', evac, evac.phase) /\ UNCHANGED <<cr, pv, szv, tzv, rst>>
                       \/ Became(evac', evac, "Aborting") \/ Became(evac', evac, "Failed")
                    /\ pv' = pv \/ pv' = [pv EXCEPT !.policy = evac.orig]
                    /\ szv \in ZVType /\ pvc = "ours" /\ szv.s = "live" => szv'.s = "live"
  OBVIOUS
<1>1. PICK n \in Cut(7) :
        /\ \/ evac' = Advance(evac, "Failed") /\ n = 7
           \/ evac' = evac /\ evac.phase = "Aborting"
           \/ evac' = Wrote(n, 1, Advance(evac, "Aborting"), evac)
        /\ \/ AbortTargetVolume(n) \/ AdoptOrphan(evac, n) \/ AbortTransferCRs(evac, n)
           \/ AbortRelease(evac, cr = "deleting", n)
  BY WaitsSame DEF Abort
<1>2. n \in 0 .. 7
  BY DEF Cut
<1>3. \/ Became(evac', evac, "Aborting") \/ Became(evac', evac, "Failed")
      \/ Became(evac', evac, evac.phase) /\ n = 0
  BY <1>1, <1>2, StatusFields, PhaseNames DEF Wrote, Became
<1>4. n = 0 => UNCHANGED <<cr, pv, szv, tzv, rst>>
  BY <1>1, <1>2 DEF AbortTargetVolume, AdoptOrphan, AbortTransferCRs, AbortRelease,
     CleanupTransferCRs, ReleaseSource, Wrote, xferVars
<1>5. pv' = pv \/ pv' = [pv EXCEPT !.policy = evac.orig]
  BY <1>1, <1>2 DEF AbortTargetVolume, AdoptOrphan, AbortTransferCRs, AbortRelease, Wrote
<1>6. szv \in ZVType /\ pvc = "ours" /\ szv.s = "live" => szv'.s = "live"
  BY <1>1, <1>2, ReleaseKeepsLive DEF AbortTargetVolume, AdoptOrphan, AbortTransferCRs,
     AbortRelease, Wrote, ReleaseSource
<1> QED BY <1>3, <1>4, <1>5, <1>6

(* What a step of the transfer on status v may do to the status and the    *)
(* restore CR.                                                             *)
TransferMoves(v) ==
  /\ \/ evac' = evac \/ Became(evac', v, "Transferring") \/ Became(evac', v, "Aborting")
     \/ Became(evac', v, "Adopting") /\ rst.s = "Done"
  /\ rst'.s \in {rst.s, "none", "Init"}

TransferTyped == /\ evac' \in ZFSEvacuationStatus /\ relay' \in RelayType
                 /\ bkp' \in BkpType /\ rst' \in RstType /\ tried' \in 0 .. AttemptLimit

TransferringStep(v) == \E b \in SeenStatus(Bkp(v)), r \in SeenStatus(Rst(v)) :
                         Transferring(v, b, r) \/ TransferWaits(v, b, r)

(* start_attempt writes relay, status and ZFSBackup of a legal attempt.    *)
LEMMA StartAttemptEffect ==
  ASSUME NEW v \in ZFSEvacuationStatus, NEW a \in 1 .. AttemptLimit, evac \in ZFSEvacuationStatus,
         v.phase = "Transferring", bkp \in BkpType, rst \in RstType, tried \in 0 .. AttemptLimit,
         StartAttempt(v, a)
  PROVE  TransferTyped /\ TransferMoves(v)
<1>1. a \in 0 .. AttemptLimit
  BY Limits
<1>2. NoRelay \in RelayType /\ Relay(a) \in RelayType
  BY <1>1, NoRelayTyped DEF Relay, RelayType
<1>3. relay' \in RelayType
  BY <1>2 DEF StartAttempt, Wrote
<1>4. bkp' \in BkpType /\ rst' = rst /\ tried' \in 0 .. AttemptLimit
  BY <1>1, CreatedOps DEF StartAttempt, Wrote, xferVars
<1>5. \/ evac' = evac
      \/ evac' = [v EXCEPT !.attempt = a, !.failed = FALSE, !.snapDel = FALSE]
  BY DEF StartAttempt, Wrote
<1>6. evac' \in ZFSEvacuationStatus
  <2>1. [v EXCEPT !.attempt = a, !.failed = FALSE, !.snapDel = FALSE] \in ZFSEvacuationStatus
    BY <1>1, StatusTypes
  <2> QED BY <1>5, <2>1
<1>7. evac' = evac \/ Became(evac', v, "Transferring")
  BY <1>1, <1>5, StatusFields
<1> QED BY <1>3, <1>4, <1>6, <1>7 DEF TransferTyped, TransferMoves

(* retry_or_fail tears the attempt down, retries or aborts.                *)
LEMMA RetryOrFailEffect ==
  ASSUME NEW v \in ZFSEvacuationStatus, evac \in ZFSEvacuationStatus, v.phase = "Transferring",
         bkp \in BkpType, rst \in RstType, tried \in 0 .. AttemptLimit,
         snode \in BOOLEAN, tnode \in BOOLEAN, RetryOrFail(v)
  PROVE  TransferTyped /\ TransferMoves(v)
<1>1. v.attempt \in 0 .. AttemptLimit
  BY StatusTypes
<1>2. CASE ~NoneFor(v)
  <2>1. evac' = evac \/ evac' = v \/ evac' = AttemptFailed(v)
    BY <1>2 DEF RetryOrFail, Wrote, Waits
  <2>2. /\ bkp' = bkp \/ bkp' = Cleaned(bkp, snode)
        /\ rst' = rst \/ rst' = Cleaned(rst, tnode)
        /\ relay' = NoRelay /\ tried' = tried
    BY <1>2 DEF RetryOrFail, CleanupTransferCRs, Wrote
  <2>3. evac' \in ZFSEvacuationStatus /\ (evac' = evac \/ Became(evac', v, "Transferring"))
    BY <2>1, StatusTypes, StatusFields
  <2>4. bkp' \in BkpType /\ rst' \in RstType /\ rst'.s \in {rst.s, "none", "Init"}
    BY <2>2, CROps
  <2>5. relay' \in RelayType
    BY <2>2, NoRelayTyped
  <2> QED BY <2>2, <2>3, <2>4, <2>5 DEF TransferTyped, TransferMoves
<1>3. CASE NoneFor(v) /\ v.attempt >= MaxAttempts
  <2>1. evac' = evac \/ evac' = Advance(AttemptFailed(v), "Aborting")
    BY <1>3 DEF RetryOrFail, Wrote
  <2>2. bkp' = bkp /\ rst' = rst /\ relay' = NoRelay /\ tried' = tried
    BY <1>3 DEF RetryOrFail, xferVars
  <2>3. /\ evac' \in ZFSEvacuationStatus
        /\ evac' = evac \/ Became(evac', v, "Aborting")
    BY <2>1, StatusTypes, StatusFields
  <2>4. relay' \in RelayType
    BY <2>2, NoRelayTyped
  <2> QED BY <2>2, <2>3, <2>4 DEF TransferTyped, TransferMoves
<1>4. CASE NoneFor(v) /\ ~(v.attempt >= MaxAttempts)
  <2>1. StartAttempt(v, v.attempt + 1)
    BY <1>4 DEF RetryOrFail
  <2>2. v.attempt + 1 \in 1 .. AttemptLimit
    BY <1>1, <1>4, Limits, MaxAttemptsAssumption
  <2> QED BY <2>1, <2>2, StartAttemptEffect
<1> QED BY <1>2, <1>3, <1>4

(* The verdict is Complete only if the restore's reported status is Done,  *)
(* and a status once reported Done is not taken back.                      *)
LEMMA CompleteMeansDone ==
  ASSUME NEW v, NEW b, NEW r \in SeenStatus(Rst(v)), NEW late, NEW quiet,
         transfer_verdict(Observe(v, b, r, late, quiet)) = "Complete"
  PROVE  rst.s = "Done"
<1>1. r = "Done"
  BY DEF transfer_verdict, Observe
<1> QED BY <1>1 DEF SeenStatus, Reported, Rst, NoCR

(* Every step of Transferring is typed and moves as TransferMoves says.    *)
LEMMA TransferringEffect ==
  ASSUME NEW v \in ZFSEvacuationStatus
  PROVE  TypeOK /\ TransferringStep(v) => TransferTyped /\ TransferMoves(v)
<1> SUFFICES ASSUME TypeOK, NEW b \in SeenStatus(Bkp(v)), NEW r \in SeenStatus(Rst(v)),
                    Transferring(v, b, r) \/ TransferWaits(v, b, r)
             PROVE  TransferTyped /\ TransferMoves(v)
  BY DEF TransferringStep
<1>1. /\ evac \in ZFSEvacuationStatus /\ relay \in RelayType /\ bkp \in BkpType /\ rst \in RstType
      /\ tried \in 0 .. AttemptLimit /\ snode \in BOOLEAN /\ tnode \in BOOLEAN
  BY DEF TypeOK
<1>2. v.phase = "Transferring"
  BY DEF Transferring, TransferWaits, Handling
<1>6. CASE TransferWaits(v, b, r)
  <2>1. evac' = evac \/ evac' = v
    BY <1>6 DEF TransferWaits, Waits
  <2>2. Became(v, v, "Transferring")
    BY <1>2, StatusFields
  <2>3. UNCHANGED <<relay, bkp, rst, tried>>
    BY <1>6 DEF TransferWaits, xferVars
  <2> QED BY <1>1, <2>1, <2>2, <2>3 DEF TransferTyped, TransferMoves
<1> SUFFICES ASSUME Transferring(v, b, r)
             PROVE  TransferTyped /\ TransferMoves(v)
  BY <1>6
<1>3. NoRelay \in RelayType
  BY NoRelayTyped
<1>4. CASE v.attempt = 0
  <2>1. StartAttempt(v, 1) /\ 1 \in 1 .. AttemptLimit
    BY <1>4, Limits DEF Transferring
  <2> QED BY <1>1, <1>2, <2>1, StartAttemptEffect
<1>5. CASE v.attempt # 0
  <2>1. PICK late \in {0, 1}, quiet \in {0, 1} :
          Apply(v, transfer_verdict(Observe(v, b, r, late, quiet)))
    BY <1>5 DEF Transferring
  <2> DEFINE verdict == transfer_verdict(Observe(v, b, r, late, quiet))
  <2>2. CASE verdict = "Complete" /\ Complete(v)
    <3>1. rst.s = "Done"
      BY <2>2, CompleteMeansDone
    <3>2. evac' = evac \/ evac' = Advance(v, "Adopting")
      BY <2>2 DEF Complete, Wrote
    <3>3. relay' = NoRelay /\ bkp' = bkp /\ rst' = rst /\ tried' = tried
      BY <2>2 DEF Complete, xferVars
    <3>4. evac' \in ZFSEvacuationStatus
      BY <1>1, <3>2, AdvanceType, PhaseNames
    <3>5. evac' = evac \/ Became(evac', v, "Adopting")
      BY <1>1, <1>2, <3>2, StatusFields, PhaseNames
    <3> QED BY <1>1, <1>3, <3>1, <3>3, <3>4, <3>5 DEF TransferTyped, TransferMoves
  <2>3. CASE RetryOrFail(v)
    BY <1>1, <1>2, <2>3, RetryOrFailEffect
  <2>4. CASE relay' = NoRelay /\ UNCHANGED <<evac, xferVars>>
    BY <1>1, <1>3, <2>4 DEF TransferTyped, TransferMoves, xferVars
  <2>5. CASE rst' = Created(rst) /\ UNCHANGED <<evac, relay, bkp, tried>>
    <3>1. rst' \in RstType /\ rst'.s \in {rst.s, "Init"}
      BY <1>1, <2>5, CreatedOps
    <3> QED BY <1>1, <2>5, <3>1 DEF TransferTyped, TransferMoves
  <2> QED BY <2>1, <2>2, <2>3, <2>4, <2>5 DEF Apply
<1> QED BY <1>4, <1>5

-----------------------------------------------------------------------------
(* Typing: TypeOK in the groups of variables the actions frame, so that an *)
(* action argues only about the group it writes.                           *)

CtlTyped == /\ evac \in ZFSEvacuationStatus /\ cr \in {"bare", "live", "deleting", "gone"}
            /\ armed \in BOOLEAN /\ relay \in RelayType
K8sTyped == /\ pv \in PVType /\ pvc \in {"ours", "gone", "other"}
            /\ wanted \in BOOLEAN /\ lock \in BOOLEAN
SrcTyped == szv \in ZVType /\ sdata \in BOOLEAN /\ snode \in BOOLEAN
XferTyped == bkp \in BkpType /\ rst \in RstType /\ tried \in 0 .. AttemptLimit
TZVStates == {"none", "Pending", "Ready", "Failed", "Deleting"}
SCRStates == {"none", "Pending", "Ready", "Deleting"}
TgtTyped == /\ tzv \in TZVStates /\ tdata \in {"none", "empty", "full"}
            /\ tsnap \in BOOLEAN /\ scr \in SCRStates /\ tnode \in BOOLEAN

(* The groups are all of TypeOK.                                           *)
LEMMA TypeParts ==
  /\ TypeOK <=> CtlTyped /\ K8sTyped /\ SrcTyped /\ XferTyped /\ TgtTyped /\ faulty \in BOOLEAN
  /\ TypeOK' <=> /\ CtlTyped' /\ K8sTyped' /\ SrcTyped' /\ XferTyped' /\ TgtTyped'
                 /\ faulty' \in BOOLEAN
<1>1. TypeOK <=> CtlTyped /\ K8sTyped /\ SrcTyped /\ XferTyped /\ TgtTyped /\ faulty \in BOOLEAN
  BY Zenon DEF TypeOK, CtlTyped, K8sTyped, SrcTyped, XferTyped, TgtTyped, TZVStates, SCRStates
<1>2. TypeOK' <=> /\ CtlTyped' /\ K8sTyped' /\ SrcTyped' /\ XferTyped' /\ TgtTyped'
                  /\ faulty' \in BOOLEAN
  BY Zenon DEF TypeOK, CtlTyped, K8sTyped, SrcTyped, XferTyped, TgtTyped, TZVStates, SCRStates
<1> QED BY <1>1, <1>2

(* A group nobody writes stays typed.                                      *)
LEMMA Frames ==
  /\ CtlTyped /\ UNCHANGED ctlVars => CtlTyped'
  /\ K8sTyped /\ UNCHANGED k8sVars => K8sTyped'
  /\ SrcTyped /\ UNCHANGED srcVars => SrcTyped'
  /\ XferTyped /\ UNCHANGED xferVars => XferTyped'
  /\ TgtTyped /\ UNCHANGED tgtVars => TgtTyped'
  /\ faulty \in BOOLEAN /\ UNCHANGED faulty => faulty' \in BOOLEAN
<1>1. CtlTyped /\ UNCHANGED ctlVars => CtlTyped'
  BY DEF CtlTyped, ctlVars
<1>2. K8sTyped /\ UNCHANGED k8sVars => K8sTyped'
  BY DEF K8sTyped, k8sVars
<1>3. SrcTyped /\ UNCHANGED srcVars => SrcTyped'
  BY DEF SrcTyped, srcVars
<1>4. XferTyped /\ UNCHANGED xferVars => XferTyped'
  BY DEF XferTyped, xferVars
<1>5. TgtTyped /\ UNCHANGED tgtVars => TgtTyped'
  BY DEF TgtTyped, tgtVars
<1>6. faulty \in BOOLEAN /\ UNCHANGED faulty => faulty' \in BOOLEAN
  OBVIOUS
<1> QED BY <1>1, <1>2, <1>3, <1>4, <1>5, <1>6

(* The status a handler works on may be an earlier one than the stored     *)
(* status.  With the policy recorded by the swap, it keeps every object    *)
(* well-typed.                                                             *)
LEMMA HandlerType ==
  ASSUME NEW v \in ZFSEvacuationStatus, NEW d \in BOOLEAN, v.phase = "Swapping" => v.orig # "None"
  PROVE  TypeOK /\ UNCHANGED faulty /\
           (\/ Pending(v) \/ Guarding(v) \/ Retaining(v) \/ Locking(v) \/ Quiescing(v)
            \/ TargetSelecting(v) \/ TransferringStep(v) \/ Adopting(v) \/ Committing(v)
            \/ Swapping(v) \/ CleaningUp(v) \/ Abort(v, d))
         => TypeOK'
<1>1. TypeOK /\ Pending(v) /\ UNCHANGED faulty => TypeOK'
  <2>1. Pending(v) => \/ evac' = Advance(v, "Failed")
                         \/ evac' = [v EXCEPT !.phase = "Guarding", !.orig = pv.policy]
    BY DEF Pending
  <2>2. pv \in PVType => pv.policy \in Policy
    BY DEF PVType
  <2>3. evac \in ZFSEvacuationStatus /\ pv \in PVType /\ Pending(v)
        => evac' \in ZFSEvacuationStatus
    <3>1. evac \in ZFSEvacuationStatus => Advance(v, "Failed") \in ZFSEvacuationStatus
      BY AdvanceType, PhaseNames
    <3>2. evac \in ZFSEvacuationStatus /\ pv \in PVType
            => [v EXCEPT !.phase = "Guarding", !.orig = pv.policy] \in ZFSEvacuationStatus
      BY <2>2, StatusTypes
    <3> QED BY <2>1, <3>1, <3>2
  <2>4. Pending(v) => armed' = FALSE /\ cr' = cr /\ relay' = relay
    BY DEF Pending, Handling
  <2>5. CtlTyped /\ pv \in PVType /\ Pending(v) => CtlTyped'
    BY <2>3, <2>4 DEF CtlTyped
  <2>6. Pending(v) => UNCHANGED <<k8sVars, srcVars, xferVars, tgtVars>>
    BY DEF Pending
  <2>7. K8sTyped => pv \in PVType
    BY DEF K8sTyped
  <2> QED BY <2>5, <2>6, <2>7, TypeParts, Frames
<1>2. TypeOK /\ Guarding(v) /\ UNCHANGED faulty => TypeOK'
  <2>1. evac \in ZFSEvacuationStatus /\ Guarding(v) => evac' \in ZFSEvacuationStatus
    BY AdvanceType, PhaseNames DEF Guarding, Wrote
  <2>2. szv \in ZVType /\ Guarding(v) => szv' \in ZVType
    BY ZVOps DEF Guarding, Wrote
  <2>3. CtlTyped /\ Guarding(v) => CtlTyped'
    BY <2>1 DEF CtlTyped, Guarding, Handling
  <2>4. SrcTyped /\ Guarding(v) => SrcTyped'
    BY <2>2 DEF SrcTyped, Guarding
  <2>5. Guarding(v) => UNCHANGED <<k8sVars, xferVars, tgtVars>>
    BY DEF Guarding
  <2> QED BY <2>3, <2>4, <2>5, TypeParts, Frames
<1>3. TypeOK /\ Retaining(v) /\ UNCHANGED faulty => TypeOK'
  <2>1. evac \in ZFSEvacuationStatus /\ Retaining(v) => evac' \in ZFSEvacuationStatus
    BY AdvanceType, PhaseNames DEF Retaining, Wrote
  <2>2. pv \in PVType /\ Retaining(v) => pv' \in PVType
    BY DEF Retaining, Wrote, PVType, Policy
  <2>3. CtlTyped /\ Retaining(v) => CtlTyped'
    BY <2>1 DEF CtlTyped, Retaining, Handling
  <2>4. K8sTyped /\ Retaining(v) => K8sTyped'
    BY <2>2 DEF K8sTyped, Retaining
  <2>5. Retaining(v) => UNCHANGED <<srcVars, xferVars, tgtVars>>
    BY DEF Retaining
  <2> QED BY <2>3, <2>4, <2>5, TypeParts, Frames
<1>4. TypeOK /\ Locking(v) /\ UNCHANGED faulty => TypeOK'
  <2>1. evac \in ZFSEvacuationStatus /\ Locking(v) => evac' \in ZFSEvacuationStatus
    BY AdvanceType, PhaseNames DEF Locking, Wrote
  <2>2. lock \in BOOLEAN /\ Locking(v) => lock' \in BOOLEAN
    BY DEF Locking, Wrote
  <2>3. CtlTyped /\ Locking(v) => CtlTyped'
    BY <2>1 DEF CtlTyped, Locking, Handling
  <2>4. K8sTyped /\ Locking(v) => K8sTyped'
    BY <2>2 DEF K8sTyped, Locking
  <2>5. Locking(v) => UNCHANGED <<srcVars, xferVars, tgtVars>>
    BY DEF Locking
  <2> QED BY <2>3, <2>4, <2>5, TypeParts, Frames
<1>5. TypeOK /\ Quiescing(v) /\ UNCHANGED faulty => TypeOK'
  <2>1. evac \in ZFSEvacuationStatus /\ Quiescing(v) => evac' \in ZFSEvacuationStatus
    BY AdvanceType, PhaseNames DEF Quiescing
  <2>2. CtlTyped /\ Quiescing(v) => CtlTyped'
    BY <2>1 DEF CtlTyped, Quiescing, Handling
  <2>3. Quiescing(v) => UNCHANGED <<k8sVars, srcVars, xferVars, tgtVars>>
    BY DEF Quiescing
  <2> QED BY <2>2, <2>3, TypeParts, Frames
<1>6. TypeOK /\ TargetSelecting(v) /\ UNCHANGED faulty => TypeOK'
  <2>1. evac \in ZFSEvacuationStatus /\ TargetSelecting(v) => evac' \in ZFSEvacuationStatus
    BY AdvanceType, PhaseNames, StatusTypes DEF TargetSelecting
  <2>2. CtlTyped /\ TargetSelecting(v) => CtlTyped'
    BY <2>1 DEF CtlTyped, TargetSelecting, Handling
  <2>3. TargetSelecting(v) => UNCHANGED <<k8sVars, srcVars, xferVars, tgtVars>>
    BY DEF TargetSelecting
  <2> QED BY <2>2, <2>3, TypeParts, Frames
<1>7. TypeOK /\ TransferringStep(v) /\ UNCHANGED faulty => TypeOK'
  <2>1. TransferringStep(v) => armed' = FALSE /\ UNCHANGED <<cr, k8sVars, srcVars, tgtVars>>
    BY DEF TransferringStep, Transferring, TransferWaits, Handling
  <2>2. TypeOK /\ TransferringStep(v) => TransferTyped
    BY TransferringEffect
  <2>3. CtlTyped /\ TransferTyped /\ TransferringStep(v) => CtlTyped'
    BY <2>1 DEF CtlTyped, TransferTyped
  <2>4. TransferTyped => XferTyped'
    BY DEF XferTyped, TransferTyped
  <2> QED BY <2>1, <2>2, <2>3, <2>4, TypeParts, Frames
<1>8. TypeOK /\ Adopting(v) /\ UNCHANGED faulty => TypeOK'
  <2>1. evac \in ZFSEvacuationStatus /\ Adopting(v) => evac' \in ZFSEvacuationStatus
    BY AdvanceType, PhaseNames DEF Adopting
  <2>2. tzv \in TZVStates /\ Adopting(v) => tzv' \in TZVStates
    BY DEF Adopting, TZVStates
  <2>3. CtlTyped /\ Adopting(v) => CtlTyped'
    BY <2>1 DEF CtlTyped, Adopting, Handling
  <2>4. TgtTyped /\ Adopting(v) => TgtTyped'
    BY <2>2 DEF TgtTyped, Adopting
  <2>5. Adopting(v) => UNCHANGED <<k8sVars, srcVars, xferVars>>
    BY DEF Adopting
  <2> QED BY <2>3, <2>4, <2>5, TypeParts, Frames
<1>9. TypeOK /\ Committing(v) /\ UNCHANGED faulty => TypeOK'
  <2>1. evac \in ZFSEvacuationStatus /\ Committing(v) => evac' \in ZFSEvacuationStatus
    BY AdvanceType, PhaseNames, StatusTypes DEF Committing
  <2>2. CtlTyped /\ Committing(v) => CtlTyped'
    BY <2>1 DEF CtlTyped, Committing, Handling
  <2>3. Committing(v) => UNCHANGED <<k8sVars, srcVars, xferVars, tgtVars>>
    BY DEF Committing
  <2> QED BY <2>2, <2>3, TypeParts, Frames
<1>10. TypeOK /\ Swapping(v) /\ UNCHANGED faulty => TypeOK'
  <2>1. evac \in ZFSEvacuationStatus /\ Swapping(v) => evac' \in ZFSEvacuationStatus
    BY AdvanceType, PhaseNames DEF Swapping, DeleteOldPV, HoldDelete, Waits, CreateNewPV,
       VerifyRebind, Wrote
  <2>2. pv \in PVType /\ v.orig \in Policy /\ Swapping(v) => pv' \in PVType
    <3>1. pv \in PVType /\ v.orig \in Policy /\ DeleteOldPV => pv' \in PVType
      <4>1. NoPV \in PVType  BY DEF NoPV, PVType, Policy
      <4>2. pv \in PVType => [pv EXCEPT !.deleting = TRUE] \in PVType  BY DEF PVType
      <4> QED BY <4>1, <4>2 DEF DeleteOldPV, Wrote
    <3>2. CreateNewPV => pv' \in PVType
      BY DEF CreateNewPV, NewPV, PVType, Policy
    <3>3. pv \in PVType /\ v.orig \in Policy /\ VerifyRebind(v) => pv' \in PVType
      BY DEF VerifyRebind, Wrote, PVType
    <3> QED BY <3>1, <3>2, <3>3 DEF Swapping, HoldDelete
  <2>3. wanted \in BOOLEAN /\ Swapping(v) => wanted' \in BOOLEAN
    BY DEF Swapping, DeleteOldPV, HoldDelete, CreateNewPV, VerifyRebind
  <2>4. Swapping(v) => v.orig \in Policy
    BY DEF ZFSEvacuationStatus, Swapping
  <2>5. CtlTyped /\ Swapping(v) => CtlTyped'
    BY <2>1 DEF CtlTyped, Swapping
  <2>6. K8sTyped /\ v.orig \in Policy /\ Swapping(v) => K8sTyped'
    BY <2>2, <2>3 DEF K8sTyped, Swapping
  <2>7. Swapping(v) => UNCHANGED <<srcVars, xferVars, tgtVars>>
    BY DEF Swapping
  <2> QED BY <2>4, <2>5, <2>6, <2>7, TypeParts, Frames
<1>11. TypeOK /\ CleaningUp(v) /\ UNCHANGED faulty => TypeOK'
  <2>1. evac \in ZFSEvacuationStatus /\ CleaningUp(v) => evac' \in ZFSEvacuationStatus
    BY AdvanceType, PhaseNames, StatusTypes DEF CleaningUp, DestroyTargetSnapshot,
       FinishCleanup, Wrote, Waits, xferVars
  <2>2. szv \in ZVType /\ CleaningUp(v) => szv' \in ZVType
    BY ZVOps DEF CleaningUp, ReleaseSource, Wrote
  <2>3. bkp \in BkpType /\ snode \in BOOLEAN /\ CleaningUp(v) => bkp' \in BkpType
    BY CROps DEF CleaningUp, CleanupTransferCRs, Wrote, xferVars
  <2>4. rst \in RstType /\ tnode \in BOOLEAN /\ CleaningUp(v) => rst' \in RstType
    BY CROps DEF CleaningUp, CleanupTransferCRs, Wrote, xferVars
  <2>16. CleaningUp(v) => tried' = tried
    BY DEF CleaningUp, CleanupTransferCRs, xferVars
  <2>5. scr \in SCRStates /\ CleaningUp(v) => scr' \in SCRStates
    BY DEF CleaningUp, DestroyTargetSnapshot, Wrote, SCRStates
  <2>6. cr \in {"bare", "live", "deleting", "gone"} /\ CleaningUp(v)
        => cr' \in {"bare", "live", "deleting", "gone"}
    BY DEF CleaningUp, FinishCleanup, Released, Wrote
  <2>7. lock \in BOOLEAN /\ CleaningUp(v) => lock' \in BOOLEAN
    BY DEF CleaningUp, FinishCleanup, Wrote
  <2>8. wanted \in BOOLEAN /\ CleaningUp(v) => wanted' \in BOOLEAN
    BY DEF CleaningUp, FinishCleanup, Wrote
  <2>9. CleaningUp(v) => UNCHANGED <<armed, relay, pv, pvc, sdata, snode, tzv, tdata, tsnap, tnode>>
    BY DEF CleaningUp
  <2>10. CtlTyped /\ CleaningUp(v) => CtlTyped'
    BY <2>1, <2>6, <2>9 DEF CtlTyped
  <2>11. K8sTyped /\ CleaningUp(v) => K8sTyped'
    BY <2>7, <2>8, <2>9 DEF K8sTyped
  <2>12. SrcTyped /\ CleaningUp(v) => SrcTyped'
    BY <2>2, <2>9 DEF SrcTyped
  <2>13. XferTyped /\ snode \in BOOLEAN /\ tnode \in BOOLEAN /\ CleaningUp(v) => XferTyped'
    BY <2>3, <2>4, <2>16 DEF XferTyped
  <2>14. TgtTyped /\ CleaningUp(v) => TgtTyped'
    BY <2>5, <2>9 DEF TgtTyped
  <2>15. SrcTyped /\ TgtTyped => snode \in BOOLEAN /\ tnode \in BOOLEAN
    BY DEF SrcTyped, TgtTyped
  <2> QED BY <2>10, <2>11, <2>12, <2>13, <2>14, <2>15, TypeParts, Frames
<1>12. TypeOK /\ Abort(v, d) /\ UNCHANGED faulty => TypeOK'
  <2>1. evac \in ZFSEvacuationStatus /\ Abort(v, d) => evac' \in ZFSEvacuationStatus
    BY AdvanceType, PhaseNames DEF Abort, Wrote, Waits
  <2>2. relay \in RelayType /\ Abort(v, d) => relay' \in RelayType
    BY NoRelayTyped DEF Abort, Wrote
  <2>3. evac \in ZFSEvacuationStatus /\ pv \in PVType /\ Abort(v, d) => pv' \in PVType
    BY DEF Abort, AbortRelease, AbortTransferCRs, AbortTargetVolume, AdoptOrphan, Wrote,
       PVType, ZFSEvacuationStatus
  <2>4. szv \in ZVType /\ Abort(v, d) => szv' \in ZVType
    BY ZVOps DEF Abort, AbortRelease, AbortTransferCRs, AbortTargetVolume, AdoptOrphan,
       Wrote, ReleaseSource
  <2>5. bkp \in BkpType /\ snode \in BOOLEAN /\ Abort(v, d) => bkp' \in BkpType
    BY CROps DEF Abort, AbortRelease, AbortTransferCRs, AbortTargetVolume, AdoptOrphan,
       Wrote, CleanupTransferCRs, xferVars
  <2>6. rst \in RstType /\ tnode \in BOOLEAN /\ Abort(v, d) => rst' \in RstType
    BY CROps DEF Abort, AbortRelease, AbortTransferCRs, AbortTargetVolume, AdoptOrphan,
       Wrote, CleanupTransferCRs, xferVars
  <2>17. Abort(v, d) => tried' = tried
    BY DEF Abort, AbortRelease, AbortTransferCRs, AbortTargetVolume, AdoptOrphan,
       CleanupTransferCRs, xferVars
  <2>7. cr \in {"bare", "live", "deleting", "gone"} /\ Abort(v, d)
        => cr' \in {"bare", "live", "deleting", "gone"}
    BY DEF Abort, AbortRelease, AbortTransferCRs, AbortTargetVolume, AdoptOrphan, Wrote,
       Released
  <2>8. lock \in BOOLEAN /\ Abort(v, d) => lock' \in BOOLEAN
    BY DEF Abort, AbortRelease, AbortTransferCRs, AbortTargetVolume, AdoptOrphan, Wrote
  <2>9. tzv \in TZVStates /\ Abort(v, d) => tzv' \in TZVStates
    BY DEF Abort, AbortRelease, AbortTransferCRs, AbortTargetVolume, AdoptOrphan, Wrote,
       DeletedTZV, TZVStates
  <2>10. Abort(v, d) =>
           UNCHANGED <<armed, pvc, wanted, sdata, snode, tdata, tsnap, scr, tnode>>
    BY DEF Abort
  <2>11. CtlTyped /\ Abort(v, d) => CtlTyped'
    BY <2>1, <2>2, <2>7, <2>10 DEF CtlTyped
  <2>12. K8sTyped /\ evac \in ZFSEvacuationStatus /\ Abort(v, d) => K8sTyped'
    BY <2>3, <2>8, <2>10 DEF K8sTyped
  <2>13. SrcTyped /\ Abort(v, d) => SrcTyped'
    BY <2>4, <2>10 DEF SrcTyped
  <2>14. XferTyped /\ snode \in BOOLEAN /\ tnode \in BOOLEAN /\ Abort(v, d)
           => XferTyped'
    BY <2>5, <2>6, <2>17 DEF XferTyped
  <2>15. TgtTyped /\ Abort(v, d) => TgtTyped'
    BY <2>9, <2>10 DEF TgtTyped
  <2>16. CtlTyped /\ SrcTyped /\ TgtTyped =>
           evac \in ZFSEvacuationStatus /\ snode \in BOOLEAN /\ tnode \in BOOLEAN
    BY DEF CtlTyped, SrcTyped, TgtTyped
  <2> QED BY <2>11, <2>12, <2>13, <2>14, <2>15, <2>16, TypeParts, Frames
<1> QED BY <1>1, <1>2, <1>3, <1>4, <1>5, <1>6, <1>7, <1>8, <1>9, <1>10, <1>11, <1>12

(* A reconcile or a crash of the controller keeps every object well-typed. *)
LEMMA ReconcileType == IInv /\ (Reconcile \/ Crash) /\ UNCHANGED faulty => TypeOK'
<1>1. TypeOK /\ Begin /\ UNCHANGED faulty => TypeOK'
  <2>1. evac \in ZFSEvacuationStatus /\ Begin => evac' \in ZFSEvacuationStatus
    BY StatusTypes DEF Begin, Wrote
  <2>2. cr \in {"bare", "live", "deleting", "gone"} /\ Begin
        => cr' \in {"bare", "live", "deleting", "gone"}
    BY DEF Begin, Wrote
  <2>3. Begin => armed' \in BOOLEAN /\ relay' = relay
    BY DEF Begin
  <2>4. CtlTyped /\ Begin => CtlTyped'
    BY <2>1, <2>2, <2>3 DEF CtlTyped
  <2>5. Begin => UNCHANGED <<k8sVars, srcVars, xferVars, tgtVars>>
    BY DEF Begin
  <2> QED BY <2>4, <2>5, TypeParts, Frames
<1>2. TypeOK /\ GiveUp(evac) /\ UNCHANGED faulty => TypeOK'
  <2>1. CtlTyped /\ GiveUp(evac) => CtlTyped'
    BY WaitsSame DEF GiveUp, CtlTyped
  <2>2. GiveUp(evac) => UNCHANGED <<k8sVars, srcVars, xferVars, tgtVars>>
    BY DEF GiveUp
  <2> QED BY <2>1, <2>2, TypeParts, Frames
<1>3. TypeOK /\ ReleaseTerminal /\ UNCHANGED faulty => TypeOK'
  <2>1. ReleaseTerminal => cr' \in {"bare", "live", "deleting", "gone"}
    BY DEF ReleaseTerminal, Released
  <2>2. CtlTyped /\ ReleaseTerminal => CtlTyped'
    BY <2>1 DEF CtlTyped, ReleaseTerminal
  <2>3. ReleaseTerminal => UNCHANGED <<k8sVars, srcVars, xferVars, tgtVars>>
    BY DEF ReleaseTerminal
  <2> QED BY <2>2, <2>3, TypeParts, Frames
<1>4. TypeOK /\ Crash /\ UNCHANGED faulty => TypeOK'
  <2>1. Crash => relay' \in RelayType /\ armed' \in BOOLEAN
    BY NoRelayTyped DEF Crash
  <2>2. CtlTyped /\ Crash => CtlTyped'
    BY <2>1 DEF CtlTyped, Crash
  <2>3. Crash => UNCHANGED <<k8sVars, srcVars, xferVars, tgtVars>>
    BY DEF Crash
  <2> QED BY <2>2, <2>3, TypeParts, Frames
<1>5. evac \in ZFSEvacuationStatus /\ SourceRecorded /\ TypeOK /\ Reconcile /\ UNCHANGED faulty
        => Begin \/ GiveUp(evac) \/ ReleaseTerminal \/ TypeOK'
  <2>1. SourceRecorded => (evac.phase = "Swapping" => evac.orig # "None")
    BY DEF SourceRecorded
  <2> QED BY <2>1, HandlerType DEF Reconcile, TransferringStep
<1> QED BY <1>1, <1>2, <1>3, <1>4, <1>5 DEF IInv, Safe, TypeOK

(* So does every user action on the claim, the PV or the evacuation.       *)
LEMMA UsersType == TypeOK /\ Users /\ UNCHANGED faulty => TypeOK'
<1>1. TypeOK /\ UserDeletesPVC /\ UNCHANGED faulty => TypeOK'
  <2>1. pv \in PVType /\ UserDeletesPVC => pv' \in PVType
    BY DEF UserDeletesPVC, PVType
  <2>2. K8sTyped /\ UserDeletesPVC => K8sTyped'
    BY <2>1 DEF K8sTyped, UserDeletesPVC
  <2>3. UserDeletesPVC => UNCHANGED <<ctlVars, srcVars, xferVars, tgtVars>>
    BY DEF UserDeletesPVC
  <2> QED BY <2>2, <2>3, TypeParts, Frames
<1>2. TypeOK /\ UserRecreatesPVC /\ UNCHANGED faulty => TypeOK'
  <2>1. K8sTyped /\ UserRecreatesPVC => K8sTyped'
    BY DEF K8sTyped, UserRecreatesPVC
  <2>2. UserRecreatesPVC => UNCHANGED <<ctlVars, srcVars, xferVars, tgtVars>>
    BY DEF UserRecreatesPVC
  <2> QED BY <2>1, <2>2, TypeParts, Frames
<1>3. TypeOK /\ UserTogglesTrigger /\ UNCHANGED faulty => TypeOK'
  <2>1. K8sTyped /\ UserTogglesTrigger => K8sTyped'
    BY DEF K8sTyped, UserTogglesTrigger
  <2>2. UserTogglesTrigger => UNCHANGED <<ctlVars, srcVars, xferVars, tgtVars>>
    BY DEF UserTogglesTrigger
  <2> QED BY <2>1, <2>2, TypeParts, Frames
<1>4. TypeOK /\ UserDeletesEvacuation /\ UNCHANGED faulty => TypeOK'
  <2>1. CtlTyped /\ UserDeletesEvacuation => CtlTyped'
    BY DEF CtlTyped, UserDeletesEvacuation
  <2>2. UserDeletesEvacuation => UNCHANGED <<k8sVars, srcVars, xferVars, tgtVars>>
    BY DEF UserDeletesEvacuation
  <2> QED BY <2>1, <2>2, TypeParts, Frames
<1>5. TypeOK /\ AdminDeletesPV /\ UNCHANGED faulty => TypeOK'
  <2>1. pv \in PVType /\ AdminDeletesPV => pv' \in PVType
    BY DEF AdminDeletesPV, PVType
  <2>2. K8sTyped /\ AdminDeletesPV => K8sTyped'
    BY <2>1 DEF K8sTyped, AdminDeletesPV
  <2>3. AdminDeletesPV => UNCHANGED <<ctlVars, srcVars, xferVars, tgtVars>>
    BY DEF AdminDeletesPV
  <2> QED BY <2>2, <2>3, TypeParts, Frames
<1>6. TypeOK /\ OperatorReplacesPV /\ UNCHANGED faulty => TypeOK'
  <2>1. pv \in PVType /\ OperatorReplacesPV => pv' \in PVType
    BY DEF OperatorReplacesPV, PVType
  <2>2. K8sTyped /\ OperatorReplacesPV => K8sTyped'
    BY <2>1 DEF K8sTyped, OperatorReplacesPV
  <2>3. OperatorReplacesPV => UNCHANGED <<ctlVars, srcVars, xferVars, tgtVars>>
    BY DEF OperatorReplacesPV
  <2> QED BY <2>2, <2>3, TypeParts, Frames
<1> QED BY <1>1, <1>2, <1>3, <1>4, <1>5, <1>6 DEF Users

(* So do the PV controller, the provisioner and leaving nodes.             *)
LEMMA ClusterType == TypeOK /\ Cluster /\ UNCHANGED faulty => TypeOK'
<1>1. TypeOK /\ PVFinalized /\ UNCHANGED faulty => TypeOK'
  <2>1. PVFinalized => pv' \in PVType
    BY DEF PVFinalized, NoPV, PVType, Policy
  <2>2. K8sTyped /\ PVFinalized => K8sTyped'
    BY <2>1 DEF K8sTyped, PVFinalized
  <2>3. PVFinalized => UNCHANGED <<ctlVars, srcVars, xferVars, tgtVars>>
    BY DEF PVFinalized
  <2> QED BY <2>2, <2>3, TypeParts, Frames
<1>2. TypeOK /\ PVControllerBinds /\ UNCHANGED faulty => TypeOK'
  <2>1. pv \in PVType /\ PVControllerBinds => pv' \in PVType
    BY DEF PVControllerBinds, PVType
  <2>2. K8sTyped /\ PVControllerBinds => K8sTyped'
    BY <2>1 DEF K8sTyped, PVControllerBinds
  <2>3. PVControllerBinds => UNCHANGED <<ctlVars, srcVars, xferVars, tgtVars>>
    BY DEF PVControllerBinds
  <2> QED BY <2>2, <2>3, TypeParts, Frames
<1>3. TypeOK /\ ProvisionerReclaims /\ UNCHANGED faulty => TypeOK'
  <2>1. ProvisionerReclaims => pv' \in PVType
    BY DEF ProvisionerReclaims, NoPV, PVType, Policy
  <2>2. K8sTyped /\ ProvisionerReclaims => K8sTyped'
    BY <2>1 DEF K8sTyped, ProvisionerReclaims
  <2>3. szv \in ZVType /\ ProvisionerReclaims => szv' \in ZVType
    BY ZVOps DEF ProvisionerReclaims
  <2>4. SrcTyped /\ ProvisionerReclaims => SrcTyped'
    BY <2>3 DEF SrcTyped, ProvisionerReclaims
  <2>5. tzv \in TZVStates /\ ProvisionerReclaims => tzv' \in TZVStates
    BY DEF ProvisionerReclaims, DeletedTZV, TZVStates
  <2>6. TgtTyped /\ ProvisionerReclaims => TgtTyped'
    BY <2>5 DEF TgtTyped, ProvisionerReclaims
  <2>7. ProvisionerReclaims => UNCHANGED <<ctlVars, xferVars>>
    BY DEF ProvisionerReclaims
  <2> QED BY <2>2, <2>4, <2>6, <2>7, TypeParts, Frames
<1>4. TypeOK /\ SourceNodeLeaves /\ UNCHANGED faulty => TypeOK'
  <2>1. SrcTyped /\ SourceNodeLeaves => SrcTyped'
    BY DEF SrcTyped, SourceNodeLeaves
  <2>2. SourceNodeLeaves => UNCHANGED <<ctlVars, k8sVars, xferVars, tgtVars>>
    BY DEF SourceNodeLeaves
  <2> QED BY <2>1, <2>2, TypeParts, Frames
<1>5. TypeOK /\ TargetNodeLeaves /\ UNCHANGED faulty => TypeOK'
  <2>1. TgtTyped /\ TargetNodeLeaves => TgtTyped'
    BY DEF TgtTyped, TargetNodeLeaves
  <2>2. TargetNodeLeaves => UNCHANGED <<ctlVars, k8sVars, srcVars, xferVars>>
    BY DEF TargetNodeLeaves
  <2> QED BY <2>1, <2>2, TypeParts, Frames
<1> QED BY <1>1, <1>2, <1>3, <1>4, <1>5 DEF Cluster

(* So does the stream between the node agents, through the relay.          *)
LEMMA StreamType == TypeOK /\ Stream /\ UNCHANGED faulty => TypeOK'
<1>1. TypeOK /\ SourceConnects /\ UNCHANGED faulty => TypeOK'
  <2>1. relay \in RelayType /\ SourceConnects => relay' \in RelayType
    BY DEF SourceConnects, RelayType
  <2>2. CtlTyped /\ SourceConnects => CtlTyped'
    BY <2>1 DEF CtlTyped, SourceConnects
  <2>3. SourceConnects => UNCHANGED <<k8sVars, srcVars, xferVars, tgtVars>>
    BY DEF SourceConnects
  <2> QED BY <2>2, <2>3, TypeParts, Frames
<1>2. TypeOK /\ SourceSends /\ UNCHANGED faulty => TypeOK'
  <2>1. bkp \in BkpType /\ SourceSends => bkp' \in BkpType
    BY DEF SourceSends, BkpType
  <2>2. XferTyped /\ SourceSends => XferTyped'
    BY <2>1 DEF XferTyped, SourceSends
  <2>3. SourceSends => UNCHANGED <<ctlVars, k8sVars, srcVars, tgtVars>>
    BY DEF SourceSends
  <2> QED BY <2>2, <2>3, TypeParts, Frames
<1>3. TypeOK /\ TargetReceives /\ UNCHANGED faulty => TypeOK'
  <2>1. relay \in RelayType /\ TargetReceives => relay' \in RelayType
    BY DEF TargetReceives, RelayType
  <2>2. CtlTyped /\ TargetReceives => CtlTyped'
    BY <2>1 DEF CtlTyped, TargetReceives
  <2>3. TargetReceives => UNCHANGED <<k8sVars, srcVars, xferVars, tgtVars>>
    BY DEF TargetReceives
  <2> QED BY <2>2, <2>3, TypeParts, Frames
<1>4. TypeOK /\ DatasetLands /\ UNCHANGED faulty => TypeOK'
  <2>1. relay \in RelayType /\ DatasetLands => relay' \in RelayType
    BY DEF DatasetLands, RelayType
  <2>2. CtlTyped /\ DatasetLands => CtlTyped'
    BY <2>1 DEF CtlTyped, DatasetLands
  <2>3. rst \in RstType /\ DatasetLands => rst' \in RstType
    BY DEF DatasetLands, RstType
  <2>4. XferTyped /\ DatasetLands => XferTyped'
    BY <2>3 DEF XferTyped, DatasetLands
  <2>5. TgtTyped /\ DatasetLands => TgtTyped'
    BY DEF TgtTyped, DatasetLands
  <2>6. DatasetLands => UNCHANGED <<k8sVars, srcVars>>
    BY DEF DatasetLands
  <2> QED BY <2>2, <2>4, <2>5, <2>6, TypeParts, Frames
<1>5. TypeOK /\ RelayBreaks /\ UNCHANGED faulty => TypeOK'
  <2>1. relay \in RelayType /\ RelayBreaks => relay' \in RelayType
    BY DEF RelayBreaks, RelayType
  <2>2. CtlTyped /\ RelayBreaks => CtlTyped'
    BY <2>1 DEF CtlTyped, RelayBreaks
  <2>3. RelayBreaks => UNCHANGED <<k8sVars, srcVars, xferVars, tgtVars>>
    BY DEF RelayBreaks
  <2> QED BY <2>2, <2>3, TypeParts, Frames
<1>6. TypeOK /\ BackupDone /\ UNCHANGED faulty => TypeOK'
  <2>1. bkp \in BkpType /\ BackupDone => bkp' \in BkpType
    BY DEF BackupDone, BkpType
  <2>2. XferTyped /\ BackupDone => XferTyped'
    BY <2>1 DEF XferTyped, BackupDone
  <2>3. BackupDone => UNCHANGED <<ctlVars, k8sVars, srcVars, tgtVars>>
    BY DEF BackupDone
  <2> QED BY <2>2, <2>3, TypeParts, Frames
<1>7. TypeOK /\ BackupFails /\ UNCHANGED faulty => TypeOK'
  <2>1. bkp \in BkpType /\ BackupFails => bkp' \in BkpType
    BY DEF BackupFails, BkpType
  <2>2. XferTyped /\ BackupFails => XferTyped'
    BY <2>1 DEF XferTyped, BackupFails
  <2>3. BackupFails => UNCHANGED <<ctlVars, k8sVars, srcVars, tgtVars>>
    BY DEF BackupFails
  <2> QED BY <2>2, <2>3, TypeParts, Frames
<1>8. TypeOK /\ BackupFinalized /\ UNCHANGED faulty => TypeOK'
  <2>1. BackupFinalized => bkp' \in BkpType
    BY CROps DEF BackupFinalized
  <2>2. XferTyped /\ BackupFinalized => XferTyped'
    BY <2>1 DEF XferTyped, BackupFinalized
  <2>3. BackupFinalized => UNCHANGED <<ctlVars, k8sVars, srcVars, tgtVars>>
    BY DEF BackupFinalized
  <2> QED BY <2>2, <2>3, TypeParts, Frames
<1>9. TypeOK /\ RestoreCompletes /\ UNCHANGED faulty => TypeOK'
  <2>1. rst \in RstType /\ RestoreCompletes => rst' \in RstType
    BY DEF RestoreCompletes, RstType
  <2>2. XferTyped /\ RestoreCompletes => XferTyped'
    BY <2>1 DEF XferTyped, RestoreCompletes
  <2>3. RestoreCompletes => UNCHANGED <<ctlVars, k8sVars, srcVars, tgtVars>>
    BY DEF RestoreCompletes
  <2> QED BY <2>2, <2>3, TypeParts, Frames
<1>10. TypeOK /\ RestoreFails /\ UNCHANGED faulty => TypeOK'
  <2>1. rst \in RstType /\ RestoreFails => rst' \in RstType
    BY DEF RestoreFails, RstType
  <2>2. XferTyped /\ RestoreFails => XferTyped'
    BY <2>1 DEF XferTyped, RestoreFails
  <2>3. RestoreFails => UNCHANGED <<ctlVars, k8sVars, srcVars, tgtVars>>
    BY DEF RestoreFails
  <2> QED BY <2>2, <2>3, TypeParts, Frames
<1>11. TypeOK /\ RestoreFinalized /\ UNCHANGED faulty => TypeOK'
  <2>1. RestoreFinalized => rst' \in RstType
    BY CROps DEF RestoreFinalized
  <2>2. XferTyped /\ RestoreFinalized => XferTyped'
    BY <2>1 DEF XferTyped, RestoreFinalized
  <2>3. RestoreFinalized => UNCHANGED <<ctlVars, k8sVars, srcVars, tgtVars>>
    BY DEF RestoreFinalized
  <2> QED BY <2>2, <2>3, TypeParts, Frames
<1> QED BY <1>1, <1>2, <1>3, <1>4, <1>5, <1>6, <1>7, <1>8, <1>9, <1>10, <1>11 DEF Stream

(* So do the node agents that own ZFSVolume and ZFSSnapshot CRs.           *)
LEMMA AgentsType == TypeOK /\ Agents /\ UNCHANGED faulty => TypeOK'
<1>1. TypeOK /\ TargetAdopts /\ UNCHANGED faulty => TypeOK'
  <2>1. TargetAdopts => tzv' \in TZVStates
    BY DEF TargetAdopts, TZVStates
  <2>2. tdata \in {"none", "empty", "full"} /\ TargetAdopts => tdata' \in {"none", "empty", "full"}
    BY DEF TargetAdopts
  <2>3. TgtTyped /\ TargetAdopts => TgtTyped'
    BY <2>1, <2>2 DEF TgtTyped, TargetAdopts
  <2>4. TargetAdopts => UNCHANGED <<ctlVars, k8sVars, srcVars, xferVars>>
    BY DEF TargetAdopts
  <2> QED BY <2>3, <2>4, TypeParts, Frames
<1>2. TypeOK /\ TargetAdoptFails /\ UNCHANGED faulty => TypeOK'
  <2>1. TargetAdoptFails => tzv' \in TZVStates
    BY DEF TargetAdoptFails, TZVStates
  <2>2. TgtTyped /\ TargetAdoptFails => TgtTyped'
    BY <2>1 DEF TgtTyped, TargetAdoptFails
  <2>3. TargetAdoptFails => UNCHANGED <<ctlVars, k8sVars, srcVars, xferVars>>
    BY DEF TargetAdoptFails
  <2> QED BY <2>2, <2>3, TypeParts, Frames
<1>3. TypeOK /\ TargetDestroys /\ UNCHANGED faulty => TypeOK'
  <2>1. TargetDestroys => tzv' \in TZVStates
    BY DEF TargetDestroys, TZVStates
  <2>2. TgtTyped /\ TargetDestroys => TgtTyped'
    BY <2>1 DEF TgtTyped, TargetDestroys
  <2>3. TargetDestroys => UNCHANGED <<ctlVars, k8sVars, srcVars, xferVars>>
    BY DEF TargetDestroys
  <2> QED BY <2>2, <2>3, TypeParts, Frames
<1>4. TypeOK /\ SourceDestroys /\ UNCHANGED faulty => TypeOK'
  <2>1. SourceDestroys => szv' \in ZVType
    BY DEF SourceDestroys, GoneZV, ZVType
  <2>2. SrcTyped /\ SourceDestroys => SrcTyped'
    BY <2>1 DEF SrcTyped, SourceDestroys
  <2>3. SourceDestroys => UNCHANGED <<ctlVars, k8sVars, xferVars, tgtVars>>
    BY DEF SourceDestroys
  <2> QED BY <2>2, <2>3, TypeParts, Frames
<1>5. TypeOK /\ SnapshotRegistered /\ UNCHANGED faulty => TypeOK'
  <2>1. SnapshotRegistered => scr' \in SCRStates
    BY DEF SnapshotRegistered, SCRStates
  <2>2. TgtTyped /\ SnapshotRegistered => TgtTyped'
    BY <2>1 DEF TgtTyped, SnapshotRegistered
  <2>3. SnapshotRegistered => UNCHANGED <<ctlVars, k8sVars, srcVars, xferVars>>
    BY DEF SnapshotRegistered
  <2> QED BY <2>2, <2>3, TypeParts, Frames
<1>6. TypeOK /\ SnapshotDestroyed /\ UNCHANGED faulty => TypeOK'
  <2>1. SnapshotDestroyed => scr' \in SCRStates
    BY DEF SnapshotDestroyed, SCRStates
  <2>2. TgtTyped /\ SnapshotDestroyed => TgtTyped'
    BY <2>1 DEF TgtTyped, SnapshotDestroyed
  <2>3. SnapshotDestroyed => UNCHANGED <<ctlVars, k8sVars, srcVars, xferVars>>
    BY DEF SnapshotDestroyed
  <2> QED BY <2>2, <2>3, TypeParts, Frames
<1> QED BY <1>1, <1>2, <1>3, <1>4, <1>5, <1>6 DEF Agents

-----------------------------------------------------------------------------
(* Safe                                                                    *)

(* A reconcile of any phase keeps Safe.                                    *)
LEMMA ReconcileSafe == IInv /\ (Reconcile \/ Crash) => Safe'
<1> USE DEF IInv, TypeOK, ZFSEvacuationStatus, PVType, ZVType, Policy, CancelablePhase, Terminal,
      Safe, CommitMarksPhase, SourceRecorded, FinalizerHolds, ClaimKeepsPV, NewPVCommitted,
      SourceKept, CopyKept, GuardSet, ctlVars, k8sVars, srcVars, xferVars, tgtVars
<1>1. IInv /\ Begin => Safe'
  <2>1. Begin => UNCHANGED <<pv, pvc, szv, sdata, tzv, tdata, rst>>
    BY DEF Begin
  <2> QED BY <2>1, BeginEffect DEF Became
<1>2. IInv /\ GiveUp(evac) => Safe'
  BY WaitsSame DEF GiveUp
<1>3. IInv /\ Pending(evac) => Safe'
  <2>1. IInv /\ Pending(evac) /\ Became(evac', evac, "Failed") => Safe'
    BY PendingEffect DEF Became
  <2>2. IInv /\ Pending(evac) /\ ~Became(evac', evac, "Failed") => Safe'
    BY PendingEffect
  <2> QED BY <2>1, <2>2
<1>4. IInv /\ Guarding(evac) => Safe'
  <2>1. szv \in ZVType => /\ Guarded(szv).s = szv.s
                          /\ Guarded(szv).guard \/ Guarded(szv).s = "gone"
    BY DEF Guarded
  <2>2. Guarding(evac) => \/ evac' = evac /\ szv' \in {szv, Guarded(szv)}
                          \/ evac' = Advance(evac, "Retaining") /\ szv' = Guarded(szv)
    BY DEF Guarding, Wrote, Cut
  <2> QED BY <2>1, <2>2 DEF Guarding, Handling, Advance
<1>5. IInv /\ Retaining(evac) => Safe'
  BY DEF Retaining, Handling, Wrote, Advance
<1>6. IInv /\ Locking(evac) => Safe'
  BY DEF Locking, Handling, Wrote, Advance
<1>7. IInv /\ Quiescing(evac) => Safe'
  BY DEF Quiescing, Handling, Advance
<1>8. IInv /\ TargetSelecting(evac) => Safe'
  <2>1. evac \in ZFSEvacuationStatus /\ TargetSelecting(evac) =>
          Became(evac', evac, "Failed") \/ Became(evac', evac, "Transferring")
    BY StatusFields, PhaseNames DEF TargetSelecting
  <2>2. TargetSelecting(evac) => /\ evac.phase = "TargetSelecting" /\ armed' = FALSE
                                 /\ UNCHANGED <<cr, pv, pvc, szv, sdata, tzv, tdata, rst>>
    BY DEF TargetSelecting, Handling
  <2> QED BY <2>1, <2>2 DEF Became
<1>9. IInv /\ TransferringStep(evac) => Safe'
  <2>1. TransferringStep(evac) => /\ evac.phase = "Transferring" /\ armed' = FALSE
                                  /\ UNCHANGED <<cr, pv, pvc, szv, sdata, tzv, tdata>>
    BY DEF TransferringStep, Transferring, TransferWaits, Handling
  <2> QED BY <2>1, TransferringEffect DEF TransferMoves, Became
<1>10. IInv /\ Adopting(evac) => Safe'
  BY DEF Adopting, Handling, Advance
<1>11. IInv /\ Committing(evac) => Safe'
  BY CommittingEffect DEF Committing, Handling, Became
<1>12. IInv /\ Swapping(evac) => Safe'
  <2>1. IInv /\ Swapping(evac) /\ DeleteOldPV => Safe'
    BY DEF Swapping, DeleteOldPV, Wrote, NoPV
  <2>2. IInv /\ Swapping(evac) /\ CreateNewPV => Safe'
    BY DEF Swapping, CreateNewPV, NewPV
  <2>3. IInv /\ Swapping(evac) /\ VerifyRebind(evac) => Safe'
    BY DEF Swapping, VerifyRebind, Wrote, Advance
  <2>4. IInv /\ Swapping(evac) /\ HoldDelete(evac) => Safe'
    BY WaitsSame DEF Swapping, HoldDelete
  <2> QED BY <2>1, <2>2, <2>3, <2>4 DEF Swapping
<1>13. IInv /\ CleaningUp(evac) => Safe'
  <2>1. CleaningUp(evac) => evac.phase = "CleaningUp" /\ UNCHANGED <<armed, pv, pvc, tzv, tdata>>
    BY DEF CleaningUp
  <2> QED BY <2>1, CleaningUpEffect DEF Became
<1>14. IInv /\ ReleaseTerminal => Safe'
  BY DEF ReleaseTerminal, Released
<1>15. IInv /\ Abort(evac, cr = "deleting") => Safe'
  BY AbortEffect DEF Abort, Became
<1>16. IInv /\ Crash => Safe'
  BY DEF Crash
<1> QED
  BY <1>1, <1>2, <1>3, <1>4, <1>5, <1>6, <1>7, <1>8, <1>9, <1>10, <1>11, <1>12, <1>13, <1>14,
     <1>15, <1>16 DEF Reconcile, TransferringStep

(* A user may take the claim, the PV or the evacuation away at any time:   *)
(* Safe survives.                                                          *)
LEMMA UsersSafe == IInv /\ Users => Safe'
<1> USE DEF IInv, TypeOK, ZFSEvacuationStatus, PVType, ZVType, Policy, CancelablePhase, Terminal,
      Safe, CommitMarksPhase, SourceRecorded, FinalizerHolds, ClaimKeepsPV, NewPVCommitted,
      SourceKept, CopyKept, GuardSet, ctlVars, k8sVars, srcVars, xferVars, tgtVars
<1>1. IInv /\ UserDeletesPVC => Safe'
  BY DEF UserDeletesPVC
<1>2. IInv /\ UserRecreatesPVC => Safe'
  BY DEF UserRecreatesPVC
<1>3. IInv /\ UserTogglesTrigger => Safe'
  BY DEF UserTogglesTrigger
<1>4. IInv /\ UserDeletesEvacuation => Safe'
  BY DEF UserDeletesEvacuation
<1>5. IInv /\ AdminDeletesPV => Safe'
  BY DEF AdminDeletesPV
<1>6. IInv /\ OperatorReplacesPV => Safe'
  BY DEF OperatorReplacesPV
<1> QED BY <1>1, <1>2, <1>3, <1>4, <1>5, <1>6 DEF Users

(* PV protection keeps a bound PV; the provisioner reclaims only an        *)
(* abandoned one.                                                          *)
LEMMA ClusterSafe == IInv /\ Cluster => Safe'
<1> USE DEF IInv, TypeOK, ZFSEvacuationStatus, PVType, ZVType, Policy, CancelablePhase, Terminal,
      Safe, CommitMarksPhase, SourceRecorded, FinalizerHolds, ClaimKeepsPV, NewPVCommitted,
      SourceKept, CopyKept, GuardSet, ctlVars, k8sVars, srcVars, xferVars, tgtVars
<1>1. IInv /\ PVFinalized => Safe'
  BY DEF PVFinalized, NoPV
<1>2. IInv /\ PVControllerBinds => Safe'
  BY DEF PVControllerBinds
<1>3. IInv /\ ProvisionerReclaims => Safe'
  BY DEF ProvisionerReclaims, NoPV, DeletedTZV, Deleted, Settle
<1>4. IInv /\ SourceNodeLeaves => Safe'
  BY DEF SourceNodeLeaves
<1>5. IInv /\ TargetNodeLeaves => Safe'
  BY DEF TargetNodeLeaves
<1> QED BY <1>1, <1>2, <1>3, <1>4, <1>5 DEF Cluster

(* A landed dataset is recorded in the restore CR before anything relies   *)
(* on it.                                                                  *)
LEMMA StreamSafe == IInv /\ Stream => Safe'
<1> USE DEF IInv, TypeOK, ZFSEvacuationStatus, PVType, ZVType, Policy, CancelablePhase, Terminal,
      Safe, CommitMarksPhase, SourceRecorded, FinalizerHolds, ClaimKeepsPV, NewPVCommitted,
      SourceKept, CopyKept, GuardSet, ctlVars, k8sVars, srcVars, xferVars, tgtVars
<1>1. IInv /\ SourceConnects => Safe'
  BY DEF SourceConnects
<1>2. IInv /\ SourceSends => Safe'
  BY DEF SourceSends
<1>3. IInv /\ TargetReceives => Safe'
  BY DEF TargetReceives
<1>4. IInv /\ DatasetLands => Safe'
  BY DEF DatasetLands, InitCR, RstType
<1>5. IInv /\ RelayBreaks => Safe'
  BY DEF RelayBreaks
<1>6. IInv /\ BackupDone => Safe'
  BY DEF BackupDone
<1>7. IInv /\ BackupFails => Safe'
  BY DEF BackupFails
<1>8. IInv /\ BackupFinalized => Safe'
  BY DEF BackupFinalized, NoCR
<1>9. IInv /\ RestoreCompletes => Safe'
  BY DEF RestoreCompletes, RstType
<1>10. IInv /\ RestoreFails => Safe'
  BY DEF RestoreFails, RstType
<1>11. IInv /\ RestoreFinalized => Safe'
  BY DEF RestoreFinalized, NoCR
<1> QED BY <1>1, <1>2, <1>3, <1>4, <1>5, <1>6, <1>7, <1>8, <1>9, <1>10, <1>11 DEF Stream

(* An agent destroys only what nothing that Safe protects depends on.      *)
LEMMA AgentsSafe == IInv /\ Agents => Safe'
<1> USE DEF IInv, TypeOK, ZFSEvacuationStatus, PVType, ZVType, Policy, CancelablePhase, Terminal,
      Safe, CommitMarksPhase, SourceRecorded, FinalizerHolds, ClaimKeepsPV, NewPVCommitted,
      SourceKept, CopyKept, GuardSet, ctlVars, k8sVars, srcVars, xferVars, tgtVars
<1>1. IInv /\ TargetAdopts => Safe'
  BY DEF TargetAdopts
<1>2. IInv /\ TargetAdoptFails => Safe'
  BY DEF TargetAdoptFails
<1>3. IInv /\ TargetDestroys => Safe'
  BY DEF TargetDestroys
<1>4. IInv /\ SourceDestroys => Safe'
  BY DEF SourceDestroys, GoneZV
<1>5. IInv /\ SnapshotRegistered => Safe'
  BY DEF SnapshotRegistered
<1>6. IInv /\ SnapshotDestroyed => Safe'
  BY DEF SnapshotDestroyed
<1> QED BY <1>1, <1>2, <1>3, <1>4, <1>5, <1>6 DEF Agents

-----------------------------------------------------------------------------
(* Recorded                                                                *)

(* A deleted, unguarded or stripped ZFSVolume CR gets no guard, and a gone *)
(* one does not come back (set_finalizers, delete_source).                 *)
LEMMA ZVGuard ==
  ASSUME NEW z \in ZVType
  PROVE  /\ ~Unguarded(z).guard
         /\ Stripped(z).guard => z.guard
         /\ Deleted(z).guard => z.guard
         /\ z.s = "gone" => Deleted(z).s = "gone" /\ Unguarded(z).s = "gone" /\ Stripped(z).s = "gone"
  BY DEF ZVType, Unguarded, Stripped, Deleted, Settle, GoneZV

(* ReleaseSource never adds a guard, and carried out to its last write it  *)
(* leaves none (abort.rs, cleaning_up).                                    *)
LEMMA ReleaseDropsGuard ==
  ASSUME NEW n \in Nat, NEW i \in Nat, NEW delete \in BOOLEAN, szv \in ZVType,
         ReleaseSource(n, i, delete)
  PROVE  /\ szv'.guard => szv.guard
         /\ n >= i + 2 => ~szv'.guard
         /\ szv.s = "gone" => szv'.s = "gone"
<1> DEFINE d == Wrote(n, i, IF delete THEN Deleted(szv) ELSE szv, szv)
           g == Wrote(n, i + 1, Unguarded(d), d)
<1>1. d \in ZVType /\ (d.guard => szv.guard) /\ (szv.s = "gone" => d.s = "gone")
  BY ZVOps, ZVGuard DEF Wrote
<1>2. /\ g \in ZVType /\ (g.guard => d.guard) /\ (d.s = "gone" => g.s = "gone")
      /\ n >= i + 1 => ~g.guard
  <2> HIDE DEF d
  <2> QED BY <1>1, ZVOps, ZVGuard DEF Wrote
<1>3. szv' = Wrote(n, i + 2, IF snode THEN g ELSE Stripped(g), g)
  BY DEF ReleaseSource
<1>4. /\ szv'.guard => g.guard
      /\ g.s = "gone" => szv'.s = "gone"
  <2> HIDE DEF g
  <2> QED BY <1>2, <1>3, ZVGuard DEF Wrote
<1>5. n >= i + 2 => n >= i + 1
  OBVIOUS
<1> QED BY <1>1, <1>2, <1>4, <1>5

(* Status w has the attempt record of status v.                            *)
SameAttempt(w, v) == w.target = v.target /\ w.attempt = v.attempt /\ w.snapDel = v.snapDel

(* Only TargetSelecting, start_attempt and the snapshot cleanup change it. *)
LEMMA AttemptFields ==
  ASSUME NEW v \in ZFSEvacuationStatus
  PROVE  /\ SameAttempt(v, v)
         /\ \A p \in Phase : SameAttempt(Advance(v, p), v)
         /\ SameAttempt([v EXCEPT !.phase = "Aborting", !.cancelled = TRUE], v)
         /\ SameAttempt(Advance(AttemptFailed(v), "Aborting"), v)
         /\ SameAttempt(AttemptFailed(v), v)
         /\ SameAttempt([v EXCEPT !.phase = "Swapping", !.committed = TRUE], v)
  BY DEF SameAttempt, Advance, AttemptFailed, ZFSEvacuationStatus

(* What users take away is not on record.                                  *)
LEMMA UsersRecorded == IInv /\ Users => Recorded'
<1> USE DEF IInv, TypeOK, ZFSEvacuationStatus, PVType, ZVType, CancelablePhase, Terminal, Policy,
      Safe, CommitMarksPhase, SourceRecorded, FinalizerHolds, NewPVCommitted, CopyKept,
      Recorded, NothingTaken, AttemptRecorded, AbortHeld, RelayOwned, PolicyBack,
      SnapshotOwned, NothingLeft, TransferCRsGone, ctlVars, k8sVars, srcVars, xferVars, tgtVars
<1>1. IInv /\ UserDeletesPVC => Recorded'
  BY DEF UserDeletesPVC
<1>2. IInv /\ UserRecreatesPVC => Recorded'
  BY DEF UserRecreatesPVC
<1>3. IInv /\ UserTogglesTrigger => Recorded'
  BY DEF UserTogglesTrigger
<1>4. IInv /\ UserDeletesEvacuation => Recorded'
  BY DEF UserDeletesEvacuation
<1>5. IInv /\ AdminDeletesPV => Recorded'
  BY DEF AdminDeletesPV
<1>6. IInv /\ OperatorReplacesPV => Recorded'
  BY DEF OperatorReplacesPV
<1> QED BY <1>1, <1>2, <1>3, <1>4, <1>5, <1>6 DEF Users

(* The provisioner reclaims the target volume of a committed evacuation    *)
(* only, and guards nothing.                                               *)
LEMMA ClusterRecorded == IInv /\ Cluster => Recorded'
<1> USE DEF IInv, TypeOK, ZFSEvacuationStatus, PVType, ZVType, CancelablePhase, Terminal, Policy,
      Safe, CommitMarksPhase, SourceRecorded, FinalizerHolds, NewPVCommitted, CopyKept,
      Recorded, NothingTaken, AttemptRecorded, AbortHeld, RelayOwned, PolicyBack,
      SnapshotOwned, NothingLeft, TransferCRsGone, ctlVars, k8sVars, srcVars, xferVars, tgtVars
<1>1. IInv /\ PVFinalized => Recorded'
  BY DEF PVFinalized, NoPV
<1>2. IInv /\ PVControllerBinds => Recorded'
  BY DEF PVControllerBinds
<1>3. IInv /\ ProvisionerReclaims => Recorded'
  BY DEF ProvisionerReclaims, NoPV, DeletedTZV, Deleted, Settle, GoneZV
<1>4. IInv /\ SourceNodeLeaves => Recorded'
  BY DEF SourceNodeLeaves
<1>5. IInv /\ TargetNodeLeaves => Recorded'
  BY DEF TargetNodeLeaves
<1> QED BY <1>1, <1>2, <1>3, <1>4, <1>5 DEF Cluster

(* The stream moves only while the CRs of the attempt exist.               *)
LEMMA StreamRecorded == IInv /\ Stream => Recorded'
<1> USE DEF IInv, TypeOK, ZFSEvacuationStatus, PVType, ZVType, CancelablePhase, Terminal, Policy,
      Safe, CommitMarksPhase, SourceRecorded, FinalizerHolds, NewPVCommitted, CopyKept,
      Recorded, NothingTaken, AttemptRecorded, AbortHeld, RelayOwned, PolicyBack,
      SnapshotOwned, NothingLeft, TransferCRsGone, ctlVars, k8sVars, srcVars, xferVars, tgtVars
<1>1. IInv /\ SourceConnects => Recorded'
  <2>1. IInv /\ SourceConnects => relay.attempt = evac.attempt /\ evac.attempt > 0
    BY DEF SourceConnects, InitCR
  <2>2. IInv /\ SourceConnects => relay # NoRelay
    BY <2>1, NoRelayTyped
  <2> QED BY <2>2 DEF SourceConnects
<1>2. IInv /\ SourceSends => Recorded'
  BY DEF SourceSends, InitCR
<1>3. IInv /\ TargetReceives => Recorded'
  BY NoRelayTyped DEF TargetReceives
<1>4. IInv /\ DatasetLands => Recorded'
  BY NoRelayTyped DEF DatasetLands, InitCR
<1>5. IInv /\ RelayBreaks => Recorded'
  BY NoRelayTyped DEF RelayBreaks
<1>6. IInv /\ BackupDone => Recorded'
  BY DEF BackupDone
<1>7. IInv /\ BackupFails => Recorded'
  BY DEF BackupFails
<1>8. IInv /\ BackupFinalized => Recorded'
  BY DEF BackupFinalized, NoCR
<1>9. IInv /\ RestoreCompletes => Recorded'
  BY DEF RestoreCompletes
<1>10. IInv /\ RestoreFails => Recorded'
  BY DEF RestoreFails
<1>11. IInv /\ RestoreFinalized => Recorded'
  BY DEF RestoreFinalized, NoCR
<1> QED BY <1>1, <1>2, <1>3, <1>4, <1>5, <1>6, <1>7, <1>8, <1>9, <1>10, <1>11 DEF Stream

(* A destroyed snapshot stays destroyed once its deletion is on record.    *)
LEMMA AgentsRecorded == IInv /\ Agents => Recorded'
<1> USE DEF IInv, TypeOK, ZFSEvacuationStatus, PVType, ZVType, CancelablePhase, Terminal, Policy,
      Safe, CommitMarksPhase, SourceRecorded, FinalizerHolds, NewPVCommitted, CopyKept,
      Recorded, NothingTaken, AttemptRecorded, AbortHeld, RelayOwned, PolicyBack,
      SnapshotOwned, NothingLeft, TransferCRsGone, ctlVars, k8sVars, srcVars, xferVars, tgtVars
<1>1. IInv /\ TargetAdopts => Recorded'
  BY DEF TargetAdopts
<1>2. IInv /\ TargetAdoptFails => Recorded'
  BY DEF TargetAdoptFails
<1>3. IInv /\ TargetDestroys => Recorded'
  BY DEF TargetDestroys
<1>4. IInv /\ SourceDestroys => Recorded'
  BY DEF SourceDestroys, GoneZV
<1>5. IInv /\ SnapshotRegistered => Recorded'
  BY DEF SnapshotRegistered
<1>6. IInv /\ SnapshotDestroyed => Recorded'
  BY DEF SnapshotDestroyed
<1> QED BY <1>1, <1>2, <1>3, <1>4, <1>5, <1>6 DEF Agents

(* What an abort leaves on record, and what is gone when it ends.          *)
LEMMA AbortRecords ==
  ASSUME IInv, Abort(evac, cr = "deleting")
  PROVE  /\ SameAttempt(evac', evac)
         /\ UNCHANGED <<pvc, tried, tsnap, scr, tnode>>
         /\ lock' => lock
         /\ szv'.guard => szv.guard
         /\ szv.s = "gone" => szv'.s = "gone"
         /\ tzv' # "none" \/ ~TransferCRsGone' => tzv # "none" \/ ~TransferCRsGone
         /\ TransferCRsGone => TransferCRsGone'
         /\ relay' \in {relay, NoRelay}
         /\ \/ Became(evac', evac, evac.phase) /\ evac.phase \in CancelablePhase /\ cr' = cr
            \/ Became(evac', evac, "Aborting") /\ cr' = cr
            \/ /\ Became(evac', evac, "Aborting") \/ Became(evac', evac, "Failed")
               /\ cr' = cr \/ cr' = "gone"
               /\ pv.obj = "old" /\ evac.orig # "None" => pv'.policy = evac.orig
               /\ ~lock' /\ ~szv'.guard /\ tzv' = "none" /\ TransferCRsGone' /\ relay' = NoRelay
<1> DEFINE deleted == cr = "deleting"
           busy == evac.target /\ evac.attempt > 0 /\ (tzv # "none" \/ ~NoneFor(evac))
<1>1. PICK n \in Cut(7) :
        /\ relay' = Wrote(n, 1, NoRelay, relay)
        /\ evac' = IF n = 7 /\ ~deleted /\ ~busy THEN Advance(evac, "Failed")
                   ELSE IF evac.phase = "Aborting" THEN evac
                   ELSE Wrote(n, 1, Advance(evac, "Aborting"), evac)
        /\ IF busy THEN AbortTargetVolume(n) \/ AdoptOrphan(evac, n) \/ AbortTransferCRs(evac, n)
           ELSE AbortRelease(evac, deleted, n)
  BY WaitsSame DEF Abort
<1>2. n \in 0 .. 7 /\ evac \in ZFSEvacuationStatus /\ szv \in ZVType /\ pv \in PVType
  BY DEF Cut, IInv, TypeOK
<1>3. UNCHANGED <<pvc, tried, tsnap, scr, tnode>> /\ cr # "gone"
  BY DEF Abort, AbortRelease, AbortTransferCRs, AbortTargetVolume, AdoptOrphan,
     CleanupTransferCRs, xferVars
<1>9. NoneFor(evac) <=> TransferCRsGone
  BY Named DEF IInv, Recorded
<1>4. SameAttempt(evac', evac)
  BY <1>1, <1>2, AttemptFields, PhaseNames DEF Wrote
<1>5. evac.phase = "Aborting" \/ evac.phase \in CancelablePhase
  BY DEF Abort
<1>6. relay' \in {relay, NoRelay} /\ (n >= 1 => relay' = NoRelay)
  BY <1>1, <1>2 DEF Wrote
<1>7. CASE busy
  <2>1. \/ Became(evac', evac, evac.phase) /\ evac.phase \in CancelablePhase
        \/ Became(evac', evac, "Aborting")
    BY <1>1, <1>2, <1>5, <1>7, StatusFields, PhaseNames DEF Wrote
  <2>2. lock' = lock /\ szv' = szv /\ cr' = cr
    BY <1>1, <1>7 DEF AbortTargetVolume, AdoptOrphan, AbortTransferCRs
  <2>3. tzv # "none" \/ ~TransferCRsGone
    BY <1>7, <1>9
  <2>4. TransferCRsGone => TransferCRsGone'
    BY <1>1, <1>7, <1>9 DEF AbortTargetVolume, AdoptOrphan, AbortTransferCRs, TransferCRsGone,
       xferVars
  <2> QED BY <1>3, <1>4, <1>6, <2>1, <2>2, <2>3, <2>4
<1>8. CASE ~busy
  <2> DEFINE recorded == evac.orig # "None"
             reclaim == pvc = "gone" /\ pv.obj = "none" /\ evac.orig = "Delete"
  <2>1. AbortRelease(evac, deleted, n)
    BY <1>1, <1>8
  <2>2. tzv = "none" /\ TransferCRsGone
    BY <1>2, <1>8, <1>9 DEF IInv, Recorded, AttemptRecorded, ZFSEvacuationStatus
  <2>3. tzv' = "none" /\ TransferCRsGone'
    BY <2>1, <2>2 DEF AbortRelease, TransferCRsGone, xferVars
  <2>4. (lock' => lock) /\ (n = 7 => ~lock')
    BY <1>2, <2>1 DEF AbortRelease, Wrote, IInv, Recorded, NothingTaken, TypeOK
  <2>5. /\ szv'.guard => szv.guard
        /\ n = 7 => ~szv'.guard
        /\ szv.s = "gone" => szv'.s = "gone"
    <3>1. CASE recorded
      <4>1. ReleaseSource(n, 4, reclaim)
        BY <2>1, <3>1 DEF AbortRelease
      <4>2. n \in Nat /\ reclaim \in BOOLEAN
        BY <1>2
      <4> HIDE DEF reclaim
      <4> QED BY <1>2, <4>1, <4>2, ReleaseDropsGuard
    <3>2. CASE ~recorded
      BY <2>1, <3>2 DEF AbortRelease, IInv, Recorded, NothingTaken
    <3> QED BY <3>1, <3>2
  <2>6. n = 7 /\ pv.obj = "old" /\ evac.orig # "None" => pv'.policy = evac.orig
    BY <1>2, <2>1 DEF AbortRelease, Wrote, PVType
  <2>7. cr' = cr \/ (cr' = "gone" /\ n = 7)
    BY <1>2, <2>1 DEF AbortRelease, Wrote, Released
  <2>8. CASE n = 7
    <3>1. Became(evac', evac, "Aborting") \/ Became(evac', evac, "Failed")
      <4>1. \/ evac' = Advance(evac, "Failed") \/ evac' = Advance(evac, "Aborting")
            \/ evac' = evac /\ evac.phase = "Aborting"
        BY <1>1, <2>8 DEF Wrote
      <4>2. /\ Became(Advance(evac, "Failed"), evac, "Failed")
            /\ Became(Advance(evac, "Aborting"), evac, "Aborting")
            /\ Became(evac, evac, evac.phase)
        BY <1>2, StatusFields, PhaseNames
      <4> QED BY <4>1, <4>2
    <3>2. relay' = NoRelay /\ ~lock' /\ ~szv'.guard
      BY <1>6, <2>4, <2>5, <2>8
    <3>3. cr' = cr \/ cr' = "gone"
      BY <2>7
    <3>4. pv.obj = "old" /\ evac.orig # "None" => pv'.policy = evac.orig
      BY <2>6, <2>8
    <3> QED BY <1>3, <1>4, <2>3, <2>4, <2>5, <3>1, <3>2, <3>3, <3>4
  <2>9. CASE n # 7
    <3>1. \/ Became(evac', evac, evac.phase) /\ evac.phase \in CancelablePhase
          \/ Became(evac', evac, "Aborting")
      BY <1>1, <1>2, <1>5, <2>9, StatusFields, PhaseNames DEF Wrote
    <3> QED BY <1>3, <1>4, <1>6, <2>3, <2>4, <2>5, <2>7, <2>9, <3>1
  <2> QED BY <2>8, <2>9
<1> QED BY <1>7, <1>8

(* What a step of the transfer keeps on record: the status names an        *)
(* attempt before its ZFSBackup exists, and a new attempt starts only when *)
(* the CRs of the last one are gone.                                       *)
AttemptKept ==
  /\ \/ Became(evac', evac, "Transferring")
     \/ Became(evac', evac, "Aborting") /\ relay' = NoRelay
     \/ Became(evac', evac, "Adopting") /\ relay' = NoRelay /\ evac'.attempt > 0
  /\ evac'.target = evac.target
  /\ ~evac'.snapDel \/ evac'.snapDel = evac.snapDel
  /\ evac'.attempt # evac.attempt => evac'.attempt = evac.attempt + 1 /\ TransferCRsGone
  /\ ~TransferCRsGone' => evac'.attempt > 0 /\ tried' = evac'.attempt

(* start_attempt: the status is written before the ZFSBackup is created.   *)
LEMMA StartAttemptRecords ==
  ASSUME evac \in ZFSEvacuationStatus, evac.phase = "Transferring", TransferCRsGone,
         evac.attempt + 1 \in 1 .. AttemptLimit, StartAttempt(evac, evac.attempt + 1)
  PROVE  AttemptKept
<1> DEFINE a == evac.attempt + 1
           started == [evac EXCEPT !.attempt = a, !.failed = FALSE, !.snapDel = FALSE]
<1>1. evac.attempt \in Nat /\ a \in 0 .. AttemptLimit /\ a > 0
  <2>1. evac.attempt \in 0 .. AttemptLimit
    BY StatusTypes
  <2> QED BY <2>1, Limits
<1>2. /\ evac' = evac \/ evac' = started
      /\ bkp' # bkp => evac' = started /\ tried' = a
      /\ rst' = rst
  BY DEF StartAttempt, Wrote, Cut, xferVars
<1>6. bkp' = bkp => TransferCRsGone'
  BY <1>2 DEF TransferCRsGone
<1>3. /\ started.attempt = a /\ ~started.snapDel /\ started.target = evac.target
      /\ Became(started, evac, "Transferring") /\ Became(evac, evac, "Transferring")
  BY DEF ZFSEvacuationStatus, Became
<1>4. CASE evac' = started
  <2> HIDE DEF started
  <2>1. evac'.attempt = a /\ ~evac'.snapDel /\ evac'.target = evac.target
    BY <1>3, <1>4
  <2>2. Became(evac', evac, "Transferring")
    BY <1>3, <1>4
  <2> QED BY <1>1, <1>2, <1>6, <2>1, <2>2 DEF AttemptKept
<1>5. CASE evac' # started
  <2>1. evac' = evac /\ bkp' = bkp /\ rst' = rst
    BY <1>2, <1>5
  <2>2. TransferCRsGone'
    BY <2>1 DEF TransferCRsGone
  <2> QED BY <1>3, <2>1, <2>2 DEF AttemptKept
<1> QED BY <1>4, <1>5

(* retry_or_fail: the CRs go before the next attempt, and the relay before *)
(* the abort.                                                              *)
LEMMA RetryOrFailRecords ==
  ASSUME evac \in ZFSEvacuationStatus, evac.phase = "Transferring", evac.attempt > 0,
         AttemptRecorded, RetryOrFail(evac)
  PROVE  AttemptKept
<1>1. evac.attempt \in 0 .. AttemptLimit
  BY StatusTypes
<1>5. NoneFor(evac) <=> TransferCRsGone
  BY Named
<1>2. CASE ~TransferCRsGone
  <2>1. evac' = evac \/ evac' = AttemptFailed(evac)
    BY <1>2, <1>5, WaitsSame DEF RetryOrFail, Wrote
  <2>2. Became(evac', evac, "Transferring") /\ SameAttempt(evac', evac)
    BY <2>1, StatusFields, AttemptFields
  <2>3. tried' = tried /\ tried = evac.attempt
    BY <1>2, <1>5 DEF RetryOrFail, CleanupTransferCRs, NoneFor
  <2> QED BY <2>2, <2>3 DEF AttemptKept, SameAttempt
<1>3. CASE TransferCRsGone /\ evac.attempt >= MaxAttempts
  <2>1. evac' = evac \/ evac' = Advance(AttemptFailed(evac), "Aborting")
    BY <1>3, <1>5 DEF RetryOrFail, Wrote
  <2>2. TransferCRsGone' /\ relay' = NoRelay
    BY <1>3, <1>5 DEF RetryOrFail, TransferCRsGone, xferVars
  <2>3. /\ Became(evac', evac, "Transferring") \/ Became(evac', evac, "Aborting")
        /\ SameAttempt(evac', evac)
    BY <2>1, StatusFields, AttemptFields
  <2> QED BY <2>2, <2>3 DEF AttemptKept, SameAttempt
<1>4. CASE TransferCRsGone /\ ~(evac.attempt >= MaxAttempts)
  <2>1. StartAttempt(evac, evac.attempt + 1)
    BY <1>4, <1>5 DEF RetryOrFail
  <2>2. evac.attempt + 1 \in 1 .. AttemptLimit
    BY <1>1, <1>4, Limits, MaxAttemptsAssumption
  <2> QED BY <1>4, <2>1, <2>2, StartAttemptRecords
<1> QED BY <1>2, <1>3, <1>4

(* Every step of Transferring keeps the record.                            *)
LEMMA TransferringRecords == IInv /\ TransferringStep(evac) => AttemptKept
<1> SUFFICES ASSUME IInv, NEW b \in SeenStatus(Bkp(evac)), NEW r \in SeenStatus(Rst(evac)),
                    Transferring(evac, b, r) \/ TransferWaits(evac, b, r)
             PROVE  AttemptKept
  BY DEF TransferringStep
<1>1. /\ evac \in ZFSEvacuationStatus /\ evac.attempt \in Nat /\ AttemptRecorded
      /\ ~TransferCRsGone => evac.attempt > 0 /\ tried = evac.attempt
  BY DEF IInv, TypeOK, Recorded, AttemptRecorded, ZFSEvacuationStatus
<1>2. evac.phase = "Transferring"
  BY DEF Transferring, TransferWaits, Handling
<1>5. CASE TransferWaits(evac, b, r)
  <2>1. evac' = evac /\ bkp' = bkp /\ rst' = rst /\ tried' = tried
    BY <1>5, WaitsSame DEF TransferWaits, xferVars
  <2>2. Became(evac, evac, "Transferring")
    BY <1>2 DEF Became
  <2> QED BY <1>1, <2>1, <2>2 DEF AttemptKept, TransferCRsGone
<1> SUFFICES ASSUME Transferring(evac, b, r)
             PROVE  AttemptKept
  BY <1>5
<1>3. CASE evac.attempt = 0
  <2>1. StartAttempt(evac, evac.attempt + 1) /\ evac.attempt + 1 \in 1 .. AttemptLimit
    BY <1>3, Limits DEF Transferring
  <2> QED BY <1>1, <1>2, <1>3, <2>1, StartAttemptRecords
<1>4. CASE evac.attempt # 0
  <2>1. evac.attempt > 0
    BY <1>1, <1>4
  <2>2. Became(evac, evac, "Transferring") /\ SameAttempt(evac, evac)
    BY <1>2 DEF Became, SameAttempt
  <2>3. \/ Complete(evac) \/ RetryOrFail(evac)
        \/ relay' = NoRelay /\ UNCHANGED <<evac, xferVars>>
        \/ evac.attempt = tried /\ UNCHANGED <<evac, relay, bkp, tried>>
    BY <1>4 DEF Transferring, Apply
  <2>4. CASE Complete(evac)
    <3>1. evac' = evac \/ evac' = Advance(evac, "Adopting")
      BY <2>4 DEF Complete, Wrote
    <3>2. /\ Became(evac', evac, "Transferring") \/ Became(evac', evac, "Adopting")
          /\ SameAttempt(evac', evac)
      BY <1>1, <1>2, <3>1, StatusFields, AttemptFields, PhaseNames
    <3>3. relay' = NoRelay /\ bkp' = bkp /\ rst' = rst /\ tried' = tried
      BY <2>4 DEF Complete, xferVars
    <3> QED BY <1>1, <2>1, <3>2, <3>3 DEF AttemptKept, SameAttempt, TransferCRsGone
  <2>5. CASE RetryOrFail(evac)
    BY <1>1, <1>2, <2>1, <2>5, RetryOrFailRecords
  <2>6. CASE UNCHANGED <<evac, xferVars>> \/ (evac.attempt = tried /\ UNCHANGED <<evac, tried>>)
    <3>1. Became(evac', evac, "Transferring") /\ SameAttempt(evac', evac)
      BY <2>2, <2>6
    <3>2. ~TransferCRsGone' => tried' = evac'.attempt
      BY <1>1, <2>6 DEF TransferCRsGone, xferVars
    <3> QED BY <2>1, <2>6, <3>1, <3>2 DEF AttemptKept, SameAttempt
  <2> QED BY <2>3, <2>4, <2>5, <2>6
<1> QED BY <1>3, <1>4

(* Cleaning up: transfer CRs, then the snapshot, then the source, then     *)
(* done, each recorded or visible before the next.                         *)
LEMMA CleaningUpRecords == IInv /\ CleaningUp(evac) => Recorded'
<1> USE DEF IInv, TypeOK, ZFSEvacuationStatus, PVType, ZVType, CancelablePhase, Terminal, Policy,
      Safe, CommitMarksPhase, SourceRecorded, FinalizerHolds, NewPVCommitted, CopyKept,
      Recorded, NothingTaken, AttemptRecorded, AbortHeld, RelayOwned, PolicyBack,
      SnapshotOwned, NothingLeft, TransferCRsGone, ctlVars, k8sVars, srcVars, xferVars, tgtVars
<1>1. CleaningUp(evac) => /\ evac.phase = "CleaningUp"
                          /\ UNCHANGED <<relay, pv, pvc, tzv, tdata, tsnap, tnode>>
  BY DEF CleaningUp
<1>2. /\ \A c \in BkpType, n \in BOOLEAN : c.s = "none" => Cleaned(c, n) = c
      /\ \A c \in RstType, n \in BOOLEAN : c.s = "none" => Cleaned(c, n) = c
  BY DEF Cleaned
<1>7. IInv => (NoneFor(evac) <=> TransferCRsGone)
  BY Named
<1>3. IInv /\ CleaningUp(evac) /\ ~NoneFor(evac) => Recorded'
  <2>1. CleaningUp(evac) /\ ~NoneFor(evac) =>
          tried = evac.attempt /\ UNCHANGED <<evac, cr, wanted, lock, szv, scr, tried>>
    BY WaitsSame DEF CleaningUp, CleanupTransferCRs, Wrote, NoneFor
  <2> QED BY <1>1, <1>7, <2>1
<1>4. IInv /\ CleaningUp(evac) /\ NoneFor(evac) /\ ~SnapshotGone(evac) => Recorded'
  <2>1. CleaningUp(evac) /\ NoneFor(evac) /\ ~SnapshotGone(evac) =>
          DestroyTargetSnapshot(evac) /\ UNCHANGED <<cr, wanted, lock, szv, xferVars>>
    BY DEF CleaningUp
  <2>2. DestroyTargetSnapshot(evac) =>
          \/ evac.snapDel /\ evac' = evac /\ (scr' = scr \/ (scr' = "none" /\ ~tnode))
          \/ ~evac.snapDel /\ evac' = evac /\ scr' \in {scr, "Pending", "Deleting", "none"}
          \/ /\ evac' = [evac EXCEPT !.snapDel = TRUE]
             /\ scr' = "Deleting" \/ (scr' = "none" /\ ~tnode)
    BY WaitsSame DEF DestroyTargetSnapshot, Wrote, Cut
  <2> QED BY <1>1, <1>7, <2>1, <2>2
<1>5. IInv /\ CleaningUp(evac) /\ NoneFor(evac) /\ SnapshotGone(evac) /\ szv.s # "gone" => Recorded'
  <2>1. CleaningUp(evac) /\ NoneFor(evac) /\ SnapshotGone(evac) /\ szv.s # "gone" =>
          UNCHANGED <<evac, cr, wanted, lock, xferVars, scr>>
    BY WaitsSame DEF CleaningUp, Wrote
  <2> QED BY <1>1, <1>7, <2>1
<1>6. IInv /\ CleaningUp(evac) /\ NoneFor(evac) /\ SnapshotGone(evac) /\ szv.s = "gone" => Recorded'
  <2>1. CleaningUp(evac) /\ NoneFor(evac) /\ SnapshotGone(evac) /\ szv.s = "gone" =>
          FinishCleanup(evac) /\ UNCHANGED <<szv, xferVars, scr>>
    BY DEF CleaningUp
  <2>2. FinishCleanup(evac) =>
          \/ evac' = evac /\ cr' = cr
          \/ evac' = Advance(evac, "Completed") /\ ~lock'
    BY DEF FinishCleanup, Wrote, Cut
  <2> QED BY <1>1, <1>7, <2>1, <2>2 DEF SnapshotGone, Advance
<1> QED BY <1>3, <1>4, <1>5, <1>6

(* Every step of the controller keeps the record: what a handler creates   *)
(* it recorded before, and what it forgets is gone.                        *)
LEMMA ReconcileRecorded == IInv /\ (Reconcile \/ Crash) => Recorded'
<1> USE DEF IInv, TypeOK, ZFSEvacuationStatus, PVType, ZVType, CancelablePhase, Terminal, Policy,
      Safe, CommitMarksPhase, SourceRecorded, FinalizerHolds, NewPVCommitted, CopyKept,
      Recorded, NothingTaken, AttemptRecorded, AbortHeld, RelayOwned, PolicyBack,
      SnapshotOwned, NothingLeft, TransferCRsGone, ctlVars, k8sVars, srcVars, xferVars, tgtVars
<1>1. IInv /\ Begin => Recorded'
  <2>1. Begin => /\ evac.phase \in CancelablePhase /\ cr \in {"bare", "live"}
                 /\ \/ evac' = evac /\ cr' \in {cr, "live"}
                    \/ /\ evac' = [evac EXCEPT !.phase = "Aborting", !.cancelled = TRUE]
                       /\ cr' = "live"
                 /\ UNCHANGED <<relay, k8sVars, srcVars, xferVars, tgtVars>>
    BY DEF Begin, Wrote, Cut
  <2>2. evac \in ZFSEvacuationStatus =>
          /\ Became([evac EXCEPT !.phase = "Aborting", !.cancelled = TRUE], evac, "Aborting")
          /\ SameAttempt([evac EXCEPT !.phase = "Aborting", !.cancelled = TRUE], evac)
          /\ Became(evac, evac, evac.phase) /\ SameAttempt(evac, evac)
    BY StatusFields, AttemptFields
  <2>3. evac \in ZFSEvacuationStatus /\ Begin =>
          /\ SameAttempt(evac', evac)
          /\ \/ Became(evac', evac, evac.phase) /\ cr' \in {cr, "live"}
             \/ Became(evac', evac, "Aborting") /\ cr' = "live"
    BY <2>1, <2>2
  <2> QED BY <2>1, <2>3 DEF Became, SameAttempt
<1>2. IInv /\ GiveUp(evac) => Recorded'
  BY WaitsSame DEF GiveUp
<1>3. IInv /\ Pending(evac) => Recorded'
  <2>1. evac \in ZFSEvacuationStatus /\ pv \in PVType /\ Pending(evac) =>
          /\ SameAttempt(evac', evac) /\ evac'.committed = evac.committed
          /\ \/ evac'.phase = "Failed" /\ evac'.orig = evac.orig
             \/ evac'.phase = "Guarding" /\ evac'.orig # "None"
    BY DEF Pending, Advance, SameAttempt
  <2>2. Pending(evac) => evac.phase = "Pending" /\ UNCHANGED <<cr, relay, k8sVars, srcVars, xferVars, tgtVars>>
    BY DEF Pending, Handling
  <2>3. IInv /\ Pending(evac) => NothingTaken'
    BY <2>1, <2>2 DEF SameAttempt
  <2>4. IInv /\ Pending(evac) => AttemptRecorded'
    BY <2>1, <2>2 DEF SameAttempt
  <2>5. IInv /\ Pending(evac) => AbortHeld'
    BY <2>1, <2>2 DEF SameAttempt
  <2>6. IInv /\ Pending(evac) => RelayOwned'
    BY <2>1, <2>2 DEF SameAttempt
  <2>8. IInv /\ Pending(evac) => PolicyBack'
    BY <2>1, <2>2 DEF SameAttempt
  <2>9. IInv /\ Pending(evac) => SnapshotOwned'
    BY <2>1, <2>2 DEF SameAttempt
  <2>10. IInv /\ Pending(evac) => NothingLeft'
    BY <2>1, <2>2 DEF SameAttempt
  <2> QED BY <2>3, <2>4, <2>5, <2>6, <2>8, <2>9, <2>10
<1>4. IInv /\ Guarding(evac) => Recorded'
  <2>1. szv \in ZVType => Guarded(szv).s = szv.s
    BY DEF Guarded
  <2>2. Guarding(evac) => /\ evac' \in {evac, Advance(evac, "Retaining")}
                          /\ szv' \in {szv, Guarded(szv)}
    BY DEF Guarding, Wrote
  <2> QED BY <2>1, <2>2 DEF Guarding, Handling, Advance
<1>5. IInv /\ Retaining(evac) => Recorded'
  BY DEF Retaining, Handling, Wrote, Advance
<1>6. IInv /\ Locking(evac) => Recorded'
  BY DEF Locking, Handling, Wrote, Advance
<1>7. IInv /\ Quiescing(evac) => Recorded'
  BY DEF Quiescing, Handling, Advance
<1>8. IInv /\ TargetSelecting(evac) => Recorded'
  <2>1. evac \in ZFSEvacuationStatus /\ TargetSelecting(evac) =>
          /\ evac'.committed = evac.committed /\ evac'.orig = evac.orig
          /\ evac'.attempt = evac.attempt /\ evac'.snapDel = evac.snapDel
          /\ \/ evac'.phase = "Failed" /\ evac'.target = evac.target /\ pv.obj = "none"
             \/ evac'.phase = "Transferring" /\ evac'.target = TRUE
    BY DEF TargetSelecting, Advance
  <2>2. TargetSelecting(evac) => /\ evac.phase = "TargetSelecting"
                                 /\ UNCHANGED <<cr, relay, k8sVars, srcVars, xferVars, tgtVars>>
    BY DEF TargetSelecting, Handling
  <2> QED BY <2>1, <2>2
<1>9. IInv /\ TransferringStep(evac) => Recorded'
  <2>1. TransferringStep(evac) => /\ evac.phase = "Transferring"
                            /\ UNCHANGED <<cr, k8sVars, srcVars, tgtVars>>
    BY DEF TransferringStep, Transferring, TransferWaits, Handling
  <2>2. IInv /\ TransferringStep(evac) => NothingTaken'
    BY <2>1, TransferringRecords DEF AttemptKept, Became
  <2>3. IInv /\ TransferringStep(evac) => AttemptRecorded'
    BY <2>1, TransferringRecords DEF AttemptKept, Became
  <2>4. IInv /\ TransferringStep(evac) => AbortHeld'
    BY <2>1, TransferringRecords DEF AttemptKept, Became
  <2>5. IInv /\ TransferringStep(evac) => RelayOwned'
    BY <2>1, TransferringRecords DEF AttemptKept, Became
  <2>7. IInv /\ TransferringStep(evac) => PolicyBack'
    BY <2>1, TransferringRecords DEF AttemptKept, Became
  <2>8. IInv /\ TransferringStep(evac) => SnapshotOwned'
    BY <2>1, TransferringRecords DEF AttemptKept, Became
  <2>9. IInv /\ TransferringStep(evac) => NothingLeft'
    BY <2>1, TransferringRecords DEF AttemptKept, Became
  <2> QED BY <2>2, <2>3, <2>4, <2>5, <2>7, <2>8, <2>9
<1>10. IInv /\ Adopting(evac) => Recorded'
  BY DEF Adopting, Handling, Advance
<1>11. IInv /\ Committing(evac) => Recorded'
  <2>1. evac \in ZFSEvacuationStatus /\ Committing(evac) =>
          /\ evac'.orig = evac.orig /\ SameAttempt(evac', evac)
          /\ \/ evac'.phase = "Failed" /\ pv.obj # "old" /\ evac'.committed = evac.committed
             \/ evac'.phase = "Aborting" /\ evac'.committed = evac.committed
             \/ evac'.phase = "Swapping"
    BY DEF Committing, Advance, SameAttempt
  <2>2. Committing(evac) => /\ evac.phase = "Committing" /\ armed
                            /\ UNCHANGED <<cr, relay, k8sVars, srcVars, xferVars, tgtVars>>
    BY DEF Committing, Handling
  <2> QED BY <2>1, <2>2 DEF SameAttempt
<1>12. IInv /\ Swapping(evac) => Recorded'
  <2>1. IInv /\ Swapping(evac) /\ DeleteOldPV => Recorded'
    BY DEF Swapping, DeleteOldPV, Wrote, NoPV
  <2>2. IInv /\ Swapping(evac) /\ CreateNewPV => Recorded'
    BY DEF Swapping, CreateNewPV, NewPV
  <2>3. IInv /\ Swapping(evac) /\ VerifyRebind(evac) => Recorded'
    BY DEF Swapping, VerifyRebind, Wrote, Cut, Advance
  <2>4. IInv /\ Swapping(evac) /\ HoldDelete(evac) => Recorded'
    BY WaitsSame DEF Swapping, HoldDelete
  <2> QED BY <2>1, <2>2, <2>3, <2>4 DEF Swapping
<1>13. IInv /\ CleaningUp(evac) => Recorded'
  BY CleaningUpRecords
<1>14. IInv /\ ReleaseTerminal => Recorded'
  BY DEF ReleaseTerminal, Released
<1>15. IInv /\ Abort(evac, cr = "deleting") => Recorded'
  <2>1. IInv /\ Abort(evac, cr = "deleting") =>
          /\ cr # "gone" /\ pv'.obj = pv.obj
          /\ \/ evac.phase = "Aborting"
             \/ evac.phase \in CancelablePhase /\ cr = "deleting"
    BY AbortEffect DEF Abort
  <2>2. IInv /\ Abort(evac, cr = "deleting") => NothingTaken'
    BY <2>1, AbortRecords DEF Became, SameAttempt
  <2>3. IInv /\ Abort(evac, cr = "deleting") => AttemptRecorded'
    BY <2>1, AbortRecords DEF Became, SameAttempt
  <2>4. IInv /\ Abort(evac, cr = "deleting") => AbortHeld'
    BY <2>1, AbortRecords DEF Became, SameAttempt
  <2>5. IInv /\ Abort(evac, cr = "deleting") => RelayOwned'
    BY <2>1, AbortRecords DEF Became, SameAttempt
  <2>7. IInv /\ Abort(evac, cr = "deleting") => PolicyBack'
    BY <2>1, AbortRecords DEF Became, SameAttempt
  <2>8. IInv /\ Abort(evac, cr = "deleting") => SnapshotOwned'
    BY <2>1, AbortRecords DEF Became, SameAttempt
  <2>9. IInv /\ Abort(evac, cr = "deleting") => NothingLeft'
    BY <2>1, AbortRecords DEF Became, SameAttempt
  <2> QED BY <2>2, <2>3, <2>4, <2>5, <2>7, <2>8, <2>9
<1>16. IInv /\ Crash => Recorded'
  BY DEF Crash
<1> QED
  BY <1>1, <1>2, <1>3, <1>4, <1>5, <1>6, <1>7, <1>8, <1>9, <1>10, <1>11, <1>12, <1>13, <1>14,
     <1>15, <1>16 DEF Reconcile, TransferringStep

-----------------------------------------------------------------------------
(* Theorems                                                                *)

(* The initial states satisfy the inductive invariant.                     *)
LEMMA InitInv == Init => IInv
<1> SUFFICES ASSUME Init PROVE IInv
  OBVIOUS
<1>1. evac \in ZFSEvacuationStatus
  BY Limits DEF Init, ZFSEvacuationStatus, Phase, CancelablePhase
<1>2. CtlTyped
  BY <1>1, NoRelayTyped DEF Init, CtlTyped
<1>3. K8sTyped
  BY DEF Init, K8sTyped, PVType
<1>4. SrcTyped
  BY DEF Init, SrcTyped, ZVType
<1>5. XferTyped
  BY CROps, Limits DEF Init, XferTyped
<1>6. TgtTyped
  BY DEF Init, TgtTyped, TZVStates, SCRStates
<1>7. faulty \in BOOLEAN
  BY ApiErrorsAssumption DEF Init
<1>8. Safe
  BY DEF Init, Safe, CommitMarksPhase, SourceRecorded, FinalizerHolds, ClaimKeepsPV,
     NewPVCommitted, SourceKept, CopyKept, GuardSet, CancelablePhase, Terminal, NoCR
<1>9. Recorded
  BY DEF Init, Recorded, NothingTaken, AttemptRecorded, AbortHeld, RelayOwned,
     PolicyBack, SnapshotOwned, NothingLeft, TransferCRsGone, NoCR
<1> QED BY <1>2, <1>3, <1>4, <1>5, <1>6, <1>7, <1>8, <1>9, TypeParts DEF IInv

(* Safe and Recorded do not look at `faulty`.                              *)
LEMMA NothingChanges ==
  IInv /\ UNCHANGED <<ctlVars, k8sVars, srcVars, xferVars, tgtVars>> => Safe' /\ Recorded'
<1> USE DEF IInv, Safe, Recorded, ctlVars, k8sVars, srcVars, xferVars, tgtVars
<1> DEFINE Same == UNCHANGED <<ctlVars, k8sVars, srcVars, xferVars, tgtVars>>
<1>1. IInv /\ Same => CommitMarksPhase' /\ SourceRecorded' /\ FinalizerHolds'
  BY DEF CommitMarksPhase, SourceRecorded, FinalizerHolds
<1>2. IInv /\ Same => ClaimKeepsPV' /\ NewPVCommitted' /\ SourceKept'
  BY DEF ClaimKeepsPV, NewPVCommitted, SourceKept
<1>3. IInv /\ Same => CopyKept' /\ GuardSet'
  BY DEF CopyKept, GuardSet
<1>4. IInv /\ Same => NothingTaken' /\ AttemptRecorded' /\ AbortHeld' /\ RelayOwned'
  BY DEF NothingTaken, AttemptRecorded, AbortHeld, RelayOwned, TransferCRsGone
<1>5. IInv /\ Same => PolicyBack'
  BY DEF PolicyBack
<1>6. IInv /\ Same => SnapshotOwned' /\ NothingLeft'
  BY DEF SnapshotOwned, NothingLeft, TransferCRsGone
<1>7. IInv /\ Same => Safe'
  BY <1>1, <1>2, <1>3
<1>8. IInv /\ Same => Recorded'
  BY <1>4, <1>5, <1>6
<1> QED BY <1>7, <1>8

(* Every step preserves the inductive invariant.                           *)
LEMMA NextInv == IInv /\ [Next]_vars => IInv'
<1>1. IInv /\ SameFaults(Step) => IInv'
  <2>1. IInv /\ SameFaults(Step) => TypeOK'
    BY ReconcileType, UsersType, ClusterType, StreamType, AgentsType DEF SameFaults, Step, IInv
  <2>2. IInv /\ SameFaults(Step) => Safe'
    BY ReconcileSafe, UsersSafe, ClusterSafe, StreamSafe, AgentsSafe DEF SameFaults, Step
  <2>3. IInv /\ SameFaults(Step) => Recorded'
    BY ReconcileRecorded, UsersRecorded, ClusterRecorded, StreamRecorded, AgentsRecorded
       DEF SameFaults, Step
  <2> QED BY <2>1, <2>2, <2>3 DEF IInv
<1>2. IInv /\ FaultsEnd => IInv'
  <2>1. FaultsEnd => faulty' = FALSE /\ UNCHANGED <<ctlVars, k8sVars, srcVars, xferVars, tgtVars>>
    BY DEF FaultsEnd
  <2>2. IInv /\ FaultsEnd => TypeOK'
    BY <2>1, TypeParts, Frames DEF IInv
  <2> QED BY <2>1, <2>2, NothingChanges DEF IInv
<1>3. IInv /\ UNCHANGED vars => IInv'
  <2>1. UNCHANGED vars => UNCHANGED <<ctlVars, k8sVars, srcVars, xferVars, tgtVars>> /\ UNCHANGED faulty
    BY DEF vars
  <2>2. IInv /\ UNCHANGED vars => TypeOK'
    BY <2>1, TypeParts, Frames DEF IInv
  <2> QED BY <2>1, <2>2, NothingChanges DEF IInv
<1> QED BY <1>1, <1>2, <1>3 DEF Next

(* IInv holds in every reachable state, whatever users, nodes, agents and  *)
(* API errors do between the writes of the handlers.                       *)
THEOREM Invariance == Spec => []IInv
<1>1. Init => IInv
  BY InitInv
<1>2. IInv /\ [Next]_vars => IInv'
  BY NextInv
<1> QED BY <1>1, <1>2, PTL DEF Spec

(* Every status the handlers write is well-formed; in particular attempts  *)
(* never exceed spec.max_attempts, although a retry increments the stored  *)
(* counter before the bound is looked at again (retry_or_fail).            *)
THEOREM TypeCorrect == Spec => []TypeOK
<1>1. IInv => TypeOK
  BY DEF IInv
<1> QED BY <1>1, Invariance, PTL

(* The claim's PV always has its data behind it (pv_swap.rs, abort.rs).    *)
THEOREM PVBackedAlways == Spec => []PVBacked
<1>1. IInv => PVBacked
  BY DEF IInv, TypeOK, ZFSEvacuationStatus, PVType, Safe, PVBacked, OldPVBacked, NewPVBacked,
     SwapRecoverable, CommitMarksPhase, FinalizerHolds, ClaimKeepsPV, NewPVCommitted,
     SourceKept, CopyKept, Terminal
<1> QED BY <1>1, Invariance, PTL

(* A committed evacuation is never rolled back and its CR cannot vanish    *)
(* before it is Completed: abort.rs is reachable only before the commit    *)
(* record, and the finalizer is there since before it (state_machine.rs).  *)
THEOREM RollForward == Spec => RollForwardOnly
<1> DEFINE Forward == evac.committed => /\ evac'.committed
                                        /\ evac'.phase \in {"Swapping", "CleaningUp", "Completed"}
                                        /\ cr' = "gone" => evac'.phase = "Completed"
<1>1. IInv /\ evac.committed =>
        /\ evac.phase \in {"Swapping", "CleaningUp", "Completed"} /\ ~armed
        /\ evac.phase # "Completed" => cr \in {"live", "deleting"}
  BY DEF IInv, TypeOK, Safe, CommitMarksPhase, FinalizerHolds, CancelablePhase, Terminal
<1>2. IInv /\ evac.committed /\ Swapping(evac) =>
        cr' = cr /\ (evac' = evac \/ evac' = Advance(evac, "CleaningUp"))
  BY WaitsSame DEF Swapping, DeleteOldPV, HoldDelete, CreateNewPV, VerifyRebind, Wrote
<1>3. evac \in ZFSEvacuationStatus => /\ Advance(evac, "CleaningUp").committed = evac.committed
                                      /\ Advance(evac, "CleaningUp").phase = "CleaningUp"
  BY StatusFields, PhaseNames DEF Became
<1>4. IInv /\ Swapping(evac) => Forward
  BY <1>1, <1>2, <1>3 DEF IInv, TypeOK, Swapping
<1>5. IInv /\ CleaningUp(evac) => Forward
  BY <1>1, CleaningUpEffect DEF IInv, TypeOK, CleaningUp, Became
<1>6. IInv /\ ReleaseTerminal => Forward
  BY <1>1 DEF ReleaseTerminal, Terminal
<1>7. IInv /\ Crash => Forward
  BY <1>1 DEF Crash
<1>8. IInv /\ evac.committed /\ Reconcile => Swapping(evac) \/ CleaningUp(evac) \/ ReleaseTerminal
  BY <1>1 DEF Reconcile, Begin, GiveUp, Pending, Guarding, Retaining, Locking, Quiescing,
     TargetSelecting, Transferring, TransferWaits, Adopting, Committing, Abort, Handling,
     CancelablePhase
<1>9. IInv /\ Users => Forward
  BY <1>1 DEF Users, UserDeletesPVC, UserRecreatesPVC, UserTogglesTrigger, UserDeletesEvacuation,
     AdminDeletesPV, OperatorReplacesPV, ctlVars
<1>10. IInv /\ (Cluster \/ Stream \/ Agents \/ FaultsEnd) => Forward
  <2>1. Cluster \/ Stream \/ Agents \/ FaultsEnd => UNCHANGED <<evac, cr>>
    BY DEF Cluster, PVFinalized, PVControllerBinds, ProvisionerReclaims, SourceNodeLeaves,
       TargetNodeLeaves, Stream, SourceConnects, SourceSends, TargetReceives, DatasetLands,
       RelayBreaks, BackupDone, BackupFails, BackupFinalized, RestoreCompletes, RestoreFails,
       RestoreFinalized, Agents, TargetAdopts, TargetAdoptFails, TargetDestroys, SourceDestroys,
       SnapshotRegistered, SnapshotDestroyed, FaultsEnd, ctlVars
  <2> QED BY <1>1, <2>1
<1>11. IInv /\ [Next]_vars => [Forward]_vars
  BY <1>4, <1>5, <1>6, <1>7, <1>8, <1>9, <1>10 DEF Next, SameFaults, Step
<1> QED BY <1>11, Invariance, PTL DEF Spec, RollForwardOnly

(* The guard finalizer keeps the source dataset from Retaining to the end  *)
(* of the swap: nobody else removes it, and the agent honours it.          *)
THEOREM GuardProtects == Spec => GuardHolds
<1> DEFINE Kept == sdata /\ ~sdata' =>
       evac.phase \notin {"Retaining", "Locking", "Quiescing", "TargetSelecting", "Transferring",
                          "Adopting", "Committing", "Swapping"}
<1>1. Next => UNCHANGED sdata \/ SourceDestroys
  <2>1. Reconcile => UNCHANGED sdata
    BY DEF Reconcile, Begin, GiveUp, Pending, Guarding, Retaining, Locking, Quiescing,
       TargetSelecting, Transferring, TransferWaits, Adopting, Committing, Swapping, CleaningUp,
       ReleaseTerminal, Abort, srcVars
  <2>2. Crash \/ Users \/ Cluster \/ Stream \/ FaultsEnd => UNCHANGED sdata
    BY DEF Crash, Users, UserDeletesPVC, UserRecreatesPVC, UserTogglesTrigger,
       UserDeletesEvacuation, AdminDeletesPV, OperatorReplacesPV, Cluster, PVFinalized,
       PVControllerBinds, ProvisionerReclaims, SourceNodeLeaves, TargetNodeLeaves, Stream,
       SourceConnects, SourceSends, TargetReceives, DatasetLands, RelayBreaks, BackupDone,
       BackupFails, BackupFinalized, RestoreCompletes, RestoreFails, RestoreFinalized,
       FaultsEnd, srcVars
  <2>3. Agents => UNCHANGED sdata \/ SourceDestroys
    BY DEF Agents, TargetAdopts, TargetAdoptFails, TargetDestroys, SnapshotRegistered,
       SnapshotDestroyed, srcVars
  <2> QED BY <2>1, <2>2, <2>3 DEF Next, SameFaults, Step
<1>2. IInv /\ SourceDestroys => Kept
  BY DEF IInv, Safe, GuardSet, SourceDestroys
<1>3. IInv /\ [Next]_vars => [Kept]_vars
  BY <1>1, <1>2
<1> QED BY <1>3, Invariance, PTL DEF Spec, GuardHolds

(* An abort that ends, at any phase and after any prefix of any handler's  *)
(* writes, and also when the claim or the PV is gone, has undone all of it *)
(* (abort.rs); so has every CR that disappears unfinished.                 *)
THEOREM AbortUndoes == Spec => AbortUnwinds
<1> DEFINE Ends == \/ evac.phase = "Aborting" /\ evac'.phase = "Failed"
                   \/ cr # "gone" /\ cr' = "gone" /\ evac'.phase \notin Terminal
<1>1. IInv /\ Abort(evac, cr = "deleting") /\ Ends => Unwound'
  <2>1. IInv /\ Abort(evac, cr = "deleting") => pv'.obj = pv.obj
    BY AbortEffect DEF IInv, TypeOK, PVType
  <2>2. IInv /\ Abort(evac, cr = "deleting") /\ Ends =>
          /\ evac'.orig = evac.orig
          /\ pv.obj = "old" /\ evac.orig # "None" => pv'.policy = evac.orig
          /\ ~lock' /\ ~szv'.guard /\ tzv' = "none" /\ TransferCRsGone' /\ relay' = NoRelay
    BY AbortRecords DEF Became, CancelablePhase
  <2> QED BY <2>1, <2>2 DEF Unwound
<1>2. IInv /\ (Reconcile \/ Crash) => Abort(evac, cr = "deleting") \/ ~Ends
  <2>1. IInv /\ CleaningUp(evac) => ~Ends
    BY CleaningUpEffect DEF IInv, TypeOK, CleaningUp, Became, Terminal
  <2>2. IInv /\ ReleaseTerminal => ~Ends
    BY DEF ReleaseTerminal, Terminal
  <2>3. IInv /\ Begin => ~Ends
    BY BeginEffect DEF IInv, TypeOK, CancelablePhase, Became
  <2>4. IInv /\ Swapping(evac) => ~Ends
    BY DEF Swapping
  <2>5. Crash => ~Ends
    BY DEF Crash
  <2>6. IInv /\ armed => evac.phase # "Aborting"
    BY DEF IInv, Safe, FinalizerHolds, CancelablePhase
  <2>7. IInv /\ (\/ GiveUp(evac) \/ Pending(evac) \/ Guarding(evac) \/ Retaining(evac)
                \/ Locking(evac) \/ Quiescing(evac) \/ TargetSelecting(evac)
                \/ TransferringStep(evac) \/ Adopting(evac) \/ Committing(evac))
          => ~Ends
    BY <2>6 DEF GiveUp, Pending, Guarding, Retaining, Locking, Quiescing, TargetSelecting,
       TransferringStep, Transferring, TransferWaits, Adopting, Committing, Handling
  <2> QED BY <2>1, <2>2, <2>3, <2>4, <2>5, <2>7 DEF Reconcile, TransferringStep
<1>3. IInv /\ UserDeletesEvacuation /\ Ends => Unwound'
  <2>1. IInv /\ UserDeletesEvacuation /\ Ends => evac.phase = "Pending"
    BY DEF IInv, Safe, FinalizerHolds, Recorded, AbortHeld, UserDeletesEvacuation, Terminal
  <2>2. IInv /\ evac.phase = "Pending" => Unwound /\ evac.orig = "None"
    BY DEF IInv, TypeOK, ZFSEvacuationStatus, Recorded, NothingTaken, AttemptRecorded,
       RelayOwned, Unwound
  <2>3. UserDeletesEvacuation /\ Unwound => Unwound'
    BY DEF UserDeletesEvacuation, Unwound, TransferCRsGone, k8sVars, srcVars, xferVars, tgtVars
  <2> QED BY <2>1, <2>2, <2>3
<1>4. Users /\ ~UserDeletesEvacuation => UNCHANGED <<evac, cr>>
  BY DEF Users, UserDeletesPVC, UserRecreatesPVC, UserTogglesTrigger, AdminDeletesPV,
     OperatorReplacesPV, ctlVars
<1>5. Cluster \/ Stream \/ Agents \/ FaultsEnd => UNCHANGED <<evac, cr>>
  BY DEF Cluster, PVFinalized, PVControllerBinds, ProvisionerReclaims, SourceNodeLeaves,
     TargetNodeLeaves, Stream, SourceConnects, SourceSends, TargetReceives, DatasetLands,
     RelayBreaks, BackupDone, BackupFails, BackupFinalized, RestoreCompletes, RestoreFails,
     RestoreFinalized, Agents, TargetAdopts, TargetAdoptFails, TargetDestroys, SourceDestroys,
     SnapshotRegistered, SnapshotDestroyed, FaultsEnd, ctlVars
<1>6. UNCHANGED <<evac, cr>> => ~Ends
  OBVIOUS
<1>7. IInv /\ [Next]_vars => [Ends => Unwound']_vars
  BY <1>1, <1>2, <1>3, <1>4, <1>5, <1>6 DEF Next, SameFaults, Step
<1> QED BY <1>7, Invariance, PTL DEF Spec, AbortUnwinds

(* A Completed evacuation leaves nothing behind (cleaning_up).             *)
THEOREM CompletionSettles == Spec => []CompletedSettles
<1>1. IInv => CompletedSettles
  BY DEF IInv, Recorded, RelayOwned, PolicyBack, SnapshotOwned, NothingLeft, CompletedSettles
<1> QED BY <1>1, Invariance, PTL

(* The source ZFSVolume of a live claim goes last: the only step that      *)
(* deletes it is CleaningUp, after the transfer CRs and the snapshot are   *)
(* gone, and by then the claim is bound to the replacement PV.             *)
THEOREM SourceGoesLast == Spec => SourceDeletedLast
<1> DEFINE Last == szv.s = "live" /\ szv'.s # "live" /\ pvc = "ours" =>
                     /\ pv.obj \in {"new", "foreign"} /\ pv.bound
                     /\ TransferCRsGone /\ (tnode => ~tsnap)
<1>1. Next => \/ UNCHANGED szv \/ Guarding(evac) \/ CleaningUp(evac)
              \/ Abort(evac, cr = "deleting") \/ ProvisionerReclaims \/ SourceDestroys
  <2>1. Reconcile => \/ UNCHANGED szv \/ Guarding(evac) \/ CleaningUp(evac)
                     \/ Abort(evac, cr = "deleting")
    BY DEF Reconcile, Begin, GiveUp, Pending, Retaining, Locking, Quiescing, TargetSelecting,
       Transferring, TransferWaits, Adopting, Committing, Swapping, ReleaseTerminal, srcVars
  <2>2. Crash \/ Users \/ FaultsEnd => UNCHANGED szv
    BY DEF Crash, Users, UserDeletesPVC, UserRecreatesPVC, UserTogglesTrigger,
       UserDeletesEvacuation, AdminDeletesPV, OperatorReplacesPV, FaultsEnd, srcVars
  <2>3. Stream => UNCHANGED szv
    BY DEF Stream, SourceConnects, SourceSends, TargetReceives, DatasetLands, RelayBreaks,
       BackupDone, BackupFails, BackupFinalized, RestoreCompletes, RestoreFails,
       RestoreFinalized, srcVars
  <2>4. Cluster => UNCHANGED szv \/ ProvisionerReclaims
    BY DEF Cluster, PVFinalized, PVControllerBinds, SourceNodeLeaves, TargetNodeLeaves, srcVars
  <2>5. Agents => UNCHANGED szv \/ SourceDestroys
    BY DEF Agents, TargetAdopts, TargetAdoptFails, TargetDestroys, SnapshotRegistered,
       SnapshotDestroyed, srcVars
  <2> QED BY <2>1, <2>2, <2>3, <2>4, <2>5 DEF Next, SameFaults, Step
<1>2. IInv /\ Guarding(evac) => Last
  <2>1. szv \in ZVType => Guarded(szv).s = szv.s
    BY DEF Guarded, ZVType
  <2>2. Guarding(evac) => szv' \in {szv, Guarded(szv)}
    BY DEF Guarding, Wrote
  <2> QED BY <2>1, <2>2 DEF IInv, TypeOK
<1>3. IInv /\ CleaningUp(evac) => Last
  <2>1. IInv /\ CleaningUp(evac) =>
          \/ szv' = szv
          \/ evac.phase = "CleaningUp" /\ TransferCRsGone /\ SnapshotGone(evac)
    BY Named DEF CleaningUp, IInv, Recorded
  <2>2. IInv /\ evac.phase = "CleaningUp" /\ pvc = "ours" =>
          pv.obj \in {"new", "foreign"} /\ pv.bound /\ tzv = "Ready"
    BY DEF IInv, Safe, CommitMarksPhase, ClaimKeepsPV, CopyKept
  <2>3. IInv /\ SnapshotGone(evac) /\ tzv = "Ready" => (tnode => ~tsnap)
    BY DEF IInv, Recorded, SnapshotOwned, SnapshotGone
  <2> QED BY <2>1, <2>2, <2>3
<1>4. IInv /\ Abort(evac, cr = "deleting") => Last
  BY AbortEffect DEF IInv, TypeOK
<1>5. ProvisionerReclaims \/ SourceDestroys \/ UNCHANGED szv => Last
  BY DEF ProvisionerReclaims, SourceDestroys
<1>6. IInv /\ [Next]_vars => [Last]_vars
  BY <1>1, <1>2, <1>3, <1>4, <1>5
<1> QED BY <1>6, Invariance, PTL DEF Spec, SourceDeletedLast

(* Attempts follow one another: no handler but the transfer's changes the  *)
(* attempt, a new one finds the CRs of the last gone, and the status names *)
(* an attempt before its first CR exists (start_attempt).                  *)
THEOREM AttemptsFollow == Spec => OneAttemptAtATime
<1> DEFINE One == /\ evac'.attempt # evac.attempt
                       => evac'.attempt = evac.attempt + 1 /\ TransferCRsGone
                  /\ ~TransferCRsGone' => evac'.attempt > 0
<1>1. evac \in ZFSEvacuationStatus /\ Reconcile => TransferringStep(evac) \/ evac'.attempt = evac.attempt
  <2>1. evac \in ZFSEvacuationStatus /\ (Begin \/ GiveUp(evac)) => evac'.attempt = evac.attempt
    BY AttemptFields, WaitsSame DEF Begin, GiveUp, Wrote, SameAttempt
  <2>2. evac \in ZFSEvacuationStatus =>
          \A p \in Phase : Advance(evac, p).attempt = evac.attempt
    BY AttemptFields DEF SameAttempt
  <2>3. evac \in ZFSEvacuationStatus => [evac EXCEPT !.snapDel = TRUE].attempt = evac.attempt
    BY DEF ZFSEvacuationStatus
  <2>4. evac \in ZFSEvacuationStatus /\ Pending(evac) => evac'.attempt = evac.attempt
    BY DEF Pending, Advance, ZFSEvacuationStatus
  <2>5. evac \in ZFSEvacuationStatus /\ Guarding(evac) => evac'.attempt = evac.attempt
    BY <2>2, PhaseNames DEF Guarding, Wrote
  <2>6. evac \in ZFSEvacuationStatus /\ Retaining(evac) => evac'.attempt = evac.attempt
    BY <2>2, PhaseNames DEF Retaining, Wrote
  <2>7. evac \in ZFSEvacuationStatus /\ Locking(evac) => evac'.attempt = evac.attempt
    BY <2>2, PhaseNames DEF Locking, Wrote
  <2>8. evac \in ZFSEvacuationStatus /\ Quiescing(evac) => evac'.attempt = evac.attempt
    BY <2>2, PhaseNames DEF Quiescing
  <2>9. evac \in ZFSEvacuationStatus /\ TargetSelecting(evac) => evac'.attempt = evac.attempt
    BY DEF TargetSelecting, Advance, ZFSEvacuationStatus
  <2>10. evac \in ZFSEvacuationStatus /\ Adopting(evac) => evac'.attempt = evac.attempt
    BY <2>2, PhaseNames DEF Adopting
  <2>11. evac \in ZFSEvacuationStatus /\ Committing(evac) => evac'.attempt = evac.attempt
    BY DEF Committing, Advance, ZFSEvacuationStatus
  <2>12. evac \in ZFSEvacuationStatus /\ Swapping(evac) => evac'.attempt = evac.attempt
    BY <2>2, PhaseNames, WaitsSame DEF Swapping, DeleteOldPV, HoldDelete, CreateNewPV,
       VerifyRebind, Wrote
  <2>13. evac \in ZFSEvacuationStatus /\ DestroyTargetSnapshot(evac) => evac'.attempt = evac.attempt
    BY <2>3, WaitsSame DEF DestroyTargetSnapshot, Wrote
  <2>14. evac \in ZFSEvacuationStatus /\ FinishCleanup(evac) => evac'.attempt = evac.attempt
    BY <2>2, PhaseNames DEF FinishCleanup, Wrote
  <2>15. evac \in ZFSEvacuationStatus /\ (CleaningUp(evac) \/ ReleaseTerminal) => evac'.attempt = evac.attempt
    BY <2>13, <2>14, WaitsSame DEF CleaningUp, ReleaseTerminal, Wrote
  <2>16. evac \in ZFSEvacuationStatus /\ Abort(evac, cr = "deleting") => evac'.attempt = evac.attempt
    BY <2>2, PhaseNames, WaitsSame DEF Abort, Wrote
  <2> QED BY <2>1, <2>4, <2>5, <2>6, <2>7, <2>8, <2>9, <2>10, <2>11, <2>12, <2>13, <2>14, <2>15, <2>16
    DEF Reconcile, TransferringStep
<1>2. Crash \/ Users \/ Cluster \/ Stream \/ Agents \/ FaultsEnd => evac' = evac
  BY DEF Crash, Users, UserDeletesPVC, UserRecreatesPVC, UserTogglesTrigger,
     UserDeletesEvacuation, AdminDeletesPV, OperatorReplacesPV, Cluster, PVFinalized,
     PVControllerBinds, ProvisionerReclaims, SourceNodeLeaves, TargetNodeLeaves, Stream,
     SourceConnects, SourceSends, TargetReceives, DatasetLands, RelayBreaks, BackupDone,
     BackupFails, BackupFinalized, RestoreCompletes, RestoreFails, RestoreFinalized, Agents,
     TargetAdopts, TargetAdoptFails, TargetDestroys, SourceDestroys, SnapshotRegistered,
     SnapshotDestroyed, FaultsEnd, ctlVars
<1>3. IInv /\ Next => (TransferringStep(evac) \/ evac'.attempt = evac.attempt)
  BY <1>1, <1>2 DEF IInv, TypeOK, Next, SameFaults, Step
<1>4. IInv /\ TransferringStep(evac) => One
  BY TransferringRecords DEF AttemptKept
<1>5. IInv' => (~TransferCRsGone' => evac'.attempt > 0)
  BY DEF IInv, Recorded, AttemptRecorded
<1>6. IInv /\ [Next]_vars => [One]_vars
  BY <1>3, <1>4, <1>5, NextInv
<1> QED BY <1>6, Invariance, PTL DEF Spec, OneAttemptAtATime

-----------------------------------------------------------------------------
(* Evacuation implements VolumeMove.  The refinement mapping is Home,      *)
(* sdata, Adopted and Claimed (see Move in Evacuation).  Most steps leave  *)
(* all four unchanged; Committing is Commit, the end of Swapping is        *)
(* Arrive, adoption and its undoing are Copy and Discard, SourceDestroys   *)
(* is Reclaim, and losing the claim or the PV is Release.                  *)

(* A step of VolumeMove or a stutter, and the stutter itself.              *)
MoveStep == [Move!Next]_(Move!vars)
Same == UNCHANGED <<Home, sdata, Adopted, Claimed>>

-----------------------------------------------------------------------------
(* The abstract steps, in terms of the mapping                             *)

(* A new evacuation finds the volume at home on the source.                *)
LEMMA MoveInit == Init => Move!Init
  BY DEF Init, Move!Init, Home, Adopted, Claimed

(* A step that changes nothing of the mapping is a stutter of VolumeMove.  *)
LEMMA Stutters == Same => MoveStep
  BY DEF Same, MoveStep, Move!vars

(* Losing the source copy is Reclaim once the volume has arrived or is     *)
(* released.                                                               *)
LEMMA SrcSteps ==
  UNCHANGED <<Home, Adopted, Claimed>> /\ sdata' = FALSE /\ (Home = "target" \/ ~Claimed)
    => MoveStep
  BY DEF MoveStep, Move!Next, Move!Reclaim

(* Gaining or losing the adopted copy is Copy or Discard.                  *)
LEMMA DstSteps == UNCHANGED <<Home, sdata, Claimed>> /\ (Home = "source" \/ ~Claimed) => MoveStep
<1>1. UNCHANGED <<Home, sdata, Claimed>> /\ (Home = "source" \/ ~Claimed) /\ Adopted' = TRUE
      => Move!Next
  BY DEF MoveStep, Move!Next, Move!Copy
<1>2. UNCHANGED <<Home, sdata, Claimed>> /\ (Home = "source" \/ ~Claimed) /\ Adopted' = FALSE
      => Move!Next
  BY DEF MoveStep, Move!Next, Move!Discard
<1>3. Adopted' = TRUE \/ Adopted' = FALSE
  BY DEF Adopted
<1> QED BY <1>1, <1>2, <1>3 DEF MoveStep

(* The end of the swap is Arrive.                                          *)
LEMMA ArriveSteps ==
  UNCHANGED <<sdata, Adopted, Claimed>> /\ Home = "moving" /\ Home' = "target" => MoveStep
  BY DEF MoveStep, Move!Next, Move!Arrive

(* The commit record is Commit: both copies are complete.                  *)
LEMMA CommitSteps ==
  UNCHANGED <<sdata, Adopted, Claimed>> /\ Claimed /\ sdata /\ Adopted =>
    (Home = "source" /\ Home' = "moving" => MoveStep)
  BY DEF MoveStep, Move!Next, Move!Commit

(* Losing the claim or the PV is Release.                                  *)
LEMMA ReleaseSteps == UNCHANGED <<Home, sdata, Adopted>> /\ ~Claimed' => MoveStep
<1>1. ~Claimed' => Claimed' = FALSE
  BY DEF Claimed
<1> QED BY <1>1 DEF MoveStep, Move!Next, Move!Release

(* Home follows the phase.                                                 *)
LEMMA HomeOf == IInv => /\ evac.phase = "Swapping" => Home = "moving"
                        /\ evac.phase \in {"CleaningUp", "Completed"} => Home = "target"
                        /\ evac.phase \notin {"Swapping", "CleaningUp", "Completed"}
                              => Home = "source"
  BY DEF IInv, Safe, CommitMarksPhase, Home

(* A reconcile that passed the cancel check, or aborts, is uncommitted.    *)
LEMMA Uncommitted == IInv /\ (armed \/ evac.phase \in CancelablePhase \cup {"Aborting"})
      => ~evac.committed /\ Home = "source"
  BY DEF IInv, Safe, CommitMarksPhase, FinalizerHolds, CancelablePhase, Home

(* Every reconcile and every crash is a step of VolumeMove.                *)
LEMMA MoveReconcile == IInv /\ (Reconcile \/ Crash) => MoveStep
<1> USE DEF k8sVars, srcVars, xferVars, tgtVars, Adopted, Claimed
<1>1. IInv /\ Begin => Same
  <2>1. IInv /\ Begin => Home' = Home
    BY BeginEffect, Uncommitted DEF IInv, TypeOK, Home, Became
  <2> QED BY <2>1 DEF Begin, Same
<1>2. GiveUp(evac) \/ Crash \/ ReleaseTerminal => Same
  BY WaitsSame DEF GiveUp, Crash, ReleaseTerminal, Home, Same
<1> DEFINE Prepare == \/ Pending(evac) \/ Guarding(evac) \/ Retaining(evac) \/ Locking(evac)
                      \/ Quiescing(evac) \/ TargetSelecting(evac)
<1>3. IInv /\ Prepare => Same
  <2>1. IInv /\ Prepare => Home' = Home
    BY Uncommitted DEF IInv, TypeOK, ZFSEvacuationStatus, Home, Pending, Guarding, Retaining,
       Locking, Quiescing, TargetSelecting, Handling, Advance, Wrote
  <2>2. Retaining(evac) => pv'.obj = pv.obj
    BY DEF Retaining, Wrote
  <2> QED BY <2>1, <2>2 DEF Pending, Guarding, Retaining, Locking, Quiescing, TargetSelecting,
     Same
<1>4. IInv /\ TransferringStep(evac) => Same
  <2>1. IInv /\ TransferringStep(evac) => TransferMoves(evac)
    BY TransferringEffect DEF IInv, TypeOK
  <2>2. IInv /\ TransferringStep(evac) => ~evac.committed /\ Home = "source"
    BY Uncommitted DEF TransferringStep, Transferring, TransferWaits, Handling
  <2>3. IInv /\ TransferringStep(evac) => Home' = Home
    BY <2>1, <2>2 DEF TransferMoves, Became, Home
  <2> QED BY <2>3 DEF TransferringStep, Transferring, TransferWaits, Same
<1>5. IInv /\ Adopting(evac) => Same
  <2>1. IInv /\ Adopting(evac) => Home' = Home
    BY Uncommitted DEF IInv, TypeOK, ZFSEvacuationStatus, Home, Adopting, Handling, Advance
  <2> QED BY <2>1 DEF Adopting, Same
<1>6. IInv /\ Committing(evac) => MoveStep
  <2>1. Committing(evac) => UNCHANGED <<sdata, Adopted, Claimed>>
    BY DEF Committing
  <2>2. IInv /\ Committing(evac) => Home = "source" /\ Adopted
    BY Uncommitted DEF IInv, Safe, CopyKept, Committing, Handling
  <2>3. IInv /\ Committing(evac) =>
          Home' = Home \/ (Home' = "moving" /\ Claimed /\ sdata)
    BY Uncommitted, CommittingEffect DEF IInv, TypeOK, Safe, SourceKept, Became, Home,
       Committing, Handling
  <2> QED BY <2>1, <2>2, <2>3, Stutters, CommitSteps DEF Same
<1>7. IInv /\ Swapping(evac) => MoveStep
  <2>1. Swapping(evac) => UNCHANGED <<sdata, Adopted>>
    BY DEF Swapping
  <2>2. IInv /\ Swapping(evac) => UNCHANGED Claimed
    BY DEF Swapping, DeleteOldPV, HoldDelete, CreateNewPV, VerifyRebind, Wrote, NoPV, NewPV,
       IInv, TypeOK, PVType
  <2>3. IInv /\ Swapping(evac)
        => evac' = evac \/ (Home = "moving" /\ evac' = Advance(evac, "CleaningUp"))
    BY HomeOf, WaitsSame DEF Swapping, DeleteOldPV, HoldDelete, CreateNewPV, VerifyRebind, Wrote
  <2>4. IInv /\ Swapping(evac) /\ evac' = Advance(evac, "CleaningUp") => Home' = "target"
    <3>1. IInv => Became(Advance(evac, "CleaningUp"), evac, "CleaningUp")
      BY StatusFields, PhaseNames DEF IInv, TypeOK
    <3> QED BY <3>1, HomeOf DEF Home, Became, Swapping
  <2>5. evac' = evac => Home' = Home
    BY DEF Home
  <2>6. IInv /\ Swapping(evac) => Home' = Home \/ (Home = "moving" /\ Home' = "target")
    BY <2>3, <2>4, <2>5
  <2>7. IInv /\ Swapping(evac) => UNCHANGED <<sdata, Adopted, Claimed>>
    BY <2>1, <2>2
  <2>8. IInv /\ Swapping(evac) /\ Home' = Home => MoveStep
    BY <2>7, Stutters DEF Same
  <2>9. IInv /\ Swapping(evac) /\ Home = "moving" /\ Home' = "target" => MoveStep
    BY <2>7, ArriveSteps
  <2> QED BY <2>6, <2>8, <2>9
<1>8. IInv /\ CleaningUp(evac) => Same
  <2>1. IInv /\ CleaningUp(evac) => Home' = Home
    BY CleaningUpEffect DEF IInv, TypeOK, Home, Became, CleaningUp
  <2> QED BY <2>1 DEF CleaningUp, Same
<1>9. IInv /\ Abort(evac, cr = "deleting") => MoveStep
  <2>1. IInv /\ Abort(evac, cr = "deleting") => Home' = Home /\ Home = "source"
    BY Uncommitted, AbortEffect DEF IInv, TypeOK, Home, Became, Abort
  <2>2. IInv /\ Abort(evac, cr = "deleting") => UNCHANGED <<sdata, Claimed>>
    BY AbortEffect DEF IInv, TypeOK, PVType, Abort
  <2> QED BY <2>1, <2>2, DstSteps
<1> QED BY <1>1, <1>2, <1>3, <1>4, <1>5, <1>6, <1>7, <1>8, <1>9, Stutters DEF Reconcile,
   TransferringStep, Same

(* Every step of users, cluster, stream and agents is a step of            *)
(* VolumeMove.                                                             *)
LEMMA MoveEnvironment == IInv /\ (Users \/ Cluster \/ Stream \/ Agents \/ FaultsEnd) => MoveStep
<1> USE DEF ctlVars, k8sVars, srcVars, xferVars, tgtVars
<1>0. Users \/ Cluster \/ Stream \/ Agents \/ FaultsEnd => Home' = Home
  BY DEF Users, UserDeletesPVC, UserRecreatesPVC, UserTogglesTrigger, UserDeletesEvacuation,
       AdminDeletesPV, OperatorReplacesPV, Cluster, PVFinalized, PVControllerBinds,
       ProvisionerReclaims, SourceNodeLeaves, TargetNodeLeaves, Stream, SourceConnects,
       SourceSends, TargetReceives, DatasetLands, RelayBreaks, BackupDone, BackupFails,
       BackupFinalized, RestoreCompletes, RestoreFails, RestoreFinalized,
       Agents, TargetAdopts, TargetAdoptFails, TargetDestroys, SourceDestroys,
       SnapshotRegistered, SnapshotDestroyed, FaultsEnd, Home
<1>1. IInv /\ Users => UNCHANGED <<sdata, Adopted>> /\ (UNCHANGED Claimed \/ ~Claimed')
  BY DEF IInv, TypeOK, PVType, Users, UserDeletesPVC, UserRecreatesPVC, UserTogglesTrigger,
       UserDeletesEvacuation, AdminDeletesPV, OperatorReplacesPV, Adopted, Claimed
<1>2. IInv /\ (PVFinalized \/ PVControllerBinds \/ SourceNodeLeaves \/ TargetNodeLeaves)
      => UNCHANGED <<sdata, Adopted, Claimed>>
  BY DEF IInv, TypeOK, PVType, Safe, ClaimKeepsPV, PVFinalized, PVControllerBinds,
     SourceNodeLeaves, TargetNodeLeaves, NoPV, Adopted, Claimed
<1>3. IInv /\ ProvisionerReclaims => UNCHANGED <<sdata, Claimed>> /\ ~Claimed
  BY DEF ProvisionerReclaims, Claimed
<1>4. IInv /\ (Stream \/ FaultsEnd)
      => UNCHANGED <<sdata, Claimed>> /\ (UNCHANGED Adopted \/ DatasetLands)
  BY DEF Stream, SourceConnects, SourceSends, TargetReceives,
       RelayBreaks, BackupDone, BackupFails, BackupFinalized, RestoreCompletes, RestoreFails,
       RestoreFinalized, DatasetLands, FaultsEnd, Adopted, Claimed
<1>5. IInv /\ (DatasetLands \/ TargetAdopts)
      => UNCHANGED <<sdata, Claimed>> /\ (UNCHANGED Adopted \/ Home = "source" \/ ~Claimed)
  BY DEF IInv, Safe, CopyKept, DatasetLands, TargetAdopts, Home, Adopted, Claimed
<1>6. TargetAdoptFails \/ TargetDestroys \/ SnapshotRegistered \/ SnapshotDestroyed
      => UNCHANGED <<sdata, Claimed, Adopted>>
  BY DEF TargetAdoptFails, TargetDestroys, SnapshotRegistered, SnapshotDestroyed, Adopted, Claimed
<1>7. IInv /\ SourceDestroys
      => UNCHANGED <<Adopted, Claimed>> /\ sdata' = FALSE /\ (Home = "target" \/ ~Claimed)
  BY HomeOf DEF IInv, TypeOK, PVType, ZFSEvacuationStatus, Safe, SourceKept, ClaimKeepsPV,
     NewPVCommitted, CommitMarksPhase, SourceDestroys, Home, Adopted, Claimed
<1>8. IInv /\ Users => MoveStep
  BY <1>0, <1>1, Stutters, ReleaseSteps DEF Same
<1>9. IInv /\ Cluster => MoveStep
  BY <1>0, <1>2, <1>3, Stutters, DstSteps DEF Cluster, Same
<1>10. IInv /\ (Stream \/ FaultsEnd) => MoveStep
  BY <1>0, <1>4, <1>5, Stutters, DstSteps DEF Same
<1>11. IInv /\ Agents => MoveStep
  BY <1>0, <1>5, <1>6, <1>7, Stutters, DstSteps, SrcSteps DEF Agents, Same
<1> QED BY <1>8, <1>9, <1>10, <1>11

(* The controller keeps VolumeMove's promise: state_machine.rs,            *)
(* transfer.rs, pv_swap.rs and abort.rs together move the volume or leave  *)
(* it, and never give up the copy the claim depends on, in every           *)
(* interleaving with users, agents, node removals, API errors and crashes. *)
THEOREM Implements == Spec => MovesVolume
<1>1. Init => Move!Init
  BY MoveInit
<1>2. IInv /\ [Next]_vars => MoveStep
  <2>1. UNCHANGED vars => Same
    BY DEF Same, vars, ctlVars, k8sVars, srcVars, tgtVars, Home, Adopted, Claimed
  <2> QED BY <2>1, Stutters, MoveReconcile, MoveEnvironment DEF Next, SameFaults, Step
<1> QED BY <1>1, <1>2, Invariance, PTL DEF Spec, MoveStep, MovesVolume, Move!Spec
=============================================================================
