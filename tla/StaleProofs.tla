----------------------------- MODULE StaleProofs -----------------------------
(***************************************************************************)
(* TLAPS proofs about StaleEvacuation: while no reconcile has been called  *)
(* with an old version, every step of the cached controller is a step of   *)
(* Evacuation, for every MaxLag, so that what EvacuationProofs proves of   *)
(* fresh statuses carries over.                                            *)
(***************************************************************************)
EXTENDS StaleEvacuation, EvacuationProofs, SequenceTheorems

VersionSet == [status: ZFSEvacuationStatus, deleted: BOOLEAN]
WatchOK == watch \in Seq(VersionSet) /\ watch # <<>> /\ Stored = Version(evac, cr)
FreshInv == stale \in Nat /\ (stale = 0 => WatchOK /\ (armed => view = evac) /\ IInv)

-----------------------------------------------------------------------------
(* The versions in the cache                                               *)

LEMMA VersionFields ==
  ASSUME NEW s, NEW c
  PROVE  /\ Version(s, c).status = s /\ Version(s, c).deleted = (c \in {"deleting", "gone"})
         /\ (s \in ZFSEvacuationStatus => Version(s, c) \in VersionSet)
BY DEF Version, VersionSet

(* The stored version is the last one, whatever is appended or delivered.  *)
LEMMA LastStored ==
  ASSUME NEW w \in Seq(VersionSet), w # <<>>
  PROVE  /\ Len(w) \in Nat \ {0} /\ w[Len(w)] \in VersionSet
         /\ \A x \in VersionSet : /\ Append(w, x) \in Seq(VersionSet) /\ Append(w, x) # <<>>
                                  /\ Append(w, x)[Len(Append(w, x))] = x
         /\ Len(w) > 1 => /\ Tail(w) \in Seq(VersionSet) /\ Tail(w) # <<>>
                          /\ Tail(w)[Len(Tail(w))] = w[Len(w)]
<1>1. Len(w) \in Nat \ {0} /\ w[Len(w)] \in VersionSet
  BY EmptySeq, LenProperties, ElementOfSeq
<1>2. ASSUME NEW x \in VersionSet
      PROVE  /\ Append(w, x) \in Seq(VersionSet) /\ Append(w, x) # <<>>
             /\ Append(w, x)[Len(Append(w, x))] = x
  BY AppendProperties
<1>3. ASSUME Len(w) > 1
      PROVE  /\ Tail(w) \in Seq(VersionSet) /\ Tail(w) # <<>>
             /\ Tail(w)[Len(Tail(w))] = w[Len(w)]
  <2>1. /\ Tail(w) \in Seq(VersionSet) /\ Len(Tail(w)) = Len(w) - 1
        /\ \A i \in 1 .. Len(Tail(w)) : Tail(w)[i] = w[i + 1]
    BY HeadTailProperties
  <2>2. Len(Tail(w)) \in 1 .. Len(Tail(w)) /\ Len(Tail(w)) + 1 = Len(w)
    BY <1>1, <1>3, <2>1
  <2>3. Tail(w)[Len(Tail(w))] = w[Len(w)]
    BY <2>1, <2>2
  <2>4. Tail(w) # <<>>
    <3>1. Len(Tail(w)) # 0
      BY <1>1, <1>3, <2>1
    <3>2. Len(<<>>) = 0
      OBVIOUS
    <3> QED BY <3>1, <3>2, Zenon
  <2> QED BY <2>1, <2>3, <2>4
<1> QED BY <1>1, <1>2, <1>3

-----------------------------------------------------------------------------
(* Steps                                                                   *)

(* A reconcile called with the stored version is one of Evacuation.        *)
LEMMA FreshReconcile ==
  ASSUME FreshInv, stale = 0, stale' = 0, StaleReconcile
  PROVE  /\ Reconcile /\ (armed' => view' = evac')
         /\ (cr' \in {"deleting", "gone"}) = (cr \in {"deleting", "gone"})
<1>1. WatchOK /\ (armed => view = evac) /\ IInv
  BY DEF FreshInv
<1>2. cr \in {"bare", "live", "deleting", "gone"}
  BY <1>1 DEF IInv, TypeOK
<1>3. Called => Cached = evac /\ SeenDeleted = (cr \in {"deleting", "gone"})
  BY <1>1, VersionFields DEF Called, WatchOK, Cached, SeenDeleted
<1>4. CASE StaleBegin /\ Called
  <2>1. /\ ~armed /\ cr \in {"bare", "live"} /\ evac.phase \in CancelablePhase /\ view' = evac
    BY <1>2, <1>3, <1>4 DEF StaleBegin
  <2>2. PICK n \in Cut(2) :
          /\ cr' = IF cr = "bare" THEN Wrote(n, 1, "live", cr) ELSE cr
          /\ IF CancelReason(evac)
             THEN /\ evac' = Wrote(n, 2, [evac EXCEPT !.phase = "Aborting", !.cancelled = TRUE], evac)
                  /\ armed' = FALSE
             ELSE armed' = (n = 2) /\ UNCHANGED evac
    BY <1>3, <1>4 DEF StaleBegin
  <2>3. cr' = Wrote(n, 1, "live", cr) /\ cr' \in {"bare", "live"}
    BY <2>1, <2>2 DEF Wrote
  <2>4. UNCHANGED <<relay, k8sVars, srcVars, xferVars, tgtVars>>
    BY <1>4 DEF StaleBegin
  <2>5. Begin
    BY <2>1, <2>2, <2>3, <2>4 DEF Begin
  <2>6. armed' => view' = evac'
    BY <2>1, <2>2
  <2> QED BY <2>1, <2>3, <2>5, <2>6 DEF Reconcile
<1>5. CASE Handler(view) /\ UNCHANGED <<view, stale>>
  <2>1. armed /\ ~armed' /\ cr' = cr
    BY <1>5 DEF Handler, Handling, GiveUp, Pending, Guarding, Retaining, Locking, Quiescing,
       TargetSelecting, Transferring, TransferWaits, Adopting, Committing
  <2>2. view = evac
    BY <1>1, <2>1
  <2>3. /\ Reported(Bkp(evac)) \in SeenStatus(Bkp(evac))
        /\ Reported(Rst(evac)) \in SeenStatus(Rst(evac))
    BY DEF SeenStatus
  <2>4. Handler(evac)
    BY <1>5, <2>2
  <2>5. Reconcile
    BY <2>3, <2>4 DEF Handler, Reconcile
  <2> QED BY <2>1, <2>5
<1>6. CASE Unarmed(Cached) /\ UNCHANGED view /\ Called
  <2>1. ~armed /\ ~armed'
    <3>1. Swapping(Cached) => ~armed /\ ~armed'
      BY DEF Swapping
    <3>2. CleaningUp(Cached) => ~armed /\ ~armed'
      BY DEF CleaningUp
    <3>3. Abort(Cached, SeenDeleted) => ~armed /\ ~armed'
      BY DEF Abort
    <3>4. StaleRelease => ~armed /\ ~armed'
      BY DEF StaleRelease
    <3> QED BY <1>6, <3>1, <3>2, <3>3, <3>4 DEF Unarmed
  <2>2. Unarmed(evac) /\ (cr # "gone" => SeenDeleted = (cr = "deleting"))
    <3>1. Cached = evac /\ Unarmed(Cached)
      BY <1>3, <1>6
    <3>2. Unarmed(evac)
      BY <3>1
    <3>3. SeenDeleted = (cr \in {"deleting", "gone"})
      BY <1>3, <1>6
    <3> QED BY <1>2, <3>2, <3>3
  <2>3. cr = "gone" => cr' = cr
    BY DEF StaleReconcile
  <2>4. CASE Swapping(evac)
    BY <2>1, <2>4 DEF Reconcile, Swapping
  <2>5. CASE CleaningUp(evac)
    <3>1. cr' \in {cr, Released(cr)}
      BY <2>5 DEF CleaningUp, FinishCleanup, Wrote
    <3> QED BY <1>2, <2>1, <2>3, <2>5, <3>1 DEF Reconcile, Released
  <2>6. CASE Abort(evac, SeenDeleted)
    <3>1. cr # "gone"
      BY <2>6 DEF Abort
    <3>2. Abort(evac, cr = "deleting")
      BY <2>2, <2>6, <3>1
    <3>3. cr' = cr \/ (cr = "deleting" /\ cr' = Released(cr))
      BY <3>2 DEF Abort, AbortTargetVolume, AdoptOrphan, AbortTransferCRs, AbortRelease, Wrote
    <3> QED BY <1>2, <2>1, <3>2, <3>3 DEF Reconcile, Released
  <2>7. CASE StaleRelease
    <3>1. ReleaseTerminal /\ cr = "deleting" /\ cr' = "gone"
      BY <1>3, <1>6, <2>2, <2>7 DEF StaleRelease, ReleaseTerminal, Released
    <3> QED BY <2>1, <3>1 DEF Reconcile
  <2> QED BY <2>2, <2>4, <2>5, <2>6, <2>7 DEF Unarmed
<1> QED BY <1>4, <1>5, <1>6 DEF StaleReconcile

(* What the other actors do leaves the status and the object alone.        *)
LEMMA OthersLeave ==
  Others => UNCHANGED <<evac, cr, armed, watch, view, stale>> /\ (Users \/ Cluster \/ Stream \/ Agents)
<1> USE DEF ctlVars
<1>1. UserTogglesTrigger \/ UserDeletesPVC => Users /\ UNCHANGED <<evac, cr, armed>>
  BY DEF Users, UserTogglesTrigger, UserDeletesPVC
<1>2. Cluster => UNCHANGED <<evac, cr, armed>>
  BY DEF Cluster, PVFinalized, PVControllerBinds, ProvisionerReclaims, SourceNodeLeaves,
     TargetNodeLeaves
<1>3. Stream => UNCHANGED <<evac, cr, armed>>
  BY DEF Stream, SourceConnects, SourceSends, TargetReceives, DatasetLands, RelayBreaks,
     BackupDone, BackupFails, BackupFinalized, RestoreCompletes, RestoreFails, RestoreFinalized
<1>4. Agents => UNCHANGED <<evac, cr, armed>>
  BY DEF Agents, TargetAdopts, TargetAdoptFails, TargetDestroys, SourceDestroys,
     SnapshotRegistered, SnapshotDestroyed
<1> QED BY <1>1, <1>2, <1>3, <1>4 DEF Others

(* A step of the cached controller, all of whose reconciles were called    *)
(* with the stored version, is a step of Evacuation or changes none of its *)
(* variables, and the cache goes on ending in what is stored.              *)
LEMMA FreshStep ==
  ASSUME FreshInv, [StaleNext]_staleVars, stale' = 0
  PROVE  [Next]_vars /\ stale = 0 /\ (armed' => view' = evac') /\ (IInv' => WatchOK')
<1>1. stale = 0
  <2>1. StaleReconcile => stale' = stale \/ stale' = stale + 1
    BY DEF StaleReconcile, Called
  <2>2. stale \in Nat
    BY DEF FreshInv
  <2>3. stale' = stale \/ stale' = stale + 1
    BY <2>1, OthersLeave DEF StaleNext, SameFaults, StaleCrash, Deletes, Deliver, staleVars
  <2> QED BY <2>2, <2>3
<1>2. WatchOK /\ (armed => view = evac) /\ IInv
  BY <1>1 DEF FreshInv
<1>3. IInv' => Version(evac', cr') \in VersionSet
  BY VersionFields DEF IInv, TypeOK
<1>4. ASSUME evac' = evac, (cr' \in {"deleting", "gone"}) = (cr \in {"deleting", "gone"})
      PROVE  Version(evac', cr') = Version(evac, cr)
  BY <1>4 DEF Version
<1>5. ASSUME watch' = Append(watch, Version(evac', cr')), IInv'
      PROVE  WatchOK'
  BY <1>2, <1>3, <1>5, LastStored DEF WatchOK, Stored
<1>6. ASSUME watch' = watch \/ (Len(watch) > 1 /\ watch' = Tail(watch)),
             Version(evac', cr') = Version(evac, cr)
      PROVE  WatchOK'
  BY <1>2, <1>6, LastStored DEF WatchOK, Stored
<1>7. CASE SameFaults(StaleReconcile)
  <2>1. /\ Reconcile /\ (armed' => view' = evac')
        /\ (cr' \in {"deleting", "gone"}) = (cr \in {"deleting", "gone"})
    BY <1>1, <1>7, FreshReconcile DEF SameFaults
  <2>2. watch' = IF evac' = evac THEN watch ELSE Append(watch, Version(evac', cr'))
    BY <1>7 DEF SameFaults, StaleReconcile
  <2>3. IInv' => WatchOK'
    BY <1>4, <1>5, <1>6, <2>1, <2>2
  <2> QED BY <1>1, <1>7, <2>1, <2>3 DEF Next, Step, SameFaults
<1>8. CASE SameFaults(StaleCrash)
  <2>1. Crash /\ evac' = evac /\ cr' = cr /\ ~armed' /\ watch' = <<Version(evac, cr)>>
    BY <1>8 DEF SameFaults, StaleCrash, Crash
  <2>2. Version(evac, cr) \in VersionSet
    BY <1>2, VersionFields DEF IInv, TypeOK
  <2>3. WatchOK'
    BY <2>1, <2>2 DEF WatchOK, Stored
  <2> QED BY <1>1, <1>8, <2>1, <2>3 DEF Next, Step, SameFaults
<1>9. CASE SameFaults(Deletes)
  <2>1. /\ UserDeletesEvacuation /\ evac' = evac /\ armed' = armed /\ view' = view
        /\ watch' = Append(watch, Version(evac', cr'))
    BY <1>9 DEF SameFaults, Deletes, UserDeletesEvacuation
  <2> QED BY <1>1, <1>2, <1>5, <1>9, <2>1 DEF Next, Step, Users, SameFaults
<1>10. CASE SameFaults(Others)
  <2>1. UNCHANGED <<evac, cr, armed, watch, view, stale>> /\ (Users \/ Cluster \/ Stream \/ Agents)
    BY <1>10, OthersLeave DEF SameFaults
  <2> QED BY <1>1, <1>2, <1>4, <1>6, <1>10, <2>1 DEF Next, Step, SameFaults
<1>11. CASE Deliver \/ UNCHANGED staleVars
  <2>1. /\ UNCHANGED <<vars, view>>
        /\ watch' = watch \/ (Len(watch) > 1 /\ watch' = Tail(watch))
    BY <1>11 DEF Deliver, staleVars
  <2>2. UNCHANGED <<evac, cr, armed>>
    BY <2>1 DEF vars, ctlVars
  <2> QED BY <1>1, <1>2, <1>4, <1>6, <2>1, <2>2
<1>12. CASE FaultsEnd /\ UNCHANGED <<watch, view, stale>>
  <2>1. UNCHANGED <<evac, cr, armed, watch, view>>
    BY <1>12 DEF FaultsEnd, ctlVars
  <2> QED BY <1>1, <1>2, <1>4, <1>6, <1>12, <2>1 DEF Next
<1> QED BY <1>7, <1>8, <1>9, <1>10, <1>11, <1>12 DEF StaleNext

LEMMA FreshInvariant == StaleSpec => []FreshInv
<1>1. StaleInit => FreshInv
  <2> SUFFICES ASSUME StaleInit PROVE FreshInv
    OBVIOUS
  <2>1. IInv /\ watch = <<Version(evac, cr)>> /\ view = evac /\ stale = 0
    BY InitInv DEF StaleInit
  <2>2. Version(evac, cr) \in VersionSet
    BY <2>1, VersionFields DEF IInv, TypeOK
  <2> QED BY <2>1, <2>2 DEF FreshInv, WatchOK, Stored
<1>2. FreshInv /\ [StaleNext]_staleVars => FreshInv'
  <2> SUFFICES ASSUME FreshInv, [StaleNext]_staleVars PROVE FreshInv'
    OBVIOUS
  <2>1. stale' \in Nat
    <3>1. StaleReconcile => stale' = stale \/ stale' = stale + 1
      BY DEF StaleReconcile, Called
    <3>2. stale \in Nat
      BY DEF FreshInv
    <3> QED BY <3>1, <3>2, OthersLeave
          DEF StaleNext, SameFaults, StaleCrash, Deletes, Deliver, staleVars
  <2>2. ASSUME stale' = 0 PROVE WatchOK' /\ (armed' => view' = evac') /\ IInv'
    <3>1. [Next]_vars /\ stale = 0 /\ (armed' => view' = evac') /\ (IInv' => WatchOK')
      BY <2>2, FreshStep
    <3>2. IInv'
      BY <3>1, NextInv DEF FreshInv
    <3> QED BY <3>1, <3>2
  <2> QED BY <2>1, <2>2 DEF FreshInv
<1> QED BY <1>1, <1>2, PTL DEF StaleSpec

(* The watch cache of kube's Controller alone does no harm, however far it *)
(* lags: until a reconcile is called with an old version, the invariant of *)
(* Evacuation holds and a running reconcile has the status as stored.      *)
THEOREM FreshIsSafe == StaleSpec => []Fresh
<1>1. FreshInv => Fresh
  BY DEF FreshInv, Fresh
<1> QED BY <1>1, FreshInvariant, PTL

(* Up to then, every step of the cached controller is one of Evacuation.   *)
THEOREM FreshRefines == StaleSpec => [][stale' = 0 => [Next]_vars]_staleVars
<1>1. FreshInv /\ [StaleNext]_staleVars => [stale' = 0 => [Next]_vars]_staleVars
  BY FreshStep
<1> QED BY <1>1, FreshInvariant, PTL DEF StaleSpec
=============================================================================
