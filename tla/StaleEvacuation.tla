--------------------------- MODULE StaleEvacuation ---------------------------
(***************************************************************************)
(* Evacuation with the watch cache of kube's Controller (main.rs) between  *)
(* the API server and reconcile: a reconcile works on the ZFSEvacuation    *)
(* the cache holds, which may be older than the reconciler's own last      *)
(* writes, and write_status (controller/mod.rs) replaces the whole stored  *)
(* status by a merge patch without a resourceVersion.  That goes for every *)
(* write, the messages of waits too: a wait on an old status puts the old  *)
(* phase back.  Versions reach the cache in order, no more than MaxLag of  *)
(* them are outstanding, and a new process starts from a fresh list.  A    *)
(* version is a status and whether a deletionTimestamp is set; finalizers  *)
(* are taken as current.  An attempt started twice gets other ports and    *)
(* another snapshot name, which are no state here: its ZFSBackup connects  *)
(* as if it knew the new ports, and no property is about the snapshot.     *)
(***************************************************************************)
EXTENDS Evacuation, Sequences

CONSTANTS
  MaxLag,    \* bound on the status versions the cache has not seen yet
  MaxStale   \* bound on the reconciles that work on an old version

ASSUME LagAssumption == MaxLag \in Nat \ {0}
ASSUME StaleAssumption == MaxStale \in Nat

VARIABLES
  watch,  \* the cached version and the later ones, the stored one last
  view,   \* the status the running reconcile was called with
  stale   \* how many reconciles were called with an old version

staleVars == <<vars, watch, view, stale>>

Version(status, c) == [status |-> status, deleted |-> c \in {"deleting", "gone"}]
Cached == Head(watch).status
SeenDeleted == Head(watch).deleted
Stored == watch[Len(watch)]

StaleTypeOK ==
  /\ TypeOK
  /\ watch \in Seq([status: ZFSEvacuationStatus, deleted: BOOLEAN])
  /\ Len(watch) \in 1 .. MaxLag + 1
  /\ Stored = Version(evac, cr)
  /\ view \in ZFSEvacuationStatus
  /\ stale \in 0 .. MaxStale

StaleInit == Init /\ watch = <<Version(evac, cr)>> /\ view = evac /\ stale = 0

(* The next version reaches the cache.                                     *)
Deliver ==
  /\ Len(watch) > 1 /\ watch' = Tail(watch)
  /\ UNCHANGED <<vars, view, stale>>

(* Begin of Evacuation on the cached status.                               *)
StaleBegin ==
  /\ ~armed /\ cr # "gone" /\ ~SeenDeleted /\ Cached.phase \in CancelablePhase
  /\ view' = Cached
  /\ \E n \in Cut(2) :
       /\ cr' = IF cr = "bare" THEN Wrote(n, 1, "live", cr) ELSE cr
       /\ IF CancelReason(Cached)
          THEN /\ evac' = Wrote(n, 2, [Cached EXCEPT !.phase = "Aborting", !.cancelled = TRUE], evac)
               /\ armed' = FALSE
          ELSE /\ armed' = (n = 2)
               /\ UNCHANGED evac
  /\ UNCHANGED <<relay, k8sVars, srcVars, xferVars, tgtVars>>

(* The handlers that follow the cancel check.                              *)
Handler(v) ==
  \/ GiveUp(v)
  \/ Pending(v) \/ Guarding(v) \/ Retaining(v) \/ Locking(v) \/ Quiescing(v) \/ TargetSelecting(v)
  \/ LET b == Reported(Bkp(v)) r == Reported(Rst(v)) IN Transferring(v, b, r) \/ TransferWaits(v, b, r)
  \/ Adopting(v) \/ Committing(v)

StaleRelease ==
  /\ ~armed /\ Cached.phase \in Terminal /\ SeenDeleted /\ cr # "gone"
  /\ cr' = Released(cr)
  /\ UNCHANGED <<evac, armed, relay, k8sVars, srcVars, xferVars, tgtVars>>

Unarmed(v) == Swapping(v) \/ CleaningUp(v) \/ Abort(v, SeenDeleted) \/ StaleRelease

(* The reconcile is called with what the cache holds, old or not.          *)
Called == stale' = IF Head(watch) = Stored THEN stale ELSE stale + 1

(* Every status a reconcile writes is a version of its own; the API server *)
(* refuses it when the object is gone.                                     *)
StaleReconcile ==
  /\ Len(watch) <= MaxLag
  /\ \/ StaleBegin /\ Called
     \/ Handler(view) /\ UNCHANGED <<view, stale>>
     \/ Unarmed(Cached) /\ UNCHANGED view /\ Called
  /\ stale' <= MaxStale
  /\ cr = "gone" => UNCHANGED <<evac, cr>>
  /\ watch' = IF evac' = evac THEN watch ELSE Append(watch, Version(evac', cr'))

StaleCrash == Crash /\ watch' = <<Version(evac, cr)>> /\ view' = evac /\ UNCHANGED stale

(* A deletion is a version as well.                                        *)
Deletes ==
  /\ Len(watch) <= MaxLag
  /\ UserDeletesEvacuation /\ watch' = Append(watch, Version(evac, cr'))
  /\ UNCHANGED <<view, stale>>

Others ==
  /\ UserTogglesTrigger \/ UserDeletesPVC \/ Cluster \/ Stream \/ Agents
  /\ UNCHANGED <<watch, view, stale>>

StaleNext ==
  \/ SameFaults(StaleReconcile) \/ SameFaults(StaleCrash) \/ SameFaults(Deletes) \/ SameFaults(Others)
  \/ Deliver
  \/ FaultsEnd /\ UNCHANGED <<watch, view, stale>>

StaleSpec == StaleInit /\ [][StaleNext]_staleVars

-----------------------------------------------------------------------------
(* Correctness                                                             *)

(* As long as every reconcile was called with the stored version, the      *)
(* cache changes nothing: a reconcile acts on the status as it is, though  *)
(* a deletion may slip in after it was called, and IInv of Evacuation holds.*)
Fresh == stale = 0 => (armed => view = evac) /\ IInv
StaleIInv == StaleTypeOK /\ Fresh

(* One reconcile on an old version, whatever it writes back, puts no data  *)
(* of a live claim at risk (mod.rs:147); two can, see DataKept.            *)
OncePVBacked == stale <= 1 => PVBacked

(* A stale reconcile whose attempt is not judged failed leaves the relay   *)
(* of a later attempt alone (transfer.rs:186-192, 435-444): start_attempt  *)
(* finds it, the verdict is StaleStatus, and no CR of the older attempt is *)
(* left to say otherwise.  One judged failed drops it (transfer.rs:173).   *)
LiveRelayKept ==
  [][Handler(view) /\ view.phase = "Transferring" /\ relay.attempt > view.attempt /\ ~view.failed
       => UNCHANGED relay]_staleVars

(* A ZFSBackup of another attempt is created only when the CRs of the      *)
(* previous one are gone, also by a reconcile that looks for the CRs under *)
(* an old attempt's names (retry_or_fail, cleanup_transfer_crs).           *)
AttemptsApart == [][tried' # tried => TransferCRsGone]_staleVars

(* Reconciles on old versions delete the source of a live claim only after *)
(* the rebind and the transfer CRs, too (state_machine.rs, cleaning_up).   *)
SourceOutlasts ==
  [][szv.s = "live" /\ szv'.s # "live" /\ pvc = "ours" =>
       pv.obj \in {"new", "foreign"} /\ pv.bound /\ TransferCRsGone]_staleVars

(* README.md: "The source dataset is deleted only after the swap           *)
(* succeeds": a live claim keeps the source or an adopted copy of it.      *)
DataKept == pvc = "ours" => sdata \/ Adopted
=============================================================================
