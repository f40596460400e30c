------------------------------ MODULE LockTable ------------------------------
(***************************************************************************)
(* The one EvacuationParams object and the reconciles that change it:      *)
(* Ctx::update_params (controller/mod.rs), EvacuationParamsSpec::lock and  *)
(* ::unlock (crd/zfs_evacuation.rs).  Every evacuation reads the object,   *)
(* changes its own key and replaces it at the version it read; on a        *)
(* conflict it reads again, Tries times.  The key of an evacuation is the  *)
(* evacuation itself.                                                      *)
(***************************************************************************)
EXTENDS Naturals

CONSTANTS
  Evac,       \* evacuations, one per claim
  Tries,      \* attempts of update_params
  Unreliable  \* evacuations whose API calls may fail, or their answers be lost

ASSUME TableAssumption == Tries \in Nat \ {0} /\ Unreliable \subseteq Evac

VARIABLES
  params,  \* the object in etcd; one that was never created has no keys
  stage,   \* per evacuation: free, locking, held, unlocking
  mode,    \* spec.mode, as the reconcile that locks has read it
  call     \* update_params: what it read, whether that is still current

vars == <<params, stage, mode, call>>

Mode == {"WhenIdle", "WhenClaimed"}
ParamsType == [pvcKeys: SUBSET Evac, claimablePvcKeys: SUBSET Evac]
NoParams == [pvcKeys |-> {}, claimablePvcKeys |-> {}]
NoCall == [pc |-> "idle", seen |-> NoParams, version |-> "stale", tries |-> 0]
CallType == [pc: {"idle", "get", "put"}, seen: ParamsType, version: {"current", "stale"}, tries: 0 .. Tries]

TypeOK ==
  /\ params \in ParamsType
  /\ stage \in [Evac -> {"free", "locking", "held", "unlocking"}]
  /\ mode \in [Evac -> Mode]
  /\ call \in [Evac -> CallType]

Init ==
  /\ params = NoParams
  /\ stage = [e \in Evac |-> "free"]
  /\ mode \in [Evac -> Mode]
  /\ call = [e \in Evac |-> NoCall]

-----------------------------------------------------------------------------
(* EvacuationParamsSpec                                                    *)

Locked(spec, e) ==
  LET idle == mode[e] = "WhenIdle"
  IN  [pvcKeys |-> IF idle THEN spec.pvcKeys \cup {e} ELSE spec.pvcKeys \ {e},
       claimablePvcKeys |-> IF idle THEN spec.claimablePvcKeys \ {e}
                                    ELSE spec.claimablePvcKeys \cup {e}]
Unlocked(spec, e) ==
  [pvcKeys |-> spec.pvcKeys \ {e},
   claimablePvcKeys |-> spec.claimablePvcKeys \ {e}]
Mutated(spec, e) == IF stage[e] = "locking" THEN Locked(spec, e) ELSE Unlocked(spec, e)

-----------------------------------------------------------------------------
(* update_params                                                           *)

Begin(e, from, to) ==
  /\ stage[e] = from /\ call[e].pc = "idle"
  /\ stage' = [stage EXCEPT ![e] = to]
  /\ call' = [call EXCEPT ![e] = [NoCall EXCEPT !.pc = "get"]]
  /\ UNCHANGED params

(* locking, possibly of a claim that was evacuated before; the unlock of   *)
(* cleaning_up, or of an abort that finds the lock half taken.             *)
BeginLock(e) == Begin(e, "free", "locking") /\ mode' \in {[mode EXCEPT ![e] = m] : m \in Mode}
BeginUnlock(e) == Begin(e, "held", "unlocking") /\ UNCHANGED mode
BeginAbort(e) == Begin(e, "locking", "unlocking") /\ UNCHANGED mode

(* A reconcile that failed is run again, by locking with the mode that     *)
(* spec.mode has now.                                                      *)
Retry(e) ==
  \/ Begin(e, "locking", "locking") /\ mode' \in {[mode EXCEPT ![e] = m] : m \in Mode}
  \/ Begin(e, "unlocking", "unlocking") /\ UNCHANGED mode

Get(e) ==
  /\ call[e].pc = "get"
  /\ call' = [call EXCEPT ![e] = [@ EXCEPT !.pc = "put", !.seen = params, !.version = "current"]]
  /\ UNCHANGED <<params, stage, mode>>

Finish(e) == stage' = [stage EXCEPT ![e] = IF @ = "locking" THEN "held" ELSE "free"]

(* mutate returned false: nothing to write.                                *)
PutNothing(e) ==
  /\ call[e].pc = "put"
  /\ Mutated(call[e].seen, e) = call[e].seen
  /\ Finish(e)
  /\ call' = [call EXCEPT ![e] = NoCall]
  /\ UNCHANGED <<params, mode>>

(* create or replace at the version that was read; every other version in  *)
(* flight is stale afterwards.                                             *)
Stored(e) ==
  /\ params' = Mutated(call[e].seen, e)
  /\ call' = [f \in Evac |-> IF f = e THEN NoCall ELSE [call[f] EXCEPT !.version = "stale"]]
(* Mutant: the replace does not carry the resourceVersion.                 *)
PutAnyVersion(e) ==
  /\ call[e].pc = "put"
  /\ Mutated(call[e].seen, e) # call[e].seen
  /\ Stored(e) /\ Finish(e)
  /\ UNCHANGED mode
Put(e) ==
  /\ call[e].pc = "put" /\ call[e].version = "current"
  /\ Mutated(call[e].seen, e) # call[e].seen
  /\ Stored(e) /\ Finish(e)
  /\ UNCHANGED mode

(* Mutant: the loop does not read again before it replaces.                *)
ConflictNoReread(e) ==
  /\ call[e].pc = "put" /\ call[e].version = "stale"
  /\ Mutated(call[e].seen, e) # call[e].seen
  /\ call[e].tries < Tries
  /\ call' = [call EXCEPT ![e].tries = @ + 1]
  /\ UNCHANGED <<params, stage, mode>>
(* 409: read again, or give up after the last try.                         *)
Conflict(e) ==
  /\ call[e].pc = "put" /\ call[e].version = "stale"
  /\ Mutated(call[e].seen, e) # call[e].seen
  /\ call' = [call EXCEPT ![e] = IF @.tries + 1 < Tries
                                 THEN [NoCall EXCEPT !.pc = "get", !.tries = call[e].tries + 1]
                                 ELSE NoCall]
  /\ UNCHANGED <<params, stage, mode>>

(* An API error or a crash; the replace may have been applied all the same.*)
Fail(e) ==
  /\ e \in Unreliable /\ call[e].pc # "idle"
  /\ \/ /\ call' = [call EXCEPT ![e] = NoCall]
        /\ UNCHANGED params
     \/ /\ call[e].pc = "put" /\ call[e].version = "current"
        /\ Stored(e)
  /\ UNCHANGED <<stage, mode>>

Update(e) == Get(e) \/ PutNothing(e) \/ Put(e) \/ Conflict(e)
Next == \E e \in Evac : BeginLock(e) \/ BeginUnlock(e) \/ BeginAbort(e) \/ Retry(e) \/ Update(e) \/ Fail(e)

Spec == Init /\ [][Next]_vars

(* update_params runs to its end, and a failed reconcile is requeued.      *)
FairSpec == Spec /\ \A e \in Evac : WF_vars(Update(e)) /\ WF_vars(Retry(e))

-----------------------------------------------------------------------------
(* Properties                                                              *)

Listed(e, m) ==
  /\ e \in params.pvcKeys <=> m = "WhenIdle"
  /\ e \in params.claimablePvcKeys <=> m = "WhenClaimed"

(* No update of another evacuation undoes a lock: from the end of Locking  *)
(* to the unlock the key is in the list of its mode and in no other, and a *)
(* key nobody holds is in none (mod.rs:161-194, zfs_evacuation.rs:282-306).*)
LocksKept ==
  \A e \in Evac : /\ stage[e] = "held" => Listed(e, mode[e])
                  /\ stage[e] = "free" => Listed(e, "none")

(* Giving up after the last conflict loses no unlock: once the updates of  *)
(* the other evacuations run out, a half-done unlock ends and the claim is *)
(* not left locked (controller/mod.rs:166-193).  An evacuation whose calls *)
(* may always fail is promised nothing.                                    *)
UnlockEnds ==
  \A e \in Evac \ Unreliable : (\A f \in Evac \ {e} : <>[](call[f].pc = "idle"))
                   => (stage[e] = "unlocking" ~> stage[e] = "free")

(* The inductive invariant: a version that is still current is the object, *)
(* and only the evacuation itself changes where its key is.                *)
Current == \A e \in Evac : call[e].version = "current" => call[e].seen = params
InFlight == \A e \in Evac : call[e].pc # "idle" => stage[e] \in {"locking", "unlocking"}
(* However old the version a call has read, what it says of the key of the *)
(* evacuation itself is still so: nobody else changes that key.            *)
OwnKey ==
  \A e \in Evac : call[e].pc = "put" =>
    /\ e \in call[e].seen.pvcKeys <=> e \in params.pvcKeys
    /\ e \in call[e].seen.claimablePvcKeys <=> e \in params.claimablePvcKeys
IInv == TypeOK /\ Current /\ InFlight /\ OwnKey /\ LocksKept

(* The lists a key is in: what LockSet keeps.                              *)
Named(m) == IF m = "WhenIdle" THEN params.pvcKeys ELSE params.claimablePvcKeys
Lists == [e \in Evac |-> {m \in Mode : e \in Named(m)}]
Locks == INSTANCE LockSet WITH lists <- Lists

(* Reading, changing and replacing the shared object, with every conflict, *)
(* retry and lost answer, looks to each evacuation like one step on its    *)
(* own key, taken while it asks for it and before update_params returns Ok *)
(* (mod.rs:161-194).                                                       *)
LocksAtOnce == Locks!Spec
=============================================================================
