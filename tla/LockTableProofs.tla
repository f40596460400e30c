--------------------------- MODULE LockTableProofs ---------------------------
(***************************************************************************)
(* Proof about LockTable, for any set of evacuations and number of tries:  *)
(* the read-modify-write of one params object never drops or duplicates    *)
(* the lock of another evacuation, and is atomic for its own.              *)
(***************************************************************************)
EXTENDS LockTable, TLAPS

(* The part of IInv about one evacuation with stage s, mode m and call c   *)
(* while the params object is p.                                           *)
Own(e, s, m, c, p) ==
  /\ s \in {"free", "locking", "held", "unlocking"} /\ m \in Mode /\ c \in CallType
  /\ c.version = "current" => c.seen = p
  /\ c.pc # "idle" => s \in {"locking", "unlocking"}
  /\ c.pc = "put" => /\ e \in c.seen.pvcKeys <=> e \in p.pvcKeys
                     /\ e \in c.seen.claimablePvcKeys <=> e \in p.claimablePvcKeys
  /\ s = "held" => /\ e \in p.pvcKeys <=> m = "WhenIdle"
                   /\ e \in p.claimablePvcKeys <=> m = "WhenClaimed"
  /\ s = "free" => e \notin p.pvcKeys /\ e \notin p.claimablePvcKeys

Shaped ==
  /\ params \in ParamsType
  /\ stage \in [Evac -> {"free", "locking", "held", "unlocking"}]
  /\ mode \in [Evac -> Mode]
  /\ call \in [Evac -> CallType]

(* IInv, taken apart evacuation by evacuation.                             *)
LEMMA Split == IInv <=> Shaped /\ \A e \in Evac : Own(e, stage[e], mode[e], call[e], params)
  BY DEF IInv, TypeOK, Current, InFlight, OwnKey, LocksKept, Listed, Shaped, Own

LEMMA SplitNext ==
  ASSUME Shaped', \A e \in Evac : Own(e, stage'[e], mode'[e], call'[e], params')
  PROVE  IInv'
  BY DEF IInv, TypeOK, Current, InFlight, OwnKey, LocksKept, Listed, Shaped, Own

(* A step that changes only the records of e and leaves the object alone.  *)
LEMMA LocalStep ==
  ASSUME IInv, NEW e \in Evac, NEW s, NEW m, NEW c, Own(e, s, m, c, params),
         UNCHANGED params, stage' = [stage EXCEPT ![e] = s], mode' = [mode EXCEPT ![e] = m],
         call' = [call EXCEPT ![e] = c]
  PROVE  IInv'
<1>1. Shaped /\ \A f \in Evac : Own(f, stage[f], mode[f], call[f], params)
  BY Split
<1>2. s \in {"free", "locking", "held", "unlocking"} /\ m \in Mode /\ c \in CallType
  BY DEF Own
<1>3. Shaped'
  BY <1>1, <1>2 DEF Shaped
<1>4. ASSUME NEW f \in Evac PROVE Own(f, stage'[f], mode'[f], call'[f], params')
  BY <1>1 DEF Shaped
<1>. QED
  BY <1>3, <1>4, SplitNext

(* The idle call and the one that is about to read.                        *)
LEMMA Calls ==
  LET c == [NoCall EXCEPT !.pc = "get"]
  IN  /\ NoCall \in CallType /\ NoCall.pc = "idle" /\ NoCall.version = "stale"
      /\ c \in CallType /\ c.pc = "get" /\ c.version = "stale"
<1>1. NoParams \in ParamsType
  BY DEF NoParams, ParamsType
<1>2. 0 \in 0 .. Tries
  BY TableAssumption
<1>. QED
  BY <1>1, <1>2 DEF NoCall, CallType

(* What lock and unlock do to the key of e and of any other evacuation.    *)
LEMMA Mutation ==
  ASSUME NEW p \in ParamsType, NEW e \in Evac, mode[e] \in Mode
  PROVE  LET q == Mutated(p, e)
         IN  /\ q \in ParamsType
             /\ \A f \in Evac \ {e} : /\ f \in q.pvcKeys <=> f \in p.pvcKeys
                                      /\ f \in q.claimablePvcKeys <=> f \in p.claimablePvcKeys
             /\ stage[e] = "locking" => /\ e \in q.pvcKeys <=> mode[e] = "WhenIdle"
                                        /\ e \in q.claimablePvcKeys <=> mode[e] = "WhenClaimed"
             /\ stage[e] # "locking" => e \notin q.pvcKeys /\ e \notin q.claimablePvcKeys
<1>1. CASE stage[e] = "locking"
  BY <1>1 DEF Mutated, Locked, ParamsType, Mode
<1>2. CASE stage[e] # "locking"
  BY <1>2 DEF Mutated, Unlocked, ParamsType
<1>. QED
  BY <1>1, <1>2

(* Starting an update leaves the lock of a running evacuation as it is.    *)
LEMMA BeginStep ==
  ASSUME IInv, NEW e \in Evac, NEW from, NEW to \in {"locking", "unlocking"}, NEW m \in Mode,
         Begin(e, from, to), mode' = [mode EXCEPT ![e] = m]
  PROVE  IInv'
<1>. DEFINE c == [NoCall EXCEPT !.pc = "get"]
<1>1. c \in CallType /\ c.pc = "get" /\ c.version = "stale"
  BY Calls
<1>2. stage' = [stage EXCEPT ![e] = to] /\ call' = [call EXCEPT ![e] = c] /\ UNCHANGED params
  BY DEF Begin
<1>. HIDE DEF c
<1>3. Own(e, to, m, c, params)
  BY <1>1 DEF Own
<1>. QED
  BY <1>2, <1>3, LocalStep

(* A write at the current version changes the key of e and no other.       *)
LEMMA StoreStep ==
  ASSUME IInv, NEW e \in Evac, call[e].pc = "put", call[e].version = "current", Stored(e),
         NEW s, stage' = [stage EXCEPT ![e] = s], UNCHANGED mode,
         s = stage[e] \/ s = (IF stage[e] = "locking" THEN "held" ELSE "free")
  PROVE  IInv'
<1>1. Shaped /\ \A f \in Evac : Own(f, stage[f], mode[f], call[f], params)
  BY Split
<1>2. call[e].seen = params /\ stage[e] \in {"locking", "unlocking"}
  BY <1>1 DEF Own
<1>. DEFINE q == Mutated(params, e)
<1>3. params' = q
  BY <1>2 DEF Stored
<1>4. /\ q \in ParamsType
      /\ \A f \in Evac \ {e} : /\ f \in q.pvcKeys <=> f \in params.pvcKeys
                               /\ f \in q.claimablePvcKeys <=> f \in params.claimablePvcKeys
      /\ stage[e] = "locking" => /\ e \in q.pvcKeys <=> mode[e] = "WhenIdle"
                                 /\ e \in q.claimablePvcKeys <=> mode[e] = "WhenClaimed"
      /\ stage[e] # "locking" => e \notin q.pvcKeys /\ e \notin q.claimablePvcKeys
  BY <1>1, Mutation DEF Shaped
<1>. HIDE DEF q
<1>5. call'[e] = NoCall /\ \A f \in Evac \ {e} : call'[f] = [call[f] EXCEPT !.version = "stale"]
  BY DEF Stored
<1>6. ASSUME NEW f \in Evac \ {e}
      PROVE  /\ call'[f] \in CallType /\ call'[f].pc = call[f].pc
             /\ call'[f].seen = call[f].seen /\ call'[f].version = "stale"
  <2>1. call'[f] = [call[f] EXCEPT !.version = "stale"]
    BY <1>5
  <2>2. call[f] \in CallType
    BY <1>1 DEF Shaped
  <2> QED BY <2>1, <2>2 DEF CallType
<1>7. s \in {"free", "locking", "held", "unlocking"}
  BY <1>2
<1>8. Shaped'
  <2>1. call' \in [Evac -> CallType]
    BY <1>5, <1>6, Calls DEF Stored
  <2>. QED
    BY <1>1, <1>3, <1>4, <1>7, <2>1 DEF Shaped
<1>9. ASSUME NEW f \in Evac PROVE Own(f, stage'[f], mode'[f], call'[f], params')
  <2>1. CASE f = e
    <3>1. stage'[e] = s /\ mode'[e] = mode[e] /\ mode[e] \in Mode
      BY <1>1 DEF Shaped
    <3>. QED
      BY <2>1, <3>1, <1>2, <1>3, <1>4, <1>5, <1>7, Calls DEF Own, Mode
  <2>2. CASE f # e
    <3>1. stage'[f] = stage[f] /\ mode'[f] = mode[f]
      BY <1>1, <2>2 DEF Shaped
    <3>2. Own(f, stage[f], mode[f], call[f], params)
      BY <1>1
    <3>3. f \in Evac \ {e}
      BY <2>2
    <3>. QED
      BY <3>1, <3>2, <3>3, <1>3, <1>4, <1>6 DEF Own
  <2>. QED
    BY <2>1, <2>2
<1>. QED
  BY <1>8, <1>9, SplitNext

LEMMA InitInv == Init => IInv
<1>. SUFFICES ASSUME Init PROVE IInv
  OBVIOUS
<1>1. NoParams \in ParamsType /\ NoParams.pvcKeys = {} /\ NoParams.claimablePvcKeys = {}
  BY DEF NoParams, ParamsType
<1>2. Shaped
  BY <1>1, Calls DEF Init, Shaped
<1>3. ASSUME NEW e \in Evac PROVE Own(e, stage[e], mode[e], call[e], params)
  BY <1>1, Calls DEF Init, Own
<1>. QED
  BY <1>2, <1>3, Split

LEMMA NextInv == IInv /\ [Next]_vars => IInv'
<1>. SUFFICES ASSUME IInv, [Next]_vars PROVE IInv'
  OBVIOUS
<1>1. Shaped /\ \A f \in Evac : Own(f, stage[f], mode[f], call[f], params)
  BY Split
<1>2. CASE UNCHANGED vars
  BY <1>2, <1>1, SplitNext DEF vars, Shaped
<1>3. ASSUME NEW e \in Evac,
             \/ BeginLock(e) \/ BeginUnlock(e) \/ BeginAbort(e)
             \/ Retry(e) \/ Update(e) \/ Fail(e)
      PROVE  IInv'
  <2>1. /\ mode[e] \in Mode /\ mode = [mode EXCEPT ![e] = mode[e]]
        /\ stage = [stage EXCEPT ![e] = stage[e]]
        /\ Own(e, stage[e], mode[e], call[e], params)
    BY <1>1 DEF Shaped
  <2>2. CASE BeginLock(e)
    <3>1. PICK m \in Mode : mode' = [mode EXCEPT ![e] = m]
      BY <2>2 DEF BeginLock
    <3>. QED
      BY <2>2, <3>1, BeginStep DEF BeginLock
  <2>3. CASE BeginUnlock(e)
    BY <2>1, <2>3, BeginStep DEF BeginUnlock
  <2>4. CASE BeginAbort(e)
    BY <2>1, <2>4, BeginStep DEF BeginAbort
  <2>5. CASE Retry(e)
    <3>1. CASE Begin(e, "locking", "locking") /\ mode' \in {[mode EXCEPT ![e] = m] : m \in Mode}
      <4>1. PICK m \in Mode : mode' = [mode EXCEPT ![e] = m]
        BY <3>1
      <4>. QED
        BY <3>1, <4>1, BeginStep
    <3>2. CASE Begin(e, "unlocking", "unlocking") /\ UNCHANGED mode
      BY <2>1, <3>2, BeginStep
    <3>. QED
      BY <2>5, <3>1, <3>2 DEF Retry
  <2>6. CASE Get(e)
    <3>. DEFINE c == [call[e] EXCEPT !.pc = "put", !.seen = params, !.version = "current"]
    <3>1. c \in CallType /\ c.pc = "put" /\ c.seen = params /\ c.version = "current"
      BY <1>1 DEF Shaped, CallType
    <3>2. call' = [call EXCEPT ![e] = c] /\ UNCHANGED <<params, stage, mode>> /\ call[e].pc = "get"
      BY <2>6 DEF Get
    <3>. HIDE DEF c
    <3>3. Own(e, stage[e], mode[e], c, params)
      BY <2>1, <3>1, <3>2 DEF Own
    <3>. QED
      BY <2>1, <3>2, <3>3, LocalStep
  <2>7. CASE PutNothing(e)
    <3>. DEFINE s == IF stage[e] = "locking" THEN "held" ELSE "free"
    <3>1. /\ stage' = [stage EXCEPT ![e] = s] /\ call' = [call EXCEPT ![e] = NoCall]
          /\ UNCHANGED <<params, mode>> /\ call[e].pc = "put"
          /\ Mutated(call[e].seen, e) = call[e].seen
      BY <2>7 DEF PutNothing, Finish
    <3>2. call[e].seen \in ParamsType
      BY <1>1 DEF Shaped, CallType
    <3>3. /\ stage[e] = "locking" => /\ e \in call[e].seen.pvcKeys <=> mode[e] = "WhenIdle"
                                     /\ e \in call[e].seen.claimablePvcKeys <=> mode[e] = "WhenClaimed"
          /\ stage[e] # "locking" => /\ e \notin call[e].seen.pvcKeys
                                     /\ e \notin call[e].seen.claimablePvcKeys
      BY <2>1, <3>1, <3>2, Mutation
    <3>4. Own(e, s, mode[e], NoCall, params)
      BY <2>1, <3>1, <3>3, Calls DEF Own
    <3>. QED
      BY <2>1, <3>1, <3>4, LocalStep
  <2>8. CASE Put(e)
    BY <2>8, StoreStep DEF Put, Finish
  <2>9. CASE Conflict(e)
    <3>1. UNCHANGED <<params, stage, mode>>
      BY <2>9 DEF Conflict
    <3>2. CASE call[e].tries + 1 < Tries
      <4>. DEFINE c == [NoCall EXCEPT !.pc = "get", !.tries = call[e].tries + 1]
      <4>1. call[e].tries + 1 \in 0 .. Tries
        BY <1>1, <3>2, TableAssumption DEF Shaped, CallType
      <4>2. c \in CallType /\ c.pc = "get" /\ c.version = "stale"
        BY <4>1, Calls DEF CallType, NoCall
      <4>3. call' = [call EXCEPT ![e] = c] /\ call[e].pc = "put"
        BY <2>9, <3>2 DEF Conflict
      <4>. HIDE DEF c
      <4>4. Own(e, stage[e], mode[e], c, params)
        BY <2>1, <4>2, <4>3 DEF Own
      <4>. QED
        BY <2>1, <3>1, <4>3, <4>4, LocalStep
    <3>3. CASE ~(call[e].tries + 1 < Tries)
      <4>1. call' = [call EXCEPT ![e] = NoCall]
        BY <2>9, <3>3 DEF Conflict
      <4>2. Own(e, stage[e], mode[e], NoCall, params)
        BY <2>1, Calls DEF Own
      <4>. QED
        BY <2>1, <3>1, <4>1, <4>2, LocalStep
    <3>. QED
      BY <3>2, <3>3
  <2>10. CASE Fail(e)
    <3>1. CASE call' = [call EXCEPT ![e] = NoCall] /\ UNCHANGED params
      <4>1. Own(e, stage[e], mode[e], NoCall, params)
        BY <2>1, Calls DEF Own
      <4>. QED
        BY <2>1, <2>10, <3>1, <4>1, LocalStep DEF Fail
    <3>2. CASE call[e].pc = "put" /\ call[e].version = "current" /\ Stored(e)
      BY <2>1, <2>10, <3>2, StoreStep DEF Fail
    <3>. QED
      BY <2>10, <3>1, <3>2 DEF Fail
  <2>. QED
    BY <1>3, <2>2, <2>3, <2>4, <2>5, <2>6, <2>7, <2>8, <2>9, <2>10 DEF Update
<1>. QED
  BY <1>2, <1>3 DEF Next

(* The invariant of the params object holds always (controller/mod.rs,     *)
(* update_params).                                                         *)
THEOREM Invariance == Spec => []IInv
  BY InitInv, NextInv, PTL DEF Spec

(* However many evacuations contend, and whatever fails or is retried, a   *)
(* lock that was taken stays in the list of its mode, and in that list     *)
(* only, until its own evacuation removes it (mod.rs:161-194).             *)
THEOREM LocksNeverLost == Spec => []LocksKept
<1>1. IInv => LocksKept
  BY DEF IInv
<1>. QED
  BY <1>1, Invariance, PTL

-----------------------------------------------------------------------------
(* LockTable implements LockSet.                                           *)

(* Asking for a lock or an unlock moves no key.                            *)
LEMMA SameLists ==
  ASSUME UNCHANGED params
  PROVE  Lists' = Lists
  BY DEF Lists, Named

(* Once the key is in the object where e wants it, and no other key has    *)
(* moved, e has had its lock or its unlock.                                *)
LEMMA TakesEffect ==
  ASSUME IInv, NEW e \in Evac, stage[e] \in {"locking", "unlocking"},
         \A f \in Evac \ {e} : /\ f \in params'.pvcKeys <=> f \in params.pvcKeys
                               /\ f \in params'.claimablePvcKeys <=> f \in params.claimablePvcKeys,
         stage[e] = "locking" => /\ e \in params'.pvcKeys <=> mode[e] = "WhenIdle"
                                 /\ e \in params'.claimablePvcKeys <=> mode[e] = "WhenClaimed",
         stage[e] # "locking" => e \notin params'.pvcKeys /\ e \notin params'.claimablePvcKeys,
         Finish(e) \/ UNCHANGED stage, UNCHANGED mode
  PROVE  Locks!Lock(e) \/ Locks!Unlock(e)
<1>1. stage \in [Evac -> {"free", "locking", "held", "unlocking"}] /\ mode[e] \in Mode
  BY DEF IInv, TypeOK
<1>2. ASSUME NEW f \in Evac \ {e} PROVE Lists'[f] = Lists[f]
  BY DEF Lists, Named, Mode
<1>3. CASE stage[e] = "locking"
  <2>1. Lists'[e] = {mode[e]}
    BY <1>1, <1>3 DEF Lists, Named, Mode
  <2>2. Lists' = [Lists EXCEPT ![e] = {mode[e]}]
    BY <1>2, <2>1 DEF Lists
  <2>3. stage' \in {stage, [stage EXCEPT ![e] = "held"]}
    BY <1>1, <1>3 DEF Finish
  <2>. QED
    BY <1>3, <2>2, <2>3 DEF Locks!Lock
<1>4. CASE stage[e] = "unlocking"
  <2>1. Lists'[e] = {}
    BY <1>4 DEF Lists, Named, Mode
  <2>2. Lists' = [Lists EXCEPT ![e] = {}]
    BY <1>2, <2>1 DEF Lists
  <2>3. stage' \in {stage, [stage EXCEPT ![e] = "free"]}
    BY <1>1, <1>4 DEF Finish
  <2>. QED
    BY <1>4, <2>2, <2>3 DEF Locks!Unlock
<1>. QED
  BY <1>3, <1>4

(* A write at the version that was read, whether or not e hears of it.     *)
LEMMA StoreTakesEffect ==
  ASSUME IInv, NEW e \in Evac, call[e].pc = "put", call[e].version = "current", Stored(e),
         Finish(e) \/ UNCHANGED stage, UNCHANGED mode
  PROVE  Locks!Lock(e) \/ Locks!Unlock(e)
<1>1. /\ params \in ParamsType /\ mode[e] \in Mode
      /\ call[e].seen = params /\ stage[e] \in {"locking", "unlocking"}
  BY DEF IInv, TypeOK, Current, InFlight
<1>2. params' = Mutated(params, e)
  BY <1>1 DEF Stored
<1>3. LET q == Mutated(params, e)
      IN  /\ \A f \in Evac \ {e} : /\ f \in q.pvcKeys <=> f \in params.pvcKeys
                                   /\ f \in q.claimablePvcKeys <=> f \in params.claimablePvcKeys
          /\ stage[e] = "locking" => /\ e \in q.pvcKeys <=> mode[e] = "WhenIdle"
                                     /\ e \in q.claimablePvcKeys <=> mode[e] = "WhenClaimed"
          /\ stage[e] # "locking" => e \notin q.pvcKeys /\ e \notin q.claimablePvcKeys
  BY <1>1, Mutation
<1>. QED
  BY <1>1, <1>2, <1>3, TakesEffect

(* A call that finds nothing to write: what it read may be stale, but not  *)
(* about the key of e, so e has its lock or its unlock already.            *)
LEMMA NothingTakesEffect ==
  ASSUME IInv, NEW e \in Evac, PutNothing(e)
  PROVE  Locks!Lock(e) \/ Locks!Unlock(e)
<1>1. /\ call[e].pc = "put" /\ Mutated(call[e].seen, e) = call[e].seen
      /\ Finish(e) /\ UNCHANGED <<params, mode>>
  BY DEF PutNothing
<1>2. /\ call[e].seen \in ParamsType /\ mode[e] \in Mode
      /\ stage[e] \in {"locking", "unlocking"}
  BY <1>1 DEF IInv, TypeOK, CallType, InFlight
<1>3. /\ e \in call[e].seen.pvcKeys <=> e \in params.pvcKeys
      /\ e \in call[e].seen.claimablePvcKeys <=> e \in params.claimablePvcKeys
  BY <1>1 DEF IInv, OwnKey
<1>4. /\ stage[e] = "locking" => /\ e \in call[e].seen.pvcKeys <=> mode[e] = "WhenIdle"
                                 /\ e \in call[e].seen.claimablePvcKeys <=> mode[e] = "WhenClaimed"
      /\ stage[e] # "locking" => /\ e \notin call[e].seen.pvcKeys
                                 /\ e \notin call[e].seen.claimablePvcKeys
  BY <1>1, <1>2, Mutation
<1>. QED
  BY <1>1, <1>2, <1>3, <1>4, TakesEffect

LEMMA InitMaps == Init => Locks!Init
<1>. SUFFICES ASSUME Init PROVE Locks!Init
  OBVIOUS
<1>1. params.pvcKeys = {} /\ params.claimablePvcKeys = {}
  BY DEF Init, NoParams
<1>2. ASSUME NEW e \in Evac PROVE {m \in Mode : e \in Named(m)} = {}
  BY <1>1 DEF Named
<1>3. Lists = [e \in Evac |-> {}]
  BY <1>2 DEF Lists
<1>. QED
  BY <1>3 DEF Init, Locks!Init

LEMMA NextMaps == IInv /\ [Next]_vars => [Locks!Next]_Locks!vars
<1>. SUFFICES ASSUME IInv, [Next]_vars PROVE [Locks!Next]_Locks!vars
  OBVIOUS
<1>1. CASE UNCHANGED vars
  BY <1>1, SameLists DEF vars, Locks!vars
<1>2. ASSUME NEW e \in Evac,
             \/ BeginLock(e) \/ BeginUnlock(e) \/ BeginAbort(e)
             \/ Retry(e) \/ Update(e) \/ Fail(e)
      PROVE  [Locks!Next]_Locks!vars
  <2>. SUFFICES \/ Locks!AskLock(e) \/ Locks!AskUnlock(e) \/ Locks!Lock(e) \/ Locks!Unlock(e)
                \/ UNCHANGED Locks!vars
    BY DEF Locks!Next
  <2>1. CASE BeginLock(e) \/ BeginUnlock(e) \/ BeginAbort(e) \/ Retry(e)
    BY <2>1, SameLists
       DEF BeginLock, BeginUnlock, BeginAbort, Retry, Begin, Locks!AskLock, Locks!AskUnlock
  <2>2. CASE Get(e)
    BY <2>2, SameLists DEF Get, Locks!vars
  <2>3. CASE PutNothing(e)
    BY <2>3, NothingTakesEffect
  <2>4. CASE Put(e)
    BY <2>4, StoreTakesEffect DEF Put
  <2>5. CASE Conflict(e)
    BY <2>5, SameLists DEF Conflict, Locks!vars
  <2>6. CASE Fail(e)
    <3>1. CASE UNCHANGED params
      BY <2>6, <3>1, SameLists DEF Fail, Locks!vars
    <3>2. CASE call[e].pc = "put" /\ call[e].version = "current" /\ Stored(e)
      BY <2>6, <3>2, StoreTakesEffect DEF Fail
    <3>. QED
      BY <2>6, <3>1, <3>2 DEF Fail
  <2>. QED
    BY <1>2, <2>1, <2>2, <2>3, <2>4, <2>5, <2>6 DEF Update
<1>. QED
  BY <1>1, <1>2 DEF Next

(* The read-modify-write of the shared object is atomic for the one who    *)
(* calls it: every change of the lists is one evacuation's own lock or     *)
(* unlock, whole, and update_params returns Ok only once it is there, its  *)
(* conflicts, retries and lost answers included (mod.rs:161-194).          *)
THEOREM UpdatesAtOnce == Spec => LocksAtOnce
<1>1. Init => Locks!Init
  BY InitMaps
<1>2. IInv /\ [Next]_vars => [Locks!Next]_Locks!vars
  BY NextMaps
<1>. QED
  BY <1>1, <1>2, Invariance, PTL DEF Spec, LocksAtOnce, Locks!Spec
=============================================================================
