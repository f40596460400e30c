------------------------------- MODULE LockSet -------------------------------
(***************************************************************************)
(* What the params object promises, with reads, versions, conflicts and    *)
(* lost answers left out: the lists a key is in change at once, only by    *)
(* the evacuation that owns the key, and to exactly what its lock or its   *)
(* unlock asks for; neither is over before it has taken effect.            *)
(***************************************************************************)
CONSTANTS Evac, Mode

VARIABLES
  lists,  \* the lists the key of an evacuation is in, named by their modes
  stage,  \* free, locking, held, unlocking
  mode    \* the list the evacuation wants its key in

vars == <<lists, stage, mode>>

Init ==
  /\ lists = [e \in Evac |-> {}]
  /\ stage = [e \in Evac |-> "free"]
  /\ mode \in [Evac -> Mode]

(* The evacuation asks, and may ask again.                                 *)
AskLock(e) ==
  /\ stage[e] \in {"free", "locking"}
  /\ stage' = [stage EXCEPT ![e] = "locking"]
  /\ \E m \in Mode : mode' = [mode EXCEPT ![e] = m]
  /\ UNCHANGED lists
AskUnlock(e) ==
  /\ stage[e] \in {"held", "locking", "unlocking"}
  /\ stage' = [stage EXCEPT ![e] = "unlocking"]
  /\ UNCHANGED <<lists, mode>>

(* It takes effect; the evacuation may not learn of it.                    *)
Lock(e) ==
  /\ stage[e] = "locking"
  /\ lists' = [lists EXCEPT ![e] = {mode[e]}]
  /\ stage' \in {stage, [stage EXCEPT ![e] = "held"]}
  /\ UNCHANGED mode
Unlock(e) ==
  /\ stage[e] = "unlocking"
  /\ lists' = [lists EXCEPT ![e] = {}]
  /\ stage' \in {stage, [stage EXCEPT ![e] = "free"]}
  /\ UNCHANGED mode

Next == \E e \in Evac : AskLock(e) \/ AskUnlock(e) \/ Lock(e) \/ Unlock(e)
Spec == Init /\ [][Next]_vars
=============================================================================
