-------------------------------- MODULE Lease --------------------------------
(***************************************************************************)
(* Leader election of leader.rs: the replicas of the controller, the Lease *)
(* object, and time.  try_acquire is four instants: the get, the decision  *)
(* (which stamps renew_time), the replace at the API server, the answer.   *)
(* Each may come up to CallBound later than the one before.  The replicas' *)
(* wall clocks agree.                                                      *)
(***************************************************************************)
EXTENDS Integers

CONSTANTS
  Replica,      \* identities; a restarted process keeps the one it had
  NoReplica,
  Duration,     \* LEASE_DURATION_SECS
  Renew,        \* RENEW_EVERY
  CallBound,    \* the longest delay of one API call
  Unreliable,   \* replicas whose API calls may fail, or their answers be lost
  Crashable,    \* replicas whose process may die
  MaxTime       \* bound on the clock

ASSUME LeaseAssumption ==
  /\ NoReplica \notin Replica
  /\ Duration \in Nat /\ Renew \in Nat /\ CallBound \in Nat /\ MaxTime \in Nat
  /\ Unreliable \subseteq Replica /\ Crashable \subseteq Replica

VARIABLES
  now,    \* the time
  lease,  \* the Lease object; holder NoReplica before it is created
  proc    \* the processes

vars == <<now, lease, proc>>

Time == 0 .. MaxTime
LeaseType == [holder: Replica \cup {NoReplica}, renew: Time, acquire: Time]

(* pc: start (first try, no sleep), sleep, got (the lease was read), sent  *)
(* (a replace is under way, renew_time = since), answered.                 *)
ProcType == [pc: {"start", "sleep", "got", "sent", "answered"},
             since: Time,            \* when this pc was reached
             leading: BOOLEAN,       \* run() returned: the reconciler works
             last: Time,             \* last_renewed
             seen: LeaseType,        \* the lease as read by get
             fresh: BOOLEAN,         \* its resourceVersion is still the current one
             ok: BOOLEAN]            \* the replace was applied

TypeOK ==
  /\ now \in Time
  /\ lease \in LeaseType
  /\ proc \in [Replica -> ProcType]

NoLease == [holder |-> NoReplica, renew |-> 0, acquire |-> 0]
Started(t) == [pc |-> "start", since |-> t, leading |-> FALSE, last |-> 0,
               seen |-> NoLease, fresh |-> FALSE, ok |-> FALSE]

Init ==
  /\ now = 0
  /\ lease = NoLease
  /\ proc = [r \in Replica |-> Started(0)]

-----------------------------------------------------------------------------
(* try_acquire                                                             *)

Reached(p, pc) == [p EXCEPT !.pc = pc, !.since = now]
Asleep(p) == [Reached(p, "sleep") EXCEPT !.seen = NoLease, !.fresh = FALSE, !.ok = FALSE]

Expired(l) == now - l.renew > Duration

(* What run() does with a result of try_acquire: the acquire loop sleeps   *)
(* and tries again; the renew loop exits the process on a lost lease, and  *)
(* on an error once the last success is older than the lease.              *)
(* Mutant: an error of the renew loop is always retried.                   *)
ResultUnfenced(p, res) ==
  IF res = "true" THEN [Asleep(p) EXCEPT !.leading = TRUE, !.last = now]
  ELSE IF p.leading /\ res = "false" THEN Started(now)
  ELSE Asleep(p)
Result(p, res) ==
  LET lost == res = "false" \/ (res = "error" /\ now - p.last > Duration)
  IN  IF res = "true" THEN [Asleep(p) EXCEPT !.leading = TRUE, !.last = now]
      ELSE IF p.leading /\ lost THEN Started(now)
      ELSE Asleep(p)

Awake(r) ==
  \/ proc[r].pc = "start"
  \/ proc[r].pc = "sleep" /\ now - proc[r].since >= Renew

Get(r) ==
  /\ Awake(r)
  /\ proc' = [proc EXCEPT ![r] = [Reached(@, "got") EXCEPT !.seen = lease, !.fresh = TRUE]]
  /\ UNCHANGED <<now, lease>>

GetFails(r) ==
  /\ r \in Unreliable
  /\ Awake(r)
  /\ proc' = [proc EXCEPT ![r] = Result(@, "error")]
  /\ UNCHANGED <<now, lease>>

(* Mutant: an expired lease of a dead holder is not taken over.            *)
DecideNoTakeover(r) ==
  /\ proc[r].pc = "got"
  /\ LET mine == proc[r].seen.holder \in {NoReplica, r}
     IN  proc' = [proc EXCEPT ![r] = IF mine THEN Reached(@, "sent") ELSE Result(@, "false")]
  /\ UNCHANGED <<now, lease>>
Decide(r) ==
  /\ proc[r].pc = "got"
  /\ LET l == proc[r].seen
         mine == l.holder \in {NoReplica, r} \/ Expired(l)
     IN  proc' = [proc EXCEPT ![r] = IF mine THEN Reached(@, "sent") ELSE Result(@, "false")]
  /\ UNCHANGED <<now, lease>>

(* The create or replace at the API server: refused with 409 unless the    *)
(* lease is still the version that was read.  A write makes the versions   *)
(* all others hold stale.                                                  *)
Written(r) == [holder |-> r, renew |-> proc[r].since,
               acquire |-> IF proc[r].seen.holder = r THEN proc[r].seen.acquire
                                                      ELSE proc[r].since]
Answered(r, ok) ==
  [q \in Replica |->
     IF q = r THEN [Reached(proc[r], "answered") EXCEPT !.fresh = FALSE, !.ok = ok]
              ELSE [proc[q] EXCEPT !.fresh = @ /\ ~ok]]
(* Mutant: the replace carries no resourceVersion.                         *)
ReplaceUnconditionally(r) ==
  /\ proc[r].pc = "sent"
  /\ lease' = Written(r)
  /\ proc' = Answered(r, TRUE)
  /\ UNCHANGED now
Replace(r) ==
  /\ proc[r].pc = "sent"
  /\ lease' = IF proc[r].fresh THEN Written(r) ELSE lease
  /\ proc' = Answered(r, proc[r].fresh)
  /\ UNCHANGED now

(* A conflict means someone else won, or is an error on our own lease.     *)
Answer(r) ==
  /\ proc[r].pc = "answered"
  /\ proc' = [proc EXCEPT ![r] =
                 Result(@, IF @.ok THEN "true" ELSE IF @.seen.holder = r THEN "error" ELSE "false")]
  /\ UNCHANGED <<now, lease>>

(* The replace is rejected, or its answer is lost.                         *)
ReplaceFails(r) ==
  /\ r \in Unreliable
  /\ proc[r].pc \in {"sent", "answered"}
  /\ proc' = [proc EXCEPT ![r] = Result(@, "error")]
  /\ UNCHANGED <<now, lease>>

-----------------------------------------------------------------------------
(* The environment                                                         *)

(* The process dies; the kubelet restarts it.                              *)
Crash(r) ==
  /\ r \in Crashable
  /\ proc[r].pc # "start"
  /\ proc' = [proc EXCEPT ![r] = Started(now)]
  /\ UNCHANGED <<now, lease>>

(* Time passes; no call is outstanding, and no wake-up late, for longer    *)
(* than CallBound.                                                         *)
Deadline(r) == proc[r].since + CallBound + (IF proc[r].pc = "sleep" THEN Renew ELSE 0)
Tick ==
  /\ now < MaxTime
  /\ \A r \in Replica : now < Deadline(r)
  /\ now' = now + 1
  /\ UNCHANGED <<lease, proc>>

Next ==
  \/ \E r \in Replica : Get(r) \/ GetFails(r) \/ Decide(r) \/ Replace(r) \/ Answer(r)
                        \/ ReplaceFails(r) \/ Crash(r)
  \/ Tick

Spec == Init /\ [][Next]_vars

-----------------------------------------------------------------------------
(* Properties                                                              *)

(* The lease changes hands only after it expired, even when several        *)
(* replicas read the expired lease and race to replace it (leader.rs:92).  *)
TakeoverAfterExpiry ==
  [][lease.holder \notin {NoReplica, lease'.holder} => Expired(lease)]_vars

(* How long a replica may go on working after another one's takeover: it   *)
(* sleeps once and makes one more try, and its last success was stamped    *)
(* up to two calls before it was timed.                                    *)
Grace == Renew + 6 * CallBound

(* Split brain ends: a replica that works without holding the lease was    *)
(* overtaken at most Grace ago, whatever errors its renewals meet          *)
(* (leader.rs:32-51).                                                      *)
FencedInTime ==
  \A r \in Replica : proc[r].leading /\ lease.holder # r => now < lease.acquire + Grace

(* As long as one replica neither dies nor loses calls, the lease is       *)
(* renewed or taken over within its duration and two more tries, whatever  *)
(* happens to its holder (leader.rs:21-30).                                *)
SuccessionInTime ==
  Replica \ (Crashable \cup Unreliable) # {} =>
    now <= lease.renew + Duration + 2 * (Renew + 4 * CallBound)

(* The inductive invariant.  Covered(r, t): a renewal by r stamped t or    *)
(* later reached the lease; if r is no longer the holder, the takeover     *)
(* came more than a lease duration after t.                                *)
Covered(r, t) ==
  IF lease.holder = r THEN lease.renew >= t ELSE lease.acquire > t + Duration

(* The clock never passes a deadline, and the lease is stamped in the past.*)
Timely ==
  /\ lease.acquire <= lease.renew /\ lease.renew <= now
  /\ \A r \in Replica :
       /\ proc[r].since <= now /\ now <= Deadline(r)
       /\ proc[r].last <= proc[r].since

(* A replace that will be accepted acts on the lease as it is, and its     *)
(* sender owned the lease or saw it expired.                               *)
Conditional ==
  \A r \in Replica :
    /\ proc[r].fresh => proc[r].seen = lease /\ lease.renew <= proc[r].since
    /\ proc[r].pc = "sent" => \/ proc[r].seen.holder \in {NoReplica, r}
                              \/ proc[r].since - proc[r].seen.renew > Duration

(* What a replica believes of its own lease was true when it was written.  *)
Proven ==
  \A r \in Replica :
    /\ proc[r].ok => proc[r].pc = "answered" /\ Covered(r, proc[r].since - CallBound)
    /\ proc[r].leading => Covered(r, proc[r].last - 2 * CallBound)

(* A leader sleeps only while its last success is within the duration.     *)
Loop(p) ==
  /\ p.pc # "start"
  /\ p.pc = "sleep" => p.since - p.last <= Duration
  /\ p.pc = "got" => p.since - p.last <= Duration + Renew + CallBound
  /\ p.pc = "sent" => p.since - p.last <= Duration + Renew + 2 * CallBound
  /\ p.pc = "answered" => p.since - p.last <= Duration + Renew + 3 * CallBound
Bounded == \A r \in Replica : proc[r].leading => Loop(proc[r])

Fenced == TypeOK /\ Timely /\ Conditional /\ Proven /\ Bounded

(* A replica whose calls succeed goes round its loop in time: it sleeps    *)
(* only on a lease that was not expired, or that somebody renewed while it *)
(* tried to; a replace that will be refused lost to a renewal one call     *)
(* bound before the lease was read, at the earliest.                       *)
Reliable == Replica \ (Crashable \cup Unreliable)
Tried(p) ==
  LET age == p.since - lease.renew
  IN  /\ p.pc \in {"start", "sleep"} => age <= Duration + 4 * CallBound
      /\ p.pc = "got" => /\ age <= Duration + Renew + 5 * CallBound
                         /\ p.seen.renew <= lease.renew
                         /\ p.fresh \/ age <= CallBound
      /\ p.pc = "sent" => /\ age <= Duration + Renew + 6 * CallBound
                          /\ p.fresh \/ age <= 2 * CallBound
      /\ p.pc = "answered" => age <= 3 * CallBound
Renewing == \A r \in Reliable : Tried(proc[r])

IInv == Fenced /\ Renewing

(* leader.rs:1-4 and controller/mod.rs:110-111: there is one leader.       *)
SingleLeader ==
  \A r, s \in Replica : proc[r].leading /\ proc[s].leading => r = s
=============================================================================
