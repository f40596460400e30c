----------------------------- MODULE LeaseProofs -----------------------------
(***************************************************************************)
(* Proofs about Lease, for any replicas, durations, call delays, crashes   *)
(* and API errors: the lease changes hands only after it expired, a leader *)
(* that was overtaken stops within Grace, and while one replica is         *)
(* reliable a dead leader is succeeded in time.                            *)
(***************************************************************************)
EXTENDS Lease, TLAPS

(* The part of Fenced that speaks of one process, of its record p.           *)
Own(r, p) ==
  /\ p \in ProcType
  /\ p.since <= now /\ p.last <= p.since
  /\ now <= p.since + CallBound + (IF p.pc = "sleep" THEN Renew ELSE 0)
  /\ p.fresh => p.seen = lease /\ lease.renew <= p.since
  /\ p.pc = "sent" => \/ p.seen.holder \in {NoReplica, r}
                      \/ p.since - p.seen.renew > Duration
  /\ p.ok => p.pc = "answered" /\ Covered(r, p.since - CallBound)
  /\ p.leading => Covered(r, p.last - 2 * CallBound) /\ Loop(p)

Shared ==
  /\ now \in Time /\ lease \in LeaseType
  /\ lease.acquire <= lease.renew /\ lease.renew <= now
  /\ proc \in [Replica -> ProcType]

(* Fenced, taken apart process by process.                                   *)
LEMMA Split == Fenced <=> Shared /\ \A r \in Replica : Own(r, proc[r])
  BY DEF Fenced, TypeOK, Timely, Conditional, Proven, Bounded, Shared, Own, Deadline

(* A step that changes only the record of r keeps the invariant if the new *)
(* record is in order.                                                     *)
LEMMA LocalStep ==
  ASSUME Fenced, NEW r \in Replica, NEW q, Own(r, q),
         UNCHANGED <<now, lease>>, proc' = [proc EXCEPT ![r] = q]
  PROVE  Fenced'
<1>1. Shared /\ \A s \in Replica : Own(s, proc[s])
  BY Split
<1>2. Shared'
  BY <1>1 DEF Shared, Own, Time, LeaseType
<1>3. ASSUME NEW s \in Replica PROVE Own(s, proc'[s])
  BY <1>1 DEF Shared
<1>4. ASSUME NEW s \in Replica PROVE Own(s, proc[s])'
  BY <1>3 DEF Own, Covered, Loop
<1>. QED
  BY <1>2, <1>4, Split DEF Fenced, TypeOK, Timely, Conditional, Proven, Bounded, Shared, Own, Deadline

(* The fields of the records run() builds.                                 *)
LEMMA ReachedFields ==
  ASSUME NEW p \in ProcType, now \in Time,
         NEW pc \in {"start", "sleep", "got", "sent", "answered"}
  PROVE  LET q == Reached(p, pc)
         IN  /\ q \in ProcType /\ q.pc = pc /\ q.since = now /\ (q.leading <=> p.leading)
             /\ q.last = p.last /\ q.seen = p.seen /\ (q.fresh <=> p.fresh) /\ (q.ok <=> p.ok)
  BY DEF Reached, ProcType

LEMMA AsleepFields ==
  ASSUME NEW p \in ProcType, now \in Time, NoLease \in LeaseType
  PROVE  LET q == Asleep(p)
         IN  /\ q \in ProcType /\ q.pc = "sleep" /\ q.since = now /\ (q.leading <=> p.leading)
             /\ q.last = p.last /\ ~q.fresh /\ ~q.ok
  BY DEF Reached, Asleep, ProcType

(* A process that has just started is in order.                            *)
LEMMA StartedOwn ==
  ASSUME Fenced, NEW r \in Replica
  PROVE  Own(r, Started(now))
<1>1. now \in Nat /\ now \in Time
  BY LeaseAssumption DEF Fenced, TypeOK, Time
<1>2. NoLease \in LeaseType
  BY LeaseAssumption, <1>1 DEF NoLease, LeaseType, Time
<1>. QED
  BY LeaseAssumption, <1>1, <1>2 DEF Own, Started, ProcType, Time

(* run() handles an error, or the loss of the lease, in order.             *)
LEMMA ResultOwn ==
  ASSUME Fenced, NEW r \in Replica, NEW res \in {"false", "error"},
         res = "false" \/ proc[r].pc \in {"sleep", "start", "sent", "answered"}
  PROVE  Own(r, Result(proc[r], res))
<1>. DEFINE p == proc[r]
<1>1. p \in ProcType /\ Own(r, p) /\ now \in Time /\ now \in Nat
  BY Split, LeaseAssumption DEF Shared, Time
<1>2. NoLease \in LeaseType
  BY LeaseAssumption DEF NoLease, LeaseType, Time
<1>3. CASE Result(p, res) = Started(now)
  BY <1>3, StartedOwn
<1>4. CASE Result(p, res) = Asleep(p) /\ (p.leading => now - p.last <= Duration)
  <2>. DEFINE q == Asleep(p)
  <2>1. /\ q \in ProcType /\ q.pc = "sleep" /\ q.since = now /\ (q.leading <=> p.leading)
        /\ q.last = p.last /\ ~q.fresh /\ ~q.ok
    BY <1>1, <1>2, AsleepFields
  <2>. HIDE DEF q
  <2>2. q.last <= q.since /\ now \in Int /\ CallBound \in Nat /\ Renew \in Nat
    BY <1>1, <2>1, LeaseAssumption DEF Own, ProcType, Time
  <2>3. q.leading => Covered(r, q.last - 2 * CallBound) /\ Loop(q)
    BY <1>1, <1>4, <2>1 DEF Own, Loop
  <2>4. Own(r, q)
    BY <2>1, <2>2, <2>3 DEF Own
  <2>. QED
    BY <1>4, <2>4 DEF q
<1>5. p.leading \in BOOLEAN /\ p.last \in Int /\ now \in Int /\ Duration \in Int
  BY <1>1, LeaseAssumption DEF ProcType, Time
<1>. QED
  BY <1>3, <1>4, <1>5 DEF Result

(* A successful answer is timed after the renewal it confirms.             *)
LEMMA SuccessOwn ==
  ASSUME Fenced, NEW r \in Replica, proc[r].pc = "answered", proc[r].ok
  PROVE  Own(r, Result(proc[r], "true"))
<1>. DEFINE p == proc[r]
            q == [pc |-> "sleep", since |-> now, leading |-> TRUE, last |-> now,
                  seen |-> NoLease, fresh |-> FALSE, ok |-> FALSE]
<1>1. p \in ProcType /\ Own(r, p) /\ now \in Time /\ now \in Nat /\ lease \in LeaseType
  BY Split, LeaseAssumption DEF Shared, Time
<1>2. NoLease \in LeaseType
  BY LeaseAssumption DEF NoLease, LeaseType, Time
<1>3. Result(p, "true") = q
  BY <1>1 DEF Result, Asleep, Reached, ProcType
<1>4. q \in ProcType
  BY <1>1, <1>2 DEF ProcType, Time
<1>5. Covered(r, now - 2 * CallBound)
  <2>1. Covered(r, p.since - CallBound) /\ now <= p.since + CallBound + 0
    BY <1>1 DEF Own
  <2>2. /\ p.since \in Int /\ lease.renew \in Int /\ lease.acquire \in Int
        /\ CallBound \in Int /\ Duration \in Int /\ now \in Int
    BY <1>1, LeaseAssumption DEF ProcType, LeaseType, Time
  <2>. QED
    BY <2>1, <2>2 DEF Covered
<1>. QED
  BY <1>1, <1>3, <1>4, <1>5, LeaseAssumption DEF Own, Loop, Time

(* The replace: accepted, it renews the sender's lease or takes over an    *)
(* expired one, and every other process keeps what it knew.                *)
LEMMA ReplaceStep ==
  ASSUME Fenced, NEW r \in Replica, Replace(r)
  PROVE  Fenced'
<1>. USE LeaseAssumption
<1>1. Shared /\ (\A s \in Replica : Own(s, proc[s])) /\ now' = now
  BY Split DEF Replace
<1>2. PICK p : p = proc[r]
  OBVIOUS
<1>3. PICK q : q = proc'[r]
  OBVIOUS
<1>4. /\ p.pc = "sent" /\ p \in ProcType /\ Own(r, p)
      /\ now \in Nat /\ now \in Time /\ p.since \in Nat /\ p.last \in Nat /\ p.fresh \in BOOLEAN
      /\ lease.renew \in Nat /\ lease.acquire \in Nat /\ lease \in LeaseType
  BY <1>1, <1>2 DEF Shared, ProcType, LeaseType, Time, Replace
<1>5. proc' = Answered(r, p.fresh)
  BY <1>2 DEF Replace
<1>6. /\ q \in ProcType /\ q.pc = "answered" /\ q.since = now /\ (q.leading <=> p.leading)
      /\ q.last = p.last /\ ~q.fresh /\ (q.ok <=> p.fresh)
  <2>1. q = [Reached(p, "answered") EXCEPT !.fresh = FALSE, !.ok = p.fresh]
    BY <1>2, <1>3, <1>5 DEF Answered
  <2>2. PICK x : x = Reached(p, "answered")
    OBVIOUS
  <2>3. /\ x \in ProcType /\ x.pc = "answered" /\ x.since = now /\ (x.leading <=> p.leading)
        /\ x.last = p.last
    BY <1>4, <2>2, ReachedFields
  <2>4. q = [x EXCEPT !.fresh = FALSE, !.ok = p.fresh]
    BY <2>1, <2>2
  <2>. QED
    BY <2>3, <2>4, <1>4 DEF ProcType
<1>7. /\ q.last <= q.since /\ p.last <= p.since /\ p.since <= now
      /\ now <= p.since + CallBound
  BY <1>4, <1>6 DEF Own
<1>8. q.leading => Loop(q)
  BY <1>4, <1>6, <1>7 DEF Own, Loop
<1>9. ASSUME NEW s \in Replica \ {r}, NEW z, z = proc[s], NEW y, y = proc'[s]
      PROVE  /\ y \in ProcType /\ z \in ProcType /\ y.pc = z.pc /\ y.since = z.since
             /\ (y.leading <=> z.leading) /\ y.last = z.last /\ y.seen = z.seen
             /\ (y.fresh <=> z.fresh /\ ~p.fresh) /\ (y.ok <=> z.ok)
  <2>1. z \in ProcType
    BY <1>1, <1>9 DEF Shared
  <2>2. y = [z EXCEPT !.fresh = z.fresh /\ ~p.fresh]
    BY <1>5, <1>9 DEF Answered
  <2>. QED
    BY <2>1, <2>2 DEF ProcType
<1>10. CASE p.fresh
  <2>1. lease' = Written(r) /\ p.seen = lease /\ lease.renew <= p.since
    BY <1>2, <1>4, <1>10 DEF Replace, Own
  <2>2. /\ lease'.holder = r /\ lease'.renew = p.since
        /\ lease'.acquire = IF lease.holder = r THEN lease.acquire ELSE p.since
    BY <1>2, <2>1 DEF Written
  <2>3. lease.acquire <= lease.renew /\ lease.holder \in Replica \cup {NoReplica}
    BY <1>1, <1>4 DEF Shared, LeaseType
  <2>4. lease' \in LeaseType /\ lease'.acquire <= lease'.renew /\ lease'.renew <= now
    <3>1. p.since \in Time /\ lease.acquire \in Time
      BY <1>4 DEF ProcType, LeaseType
    <3>2. lease' \in LeaseType
      BY <1>2, <2>1, <3>1 DEF Written, LeaseType
    <3>. QED
      BY <1>4, <1>7, <2>1, <2>2, <2>3, <3>2
  <2>5. ASSUME NEW s \in Replica \ {r}, NEW t \in Int, Covered(s, t), t <= now
        PROVE  Covered(s, t)'
    <3>1. lease.holder = s => p.since > lease.renew + Duration
      BY <1>4, <2>1 DEF Own
    <3>2. lease'.holder # s
      BY <2>2
    <3>. QED
      BY <1>4, <2>1, <2>2, <2>3, <2>5, <3>1, <3>2 DEF Covered
  <2>6. ASSUME NEW s \in Replica \ {r} PROVE Own(s, proc[s])'
    <3>1. PICK z : z = proc[s]
      OBVIOUS
    <3>2. PICK y : y = proc'[s]
      OBVIOUS
    <3>3. /\ y \in ProcType /\ z \in ProcType /\ y.pc = z.pc /\ y.since = z.since
          /\ (y.leading <=> z.leading) /\ y.last = z.last /\ y.seen = z.seen
          /\ ~y.fresh /\ (y.ok <=> z.ok)
      BY <3>1, <3>2, <1>9, <1>10
    <3>4. Own(s, z)
      BY <1>1, <3>1
    <3>5. z.since \in Int /\ z.last \in Int /\ z.since <= now /\ z.last <= z.since
      BY <3>3, <3>4 DEF ProcType, Time, Own
    <3>6. z.ok => z.pc = "answered" /\ Covered(s, z.since - CallBound)'
      <4>1. z.since - CallBound \in Int /\ z.since - CallBound <= now
        BY <3>5, <1>4
      <4>. QED
        BY <3>4, <4>1, <2>5 DEF Own
    <3>7. z.leading => Covered(s, z.last - 2 * CallBound)' /\ Loop(z)
      <4>1. z.last - 2 * CallBound \in Int /\ z.last - 2 * CallBound <= now
        BY <3>5, <1>4
      <4>. QED
        BY <3>4, <4>1, <2>5 DEF Own
    <3>8. y.leading => Loop(y)
      BY <3>3, <3>7 DEF Loop
    <3>9. Own(s, y)'
      <4>1. /\ now <= y.since + CallBound + (IF y.pc = "sleep" THEN Renew ELSE 0)
            /\ y.pc = "sent" => \/ y.seen.holder \in {NoReplica, s}
                                \/ y.since - y.seen.renew > Duration
        BY <3>3, <3>4 DEF Own
      <4>2. y.since <= now /\ y.last <= y.since
        BY <3>3, <3>5
      <4>3. /\ y.ok => y.pc = "answered" /\ Covered(s, y.since - CallBound)'
            /\ y.leading => Covered(s, y.last - 2 * CallBound)'
        BY <3>3, <3>6, <3>7
      <4>. QED
        BY <3>3, <3>8, <4>1, <4>2, <4>3, <1>1 DEF Own, Loop
    <3>. QED
      BY <3>2, <3>9 DEF Own
  <2>7. Own(r, q)'
    <3>1. Covered(r, q.since - CallBound)'
      BY <1>4, <1>6, <1>7, <2>2 DEF Covered
    <3>2. Covered(r, q.last - 2 * CallBound)'
      BY <1>4, <1>6, <1>7, <2>2 DEF Covered
    <3>3. now <= q.since + CallBound + (IF q.pc = "sleep" THEN Renew ELSE 0)
      BY <1>4, <1>6
    <3>4. (q.leading => Loop(q))'
      BY <1>8 DEF Loop
    <3>5. q.since <= now /\ q.pc # "sent"
      BY <1>4, <1>6
    <3>. QED
      BY <1>1, <1>6, <1>7, <3>1, <3>2, <3>3, <3>4, <3>5 DEF Own
  <2>8. \A s \in Replica : Own(s, proc[s])'
    <3>1. Own(r, proc[r])'
      BY <2>7, <1>3 DEF Own
    <3>. QED
      BY <2>6, <3>1
  <2>9. Shared'
    <3>1. \A s \in Replica : proc'[s] \in ProcType
      BY <2>8 DEF Own
    <3>2. proc' \in [Replica -> ProcType]
      BY <3>1, <1>5 DEF Answered
    <3>. QED
      BY <2>4, <3>2, <1>1, <1>4 DEF Shared
  <2>. QED
    BY <2>8, <2>9, Split DEF Fenced, TypeOK, Timely, Conditional, Proven, Bounded, Shared, Own, Deadline
<1>11. CASE ~p.fresh
  <2>1. lease' = lease
    BY <1>2, <1>11 DEF Replace
  <2>2. ASSUME NEW s \in Replica PROVE Own(s, proc[s])'
    <3>1. CASE s = r
      <4>1. Own(r, q)'
        BY <1>1, <1>4, <1>6, <1>7, <1>8, <1>11, <2>1 DEF Own, Covered, Loop
      <4>. QED
        BY <3>1, <4>1, <1>3 DEF Own
    <3>2. CASE s # r
      <4>1. PICK z : z = proc[s]
        OBVIOUS
      <4>2. PICK y : y = proc'[s]
        OBVIOUS
      <4>3. /\ y \in ProcType /\ z \in ProcType /\ y.pc = z.pc /\ y.since = z.since
            /\ (y.leading <=> z.leading) /\ y.last = z.last /\ y.seen = z.seen
            /\ (y.fresh <=> z.fresh) /\ (y.ok <=> z.ok)
        BY <3>2, <4>1, <4>2, <1>9, <1>11
      <4>4. Own(s, z)
        BY <1>1, <4>1
      <4>5. Own(s, y)'
        BY <4>3, <4>4, <1>1, <2>1 DEF Own, Covered, Loop
      <4>. QED
        BY <4>2, <4>5 DEF Own
    <3>. QED
      BY <3>1, <3>2
  <2>3. Shared'
    <3>1. \A s \in Replica : proc'[s] \in ProcType
      BY <2>2 DEF Own
    <3>2. proc' \in [Replica -> ProcType]
      BY <3>1, <1>5 DEF Answered
    <3>. QED
      BY <3>2, <2>1, <1>1 DEF Shared
  <2>. QED
    BY <2>2, <2>3, Split DEF Fenced, TypeOK, Timely, Conditional, Proven, Bounded, Shared, Own, Deadline
<1>. QED
  BY <1>4, <1>10, <1>11

(* Init establishes it.                                                    *)
LEMMA InitFenced == Init => Fenced
<1>. SUFFICES ASSUME Init PROVE Fenced
  OBVIOUS
<1>1. NoLease \in LeaseType /\ now \in Time /\ now = 0
  BY LeaseAssumption DEF Init, NoLease, LeaseType, Time
<1>2. Shared
  BY <1>1, LeaseAssumption DEF Init, Shared, NoLease, Started, ProcType, Time
<1>3. ASSUME NEW r \in Replica PROVE Own(r, proc[r])
  <2>1. proc[r] = Started(0) /\ proc[r] \in ProcType
    BY <1>2 DEF Init, Shared
  <2>. QED
    BY <1>1, <2>1, LeaseAssumption DEF Own, Started
<1>. QED
  BY <1>2, <1>3, Split

(* Every step keeps it.                                                    *)
LEMMA NextFenced == Fenced /\ [Next]_vars => Fenced'
<1>. SUFFICES ASSUME Fenced, [Next]_vars PROVE Fenced'
  OBVIOUS
<1>. USE LeaseAssumption
<1>1. Shared /\ \A r \in Replica : Own(r, proc[r])
  BY Split
<1>2. /\ now \in Time /\ now \in Nat /\ lease \in LeaseType
      /\ \A r \in Replica : proc[r] \in ProcType
      /\ \A r \in Replica : proc[r].since \in Nat /\ proc[r].last \in Nat
  BY <1>1 DEF Shared, Time, ProcType
<1>3. ASSUME NEW r \in Replica, Get(r) PROVE Fenced'
  <2>. DEFINE p == proc[r]
              x == Reached(p, "got")
              q == [x EXCEPT !.seen = lease, !.fresh = TRUE]
  <2>1. proc' = [proc EXCEPT ![r] = q]
    BY <1>3 DEF Get
  <2>2. p.pc \in {"start", "sleep"} /\ ~p.ok /\ p \in ProcType /\ Own(r, p)
    BY <1>1, <1>2, <1>3 DEF Get, Awake, Own
  <2>3. /\ x \in ProcType /\ x.pc = "got" /\ x.since = now /\ (x.leading <=> p.leading)
        /\ x.last = p.last /\ ~x.ok
    BY <1>2, <2>2, ReachedFields
  <2>. HIDE DEF x
  <2>4. /\ q \in ProcType /\ q.pc = "got" /\ q.since = now /\ (q.leading <=> p.leading)
        /\ q.last = p.last /\ q.seen = lease /\ ~q.ok
    BY <1>2, <2>3 DEF ProcType
  <2>. HIDE DEF q
  <2>5. q.last <= q.since /\ lease.renew <= q.since
    BY <1>1, <1>2, <2>2, <2>4 DEF Own, Shared
  <2>6. q.leading => Covered(r, q.last - 2 * CallBound) /\ Loop(q)
    BY <1>2, <2>2, <2>4 DEF Own, Loop
  <2>7. Own(r, q)
    BY <1>2, <2>4, <2>5, <2>6 DEF Own
  <2>. QED
    BY <2>1, <2>7, <1>3, LocalStep DEF Get
<1>4. ASSUME NEW r \in Replica, GetFails(r) PROVE Fenced'
  <2>1. proc[r].pc \in {"sleep", "start", "sent", "answered"}
    BY <1>4 DEF GetFails, Awake
  <2>. QED
    BY <1>4, <2>1, ResultOwn, LocalStep DEF GetFails
<1>5. ASSUME NEW r \in Replica, Decide(r) PROVE Fenced'
  <2>. DEFINE p == proc[r]
              q == Reached(p, "sent")
  <2>1. p.pc = "got" /\ p \in ProcType /\ Own(r, p) /\ ~p.ok
    BY <1>1, <1>2, <1>5 DEF Decide, Own
  <2>2. CASE p.seen.holder \in {NoReplica, r} \/ Expired(p.seen)
    <3>1. proc' = [proc EXCEPT ![r] = q]
      BY <2>2, <1>5 DEF Decide
    <3>2. /\ q \in ProcType /\ q.pc = "sent" /\ q.since = now /\ (q.leading <=> p.leading)
          /\ q.last = p.last /\ q.seen = p.seen /\ (q.fresh <=> p.fresh) /\ ~q.ok
      BY <1>2, <2>1, ReachedFields
    <3>. HIDE DEF q
    <3>3. q.leading => Covered(r, q.last - 2 * CallBound) /\ Loop(q)
      BY <1>2, <2>1, <3>2 DEF Own, Loop
    <3>4. lease.renew <= now /\ q.last <= q.since
      BY <1>1, <1>2, <2>1, <3>2 DEF Shared, Own
    <3>5. Own(r, q)
      BY <1>2, <2>1, <2>2, <3>2, <3>3, <3>4 DEF Own, Expired
    <3>. QED
      BY <3>1, <3>5, <1>5, LocalStep DEF Decide
  <2>3. CASE ~(p.seen.holder \in {NoReplica, r} \/ Expired(p.seen))
    <3>1. proc' = [proc EXCEPT ![r] = Result(p, "false")]
      BY <2>3, <1>5 DEF Decide
    <3>2. Own(r, Result(p, "false"))
      BY ResultOwn
    <3>. QED
      BY <3>1, <3>2, <1>5, LocalStep DEF Decide
  <2>. QED
    BY <2>2, <2>3
<1>6. ASSUME NEW r \in Replica, Answer(r) PROVE Fenced'
  <2>1. CASE proc[r].ok
    BY <2>1, <1>6, SuccessOwn, LocalStep DEF Answer
  <2>2. CASE ~proc[r].ok
    <3>1. \E res \in {"false", "error"} : proc' = [proc EXCEPT ![r] = Result(proc[r], res)]
      BY <1>6, <2>2 DEF Answer
    <3>. QED
      BY <3>1, <1>6, ResultOwn, LocalStep DEF Answer
  <2>. QED
    BY <2>1, <2>2
<1>7. ASSUME NEW r \in Replica, ReplaceFails(r) PROVE Fenced'
  BY <1>7, ResultOwn, LocalStep DEF ReplaceFails
<1>8. ASSUME NEW r \in Replica, Crash(r) PROVE Fenced'
  BY <1>8, StartedOwn, LocalStep DEF Crash
<1>9. ASSUME Tick PROVE Fenced'
  <2>1. /\ now' = now + 1 /\ now < MaxTime /\ UNCHANGED <<lease, proc>>
        /\ \A r \in Replica : now < Deadline(r)
    BY <1>9 DEF Tick
  <2>2. Shared'
    BY <2>1, <1>1, <1>2 DEF Shared, LeaseType, Time
  <2>3. ASSUME NEW r \in Replica PROVE Own(r, proc[r])'
    BY <2>1, <1>1, <1>2, <2>3 DEF Own, Deadline, Covered, Loop
  <2>. QED
    BY <2>2, <2>3, Split DEF Fenced, TypeOK, Timely, Conditional, Proven, Bounded, Shared, Own, Deadline
<1>10. CASE UNCHANGED vars
  BY <1>10 DEF vars, Fenced, TypeOK, Timely, Conditional, Proven, Bounded, Deadline, Covered, Loop
<1>. QED
  BY <1>3, <1>4, <1>5, <1>6, <1>7, <1>8, <1>9, <1>10, ReplaceStep DEF Next

-----------------------------------------------------------------------------
(* Succession: a reliable replica goes round its loop in time              *)

(* What holds of one process and of the lease, in integers.                *)
LEMMA Numbers ==
  ASSUME Fenced, NEW r \in Replica
  PROVE  LET p == proc[r]
         IN  /\ p \in ProcType /\ lease \in LeaseType /\ now \in Time
             /\ now \in Int /\ lease.renew \in Int /\ lease.renew <= now
             /\ p.since \in Int /\ p.since <= now /\ p.seen.renew \in Int
             /\ now <= p.since + CallBound + (IF p.pc = "sleep" THEN Renew ELSE 0)
             /\ p.fresh => p.seen = lease /\ lease.renew <= p.since
             /\ Duration \in Nat /\ Renew \in Nat /\ CallBound \in Nat
<1>1. Shared /\ Own(r, proc[r])
  BY Split
<1>2. proc[r] \in ProcType /\ lease \in LeaseType /\ now \in Time
  BY <1>1 DEF Shared, Own
<1>3. /\ now \in Int /\ lease.renew \in Int /\ proc[r].since \in Int
      /\ proc[r].seen.renew \in Int
      /\ Duration \in Nat /\ Renew \in Nat /\ CallBound \in Nat
  BY <1>2, LeaseAssumption DEF ProcType, LeaseType, Time
<1> QED BY <1>1, <1>2, <1>3 DEF Shared, Own

(* A result leaves the process awake or asleep since now.                  *)
LEMMA ResultTimed ==
  ASSUME NEW p \in ProcType, NEW res, now \in Time, NoLease \in LeaseType
  PROVE  Result(p, res).pc \in {"start", "sleep"} /\ Result(p, res).since = now
<1>1. Asleep(p) \in ProcType /\ Asleep(p).pc = "sleep" /\ Asleep(p).since = now
  BY AsleepFields
<1>2. Started(now).pc = "start" /\ Started(now).since = now
  BY DEF Started
<1>3. LET q == [Asleep(p) EXCEPT !.leading = TRUE, !.last = now]
      IN  q.pc = "sleep" /\ q.since = now
  BY <1>1 DEF ProcType
<1> QED BY <1>1, <1>2, <1>3 DEF Result

(* A renewal that is accepted was stamped at most one call ago.            *)
LEMMA RenewRecent ==
  ASSUME Fenced, NEW r \in Replica, Replace(r), proc[r].fresh
  PROVE  /\ lease'.renew >= lease.renew
         /\ lease'.renew >= now - CallBound
<1>1. lease'.renew = proc[r].since /\ proc[r].pc = "sent"
  BY DEF Replace, Written
<1>2. /\ now \in Int /\ lease.renew \in Int /\ proc[r].since \in Int /\ CallBound \in Nat
      /\ now <= proc[r].since + CallBound + 0 /\ lease.renew <= proc[r].since
  BY <1>1, Numbers
<1> QED BY <1>1, <1>2

(* The lease is never set back.                                            *)
LEMMA RenewMonotonic ==
  ASSUME Fenced, Next
  PROVE  lease'.renew >= lease.renew
<1>1. CASE \E r \in Replica : Replace(r)
  <2>1. PICK r \in Replica : Replace(r)
    BY <1>1
  <2>2. CASE proc[r].fresh
    BY <2>1, <2>2, RenewRecent
  <2>3. CASE ~proc[r].fresh
    <3>1. lease' = lease
      BY <2>1, <2>3 DEF Replace
    <3>2. lease.renew \in Int
      BY Numbers
    <3> QED BY <3>1, <3>2
  <2> QED BY <2>2, <2>3
<1>2. CASE ~\E r \in Replica : Replace(r)
  <2>1. lease' = lease
    BY <1>2 DEF Next, Get, GetFails, Decide, Answer, ReplaceFails, Crash, Tick
  <2>2. lease.renew \in Int
    BY LeaseAssumption DEF Fenced, TypeOK, LeaseType, Time
  <2> QED BY <2>1, <2>2
<1> QED BY <1>1, <1>2

(* A process that only goes stale, if that, stays in time.                 *)
LEMMA TriedKept ==
  ASSUME Fenced, Next, NEW r \in Replica, Tried(proc[r]),
         proc'[r].pc = proc[r].pc, proc'[r].since = proc[r].since, proc'[r].seen = proc[r].seen,
         proc'[r].fresh = proc[r].fresh \/ lease'.renew >= now - CallBound
  PROVE  Tried(proc[r])'
<1> DEFINE age == proc[r].since - lease.renew
<1>1. /\ lease.renew \in Int /\ proc[r].since \in Int /\ proc[r].seen.renew \in Int
      /\ now \in Int /\ proc[r].since <= now
      /\ Duration \in Nat /\ Renew \in Nat /\ CallBound \in Nat
  BY Numbers
<1>2. lease'.renew >= lease.renew
  BY RenewMonotonic
<1>3. lease'.renew \in Int
  <2>1. lease' \in LeaseType
    BY NextFenced DEF Fenced, TypeOK
  <2> QED BY <2>1, LeaseAssumption DEF LeaseType, Time
<1>4. proc[r].since - lease'.renew <= age
  BY <1>1, <1>2, <1>3
<1>5. lease'.renew >= now - CallBound => proc[r].since - lease'.renew <= CallBound
  BY <1>1, <1>3
<1>6. CASE proc[r].pc \in {"start", "sleep"}
  BY <1>1, <1>3, <1>4, <1>6 DEF Tried
<1>7. CASE proc[r].pc = "got"
  <2>1. /\ age <= Duration + Renew + 5 * CallBound /\ proc[r].seen.renew <= lease.renew
        /\ proc[r].fresh \/ age <= CallBound
    BY <1>7 DEF Tried
  <2>2. proc'[r].fresh \/ proc[r].since - lease'.renew <= CallBound
    BY <1>1, <1>3, <1>4, <1>5, <2>1
  <2> QED BY <1>1, <1>2, <1>3, <1>4, <1>7, <2>1, <2>2 DEF Tried
<1>8. CASE proc[r].pc = "sent"
  <2>1. /\ age <= Duration + Renew + 6 * CallBound
        /\ proc[r].fresh \/ age <= 2 * CallBound
    BY <1>8 DEF Tried
  <2>2. proc'[r].fresh \/ proc[r].since - lease'.renew <= 2 * CallBound
    BY <1>1, <1>3, <1>4, <1>5, <2>1
  <2> QED BY <1>1, <1>3, <1>4, <1>8, <2>1, <2>2 DEF Tried
<1>9. CASE proc[r].pc = "answered"
  BY <1>1, <1>3, <1>4, <1>9 DEF Tried
<1>10. proc[r].pc \in {"start", "sleep", "got", "sent", "answered"}
  BY Numbers DEF ProcType
<1> QED BY <1>6, <1>7, <1>8, <1>9, <1>10

(* Its own steps keep a reliable replica in time: it neither dies nor does *)
(* a call of it fail.                                                      *)
LEMMA TriedOwnStep ==
  ASSUME Fenced, NEW r \in Replica, Tried(proc[r]),
         Get(r) \/ Decide(r) \/ Replace(r) \/ Answer(r)
  PROVE  Tried(proc[r])'
<1> DEFINE p == proc[r]
           age == p.since - lease.renew
<1>1. /\ p \in ProcType /\ lease.renew \in Int /\ p.since \in Int /\ p.seen.renew \in Int
      /\ now \in Int /\ now \in Time /\ p.since <= now
      /\ now <= p.since + CallBound + (IF p.pc = "sleep" THEN Renew ELSE 0)
      /\ p.fresh => p.seen = lease
      /\ Duration \in Nat /\ Renew \in Nat /\ CallBound \in Nat
  BY Numbers
<1>2. NoLease \in LeaseType /\ proc \in [Replica -> ProcType]
  BY LeaseAssumption DEF NoLease, LeaseType, Time, Fenced, TypeOK
<1>3. CASE Get(r)
  <2>1. proc'[r] = [Reached(p, "got") EXCEPT !.seen = lease, !.fresh = TRUE] /\ lease' = lease
    BY <1>2, <1>3 DEF Get
  <2>2. Reached(p, "got") \in ProcType /\ Reached(p, "got").pc = "got" /\ Reached(p, "got").since = now
    BY <1>1, ReachedFields
  <2>3. /\ proc'[r].pc = "got" /\ proc'[r].since = now /\ proc'[r].fresh
        /\ proc'[r].seen = lease
    BY <2>1, <2>2 DEF ProcType
  <2>4. age <= Duration + 4 * CallBound /\ p.pc \in {"start", "sleep"}
    BY <1>3 DEF Get, Awake, Tried
  <2>5. now - lease.renew <= Duration + Renew + 5 * CallBound
    BY <1>1, <2>4
  <2> QED BY <1>1, <2>1, <2>3, <2>5 DEF Tried
<1>4. CASE Decide(r)
  <2>1. /\ age <= Duration + Renew + 5 * CallBound /\ p.seen.renew <= lease.renew
        /\ p.fresh \/ age <= CallBound
        /\ lease' = lease /\ p.pc = "got" /\ now <= p.since + CallBound
    BY <1>1, <1>4 DEF Decide, Tried
  <2>2. CASE proc'[r] = Reached(p, "sent")
    <3>1. /\ proc'[r].pc = "sent" /\ proc'[r].since = now /\ (proc'[r].fresh <=> p.fresh)
      BY <1>1, <2>2, ReachedFields
    <3>2. now - lease.renew <= Duration + Renew + 6 * CallBound
      BY <1>1, <2>1
    <3>3. p.fresh \/ now - lease.renew <= 2 * CallBound
      BY <1>1, <2>1
    <3> QED BY <2>1, <3>1, <3>2, <3>3 DEF Tried
  <2>3. CASE proc'[r] = Result(p, "false") /\ ~Expired(p.seen)
    <3>1. proc'[r].pc \in {"start", "sleep"} /\ proc'[r].since = now
      BY <1>1, <1>2, <2>3, ResultTimed
    <3>2. now - p.seen.renew <= Duration
      BY <1>1, <2>3 DEF Expired
    <3>3. now - lease.renew <= Duration + 4 * CallBound
      BY <1>1, <2>1, <3>2
    <3> QED BY <2>1, <3>1, <3>3 DEF Tried
  <2> QED BY <1>2, <1>4, <2>2, <2>3 DEF Decide
<1>5. CASE Replace(r)
  <2>1. proc'[r] = [Reached(p, "answered") EXCEPT !.fresh = FALSE, !.ok = p.fresh]
    BY <1>5 DEF Replace, Answered
  <2>2. /\ Reached(p, "answered") \in ProcType /\ Reached(p, "answered").pc = "answered"
        /\ Reached(p, "answered").since = now
    BY <1>1, ReachedFields
  <2>3. proc'[r].pc = "answered" /\ proc'[r].since = now
    BY <2>1, <2>2 DEF ProcType
  <2>4. (p.fresh \/ age <= 2 * CallBound) /\ now <= p.since + CallBound
    BY <1>1, <1>5 DEF Replace, Tried
  <2>5. lease'.renew = IF p.fresh THEN p.since ELSE lease.renew
    BY <1>5 DEF Replace, Written
  <2>6. now - lease'.renew <= 3 * CallBound
    BY <1>1, <2>4, <2>5
  <2> QED BY <2>3, <2>6 DEF Tried
<1>6. CASE Answer(r)
  <2>1. \E res : proc'[r] = Result(p, res)
    BY <1>2, <1>6 DEF Answer
  <2>2. proc'[r].pc \in {"start", "sleep"} /\ proc'[r].since = now
    BY <1>1, <1>2, <2>1, ResultTimed
  <2>3. age <= 3 * CallBound /\ now <= p.since + CallBound /\ lease' = lease
    BY <1>1, <1>6 DEF Answer, Tried
  <2>4. now - lease.renew <= Duration + 4 * CallBound
    BY <1>1, <2>3
  <2> QED BY <2>2, <2>3, <2>4 DEF Tried
<1> QED BY <1>3, <1>4, <1>5, <1>6

(* Every step keeps every reliable replica in time.                        *)
LEMMA NextRenewing == Fenced /\ Renewing /\ Next => Renewing'
<1> SUFFICES ASSUME Fenced, Renewing, Next, NEW r \in Reliable
             PROVE  Tried(proc[r])'
  BY DEF Renewing
<1>1. r \in Replica /\ r \notin Crashable /\ r \notin Unreliable /\ Tried(proc[r])
  BY DEF Reliable, Renewing
<1>2. proc \in [Replica -> ProcType]
  BY DEF Fenced, TypeOK
<1>3. CASE Get(r) \/ Decide(r) \/ Replace(r) \/ Answer(r)
  BY <1>1, <1>3, TriedOwnStep
<1>4. CASE \E q \in Replica \ {r} : Get(q) \/ GetFails(q) \/ Decide(q) \/ Answer(q)
                                     \/ ReplaceFails(q) \/ Crash(q)
  <2>1. proc'[r] = proc[r]
    BY <1>1, <1>2, <1>4 DEF Get, GetFails, Decide, Answer, ReplaceFails, Crash
  <2> QED BY <1>1, <2>1, TriedKept
<1>5. CASE \E q \in Replica \ {r} : Replace(q)
  <2>1. PICK q \in Replica \ {r} : Replace(q)
    BY <1>5
  <2>2. proc'[r] = [proc[r] EXCEPT !.fresh = @ /\ ~proc[q].fresh]
    BY <1>1, <2>1 DEF Replace, Answered
  <2>3. proc[r] \in ProcType
    BY <1>1, <1>2
  <2>4. /\ proc'[r].pc = proc[r].pc /\ proc'[r].since = proc[r].since
        /\ proc'[r].seen = proc[r].seen
        /\ proc'[r].fresh = (proc[r].fresh /\ ~proc[q].fresh)
    BY <2>2, <2>3 DEF ProcType
  <2>5. proc[r].fresh \in BOOLEAN
    BY <2>3 DEF ProcType
  <2>6. proc[q].fresh => lease'.renew >= now - CallBound
    BY <2>1, RenewRecent
  <2> QED BY <1>1, <2>4, <2>5, <2>6, TriedKept
<1>6. CASE Tick
  <2>1. proc'[r] = proc[r]
    BY <1>6 DEF Tick
  <2> QED BY <1>1, <2>1, TriedKept
<1> QED BY <1>1, <1>3, <1>4, <1>5, <1>6 DEF Next, GetFails, ReplaceFails, Crash

(* Every replica starts in time.                                           *)
LEMMA InitInv == Init => IInv
<1> SUFFICES ASSUME Init PROVE IInv
  OBVIOUS
<1>1. ASSUME NEW r \in Reliable PROVE Tried(proc[r])
  <2>1. proc[r] = Started(0) /\ lease = NoLease
    BY DEF Init, Reliable
  <2>2. Started(0).pc = "start" /\ Started(0).since = 0 /\ NoLease.renew = 0
    BY DEF Started, NoLease
  <2>3. Duration + 4 * CallBound >= 0
    BY LeaseAssumption
  <2> QED BY <2>1, <2>2, <2>3 DEF Tried
<1> QED BY <1>1, InitFenced DEF IInv, Renewing

(* Every step keeps the whole invariant.                                   *)
LEMMA NextInv == IInv /\ [Next]_vars => IInv'
<1>1. IInv /\ Next => IInv'
  BY NextFenced, NextRenewing DEF IInv
<1>2. IInv /\ UNCHANGED vars => IInv'
  <2>1. Renewing /\ UNCHANGED vars => Renewing'
    BY DEF Renewing, Tried, vars
  <2> QED BY <2>1, NextFenced DEF IInv
<1> QED BY <1>1, <1>2

(* The invariant holds in every reachable state.                           *)
THEOREM Invariance == Spec => []IInv
  BY InitInv, NextInv, PTL DEF Spec

(* The records of lease and processes keep their types.                    *)
THEOREM TypeCorrect == Spec => []TypeOK
<1>1. IInv => TypeOK
  BY DEF IInv, Fenced
<1>. QED
  BY <1>1, Invariance, PTL

(* A leader that was overtaken has stopped after Grace: one sleep, one     *)
(* try, and the delay between the stamp of a renewal and its timing.       *)
THEOREM Fencing == Spec => []FencedInTime
<1>1. IInv => FencedInTime
  <2>. SUFFICES ASSUME Fenced, NEW r \in Replica, proc[r].leading, lease.holder # r
                PROVE  now < lease.acquire + Grace
    BY DEF FencedInTime, IInv
  <2>1. Own(r, proc[r]) /\ lease \in LeaseType /\ now \in Time
    BY Split DEF Shared
  <2>2. /\ proc[r].since \in Int /\ proc[r].last \in Int /\ lease.acquire \in Int /\ now \in Int
        /\ Duration \in Nat /\ Renew \in Nat /\ CallBound \in Nat
    BY <2>1, LeaseAssumption DEF Own, ProcType, LeaseType, Time
  <2>3. now <= proc[r].last + Duration + Renew + 4 * CallBound
    <3>1. /\ now <= proc[r].since + CallBound + (IF proc[r].pc = "sleep" THEN Renew ELSE 0)
          /\ Loop(proc[r]) /\ proc[r].pc \in {"start", "sleep", "got", "sent", "answered"}
      BY <2>1 DEF Own, ProcType
    <3>. QED
      BY <2>2, <3>1 DEF Loop
  <2>4. lease.acquire > proc[r].last - 2 * CallBound + Duration
    BY <2>1 DEF Own, Covered
  <2>. QED
    BY <2>2, <2>3, <2>4 DEF Grace
<1>. QED
  BY <1>1, Invariance, PTL

(* The lease changes hands only after it expired.                          *)
THEOREM Takeover == Spec => TakeoverAfterExpiry
<1>1. IInv /\ [Next]_vars =>
        [lease.holder \notin {NoReplica, lease'.holder} => Expired(lease)]_vars
  <2>. SUFFICES ASSUME Fenced, Next, lease.holder \notin {NoReplica, lease'.holder}
                PROVE  Expired(lease)
    BY DEF vars, IInv
  <2>1. PICK r \in Replica : Replace(r)
    BY DEF Next, Get, GetFails, Decide, Answer, ReplaceFails, Crash, Tick
  <2>2. Own(r, proc[r]) /\ lease \in LeaseType /\ proc[r].pc = "sent" /\ now \in Time
    BY <2>1, Split DEF Shared, Replace
  <2>3. proc[r].fresh /\ lease'.holder = r
    BY <2>1 DEF Replace, Written
  <2>4. proc[r].since - lease.renew > Duration /\ proc[r].since <= now
    BY <2>2, <2>3 DEF Own
  <2>5. proc[r].since \in Int /\ lease.renew \in Int /\ now \in Int /\ Duration \in Int
    BY <2>2, LeaseAssumption DEF Own, ProcType, LeaseType, Time
  <2>. QED
    BY <2>4, <2>5 DEF Expired
<1>. QED
  BY <1>1, Invariance, PTL DEF Spec, TakeoverAfterExpiry

(* As long as one replica neither dies nor loses calls, the lease is       *)
(* renewed or taken over in time: that replica's last look at the lease is *)
(* never older than one turn of its loop.                                  *)
THEOREM Succession == Spec => []SuccessionInTime
<1>1. IInv => SuccessionInTime
  <2> SUFFICES ASSUME Fenced, Renewing, NEW r \in Reliable
               PROVE  now <= lease.renew + Duration + 2 * (Renew + 4 * CallBound)
    BY DEF SuccessionInTime, IInv, Reliable
  <2>1. r \in Replica /\ Tried(proc[r])
    BY DEF Reliable, Renewing
  <2>2. /\ proc[r] \in ProcType /\ now \in Int /\ lease.renew \in Int /\ proc[r].since \in Int
        /\ now <= proc[r].since + CallBound + (IF proc[r].pc = "sleep" THEN Renew ELSE 0)
        /\ Duration \in Nat /\ Renew \in Nat /\ CallBound \in Nat
    BY <2>1, Numbers
  <2>3. proc[r].since - lease.renew <= Duration + (IF proc[r].pc = "sleep" THEN 0 ELSE Renew) + 6 * CallBound
    BY <2>1, <2>2 DEF Tried, ProcType
  <2> QED BY <2>2, <2>3
<1> QED BY <1>1, Invariance, PTL
=============================================================================
