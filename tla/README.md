# A TLA+ model of the ZFS evacuation controller

The controller moves a zfs-localpv volume from one node to another: it copies
the dataset with `zfs send | zfs recv` through a TCP relay in its own process,
registers the copy as a new ZFSVolume, and replaces the PersistentVolume under
the same name so that the claim survives. This directory holds TLA+ modules
for its core, the TLC configurations that check them and TLAPS proofs.

## 1. Inventory

| Part | State | Operations | What is hard |
|---|---|---|---|
| Phase machine (`controller/state_machine.rs`) | `ZFSEvacuation.status` in etcd; finalizer on the CR | `reconcile`: one handler per phase, cancel check, terminal release | the check is separated from the act; each handler is a list of API writes that can stop anywhere |
| Transfer (`controller/transfer.rs`) | attempt record, in-memory relay, ZFSBackup, ZFSRestore, ZFSSnapshot | `transferring`, `transfer_verdict`, `retry_or_fail`, `start_attempt`, `cleanup_transfer_crs`, `destroy_target_snapshot` | timeouts against late answers, restarts that lose the relay, stale statuses, retries |
| Swap (`controller/pv_swap.rs`) | old and new PV, stored manifests, `committed` | `committing`, `swapping` | the claim has no PV for a while; only the commit record can recover it |
| Abort (`controller/abort.rs`) | everything above | `run` | unwinds five kinds of objects, from any phase, with any subset already undone |
| Relay (`transfer/relay.rs`) | sockets, 64 MiB buffer, byte counter | `spawn`, `accept_from` | single accept, back-pressure, stream end against status |
| Attach lock (`controller/mod.rs`, `crd/zfs_evacuation.rs`, `deploy/admission.yaml`) | one EvacuationParams object shared by all evacuations | `update_params`, `lock`, `unlock`, admission policy | optimistic concurrency, propagation delay, pods that exist already |
| Target selection (`controller/target.rs`, `colocation.rs`, `placement.rs`) | none of its own; reads all evacuations | `select_target`, `resolve`, `pick_anchor` | check-then-act under a mutex, reservations that outlive phases |
| Trigger (`controller/trigger.rs`) | none | `tick`: create, replace terminal CRs | lists that are stale when used |
| Leader election (`leader.rs`) | Lease | acquire, renew, fence | clocks, overlap of old and new leader |

They interact through Kubernetes objects only, except the relay (a map in the
process, `Ctx.transfers`) and the selection mutex. Other actors change the
same objects: users (claim, PV, annotation, taint, CR), the PV controller, the
csi-provisioner, the zfs-localpv agents on both nodes, and the cluster that
loses nodes.

What makes the parts correct:

* the claim never loses its data, whatever is interrupted, retried, aborted or
  deleted, and the source copy is destroyed only when the replacement is bound;
* after the commit record the evacuation only goes forward, before it an abort
  leaves the volume as it was;
* attempts never overlap, are bounded, and nothing of them is left behind;
* what is started ends: transfers, aborts, committed swaps;
* no write to the source is lost by the swap: writers are kept out from the
  snapshot to the delete of the old PV;
* several evacuations never overcommit a node, split a pod's volumes over
  nodes, or lose a lock entry;
* the trigger starts what is asked for, and removes nothing that runs;
* an overtaken leader stops soon, and a dead one is replaced;
* a status that is older than the last write does no more harm than the code
  is known to allow (see Findings), and none before it is used.

`PROJECT.json` lists every component with its status and every hazard at its
line.

## 2. Modules

| Module | Models | Proofs |
|---|---|---|
| `TransferVerdict` | the pure decision `transfer_verdict`, as an operator | |
| `Evacuation` | one evacuation of one volume: phase machine, transfer, swap, abort, and the actors around it | `EvacuationProofs` |
| `VolumeMove` | the abstract promise: the volume is on the source, moving, or on the target, and the copy it depends on is kept | `EvacuationProofs` |
| `StaleEvacuation` | `Evacuation` with the watch cache between the API server and the reconciles | `StaleProofs` |
| `AttachLock` | the lock, the admission policy, pods and node, the quiescence and settle checks | `AttachLockProofs` |
| `LockTable` | the EvacuationParams object under concurrent `update_params` | `LockTableProofs` |
| `LockSet` | the abstract promise: an update of that object is one step, of one key | `LockTableProofs` |
| `Selection` | target selection of several evacuations: caps, reservations, groups | `SelectionProofs` |
| `Trigger` | the trigger loop against operator and controller | `TriggerProofs` |
| `Lease` | leader election of any number of replicas, with time | `LeaseProofs` |
| `Relay` | the TCP relay of one attempt | `RelayProofs` |

`MC*.tla` give the constants of an instance; `MC*.cfg` are the runs. A
definition under a comment "Mutant" is not part of the specification: it is the
definition that follows it with a plausible bug, one that a property must
notice (the pairs are listed in `PROJECT.json`).

### How the modules fit together

`StaleEvacuation` EXTENDS `Evacuation` and reuses its handlers; `Evacuation`
uses `TransferVerdict` and is refined to `VolumeMove`. The other modules take
one concern out of `Evacuation`, where it is a free choice, and give it the
state it has in the code:

* `AttachLock` refines "Quiescing, Committing and Swapping may wait". Its
  Copying is TargetSelecting, Transferring and Adopting in one.
* `LockTable` refines the one bit `locked` that an evacuation takes and
  releases: that bit is this evacuation's key in the shared object, and
  `LocksKept` is what makes it private, and `LocksAtOnce` what lets
  `Evacuation` and `AttachLock` set and clear it in one step.
* `Selection` refines "some node is chosen", over several evacuations whose
  other phases are one step each.
* `Trigger` has the CR that `Evacuation` is about as a small life cycle.
* `Relay` refines the relay that `Evacuation` sees as "listening, connected,
  ended well or badly"; `OkDelivers` is what the verdict relies on.
* `Lease` says for how long there may be two processes. `Selection` (a mutex
  in the process), `Trigger` (one loop) and `Evacuation` (one reconcile of a CR
  at a time) are about one process; see "Two leaders" under Divergences.

### How `Evacuation` corresponds to the code

*Status.* `evac` holds the fields of `ZFSEvacuationStatus` that decide anything:
`phase`, `committed`, `cancelled`, `orig` (`original_reclaim_policy`; `source`
and `pvc_ref` are recorded with it), `target`, the attempt number,
`failure_reason` as a bit, `target_snap_delete_issued`. `cr` is the object
itself: without our finalizer, with it, being deleted, gone.

*Objects.* `pv.obj` is the recorded PV (`old`), the replacement (`new`), a PV
an operator put there (`foreign`) or none; `pvc` is the recorded UID, gone, or
another UID. `szv`, `tzv` are the ZFSVolume CRs, `sdata`, `tdata`, `tsnap` what
is on the disks. `bkp`, `rst`, `scr` are the CRs of the current attempt. A CR
that is deleted before its agent attached a finalizer disappears at once, as
with the API server.

*Reconciles.* Before the commit point a reconcile is two steps: `Begin`
(finalizer and cancel check) and the handler. Anything may happen between
them, which is how a condition that was true when read is false when used.
`GiveUp` is the handler that waits or errors before its first write. A wait
writes the status it was called with to carry its message (`Waits`), which
changes nothing here, and a lot in `StaleEvacuation`. One reconcile of a CR
runs at a time, as kube-runtime guarantees. After the commit point nothing is
checked beforehand, and a reconcile is one step.

*Writes.* A handler's API writes happen in order. `\E n \in Cut(k)` chooses
after how many of its `k` writes it stopped and `Wrote(n, i, new, old)` is the
value after the i-th. So a single action covers every way an API error or a
crash can interrupt the handler. `Crash` additionally loses the relay.
With `faulty` FALSE all writes take effect; `FaultsEnd` turns errors off for
good, which liveness needs.

*Time.* The attempt timeout and the stall limit are two bits chosen anew at
each verdict: "has passed" or "has not". The model never assumes that a limit
is longer than anything.

*Reads.* `SeenStatus` lets the transfer handler use a CR status that the agent
has since replaced by a terminal one.

*Left out here.* Pods, the settle period and the lock's propagation delay
only decide whether Quiescing, Committing and Swapping wait; here they may
wait or go on at will, which covers every outcome of those checks for the
safety properties (`AttachLock` has them as state). Pending may refuse a
volume for reasons outside the model. Messages, events, byte counts and
logging are not state. The choice of the target is "some node that exists"
(`Selection` has it). A handler sees the current status of its own evacuation
(`StaleEvacuation` does not).

### The abstract specifications

`VolumeMove` has four variables: where the volume's home is, whether each copy
exists, and whether the claim is still attached. Its actions only allow
leaving the source when both copies are complete, and dropping the source copy
when the volume has arrived or the claim is gone. `Evacuation` defines the
refinement mapping (`Home`, `sdata`, `Adopted`, `Claimed`) and
`MovesVolume == Move!Spec`.

`LockSet` has the lists each key is in, and no object, version or call. A key
changes lists in one step (`Lock`, `Unlock`), which only its evacuation takes,
while it asks for it; an evacuation may not learn of the step, and asks again,
but it does not go on without it. `LockTable` maps its two lists to
`lists` and states `LocksAtOnce == Locks!Spec`.

### How the other modules correspond to the code

**`StaleEvacuation`.** `watch` is the queue of status versions the API server
has and the cache does not; its head is what a reconcile is called with. A
version also says whether the deletion timestamp was set. `view` is the status
of the reconcile under way. `StaleBegin` repeats `Begin` on the cached status;
the handlers are those of `Evacuation` applied to `view`. A write replaces the
stored status by one computed from `view`, as `write_status` does (a merge
patch without `resourceVersion`, `mod.rs:147-157`). That includes the writes
that only carry a message: `wait()` (`state_machine.rs:152-155`), the
`requeue_msg` of an abort, the bytes of Continue (`transfer.rs:114-117`) and the
settle anchor all put the whole old status back, phase included. `stale` counts
the reconciles that were called with an old version. The CRs of a transfer are
found under the name of their attempt, so a handler with an old attempt number
does not see those of the current one (`Bkp`, `Rst`, `NoneFor`); `tried` is the
attempt they belong to. A new process starts with an empty queue. Objects
other than the ZFSEvacuation are read from the API server by the code and are
current here. Users set and withdraw the trigger, and delete the claim and the
CR; the source node may leave.

**`AttachLock`.** `params` is where the claim's key is stored, `enforced`
where the admission policy's cache has it; `PropagateLock` moves one to the
other in less than `Propagation`. Ages (`lockedAt`, `quiescedAt`, `released`,
`unblocked`) are capped counters. A reconcile is `ListPods` and then the
handler, which reads the node: users act between the two. Pods have a *kind*,
the part of their spec that decides whether the policy admits them under a
lock and whether the scheduler may put them on the source. `dirty` is set by a
write to the source after `Snapshot`. `Restart` is a crash or a failed call.
`EditMode` is the operator changing `spec.mode`.

**`LockTable`.** `update_params` is a read (`Get`), then no write, an accepted
replace, or a conflict; `call.version` says whether the version read is still
current, `tries` counts conflicts. `Fail` is an API error, and the write
whose answer is lost. `Retry` is the next reconcile.

**`Selection`.** `target_selecting` is `Caps` (with the mutex taken),
`Resolve`, `Select` and `Write`; other evacuations go on between them.
`Reserved`, `Need`, `Members`, `PickAnchor`, `Candidates` are the pure parts,
translated from `target.rs` and `colocation.rs`. `free` is what a pool really
has, `report` what the ZFSNode says; `Report` catches up, at some time. Phases
after the selection are one step each, with their effect on space, owner and
PV; in "gap" the PV does not exist and `Resolve` skips the volume. Two history
variables mark what the code cannot see: `blind`, the volumes placed while a
sibling was in that gap, and `misled`, those whose target was chosen on a
report above what was free.

**`Trigger`.** `loop.pc` names the next API call of the tick: list PVs, get
the CR, delete it, check the condition afresh, create, list nodes, list
ZFSVolumes. `handle` is what the list of PVs said. The CR's life is
`running`, `committed`, `swapped`, then terminal; `EnsureFinalizer`,
`CancelSeen`, `Commit`, `Swap`, `Complete`, `LetGo` and `Fail` are what
`reconcile` makes of it.

**`Lease`.** `try_acquire` is four instants (get, decide, replace, answer), at
most `CallBound` apart. `Result` is what `run` does with each outcome: lead,
sleep, exit. `Tick` moves the clock and cannot pass a deadline; that is the
only assumption on timing.

**`Relay`.** `task` is the relay task (accept source, accept target, drain),
`reader` the task that pumps, `queue` the bounded channel, `wire` the socket of
the source, `unread` how much the target has not read yet: `Drain` waits when
it is a socket full. Chunk *i* of the stream is the number *i*, so order and
completeness are visible. `Blocked` says when the source agent's idle timeout
can fire.

## 3. Runs

Deadlock is not checked: in each module a state in which everything is done
and nobody asks for anything really stops.

| Run | Module | Bounds | Shows | States |
|---|---|---|---|---|
| `safety` | `MCEvacuation` | 2 attempts, annotation trigger, both nodes removable, API errors | `PVBacked`, `AbortUnwinds`, `CompletedSettles`, `IInv`, `RollForwardOnly`, `GuardHolds`, `SourceDeletedLast`, `OneAttemptAtATime`, `MovesVolume` | 2.0 M |
| `liveness` | `MCEvacuation` | 2 attempts, taint trigger, errors for a while, source removable | `CommittedCompletes`, `TransferEnds`, `UnlandedAbortEnds` | 338 k |
| `stale` | `MCStaleEvacuation` | 2 attempts, API errors, source removable, cache at most 2 versions behind, 2 reconciles on old versions | `StaleIInv`, `OncePVBacked`, `SourceOutlasts`, `LiveRelayKept`, `AttemptsApart` | 3.5 M |
| `attach_lock` | `MCAttachLock` | 2 pods, both modes, settle 2, propagation 2 | `IInv`, `NoLostWrites`, `NoWriterMidCopy`, `SettledBeforeCopy`, `QuietEnds` | 102 k |
| `lock_table` | `MCLockTable` | 3 evacuations, 2 tries, one with failing calls | `LocksKept`, `UnlockEnds` | 767 k |
| `selection` | `MCSelection` | 3 volumes, 4 nodes not always Ready, headroom 10 % | `IInv`, `OneInbound`, `RoomToLand`, `NeverSplit`, `FollowersArrive` | 108 k |
| `trigger` | `MCTrigger` | 1 loop, 3 moves, 5 requests, API errors | `NeverInterrupts`, `Justified`, `Served` | 29 k |
| `lease` | `MCLease` | 2 replicas, one crashes and loses calls, duration 3, renew 1, calls up to 1, time to 18 | `IInv`, `FencedInTime`, `SuccessionInTime`, `TakeoverAfterExpiry` | 974 k |
| `relay` | `MCRelay` | 7 chunks, queue 3, socket 2 | `OkDelivers`, `Pumped`, `SourceReleased`, `StreamEnds` | 6.5 k |

`TypeOK`, the `IInv` of `LockTable`, `Trigger` and `Relay`, and `LocksAtOnce`
appear in no run of their own since they are proved for all constants.

Why the bounds are enough:

* *Evacuation.* Two attempts reach the first attempt, a retry and the
  exhausted limit, including teardown overlapping with late agents; a third
  adds no new kind of step. The annotation trigger is the richer one for
  safety because the swap itself removes it; the taint trigger is used where
  the absence of a node matters. There is one volume: nothing in these
  handlers reads another evacuation except target selection. Byte counts are
  0 or 1 since the verdict only asks for "more than 0".
* *Stale cache.* Two versions behind are enough to be called with the status
  before the last phase change while another change is already stored. Two
  attempts let a reconcile meet the relay and the CRs of an attempt its status
  does not know. Two reconciles on old versions (`MaxStale`) are enough for one
  to undo what the other relied on; `OncePVBacked` says what the first one
  leaves intact, and `finding_stale_commit` what two can do.
* *AttachLock.* One pod to be listed and one to slip in. A settle period of 2
  tells "not yet" from "just now"; longer ones only add ticks. The source may
  be made schedulable again at will in WhenIdle; in WhenClaimed the node is
  what the code relies on, and the theorem says so (`Orderly`).
* *LockTable.* Two evacuations conflict, the third makes the last try of one
  fail. `Tries` is 2 instead of 8: what matters is reaching the last one.
* *Selection.* A pod with two volumes (size 10 each) on a drained node, and a
  volume without a consumer (13) that moves off another node by its
  annotation; that node and the drained one are no targets for the one and the
  other. Either target has 22: room for the pod with its headroom, or for the
  other volume, not for both. The second volume of the pod may fail, be
  cancelled and retried. `MCSelection` shows the instance. Any node may be
  found not Ready, a report may lag, and the swap has its gap.
* *Trigger.* Three moves and five requests are a request per move, with a
  withdrawal or a deletion in between.
* *Lease.* `MaxTime` 18 lets the lease change hands twice. Duration 3 to
  renew 1 is the ratio of 30 s to 10 s. With no failing replica the bounds of
  the two time properties would be tighter.
* *Relay.* Seven chunks are one more than queue, socket and reader hold.

What TLC does not reach: the StaleRelay verdict (a relay older than the
recorded attempt) cannot arise with a single controller process. It is kept
because the code has it.

### Findings

Three runs are expected to be violated; each states what the documentation or
a comment promises.

* `finding_abort_livelock` (`AbortEnds`): if the ZFSRestore is Done when the
  abort starts, the target ZFSVolume is created and deleted over and over
  (`abort.rs:54-80`), since the ZFSRestore that triggers it is only cleaned up
  afterwards (`abort.rs:86-89`). The retain policy, the lock and the guard
  are never given back. `UnlandedAbortEnds` is the part that holds.
* `finding_failed` (`EndedUnwound`): `fail()` writes Failed and nothing else.
  `target_selecting` calls it when the PV has disappeared
  (`state_machine.rs:572-574`), `committing` when its UID changed
  (`pv_swap.rs:76-78`), and by then the lock is taken and the guard is set. The
  finalizer that is there "so deletion runs abort logic"
  (`zfs_evacuation.rs:15`) is then removed without it, as Failed is terminal
  (`state_machine.rs:36-42`): the claim stays in the EvacuationParams object
  and the guard on the source ZFSVolume. `AbortUnwinds` is about every other
  end, also with the PV gone.
* `finding_stale_commit` (`DataKept`): status writes carry no
  `resourceVersion`, and a reconcile may run on an older status. (a) The
  trigger is withdrawn, Aborting is recorded, the trigger is set again, and a
  reconcile on the earlier status goes on and overwrites Aborting with its next
  phase, while the abort has already destroyed the copy. (b) The CR is deleted
  while Committing runs; the reconcile that follows is called with a status
  that is not committed yet, so it aborts (`state_machine.rs:44-47`) and
  overwrites the commit record. In both, abort and swap each run to their end,
  and the source as well as the copy is destroyed. What holds with old statuses
  is `OncePVBacked` (one such reconcile does no harm to a live claim),
  `SourceOutlasts`, `AttemptsApart` and, with the exception it names,
  `LiveRelayKept`.

### Divergences

Properties the code does not keep, some of which a comment or document
suggests, with how to see each. The definitions stay in the modules and are
in no run. "Spec" means: replace FairSpec by Spec in the configuration, as
only a safety property is asked.

| Divergence | Property and configuration | Where |
|---|---|---|
| *Lost attempt record.* The relay is registered before the attempt is recorded; if that write fails every later reconcile of the process meets a live relay and requeues. | `TransferEnds` without its last alternative, `MCEvacuationLiveness.cfg` | `transfer.rs:437-445`, `462-487` |
| *Cancel ignored after the commit record.* The README ends cancellation at the delete of the old PV, the code one reconcile earlier. | `CancelHonouredUntilDelete`, `MCEvacuationSafety.cfg` | `state_machine.rs:58-70`, `pv_swap.rs:84-89` |
| *Failed keeps the copy.* `committing` can fail without unwinding, contrary to the comment on Failed. | `FailedKeepsNoCopy`, `MCEvacuationSafety.cfg` | `pv_swap.rs:76-78`, `target.rs:106` |
| *Orphan dataset.* Retry and abort delete the ZFSRestore, the only sign that a dataset landed. | `AbortDestroysCopy`, `MCEvacuationSafety.cfg` | `transfer.rs:288-293`, `abort.rs:71-89` |
| *Node gone.* With a node missing `start_attempt` errors forever and no attempt is counted; a cancel helps. | `TransferBounded`, `MCEvacuationLiveness.cfg` with MaxAttempts 1 | `transfer.rs:447-452` |
| *Two leaders.* A leader measures its lease from the answer of the last renewal and looks at it every 10 s, so for up to `Grace` two replicas work. | `SingleLeader`, `MCLease.cfg` with Unreliable {r1, r2}; also with Duration 6, Renew 2, CallBound 0, MaxTime 14 | `leader.rs:45-51`, `89-99` |
| *Settle anchor.* The cleared `quiesced_at` is only written when the message changes, so a block does not always restart the settle period. | `SettleRestarts`, `MCAttachLock.cfg` | `state_machine.rs:473-475`, `144-157` |
| *Settle race.* In WhenClaimed the pods are listed before the node is read: a pod may come and go in between. | `SettledBeforeCopy` without its premise `mode = "WhenIdle"` | `state_machine.rs:472`, `493-499` |
| *Early pod.* A pod from before the lock that tolerates the cordon is pending when quiescing looks, and starts on the source later. | `NoLostWrites`, EarlyKinds with "cordonTolerant" | `state_machine.rs:507-542` |
| *NoExecute toleration.* The policy does not count a keyless toleration with effect NoExecute, which a NoExecute evacuate taint accepts. | `NoLostWrites`, Kinds with "noExecuteTolerant" | `admission.yaml:56-57` |
| *Mode edited after the lock.* The key stays in the list of the old mode while the checks follow the new one. | `NoLostWrites`, MayEditMode TRUE | `state_machine.rs:513`, `pv_swap.rs:47` |
| *Split group.* While the PV of a sibling is swapped it does not exist and is left out of the group ("Never split a group"): the volume that is placed meanwhile goes elsewhere. A trace has 13 steps. | `NeverSplit` without `Sighted(v)`, `MCSelection.cfg`, Spec | `colocation.rs:63-65`, `state_machine.rs:579-584`, `633` |
| *Overcommit.* A Completed evacuation gives up its reservation before the agent reports the space as used; nothing in `cleaning_up` waits for the report. A trace has 15 steps. | `RoomToLand` without `v \notin misled`, `MCSelection.cfg`, Spec | `target.rs:110`, `state_machine.rs:676-754` |
| *Headroom.* What is needed includes headroom, what is held for followers does not: another volume takes the difference and the follower waits. | `HoldSuffices`, `MCSelection.cfg` with size 2 for `w`, Unsteady {}, Spec (holds with Headroom 0) | `target.rs:121-137`, `85-90` |
| *Failed member.* A Failed member keeps its `status.target` and counts as placed: the group's hold leaves it out, and the room may be gone when it is retried. | `HoldSuffices`, `MCSelection.cfg` with size 3 for `w`, Headroom 0, Spec (holds with Unsteady {}) | `target.rs:94-109` |
| *Wedge.* In a group of three the third volume is counted in the leader's hold and in the second one's need: the second waits for space its own group holds. | `HoldSuffices`, three volumes of size 10 in one group on node 1, pools of 33, Headroom 0, Unsteady {}, Spec | `target.rs:130-137`, `state_machine.rs:585-594` |
| *Two loops.* While two leaders overlap a loop may delete, by name, the evacuation the other one has just created. | `NeverInterrupts`, Loop {l1, l2} with l2 declared in `MCTrigger`, Spec | `trigger.rs:168-181` |
| *Removed for nothing.* A terminal CR is deleted before the condition is checked afresh. | `MakesRoom`, `MCTrigger.cfg` | `trigger.rs:181`, `51-54` |
| *Stale status, once.* One reconcile on an old status, cancel or mere wait, writes that status back: the record of an attempt, a commit or an abort is lost. | `RollForwardOnly`, `OneAttemptAtATime`, `AbortUnwinds`, `CompletedSettles`, `MCStale.cfg` with MaxStale 1 | `mod.rs:147-157`, `state_machine.rs:59-68`, `152-155` |
| *Stale status, twice.* Two of them can put the source at risk while it is copied, and leave a live claim without its data. | `GuardHolds`, `PVBacked`, `MCStale.cfg` | `mod.rs:147-157` |
| *Stale status of a judged attempt.* The failure reason is looked at before the age of the relay: the relay of the next attempt is dropped, against the comment that it "must never be killed". | `LiveRelayKept` without `~view.failed`, `MCStale.cfg` | `transfer.rs:173`, `186-194` |

## 4. Fairness

*Evacuation.* `ControllerFairness`: every handler ends in a requeue
(`Action::requeue`, or `error_policy` after an error), so a step that stays
possible is taken (weak fairness on `Begin`, `GiveUp`, `Swapping`,
`CleaningUp`, `Abort`, `ReleaseTerminal`). `Transferring` gets strong fairness
because it is enabled only while a reconcile is under way; with fresh statuses
only, as reads are eventually current. `FaultsEnd` is fair: API errors do not
last forever. Fairness of `Swapping` assumes that the operator does not leave
the source uncordoned, or pods in place, forever; the code waits for that and
asks for it in `status.message`. `AgentFairness`: agents and the PV controller
retry. Adoption and binding are strongly fair, since users may disable them
for a while. There is no fairness on users, node removal, crashes, or on the
progress of the stream: a transfer ends even if no byte ever moves. Where
`TransferEnds` is checked, crashes are possible any number of times, and API
calls fail between any two writes until `FaultsEnd`.

*AttachLock.* Weak fairness of reconciling, propagation and time. Strong
fairness of the handlers, since `Restart` (an API error) interrupts them: a
call that is made again and again succeeds at some time. Nothing is assumed of
pods and node; `QuietEnds` has their rest as its premise.

*LockTable.* Weak fairness of `update_params` and of the requeue of a failed
reconcile. `UnlockEnds` assumes that the others' updates end, as eight
conflicts in a row can otherwise happen forever.

*Selection.* `Caps` is strongly fair: tokio's mutex is FIFO and a waiting
evacuation is requeued every 60 seconds. A selection that could succeed again
and again succeeds: a node that is Ready now and then is Ready at one of these
times. The other phases and the agents' reports are weakly fair.
`FollowersArrive` assumes `RoomSuffices`: from some time on the ledger leaves
a waiting follower the room it asks for, which the code's hold does not ensure
(*Headroom*, *Failed member*, *Wedge*); and unsteady evacuations come to rest.

*Trigger.* The loop ticks every 15 seconds (weak fairness of its first call),
its other calls may fail but not forever (strong), the controller reconciles.
Nothing is assumed of the operator.

*Relay.* tokio runs a task that can go on. The agents promise nothing: that a
target reads is a premise of `StreamEnds`, which is about streams without a
dead peer. A connected target that stops reading blocks `write_all`
(`relay.rs:140`) for good; the stall detector (`transfer.rs:216-222`) is for it,
and `TransferEnds` covers it.

*Lease, StaleEvacuation.* Safety only. Progress of `Lease` is a bound in time
(`SuccessionInTime`), not a liveness property.

## 5. Proofs

The theorems hold for every value of the constants. They assume the named
`ASSUME` of the module, which types the constants, and what the column
"Under" says.

| Theorem | Module | Statement | Under |
|---|---|---|---|
| `Invariance` | `EvacuationProofs` | `Spec => []IInv` | |
| `TypeCorrect` | `EvacuationProofs` | `Spec => []TypeOK` | |
| `PVBackedAlways` | `EvacuationProofs` | `Spec => []PVBacked` | |
| `RollForward` | `EvacuationProofs` | `Spec => RollForwardOnly` | |
| `GuardProtects` | `EvacuationProofs` | `Spec => GuardHolds` | |
| `AbortUndoes` | `EvacuationProofs` | `Spec => AbortUnwinds` | |
| `CompletionSettles` | `EvacuationProofs` | `Spec => []CompletedSettles` | |
| `SourceGoesLast` | `EvacuationProofs` | `Spec => SourceDeletedLast` | |
| `AttemptsFollow` | `EvacuationProofs` | `Spec => OneAttemptAtATime` | |
| `Implements` | `EvacuationProofs` | `Spec => MovesVolume` | |
| `FreshIsSafe` | `StaleProofs` | `StaleSpec => []Fresh` | |
| `FreshRefines` | `StaleProofs` | `StaleSpec => [][stale' = 0 => [Next]_vars]_staleVars` | |
| `WritesKept` | `AttachLockProofs` | `Spec => []NoLostWrites` | `Orderly` |
| `SourceQuiet` | `AttachLockProofs` | `Spec => []NoWriterMidCopy` | `Orderly` |
| `CopySettled` | `AttachLockProofs` | `Spec => SettledBeforeCopy` | `Orderly` |
| `LocksNeverLost` | `LockTableProofs` | `Spec => []LocksKept` | |
| `UpdatesAtOnce` | `LockTableProofs` | `Spec => LocksAtOnce` | |
| `OneTransferPerNode` | `SelectionProofs` | `Spec => [](OneInbound /\ OneOutbound)` | |
| `RoomKept` | `SelectionProofs` | `Spec => []RoomToLand` | |
| `GroupsStay` | `SelectionProofs` | `Spec => []NeverSplit` | |
| `OneLoopNeverInterrupts` | `TriggerProofs` | `Spec => NeverInterrupts` | `SingleLoop` |
| `OneLoopJustified` | `TriggerProofs` | `Spec => Justified` | `SingleLoop` |
| `Fencing` | `LeaseProofs` | `Spec => []FencedInTime` | clocks agree, calls are bounded |
| `Takeover` | `LeaseProofs` | `Spec => TakeoverAfterExpiry` | the same |
| `Succession` | `LeaseProofs` | `Spec => []SuccessionInTime` | the same |
| `Delivery` | `RelayProofs` | `Spec => []OkDelivers` | |
| `Pumping` | `RelayProofs` | `Spec => []Pumped` | |

Each proof module first proves `Invariance` of its `IInv`: one lemma or step
per action, under it one step per conjunct the action can disturb.

**Evacuation.** `PVBacked` alone is not inductive: it does not say why a
source dataset cannot be destroyed while the old PV exists, nor why the copy
is complete when the old PV is removed. `IInv` adds the reasons:

* `CommitMarksPhase`, `SourceRecorded`, `FinalizerHolds`: what the phase says
  about the commit record, the recorded source and the CR's finalizer;
* `ClaimKeepsPV`: while the recorded claim exists its PV is bound, so neither
  pv-protection nor the provisioner lets it go, and only Swapping removes it;
* `NewPVCommitted`, `SourceKept`: the replacement exists only after the
  commit, and until the swap is over the source ZFSVolume is live;
* `CopyKept`: from the moment a restore has received everything to the end of
  the evacuation, the copy is there; it is deleted only by an abort;
* `GuardSet`: the guard finalizer is on the source from Retaining to Swapping.

These are `Safe`. `AbortUnwinds` and `CompletedSettles` ask for more
(`Recorded`): whatever exists must be on record, so that the one who ends the
evacuation finds it, and nothing may come into being once it has looked.

* `NothingTaken`: before the old policy is recorded there is no lock, no guard
  and no target, so an abort without a record has nothing to give back;
* `AttemptRecorded`: a target ZFSVolume or a transfer CR means that an attempt
  was counted, and an attempt that a target was chosen;
* `RelayOwned`, `AbortHeld`: a relay lives in Transferring or is dropped by the
  abort, and an abort still has the finalizer to run under;
* `PolicyBack`: the new PV has the recorded policy from the moment it exists;
* `SnapshotOwned`, `NothingLeft`: the snapshot-only ZFSRestore and the snapshot
  belong to CleaningUp, which leaves only when each is seen to be gone.

`SourceDeletedLast` and `OneAttemptAtATime` follow from the same invariant,
one action at a time.

There is one lemma per handler on its effect on the status. The refinement
proof classifies every action as one abstract action or a stutter.

**StaleEvacuation.** With old statuses most of `IInv` is false, so what can be
proved for every `MaxLag`, `MaxStale` and number of attempts is where the
boundary lies. `Fresh`: as long as every reconcile was called with the stored
version, although versions queue up, deletions become versions of their own
and the cache may lag behind at any other moment, the status a handler works on
is the stored one and `IInv` of `Evacuation` holds. `FreshRefines`: up to there
every step is a step of `Evacuation`'s `Next` or a stutter, so that every
action property proved of `Evacuation` carries over. `FreshReconcile` is the
lemma behind both: a reconcile called with the stored version is one of
`Evacuation`'s, the deletion check included; a deletion that comes between the
call and the handler is one a user could make after `Begin`. What holds after a
reconcile on an old version (`OncePVBacked`, `SourceOutlasts`, `LiveRelayKept`,
`AttemptsApart`) is model-checked.

**AttachLock.** `NoLostWrites` needs to know that nobody can write.
`Enforced`: the policy has the key before anything relies on it, since a full
propagation delay has passed since Locking. `ListedInTime`: what a list of
pods says is still true of the pods that matter when the reconcile acts on
it, though it was read earlier. `Closed`: in WhenIdle no pod exists in the
window, in WhenClaimed none is on the source and none that is pending can get
there. `Unwritten`: hence the snapshot is the whole truth. `Orderly` is
exactly what the divergences *Early pod*, *NoExecute toleration* and *Mode
edited* violate, and that the operator keeps the node closed in WhenClaimed.
`Settled`: in WhenIdle a running settle period means that no pod exists and
that the last one left the source at least as long ago, whence
`SettledBeforeCopy`.

**LockTable.** `Current`: a version that will be accepted is the object.
`OwnKey`: only the evacuation itself moves its key, so that even an old
version is right about it. Together they give that a replace changes one key.
The refinement of `LockSet` has two steps to look at: a replace that is
accepted, whether or not its answer arrives (`StoreTakesEffect`, from
`Current`), and a call that finds nothing to write (`NothingTakesEffect`). The
latter may have read a version that others have replaced since, and returns Ok
without the API server comparing versions; it is right to, by `OwnKey`.

**Selection.** `Checked`: what `target_selecting` has read about the caps
stays true until it writes, because only the holder of the mutex
(`Exclusive`) makes a node busier. `Targeted`: which phases have a target.

`RoomToLand` is about the space that is really free, while `placement` only
knows the ledger: what the agent reported (`ZFSNode`), less a sum over the
volumes on their way. It excepts the volumes that were placed on a report that
was too high at that moment (`misled`), and only those: later events take
nothing from the others.

* `Undrained`, `Moved`: no data goes to a node that is being drained, and a PV
  moves once, to its target;
* `Roomy`: a choice that passed the ledger and the caps on a true report has
  room, and no other volume lands there until it does, as it keeps the node
  busy (`OneInbound`). Where reports come from does not matter.

The sums are the community modules' fold over a set. The library states
nothing about it, so `SumUnrolls` (the sum is that of one element and of the
rest) and `SumNat` (sums of sizes are sizes) are proved from its definition,
by a least counterexample among the finite subsets. `NeedCovers`: what
`select_target` asks for is at least the volume's size.

`NeverSplit` is about a group whose members name each other, come from one
node, have no target set by hand (`Whole`) and were all placed while the PVs of
the others existed (`Sighted`). `Following`: a volume that has chosen went
where its group is. `Joined`: so does one that has read its group but has not
yet written, since under the mutex nobody else decides in between.

**Trigger.** `Doomed`: with one loop, what it read before the delete can only
go away, as nobody else creates. `Checked`: what it checked afresh still holds
at the create unless the operator withdrew it since (`overtaken`), hence
`Justified`.

**Lease.** `Covered(r, t)`: a renewal stamped `t` or later reached the lease,
and if another replica holds it now, it took it more than a duration after
`t`. `Proven` says what a replica believes is covered in this sense,
`Conditional` that an accepted replace acts on the lease as it was read,
`Bounded` how old a leader's last success can be at each instant of its loop.
Adding the two gives `Grace`. The converse, that a replica takes over in time,
needs `Renewing`: how old the lease can be at each instant of the loop of a
replica that neither crashes nor loses calls. It only sleeps on a lease that
had not expired, or that another replica renewed while it tried to.

**Relay.** The pieces of the stream in `got`, queue, reader and socket are
consecutive (`Delivered`, `Queued`, `Held`, `Wired`), their lengths add up
(`Counted`), and a good end means that nothing is left (`Closing`). `Pumped` rests on
`Early` (nothing is delivered before the target is there) and `Attended`
(while the source is open its reader is at work or the relay has ended).

### Only model-checked

Liveness, which TLAPS does not prove with these back ends, and what
`StaleEvacuation` keeps once a reconcile was called with an old version
(`OncePVBacked`, `SourceOutlasts`, `LiveRelayKept`, `AttemptsApart`). Every other
safety property that a passing run checks is a theorem, under the conditions
that the table names.

## 6. Not modelled, and the plan

Not modelled:

* the placement predicate (`placement.rs`): pure, without state, and covered
  by its unit test; `Selection` takes its result as a constant;
* pool names and the lookups of StorageClass and allowed node ids: `Selection`
  has one pool per node and a constant set of admitted nodes;
* peer addresses and port allocation of the relay; the stream of an agent that
  goes silent is cut and ends the relay with "ok" (`Relay`: `SourceCloses` when
  `Blocked`): only the agents' statuses tell it from a complete one;
* `set_finalizers` against another controller's finalizer: nothing here reads
  foreign finalizers;
* the PV's absence in `Trigger`, which only makes a tick skip the volume;
* in `StaleEvacuation`, finalizers of the ZFSEvacuation as the cache has them
  (they are taken as current), the ports and the snapshot name of an attempt
  that is started twice, and an operator's PV under the old name;
* configuration, logging, serialization, manifests, the end-to-end script:
  no state that a property depends on.

What could follow, in this order:

1. A proof of what one reconcile on an old version leaves intact.
2. A reference definition of `transfer_verdict` over all observations.
3. `Selection` and `Trigger` composed with the overlap that `Lease` allows.
4. `Selection` with a bound on how long a report lags, to say how long
   *Overcommit* can last.
