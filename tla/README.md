# tako in TLA+

tako deploys containers to a small cluster of Linux hosts. A command on a laptop
or in CI (the *coordinator*) drives an agent, `takod`, on every node. One enrolled
node is the *controller*: it owns the membership of the cluster and grants the
right to mutate it. This directory models

- the right to write, on which everything else rests: who may mutate which node,
  when, and what is left of that right after timeouts, crashes and lost replies;
- the cluster that the right is about: nodes joining, leaving and being told of it,
  and the allocations that proxies may route to;
- the durable operation queue through which the platform worker applies mutations
  on the controller;
- what the mutations do: how a service gets from one revision to the next on all
  nodes and proxies, and what failed deployments leave to the next one.

## 1. Inventory of the system

| Part | State it keeps | Operations | Interacts with |
|---|---|---|---|
| Operation grant, inventory (`pkg/nodeidentity`) | signed values only | validate, sign, verify, publish the inventory | everything below |
| Worker fence (`pkg/takod/fence.go`, `lifecycle_gate.go`) | `worker-fence.json` (high-water mark, active and previous grant), `cluster-inventory.json`, deny latch; in process: admitted handlers, operation barrier, timers | activate, renew, revoke, admit a mutation, accept an inventory | coordinator (RPC), maintenance loops (file lock), root commands (files) |
| Controller authority (`pkg/takod/fence.go`, `lease.go`) | `control-operation.json` (token counter, active operation, history), lease file per project/environment, request bindings | acquire, renew, recover, change phase, release, reconcile expired | coordinator (RPC), membership |
| Coordinator lease set (`pkg/engine/leases.go`) | the grant it holds, the targets it fenced, a renewal goroutine | acquire, publish, renew, lose, release | controller and all targets |
| Membership and lifecycle (`pkg/platform/membership.go`, `cmd/platform_nodes.go`) | membership file, join tokens, tombstones, removal operations | join, promote, cordon, drain, remove, publish inventory | worker fence (generation), mesh |
| Allocation authority (`pkg/takod/allocation_authority.go`) | one pending proposal, allocation generation | prepare, publish, acknowledge, commit, recover | membership, proxy, coordinator |
| Port allocation (`pkg/takod/ports.go`) | registry file, Docker's view | allocate, release | reconciliation |
| Job scheduler (`pkg/takod/jobs.go`) | specifications, running set, run records | apply, trigger, tick, remove | cron goroutines, service files |
| Platform operation journal (`pkg/platform/operations.go`, `ingress.go`, `admission.go`, `worker.go`) | `queue/` and `history/` files, audit journal; in process: goroutines, operation and build slots | enqueue, claim, admit, dispatch, complete, requeue, mark ambiguous, recover | `takod` (executes), callers on the ingress socket, service manager |
| Node upgrade (`pkg/provisioner/upgrade_publish.go`, `cmd/upgrade.go`) | node lease, pending marker, previous binaries | begin, publish, roll back, commit | inventory lock, snapshot lock |
| Deployment (`pkg/engine/deploy.go`, `promote.go`, `rollback.go`, `scale.go`, `pkg/deployer`, `pkg/reconcile`, `pkg/takod/reconcile.go`, `actual.go`) | labelled containers, proxy routes, desired revision, history | plan, roll out, promote, roll back, scale, remove, switch, prune | lease set, all nodes, Docker |
| Placement (`pkg/scheduler`, `pkg/engine/placement_apply.go`) | slot assignments, movement plan | assign, plan movement, apply | desired state, deployment |
| State replication and repair (`pkg/takodstate`, `pkg/engine/state*.go`) | revisions on every node | write, pull, elect, repair | all nodes |
| Local state lock (`pkg/state`) | a lock file | acquire, release, steal | other processes of the same project |

The remaining parts (configuration, secrets, SSH, mesh, provisioning, proxy and
ACME, backups, builds, monitoring, output) either translate documents or drive
external tools; `PROJECT.json` lists each with the reason it is left out.

What is hard about the modelled parts:

- *Several files, one fact.* The controller writes a lease, a request binding and
  a journal; a worker writes a fence record while its barrier lives in memory.
  Every gap between two of them is a crash point. The platform worker moves an
  operation between two directories in two steps, with the effect in between.
- *Three clocks.* A grant expires on the controller, on each worker and in the
  coordinator's mind at different moments.
- *Calls that were given up.* A timed-out request may still run, after the
  release, after its successor, or never.
- *Renewal during mutation.* A background goroutine replaces the grant that the
  main thread's requests carry.
- *One fact, many copies.* The membership is a file on the controller, an inventory
  and a list of WireGuard peers on every node, and a deny latch; they are brought in
  line one by one by commands that may stop anywhere and be resumed later.
- *State that is only observed.* A deployment has no record it trusts: it reads the
  labels of the running containers of all nodes, merges them into one value, and
  plans from that.
- *Two kinds of mutual exclusion.* In-process read/write mutexes serialise
  handlers of one `takod`; kernel file locks serialise it with maintenance. Root
  commands take neither of the mutexes.

`PROJECT.json` lists the hazards line by line, each with the properties that
would catch it or with the reason none does yet.

## 2. Modules

```
TokenFence            abstract: a single-writer register per node
FenceGrant            grants, inventories, validity, renewal order
  WorkerFence         one or more nodes' fences, barrier, maintenance, latch
                      (Register == INSTANCE TokenFence WITH ...)
  ControllerAuthority journal, leases, bindings, expiry, crashes between files
OperationFence        coordinators + controller + workers + network
                      (W == INSTANCE WorkerFence, C == INSTANCE ControllerAuthority)
OperationJournal      the platform worker's operation queue
NodeLifecycle         membership, enrollment, cordon, drain, removal, publication
AllocationAuthority   proposals of mesh allocations: publish, commit, recover
Rollout               containers and proxies of one service, deployments that fail
FenceGrantProofs      renewal is a strict partial order
WorkerFenceProofs, ControllerAuthorityProofs, OperationJournalProofs,
NodeLifecycleProofs, AllocationAuthorityProofs, RolloutProofs
                      theorems about each component
OperationFenceProofs  the composed system, from the theorems about its parts
                      (WP == INSTANCE WorkerFenceProofs, CP == INSTANCE
                      ControllerAuthorityProofs)
MC*.tla, *.cfg        instances for TLC
```

**FenceGrant.** A grant is the record of `nodeidentity.OperationFence`: token,
operation ID, scope, kind of operation, membership generation, targets and
validity window. Signatures and the private holder credential are abstracted:
models hold only grants a controller signed, and only the holder of an operation
presents its grant. Lifecycle states are folded to the three that admission tells
apart.

**WorkerFence.** `fenceState[n]` is `worker-fence.json`; `inventory[n]` and
`denied[n]` are the two other durable files. `running[n]` is the set of grants
under which an admitted handler is running: the handler holds
`workerFenceAdmissionMu` shared, so actions that take it exclusively
(`ActivateFence`, `RevokeFence`, `AcceptInventory`) require `running[n] = {}`.
The deny latch is read before the mutex is taken, so passing it and being
admitted are two steps (`PassDenyLatch`, `AdmitMutation`). An activation keeps that mutex
from its checks to its end (`activating[n]`) and goes through four steps: the checks and
the release of a displaced operation's barrier (`BeginActivation`), the barrier
(`HoldBarrier`, which waits for the kernel lock while maintenance has it), the record
(`WriteFence`) and the binding of the barrier to the new grant with its timer
(`BindBarrier`). Each is a critical section of its own in the code, and the timers of
earlier grants (`BarrierTimer`) and maintenance, which do not take the mutex, run between
them. `HoldBarrierFails` and `WriteFenceFails` are the error paths. `ActivateFence` is the
four steps in one, for `OperationFence`, which has no maintenance that could tell the
difference. `BarrierTimer` releases the barrier only when the hold's present expiry has
passed.
`RestartTakod` keeps the files and drops the rest. `InstallInventory` is the root
command that replaces the inventory without the mutex.

**TokenFence.** What a node promises, with nothing of how it keeps the promise: a
highest token, at most one owning operation and the operations with a writer inside.
Ownership is acquired under a higher token than ever before and given up only while no
writer is inside; writers of the owner enter and leave. `WorkerFence` implements it with
`owner` the operation of the active grant and `writers` the operations of the running
handlers (`IsTokenFence`): activation under a new token is `Acquire`, revocation
`Release`, admission `Enter`, the end of the last handler or of the process `Leave`;
renewals, retries, the latch, the barrier, maintenance and inventories are stutters.

**ControllerAuthority.** Every handler holds `operationFenceMu` throughout and is
one action, plus one for each point between two file writes at which it can die
or fail: `AcquireAborts` (after the lease, with or without the binding),
`RenewCrashes` (after the journal, before the lease), `ReleaseCrashes`.
`RecoverRenewal` answers a coordinator that lost the reply of its renewal.
`RetireExpired` and `ReconcileExpired` retire an operation whose grant expired.
Acquisition validates the inventory before it takes the mutex, so it may use an
older one (`ReadInventory`). Ghost variables: `issued` (every grant the journal
ever held), and `history`, which the code cuts at 256 entries.

**OperationFence.** A coordinator has a program counter for its main thread and
one for its renewal goroutine, each with at most one call outstanding. `net`
holds requests sent and not yet executed; nothing orders them. A caller may give
up (`Timeout`) and the request may still be executed afterwards; node restarts
answer nothing (`Unanswered`). The order of the protocol is that of
`acquireControllerOperationLeaseSet`: acquire, activate on the controller itself,
fetch the inventory snapshot, publish it and the fence to the other targets,
report the phase, mutate; then revoke on every target and release, where a failed
revocation keeps the lease. `renewAll` renews at the controller, publishes to all
targets and only then switches. Clocks of nodes differ by at most `MaxSkew`.

**OperationJournal.** `queue[o]` and `archive[o]` are the files of operation `o` in
`queue/` and `history/`, reduced to status and phase; operations are numbered in
the order in which `listLocked` sorts them. `task[o]` is where the goroutine of
`OperationEngine.Run` or the stream handler of the ingress stands, and `mode` is the
process: recovering, serving, told to stop, returning on an error, or down. The store
mutex makes each store operation one action; `Settled` (`complete`, `markAmbiguous`)
and `Requeued` may be cut short by a fault after any of their writes, and such a
fault ends the engine's loop or the ingress (`FaultStops`). `Pruned` removes any part
of the history, since age, number and size all play a role. `Admit` takes an
operation slot and then, holding it, a build slot. After dispatch takod answers
(`ReturnAnswer`), the call fails without an answer (`ReturnError`) or the context is
done (`CancelAfterDispatch`). `Exit` drops everything but the files; `Recover` is one
record of `recoverIncomplete`, so a crash may fall between two of them. A crash
between takod's answer and the settling of the record is an `Exit` while the
operation is still dispatched. Ghost variables: `enqueued`, `dispatches`, `answer`.
The sets `ReplaySafe`, `Build` and `Malformed` are what `Plan` derives from an
operation. A slot is given back together with settling; in the engine it is given
back just before, in the ingress just after.

**NodeLifecycle.** `members`, `removal` and `open` are the membership file: the
lifecycle of every worker, the phase of its removal and the join tokens that can
still be used. `ctlInv`, `ctlPeers` are the controller's inventory and WireGuard
peers; `inv[w]`, `peers[w]`, `latch[w]`, `meshKey[w]`, `takod[w]` are the files and
the agent of a worker. `cmd[s]` is where a CLI process on the controller stands in
`lifecycleCommand`, `resumeNodeRemoval` or `runPlatformNodeEnroll`: every write of
the membership, every script on a worker and every read-back is a step, and `Abort`
may end the command between any two of them (so may a failed script, after either of
its effects). The steps of a verb and their order are data (`FirstStep`, `AfterLoop`,
`ResumeAt`), taken from the branches of these functions. Since every change of the
file raises its generation, an inventory is represented by the lifecycles it was
derived from, and comparing generations is comparing those.

**AllocationAuthority.** `ctl` is the part of the membership file that matters here:
both generations, the schedulable workers and the allocations of every scope.
`pending` is `pending.json`; `client[o]` is the CLI process of operation `o` in
`authorizeTakodMeshAllocations`; `flight` holds inventories posted to an edge and not
yet handled, which may arrive at any later time; `edge[e]` is the inventory on an
edge. A handler on the controller is one step, because takod holds the exclusive
lifecycle lock throughout, and a crash between two files it writes is a step of its
own. Lifecycle commands change the membership at any time and copy the inventory to
edges in two steps: it is uploaded (`UploadInventory`), and installed at any later time
over whatever is there (`InstallInventory`; the script compares no generations). Both
generations end at a bound; `Exhausted` stands for the wrap of the 64-bit allocation
generation, at which `Prepare` refuses and a recovery falls back to the generation after
the controller's. Ghosts: `held`, the edges that have accepted the pending candidate,
`uncommitted`, the candidates never committed, and `stale`, the edges where an
installation came after the controller had moved on.

**Rollout.** One proxied service. `containers[n][r]` is the replica of revision `r` on
node `n` with its `tako.active` label, `route[p]` the upstreams in the proxy
configuration of `p`, `config` the revision `tako.yaml` describes, `session` the
command that runs, and `step[n]` how far it is on node `n`. Commands hold the
operation fence of every node (this is what the other modules are about), so one runs
at a time; but they fail and die at any step, and the next one starts from what is
left. A command reads the labels (`CurrentRevision`, `ConfigHash`, `Replicas`: the
merge of `ParseActualState` within a node and of `AggregateActualStateByServer` over
the nodes), decides whether anything changed (`Changed` is `detectChanges`), and goes
through reconcile, switch and prune, each on all nodes in parallel and each ending the
command if one node failed. `Rollback` reads the labels a second time, as the code
does, and `Scale` reconciles the proxies without active revisions. Docker lists
containers in any order, so a merge within a node may have several results, and the
hash and the current revision are merged independently of each other.

## 3. What is checked

| Run | Instance | Size | Shows |
|---|---|---|---|
| `worker_fence` | one node; op1 with two renewals, op2 for a later membership, op3 that claims op2's token; clock 0..4 | 304,000 states, 120 s | type, `RunningUnderGrant`, `NodeSingleWriter`, `OverlapOnlyAfterLapse`; refinement: `IsTokenFence`; liveness: `BarrierEventuallyReleased`, `ActivationNotStranded` |
| `controller_authority` | two request IDs, one of them reused with another scope; two memberships; TTL 2 | 275,814 states, 24 s | type, `TokenIdentifiesOperation`, `RequestBoundOnce`, `GrantsFormChain`, `LeaseWithinFence`, `HandoverAfterExpiry` |
| `handover` | two coordinators of different projects, controller and worker, TTL 1, two faults | 1,016,922 states, 92 s | type, `CompletedIsQuiescent`, `ClusterSingleWriter` |
| `renewal` | one coordinator, two renewals, a membership change, one fault | 711,829 states, 47 s | `RevocableByHolder`, `HolderIsAdmitted` |
| `operation_journal` | a plain request that builds, a replay-safe request, a streamed build; two slots, one build slot, queue of two; two faults | 139,680 states, 50 s | type, `AtMostOnce`, `OutcomeHonest`, `QueueIsOwned`, `OutcomeFinal`; liveness: `RequestSettles` |
| `node_lifecycle` | two workers, two tokens for the first and one for the second, one command at a time, any number of failures | 4,853,427 states, 135 s | type, `FailClosed`, `RemovedIsIsolated`, `PublishedToAll`, `ClearedWhenAttested`, `RemovedForGood` |
| `allocation_authority` | one worker, two edges, two operations of one application (one with both edges, one with one), two membership and two allocation generations, one copy of the inventory to an edge, any number of failures | 1,263,452 states, 35 s | type, `SameGenerationSameContent`, `AbandonedIsTracked`, `CommitAfterEveryEdge`, `AuthorityIsMonotonic` |
| `rollout` | three nodes, two with a proxy; four revisions (two recreate, one rolling, one manual blue-green; of one or three replicas); two edits or special commands, two faults, plain deploys without limit | 362,014 states, 80 s | type, `OneUnscopedContainer`, `SwitchIsServed`, `LiveContainersStay`; liveness: `RolloutConverges` |
| `renewal_fan_out` | as `renewal`, no faults | violated | finding 1 |
| `node_removal_revocation` | as `node_lifecycle` | violated, 30 s | finding 2 |
| `allocation_recovery_retry` | as `allocation_authority`, three operations | violated, 2 s | finding 3 |
| `rollout_up_to_date` | as `rollout`, one proxy, one command and one fault | violated, 2 s | finding 4 |

*Why the bounds suffice.* Nodes do not interact in `WorkerFence`, so one is
enough there; three operations cover displacement, replay and a token clash, and
two renewals are the least with which a grant two generations old exists. In
`ControllerAuthority` the authority is global, so two scopes cover every conflict;
three operation IDs with two tokens allow a token to be handed out again after a
crash. In `OperationFence` two targets are the least for a partial failure and two
coordinators the least for a handover; the two runs split the space, one with
handover and few renewals, the other with renewals and no rival. `MaxFaults`
counts timeouts, client crashes and restarts together. In `OperationJournal` the
operations cover what `Plan` and recovery tell apart except a request that `Plan`
rejects (which the proofs include), two of them compete for the build slot, a queue of
two is full while another waits, and two faults allow a crash during the recovery from
another. In `NodeLifecycle` two workers are the least for "every remaining node", and a
spare token lets a removed node try to come back. In `AllocationAuthority` two edges
are the least of which one accepted an abandoned proposal and the other did not, the
second operation recovers what the first abandoned, and one copy of the inventory is
enough to be installed after the controller has moved on. Both exceptions that the
properties make are reached: a late POST accepted by an edge that was taken back, and a
recovery that shares its generation with the abandoned candidate at the last one. With
two copies (8,475,920 states, 3.5 minutes) the properties hold as well. In `Rollout` three
nodes are the least on which a merge of labels can forget a conflict (finding 4), and with
two edits a service passes through three revisions of different strategies.
Every bound is a named constant in a guard.

*Deadlock* is checked in the worker, controller and rollout runs (there is always a
`tako deploy`). The composed runs stop when every coordinator has finished and the
clock has reached its bound, the journal when every operation is settled and pruned,
the lifecycle when all workers are removed, and the allocations when the generations
have reached their bounds, which is their normal end.

*Fairness* is used in three runs. In `worker_fence` clocks advance; a due timer goroutine runs (the Go
scheduler starts it); a maintenance task ends, since each is run with a command
timeout; and a waiting `flock` is granted if the lock becomes free again and again
(strong fairness: tasks are hours apart, so the kernel has idle periods in which
to grant it). The run has one task: intervals are not modelled, and two that relieved each
other for ever would starve the exclusive lock in a model although they are hours apart.
An activation that has the barrier goes on. Requests, restarts and root commands are under
no obligation.
In `operation_journal` the poll loop claims what it can, the blocked senders of the
slot channels are served in turn (strong fairness of `Admit`), takod answers or its
connection fails, a stopped process exits, the service manager restarts it, and
recovery goes through the queue. Callers, crashes and failed writes are under no
obligation; the number of the latter is bounded, so the property says that a request
is settled once faults stop.
In `rollout` a command goes on as long as its process lives (weak fairness of
`Proceed`), and the operator, or CI, repeats `tako deploy` (weak fairness of `Deploy`).
Edits, special commands and faults are under no obligation and bounded in number, so
`RolloutConverges` says that deploying again is all it takes once they have stopped, with
one exception: where the merged labels hide the difference (`Misread`) no deploy repairs
it. Without that exception the property is violated on three nodes, by the behaviour of
finding 4.

`ClusterSingleWriter` states the guarantee as the code gives it: two operations
may overlap once the earlier one's grant has expired on the controller's clock,
because a handler that was admitted in time is not interrupted by expiry.
`NodeSingleWriter` has no such exception: on one node the admission mutex prevents
overlap whatever the clocks say.

`OverlapOnlyAfterLapse`, `SameGenerationSameContent` and `AbandonedIsTracked` have
exceptions too, each the reach of a race in the code and no more: maintenance may overlap a
mutation within its grant when the grant renewed one that has lapsed; a
candidate abandoned at the last allocation generation shares it with its recovery; and an
edge where a delayed installation put an old inventory back accepts a late POST of an
abandoned candidate that nothing will recover.

### Findings

1. `PreviousOnlyDuringFanOut` (run `renewal_fan_out`). `docs/ORCHESTRATION-MODEL.md:856`
   says the previous grant is valid only during the fan-out of its renewal. The
   worker accepts it until its own expiry: no step tells a worker that the fan-out
   has ended. `HolderIsAdmitted` shows why it must be accepted for some time; the
   disagreement is about how long. Within one operation both grants belong to the
   same holder, so the single-writer properties are not affected.
2. `RevokedBeforeTombstone` (run `node_removal_revocation`). `docs/CONFIGURATION.md:240`
   says the target is out of the WireGuard configuration of the controller and of every
   peer before the tombstone commits. A removal that is resumed after it recorded the
   peers as revoked does not look at them again, and in between any other lifecycle
   command publishes the target as a peer. The publication after the tombstone drops it
   again, so `RemovedIsIsolated` holds.
3. `RetryIsMonotonic` (run `allocation_recovery_retry`). The comment at
   `pkg/takod/allocation_authority.go:259` says that every later retry of a recovery is
   monotonic. The recovery snapshot is built once; if the recovering client dies and a
   lifecycle command then installs a newer membership on a target, that target refuses
   the recorded snapshot, and with it every later operation fails.
4. `UpToDateIsConverged` (run `rollout_up_to_date`). `AggregateActualStateByServer` clears
   the configuration hash when two nodes disagree and then takes the third node's, so
   new, old, new merge to new. A rollback that died after it replaced the replica on the
   middle node is taken for the configured state by every later deploy. The test
   `TestAggregateActualStateByServerClearsMixedConfigHashes`
   (`pkg/reconcile/actual_state_test.go:95`) wants a mixed hash to be empty and covers
   two nodes.

Met while modelling and not the subject of a run of its own:

- The comment in `pkg/takod/lifecycle_gate.go:120` says membership replacement is
  serialised with the complete admitted mutation. That holds for the RPC path, but root
  commands replace the inventory file from another process and share no exclusive lock
  with a running handler (`InstallInventory` is enabled while handlers run).
- Maintenance can overlap a mutation within its grant, which
  `TestActiveWorkerFenceBlocksNodeGlobalMaintenance` (`pkg/takod/fence_test.go:350`) counts
  as a failure. A renewal that passes its checks as its predecessor expires finds the
  barrier held; before it binds the barrier to the new grant (`fence.go:682`), the
  predecessor's timer releases it, and maintenance starts, since the recorded grant has
  expired. The renewal is then recorded, nothing is left to bind, and mutations are
  admitted while maintenance runs. `worker_fence` contains these steps;
  `OverlapOnlyAfterLapse` says that there is no other way.
- `platformWorkerInventoryMutationScript` installs whatever was uploaded. An installation
  that was delayed past a recovery lets the edge accept a late POST of the abandoned
  proposal, with nothing pending that would recover it (`stale` in `AbandonedIsTracked`).

## 4. What is proved

The proofs use only the assumptions named in `FenceGrant` (grants and inventories
have their type, a generation identifies an inventory), `WorkerFence` and
`ControllerAuthority` (bounds are naturals, TTL is positive, requests have their
type, `None` is no record), `OperationFence` (the controller is a node, each
coordinator has a request ID of its own, and the set of grants contains whatever the
controller can sign), `OperationJournal` (limits are positive, a stream is
never replay-safe, as in `Plan`), `NodeLifecycle` (a token is bound to a worker),
`AllocationAuthority` (an operation has a scope and edges) and `Rollout` (a revision has
a strategy and at least one replica, only blue-green is promoted by hand). Operations, nodes, scopes, requests, inventories, grants and the
time to live are arbitrary, and the bounds are arbitrary naturals.

*WorkerFenceProofs.* The inductive invariant `IInv` is the type invariant and, for every
node: `RecordOK` (the active grant is at the high-water mark, the previous one is a
predecessor of it), `RunningUnderGrant`, that maintenance runs only with the barrier free,
`HeldForRecord` between activations (a held barrier belongs to the recorded grant and its
timer is pending) and two strengthenings. `ActivationOK`: during an activation no handler
runs, the checks still hold against the record, and each step finds what the one before
left, or what a timer made of it; without it, writing the record could install a grant over
an admitted mutation. `Lapsed`: while maintenance runs, the recorded grant or its
predecessor has expired; without it, `OverlapOnlyAfterLapse` is not preserved by a restart.
Theorems: `TypeCorrect`, `AdmittedUnderRecord`, `SingleWriter`, `OverlapBounded`
(`OverlapOnlyAfterLapse`), `BarrierTimed`, `SpentTokens` (the high-water mark
never falls and a spent token is never active again) and the refinement
`ImplementsTokenFence`. `SpentTokens` rests on `RecordStep`: a step leaves the record
alone, activates an accepted grant or revokes. The refinement goes action by action
(`RegisterStep`): `ActivationOwns` shows that an accepted activation is an `Acquire` or,
for a renewal, a stutter, and `RecordedWriters` that a handler under the active or the
previous grant is a writer of the owner.

*ControllerAuthorityProofs.* The strengthenings are `Counted` (tokens and operation
IDs in use are below their counters), `FullWindow` (every grant lasts one TTL),
`Bound` (the binding of a granted request is on disk), `ActiveIsLatest` (the active
record is the latest grant of its operation) and `OthersSettled` (every other
operation completed or has expired). Theorems: `TypeCorrect`, `TokensIdentify`,
`RequestsBound`, `RenewalChain`, `LeaseBounded` and the action property `Handover`.
`FullWindow` is what turns "issued later" into "expires later" and so makes renewals
a chain.

*OperationFenceProofs.* The composed system is proved from its parts: `Inv` contains the
inductive invariants of `WorkerFenceProofs` and `ControllerAuthorityProofs`, whose step
lemmas are reused through `INSTANCE`, and `SystemOK`, which relates what neither part
sees alone. The shared state enters it as one value, `View`, so that each lemma is about a
change of the view or about one coordinator's change of state. Its conjuncts, none of
which can be left out:
- `JournalOK`, `RecordOK`, `WorkOK`: every grant on a node's record, and every request at
  work on a node, was issued to some coordinator, and tokens stay below the counters;
- `MsgOK`: what a request in flight, its sender given up or not, may still carry. A
  `revoke` exists only once the main thread has stopped mutating, a `release` only once no
  target can admit work of the operation, an `activate` carries the grant, the offer or an
  older grant which every target refuses as a replay;
- `Shape`, `GrantOK`, `AuthorityOK`: what the main thread and the renewal goroutine are
  waiting for, and that while the journal has the operation its active grant is the one the
  coordinator holds or the renewal it has been, or is about to be, offered;
- `RecordsOK`, `FanOutOK`: a target that records the operation has the held grant, or the
  offer with the held grant as its predecessor, and targets already visited by the fan-out
  have accepted it or it has expired there;
- `OperationOK`: work of an operation is on its targets only, and a target that answered a
  revocation has none left.

A coordinator that is killed loses its state but not its requests; the conjuncts are
therefore stated for live coordinators where they speak of the held grant, and for any
coordinator where they speak of what was sent. Theorems: `TypeCorrect`, `Quiescence`
(`CompletedIsQuiescent`), `ClusterWriter` (`ClusterSingleWriter`), `Revocable`
(`RevocableByHolder`) and `HolderAdmitted` (`HolderIsAdmitted`), for any numbers of
coordinators, nodes, requests in flight, faults and any clock skew. `Inv` was checked with
TLC on both composed instances before it was proved. `NodesImplementWorkerFence` shows that
the composed system implements `WorkerFence` (every step is a step of one node's module or
leaves the nodes alone), and with `ImplementsTokenFence` that each node of a running
cluster is a single-writer register (`NodesAreTokenFences`).

*OperationJournalProofs.* What the properties say of an operation is not inductive:
whether it may be sent depends on what the record said when it was claimed. The
invariant says of every operation: `Filed` (its file is in one directory, and in
history only when settled), `Marked` (whoever works on it has marked it running
first, and nobody does while the process is down or recovering), `Unsent` (queued or
waiting for admission and not replay-safe means never sent) and `Honest` for both
files. `Marked` and `Unsent` together make it sound for recovery to take a queued
stream for unsent and a running request for possibly sent. The store operations are
treated once (`SettledFiles`, `RequeuedFiles`, `MovedFiles`), as are operations a step
does not act on (`Untouched`). Theorems: `TypeCorrect`, `SentOnce`, `TruthfulOutcome`
and the action property `OutcomeKept`, for any number of operations and faults.
`QueueOwned` (`QueueIsOwned`) adds `Owned`: only a stream is ever between `Enqueue` and
`startExternal`, whose failed write is the one step that leaves a running record without a
goroutine while the worker goes on serving.

*NodeLifecycleProofs.* `TypeCorrect` and `TombstonesArePermanent` hold for any number
of commands at the same time: no command, however old the membership it read, brings a
removed node back, because every change is made on the file as it is under the lock.
`TakenOutIsFailClosed` (`FailClosed`) and `LatchClearedWhenAttested` are proved for one
command at a time (`Serial`), any number of workers and a command dying anywhere. The
invariant is `LatchInv`: the latch is set on every worker that the membership has taken
out or is about to, and a command that will clear it has made the worker schedulable;
and `AttestInv`: what such a command has published and read back is still so. Two commands that overlap do break them: a
late `schedulable` can clear the latch that a `cordon` has just set, and nothing in the
code prevents it; this is why the assumption is there.
`PublicationComplete` (`PublishedToAll`) and `RemovedNodesAreIsolated`
(`RemovedIsIsolated`) are proved under the same assumption from `SerialInv`, which adds
three conjuncts. `PublishInv`: from reading the store back to the end of the command the
controller's inventory is the membership, and every worker the loop has passed has it and
no peer outside it. `RemoveInv`: a removal that publishes or cleans up has committed the
tombstone, and one that completes has destroyed the worker's key. `FateInv`: a worker
before its enrollment, or after its removal was forgotten, is in no inventory that is
still to be installed; without it a command that died with an old inventory in its
hands could bring a forgotten peer back.

*AllocationAuthorityProofs.* `Inductive` is `Typed`, `Ordered` (nothing is ahead of the
controller but the pending candidate, by one), `Unique` (equal generations, equal
content, over everything that exists, uploads included, but for a candidate given up at
the last generation), `Shared` (an abandoned candidate is behind the controller, and every
edge that may still receive it is a tracked target, would refuse it, or has gone back; the
recovery is beyond the candidate), `Clients` (what a client remembers of the proposal is
still true or will be refused) and `Handshake` (an edge that counts as published to has
accepted the candidate). A delayed installation may take an edge back, so what an edge has
reached is stated for edges outside `stale` (`Has`), and the wrap makes "beyond" a relation
of its own (`Beyond`: a later generation, or the same one with other content, which an edge
refuses as well). Theorems: `TypeCorrect`, `GenerationsIdentifyContent`,
`AbandonedLeavesNothing`, `PublishBeforeCommit`,
`AuthorityNeverGoesBack`.

*RolloutProofs.* `Inductive` is `TypeOK`, `Halfway` (a node reported done runs the
target, and a node about to start it has nothing in its way), `RolledOut` (after
reconciliation the target runs on all its nodes), `KeepsTarget` (pruning spares the
target and the route is the target's), `Pointed` (when a command prunes, all proxies
have its route) and `SingleName`. Theorems: `RolloutTypeOK`, `RolloutNames`,
`RolloutSwitch`, `RolloutLiveContainers`. None of them depends on what the labels merge
to: they hold whichever revision a command takes for the current one. Convergence does
depend on it, which is finding 4.

*FenceGrantProofs.* Strict renewal is irreflexive, antisymmetric and transitive.

Every invariant and every action property of a passing run is stated by a theorem. Only
model-checked are the four liveness properties, `BarrierEventuallyReleased`,
`ActivationNotStranded`, `RequestSettles` and `RolloutConverges` (fairness and ENABLED are
outside this prover), and the four violations, which are single behaviours.

## 5. Abstractions

- Signature verification, holder credentials, cluster and node identifiers: a
  value that fails them changes no state.
- Time is a small integer per node; TTL and tolerance are constants.
- In the fence modules a mutation handler is only admitted, running and finished; what
  it does to containers is `Rollout`.
- The HTTP layer, retries inside a transport and cancellation of a handler by a
  closed connection (handlers run to their end).
- `OperationFence` composes neither maintenance nor the deny latch; both are
  covered by `WorkerFence` alone.
- In `OperationJournal`: payloads, responses and the replies to callers, byte budgets,
  the audit journal's contents and interactive upgrades.
- In `NodeLifecycle`: keys, addresses and host keys, changing a mesh endpoint, the
  controller's own lifecycle and latch, the reconciliation of proxies at the end of a
  command, and the node-upgrade lease that makes a command refuse (an `Abort`).
- In `AllocationAuthority`: the proofs inside an allocation with their high-water marks,
  and the routes stored by an edge's proxy. In the synchronisation of
  an operation (`SyncEdge`) reading the controller's inventory and accepting it on the edge
  is one step. The
  check of the base generation at commit is not needed for the properties: the fence
  the request carries is refused after a change of the membership, so a version of the
  model without that check satisfies them too. Between its acknowledgement and the
  commit an edge may be taken back to the committed inventory by a lifecycle command;
  `CommitAfterEveryEdge` therefore says "has accepted", not "holds". A target that was
  removed from the configuration blocks recovery as well; it is not modelled.
- In `Rollout`: one service, at most one replica on a node (a slot is identified with its
  node), a container that a node reports started is healthy, the grace period is any
  delay, revisions do not share images, and any revision of the same kind may be in
  the history that `Rollback` chooses from. Operator files are
  abstracted: for a service that has them, the code hashes the present files for the routes
  and the pruning of a rollback (`RollbackProxyInputs`) and starts the containers with the
  historical ones (`RollbackToState`), so that it routes to a revision it never started;
  the model routes to the one it started. Commands do not overlap; that they do not
  is what the fence modules show.

## 6. Not modelled, and the plan

The map covers only a small share of the repository, and will stay below a third of it
with faithful models: most of its lines are the validation of a configuration document,
command-line flags and output, rendering of proxy files and scripts, provisioning over
SSH, calls to Docker, certificate authorities and object stores. They keep no state of
their own that a property could relate to anything, and `PROJECT.json` gives the reason
part by part. What remains worth modelling, in this order:

1. **Desired state**: the write-ahead desired revision, the deployment history, their
   replication and the election and repair of the newest revision; with `Rollout`, that
   a rollback finds what was deployed.
2. **StateLock**: two processes, inodes and unlink; the comment "atomic and
   race-condition free" (`pkg/state/lock_unix.go:13`) as the property.
3. **NodeUpgrade** with the recovery locks: after a crash at any point the node runs
   the old pair of binaries or the new one.
4. **JobScheduler** and **PortAllocation**: no overlap of a job with itself, no file
   version removed under a running job, no port handed to two services.
5. **Placement**: the resumable movement, and sticky assignment as an operator against
   a reference definition.
6. An abstract specification of the whole cluster's write lease that `OperationFence`
   implements; coordinator progress in `OperationFence` under fairness; the per-node
   leases of clusters without a controller.
7. Overlapping lifecycle commands: which of the cross-node properties of
   `NodeLifecycle` can be kept, and what a lock around the whole command would add.

Behaviour of `Rollout` that the documentation does not lead one to expect and that is
in the model without a property of its own: `scale` and placement apply point the
proxies of a rolling or blue-green service at names without a revision until the next
deploy; redeploying the revision that is live takes its containers down first; a change
from recreate to manual blue-green, or a promotion that dies after activation, moves
traffic without `tako promote`.
