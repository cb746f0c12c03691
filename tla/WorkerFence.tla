---------------------------- MODULE WorkerFence -----------------------------
(***************************************************************************)
(* Admission of fenced mutations on an enrolled node.                      *)
(*                                                                         *)
(* takod keeps worker-fence.json (fenceState) and cluster-inventory.json   *)
(* durably; the admitted handlers, the operation barrier with its expiry   *)
(* timers and the background maintenance tasks live in the process and die *)
(* with it.  workerFenceAdmissionMu is held shared by an admitted handler  *)
(* for its whole life and exclusively by activation, revocation and        *)
(* inventory acceptance, so those need running[n] = {}.  Activation takes  *)
(* the barrier, writes the record and binds the barrier in critical        *)
(* sections of their own; timers and maintenance, which take no mutex of   *)
(* the fence, may come in between.  It keeps the mutex (activating[n]).    *)
(***************************************************************************)
EXTENDS FenceGrant

CONSTANTS
    MaintenanceTask,  \* background tasks: build-cache prune, certificate check
    MaxTime           \* bound on every node's clock

ASSUME MaxTimeAssumption == MaxTime \in Nat

VARIABLES
    clock,        \* clock[n]: the node's wall clock
    inventory,    \* inventory[n]: the node's trusted inventory file
    denied,       \* denied[n]: the durable deployment-denied latch exists
    fenceState,   \* fenceState[n]: worker-fence.json
    barrier,      \* barrier[n]: the in-process hold of the operation barrier
    timers,       \* timers[n]: expiry goroutines of the barrier
    maintenance,  \* maintenance[n]: tasks holding the barrier shared
    activating,   \* activating[n]: the activation under way
    gated,        \* gated[n]: requests past the latch check, not yet admitted
    running       \* running[n]: grants under which admitted handlers run

workerVars == <<clock, inventory, denied, fenceState, barrier, timers,
                maintenance, activating, gated, running>>

durable == <<inventory, denied, fenceState>>
barrierVars == <<barrier, timers, maintenance>>
admission == <<activating, gated, running>>

FenceRecord == [highWater: Nat, active: Grant \cup {None}, previous: Grant \cup {None}]

NoFence == [highWater |-> 0, active |-> None, previous |-> None]

BarrierHold == [op: Nat, expires: Nat]

\* stage: what comes next; acquired: the barrier was taken for this activation.
Activation == [grant: Grant, stage: {"hold", "write", "bind"}, acquired: BOOLEAN]

ASSUME NoneAssumption == None \notin Activation /\ None \notin BarrierHold

TypeOK ==
    /\ clock \in [Node -> Nat]
    /\ inventory \in [Node -> Inventory]
    /\ denied \in [Node -> BOOLEAN]
    /\ fenceState \in [Node -> FenceRecord]
    /\ barrier \in [Node -> BarrierHold \cup {None}]
    /\ timers \in [Node -> SUBSET BarrierHold]
    /\ maintenance \in [Node -> SUBSET MaintenanceTask]
    /\ activating \in [Node -> Activation \cup {None}]
    /\ gated \in [Node -> SUBSET Grant]
    /\ running \in [Node -> SUBSET Grant]

Init ==
    /\ clock = [n \in Node |-> 0]
    /\ \E v \in Inventory : inventory = [n \in Node |-> v]
    /\ denied = [n \in Node |-> FALSE]
    /\ fenceState = [n \in Node |-> NoFence]
    /\ barrier = [n \in Node |-> None]
    /\ timers = [n \in Node |-> {}]
    /\ maintenance = [n \in Node |-> {}]
    /\ activating = [n \in Node |-> None]
    /\ gated = [n \in Node |-> {}]
    /\ running = [n \in Node |-> {}]

\* workerFenceAdmissionMu can be taken exclusively.
AdmissionFree(n) == running[n] = {} /\ activating[n] = None

\* verifyExactActiveFence with the zero time: revocation ignores expiry.
ExactFence(n, f, stored) ==
    /\ stored # None
    /\ f = stored
    /\ f.gen = inventory[n].gen

-----------------------------------------------------------------------------
(* Mutation admission (enrolledLifecycleHandler, validateMutationFence).   *)

ValidMutationFence(n, f) ==
    /\ Targets(f, n)
    /\ \/ ExactFence(n, f, fenceState[n].active)
       \/ ExactFence(n, f, fenceState[n].previous)
    /\ Valid(f, clock[n])

\* The latch is read before the admission lock is taken.
PassDenyLatch(n, f) ==
    /\ ~denied[n]
    /\ gated' = [gated EXCEPT ![n] = @ \cup {f}]
    /\ UNCHANGED <<clock, durable, barrierVars, activating, running>>

\* A cordoned node admits only reconcile-service under a placement-apply grant.
LifecycleAdmits(n, f, path) ==
    \/ inventory[n].lifecycle[n] = "schedulable"
    \/ /\ inventory[n].lifecycle[n] = "cordoned"
       /\ path = "reconcile-service"
       /\ f.operation = "placement-apply"

AdmitMutation(n, f, path) ==
    /\ f \in gated[n]
    /\ activating[n] = None
    /\ gated' = [gated EXCEPT ![n] = @ \ {f}]
    /\ running' = IF LifecycleAdmits(n, f, path) /\ ValidMutationFence(n, f)
                  THEN [running EXCEPT ![n] = @ \cup {f}]
                  ELSE running
    /\ UNCHANGED <<clock, durable, barrierVars, activating>>

FinishMutation(n, f) ==
    /\ f \in running[n]
    /\ running' = [running EXCEPT ![n] = @ \ {f}]
    /\ UNCHANGED <<clock, durable, barrierVars, activating, gated>>

-----------------------------------------------------------------------------
(* The operation barrier: an exclusive hold of operation-maintenance.lock. *)

\* The hold of the barrier that belongs to grant f.
Hold(f) == [op |-> f.op, expires |-> f.expires]

\* releaseOperationBarrier.
ReleaseBarrier(n, op) ==
    barrier' = IF barrier[n] # None /\ barrier[n].op = op
               THEN [barrier EXCEPT ![n] = None]
               ELSE barrier

\* A timer goroutine fires; it releases the barrier only if it is still bound
\* to the operation and the (possibly renewed) expiry has passed.
BarrierTimer(n, t) ==
    /\ t \in timers[n]
    /\ clock[n] >= t.expires
    /\ timers' = [timers EXCEPT ![n] = @ \ {t}]
    /\ barrier' = IF /\ barrier[n] # None
                     /\ barrier[n].op = t.op
                     /\ clock[n] >= barrier[n].expires
                  THEN [barrier EXCEPT ![n] = None]
                  ELSE barrier
    /\ UNCHANGED <<clock, durable, maintenance, admission>>

\* activeWorkerOperation.
ActiveWorkerOperation(n) ==
    fenceState[n].active # None /\ ~Expired(fenceState[n].active, clock[n])

\* Mutant: maintenance trusts the barrier alone, which a restart has dropped.
StartMaintenanceUnchecked(n, t) ==
    /\ t \notin maintenance[n]
    /\ barrier[n] = None
    /\ maintenance' = [maintenance EXCEPT ![n] = @ \cup {t}]
    /\ UNCHANGED <<clock, durable, barrier, timers, admission>>

\* The prune loop or the certificate check takes the barrier shared and goes
\* on only when no unexpired operation is recorded.
StartMaintenance(n, t) ==
    /\ t \notin maintenance[n]
    /\ barrier[n] = None
    /\ ~ActiveWorkerOperation(n)
    /\ maintenance' = [maintenance EXCEPT ![n] = @ \cup {t}]
    /\ UNCHANGED <<clock, durable, barrier, timers, admission>>

\* Mutant: an early return of the task leaks its hold of the barrier.
EndMaintenanceLeaks(n, t) ==
    /\ t \in maintenance[n]
    /\ UNCHANGED workerVars

EndMaintenance(n, t) ==
    /\ t \in maintenance[n]
    /\ maintenance' = [maintenance EXCEPT ![n] = @ \ {t}]
    /\ UNCHANGED <<clock, durable, barrier, timers, admission>>

-----------------------------------------------------------------------------
(* Activation and revocation (POST and DELETE /v1/fence).                  *)

\* Mutant: the check for a revoked token is missing.
TokenAcceptedRevoked(s, f) ==
    /\ f.token >= s.highWater
    /\ f.token = s.highWater /\ s.active # None => f = s.active \/ ValidFenceRenewal(s.active, f)

\* The token is new, or f is the active grant or a strict renewal of it.
TokenAccepted(s, f) ==
    /\ f.token >= s.highWater
    /\ f.token = s.highWater =>
         s.active # None /\ (f = s.active \/ ValidFenceRenewal(s.active, f))

\* The checks activateWorkerFence makes before it touches the barrier.
ActivationAccepted(n, f) ==
    LET s == fenceState[n] IN
    /\ f.gen = inventory[n].gen
    /\ Targets(f, n)
    /\ Valid(f, clock[n])
    /\ TokenAccepted(s, f)
    /\ f.token > s.highWater /\ s.active # None => Expired(s.active, clock[n])

\* Mutant: a renewal drops its predecessor at once.
ActivatedFenceDrops(s, f) ==
    IF f = s.active THEN s ELSE [highWater |-> f.token, active |-> f, previous |-> None]

\* worker-fence.json after a successful activation of f.
ActivatedFence(s, f) ==
    IF f = s.active THEN s
    ELSE [highWater |-> f.token,
          active    |-> f,
          previous  |-> IF f.token = s.highWater THEN s.active ELSE None]

\* Mutant: activation does not take the admission lock.
ActivateFenceUnlocked(n, f) ==
    /\ activating[n] = None
    /\ ActivationAccepted(n, f)
    /\ maintenance[n] = {}
    /\ fenceState' = [fenceState EXCEPT ![n] = ActivatedFence(@, f)]
    /\ barrier' = [barrier EXCEPT ![n] = Hold(f)]
    /\ timers' = [timers EXCEPT ![n] = @ \cup {Hold(f)}]
    /\ UNCHANGED <<clock, inventory, denied, maintenance, admission>>

\* The whole handler, when nothing else happens on the node meanwhile: the four
\* steps below in one.  Where there is no maintenance (OperationFence) it is all
\* that can be told apart.
ActivateFence(n, f) ==
    /\ AdmissionFree(n)
    /\ ActivationAccepted(n, f)
    /\ maintenance[n] = {}
    /\ fenceState' = [fenceState EXCEPT ![n] = ActivatedFence(@, f)]
    /\ barrier' = [barrier EXCEPT ![n] = Hold(f)]
    /\ timers' = [timers EXCEPT ![n] = @ \cup {Hold(f)}]
    /\ UNCHANGED <<clock, inventory, denied, maintenance, admission>>

\* The checks have passed; the barrier of a displaced operation is released.
BeginActivation(n, f) ==
    /\ AdmissionFree(n)
    /\ ActivationAccepted(n, f)
    /\ IF f.token > fenceState[n].highWater /\ fenceState[n].active # None
       THEN ReleaseBarrier(n, fenceState[n].active.op)
       ELSE UNCHANGED barrier
    /\ activating' = [activating EXCEPT ![n] =
                        [grant |-> f, stage |-> "hold", acquired |-> FALSE]]
    /\ UNCHANGED <<clock, durable, timers, maintenance, gated, running>>

AtStage(n, stage) == activating[n] # None /\ activating[n].stage = stage

\* holdOperationBarrier: a hold that is there is left as it is, otherwise the
\* kernel lock is waited for, with both mutexes held.
HoldBarrier(n) ==
    /\ AtStage(n, "hold")
    /\ \/ /\ barrier[n] # None
          /\ UNCHANGED barrier
       \/ /\ barrier[n] = None
          /\ maintenance[n] = {}
          /\ barrier' = [barrier EXCEPT ![n] = Hold(activating[n].grant)]
    /\ activating' = [activating EXCEPT ![n].stage = "write", ![n].acquired = (barrier[n] = None)]
    /\ UNCHANGED <<clock, durable, timers, maintenance, gated, running>>

\* The lock file cannot be opened or locked: the handler returns the error.
HoldBarrierFails(n) ==
    /\ AtStage(n, "hold")
    /\ barrier[n] = None
    /\ activating' = [activating EXCEPT ![n] = None]
    /\ UNCHANGED <<clock, durable, barrierVars, gated, running>>

\* Nothing is written when the grant is the active one already.
WriteFence(n) ==
    /\ AtStage(n, "write")
    /\ fenceState' = [fenceState EXCEPT ![n] = ActivatedFence(@, activating[n].grant)]
    /\ activating' = [activating EXCEPT ![n].stage = "bind"]
    /\ UNCHANGED <<clock, inventory, denied, barrierVars, gated, running>>

\* The record cannot be written: a barrier acquired for it is given back.
WriteFenceFails(n) ==
    /\ AtStage(n, "write")
    /\ activating[n].grant # fenceState[n].active
    /\ IF activating[n].acquired
       THEN ReleaseBarrier(n, activating[n].grant.op)
       ELSE UNCHANGED barrier
    /\ activating' = [activating EXCEPT ![n] = None]
    /\ UNCHANGED <<clock, durable, timers, maintenance, gated, running>>

\* Mutant: an activation that found the barrier held starts no timer of its own.
BindBarrierNoTimer(n) ==
    /\ AtStage(n, "bind")
    /\ LET hold == Hold(activating[n].grant) IN
         /\ barrier' = [barrier EXCEPT ![n] = IF @ = None THEN None ELSE hold]
         /\ timers' = IF activating[n].acquired
                      THEN [timers EXCEPT ![n] = @ \cup {hold}] ELSE timers
    /\ activating' = [activating EXCEPT ![n] = None]
    /\ UNCHANGED <<clock, durable, maintenance, gated, running>>

\* bindOperationBarrier, if the barrier is still held, and expireOperationBarrier.
BindBarrier(n) ==
    /\ AtStage(n, "bind")
    /\ LET hold == Hold(activating[n].grant) IN
         /\ barrier' = [barrier EXCEPT ![n] = IF @ = None THEN None ELSE hold]
         /\ timers' = [timers EXCEPT ![n] = @ \cup {hold}]
    /\ activating' = [activating EXCEPT ![n] = None]
    /\ UNCHANGED <<clock, durable, maintenance, gated, running>>

\* revokeWorkerFenceWithFence reports success.
RevocationAccepted(n, f) ==
    /\ Targets(f, n)
    /\ \/ fenceState[n].active = None
       \/ ExactFence(n, f, fenceState[n].active)
       \/ ExactFence(n, f, fenceState[n].previous)

\* Mutant: revocation does not take the admission lock.
RevokeFenceUnlocked(n, f) ==
    /\ activating[n] = None
    /\ RevocationAccepted(n, f)
    /\ fenceState' = [fenceState EXCEPT ![n].active = None, ![n].previous = None]
    /\ ReleaseBarrier(n, f.op)
    /\ UNCHANGED <<clock, inventory, denied, timers, maintenance, admission>>

\* Mutant: revocation removes the record and the high-water mark with it.
RevokeFenceForgets(n, f) ==
    /\ AdmissionFree(n)
    /\ RevocationAccepted(n, f)
    /\ fenceState' = [fenceState EXCEPT ![n] = None]
    /\ ReleaseBarrier(n, f.op)
    /\ UNCHANGED <<clock, inventory, denied, timers, maintenance, admission>>

\* Revocation clears both grants and keeps the high-water mark.
RevokeFence(n, f) ==
    /\ AdmissionFree(n)
    /\ RevocationAccepted(n, f)
    /\ fenceState' = [fenceState EXCEPT ![n].active = None, ![n].previous = None]
    /\ ReleaseBarrier(n, f.op)
    /\ UNCHANGED <<clock, inventory, denied, timers, maintenance, admission>>

-----------------------------------------------------------------------------
(* Inventory, latch, process restart and time.                             *)

\* acceptSignedInventory: POST /v1/platform/inventory.
InventoryAccepted(n, v) ==
    /\ v.gen >= inventory[n].gen
    /\ v.gen = inventory[n].gen => v = inventory[n]

AcceptInventory(n, v) ==
    /\ AdmissionFree(n)
    /\ InventoryAccepted(n, v)
    /\ inventory' = [inventory EXCEPT ![n] = v]
    /\ UNCHANGED <<clock, denied, fenceState, barrierVars, admission>>

\* A root process replaces the inventory file without takod's mutex: the
\* membership command on the controller, which only advances the generation,
\* and the install script on a worker, which compares no generations (so a
\* delayed copy goes backwards) and restarts takod some time later.
InstallInventory(n, v) ==
    /\ n = Controller => v.gen > inventory[n].gen
    /\ inventory' = [inventory EXCEPT ![n] = v]
    /\ UNCHANGED <<clock, denied, fenceState, barrierVars, admission>>

\* setLifecycleDeploymentDeny writes or removes the latch as root.
SetDenyLatch(n, d) ==
    /\ denied' = [denied EXCEPT ![n] = d]
    /\ UNCHANGED <<clock, inventory, fenceState, barrierVars, admission>>

\* takod crashes or is restarted: only the files survive.
RestartTakod(n) ==
    /\ barrier' = [barrier EXCEPT ![n] = None]
    /\ timers' = [timers EXCEPT ![n] = {}]
    /\ maintenance' = [maintenance EXCEPT ![n] = {}]
    /\ activating' = [activating EXCEPT ![n] = None]
    /\ gated' = [gated EXCEPT ![n] = {}]
    /\ running' = [running EXCEPT ![n] = {}]
    /\ UNCHANGED <<clock, durable>>

Tick(n) ==
    /\ clock[n] < MaxTime
    /\ clock' = [clock EXCEPT ![n] = @ + 1]
    /\ UNCHANGED <<durable, barrierVars, admission>>

-----------------------------------------------------------------------------
FenceStep(n) ==
    \/ \E f \in Grant :
         \/ PassDenyLatch(n, f)
         \/ \E path \in {"reconcile-service", "other"} : AdmitMutation(n, f, path)
         \/ FinishMutation(n, f)
         \/ ActivateFence(n, f)
         \/ BeginActivation(n, f)
         \/ RevokeFence(n, f)
    \/ HoldBarrier(n) \/ HoldBarrierFails(n)
    \/ WriteFence(n) \/ WriteFenceFails(n) \/ BindBarrier(n)

MaintenanceStep(n) ==
    \/ \E t \in timers[n] : BarrierTimer(n, t)
    \/ \E t \in MaintenanceTask : StartMaintenance(n, t) \/ EndMaintenance(n, t)

NodeStep(n) ==
    \/ \E v \in Inventory : AcceptInventory(n, v) \/ InstallInventory(n, v)
    \/ \E d \in BOOLEAN : SetDenyLatch(n, d)
    \/ RestartTakod(n)
    \/ Tick(n)

Next == \E n \in Node : FenceStep(n) \/ MaintenanceStep(n) \/ NodeStep(n)

Spec == Init /\ [][Next]_workerVars

\* Clocks advance, a due timer goroutine runs, a maintenance task ends (it has
\* a command timeout), a waiting flock is granted if the lock is free again
\* and again (the tasks are hours apart) and an activation that has the barrier
\* goes on to its end.  Requests, restarts and root processes are under no
\* obligation.
Fairness ==
    \A n \in Node :
        /\ WF_workerVars(Tick(n))
        /\ WF_workerVars(\E t \in timers[n] : BarrierTimer(n, t))
        /\ \A t \in MaintenanceTask : WF_workerVars(EndMaintenance(n, t))
        /\ SF_workerVars(HoldBarrier(n))
        /\ WF_workerVars(WriteFence(n) \/ WriteFenceFails(n))
        /\ WF_workerVars(BindBarrier(n))

FairSpec == Spec /\ Fairness

-----------------------------------------------------------------------------
(* Properties.                                                             *)

\* A handler runs only under a grant its node still records: no activation,
\* revocation or renewal overtakes an admitted mutation
\* (lifecycle_gate.go, "serialized with the complete admitted mutation").
RunningUnderGrant ==
    \A n \in Node : \A f \in running[n] :
        f = fenceState[n].active \/ f = fenceState[n].previous

\* Two operations never mutate one node at the same time (fence.go,
\* controlOperationStatePath: "two project leases must never mutate a node
\* concurrently"), whatever grants are offered and whatever the clocks say.
NodeSingleWriter ==
    \A n \in Node : \A f, g \in running[n] : f.op = g.op /\ f.token = g.token

\* Background maintenance overlaps a mutation within its grant only if the grant
\* renewed one that has lapsed (fence_test.go, "node-global maintenance overlapped
\* active worker operation").  An operation's first grant and a renewal whose
\* predecessor still lasts exclude it, also after a restart has dropped the barrier
\* (holdOperationBarrier, activeWorkerOperation).  The exception is a race: a renewal
\* that comes when its predecessor expires finds the barrier held, the predecessor's
\* timer releases it, maintenance starts under the expired record, and the renewed
\* record is written under the running task.
OverlapOnlyAfterLapse ==
    \A n \in Node : maintenance[n] # {} =>
        \A f \in running[n] :
            \/ Expired(f, clock[n])
            \/ /\ f = fenceState[n].active
               /\ fenceState[n].previous # None
               /\ Expired(fenceState[n].previous, clock[n])

\* Between activations a held barrier belongs to the recorded operation and a
\* timer for exactly its expiry is pending, so a renewal never leaves the
\* barrier held for ever.
BarrierHasTimer ==
    \A n \in Node : activating[n] = None /\ barrier[n] # None =>
        /\ barrier[n] \in timers[n]
        /\ fenceState[n].active # None
        /\ barrier[n] = Hold(fenceState[n].active)

\* Activation and revocation never lower the high-water mark, and a token that
\* was revoked or displaced never becomes active on the node again.
SpentTokenStaysSpent ==
    [][\A n \in Node : LET s == fenceState[n] t == fenceState'[n] IN
        /\ t.highWater >= s.highWater
        /\ t.active # None /\ (s.active = None \/ s.active.op # t.active.op)
             => t.active.token > s.highWater]_workerVars

\* The fence as a single-writer register per node: renewals, retries of the
\* predecessor, the latch, the barrier and the mutex are invisible in it.
Register == INSTANCE TokenFence WITH
    Lease     <- {<<f.token, f.op>> : f \in Grant},
    highWater <- [n \in Node |-> fenceState[n].highWater],
    owner     <- [n \in Node |-> {f.op : f \in {fenceState[n].active} \ {None}}],
    writers   <- [n \in Node |-> {f.op : f \in running[n]}]

\* activateWorkerFence, revokeWorkerFenceWithFence and validateMutationFence
\* together keep that register: an operation owns a node only under a token
\* above all earlier ones, loses it to nobody while one of its handlers runs,
\* and no other operation's handler is admitted; a revoked or displaced token
\* never owns the node again, also across restarts and replayed requests.
IsTokenFence == Register!Spec

\* Every hold of the operation barrier ends, whatever renewals, revocations and
\* crashed coordinators leave behind: maintenance is never shut out for good
\* (expireOperationBarrier).
BarrierEventuallyReleased == \A n \in Node : barrier[n] # None ~> barrier[n] = None

\* An activation gets the barrier and ends, or dies with the process: it does
\* not keep both mutexes for ever (holdOperationBarrier).
ActivationNotStranded == \A n \in Node : activating[n] # None ~> activating[n] = None
=============================================================================
