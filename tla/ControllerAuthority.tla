------------------------- MODULE ControllerAuthority -------------------------
(***************************************************************************)
(* The controller's cluster-global operation authority: the single record  *)
(* control-operation.json, the compatibility lease file of every           *)
(* project/environment and the durable request bindings.                   *)
(*                                                                         *)
(* Every handler holds operationFenceMu from its first read of the journal *)
(* to its last write, so it is one action; where it writes several files   *)
(* there is a second action for a crash or write error between them.  Only *)
(* acquisition reads something earlier: the inventory v it checks and      *)
(* signs may have been replaced by the time it gets the mutex.             *)
(*                                                                         *)
(* An action leaves the clock and the membership alone, so that a          *)
(* composition can supply its own.  The journal keeps the last 256 retired *)
(* operations; `history' keeps them all and only the properties read it.   *)
(***************************************************************************)
EXTENDS FenceGrant

CONSTANTS
    RequestId,   \* random request identities chosen by coordinators
    Request,     \* the acquire requests
    TTL,         \* lease time to live
    MaxToken,    \* bound on the fencing tokens handed out
    MaxOp,       \* bound on the operation IDs drawn
    MaxIssue     \* last clock value at which authority is granted or renewed

RequestRecord == [id: RequestId, scope: Scope, operation: Operation, targets: SUBSET Node]

ASSUME RequestAssumption == Request \subseteq RequestRecord /\ None \notin Request
ASSUME TTLAssumption == TTL \in Nat \ {0}
ASSUME BoundAssumption == MaxToken \in Nat /\ MaxOp \in Nat /\ MaxIssue \in Nat

VARIABLES
    now,         \* the controller's wall clock
    membership,  \* the controller's inventory file
    control,     \* control-operation.json: next token and active record
    lease,       \* lease[s]: the lease file of a scope
    binding,     \* binding[i]: the immutable request a request ID is bound to
    nextOp,      \* source of fresh random operation IDs
    history,     \* retired operations and the phase they were retired in
    issued       \* every grant the journal ever held, with its request

authority == <<control, lease, binding, nextOp, history, issued>>
controllerVars == <<now, membership, authority>>

Phase == {"authority-acquired", "targets-fenced", "mutating"}
Retirement == {"completed", "expired-reconciled"}

ActiveRecord ==
    [request: RequestId, fence: GrantRecord, previous: GrantRecord \cup {None}, phase: Phase]
LeaseRecord == [op: Nat, expires: Nat]

ASSUME ActiveAssumption == None \notin ActiveRecord

TypeOK ==
    /\ now \in Nat
    /\ membership \in Inventory
    /\ control \in [nextToken: Nat, active: ActiveRecord \cup {None}]
    /\ lease \in [Scope -> LeaseRecord \cup {None}]
    /\ binding \in [RequestId -> Request \cup {None}]
    /\ nextOp \in Nat
    /\ history \subseteq [op: Nat, phase: Retirement]
    /\ issued \subseteq [request: Request, fence: GrantRecord]

InitAuthority ==
    /\ control = [nextToken |-> 0, active |-> None]
    /\ lease = [s \in Scope |-> None]
    /\ binding = [i \in RequestId |-> None]
    /\ nextOp = 0
    /\ history = {}
    /\ issued = {}

-----------------------------------------------------------------------------
(* Lease files (lease.go).                                                 *)

LeaseLive(s) == lease[s] # None /\ now < lease[s].expires

\* ReadLease removes the file of an expired lease.
AfterReadLease(s) == IF LeaseLive(s) THEN lease ELSE [lease EXCEPT ![s] = None]

\* renewLeaseTo moves the expiry of the holder's own file and nothing else.
AfterRenewLeaseTo(f) ==
    IF lease[f.scope] # None /\ lease[f.scope].op = f.op
    THEN [lease EXCEPT ![f.scope].expires = f.expires]
    ELSE lease

HoldsLease(f) == lease[f.scope] # None /\ lease[f.scope].op = f.op

-----------------------------------------------------------------------------
(* Acquisition.                                                            *)

\* The active record once an expired operation has been retired in memory.
Unexpired ==
    IF control.active # None /\ Expired(control.active.fence, now)
    THEN None ELSE control.active

\* retireControlOperation for an expired record.
RetireExpired ==
    IF control.active # None /\ Expired(control.active.fence, now)
    THEN history \cup {[op |-> control.active.fence.op, phase |-> "expired-reconciled"]}
    ELSE history

\* The snapshots a handler waiting for the mutex can have read.
ReadInventory == {v \in Inventory : v.gen <= membership.gen}

\* validateFenceTargets.
TargetsAllowed(r, v) ==
    /\ r.targets # {}
    /\ \A n \in r.targets :
         \/ v.lifecycle[n] = "schedulable"
         \/ r.operation = "placement-apply" /\ v.lifecycle[n] = "cordoned"

\* Mutant: a known request ID is not compared with its binding.
RequestAdmittedUnbound(r, v) == TargetsAllowed(r, v)

\* A request ID is bound forever to one immutable request.
RequestAdmitted(r, v) == TargetsAllowed(r, v) /\ binding[r.id] \in {None, r}

\* Mutant: the token counter is set up but never advanced.
NewGrantSameToken(r, v) ==
    [token |-> 1, op |-> nextOp + 1, scope |-> r.scope,
     operation |-> r.operation, gen |-> v.gen, targets |-> r.targets,
     issued |-> now, expires |-> now + TTL]

NewGrant(r, v) ==
    [token |-> control.nextToken + 1, op |-> nextOp + 1, scope |-> r.scope,
     operation |-> r.operation, gen |-> v.gen, targets |-> r.targets,
     issued |-> now, expires |-> now + TTL]

\* The bounds of the model.
MayGrant == control.nextToken < MaxToken /\ nextOp < MaxOp /\ now <= MaxIssue

\* Mutant: authority is exclusive within a project only, through its lease.
CanGrantPerScope(r, v) == RequestAdmitted(r, v) /\ ~LeaseLive(r.scope) /\ MayGrant

CanGrant(r, v) ==
    /\ RequestAdmitted(r, v)
    /\ Unexpired = None
    /\ ~LeaseLive(r.scope)
    /\ MayGrant

\* acquireControllerOperationLease with no unexpired operation: the lease file,
\* the request binding and the journal are written before the reply.
AcquireAuthority(r, v) ==
    LET f == NewGrant(r, v) IN
    /\ CanGrant(r, v)
    /\ control' = [nextToken |-> f.token,
                   active |-> [request |-> r.id, fence |-> f, previous |-> None,
                               phase |-> "authority-acquired"]]
    /\ lease' = [lease EXCEPT ![r.scope] = [op |-> f.op, expires |-> f.expires]]
    /\ binding' = [binding EXCEPT ![r.id] = r]
    /\ nextOp' = f.op
    /\ history' = RetireExpired
    /\ issued' = issued \cup {[request |-> r, fence |-> f]}

\* The lease file (and possibly the binding) was written, the journal was not:
\* the token is not consumed.  After a write error the lease is removed again,
\* after a crash it stays, a lease without an operation.
AcquireAborts(r, v, bound, removed) ==
    LET f == NewGrant(r, v) IN
    /\ CanGrant(r, v)
    /\ lease' = [lease EXCEPT ![r.scope] =
                   IF removed THEN None ELSE [op |-> f.op, expires |-> f.expires]]
    /\ binding' = IF bound THEN [binding EXCEPT ![r.id] = r] ELSE binding
    /\ nextOp' = f.op
    /\ UNCHANGED <<control, history, issued>>

\* A retry by the request that holds authority is answered with the original
\* grant when its lease file is live; nothing is extended.
RetryAnswered(r) ==
    /\ Unexpired # None
    /\ Unexpired.request = r.id
    /\ LeaseLive(r.scope)
    /\ lease[r.scope].op = Unexpired.fence.op

\* Any acquire that finds an unexpired operation reads a lease file and so may
\* remove it: its own when it is a retry, the active operation's otherwise.
AcquireWhileActive(r, v) ==
    /\ RequestAdmitted(r, v)
    /\ Unexpired # None
    /\ lease' = AfterReadLease(IF Unexpired.request = r.id THEN r.scope
                               ELSE Unexpired.fence.scope)
    /\ UNCHANGED <<control, binding, nextOp, history, issued>>

-----------------------------------------------------------------------------
(* Renewal, release, phases and reconciliation.                            *)

\* verifyExactActiveFence on the controller with the zero time.
ExactAuthority(f, stored) == stored # None /\ f = stored /\ f.gen = membership.gen

\* Mutant: only the expiry moves.
RenewedSameIssue(f) == [f EXCEPT !.expires = now + TTL]

Renewed(f) == [f EXCEPT !.issued = now, !.expires = now + TTL]

CanRenew(f) ==
    /\ control.active # None
    /\ ExactAuthority(f, control.active.fence)
    /\ Valid(f, now)
    /\ now + TTL > f.expires
    /\ now <= MaxIssue

CommitRenewal(f) ==
    /\ control' = [control EXCEPT !.active.fence = Renewed(f), !.active.previous = f]
    /\ issued' = issued \cup {[request |-> binding[control.active.request], fence |-> Renewed(f)]}
    /\ UNCHANGED <<binding, nextOp, history>>

\* renewControllerOperationLease: the journal first, then the lease file.
RenewAuthority(f) ==
    /\ CanRenew(f)
    /\ CommitRenewal(f)
    /\ lease' = AfterRenewLeaseTo(Renewed(f))

\* Mutant: the lease file is extended before the journal.
RenewCrashesLeaseFirst(f) ==
    /\ CanRenew(f)
    /\ lease' = AfterRenewLeaseTo(Renewed(f))
    /\ UNCHANGED <<control, binding, nextOp, history, issued>>

\* The process dies, or the lease write fails, between the two.
RenewCrashes(f) ==
    /\ CanRenew(f)
    /\ CommitRenewal(f)
    /\ UNCHANGED lease

\* The holder of the immediate predecessor lost the reply: the lease file is
\* brought up to the committed renewal, which is returned unchanged.
CanRecoverRenewal(f) ==
    /\ control.active # None
    /\ f # control.active.fence
    /\ ExactAuthority(f, control.active.previous)

RecoverRenewal(f) ==
    /\ CanRecoverRenewal(f)
    /\ lease' = AfterRenewLeaseTo(control.active.fence)
    /\ UNCHANGED <<control, binding, nextOp, history, issued>>

CanRelease(f) ==
    /\ control.active # None
    /\ \/ ExactAuthority(f, control.active.fence)
       \/ ExactAuthority(f, control.active.previous)
    /\ HoldsLease(f)

\* releaseControllerOperationLease: the lease file first, then the journal.
ReleaseAuthority(f) ==
    /\ CanRelease(f)
    /\ lease' = [lease EXCEPT ![f.scope] = None]
    /\ control' = [control EXCEPT !.active = None]
    /\ history' = history \cup {[op |-> f.op, phase |-> "completed"]}
    /\ UNCHANGED <<binding, nextOp, issued>>

\* The lease file is gone, the journal still names the operation.
ReleaseCrashes(f) ==
    /\ CanRelease(f)
    /\ lease' = [lease EXCEPT ![f.scope] = None]
    /\ UNCHANGED <<control, binding, nextOp, history, issued>>

\* updateControllerFencePhase.
CanUpdatePhase(f) ==
    /\ control.active # None
    /\ ExactAuthority(f, control.active.fence)
    /\ Valid(f, now)

UpdatePhase(f, phase) ==
    /\ CanUpdatePhase(f)
    /\ control' = [control EXCEPT !.active.phase = phase]
    /\ UNCHANGED <<lease, binding, nextOp, history, issued>>

\* Mutant: the record is marked expired and left in place.
ReconcileExpiredInPlace ==
    /\ control.active # None
    /\ Unexpired = None
    /\ control' = [control EXCEPT !.active.phase = "expired-reconciled"]
    /\ history' = RetireExpired
    /\ UNCHANGED <<lease, binding, nextOp, issued>>

\* handleFenceStatus retires an expired operation.
ReconcileExpired ==
    /\ control.active # None
    /\ Unexpired = None
    /\ control' = [control EXCEPT !.active = None]
    /\ history' = RetireExpired
    /\ UNCHANGED <<lease, binding, nextOp, issued>>

\* GET /v1/lease.
ReadLeaseStatus(s) ==
    /\ lease' = AfterReadLease(s)
    /\ UNCHANGED <<control, binding, nextOp, history, issued>>

-----------------------------------------------------------------------------
Init == now = 0 /\ membership \in Inventory /\ InitAuthority

AuthorityStep ==
    \/ \E r \in Request, v \in ReadInventory :
         \/ AcquireAuthority(r, v)
         \/ \E bound, removed \in BOOLEAN : AcquireAborts(r, v, bound, removed)
         \/ AcquireWhileActive(r, v)
    \/ \E i \in issued :
         \/ RenewAuthority(i.fence) \/ RenewCrashes(i.fence) \/ RecoverRenewal(i.fence)
         \/ ReleaseAuthority(i.fence) \/ ReleaseCrashes(i.fence)
         \/ \E p \in {"targets-fenced", "mutating"} : UpdatePhase(i.fence, p)
    \/ ReconcileExpired
    \/ \E s \in Scope : ReadLeaseStatus(s)

\* The membership command replaces the inventory; it does not ask whether an
\* operation is active.
ChangeMembership ==
    /\ \E v \in Inventory : v.gen > membership.gen /\ membership' = v
    /\ UNCHANGED <<now, authority>>

Tick ==
    /\ now < MaxIssue + TTL
    /\ now' = now + 1
    /\ UNCHANGED <<membership, authority>>

Next ==
    \/ AuthorityStep /\ UNCHANGED <<now, membership>>
    \/ ChangeMembership
    \/ Tick

Spec == Init /\ [][Next]_controllerVars

-----------------------------------------------------------------------------
(* Properties.                                                             *)

\* A fencing token identifies one operation, also when a crash makes the
\* controller hand out the same number again (the journal, which holds the
\* token, is written before any reply).
TokenIdentifiesOperation ==
    \A i, j \in issued : i.fence.token = j.fence.token <=> i.fence.op = j.fence.op

\* A retried or replayed request ID never obtains authority for another scope,
\* operation or target set (fence.go, "durably bound to different immutable
\* scope").
RequestBoundOnce ==
    \A i, j \in issued : i.request.id = j.request.id => i.request = j.request

\* The grants of one operation are totally ordered by strict renewal, which is
\* what lets a worker tell a renewal from a replay.
GrantsFormChain ==
    \A i, j \in issued : i.fence.op = j.fence.op =>
        \/ i.fence = j.fence
        \/ ValidFenceRenewal(i.fence, j.fence)
        \/ ValidFenceRenewal(j.fence, i.fence)

\* A lease file never outlives the journal's grants of its operation (lease.go,
\* renewLeaseTo: "prevents a crash from extending hidden lease authority beyond
\* the durable controller fence").
LeaseWithinFence ==
    \A s \in Scope : \A i \in issued :
        lease[s] # None /\ lease[s].op = i.fence.op =>
            \E j \in issued : j.fence.op = i.fence.op /\ lease[s].expires <= j.fence.expires

\* Authority changes hands only when the previous operation completed its
\* release or every grant it ever held has expired on the controller's clock.
HandoverAfterExpiry ==
    [][\A i \in issued' \ issued : \A j \in issued : j.fence.op # i.fence.op =>
         \/ [op |-> j.fence.op, phase |-> "completed"] \in history
         \/ Expired(j.fence, now)]_controllerVars
=============================================================================
