------------------------- MODULE AllocationAuthority -------------------------
(***************************************************************************)
(* Which mesh allocations the proxies of a cluster may route to.           *)
(*                                                                         *)
(* The controller authorizes them by publish-before-commit: an operation   *)
(* prepares a proposal, a candidate inventory that the controller signs    *)
(* and keeps in pending.json; every edge is recorded as a target, is sent  *)
(* the candidate and acknowledges it; only then is the candidate committed *)
(* to the membership file.  An operation that dies leaves its proposal     *)
(* behind, perhaps accepted by some of the edges.  The next operation      *)
(* first recovers it: the controller commits a copy of its own allocations *)
(* under a generation above the proposal's, and the targets converge on    *)
(* that.  Meanwhile node lifecycle commands change the membership and copy *)
(* the inventory to the edges over SSH.                                    *)
(*                                                                         *)
(* A request to the controller is one step: takod holds the lifecycle      *)
(* exclusion lock, which a change of the membership needs too, for as long *)
(* as the handler runs.  A crash of the controller between two files the   *)
(* handler writes is a step of its own.  Abstracted: the proofs inside an  *)
(* allocation (an allocation is the worker it is on and the operation that *)
(* it is bound to), signatures, the proxies' own routes, timestamps.       *)
(***************************************************************************)
EXTENDS Naturals

CONSTANTS
    Workers,        \* nodes with mesh allocations
    Edges,          \* nodes other than the controller that run a proxy
    Ops,            \* operations, each with its own ID and fence token
    Scopes,         \* a project and environment
    ScopeOf,        \* ScopeOf[o]: the scope of operation o
    EdgesOf,        \* EdgesOf[o]: the edges of operation o
    MaxGeneration, MaxAllocationGeneration,     \* bounds of the two generations
    MaxCopies,      \* bound on the inventories that lifecycle commands copy to edges
    None

Inventory == [gen: Nat, agen: Nat, sched: SUBSET Workers,
              allocs: [Scopes -> SUBSET (Workers \X Ops)]]

\* pending.json: who proposed which allocations, the candidate, the edges that it
\* may have been published to, those that acknowledged it, and the same of the
\* recovery.  The base generations are the candidate's gen and its agen - 1.
Proposal == [op: Ops, req: SUBSET Workers, base: Nat, cand: Inventory,
             targets: SUBSET Edges, acked: SUBSET Edges,
             recovery: Inventory \cup {None}, recovered: SUBSET Edges]

ASSUME AllocationAssumption ==
    /\ ScopeOf \in [Ops -> Scopes] /\ EdgesOf \in [Ops -> SUBSET Edges]
    /\ MaxGeneration \in Nat \ {0} /\ MaxAllocationGeneration \in Nat /\ MaxCopies \in Nat
    /\ None \notin Ops /\ None \notin Edges
    /\ None \notin Inventory /\ None \notin Proposal

VARIABLES
    ctl,        \* the inventory the controller's membership file stands for
    pending,    \* pending.json, or None
    active,     \* the operation whose fence is active on the controller
    client,     \* client[o]: the CLI process that runs operation o
    flight,     \* inventories POSTed to an edge and not yet handled there
    edge,       \* edge[e]: the inventory file on e
    uploads,    \* inventories uploaded to an edge and not yet installed there
    copies,     \* how many were uploaded so far
    held,       \* the edges that have accepted the candidate of the pending proposal
    uncommitted,\* the candidates that have not been committed
    stale       \* the edges where an installation came after the controller had moved on

history == <<held, uncommitted, stale>>
copying == <<uploads, copies>>
vars == <<ctl, pending, active, client, flight, edge, copying, history>>

\* pc: what it does next; mode: what it publishes; gen: the membership generation
\* its fence is bound to; snap: the inventory it publishes; todo: the edges still
\* to be sent it; at: the edge at hand; from, id: the operation and the candidate
\* that identify the proposal.
Client == [pc: {"new", "recover", "sync", "ready", "next", "posted", "ack", "ended"},
           mode: {"recovery", "proposal"}, gen: Nat, snap: Inventory,
           todo: SUBSET Edges, at: Edges \cup {None}, from: Ops \cup {None}, id: Inventory]

Request == [op: Ops, edge: Edges, inv: Inventory]

Upload == [edge: Edges, inv: Inventory]

NoAllocations ==
    [gen |-> 1, agen |-> 0, sched |-> Workers, allocs |-> [s \in Scopes |-> {}]]

NewClient == [pc |-> "new", mode |-> "recovery", gen |-> 0, snap |-> NoAllocations, todo |-> {},
              at |-> None, from |-> None, id |-> NoAllocations]

Init ==
    /\ ctl = NoAllocations
    /\ pending = None
    /\ active = None
    /\ client = [o \in Ops |-> NewClient]
    /\ flight = {}
    /\ edge = [e \in Edges |-> NoAllocations]
    /\ uploads = {} /\ copies = 0
    /\ held = {}
    /\ uncommitted = {}
    /\ stale = {}

-----------------------------------------------------------------------------
(* The membership file and the node lifecycle commands.                    *)

\* The allocations on workers that cease to be schedulable are revoked.
Revoked(i, sched) ==
    [s \in Scopes |-> {a \in i.allocs[s] : a[1] \notin i.sched \ sched}]

\* A command changes the membership; sched are the schedulable workers after it.
MembershipChange(sched) ==
    /\ ctl.gen < MaxGeneration
    /\ LET allocs == Revoked(ctl, sched)
           agen == IF allocs = ctl.allocs THEN ctl.agen ELSE ctl.agen + 1
       IN  /\ agen <= MaxAllocationGeneration
           /\ ctl' = [gen |-> ctl.gen + 1, agen |-> agen, sched |-> sched, allocs |-> allocs]
    /\ UNCHANGED <<pending, active, client, flight, edge, copying, history>>

\* A command uploads the controller's inventory to a temporary file on an edge.
UploadInventory(e) ==
    /\ copies < MaxCopies
    /\ copies' = copies + 1
    /\ uploads' = uploads \cup {[edge |-> e, inv |-> ctl]}
    /\ UNCHANGED <<ctl, pending, active, client, flight, edge, history>>

\* The script on the edge installs the file at any later time: it replaces the
\* inventory in place whatever its generation.
InstallInventory(u) ==
    /\ u \in uploads
    /\ uploads' = uploads \ {u}
    /\ edge' = [edge EXCEPT ![u.edge] = u.inv]
    /\ stale' = IF u.inv = ctl THEN stale \ {u.edge} ELSE stale \cup {u.edge}
    /\ UNCHANGED <<ctl, pending, active, client, flight, copies, held, uncommitted>>

\* acceptSignedInventory: neither generation goes back, and the content changes
\* only when one of them advances.
Advances(current, i) ==
    /\ i.gen >= current.gen
    /\ i.agen >= current.agen
    /\ i.gen = current.gen /\ i.agen = current.agen => i = current

-----------------------------------------------------------------------------
(* An operation and the controller's fence.                                *)

Become(o, c) == client' = [client EXCEPT ![o] = c]

\* The call at hand has returned: what it worked with is forgotten.
Return(o, pc) ==
    Become(o, [NewClient EXCEPT !.pc = pc, !.gen = IF pc = "ended" THEN 0 ELSE client[o].gen])

\* Nothing is left to recover.
Synchronize(o) ==
    Become(o, [NewClient EXCEPT !.pc = "sync", !.gen = client[o].gen, !.todo = EdgesOf[o]])

\* The CLI acquires the controller's lease and activates the fence there.
Acquire(o) ==
    /\ client[o].pc = "new"
    /\ active = None
    /\ active' = o
    /\ Become(o, [NewClient EXCEPT !.pc = "recover", !.gen = ctl.gen])
    /\ UNCHANGED <<ctl, pending, flight, edge, copying, history>>

\* The operation is over: it has finished, a step failed, the process was killed.  Its
\* fence is released or expires.
End(o) ==
    /\ active = o
    /\ active' = None
    /\ Return(o, "ended")
    /\ UNCHANGED <<ctl, pending, flight, edge, copying, history>>

\* The fence is lost and the process does not know.  It goes on until it needs the
\* controller to admit a request, so only what it does without that is kept.
LoseFence(o) ==
    /\ active = o
    /\ client[o].pc \in {"sync", "next", "posted"} /\ client[o].mode = "recovery"
    /\ active' = None
    /\ UNCHANGED <<ctl, pending, client, flight, edge, copying, history>>

\* The publication of a proposal fails and the operation goes on without it.
GiveUp(o) ==
    /\ active = o
    /\ client[o].pc \in {"next", "posted", "ack"}
    /\ client[o].mode = "proposal"
    /\ Return(o, "ready")
    /\ UNCHANGED <<ctl, pending, active, flight, edge, copying, history>>

\* The controller admits a mutation of o: its fence is the active one and still
\* that of the current membership.
Admitted(o) ==
    /\ active = o
    /\ client[o].gen = ctl.gen

\* pendingAllocationForActiveOperation
Bound(o) ==
    /\ Admitted(o)
    /\ pending # None
    /\ pending.op = o /\ pending.cand = client[o].id

\* What identifies the recovery that o takes part in.
Recovering(o) ==
    /\ Admitted(o)
    /\ pending # None
    /\ pending.recovery # None
    /\ pending.op = client[o].from /\ pending.cand = client[o].id

-----------------------------------------------------------------------------
(* Recovery of a proposal that an earlier operation has left behind.       *)

\* Mutant: exhaustion is not noticed.
ExhaustedNever(agen) == FALSE

\* In the code the 64-bit generation wraps to zero.
Exhausted(agen) == agen > MaxAllocationGeneration

\* Mutant: the copy takes the generation of the abandoned candidate.
RecoverySameGeneration ==
    IF pending.cand.agen <= ctl.agen THEN ctl.agen + 1 ELSE pending.cand.agen

\* Above the candidate's, or, when there is none above it, the controller's next.
RecoveryGeneration ==
    LET next == pending.cand.agen + 1 IN
    IF next <= ctl.agen \/ Exhausted(next) THEN ctl.agen + 1 ELSE next

\* Mutant: a copy of the membership that the proposal was prepared on.
RecoveryOfCandidate == [pending.cand EXCEPT !.agen = RecoveryGeneration, !.allocs = ctl.allocs]

RecoveryCopy == [ctl EXCEPT !.agen = RecoveryGeneration]

StartRecovery(o, p, snap) ==
    Become(o, [client[o] EXCEPT !.pc = "next", !.mode = "recovery", !.snap = snap,
                                !.todo = p.targets, !.from = p.op, !.id = p.cand])

Recover(o) ==
    /\ client[o].pc = "recover"
    /\ Admitted(o)
    /\ \/ /\ pending = None
          /\ Synchronize(o)
          /\ UNCHANGED <<ctl, pending, uncommitted>>
       \/ /\ pending # None
          /\ pending.op # o
          /\ pending.recovery # None
          /\ StartRecovery(o, pending, pending.recovery)
          /\ UNCHANGED <<ctl, pending, uncommitted>>
       \/ /\ pending # None
          /\ pending.op # o
          /\ pending.recovery = None
          /\ ~Exhausted(RecoveryGeneration)
          /\ ctl' = RecoveryCopy
          /\ uncommitted' = uncommitted \ {RecoveryCopy}
          /\ pending' = [pending EXCEPT !.recovery = RecoveryCopy]
          /\ StartRecovery(o, pending, RecoveryCopy)
    /\ UNCHANGED <<active, flight, edge, copying, held, stale>>

\* The copy is committed and the recovery is not recorded: the request fails.
RecoverCrash(o) ==
    /\ client[o].pc = "recover"
    /\ Admitted(o)
    /\ pending # None
    /\ pending.op # o
    /\ pending.recovery = None
    /\ ~Exhausted(RecoveryGeneration)
    /\ ctl' = RecoveryCopy
    /\ uncommitted' = uncommitted \ {RecoveryCopy}
    /\ Return(o, "ended")
    /\ active' = None
    /\ UNCHANGED <<pending, flight, edge, copying, held, stale>>

\* POSTs the snapshot to e: handled at any later time, or never.
Post(o, e) ==
    /\ flight' = flight \cup {[op |-> o, edge |-> e, inv |-> client[o].snap]}
    /\ Become(o, [client[o] EXCEPT !.pc = "posted", !.at = e])

SendRecovery(o, e) ==
    /\ client[o].pc = "next" /\ client[o].mode = "recovery"
    /\ e \in client[o].todo
    /\ Post(o, e)
    /\ UNCHANGED <<ctl, pending, active, edge, copying, history>>

AckRecovery(o) ==
    /\ client[o].pc = "ack" /\ client[o].mode = "recovery"
    /\ Recovering(o)
    /\ client[o].at \in pending.targets
    /\ pending' = [pending EXCEPT !.recovered = @ \cup {client[o].at}]
    /\ Become(o, [client[o] EXCEPT !.pc = "next", !.todo = @ \ {client[o].at}])
    /\ UNCHANGED <<ctl, active, flight, edge, copying, history>>

FinalizeRecovery(o) ==
    /\ client[o].pc = "next" /\ client[o].mode = "recovery"
    /\ client[o].todo = {}
    /\ Recovering(o)
    /\ pending.targets = pending.recovered
    /\ pending' = None
    /\ held' = {}
    /\ Synchronize(o)
    /\ UNCHANGED <<ctl, active, flight, edge, copying, uncommitted, stale>>

\* The fence targets are sent the controller's signed inventory, one after another.
\* Reading it and its acceptance are one step: a POST that comes late is modelled for
\* recoveries and proposals.
SyncEdge(o, e) ==
    /\ client[o].pc = "sync"
    /\ e \in client[o].todo
    /\ Advances(edge[e], ctl)
    /\ edge' = [edge EXCEPT ![e] = ctl]
    /\ stale' = stale \ {e}
    /\ Become(o, [client[o] EXCEPT !.todo = @ \ {e}])
    /\ UNCHANGED <<ctl, pending, active, flight, copying, held, uncommitted>>

Ready(o) ==
    /\ client[o].pc = "sync"
    /\ client[o].todo = {}
    /\ Return(o, "ready")
    /\ UNCHANGED <<ctl, pending, active, flight, edge, copying, history>>

-----------------------------------------------------------------------------
(* The proposal.                                                           *)

Allocations(o, ws) == [ctl.allocs EXCEPT ![ScopeOf[o]] = {<<w, o>> : w \in ws}]

\* Replacing nothing by nothing leaves the slice of all allocations as it is,
\* except that an empty slice replaces a nil one when there are none at all.
NothingChanges(o, ws) ==
    /\ ws = {}
    /\ ctl.allocs[ScopeOf[o]] = {}
    /\ \E s \in Scopes : ctl.allocs[s] # {}

Candidate(o, ws) == [ctl EXCEPT !.agen = @ + 1, !.allocs = Allocations(o, ws)]

NewProposal(o, ws) ==
    [op |-> o, req |-> ws, base |-> ctl.agen, cand |-> Candidate(o, ws), targets |-> {},
     acked |-> {}, recovery |-> None, recovered |-> {}]

BaseUnchanged == ctl.gen = pending.cand.gen /\ ctl.agen = pending.base

StartProposal(o, p) ==
    Become(o, [client[o] EXCEPT !.pc = "next", !.mode = "proposal", !.snap = p.cand,
                                !.todo = EdgesOf[o], !.from = o, !.id = p.cand])

\* The allocations ws replace those of the operation's scope.  A request that is
\* refused leaves the operation where it is.
Prepare(o, ws) ==
    /\ client[o].pc = "ready"
    /\ Admitted(o)
    /\ \/ /\ pending = None
          /\ ws \subseteq ctl.sched
          /\ ~NothingChanges(o, ws)
          /\ ~Exhausted(ctl.agen + 1)
          /\ pending' = NewProposal(o, ws)
          /\ StartProposal(o, NewProposal(o, ws))
          /\ uncommitted' = uncommitted \cup {Candidate(o, ws)}
       \/ /\ pending # None
          /\ BaseUnchanged
          /\ pending.op = o /\ pending.req = ws
          /\ StartProposal(o, pending)
          /\ UNCHANGED <<pending, uncommitted>>
    /\ UNCHANGED <<ctl, active, flight, edge, copying, held, stale>>

\* Mutant: the edge is to become a target when it acknowledges.
TrackLater(o, e) ==
    /\ client[o].pc = "next" /\ client[o].mode = "proposal"
    /\ e \in client[o].todo
    /\ Bound(o)
    /\ Post(o, e)
    /\ UNCHANGED <<ctl, pending, active, edge, copying, history>>

\* The edge becomes a target of the proposal, durably, before it is sent it.
Track(o, e) ==
    /\ client[o].pc = "next" /\ client[o].mode = "proposal"
    /\ e \in client[o].todo
    /\ Bound(o)
    /\ pending' = [pending EXCEPT !.targets = @ \cup {e}]
    /\ Post(o, e)
    /\ UNCHANGED <<ctl, active, edge, copying, history>>

Ack(o) ==
    /\ client[o].pc = "ack" /\ client[o].mode = "proposal"
    /\ Bound(o)
    /\ client[o].at \in pending.targets
    /\ pending' = [pending EXCEPT !.acked = @ \cup {client[o].at}]
    /\ Become(o, [client[o] EXCEPT !.pc = "next", !.todo = @ \ {client[o].at}])
    /\ UNCHANGED <<ctl, active, flight, edge, copying, history>>

\* Mutant: the client commits once one edge has acknowledged.
PublishedToOne(o) ==
    /\ client[o].pc = "next" /\ client[o].mode = "proposal"
    /\ client[o].todo # EdgesOf[o]

\* Every edge has acknowledged.
Published(o) ==
    /\ client[o].pc = "next" /\ client[o].mode = "proposal"
    /\ client[o].todo = {}

CanCommit(o) ==
    /\ Published(o)
    /\ Bound(o)
    /\ BaseUnchanged
    /\ pending.targets = pending.acked

Commit(o) ==
    /\ CanCommit(o)
    /\ ctl' = pending.cand
    /\ uncommitted' = uncommitted \ {pending.cand}
    /\ pending' = None
    /\ held' = {}
    /\ Return(o, "ready")
    /\ UNCHANGED <<active, flight, edge, copying, stale>>

\* The proposal is committed and stays behind: the controller stops, or its own
\* routes cannot be reconciled.
CommitCrash(o) ==
    /\ CanCommit(o)
    /\ ctl' = pending.cand
    /\ uncommitted' = uncommitted \ {pending.cand}
    /\ Return(o, "ended")
    /\ active' = None
    /\ UNCHANGED <<pending, flight, edge, copying, held, stale>>

-----------------------------------------------------------------------------
(* An edge handles a signed inventory.                                     *)

AwaitsReply(m) ==
    /\ client[m.op].pc = "posted"
    /\ client[m.op].at = m.edge
    /\ client[m.op].snap = m.inv

\* An accepted POST.  A refused one changes nothing and ends the client (End, GiveUp).
AcceptInventory(m) ==
    /\ m \in flight
    /\ Advances(edge[m.edge], m.inv)
    /\ flight' = flight \ {m}
    /\ edge' = [edge EXCEPT ![m.edge] = m.inv]
    /\ client' = IF AwaitsReply(m)
                 THEN [client EXCEPT ![m.op].pc = "ack"]
                 ELSE client
    /\ held' = IF pending # None /\ m.inv = pending.cand THEN held \cup {m.edge} ELSE held
    /\ UNCHANGED <<ctl, pending, active, copying, uncommitted, stale>>

-----------------------------------------------------------------------------
Next ==
    \/ \E sched \in SUBSET Workers : MembershipChange(sched)
    \/ \E e \in Edges : UploadInventory(e)
    \/ \E u \in uploads : InstallInventory(u)
    \/ \E o \in Ops :
        \/ Acquire(o) \/ End(o) \/ LoseFence(o) \/ GiveUp(o)
        \/ Recover(o) \/ RecoverCrash(o) \/ AckRecovery(o) \/ FinalizeRecovery(o)
        \/ Ready(o)
        \/ \E ws \in SUBSET Workers : Prepare(o, ws)
        \/ Ack(o) \/ Commit(o) \/ CommitCrash(o)
        \/ \E e \in Edges : SyncEdge(o, e) \/ SendRecovery(o, e) \/ Track(o, e)
    \/ \E m \in flight : AcceptInventory(m)

Spec == Init /\ [][Next]_vars

-----------------------------------------------------------------------------
(* Properties                                                              *)

\* Every variable has its type; no generation passes its bound.
TypeOK ==
    /\ ctl \in Inventory
    /\ ctl.gen <= MaxGeneration /\ ctl.agen <= MaxAllocationGeneration
    /\ pending \in Proposal \cup {None}
    /\ active \in Ops \cup {None}
    /\ client \in [Ops -> Client]
    /\ flight \subseteq Request
    /\ edge \in [Edges -> Inventory]
    /\ uploads \subseteq Upload /\ copies \in 0..MaxCopies
    /\ held \subseteq Edges /\ stale \subseteq Edges
    /\ uncommitted \subseteq Inventory

\* The inventories that exist: on the controller, in the proposal, on an edge, with a
\* client or on their way.
Inventories ==
    {ctl} \cup uncommitted \cup {edge[e] : e \in Edges} \cup {m.inv : m \in flight}
    \cup {u.inv : u \in uploads} \cup {client[o].snap : o \in Ops}

\* Two inventories with the same two generations are the same inventory, whatever was
\* abandoned, recovered and retried in between: an edge that compares generations
\* compares contents (acceptSignedInventory, pendingAllocationAuthorizationPath).  The
\* exception is a candidate that was abandoned at the last allocation generation: its
\* recovery has to use the same generation (recoverAllocationAuthorization).
SameGenerationSameContent ==
    \A i, j \in Inventories :
        i.gen = j.gen /\ i.agen = j.agen =>
            i = j \/ (i.agen = MaxAllocationGeneration /\ {i, j} \cap uncommitted # {})

\* An edge holds a candidate that was not committed only while its proposal is pending
\* and counts the edge among its targets, or after a delayed installation put an old
\* inventory back: otherwise a proposal that was abandoned leaves nothing behind on an
\* edge once it is recovered, however late a POST of it arrives
\* (trackAllocationPublicationTarget, recoverAllocationAuthorization).  After such an
\* installation a late POST of the abandoned candidate is accepted, with nothing
\* pending that would recover it.
AbandonedIsTracked ==
    \A e \in Edges :
        edge[e] \in uncommitted =>
            \/ pending # None /\ e \in pending.targets /\ edge[e] = pending.cand
            \/ e \in stale

\* Publish before commit: when an operation commits its candidate, every edge of the
\* operation has accepted it (authorizeTakodMeshAllocations,
\* commitAllocationAuthorization).  An edge need not hold it any more: a lifecycle
\* command may have installed an earlier inventory since.
CommitAfterEveryEdge ==
    [][\A o \in Ops :
            active = o /\ pending # None /\ pending.op = o /\ ctl' = pending.cand /\ ctl' # ctl
                => EdgesOf[o] \subseteq held]_vars

\* The controller's authority never goes back: a proposal prepared on one membership
\* is never written over another (CommitPreparedAllocations), and every change of the
\* inventory advances a generation.
AuthorityIsMonotonic ==
    [][ctl' # ctl => /\ ctl'.gen >= ctl.gen /\ ctl'.agen >= ctl.agen
                     /\ ctl'.gen > ctl.gen \/ ctl'.agen > ctl.agen]_vars

\* The recovery that is recorded can be published to every target that has not
\* acknowledged it yet: the target accepts it.
RetryIsMonotonic ==
    pending # None => (pending.recovery # None =>
        \A e \in pending.targets \ pending.recovered : Advances(edge[e], pending.recovery))

=============================================================================
