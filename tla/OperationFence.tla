--------------------------- MODULE OperationFence ---------------------------
(***************************************************************************)
(* Fenced operations end to end: coordinators (engine.RemoteLeaseSet), the *)
(* controller's authority, the fences of every target node and the RPCs    *)
(* between them.                                                           *)
(*                                                                         *)
(* A coordinator's main thread and its renewal loop each have at most one  *)
(* call outstanding.  A request the caller has given up on may still be    *)
(* executed later, or never; its reply goes nowhere.  That covers the lost *)
(* reply too: the coordinator's state is private, so giving up may always  *)
(* be moved before the execution.  For the same reason a reply that does   *)
(* arrive is consumed, and the next request sent, in the step of the       *)
(* handler.  Mutations are sent without waiting.                           *)
(*                                                                         *)
(* Not composed here: the latch, maintenance (no task exists, so the       *)
(* barrier never blocks) and pending allocation proposals.                 *)
(***************************************************************************)
EXTENDS Integers

CONSTANTS
    Node, Controller, Scope, None, FutureTolerance, Grant, Inventory,
    MaintenanceTask, MaxTime, TTL, MaxToken, MaxOp, MaxIssue,
    Client,       \* coordinators; each runs one operation
    RequestOf,    \* RequestOf[c]: the request the coordinator acquires with
    MaxSkew,      \* bound on the difference between two nodes' clocks
    MaxRenewals,  \* bound on the renewals a coordinator starts
    MaxFaults     \* bound on the timeouts, crashes and restarts of a behaviour

VARIABLES
    clock, inventory, denied, fenceState, barrier, timers, maintenance,
    activating, gated, running,                             \* nodes
    control, lease, binding, nextOp, history, issued,    \* controller
    client,   \* client[c]: the coordinator's state
    net,      \* requests sent and not yet executed
    faults    \* timeouts, crashes and restarts so far

RequestId == Client
Request == {RequestOf[c] : c \in Client}

W == INSTANCE WorkerFence
C == INSTANCE ControllerAuthority
        WITH now <- clock[Controller], membership <- inventory[Controller]

ASSUME NodeAssumption == Controller \in Node
ASSUME ToleranceAssumption == FutureTolerance \in Nat
ASSUME MaxTimeAssumption == MaxTime \in Nat
ASSUME TTLAssumption == TTL \in Nat \ {0}
ASSUME BoundAssumption == MaxToken \in Nat /\ MaxOp \in Nat /\ MaxIssue \in Nat
ASSUME FaultAssumption == MaxFaults \in Nat
ASSUME InventoryAssumption == Inventory \subseteq W!InventoryRecord

\* Every membership change advances the generation.
ASSUME GenerationAssumption == \A u, v \in Inventory : u.gen = v.gen => u = v

\* Each coordinator draws a random request ID of its own.
ASSUME RequestAssumption ==
    /\ Request \subseteq C!RequestRecord /\ None \notin Request
    /\ \A c \in Client : RequestOf[c].id = c

\* Grant holds whatever the controller signs: new grants and renewals.
ASSUME GrantAssumption == Grant \subseteq W!GrantRecord /\ None \notin Grant
ASSUME SignedAssumption ==
    \A t \in 0..MaxIssue :
        /\ \A r \in Request, v \in Inventory, k \in 1..MaxToken, o \in 1..MaxOp :
             [token |-> k, op |-> o, scope |-> r.scope, operation |-> r.operation,
              gen |-> v.gen, targets |-> r.targets, issued |-> t, expires |-> t + TTL] \in Grant
        /\ \A f \in Grant : [f EXCEPT !.issued = t, !.expires = t + TTL] \in Grant

ASSUME ActiveAssumption == None \notin C!ActiveRecord
ASSUME HoldAssumption == None \notin W!Activation /\ None \notin W!BarrierHold

workerVars == <<clock, inventory, denied, fenceState, barrier, timers,
                maintenance, activating, gated, running>>
authority == <<control, lease, binding, nextOp, history, issued>>
vars == <<workerVars, authority, client, net, faults>>

MainState == {"idle", "acquire", "self", "snapshot", "publish", "fence", "phase",
              "starting", "mutate", "revoke", "release", "stopped"}
RenewState == {"off", "idle", "renew", "publish"}

\* A request: its sender, the handler it addresses and its payload.
Msg(c, kind, n, body, try) ==
    [from |-> c, kind |-> kind, node |-> n, body |-> body, try |-> try]

Idle == [pc |-> "idle", grant |-> None, snapshot |-> None, todo |-> {}, fenced |-> {},
         failed |-> FALSE, call |-> None,
         renewal |-> "off", offer |-> None, left |-> {}, rcall |-> None, renewals |-> 0]

Message ==
    [from: Client, node: Node, body: Grant \cup Inventory \cup {None}, try: Nat,
     kind: {"acquire", "renew", "release", "phase", "snapshot", "inventory", "activate", "revoke"}]

ASSUME MessageAssumption == None \notin Message

Coordinator ==
    [pc: MainState, grant: Grant \cup {None}, snapshot: Inventory \cup {None},
     todo: SUBSET Node, fenced: SUBSET Node, failed: BOOLEAN, call: Message \cup {None},
     renewal: RenewState, offer: Grant \cup {None}, left: SUBSET Node,
     rcall: Message \cup {None}, renewals: Nat]

TypeOK ==
    /\ W!TypeOK
    /\ C!TypeOK
    /\ client \in [Client -> Coordinator]
    /\ net \subseteq Message
    /\ faults \in 0..MaxFaults

Init ==
    /\ W!Init
    /\ C!InitAuthority
    /\ client = [c \in Client |-> Idle]
    /\ net = {}
    /\ faults = 0

Fault == faults < MaxFaults /\ faults' = faults + 1

\* The targets of a loop are visited in one fixed order.
First(S) == CHOOSE n \in S : TRUE

-----------------------------------------------------------------------------
(* The coordinator's main thread (acquireControllerOperationLeaseSet).     *)

Calling(s, pc, m) == [s EXCEPT !.pc = pc, !.call = m]

\* Release: revoke every fenced target, then give the authority back.
ToRelease(c, s) ==
    LET off == [s EXCEPT !.renewal = "off", !.rcall = None, !.todo = s.fenced, !.failed = FALSE] IN
    IF s.fenced = {}
    THEN Calling(off, "release", Msg(c, "release", Controller, s.grant, 1))
    ELSE Calling(off, "revoke", Msg(c, "revoke", First(s.fenced), s.grant, 1))

\* Mutant: the authority is given back although a target was not revoked.
AfterRevokeIgnores(c, s, m, ok) ==
    LET rest == s.todo \ {m.node}  t == [s EXCEPT !.todo = rest] IN
    IF rest # {} THEN Calling(t, "revoke", Msg(c, "revoke", First(rest), s.grant, 1))
    ELSE Calling(t, "release", Msg(c, "release", Controller, s.grant, 1))

\* Mutant: the loop over the targets ends at the first answer.
AfterRevokeFirst(c, s, m, ok) ==
    Calling([s EXCEPT !.todo = {}], "release", Msg(c, "release", Controller, s.grant, 1))

\* The next target of Release once m.node has answered.
AfterRevoke(c, s, m, ok) ==
    LET rest == s.todo \ {m.node}
        t == [s EXCEPT !.todo = rest, !.failed = s.failed \/ ~ok] IN
    IF rest # {} THEN Calling(t, "revoke", Msg(c, "revoke", First(rest), s.grant, 1))
    ELSE IF t.failed THEN Calling(t, "stopped", None)
    ELSE Calling(t, "release", Msg(c, "release", Controller, s.grant, 1))

\* The inventory is published to every target and then the fence activated.
AfterPublish(c, s, m) ==
    LET rest == s.todo \ {m.node}
        t == [s EXCEPT !.todo = rest, !.fenced = s.fenced \cup {m.node}] IN
    IF rest # {} THEN Calling(t, "publish", Msg(c, "inventory", First(rest), s.snapshot, 1))
    ELSE Calling([t EXCEPT !.todo = t.fenced], "fence",
                 Msg(c, "activate", First(t.fenced), s.grant, 1))

AfterFence(c, s, m) ==
    LET rest == s.todo \ {m.node} IN
    IF rest # {} THEN Calling([s EXCEPT !.todo = rest], "fence",
                              Msg(c, "activate", First(rest), s.grant, 1))
    ELSE Calling([s EXCEPT !.todo = {}], "phase", Msg(c, "phase", Controller, s.grant, 1))

\* startRenewal renews once before the caller may mutate.
StartRenewal(c, s) ==
    [Calling(s, "starting", None) EXCEPT
        !.renewal = "renew", !.rcall = Msg(c, "renew", Controller, s.grant, s.renewals),
        !.renewals = s.renewals + 1]

\* The main thread after a successful reply with value v.
MainOk(c, s, m, v) ==
    CASE s.pc = "acquire"  -> Calling([s EXCEPT !.grant = v], "self",
                                      Msg(c, "activate", Controller, v, 0))
      [] s.pc = "self"     -> Calling([s EXCEPT !.fenced = {Controller}], "snapshot",
                                      Msg(c, "snapshot", Controller, None, 1))
      [] s.pc = "snapshot" -> Calling([s EXCEPT !.snapshot = v, !.todo = s.grant.targets],
                                      "publish",
                                      Msg(c, "inventory", First(s.grant.targets), v, 1))
      [] s.pc = "publish"  -> AfterPublish(c, s, m)
      [] s.pc = "fence"    -> AfterFence(c, s, m)
      [] s.pc = "phase"    -> StartRenewal(c, s)
      [] s.pc = "revoke"   -> AfterRevoke(c, s, m, TRUE)
      [] OTHER             -> Calling(s, "stopped", None)

\* The main thread after an error.  A transport error of the first acquire is
\* retried once with the same request; the set exists only after an acquire.
MainFail(c, s, m, retry) ==
    CASE s.pc = "acquire" -> IF retry /\ m.try = 1
                             THEN Calling(s, "acquire", Msg(c, "acquire", Controller, None, 2))
                             ELSE Calling(s, "stopped", None)
      [] s.pc = "revoke"  -> AfterRevoke(c, s, m, FALSE)
      [] s.pc = "release" -> Calling(s, "stopped", None)
      [] OTHER            -> ToRelease(c, s)

-----------------------------------------------------------------------------
(* The renewal loop (renewAll).                                            *)

\* Ownership is proven again: the caller may (continue to) mutate.
RenewalSettled(s) ==
    [s EXCEPT !.renewal = "idle", !.rcall = None, !.offer = None,
              !.pc = IF s.pc = "starting" THEN "mutate" ELSE s.pc]

\* markLost: the caller stops and releases.
Lost(c, s) == ToRelease(c, s)

\* Mutant: mutations carry the renewed grant before the targets have it.
RenewOkSwitchesEarly(c, s, m, v) ==
    IF s.renewal = "renew"
    THEN [s EXCEPT !.renewal = "publish", !.offer = v, !.grant = v, !.left = s.fenced,
                   !.rcall = Msg(c, "activate", First(s.fenced), v, s.renewals)]
    ELSE LET rest == s.left \ {m.node} IN
         IF rest # {}
         THEN [s EXCEPT !.left = rest, !.rcall = Msg(c, "activate", First(rest), s.offer, s.renewals)]
         ELSE RenewalSettled([s EXCEPT !.left = {}])

RenewOk(c, s, m, v) ==
    IF s.renewal = "renew"
    THEN [s EXCEPT !.renewal = "publish", !.offer = v, !.left = s.fenced,
                   !.rcall = Msg(c, "activate", First(s.fenced), v, s.renewals)]
    ELSE LET rest == s.left \ {m.node} IN
         IF rest # {}
         THEN [s EXCEPT !.left = rest, !.rcall = Msg(c, "activate", First(rest), s.offer, s.renewals)]
         ELSE RenewalSettled([s EXCEPT !.left = {}, !.grant = s.offer])

\* A failed renewal is fatal when the lease is confirmed lost or too little of
\* it is left; a failed publication to a target is always fatal.
RenewFail(c, s, fatal) ==
    IF fatal \/ s.renewal = "publish" THEN Lost(c, s) ELSE RenewalSettled(s)

-----------------------------------------------------------------------------
(* RPCs.                                                                   *)

Outstanding(s) == {s.call, s.rcall} \ {None}

\* Requests that leave when the coordinator moves from s to t.
Sent(s, t) == Outstanding(t) \ Outstanding(s)

Becomes(c, t, gone) ==
    /\ client' = [client EXCEPT ![c] = t]
    /\ net' = (net \ gone) \cup Sent(client[c], t)

\* The node has executed m.  The reply reaches the coordinator, if it waits.
Replied(m, ok, v) ==
    LET c == m.from  s == client[c] IN
    /\ UNCHANGED faults
    /\ \/ /\ m \notin Outstanding(s)
          /\ net' = net \ {m}
          /\ UNCHANGED client
       \/ /\ s.call = m
          /\ Becomes(c, IF ok THEN MainOk(c, s, m, v) ELSE MainFail(c, s, m, FALSE), {m})
       \/ /\ s.rcall = m
          /\ \/ ok /\ Becomes(c, RenewOk(c, s, m, v), {m})
             \/ ~ok /\ \E fatal \in BOOLEAN : Becomes(c, RenewFail(c, s, fatal), {m})

\* The call m fails at the coordinator with a transport error or a timeout.
CallFails(m, gone) ==
    LET c == m.from  s == client[c] IN
    \/ /\ s.call = m
       /\ \E retry \in BOOLEAN : Becomes(c, MainFail(c, s, m, retry), gone)
    \/ /\ s.rcall = m
       /\ \E fatal \in BOOLEAN : Becomes(c, RenewFail(c, s, fatal), gone)

\* takod dies while it executes m.
Unanswered(m) ==
    /\ Fault
    /\ \/ CallFails(m, {m})
       \/ /\ m \notin Outstanding(client[m.from])
          /\ net' = net \ {m}
          /\ UNCHANGED client

\* The coordinator gives up on its call; the request may still be executed.
Timeout(m) ==
    /\ Fault
    /\ CallFails(m, {})
    /\ UNCHANGED <<workerVars, authority>>

-----------------------------------------------------------------------------
(* Handlers.  The controller's run under operationFenceMu, which a blocked *)
(* activation on that node would hold.                                     *)

Delivered(m, kind) == m \in net /\ m.kind = kind

HandleAcquire(m) ==
    LET r == RequestOf[m.from] IN
    /\ Delivered(m, "acquire")
    /\ activating[Controller] = None
    /\ \E v \in C!ReadInventory :
       \/ /\ C!AcquireAuthority(r, v)
          /\ Replied(m, TRUE, C!NewGrant(r, v))
          /\ UNCHANGED workerVars
       \/ /\ \E bound \in BOOLEAN : C!AcquireAborts(r, v, bound, FALSE)
          /\ W!RestartTakod(Controller)
          /\ Unanswered(m)
       \/ /\ C!AcquireWhileActive(r, v)
          /\ Replied(m, C!RetryAnswered(r), C!Unexpired.fence)
          /\ UNCHANGED workerVars
       \/ /\ ~C!CanGrant(r, v)
          /\ ~(C!RequestAdmitted(r, v) /\ C!Unexpired # None)
          /\ Replied(m, FALSE, None)
          /\ UNCHANGED <<workerVars, authority>>

HandleRenew(m) ==
    LET f == m.body IN
    /\ Delivered(m, "renew")
    /\ activating[Controller] = None
    /\ \/ /\ C!RenewAuthority(f)
          /\ Replied(m, C!HoldsLease(f), C!Renewed(f))
          /\ UNCHANGED workerVars
       \/ /\ C!RenewCrashes(f)
          /\ W!RestartTakod(Controller)
          /\ Unanswered(m)
       \/ /\ C!RecoverRenewal(f)
          /\ Replied(m, C!HoldsLease(f), control.active.fence)
          /\ UNCHANGED workerVars
       \/ /\ ~C!CanRenew(f) /\ ~C!CanRecoverRenewal(f)
          /\ Replied(m, FALSE, None)
          /\ UNCHANGED <<workerVars, authority>>

HandleRelease(m) ==
    LET f == m.body IN
    /\ Delivered(m, "release")
    /\ activating[Controller] = None
    /\ \/ /\ C!ReleaseAuthority(f)
          /\ Replied(m, TRUE, None)
          /\ UNCHANGED workerVars
       \/ /\ C!ReleaseCrashes(f)
          /\ W!RestartTakod(Controller)
          /\ Unanswered(m)
       \/ /\ ~C!CanRelease(f)
          /\ Replied(m, FALSE, None)
          /\ UNCHANGED <<workerVars, authority>>

\* The two phase updates are one call here; nothing reads the phase.
HandlePhase(m) ==
    LET f == m.body IN
    /\ Delivered(m, "phase")
    /\ activating[Controller] = None
    /\ UNCHANGED workerVars
    /\ \/ C!UpdatePhase(f, "mutating") /\ Replied(m, TRUE, None)
       \/ ~C!CanUpdatePhase(f) /\ Replied(m, FALSE, None) /\ UNCHANGED authority

HandleSnapshot(m) ==
    /\ Delivered(m, "snapshot")
    /\ Replied(m, TRUE, inventory[Controller])
    /\ UNCHANGED <<workerVars, authority>>

HandleInventory(m) ==
    /\ Delivered(m, "inventory")
    /\ UNCHANGED authority
    /\ \/ W!AcceptInventory(m.node, m.body) /\ Replied(m, TRUE, None)
       \/ /\ W!AdmissionFree(m.node) /\ ~W!InventoryAccepted(m.node, m.body)
          /\ Replied(m, FALSE, None)
          /\ UNCHANGED workerVars

HandleActivate(m) ==
    /\ Delivered(m, "activate")
    /\ UNCHANGED authority
    /\ \/ W!ActivateFence(m.node, m.body) /\ Replied(m, TRUE, None)
       \/ /\ W!AdmissionFree(m.node) /\ ~W!ActivationAccepted(m.node, m.body)
          /\ Replied(m, FALSE, None)
          /\ UNCHANGED workerVars

HandleRevoke(m) ==
    /\ Delivered(m, "revoke")
    /\ UNCHANGED authority
    /\ \/ W!RevokeFence(m.node, m.body) /\ Replied(m, TRUE, None)
       \/ /\ W!AdmissionFree(m.node) /\ ~W!RevocationAccepted(m.node, m.body)
          /\ Replied(m, FALSE, None)
          /\ UNCHANGED workerVars

-----------------------------------------------------------------------------
(* Coordinators and environment.                                           *)

Start(c) ==
    /\ client[c].pc = "idle"
    /\ Becomes(c, Calling(client[c], "acquire", Msg(c, "acquire", Controller, None, 1)), {})
    /\ UNCHANGED <<workerVars, authority, faults>>

\* A mutation carries the grant the set holds when the request is built.  It
\* may wait in front of the admission lock as long as it could in the network.
SendMutation(c, n) ==
    /\ client[c].pc = "mutate"
    /\ n \in client[c].fenced
    /\ client[c].grant \notin gated[n] \cup running[n]
    /\ W!PassDenyLatch(n, client[c].grant)
    /\ UNCHANGED <<authority, client, net, faults>>

\* The renewal ticker fires.
Renew(c) ==
    LET s == client[c] IN
    /\ s.pc = "mutate" /\ s.renewal = "idle" /\ s.renewals < MaxRenewals
    /\ Becomes(c, [s EXCEPT !.renewal = "renew", !.renewals = @ + 1,
                     !.rcall = Msg(c, "renew", Controller, s.grant, s.renewals)], {})
    /\ UNCHANGED <<workerVars, authority, faults>>

\* The caller is done, failed or was cancelled; calls of its own may be left
\* behind on the nodes.
Release(c) ==
    /\ client[c].pc = "mutate"
    /\ Becomes(c, ToRelease(c, client[c]), {})
    /\ UNCHANGED <<workerVars, authority, faults>>

CrashClient(c) ==
    /\ Fault
    /\ client[c].pc \notin {"idle", "stopped"}
    /\ client' = [client EXCEPT ![c] = [Idle EXCEPT !.pc = "stopped"]]
    /\ UNCHANGED <<workerVars, authority, net>>

\* Node-local steps.
LocalStep(n) ==
    /\ \/ \E f \in gated[n] : W!AdmitMutation(n, f, "other")
       \/ \E f \in running[n] : W!FinishMutation(n, f)
       \/ W!Tick(n) /\ \A k \in Node : clock[n] + 1 - clock[k] <= MaxSkew
    /\ UNCHANGED <<authority, client, net, faults>>

Restart(n) ==
    /\ Fault
    /\ W!RestartTakod(n)
    /\ UNCHANGED <<authority, client, net>>

\* A membership command commits a generation on the controller, and copies the
\* controller's file to a worker.
ChangeMembership ==
    /\ \E v \in Inventory : v.gen = inventory[Controller].gen + 1 /\ W!InstallInventory(Controller, v)
    /\ UNCHANGED <<authority, client, net, faults>>

CopyInventory(n) ==
    /\ n # Controller /\ inventory[n] # inventory[Controller]
    /\ W!InstallInventory(n, inventory[Controller])
    /\ UNCHANGED <<authority, client, net, faults>>

\* Status requests of other users.
Observe ==
    /\ C!ReconcileExpired \/ \E s \in Scope : C!ReadLeaseStatus(s)
    /\ activating[Controller] = None
    /\ UNCHANGED <<workerVars, client, net, faults>>

Next ==
    \/ \E m \in net :
         \/ HandleAcquire(m) \/ HandleRenew(m) \/ HandleRelease(m) \/ HandlePhase(m)
         \/ HandleSnapshot(m) \/ HandleInventory(m) \/ HandleActivate(m) \/ HandleRevoke(m)
         \/ Timeout(m)
    \/ \E c \in Client :
         \/ Start(c) \/ Renew(c) \/ Release(c) \/ CrashClient(c)
         \/ \E n \in Node : SendMutation(c, n)
    \/ \E n \in Node : LocalStep(n) \/ Restart(n) \/ CopyInventory(n)
    \/ ChangeMembership
    \/ Observe

Spec == Init /\ [][Next]_vars

-----------------------------------------------------------------------------
(* Properties.                                                             *)

Completed(o) == [op |-> o, phase |-> "completed"] \in history

\* Once the controller has recorded an operation as completed, none of its
\* mutations runs on any node, then or later: a delayed request of the released
\* operation is refused everywhere (leases.go, Release: "controller lease
\* retained until expiry to prevent overlapping writers").
CompletedIsQuiescent ==
    \A n \in Node : \A f \in running[n] : ~Completed(f.op)

\* Two operations mutate the cluster at once, on whatever nodes, only when the
\* earlier one has outlived its authority on the controller's clock.
ClusterSingleWriter ==
    \A n, k \in Node : \A f \in running[n], g \in running[k] :
        f.token < g.token => clock[Controller] >= f.expires

\* The holder can always revoke what it installed: a target that records the
\* coordinator's operation records the grant the coordinator holds, as active
\* or as predecessor, however renewals and timeouts interleave.
RevocableByHolder ==
    \A c \in Client : LET s == client[c] IN
        s.grant # None /\ s.pc # "stopped" =>
            \A n \in s.fenced : LET a == fenceState[n].active IN
                a # None /\ a.op = s.grant.op =>
                    s.grant \in {a, fenceState[n].previous}

\* A running coordinator is never refused for lack of a grant: from the moment
\* it may mutate, each target accepts what it holds for as long as the grant
\* and the membership last, also in the middle of a renewal's fan-out
\* (renewAll publishes before it switches, targets keep the predecessor).
HolderIsAdmitted ==
    \A c \in Client : LET s == client[c] IN
        s.pc = "mutate" =>
            \A n \in s.fenced :
                s.grant.gen = inventory[n].gen /\ W!Valid(s.grant, clock[n]) =>
                    W!ValidMutationFence(n, s.grant)

\* The predecessor of a renewed grant admits mutations only while the renewal
\* is being published (docs/ORCHESTRATION-MODEL.md: "Renewal keeps the
\* immediately previous signed grant valid only during target fan-out").  No
\* step ends its validity when the fan-out does, so this fails.
PreviousOnlyDuringFanOut ==
    [][\A n \in Node : \A f \in running'[n] \ running[n] :
         f = fenceState[n].active \/ \E c \in Client : client[c].renewal = "publish"]_vars
=============================================================================
