------------------------ MODULE OperationFenceProofs ------------------------
(***************************************************************************)
(* The safety properties of fenced operations end to end.                  *)
(***************************************************************************)
EXTENDS OperationFence, TLAPS

WP == INSTANCE WorkerFenceProofs
CP == INSTANCE ControllerAuthorityProofs
        WITH now <- clock[Controller], membership <- inventory[Controller]

\* What the handlers share, as one value: the fence records, the requests at
\* work on each node (past the latch or admitted), the clocks and the journal.
View ==
    [fence |-> fenceState, work |-> [n \in Node |-> gated[n] \cup running[n]],
     clock |-> clock, control |-> control, issued |-> issued, history |-> history]

Owns(v, c, f) == [request |-> RequestOf[c], fence |-> f] \in v.issued

Done(v, op) == [op |-> op, phase |-> "completed"] \in v.history

SameOperation(a, b) ==
    /\ a.token = b.token /\ a.op = b.op /\ a.scope = b.scope
    /\ a.operation = b.operation /\ a.gen = b.gen /\ a.targets = b.targets

\* b is a strict renewal of a.
Newer(a, b) == SameOperation(a, b) /\ a.issued < b.issued /\ a.expires < b.expires

\* The node records a grant of operation op.
Records(v, n, op) == v.fence[n].active # None /\ v.fence[n].active.op = op

\* No work of operation op can be admitted on node n any more.
QuietAt(v, n, op) == (\E g \in v.work[n] : g.op = op) => ~Records(v, n, op)
Quiet(v, op) == \A n \in Node : QuietAt(v, n, op)

\* Node n was activated with f or a renewal: it still has the operation or f
\* has expired there.
Held(v, n, f) ==
    /\ v.fence[n].highWater >= f.token
    /\ Records(v, n, f.op) \/ v.clock[n] >= f.expires

-----------------------------------------------------------------------------
(* The nodes and the controller.                                           *)

RecordOK(v, n) ==
    LET r == v.fence[n] IN
    /\ r.active # None => /\ r.active.token = r.highWater
                          /\ n \in r.active.targets
                          /\ \E c \in Client : Owns(v, c, r.active)
    /\ r.previous # None => r.active # None /\ Newer(r.previous, r.active)

WorkOK(v, n) ==
    \A g \in v.work[n] : /\ g.token <= v.fence[n].highWater
                         /\ \E c \in Client : Owns(v, c, g)

JournalOK(v) ==
    /\ v.issued \subseteq [request: Request, fence: Grant]
    /\ \A i \in v.issued : i.fence.targets # {} /\ i.fence.token <= v.control.nextToken
    /\ \A i, j \in v.issued : i.fence.op = j.fence.op =>
         i.request = j.request /\ i.fence.token = j.fence.token
    /\ \A h \in v.history : h.phase = "completed" => \E i \in v.issued : i.fence.op = h.op
    /\ v.control.active # None => v.control.active.fence.token = v.control.nextToken

ViewType(v) ==
    /\ v.fence \in [Node -> W!FenceRecord]
    /\ v.work \in [Node -> SUBSET Grant]
    /\ v.clock \in [Node -> Nat]

ViewOK(v) ==
    ViewType(v) /\ JournalOK(v) /\ \A n \in Node : RecordOK(v, n) /\ WorkOK(v, n)

-----------------------------------------------------------------------------
(* A request of coordinator s, sent now or earlier.                        *)

Begun(s) == s.pc \notin {"idle", "acquire"}
Alive(s) == s.pc \notin {"idle", "acquire", "stopped"}

MsgOK(v, m, s) ==
    /\ m.kind = "inventory" => m.body \in Inventory
    /\ m.kind \in {"renew", "release", "phase", "activate", "revoke"} =>
         /\ m.body \in Grant /\ Owns(v, m.from, m.body)
         /\ Begun(s)
         /\ Alive(s) => m.body.op = s.grant.op
    /\ m.kind = "activate" /\ Alive(s) =>
         m.body \in {s.grant, s.offer} \/ (s.renewals > 0 /\ Newer(m.body, s.grant))
    /\ m.kind = "renew" /\ Alive(s) => m.body = s.grant \/ Newer(m.body, s.grant)
    /\ m.kind = "revoke" => s.pc \in {"revoke", "release", "stopped"}
    /\ m.kind = "release" => s.pc \in {"release", "stopped"} /\ Quiet(v, m.body.op)

-----------------------------------------------------------------------------
(* A coordinator.                                                          *)

\* The call that is outstanding in each state.
CallShape(s) ==
    /\ s.pc \in {"idle", "starting", "mutate", "stopped"} => s.call = None
    /\ s.pc \notin {"idle", "starting", "mutate", "stopped"} => s.call # None
    /\ s.pc = "acquire" => s.call.kind = "acquire"
    /\ s.pc = "self" => s.call.kind = "activate" /\ s.call.body = s.grant /\ s.call.node = Controller
    /\ s.pc = "snapshot" => s.call.kind = "snapshot"
    /\ s.pc = "publish" => s.call.kind = "inventory" /\ s.call.node \in s.todo
                           /\ s.snapshot \in Inventory
    /\ s.pc = "fence" => /\ s.call.kind = "activate" /\ s.call.body = s.grant
                         /\ s.call.node \in s.todo
    /\ s.pc = "phase" => s.call.kind = "phase"
    /\ s.pc = "revoke" => /\ s.call.kind = "revoke" /\ s.call.body = s.grant
                          /\ s.call.node \in s.todo
    /\ s.pc = "release" => s.call.kind = "release"

RenewShape(s) ==
    /\ s.renewal # "off" <=> s.pc \in {"starting", "mutate"}
    /\ s.pc = "starting" => s.renewal # "idle"
    /\ s.renewal \in {"off", "idle"} => s.rcall = None
    /\ s.renewal \in {"renew", "publish"} => s.rcall # None
    /\ s.renewal \in {"idle", "renew"} => s.offer = None
    /\ s.renewal = "renew" => s.rcall.kind = "renew" /\ s.rcall.body = s.grant
    /\ s.renewal = "publish" =>
         /\ s.offer # None /\ s.rcall.kind = "activate" /\ s.rcall.body = s.offer
         /\ s.rcall.node \in s.left
    /\ s.pc \in {"starting", "mutate"} => s.renewals > 0
    /\ s.pc \in {"idle", "acquire", "self", "snapshot", "publish", "fence", "phase"} =>
         s.renewals = 0 /\ s.offer = None
    /\ s.offer # None => s.renewals > 0

Shape(s) ==
    /\ CallShape(s) /\ RenewShape(s)
    /\ s.pc \in {"idle", "acquire", "self"} => s.fenced = {}
    /\ s.pc \in {"snapshot", "publish", "fence", "phase", "starting", "mutate"} =>
         Controller \in s.fenced

\* Its outstanding requests are its own.
CallsOK(v, c, s) ==
    \A m \in Outstanding(s) : m.from = c /\ MsgOK(v, m, s)

\* It holds a grant of its own request, and an offer is a renewal of that.
GrantOK(v, c, s) ==
    Alive(s) =>
        /\ s.grant \in Grant /\ Owns(v, c, s.grant)
        /\ s.offer # None => Owns(v, c, s.offer) /\ Newer(s.grant, s.offer)

\* While the journal has its operation it has the grant or the one after it.
AuthorityOK(v, s) ==
    LET a == v.control.active IN
    Alive(s) /\ a # None /\ a.fence.op = s.grant.op =>
        \/ s.offer = None /\ s.grant \in {a.fence, a.previous}
        \/ s.offer = a.fence /\ s.grant = a.previous

\* A target that records its operation has the grant, or the offer after it.
RecordsOK(v, c, s) ==
    \A n \in Node : LET r == v.fence[n] IN
        r.active # None /\ Owns(v, c, r.active) =>
            /\ Begun(s)
            /\ Alive(s) /\ r.active.op = s.grant.op
                 /\ (n \in s.fenced \/ s.pc \in {"self", "snapshot", "publish"}) =>
                 r.active = s.grant \/ (r.active = s.offer /\ r.previous = s.grant)

\* How far the fan-out of activations has come.
FanOutOK(v, s) ==
    /\ s.pc = "fence" => \A n \in s.fenced \ s.todo : Held(v, n, s.grant)
    /\ s.pc \in {"phase", "starting", "mutate"} => \A n \in s.fenced : Held(v, n, s.grant)
    /\ Alive(s) /\ s.renewals > 0 => \A n \in s.fenced : v.fence[n].highWater >= s.grant.token
    /\ s.renewal = "publish" =>
         \A n \in s.fenced \ s.left :
            /\ Held(v, n, s.offer)
            /\ Records(v, n, s.offer.op) => v.fence[n].active = s.offer

\* Work of its operation is on targets only, and none is left behind on a
\* target that was revoked.
OperationOK(v, c, s) ==
    /\ \A n \in Node : \A g \in v.work[n] : Owns(v, c, g) =>
         /\ Begun(s)
         /\ Alive(s) /\ g.op = s.grant.op =>
              n \in s.fenced /\ s.pc \in {"mutate", "revoke", "release"}
    /\ s.pc = "revoke" /\ ~s.failed => \A n \in s.fenced \ s.todo : QuietAt(v, n, s.grant.op)
    /\ \A i \in v.issued : i.request = RequestOf[c] /\ Done(v, i.fence.op) =>
         s.pc \in {"release", "stopped"} /\ Quiet(v, i.fence.op)

ClientOK(v, c, s) ==
    /\ Shape(s) /\ CallsOK(v, c, s) /\ GrantOK(v, c, s) /\ AuthorityOK(v, s)
    /\ RecordsOK(v, c, s) /\ FanOutOK(v, s) /\ OperationOK(v, c, s)

\* Everything a step of the nodes or of a coordinator may rely on.
SystemOK(v, cl, nt) ==
    /\ ViewOK(v)
    /\ \A c \in Client : cl[c] \in Coordinator /\ ClientOK(v, c, cl[c])
    /\ \A m \in nt : m \in Message /\ MsgOK(v, m, cl[m.from])

\* No maintenance runs, so no activation ever waits for the barrier.
Idling == \A n \in Node : activating[n] = None /\ maintenance[n] = {}

\* The inductive invariant.
Inv ==
    /\ WP!IInv /\ CP!IInv /\ Idling
    /\ client \in [Client -> Coordinator] /\ faults \in 0..MaxFaults
    /\ SystemOK(View, client, net)

-----------------------------------------------------------------------------
(* Grants and their owners.                                                *)

LEMMA GrantFields ==
    ASSUME NEW f \in Grant
    PROVE  /\ f \in W!GrantRecord /\ f # None
           /\ f.token \in Nat /\ f.op \in Nat /\ f.issued \in Nat /\ f.expires \in Nat
           /\ f.targets \subseteq Node /\ f.scope \in Scope /\ f.gen \in Nat
<1>1. f \in W!GrantRecord /\ f # None
  BY GrantAssumption
<1> QED
  BY <1>1 DEF W!GrantRecord

LEMMA NewerIsRenewal ==
    ASSUME NEW a \in Grant, NEW b \in Grant
    PROVE  /\ Newer(a, b) <=> W!ValidFenceRenewal(a, b)
           /\ Newer(a, b) <=> C!ValidFenceRenewal(a, b)
           /\ Newer(a, b) <=> CP!ValidFenceRenewal(a, b)
           /\ Newer(a, b) <=> WP!ValidFenceRenewal(a, b)
<1>1. a \in WP!GrantRecord /\ b \in WP!GrantRecord
  BY GrantAssumption DEF W!GrantRecord, WP!GrantRecord, W!Operation, WP!Operation
<1>2. WP!ValidFenceRenewal(a, b) <=>
        WP!SameOperation(a, b) /\ a.issued < b.issued /\ a.expires < b.expires
  BY <1>1, WP!RenewalFields, HoldAssumption, ToleranceAssumption, GrantAssumption, InventoryAssumption,
     GenerationAssumption, MaxTimeAssumption
     DEF W!GrantRecord, WP!GrantRecord, W!Operation, WP!Operation, W!InventoryRecord,
         WP!InventoryRecord, W!Lifecycle, WP!Lifecycle, W!Activation, WP!Activation,
         W!BarrierHold, WP!BarrierHold
<1>3. Newer(a, b) <=> WP!ValidFenceRenewal(a, b)
  BY <1>2 DEF Newer, SameOperation, WP!SameOperation
<1> QED
  BY <1>3 DEF W!ValidFenceRenewal, C!ValidFenceRenewal, CP!ValidFenceRenewal,
     WP!ValidFenceRenewal

\* An operation has one owner and one token.
LEMMA OwnerUnique ==
    ASSUME NEW v, ViewOK(v), NEW c \in Client, NEW d \in Client, NEW f, NEW g,
           Owns(v, c, f), Owns(v, d, g), f.op = g.op
    PROVE  c = d /\ f.token = g.token
<1> DEFINE i == [request |-> RequestOf[c], fence |-> f]
           j == [request |-> RequestOf[d], fence |-> g]
<1>1. i \in v.issued /\ j \in v.issued /\ i.fence.op = j.fence.op
  BY DEF Owns
<1>2. i.request = j.request /\ i.fence.token = j.fence.token
  BY <1>1 DEF ViewOK, JournalOK
<1>3. RequestOf[c] = RequestOf[d]
  BY <1>2
<1> QED
  BY <1>2, <1>3, RequestAssumption

LEMMA OwnedGrant ==
    ASSUME NEW v, ViewOK(v), NEW c \in Client, NEW f, Owns(v, c, f)
    PROVE  f \in Grant /\ f.targets # {}
<1> DEFINE i == [request |-> RequestOf[c], fence |-> f]
<1>1. i \in v.issued /\ i.fence = f
  BY DEF Owns
<1> QED
  BY <1>1 DEF ViewOK, JournalOK

-----------------------------------------------------------------------------
(* Steps of a coordinator.  The nodes and the journal stay as they are.    *)

Moves(v, c, s, t) ==
    /\ t \in Coordinator /\ ClientOK(v, c, t)
    /\ \A m \in Message : m.from = c /\ MsgOK(v, m, s) => MsgOK(v, m, t)

LEMMA MsgFields ==
    ASSUME NEW c \in Client, NEW n \in Node, NEW body \in Grant \cup Inventory \cup {None},
           NEW try \in Nat,
           NEW kind \in {"acquire", "renew", "release", "phase", "snapshot", "inventory",
                         "activate", "revoke"}
    PROVE  LET m == Msg(c, kind, n, body, try) IN
           /\ m \in Message /\ m # None
           /\ m.from = c /\ m.kind = kind /\ m.node = n /\ m.body = body /\ m.try = try
<1> DEFINE m == Msg(c, kind, n, body, try)
<1>1. m \in Message
  BY DEF Msg, Message
<1>2. m # None
  BY <1>1, MessageAssumption
<1> QED
  BY <1>1, <1>2 DEF Msg

\* Everything but the program counter and the call.
SameRest(s, t) ==
    /\ t.grant = s.grant /\ t.snapshot = s.snapshot /\ t.todo = s.todo /\ t.fenced = s.fenced
    /\ t.failed = s.failed /\ t.renewal = s.renewal /\ t.offer = s.offer /\ t.left = s.left
    /\ t.rcall = s.rcall /\ t.renewals = s.renewals

LEMMA CallingFields ==
    ASSUME NEW s \in Coordinator, NEW pc \in MainState, NEW m \in Message \cup {None}
    PROVE  LET t == Calling(s, pc, m) IN
           t \in Coordinator /\ t.pc = pc /\ t.call = m /\ SameRest(s, t)
BY DEF Calling, Coordinator, SameRest

LEMMA CoordinatorFields ==
    ASSUME NEW s \in Coordinator
    PROVE  /\ s.pc \in MainState /\ s.grant \in Grant \cup {None}
           /\ s.snapshot \in Inventory \cup {None}
           /\ s.todo \subseteq Node /\ s.fenced \subseteq Node /\ s.failed \in BOOLEAN
           /\ s.call \in Message \cup {None} /\ s.renewal \in RenewState
           /\ s.offer \in Grant \cup {None} /\ s.left \subseteq Node
           /\ s.rcall \in Message \cup {None} /\ s.renewals \in Nat
BY DEF Coordinator

LEMMA SettledFields ==
    ASSUME NEW s \in Coordinator, s.pc \in {"starting", "mutate"}
    PROVE  LET t == RenewalSettled(s) IN
           /\ t \in Coordinator /\ t.pc = "mutate" /\ t.renewal = "idle" /\ t.rcall = None
           /\ t.offer = None /\ t.call = s.call /\ t.renewals = s.renewals
           /\ t.grant = s.grant /\ t.fenced = s.fenced
<1>1. (IF s.pc = "starting" THEN "mutate" ELSE s.pc) = "mutate"
  OBVIOUS
<1>2. RenewalSettled(s) = [s EXCEPT !.renewal = "idle", !.rcall = None, !.offer = None, !.pc = "mutate"]
  BY <1>1 DEF RenewalSettled
<1>3. "mutate" \in MainState /\ "idle" \in RenewState
  BY DEF MainState, RenewState
<1> QED
  BY <1>2, <1>3 DEF Coordinator

LEMMA FirstIn == ASSUME NEW S, S # {} PROVE First(S) \in S
BY DEF First

\* The predicates about a coordinator that has no grant yet.
LEMMA FreshOK ==
    ASSUME NEW v, ViewOK(v), NEW c \in Client, NEW s, NEW t, ClientOK(v, c, s), ~Begun(s),
           ~Begun(t)
    PROVE  /\ GrantOK(v, c, t) /\ AuthorityOK(v, t) /\ RecordsOK(v, c, t) /\ OperationOK(v, c, t)
           /\ t.renewal = "off" => FanOutOK(v, t)
           /\ \A m \in Message : MsgOK(v, m, s) => MsgOK(v, m, t)
<1>1. ~Alive(t) /\ ~Alive(s) /\ t.pc \in {"idle", "acquire"} /\ s.pc \in {"idle", "acquire"}
  BY DEF Alive, Begun
<1>2. GrantOK(v, c, t) /\ AuthorityOK(v, t)
  BY <1>1 DEF GrantOK, AuthorityOK
<1>3. RecordsOK(v, c, t)
  BY <1>1 DEF RecordsOK, ClientOK
<1>4. OperationOK(v, c, t)
  BY <1>1 DEF OperationOK, ClientOK
<1>5. t.renewal = "off" => FanOutOK(v, t)
  BY <1>1 DEF FanOutOK
<1>6. \A m \in Message : MsgOK(v, m, s) => MsgOK(v, m, t)
  BY <1>1 DEF MsgOK
<1> QED
  BY <1>2, <1>3, <1>4, <1>5, <1>6

\* The first acquire, and its retry.
LEMMA AcquireMoves ==
    ASSUME NEW v, ViewOK(v), NEW c \in Client, NEW s \in Coordinator, ClientOK(v, c, s),
           ~Begun(s), NEW try \in Nat
    PROVE  Moves(v, c, s, Calling(s, "acquire", Msg(c, "acquire", Controller, None, try)))
<1> DEFINE m == Msg(c, "acquire", Controller, None, try)
           t == Calling(s, "acquire", m)
<1>1. /\ m \in Message /\ m # None /\ m.from = c /\ m.kind = "acquire"
  BY MsgFields, NodeAssumption
<1>2. t \in Coordinator /\ t.pc = "acquire" /\ t.call = m /\ SameRest(s, t)
  BY <1>1, CallingFields DEF MainState
<1> HIDE DEF m, t
<1>3. ~Begun(t) /\ s.pc \in {"idle", "acquire"}
  BY <1>2 DEF Begun
<1>4. Shape(t) /\ t.renewal = "off" /\ t.rcall = None
  BY <1>1, <1>2, <1>3 DEF ClientOK, Shape, CallShape, RenewShape, SameRest, Coordinator, RenewState
<1>5. CallsOK(v, c, t)
  BY <1>1, <1>2, <1>4 DEF CallsOK, Outstanding, MsgOK
<1> QED
  BY <1>2, <1>3, <1>4, <1>5, FreshOK DEF Moves, ClientOK, m, t

\* A coordinator that stops, for whatever reason.
LEMMA StopMoves ==
    ASSUME NEW v, ViewOK(v), NEW c \in Client, NEW s \in Coordinator, ClientOK(v, c, s),
           NEW t \in Coordinator, t.pc = "stopped", t.call = None, t.rcall = None,
           t.renewal = "off", t.offer # None => t.renewals > 0
    PROVE  Moves(v, c, s, t)
<1>1. Begun(t) /\ ~Alive(t)
  BY DEF Begun, Alive
<1>2. Shape(t)
  BY DEF Shape, CallShape, RenewShape
<1>3. CallsOK(v, c, t)
  BY DEF CallsOK, Outstanding
<1>4. GrantOK(v, c, t) /\ AuthorityOK(v, t) /\ FanOutOK(v, t) /\ RecordsOK(v, c, t)
  BY <1>1 DEF GrantOK, AuthorityOK, FanOutOK, RecordsOK
<1>5. OperationOK(v, c, t)
  BY <1>1 DEF OperationOK, ClientOK
<1>6. \A m \in Message : MsgOK(v, m, s) => MsgOK(v, m, t)
  BY <1>1 DEF MsgOK
<1> QED
  BY <1>2, <1>3, <1>4, <1>5, <1>6 DEF Moves, ClientOK

\* An operation with no work on any node is quiet.
LEMMA NoWorkQuiet ==
    ASSUME NEW v, ViewOK(v), NEW c \in Client, NEW s \in Coordinator, ClientOK(v, c, s),
           Alive(s), NEW n \in Node,
           n \notin s.fenced \/ s.pc \notin {"mutate", "revoke", "release"}
    PROVE  QuietAt(v, n, s.grant.op)
<1> SUFFICES ASSUME NEW g \in v.work[n], g.op = s.grant.op PROVE FALSE
  BY DEF QuietAt
<1>1. PICK d \in Client : Owns(v, d, g)
  BY DEF ViewOK, WorkOK
<1>2. Owns(v, c, s.grant)
  BY DEF ClientOK, GrantOK
<1>3. d = c
  BY <1>1, <1>2, OwnerUnique
<1> QED
  BY <1>1, <1>3 DEF ClientOK, OperationOK

\* Release (ToRelease): also after a failed step and a lost lease.
LEMMA ReleaseMoves ==
    ASSUME NEW v, ViewOK(v), NEW c \in Client, NEW s \in Coordinator, ClientOK(v, c, s),
           Alive(s), s.pc \notin {"revoke", "release"}
    PROVE  Moves(v, c, s, ToRelease(c, s))
<1> DEFINE off == [s EXCEPT !.renewal = "off", !.rcall = None, !.todo = s.fenced, !.failed = FALSE]
           m == IF s.fenced = {} THEN Msg(c, "release", Controller, s.grant, 1)
                ELSE Msg(c, "revoke", First(s.fenced), s.grant, 1)
           pc == IF s.fenced = {} THEN "release" ELSE "revoke"
           t == Calling(off, pc, m)
<1>0. s.grant \in Grant /\ Owns(v, c, s.grant) /\ s.fenced \subseteq Node
  BY CoordinatorFields DEF ClientOK, GrantOK
<1>1. /\ m \in Message /\ m # None /\ m.from = c /\ m.kind = pc /\ m.body = s.grant
      /\ pc = "revoke" => m.node \in s.fenced
  <2>1. CASE s.fenced = {}
    BY <1>0, <2>1, MsgFields, NodeAssumption
  <2>2. CASE s.fenced # {}
    <3>1. First(s.fenced) \in s.fenced
      BY <2>2, FirstIn
    <3> QED
      BY <1>0, <2>2, <3>1, MsgFields
  <2> QED
    BY <2>1, <2>2
<1>2. /\ off \in Coordinator /\ off.renewal = "off" /\ off.rcall = None /\ off.todo = s.fenced
      /\ off.failed = FALSE /\ off.grant = s.grant /\ off.fenced = s.fenced /\ off.offer = s.offer
      /\ off.renewals = s.renewals
  BY <1>0 DEF Coordinator, RenewState
<1>3. pc \in MainState /\ pc \in {"release", "revoke"} /\ (pc = "release" <=> s.fenced = {})
  BY DEF MainState
<1>4. t = ToRelease(c, s)
  BY DEF ToRelease
<1> HIDE DEF m, off, pc
<1>5. t \in Coordinator /\ t.pc = pc /\ t.call = m /\ SameRest(off, t)
  BY <1>1, <1>2, <1>3, CallingFields
<1> HIDE DEF t
<1>6. /\ t.grant = s.grant /\ t.fenced = s.fenced /\ t.offer = s.offer /\ t.renewals = s.renewals
      /\ t.rcall = None /\ t.renewal = "off" /\ t.todo = s.fenced /\ t.failed = FALSE
  BY <1>2, <1>5 DEF SameRest
<1>7. Begun(t) /\ Alive(t)
  BY <1>3, <1>5 DEF Begun, Alive
<1>8. Shape(t)
  BY <1>1, <1>3, <1>5, <1>6 DEF ClientOK, Shape, CallShape, RenewShape
<1>9. pc = "release" => Quiet(v, s.grant.op)
  BY <1>3, NoWorkQuiet DEF Quiet
<1>10. CallsOK(v, c, t)
  BY <1>0, <1>1, <1>3, <1>5, <1>6, <1>7, <1>9 DEF CallsOK, Outstanding, MsgOK
<1>11. GrantOK(v, c, t) /\ AuthorityOK(v, t) /\ RecordsOK(v, c, t)
  BY <1>3, <1>5, <1>6, <1>7 DEF ClientOK, GrantOK, AuthorityOK, RecordsOK
<1>12. FanOutOK(v, t)
  BY <1>3, <1>5, <1>6 DEF ClientOK, FanOutOK
<1>13. OperationOK(v, c, t)
  <2>1. s.pc \notin {"release", "stopped"}
    BY DEF Alive
  <2> QED
    BY <1>3, <1>5, <1>6, <1>7, <2>1 DEF ClientOK, OperationOK
<1>14. \A k \in Message : MsgOK(v, k, s) => MsgOK(v, k, t)
  <2>1. s.pc \notin {"release", "revoke", "stopped"}
    BY DEF Alive
  <2> QED
    BY <1>5, <1>6, <1>7, <2>1 DEF MsgOK
<1> QED
  BY <1>4, <1>5, <1>8, <1>10, <1>11, <1>12, <1>13, <1>14 DEF Moves, ClientOK

\* The acquire is answered with grant f, which the journal now has.
LEMMA GrantedMoves ==
    ASSUME NEW v, ViewOK(v), NEW c \in Client, NEW s \in Coordinator, ClientOK(v, c, s),
           s.pc = "acquire", NEW f, Owns(v, c, f),
           v.control.active # None => v.control.active.fence = f
    PROVE  Moves(v, c, s, Calling([s EXCEPT !.grant = f], "self",
                                  Msg(c, "activate", Controller, f, 0)))
<1> DEFINE u == [s EXCEPT !.grant = f]
           m == Msg(c, "activate", Controller, f, 0)
           t == Calling(u, "self", m)
<1>0. f \in Grant
  BY OwnedGrant
<1>1. m \in Message /\ m # None /\ m.from = c /\ m.kind = "activate" /\ m.body = f /\ m.node = Controller
  BY <1>0, MsgFields, NodeAssumption
<1>2. /\ u \in Coordinator /\ u.grant = f /\ u.fenced = s.fenced /\ u.renewal = s.renewal
      /\ u.offer = s.offer /\ u.rcall = s.rcall /\ u.renewals = s.renewals
  BY <1>0 DEF Coordinator
<1> HIDE DEF u, m
<1>3. t \in Coordinator /\ t.pc = "self" /\ t.call = m /\ SameRest(u, t)
  BY <1>1, <1>2, CallingFields DEF MainState
<1> HIDE DEF t
<1>4. /\ t.grant = f /\ t.fenced = s.fenced /\ t.renewal = "off" /\ t.offer = None
      /\ t.rcall = None /\ t.renewals = 0 /\ s.fenced = {}
  BY <1>2, <1>3, CoordinatorFields DEF SameRest, ClientOK, Shape, RenewShape, RenewState
<1>5. Begun(t) /\ Alive(t) /\ ~Begun(s) /\ ~Alive(s)
  BY <1>3 DEF Begun, Alive
<1>6. Shape(t)
  BY <1>1, <1>3, <1>4 DEF Shape, CallShape, RenewShape
<1>7. CallsOK(v, c, t)
  BY <1>0, <1>1, <1>3, <1>4, <1>5 DEF CallsOK, Outstanding, MsgOK
<1>8. GrantOK(v, c, t) /\ AuthorityOK(v, t)
  BY <1>0, <1>4 DEF GrantOK, AuthorityOK
<1>9. RecordsOK(v, c, t)
  BY <1>5 DEF ClientOK, RecordsOK
<1>10. FanOutOK(v, t)
  BY <1>3, <1>4 DEF FanOutOK
<1>11. OperationOK(v, c, t)
  BY <1>3, <1>5 DEF ClientOK, OperationOK
<1>12. \A k \in Message : MsgOK(v, k, s) => MsgOK(v, k, t)
  BY <1>3, <1>5 DEF MsgOK
<1> QED
  BY <1>3, <1>6, <1>7, <1>8, <1>9, <1>10, <1>11, <1>12 DEF Moves, ClientOK, t, u, m

\* The controller's own fence is active.
LEMMA SelfMoves ==
    ASSUME NEW v, ViewOK(v), NEW c \in Client, NEW s \in Coordinator, ClientOK(v, c, s),
           s.pc = "self"
    PROVE  Moves(v, c, s, Calling([s EXCEPT !.fenced = {Controller}], "snapshot",
                                  Msg(c, "snapshot", Controller, None, 1)))
<1> DEFINE u == [s EXCEPT !.fenced = {Controller}]
           m == Msg(c, "snapshot", Controller, None, 1)
           t == Calling(u, "snapshot", m)
<1>1. m \in Message /\ m # None /\ m.from = c /\ m.kind = "snapshot"
  BY MsgFields, NodeAssumption
<1>2. /\ u \in Coordinator /\ u.grant = s.grant /\ u.fenced = {Controller} /\ u.renewal = s.renewal
      /\ u.offer = s.offer /\ u.rcall = s.rcall /\ u.renewals = s.renewals
  BY NodeAssumption DEF Coordinator
<1> HIDE DEF u, m
<1>3. t \in Coordinator /\ t.pc = "snapshot" /\ t.call = m /\ SameRest(u, t)
  BY <1>1, <1>2, CallingFields DEF MainState
<1> HIDE DEF t
<1>4. /\ t.grant = s.grant /\ t.fenced = {Controller} /\ t.renewal = "off" /\ t.offer = None
      /\ t.rcall = None /\ t.renewals = 0 /\ s.fenced = {} /\ s.offer = None /\ s.renewals = 0
  BY <1>2, <1>3, CoordinatorFields DEF SameRest, ClientOK, Shape, RenewShape, RenewState
<1>5. Begun(t) /\ Alive(t) /\ Begun(s) /\ Alive(s)
  BY <1>3 DEF Begun, Alive
<1>6. Shape(t)
  BY <1>1, <1>3, <1>4 DEF Shape, CallShape, RenewShape
<1>7. CallsOK(v, c, t)
  BY <1>1, <1>3, <1>4 DEF CallsOK, Outstanding, MsgOK
<1>8. GrantOK(v, c, t) /\ AuthorityOK(v, t)
  BY <1>4, <1>5 DEF ClientOK, GrantOK, AuthorityOK
<1>9. RecordsOK(v, c, t)
  BY <1>4, <1>5 DEF ClientOK, RecordsOK
<1>10. FanOutOK(v, t)
  BY <1>3, <1>4 DEF FanOutOK
<1>11. OperationOK(v, c, t)
  BY <1>3, <1>4, <1>5 DEF ClientOK, OperationOK
<1>12. \A k \in Message : MsgOK(v, k, s) => MsgOK(v, k, t)
  BY <1>3, <1>4, <1>5 DEF MsgOK
<1> QED
  BY <1>3, <1>6, <1>7, <1>8, <1>9, <1>10, <1>11, <1>12 DEF Moves, ClientOK, t, u, m

\* The inventory arrives; its publication starts with the first target.
LEMMA SnapshotMoves ==
    ASSUME NEW v, ViewOK(v), NEW c \in Client, NEW s \in Coordinator, ClientOK(v, c, s),
           s.pc = "snapshot", NEW w \in Inventory
    PROVE  Moves(v, c, s, Calling([s EXCEPT !.snapshot = w, !.todo = s.grant.targets], "publish",
                                  Msg(c, "inventory", First(s.grant.targets), w, 1)))
<1> DEFINE u == [s EXCEPT !.snapshot = w, !.todo = s.grant.targets]
           n == First(s.grant.targets)
           m == Msg(c, "inventory", n, w, 1)
           t == Calling(u, "publish", m)
<1>0. /\ Begun(s) /\ Alive(s) /\ s.grant \in Grant /\ Owns(v, c, s.grant)
      /\ s.grant.targets \subseteq Node /\ n \in s.grant.targets
  <2>1. Begun(s) /\ Alive(s)
    BY DEF Begun, Alive
  <2>2. s.grant \in Grant /\ Owns(v, c, s.grant)
    BY <2>1 DEF ClientOK, GrantOK
  <2> QED
    BY <2>1, <2>2, GrantFields, OwnedGrant, FirstIn
<1> HIDE DEF n
<1>1. m \in Message /\ m # None /\ m.from = c /\ m.kind = "inventory" /\ m.node = n /\ m.body = w
  BY <1>0, MsgFields
<1>2. /\ u \in Coordinator /\ u.grant = s.grant /\ u.fenced = s.fenced /\ u.renewal = s.renewal
      /\ u.offer = s.offer /\ u.rcall = s.rcall /\ u.renewals = s.renewals
      /\ u.todo = s.grant.targets /\ u.snapshot = w
  BY <1>0 DEF Coordinator
<1> HIDE DEF u, m
<1>3. t \in Coordinator /\ t.pc = "publish" /\ t.call = m /\ SameRest(u, t)
  BY <1>1, <1>2, CallingFields DEF MainState
<1> HIDE DEF t
<1>4. /\ t.grant = s.grant /\ t.fenced = s.fenced /\ t.renewal = "off" /\ t.offer = None
      /\ t.rcall = None /\ t.renewals = 0 /\ s.offer = None /\ s.renewals = 0
      /\ t.todo = s.grant.targets /\ t.snapshot = w /\ Controller \in s.fenced
  BY <1>2, <1>3, CoordinatorFields DEF SameRest, ClientOK, Shape, RenewShape, RenewState
<1>5. Begun(t) /\ Alive(t)
  BY <1>3 DEF Begun, Alive
<1>6. Shape(t)
  BY <1>0, <1>1, <1>3, <1>4 DEF Shape, CallShape, RenewShape
<1>7. CallsOK(v, c, t)
  BY <1>1, <1>3, <1>4 DEF CallsOK, Outstanding, MsgOK
<1>8. GrantOK(v, c, t) /\ AuthorityOK(v, t)
  BY <1>0, <1>4, <1>5 DEF ClientOK, GrantOK, AuthorityOK
<1>9. RecordsOK(v, c, t)
  BY <1>0, <1>4, <1>5 DEF ClientOK, RecordsOK
<1>10. FanOutOK(v, t)
  BY <1>3, <1>4 DEF FanOutOK
<1>11. OperationOK(v, c, t)
  BY <1>0, <1>3, <1>4, <1>5 DEF ClientOK, OperationOK
<1>12. \A k \in Message : MsgOK(v, k, s) => MsgOK(v, k, t)
  BY <1>0, <1>3, <1>4, <1>5 DEF MsgOK
<1> QED
  BY <1>3, <1>6, <1>7, <1>8, <1>9, <1>10, <1>11, <1>12 DEF Moves, ClientOK, t, u, m, n

\* A target has the inventory; after the last one the activations start.
LEMMA PublishMoves ==
    ASSUME NEW v, ViewOK(v), NEW c \in Client, NEW s \in Coordinator, ClientOK(v, c, s),
           s.pc = "publish", NEW m, m = s.call
    PROVE  Moves(v, c, s, AfterPublish(c, s, m))
<1> DEFINE rest == s.todo \ {m.node}
           fenced == s.fenced \cup {m.node}
           todo == IF rest # {} THEN rest ELSE fenced
           pc == IF rest # {} THEN "publish" ELSE "fence"
           k == IF rest # {} THEN Msg(c, "inventory", First(rest), s.snapshot, 1)
                ELSE Msg(c, "activate", First(fenced), s.grant, 1)
           u == [s EXCEPT !.todo = todo, !.fenced = fenced]
           t == Calling(u, pc, k)
<1>0. /\ Begun(s) /\ Alive(s) /\ s.grant \in Grant /\ Owns(v, c, s.grant) /\ s.snapshot \in Inventory
      /\ m.node \in s.todo /\ s.todo \subseteq Node /\ s.fenced \subseteq Node
      /\ s.renewal = "off" /\ s.offer = None /\ s.rcall = None /\ s.renewals = 0
      /\ Controller \in s.fenced
  <2>1. Begun(s) /\ Alive(s)
    BY DEF Begun, Alive
  <2>2. s.grant \in Grant /\ Owns(v, c, s.grant)
    BY <2>1 DEF ClientOK, GrantOK
  <2> QED
    BY <2>1, <2>2, CoordinatorFields DEF ClientOK, Shape, CallShape, RenewShape, RenewState
<1>1. /\ k \in Message /\ k # None /\ k.from = c /\ k.node \in todo
      /\ pc = "publish" => k.kind = "inventory" /\ k.body = s.snapshot
      /\ pc = "fence" => k.kind = "activate" /\ k.body = s.grant
      /\ todo \subseteq Node /\ fenced \subseteq Node
      /\ pc \in {"publish", "fence"}
      /\ pc = "fence" => todo = fenced
  <2>1. CASE rest # {}
    <3>1. First(rest) \in rest /\ First(rest) \in Node
      BY <1>0, <2>1, FirstIn
    <3> QED
      BY <1>0, <2>1, <3>1, MsgFields
  <2>2. CASE rest = {}
    <3>1. First(fenced) \in fenced /\ First(fenced) \in Node
      BY <1>0, FirstIn
    <3> QED
      BY <1>0, <2>2, <3>1, MsgFields
  <2> QED
    BY <2>1, <2>2
<1>2. t = AfterPublish(c, s, m)
  <2>1. [[s EXCEPT !.todo = rest, !.fenced = fenced] EXCEPT !.todo = fenced]
          = [s EXCEPT !.todo = fenced, !.fenced = fenced]
    BY <1>0 DEF Coordinator
  <2>2. [s EXCEPT !.todo = rest, !.fenced = fenced].fenced = fenced
    BY DEF Coordinator
  <2> QED
    BY <2>1, <2>2 DEF AfterPublish
<1>3. /\ u \in Coordinator /\ u.grant = s.grant /\ u.fenced = fenced /\ u.renewal = s.renewal
      /\ u.offer = s.offer /\ u.rcall = s.rcall /\ u.renewals = s.renewals
      /\ u.todo = todo /\ u.snapshot = s.snapshot /\ pc \in MainState
  BY <1>0, <1>1 DEF Coordinator, MainState
<1> HIDE DEF u, k, pc, todo
<1>4. t \in Coordinator /\ t.pc = pc /\ t.call = k /\ SameRest(u, t)
  BY <1>1, <1>3, CallingFields
<1> HIDE DEF t
<1>5. /\ t.grant = s.grant /\ t.fenced = fenced /\ t.renewal = "off" /\ t.offer = None
      /\ t.rcall = None /\ t.renewals = 0 /\ t.todo = todo /\ t.snapshot = s.snapshot
  BY <1>0, <1>3, <1>4 DEF SameRest
<1>6. Begun(t) /\ Alive(t)
  BY <1>1, <1>4 DEF Begun, Alive
<1>7. Shape(t)
  BY <1>0, <1>1, <1>4, <1>5 DEF Shape, CallShape, RenewShape
<1>8. CallsOK(v, c, t)
  BY <1>0, <1>1, <1>4, <1>5, <1>6 DEF CallsOK, Outstanding, MsgOK
<1>9. GrantOK(v, c, t) /\ AuthorityOK(v, t)
  BY <1>0, <1>5, <1>6 DEF ClientOK, GrantOK, AuthorityOK
<1>10. RecordsOK(v, c, t)
  BY <1>0, <1>1, <1>4, <1>5, <1>6 DEF ClientOK, RecordsOK
<1>11. FanOutOK(v, t)
  BY <1>1, <1>4, <1>5 DEF FanOutOK
<1>12. OperationOK(v, c, t)
  BY <1>0, <1>1, <1>4, <1>5, <1>6 DEF ClientOK, OperationOK
<1>13. \A j \in Message : MsgOK(v, j, s) => MsgOK(v, j, t)
  BY <1>0, <1>1, <1>4, <1>5, <1>6 DEF MsgOK
<1> QED
  BY <1>2, <1>4, <1>7, <1>8, <1>9, <1>10, <1>11, <1>12, <1>13 DEF Moves, ClientOK

\* A target is activated; after the last one the phase is reported.
LEMMA FenceMoves ==
    ASSUME NEW v, ViewOK(v), NEW c \in Client, NEW s \in Coordinator, ClientOK(v, c, s),
           s.pc = "fence", NEW m, m = s.call, Held(v, m.node, s.grant)
    PROVE  Moves(v, c, s, AfterFence(c, s, m))
<1> DEFINE rest == s.todo \ {m.node}
           pc == IF rest # {} THEN "fence" ELSE "phase"
           k == IF rest # {} THEN Msg(c, "activate", First(rest), s.grant, 1)
                ELSE Msg(c, "phase", Controller, s.grant, 1)
           u == [s EXCEPT !.todo = rest]
           t == Calling(u, pc, k)
<1>0. /\ Begun(s) /\ Alive(s) /\ s.grant \in Grant /\ Owns(v, c, s.grant)
      /\ m.node \in s.todo /\ s.todo \subseteq Node
      /\ s.renewal = "off" /\ s.offer = None /\ s.rcall = None /\ s.renewals = 0
      /\ Controller \in s.fenced
  <2>1. Begun(s) /\ Alive(s)
    BY DEF Begun, Alive
  <2>2. s.grant \in Grant /\ Owns(v, c, s.grant)
    BY <2>1 DEF ClientOK, GrantOK
  <2> QED
    BY <2>1, <2>2, CoordinatorFields DEF ClientOK, Shape, CallShape, RenewShape, RenewState
<1>1. /\ k \in Message /\ k # None /\ k.from = c /\ k.body = s.grant
      /\ pc = "fence" => k.kind = "activate" /\ k.node \in rest
      /\ pc = "phase" => k.kind = "phase" /\ rest = {}
      /\ pc \in {"fence", "phase"}
  <2>1. CASE rest # {}
    <3>1. First(rest) \in rest /\ First(rest) \in Node
      BY <1>0, <2>1, FirstIn
    <3> QED
      BY <1>0, <2>1, <3>1, MsgFields
  <2>2. CASE rest = {}
    BY <1>0, <2>2, MsgFields, NodeAssumption
  <2> QED
    BY <2>1, <2>2
<1>2. t = AfterFence(c, s, m)
  BY DEF AfterFence
<1>3. /\ u \in Coordinator /\ u.grant = s.grant /\ u.fenced = s.fenced /\ u.renewal = s.renewal
      /\ u.offer = s.offer /\ u.rcall = s.rcall /\ u.renewals = s.renewals /\ u.todo = rest
      /\ pc \in MainState
  BY <1>0 DEF Coordinator, MainState
<1> HIDE DEF u, k, pc
<1>4. t \in Coordinator /\ t.pc = pc /\ t.call = k /\ SameRest(u, t)
  BY <1>1, <1>3, CallingFields
<1> HIDE DEF t
<1>5. /\ t.grant = s.grant /\ t.fenced = s.fenced /\ t.renewal = "off" /\ t.offer = None
      /\ t.rcall = None /\ t.renewals = 0 /\ t.todo = rest
  BY <1>0, <1>3, <1>4 DEF SameRest
<1>6. Begun(t) /\ Alive(t)
  BY <1>1, <1>4 DEF Begun, Alive
<1>7. Shape(t)
  BY <1>0, <1>1, <1>4, <1>5 DEF Shape, CallShape, RenewShape
<1>8. CallsOK(v, c, t)
  BY <1>0, <1>1, <1>4, <1>5, <1>6 DEF CallsOK, Outstanding, MsgOK
<1>9. GrantOK(v, c, t) /\ AuthorityOK(v, t)
  BY <1>0, <1>5, <1>6 DEF ClientOK, GrantOK, AuthorityOK
<1>10. RecordsOK(v, c, t)
  BY <1>0, <1>1, <1>4, <1>5, <1>6 DEF ClientOK, RecordsOK
<1>11. FanOutOK(v, t)
  <2>1. \A n \in s.fenced \ rest : Held(v, n, s.grant)
    BY DEF ClientOK, FanOutOK
  <2> QED
    BY <1>1, <1>4, <1>5, <2>1 DEF FanOutOK
<1>12. OperationOK(v, c, t)
  BY <1>0, <1>1, <1>4, <1>5, <1>6 DEF ClientOK, OperationOK
<1>13. \A j \in Message : MsgOK(v, j, s) => MsgOK(v, j, t)
  BY <1>0, <1>1, <1>4, <1>5, <1>6 DEF MsgOK
<1> QED
  BY <1>2, <1>4, <1>7, <1>8, <1>9, <1>10, <1>11, <1>12, <1>13 DEF Moves, ClientOK

LEMMA NewerFacts ==
    ASSUME NEW a \in Grant, NEW b \in Grant, Newer(a, b)
    PROVE  /\ a.op = b.op /\ a.token = b.token /\ a.targets = b.targets /\ a.gen = b.gen
           /\ a # b /\ a.expires < b.expires /\ ~Newer(b, a)
           /\ \A c \in Grant : Newer(b, c) => Newer(a, c)
BY GrantFields DEF Newer, SameOperation

\* What a coordinator that renews knows.
LEMMA RenewingFacts ==
    ASSUME NEW v, ViewOK(v), NEW c \in Client, NEW s \in Coordinator, ClientOK(v, c, s),
           s.pc \in {"starting", "mutate"}
    PROVE  /\ Begun(s) /\ Alive(s) /\ s.grant \in Grant /\ Owns(v, c, s.grant)
           /\ s.call = None /\ s.renewals > 0 /\ s.renewals \in Nat
           /\ Controller \in s.fenced /\ s.fenced \subseteq Node
           /\ \A n \in s.fenced : Held(v, n, s.grant)
<1>1. Begun(s) /\ Alive(s)
  BY DEF Begun, Alive
<1>2. s.grant \in Grant /\ Owns(v, c, s.grant)
  BY <1>1 DEF ClientOK, GrantOK
<1>3. s.call = None /\ s.renewals > 0 /\ s.renewals \in Nat /\ Controller \in s.fenced
      /\ s.fenced \subseteq Node
  BY CoordinatorFields DEF ClientOK, Shape, CallShape, RenewShape
<1>4. \A n \in s.fenced : Held(v, n, s.grant)
  BY DEF ClientOK, FanOutOK
<1> QED
  BY <1>1, <1>2, <1>3, <1>4

\* The phase is recorded; startRenewal renews once.
LEMMA PhaseMoves ==
    ASSUME NEW v, ViewOK(v), NEW c \in Client, NEW s \in Coordinator, ClientOK(v, c, s),
           s.pc = "phase"
    PROVE  Moves(v, c, s, StartRenewal(c, s))
<1> DEFINE u == Calling(s, "starting", None)
           m == Msg(c, "renew", Controller, s.grant, s.renewals)
           t == [u EXCEPT !.renewal = "renew", !.rcall = m, !.renewals = s.renewals + 1]
<1>0. /\ Begun(s) /\ Alive(s) /\ s.grant \in Grant /\ Owns(v, c, s.grant)
      /\ s.offer = None /\ s.renewals = 0 /\ Controller \in s.fenced
  <2>1. Begun(s) /\ Alive(s)
    BY DEF Begun, Alive
  <2>2. s.grant \in Grant /\ Owns(v, c, s.grant)
    BY <2>1 DEF ClientOK, GrantOK
  <2> QED
    BY <2>1, <2>2 DEF ClientOK, Shape, RenewShape
<1>1. /\ m \in Message /\ m # None /\ m.from = c /\ m.kind = "renew" /\ m.body = s.grant
  BY <1>0, MsgFields, NodeAssumption
<1>2. u \in Coordinator /\ u.pc = "starting" /\ u.call = None /\ SameRest(s, u)
  BY CallingFields DEF MainState
<1>3. t = StartRenewal(c, s)
  BY DEF StartRenewal
<1> HIDE DEF u, m
<1>4. /\ t \in Coordinator /\ t.pc = "starting" /\ t.call = None /\ t.renewal = "renew"
      /\ t.rcall = m /\ t.renewals = 1 /\ t.grant = s.grant /\ t.fenced = s.fenced
      /\ t.offer = None
  <2>1. s.renewals + 1 = 1 /\ 1 \in Nat /\ "renew" \in RenewState /\ m \in Message \cup {None}
    BY <1>0, <1>1 DEF RenewState
  <2>2. t = [u EXCEPT !.renewal = "renew", !.rcall = m, !.renewals = 1]
    BY <2>1
  <2> HIDE DEF t
  <2>3. /\ t \in Coordinator /\ t.pc = u.pc /\ t.call = u.call /\ t.renewal = "renew"
        /\ t.rcall = m /\ t.renewals = 1 /\ t.grant = u.grant /\ t.fenced = u.fenced
        /\ t.offer = u.offer
    BY <1>2, <2>1, <2>2 DEF Coordinator
  <2> QED
    BY <1>0, <1>2, <2>3 DEF SameRest
<1> HIDE DEF t
<1>5. Begun(t) /\ Alive(t)
  BY <1>4 DEF Begun, Alive
<1>6. Shape(t)
  BY <1>0, <1>1, <1>4 DEF Shape, CallShape, RenewShape
<1>7. CallsOK(v, c, t)
  BY <1>0, <1>1, <1>4, <1>5 DEF CallsOK, Outstanding, MsgOK
<1>8. GrantOK(v, c, t) /\ AuthorityOK(v, t) /\ RecordsOK(v, c, t)
  BY <1>0, <1>4, <1>5 DEF ClientOK, GrantOK, AuthorityOK, RecordsOK
<1>9. FanOutOK(v, t)
  BY <1>4 DEF ClientOK, FanOutOK, Held
<1>10. OperationOK(v, c, t)
  BY <1>0, <1>4, <1>5 DEF ClientOK, OperationOK
<1>11. \A k \in Message : MsgOK(v, k, s) => MsgOK(v, k, t)
  BY <1>0, <1>4, <1>5 DEF MsgOK
<1> QED
  BY <1>3, <1>4, <1>6, <1>7, <1>8, <1>9, <1>10, <1>11 DEF Moves, ClientOK

\* The renewal ticker fires.
LEMMA RenewMoves ==
    ASSUME NEW v, ViewOK(v), NEW c \in Client, NEW s \in Coordinator, ClientOK(v, c, s),
           s.pc = "mutate", s.renewal = "idle"
    PROVE  Moves(v, c, s, [s EXCEPT !.renewal = "renew", !.renewals = @ + 1,
                             !.rcall = Msg(c, "renew", Controller, s.grant, s.renewals)])
<1> DEFINE m == Msg(c, "renew", Controller, s.grant, s.renewals)
           t == [s EXCEPT !.renewal = "renew", !.renewals = @ + 1, !.rcall = m]
<1>0. /\ Begun(s) /\ Alive(s) /\ s.grant \in Grant /\ Owns(v, c, s.grant)
      /\ s.call = None /\ s.renewals > 0 /\ s.renewals \in Nat /\ Controller \in s.fenced
  BY RenewingFacts
<1>1. /\ m \in Message /\ m # None /\ m.from = c /\ m.kind = "renew" /\ m.body = s.grant
  BY <1>0, MsgFields, NodeAssumption
<1> HIDE DEF m
<1>2. /\ t \in Coordinator /\ t.pc = "mutate" /\ t.call = None /\ t.renewal = "renew"
      /\ t.rcall = m /\ t.renewals = s.renewals + 1 /\ t.grant = s.grant /\ t.fenced = s.fenced
      /\ t.offer = s.offer
  <2> DEFINE k == s.renewals + 1
  <2>1. k \in Nat /\ "renew" \in RenewState /\ m \in Message \cup {None}
    BY <1>0, <1>1 DEF RenewState
  <2> HIDE DEF k
  <2>2. t = [s EXCEPT !.renewal = "renew", !.rcall = m, !.renewals = k]
    BY DEF k, Coordinator
  <2> HIDE DEF t
  <2>3. /\ t \in Coordinator /\ t.pc = s.pc /\ t.call = s.call /\ t.renewal = "renew"
        /\ t.rcall = m /\ t.renewals = k /\ t.grant = s.grant /\ t.fenced = s.fenced
        /\ t.offer = s.offer
    BY <2>1, <2>2 DEF Coordinator
  <2> QED
    BY <1>0, <2>3 DEF k
<1> HIDE DEF t
<1>3. t.offer = None /\ t.renewals > 0
  BY <1>0, <1>2 DEF ClientOK, Shape, RenewShape
<1>4. Begun(t) /\ Alive(t)
  BY <1>2 DEF Begun, Alive
<1>5. Shape(t)
  BY <1>0, <1>1, <1>2, <1>3 DEF Shape, CallShape, RenewShape
<1>6. CallsOK(v, c, t)
  BY <1>0, <1>1, <1>2, <1>3, <1>4 DEF CallsOK, Outstanding, MsgOK
<1>7. GrantOK(v, c, t) /\ AuthorityOK(v, t) /\ RecordsOK(v, c, t)
  BY <1>0, <1>2, <1>4 DEF ClientOK, GrantOK, AuthorityOK, RecordsOK
<1>8. FanOutOK(v, t)
  BY <1>0, <1>2 DEF ClientOK, FanOutOK
<1>9. OperationOK(v, c, t)
  BY <1>0, <1>2, <1>4 DEF ClientOK, OperationOK
<1>10. \A k \in Message : MsgOK(v, k, s) => MsgOK(v, k, t)
  BY <1>0, <1>2, <1>3, <1>4 DEF MsgOK
<1> QED
  BY <1>2, <1>5, <1>6, <1>7, <1>8, <1>9, <1>10 DEF Moves, ClientOK, t, m

\* A renewal that failed but is not fatal.
LEMMA SettledMoves ==
    ASSUME NEW v, ViewOK(v), NEW c \in Client, NEW s \in Coordinator, ClientOK(v, c, s),
           s.renewal = "renew"
    PROVE  Moves(v, c, s, RenewalSettled(s))
<1> DEFINE t == RenewalSettled(s)
<1>0. s.pc \in {"starting", "mutate"} /\ s.offer = None
  BY DEF ClientOK, Shape, RenewShape
<1>1. /\ Begun(s) /\ Alive(s) /\ s.grant \in Grant /\ Owns(v, c, s.grant)
      /\ s.call = None /\ s.renewals > 0 /\ Controller \in s.fenced
  BY <1>0, RenewingFacts
<1>2. /\ t \in Coordinator /\ t.pc = "mutate" /\ t.call = None /\ t.renewal = "idle"
      /\ t.rcall = None /\ t.renewals = s.renewals /\ t.grant = s.grant /\ t.fenced = s.fenced
      /\ t.offer = None
  BY <1>0, <1>1, SettledFields
<1> HIDE DEF t
<1>4. Begun(t) /\ Alive(t)
  BY <1>2 DEF Begun, Alive
<1>5. Shape(t)
  BY <1>1, <1>2 DEF Shape, CallShape, RenewShape
<1>6. CallsOK(v, c, t)
  BY <1>2 DEF CallsOK, Outstanding
<1>7. GrantOK(v, c, t) /\ AuthorityOK(v, t) /\ RecordsOK(v, c, t)
  BY <1>0, <1>1, <1>2, <1>4 DEF ClientOK, GrantOK, AuthorityOK, RecordsOK
<1>8. FanOutOK(v, t)
  BY <1>0, <1>1, <1>2 DEF ClientOK, FanOutOK
<1>9. OperationOK(v, c, t)
  BY <1>0, <1>1, <1>2, <1>4 DEF ClientOK, OperationOK
<1>10. \A k \in Message : MsgOK(v, k, s) => MsgOK(v, k, t)
  BY <1>0, <1>1, <1>2, <1>4 DEF MsgOK
<1> QED
  BY <1>2, <1>5, <1>6, <1>7, <1>8, <1>9, <1>10 DEF Moves, ClientOK, t

\* The controller answers a renewal: the offer f goes to the first target.
LEMMA OfferMoves ==
    ASSUME NEW v, ViewOK(v), NEW c \in Client, NEW s \in Coordinator, ClientOK(v, c, s),
           s.renewal = "renew", NEW m, NEW f, Owns(v, c, f), Newer(s.grant, f),
           v.control.active # None /\ v.control.active.fence.op = s.grant.op =>
              v.control.active.fence = f /\ v.control.active.previous = s.grant
    PROVE  Moves(v, c, s, RenewOk(c, s, m, f))
<1> DEFINE k == Msg(c, "activate", First(s.fenced), f, s.renewals)
           t == [s EXCEPT !.renewal = "publish", !.offer = f, !.left = s.fenced, !.rcall = k]
<1>0. s.pc \in {"starting", "mutate"} /\ s.offer = None /\ f \in Grant /\ f # None
  BY OwnedGrant, GrantFields DEF ClientOK, Shape, RenewShape
<1>1. /\ Begun(s) /\ Alive(s) /\ s.grant \in Grant /\ Owns(v, c, s.grant)
      /\ s.call = None /\ s.renewals > 0 /\ s.renewals \in Nat /\ Controller \in s.fenced
      /\ s.fenced \subseteq Node
  BY <1>0, RenewingFacts
<1>2. /\ k \in Message /\ k # None /\ k.from = c /\ k.kind = "activate" /\ k.body = f
      /\ k.node \in s.fenced
  BY <1>0, <1>1, MsgFields, FirstIn
<1>3. t = RenewOk(c, s, m, f)
  BY DEF RenewOk
<1> HIDE DEF k
<1>4. /\ t \in Coordinator /\ t.pc = s.pc /\ t.call = None /\ t.renewal = "publish"
      /\ t.rcall = k /\ t.renewals = s.renewals /\ t.grant = s.grant /\ t.fenced = s.fenced
      /\ t.offer = f /\ t.left = s.fenced
  BY <1>0, <1>1, <1>2 DEF Coordinator, RenewState
<1> HIDE DEF t
<1>5. Begun(t) /\ Alive(t)
  BY <1>0, <1>4 DEF Begun, Alive
<1>6. Shape(t)
  BY <1>0, <1>1, <1>2, <1>4 DEF Shape, CallShape, RenewShape
<1>7. CallsOK(v, c, t)
  BY <1>0, <1>1, <1>2, <1>4, <1>5, NewerFacts DEF CallsOK, Outstanding, MsgOK
<1>8. GrantOK(v, c, t)
  BY <1>1, <1>4 DEF GrantOK
<1>9. AuthorityOK(v, t)
  BY <1>4 DEF AuthorityOK
<1>10. RecordsOK(v, c, t)
  BY <1>0, <1>1, <1>4, <1>5 DEF ClientOK, RecordsOK
<1>11. FanOutOK(v, t)
  BY <1>0, <1>1, <1>4 DEF ClientOK, FanOutOK
<1>12. OperationOK(v, c, t)
  BY <1>0, <1>1, <1>4, <1>5 DEF ClientOK, OperationOK
<1>13. \A j \in Message : MsgOK(v, j, s) => MsgOK(v, j, t)
  BY <1>0, <1>1, <1>4, <1>5, GrantFields DEF MsgOK
<1> QED
  BY <1>3, <1>4, <1>6, <1>7, <1>8, <1>9, <1>10, <1>11, <1>12, <1>13 DEF Moves, ClientOK

\* A target has the renewed grant; after the last one mutations carry it.
LEMMA PublishedMoves ==
    ASSUME NEW v, ViewOK(v), NEW c \in Client, NEW s \in Coordinator, ClientOK(v, c, s),
           s.renewal = "publish", NEW m, m = s.rcall, NEW f, Held(v, m.node, s.offer),
           Records(v, m.node, s.offer.op) => v.fence[m.node].active = s.offer
    PROVE  Moves(v, c, s, RenewOk(c, s, m, f))
<1> DEFINE rest == s.left \ {m.node}
<1>0. /\ s.pc \in {"starting", "mutate"} /\ s.offer \in Grant /\ s.offer # None
      /\ m.node \in s.left /\ s.left \subseteq Node
  BY CoordinatorFields DEF ClientOK, Shape, RenewShape
<1>1. /\ Begun(s) /\ Alive(s) /\ s.grant \in Grant /\ Owns(v, c, s.grant)
      /\ s.call = None /\ s.renewals > 0 /\ s.renewals \in Nat /\ Controller \in s.fenced
  BY <1>0, RenewingFacts
<1>2. /\ Owns(v, c, s.offer) /\ Newer(s.grant, s.offer) /\ s.grant.op = s.offer.op
  BY <1>0, <1>1, NewerFacts DEF ClientOK, GrantOK
<1>3. \A n \in s.fenced \ rest :
         /\ Held(v, n, s.offer)
         /\ Records(v, n, s.offer.op) => v.fence[n].active = s.offer
  BY <1>0 DEF ClientOK, FanOutOK
<1>4. CASE rest # {}
  <2> DEFINE k == Msg(c, "activate", First(rest), s.offer, s.renewals)
             t == [s EXCEPT !.left = rest, !.rcall = k]
  <2>1. /\ k \in Message /\ k # None /\ k.from = c /\ k.kind = "activate" /\ k.body = s.offer
        /\ k.node \in rest
    <3>1. First(rest) \in rest /\ First(rest) \in Node
      BY <1>0, <1>4, FirstIn
    <3> QED
      BY <1>0, <1>1, <3>1, MsgFields
  <2>2. t = RenewOk(c, s, m, f)
    BY <1>4 DEF RenewOk
  <2> HIDE DEF k
  <2>3. /\ t \in Coordinator /\ t.pc = s.pc /\ t.call = None /\ t.renewal = "publish"
        /\ t.rcall = k /\ t.renewals = s.renewals /\ t.grant = s.grant /\ t.fenced = s.fenced
        /\ t.offer = s.offer /\ t.left = rest
    BY <1>0, <1>1, <2>1 DEF Coordinator
  <2> HIDE DEF t
  <2>4. Begun(t) /\ Alive(t)
    BY <1>0, <2>3 DEF Begun, Alive
  <2>5. Shape(t)
    BY <1>0, <1>1, <2>1, <2>3 DEF Shape, CallShape, RenewShape
  <2>6. CallsOK(v, c, t)
    BY <1>0, <1>1, <1>2, <2>1, <2>3, <2>4 DEF CallsOK, Outstanding, MsgOK
  <2>7. GrantOK(v, c, t) /\ AuthorityOK(v, t) /\ RecordsOK(v, c, t)
    BY <1>0, <1>1, <2>3, <2>4 DEF ClientOK, GrantOK, AuthorityOK, RecordsOK
  <2>8. FanOutOK(v, t)
    BY <1>0, <1>1, <1>3, <2>3 DEF ClientOK, FanOutOK
  <2>9. OperationOK(v, c, t)
    BY <1>0, <1>1, <2>3, <2>4 DEF ClientOK, OperationOK
  <2>10. \A j \in Message : MsgOK(v, j, s) => MsgOK(v, j, t)
    BY <1>1, <2>3, <2>4 DEF MsgOK
  <2> QED
    BY <2>2, <2>3, <2>5, <2>6, <2>7, <2>8, <2>9, <2>10 DEF Moves, ClientOK
<1>5. CASE rest = {}
  <2> DEFINE u == [s EXCEPT !.left = {}, !.grant = s.offer]
             t == RenewalSettled(u)
  <2>1. t = RenewOk(c, s, m, f)
    BY <1>5 DEF RenewOk
  <2>2. /\ u \in Coordinator /\ u.pc = s.pc /\ u.call = s.call /\ u.grant = s.offer
        /\ u.fenced = s.fenced /\ u.renewals = s.renewals
    BY <1>0 DEF Coordinator
  <2> HIDE DEF u
  <2>3. /\ t \in Coordinator /\ t.pc = "mutate" /\ t.call = None /\ t.renewal = "idle"
        /\ t.rcall = None /\ t.renewals = s.renewals /\ t.grant = s.offer /\ t.fenced = s.fenced
        /\ t.offer = None
    BY <1>0, <1>1, <2>2, SettledFields
  <2> HIDE DEF t
  <2>4. Begun(t) /\ Alive(t)
    BY <2>3 DEF Begun, Alive
  <2>5. Shape(t)
    BY <1>1, <2>3 DEF Shape, CallShape, RenewShape
  <2>6. CallsOK(v, c, t)
    BY <2>3 DEF CallsOK, Outstanding
  <2>7. GrantOK(v, c, t) /\ AuthorityOK(v, t)
    BY <1>0, <1>1, <1>2, <2>3, <2>4 DEF ClientOK, GrantOK, AuthorityOK
  <2>8. RecordsOK(v, c, t)
    BY <1>1, <1>3, <1>5, <2>3, <2>4 DEF ClientOK, RecordsOK, Records
  <2>9. FanOutOK(v, t)
    BY <1>3, <1>5, <2>3 DEF FanOutOK, Held
  <2>10. OperationOK(v, c, t)
    BY <1>0, <1>1, <1>2, <2>3, <2>4 DEF ClientOK, OperationOK
  <2>11. \A j \in Message : MsgOK(v, j, s) => MsgOK(v, j, t)
    BY <1>0, <1>1, <1>2, <2>3, <2>4, NewerFacts DEF MsgOK
  <2> QED
    BY <2>1, <2>3, <2>5, <2>6, <2>7, <2>8, <2>9, <2>10, <2>11 DEF Moves, ClientOK
<1> QED
  BY <1>4, <1>5

\* A target answers the revocation (or fails to): the next one, the release or
\* the end.
LEMMA RevokeMoves ==
    ASSUME NEW v, ViewOK(v), NEW c \in Client, NEW s \in Coordinator, ClientOK(v, c, s),
           s.pc = "revoke", NEW m, m = s.call, NEW ok \in BOOLEAN,
           ok => QuietAt(v, m.node, s.grant.op)
    PROVE  Moves(v, c, s, AfterRevoke(c, s, m, ok))
<1> DEFINE rest == s.todo \ {m.node}
           u == [s EXCEPT !.todo = rest, !.failed = s.failed \/ ~ok]
<1>0. /\ Begun(s) /\ Alive(s) /\ s.grant \in Grant /\ Owns(v, c, s.grant)
      /\ m.node \in s.todo /\ s.todo \subseteq Node /\ s.fenced \subseteq Node
      /\ s.renewal = "off" /\ s.rcall = None /\ (s.offer # None => s.renewals > 0)
      /\ s.failed \in BOOLEAN
  <2>1. Begun(s) /\ Alive(s)
    BY DEF Begun, Alive
  <2>2. s.grant \in Grant /\ Owns(v, c, s.grant)
    BY <2>1 DEF ClientOK, GrantOK
  <2> QED
    BY <2>1, <2>2, CoordinatorFields DEF ClientOK, Shape, CallShape, RenewShape, RenewState
<1>1. /\ u \in Coordinator /\ u.grant = s.grant /\ u.fenced = s.fenced /\ u.renewal = s.renewal
      /\ u.offer = s.offer /\ u.rcall = s.rcall /\ u.renewals = s.renewals
      /\ u.todo = rest /\ u.failed = (s.failed \/ ~ok)
  BY <1>0 DEF Coordinator
<1>2. ~u.failed => \A n \in s.fenced \ rest : QuietAt(v, n, s.grant.op)
  BY <1>1 DEF ClientOK, OperationOK
<1>3. CASE rest = {} /\ u.failed
  <2>1. AfterRevoke(c, s, m, ok) = Calling(u, "stopped", None)
    BY <1>3 DEF AfterRevoke
  <2> HIDE DEF u
  <2>2. LET t == Calling(u, "stopped", None) IN
        t \in Coordinator /\ t.pc = "stopped" /\ t.call = None /\ SameRest(u, t)
    BY <1>1, CallingFields DEF MainState
  <2> QED
    BY <1>0, <1>1, <2>1, <2>2, StopMoves DEF SameRest
<1>4. CASE rest # {} \/ ~u.failed
  <2> DEFINE pc == IF rest # {} THEN "revoke" ELSE "release"
             k == IF rest # {} THEN Msg(c, "revoke", First(rest), s.grant, 1)
                  ELSE Msg(c, "release", Controller, s.grant, 1)
             t == Calling(u, pc, k)
  <2>1. /\ k \in Message /\ k # None /\ k.from = c /\ k.kind = pc /\ k.body = s.grant
        /\ pc \in {"revoke", "release"} /\ pc \in MainState
        /\ (pc = "revoke" => k.node \in rest)
        /\ (pc = "release" => rest = {} /\ ~u.failed)
    <3>1. CASE rest # {}
      <4>1. First(rest) \in rest /\ First(rest) \in Node
        BY <1>0, <3>1, FirstIn
      <4> QED
        BY <1>0, <3>1, <4>1, MsgFields DEF MainState
    <3>2. CASE rest = {}
      BY <1>0, <1>4, <3>2, MsgFields, NodeAssumption DEF MainState
    <3> QED
      BY <3>1, <3>2
  <2>2. t = AfterRevoke(c, s, m, ok)
    BY <1>4 DEF AfterRevoke
  <2> HIDE DEF u, pc, k
  <2>3. t \in Coordinator /\ t.pc = pc /\ t.call = k /\ SameRest(u, t)
    BY <1>1, <2>1, CallingFields
  <2> HIDE DEF t
  <2>4. /\ t.grant = s.grant /\ t.fenced = s.fenced /\ t.renewal = "off" /\ t.offer = s.offer
        /\ t.rcall = None /\ t.renewals = s.renewals /\ t.todo = rest /\ t.failed = u.failed
    BY <1>0, <1>1, <2>3 DEF SameRest
  <2>5. Begun(t) /\ Alive(t)
    BY <2>1, <2>3 DEF Begun, Alive
  <2>6. Shape(t)
    BY <1>0, <2>1, <2>3, <2>4 DEF Shape, CallShape, RenewShape
  <2>7. pc = "release" => Quiet(v, s.grant.op)
    <3> SUFFICES ASSUME pc = "release", NEW n \in Node PROVE QuietAt(v, n, s.grant.op)
      BY DEF Quiet
    <3>1. CASE n \in s.fenced
      BY <1>2, <2>1, <3>1
    <3>2. CASE n \notin s.fenced
      BY <1>0, <3>2, NoWorkQuiet
    <3> QED
      BY <3>1, <3>2
  <2>8. CallsOK(v, c, t)
    BY <1>0, <2>1, <2>3, <2>4, <2>5, <2>7 DEF CallsOK, Outstanding, MsgOK
  <2>9. GrantOK(v, c, t) /\ AuthorityOK(v, t) /\ RecordsOK(v, c, t)
    BY <1>0, <2>1, <2>3, <2>4, <2>5 DEF ClientOK, GrantOK, AuthorityOK, RecordsOK
  <2>10. FanOutOK(v, t)
    BY <1>0, <2>1, <2>3, <2>4 DEF ClientOK, FanOutOK
  <2>11. OperationOK(v, c, t)
    BY <1>0, <1>2, <2>1, <2>3, <2>4, <2>5 DEF ClientOK, OperationOK
  <2>12. \A j \in Message : MsgOK(v, j, s) => MsgOK(v, j, t)
    BY <1>0, <2>1, <2>3, <2>4, <2>5 DEF MsgOK
  <2> QED
    BY <2>2, <2>3, <2>6, <2>8, <2>9, <2>10, <2>11, <2>12 DEF Moves, ClientOK
<1> QED
  BY <1>3, <1>4

-----------------------------------------------------------------------------
(* Steps of the nodes and the controller.  The coordinators and the        *)
(* requests in flight stay as they are.                                    *)

\* What a change from v to w has to show.
LEMMA Frame ==
    ASSUME NEW v, NEW w, NEW cl, NEW nt, SystemOK(v, cl, nt), ViewOK(w),
           v.issued \subseteq w.issued,
           \A m \in Message : m.kind = "release" /\ MsgOK(v, m, cl[m.from]) => Quiet(w, m.body.op),
           \A c \in Client : /\ AuthorityOK(w, cl[c]) /\ RecordsOK(w, c, cl[c])
                             /\ FanOutOK(w, cl[c]) /\ OperationOK(w, c, cl[c])
    PROVE  SystemOK(w, cl, nt)
<1>1. \A c, f : Owns(v, c, f) => Owns(w, c, f)
  BY DEF Owns
<1>2. \A m \in Message : MsgOK(v, m, cl[m.from]) => MsgOK(w, m, cl[m.from])
  BY <1>1 DEF MsgOK
<1>3. ASSUME NEW c \in Client
      PROVE  CallsOK(w, c, cl[c]) /\ GrantOK(w, c, cl[c])
  <2>1. cl[c] \in Coordinator /\ ClientOK(v, c, cl[c])
    BY DEF SystemOK
  <2>2. Outstanding(cl[c]) \subseteq Message
    BY <2>1, CoordinatorFields DEF Outstanding
  <2>3. CallsOK(w, c, cl[c])
    BY <1>2, <2>1, <2>2 DEF ClientOK, CallsOK
  <2>4. GrantOK(w, c, cl[c])
    BY <1>1, <2>1 DEF ClientOK, GrantOK
  <2> QED
    BY <2>3, <2>4
<1> QED
  BY <1>2, <1>3 DEF SystemOK, ClientOK

\* Work ends or is refused, time passes, the process restarts, and the active
\* record is retired as expired or loses nothing but its phase.
LEMMA LocalChange ==
    ASSUME NEW v, NEW w, NEW cl, NEW nt, SystemOK(v, cl, nt), ViewType(w),
           w.fence = v.fence, w.issued = v.issued,
           \A n \in Node : w.work[n] \subseteq v.work[n] /\ w.clock[n] >= v.clock[n],
           w.control.nextToken = v.control.nextToken,
           w.control.active # None => /\ v.control.active # None
                                      /\ w.control.active.fence = v.control.active.fence
                                      /\ w.control.active.previous = v.control.active.previous,
           \A h \in w.history : h \in v.history \/ h.phase # "completed"
    PROVE  SystemOK(w, cl, nt)
<1>1. \A c, f : Owns(w, c, f) <=> Owns(v, c, f)
  BY DEF Owns
<1>2. \A op : Done(w, op) => Done(v, op)
  BY DEF Done
<1>3. \A n, op : Records(w, n, op) <=> Records(v, n, op)
  BY DEF Records
<1>4. \A n \in Node : \A op : QuietAt(v, n, op) => QuietAt(w, n, op)
  BY <1>3 DEF QuietAt
<1>5. \A op : Quiet(v, op) => Quiet(w, op)
  BY <1>4 DEF Quiet
<1>6. ViewOK(v) /\ v.clock \in [Node -> Nat] /\ w.clock \in [Node -> Nat]
  BY DEF SystemOK, ViewOK, ViewType
<1>7. \A n \in Node, f \in Grant : Held(v, n, f) => Held(w, n, f)
  <2> SUFFICES ASSUME NEW n \in Node, NEW f \in Grant, Held(v, n, f) PROVE Held(w, n, f)
    OBVIOUS
  <2>1. f.expires \in Nat /\ v.clock[n] \in Nat /\ w.clock[n] \in Nat /\ w.clock[n] >= v.clock[n]
    BY <1>6, GrantFields
  <2> QED
    BY <1>3, <2>1 DEF Held
<1>8. ViewOK(w)
  <2>1. JournalOK(w)
    BY <1>6 DEF ViewOK, JournalOK
  <2>2. ASSUME NEW n \in Node PROVE RecordOK(w, n) /\ WorkOK(w, n)
    BY <1>1, <1>6 DEF ViewOK, RecordOK, WorkOK
  <2> QED
    BY <2>1, <2>2 DEF ViewOK
<1>9. ASSUME NEW c \in Client
      PROVE  /\ AuthorityOK(w, cl[c]) /\ RecordsOK(w, c, cl[c])
             /\ FanOutOK(w, cl[c]) /\ OperationOK(w, c, cl[c])
  <2>1. cl[c] \in Coordinator /\ ClientOK(v, c, cl[c])
    BY DEF SystemOK
  <2>2. AuthorityOK(w, cl[c])
    BY <2>1 DEF ClientOK, AuthorityOK
  <2>3. RecordsOK(w, c, cl[c])
    BY <1>1, <2>1 DEF ClientOK, RecordsOK
  <2>4. FanOutOK(w, cl[c])
    <3>1. Alive(cl[c]) => cl[c].grant \in Grant
      BY <2>1 DEF ClientOK, GrantOK
    <3>2. cl[c].pc \in {"fence", "phase", "starting", "mutate"} => Alive(cl[c])
      BY DEF Alive
    <3>3. cl[c].renewal = "publish" => cl[c].offer \in Grant
      BY <2>1, CoordinatorFields DEF ClientOK, Shape, RenewShape
    <3>4. cl[c].fenced \subseteq Node
      BY <2>1, CoordinatorFields
    <3>5. FanOutOK(v, cl[c])
      BY <2>1 DEF ClientOK
    <3> QED
      BY <1>3, <1>7, <3>1, <3>2, <3>3, <3>4, <3>5 DEF FanOutOK
  <2>5. OperationOK(w, c, cl[c])
    <3>1. cl[c].fenced \subseteq Node
      BY <2>1, CoordinatorFields
    <3> QED
      BY <1>1, <1>2, <1>4, <1>5, <2>1, <3>1 DEF ClientOK, OperationOK
  <2> QED
    BY <2>2, <2>3, <2>4, <2>5
<1>10. \A m \in Message : m.kind = "release" /\ MsgOK(v, m, cl[m.from]) => Quiet(w, m.body.op)
  BY <1>5 DEF MsgOK
<1> QED
  BY <1>8, <1>9, <1>10, Frame

\* A coordinator sends a mutation to one of its targets.
LEMMA WorkAdded ==
    ASSUME NEW v, NEW w, NEW cl, NEW nt, SystemOK(v, cl, nt), NEW c \in Client,
           NEW n \in Node, cl[c].pc = "mutate", n \in cl[c].fenced, ViewType(w),
           w.fence = v.fence, w.issued = v.issued, w.clock = v.clock, w.control = v.control,
           w.history = v.history,
           \A k \in Node : w.work[k] = IF k = n THEN v.work[n] \cup {cl[c].grant} ELSE v.work[k]
    PROVE  SystemOK(w, cl, nt)
<1> DEFINE s == cl[c]
           f == s.grant
<1>1. ViewOK(v) /\ s \in Coordinator /\ ClientOK(v, c, s)
  BY DEF SystemOK
<1>2. Begun(s) /\ Alive(s) /\ f \in Grant /\ Owns(v, c, f) /\ Held(v, n, f)
  BY <1>1, RenewingFacts
<1> HIDE DEF s, f
<1>3. \A d, g : Owns(w, d, g) <=> Owns(v, d, g)
  BY DEF Owns
<1>4. \A op : Done(w, op) <=> Done(v, op)
  BY DEF Done
<1>5. \A k, op : Records(w, k, op) <=> Records(v, k, op)
  BY DEF Records
<1>6. \A k \in Node : \A op : QuietAt(v, k, op) /\ (k # n \/ op # f.op) => QuietAt(w, k, op)
  BY <1>5 DEF QuietAt, f, s
<1>7. \A op : Quiet(v, op) /\ op # f.op => Quiet(w, op)
  BY <1>6 DEF Quiet
<1>8. ViewOK(w)
  <2>1. JournalOK(w)
    BY <1>1 DEF ViewOK, JournalOK
  <2>2. ASSUME NEW k \in Node PROVE RecordOK(w, k) /\ WorkOK(w, k)
    <3>1. RecordOK(w, k)
      BY <1>1, <1>3 DEF ViewOK, RecordOK
    <3>2. WorkOK(v, k)
      BY <1>1 DEF ViewOK
    <3>3. \A g \in w.work[k] : g \in v.work[k] \/ (k = n /\ g = f)
      BY DEF f, s
    <3>4. f.token <= v.fence[n].highWater
      <4>1. v.fence[n].highWater \in Nat /\ f.token \in Nat
        BY <1>1, <1>2, GrantFields DEF ViewOK, ViewType, W!FenceRecord
      <4> QED
        BY <1>2, <4>1 DEF Held
    <3> QED
      BY <1>2, <1>3, <3>1, <3>2, <3>3, <3>4 DEF WorkOK
  <2> QED
    BY <2>1, <2>2 DEF ViewOK
<1>9. s.pc = "mutate"
  BY DEF s
<1>10. ASSUME NEW d \in Client
       PROVE  /\ AuthorityOK(w, cl[d]) /\ RecordsOK(w, d, cl[d])
              /\ FanOutOK(w, cl[d]) /\ OperationOK(w, d, cl[d])
  <2>1. cl[d] \in Coordinator /\ ClientOK(v, d, cl[d]) /\ cl[d].fenced \subseteq Node
    BY CoordinatorFields DEF SystemOK
  <2>2. AuthorityOK(w, cl[d]) /\ RecordsOK(w, d, cl[d]) /\ FanOutOK(w, cl[d])
    BY <1>3, <1>5, <2>1 DEF ClientOK, AuthorityOK, RecordsOK, FanOutOK, Held
  <2>3. ASSUME NEW k \in Node, NEW g \in w.work[k], Owns(v, d, g)
        PROVE  /\ Begun(cl[d])
               /\ Alive(cl[d]) /\ g.op = cl[d].grant.op =>
                    k \in cl[d].fenced /\ cl[d].pc \in {"mutate", "revoke", "release"}
    <3>1. CASE g \in v.work[k]
      BY <2>1, <2>3, <3>1 DEF ClientOK, OperationOK
    <3>2. CASE g \notin v.work[k]
      <4>1. k = n /\ g = f
        BY <3>2 DEF f, s
      <4>2. d = c
        BY <1>1, <1>2, <2>3, <4>1, OwnerUnique
      <4> QED
        BY <1>2, <4>1, <4>2 DEF s
    <3> QED
      BY <3>1, <3>2
  <2>4. cl[d].pc = "revoke" => cl[d].grant.op # f.op
    <3> SUFFICES ASSUME cl[d].pc = "revoke", cl[d].grant.op = f.op PROVE FALSE
      OBVIOUS
    <3>1. Owns(v, d, cl[d].grant)
      BY <2>1 DEF Alive, ClientOK, GrantOK
    <3> QED
      BY <1>1, <1>2, <1>9, <3>1, OwnerUnique DEF s
  <2>5. \A i \in v.issued : i.request = RequestOf[d] /\ i.fence.op = f.op /\ Done(v, f.op) => FALSE
    <3> SUFFICES ASSUME NEW i \in v.issued, i.request = RequestOf[d], i.fence.op = f.op, Done(v, f.op)
                 PROVE  FALSE
      OBVIOUS
    <3>1. [request |-> RequestOf[c], fence |-> f] \in v.issued
      BY <1>2 DEF Owns
    <3>2. i.request = RequestOf[c]
      BY <1>1, <3>1 DEF ViewOK, JournalOK
    <3> QED
      BY <1>1, <1>9, <3>2 DEF ClientOK, OperationOK
  <2>6. OperationOK(w, d, cl[d])
    <3>1. cl[d].pc = "revoke" /\ ~cl[d].failed =>
            \A k \in cl[d].fenced \ cl[d].todo : QuietAt(w, k, cl[d].grant.op)
      BY <1>6, <2>1, <2>4 DEF ClientOK, OperationOK
    <3>2. \A i \in v.issued : i.request = RequestOf[d] /\ Done(v, i.fence.op) =>
            cl[d].pc \in {"release", "stopped"} /\ Quiet(w, i.fence.op)
      BY <1>7, <2>1, <2>5 DEF ClientOK, OperationOK
    <3> QED
      BY <1>3, <1>4, <2>3, <3>1, <3>2 DEF OperationOK
  <2> QED
    BY <2>2, <2>6
<1>11. ASSUME NEW m \in Message, m.kind = "release", MsgOK(v, m, cl[m.from])
       PROVE  Quiet(w, m.body.op)
  <2>1. m.from \in Client /\ Owns(v, m.from, m.body) /\ Quiet(v, m.body.op)
        /\ cl[m.from].pc \in {"release", "stopped"}
    BY <1>11 DEF MsgOK, Message
  <2>2. m.body.op # f.op
    BY <1>1, <1>2, <1>9, <2>1, OwnerUnique DEF s
  <2> QED
    BY <1>7, <2>1, <2>2
<1> QED
  BY <1>8, <1>10, <1>11, Frame

\* A coordinator's revocation clears the record of node n.
LEMMA RecordCleared ==
    ASSUME NEW v, NEW w, NEW cl, NEW nt, SystemOK(v, cl, nt), NEW m \in Message,
           m.kind = "revoke", MsgOK(v, m, cl[m.from]), NEW n \in Node, ViewType(w),
           v.fence[n].active # None => v.fence[n].active.op = m.body.op,
           w.fence[n].active = None, w.fence[n].previous = None,
           w.fence[n].highWater = v.fence[n].highWater,
           \A k \in Node : k # n => w.fence[k] = v.fence[k],
           w.issued = v.issued, w.clock = v.clock, w.control = v.control,
           w.history = v.history, w.work = v.work
    PROVE  SystemOK(w, cl, nt)
<1>1. ViewOK(v) /\ m.from \in Client /\ Owns(v, m.from, m.body)
      /\ cl[m.from].pc \in {"revoke", "release", "stopped"}
  BY DEF SystemOK, Message, MsgOK
<1>2. \A d, g : Owns(w, d, g) <=> Owns(v, d, g)
  BY DEF Owns
<1>3. \A op : Done(w, op) <=> Done(v, op)
  BY DEF Done
<1>4. \A k \in Node : \A op : Records(w, k, op) <=> Records(v, k, op) /\ k # n
  BY DEF Records
<1>5. \A k \in Node : \A op : QuietAt(v, k, op) => QuietAt(w, k, op)
  BY <1>4 DEF QuietAt
<1>6. \A op : Quiet(v, op) => Quiet(w, op)
  BY <1>5 DEF Quiet
<1>7. \A k \in Node : w.fence[k].highWater = v.fence[k].highWater
  OBVIOUS
<1>8. ViewOK(w)
  <2>1. JournalOK(w)
    BY <1>1 DEF ViewOK, JournalOK
  <2>2. ASSUME NEW k \in Node PROVE RecordOK(w, k) /\ WorkOK(w, k)
    <3>1. RecordOK(v, k) /\ WorkOK(v, k)
      BY <1>1 DEF ViewOK
    <3>2. RecordOK(w, k)
      BY <1>2, <3>1 DEF RecordOK
    <3>3. WorkOK(w, k)
      BY <1>2, <1>7, <3>1 DEF WorkOK
    <3> QED
      BY <3>2, <3>3
  <2> QED
    BY <2>1, <2>2 DEF ViewOK
\* The operation the node recorded is not one that still activates.
<1>9. ASSUME NEW d \in Client, NEW f, Owns(v, d, f), Records(v, n, f.op),
             cl[d].pc \notin {"revoke", "release", "stopped"}
      PROVE  FALSE
  <2>1. f.op = m.body.op
    BY <1>9 DEF Records
  <2> QED
    BY <1>1, <1>9, <2>1, OwnerUnique
<1>10. ASSUME NEW d \in Client
       PROVE  /\ AuthorityOK(w, cl[d]) /\ RecordsOK(w, d, cl[d])
              /\ FanOutOK(w, cl[d]) /\ OperationOK(w, d, cl[d])
  <2>1. cl[d] \in Coordinator /\ ClientOK(v, d, cl[d]) /\ cl[d].fenced \subseteq Node
    BY CoordinatorFields DEF SystemOK
  <2>2. AuthorityOK(w, cl[d]) /\ RecordsOK(w, d, cl[d])
    BY <1>2, <2>1 DEF ClientOK, AuthorityOK, RecordsOK
  <2>3. FanOutOK(w, cl[d])
    <3>1. ASSUME NEW k \in Node, NEW f, Owns(v, d, f), Held(v, k, f),
                 cl[d].pc \in {"fence", "phase", "starting", "mutate"}
          PROVE  Held(w, k, f)
      <4>1. Records(v, k, f.op) => Records(w, k, f.op)
        BY <1>4, <1>9, <3>1
      <4> QED
        BY <1>7, <3>1, <4>1 DEF Held
    <3>2. Alive(cl[d]) => /\ Owns(v, d, cl[d].grant)
                          /\ cl[d].offer # None => Owns(v, d, cl[d].offer)
      BY <2>1 DEF ClientOK, GrantOK
    <3>3. cl[d].pc \in {"fence", "phase", "starting", "mutate"} => Alive(cl[d])
      BY DEF Alive
    <3>4. cl[d].renewal = "publish" => cl[d].offer # None /\ cl[d].pc \in {"starting", "mutate"}
      BY <2>1 DEF ClientOK, Shape, RenewShape
    <3>5. FanOutOK(v, cl[d])
      BY <2>1 DEF ClientOK
    <3>6. cl[d].renewal = "publish" =>
            \A k \in cl[d].fenced \ cl[d].left :
              /\ Held(w, k, cl[d].offer)
              /\ Records(w, k, cl[d].offer.op) => w.fence[k].active = cl[d].offer
      BY <1>4, <2>1, <3>1, <3>2, <3>3, <3>4, <3>5 DEF FanOutOK
    <3> QED
      BY <1>7, <2>1, <3>1, <3>2, <3>3, <3>5, <3>6 DEF FanOutOK
  <2>4. OperationOK(w, d, cl[d])
    BY <1>2, <1>3, <1>5, <1>6, <2>1 DEF ClientOK, OperationOK
  <2> QED
    BY <2>2, <2>3, <2>4
<1>11. \A j \in Message : j.kind = "release" /\ MsgOK(v, j, cl[j.from]) => Quiet(w, j.body.op)
  BY <1>6 DEF MsgOK
<1> QED
  BY <1>8, <1>10, <1>11, Frame

\* The controller completes the release of the operation of request m.
LEMMA OperationCompleted ==
    ASSUME NEW v, NEW w, NEW cl, NEW nt, SystemOK(v, cl, nt), NEW m \in Message,
           m.kind = "release", MsgOK(v, m, cl[m.from]), ViewType(w),
           w.fence = v.fence, w.issued = v.issued, w.clock = v.clock, w.work = v.work,
           w.control.nextToken = v.control.nextToken, w.control.active = None,
           w.history = v.history \cup {[op |-> m.body.op, phase |-> "completed"]}
    PROVE  SystemOK(w, cl, nt)
<1> DEFINE f == m.body
           h == [op |-> f.op, phase |-> "completed"]
<1>1. ViewOK(v) /\ m.from \in Client /\ Owns(v, m.from, f) /\ Quiet(v, f.op)
      /\ cl[m.from].pc \in {"release", "stopped"}
  BY DEF SystemOK, Message, MsgOK
<1>2. \A d, g : Owns(w, d, g) <=> Owns(v, d, g)
  BY DEF Owns
<1>3. \A op : Done(w, op) => Done(v, op) \/ op = f.op
  BY DEF Done
<1>4. \A k, op : Records(w, k, op) <=> Records(v, k, op)
  BY DEF Records
<1>5. \A k, op : QuietAt(w, k, op) <=> QuietAt(v, k, op)
  BY <1>4 DEF QuietAt
<1>6. \A op : Quiet(w, op) <=> Quiet(v, op)
  BY <1>5 DEF Quiet
<1>7. [request |-> RequestOf[m.from], fence |-> f] \in v.issued
  BY <1>1 DEF Owns
<1>8. ViewOK(w)
  <2>1. \A j \in w.history : j \in v.history \/ j.op = f.op
    OBVIOUS
  <2>2. JournalOK(w)
    BY <1>1, <1>7, <2>1 DEF ViewOK, JournalOK
  <2>3. ASSUME NEW k \in Node PROVE RecordOK(w, k) /\ WorkOK(w, k)
    BY <1>1, <1>2 DEF ViewOK, RecordOK, WorkOK
  <2> QED
    BY <2>2, <2>3 DEF ViewOK
<1>9. ASSUME NEW d \in Client
      PROVE  /\ AuthorityOK(w, cl[d]) /\ RecordsOK(w, d, cl[d])
             /\ FanOutOK(w, cl[d]) /\ OperationOK(w, d, cl[d])
  <2>1. cl[d] \in Coordinator /\ ClientOK(v, d, cl[d])
    BY DEF SystemOK
  <2>2. AuthorityOK(w, cl[d]) /\ RecordsOK(w, d, cl[d]) /\ FanOutOK(w, cl[d])
    BY <1>2, <1>4, <2>1 DEF ClientOK, AuthorityOK, RecordsOK, FanOutOK, Held
  <2>3. ASSUME NEW i \in v.issued, i.request = RequestOf[d], Done(w, i.fence.op)
        PROVE  cl[d].pc \in {"release", "stopped"} /\ Quiet(v, i.fence.op)
    <3>1. CASE Done(v, i.fence.op)
      BY <2>1, <2>3, <3>1 DEF ClientOK, OperationOK
    <3>2. CASE i.fence.op = f.op
      <4>1. RequestOf[d] = RequestOf[m.from]
        BY <1>1, <1>7, <2>3, <3>2 DEF ViewOK, JournalOK
      <4>2. d = m.from
        BY <1>1, <4>1, RequestAssumption
      <4> QED
        BY <1>1, <3>2, <4>2
    <3> QED
      BY <1>3, <2>3, <3>1, <3>2
  <2>4. OperationOK(w, d, cl[d])
    BY <1>2, <1>5, <1>6, <2>1, <2>3 DEF ClientOK, OperationOK
  <2> QED
    BY <2>2, <2>4
<1>10. \A j \in Message : j.kind = "release" /\ MsgOK(v, j, cl[j.from]) => Quiet(w, j.body.op)
  BY <1>6 DEF MsgOK
<1> QED
  BY <1>8, <1>9, <1>10, Frame

\* The controller grants a new operation to coordinator c.
LEMMA GrantIssued ==
    ASSUME NEW v, NEW w, NEW cl, NEW nt, SystemOK(v, cl, nt), NEW c \in Client,
           NEW f \in Grant, f.targets # {}, v.control.nextToken \in Nat,
           f.token = v.control.nextToken + 1, RequestOf[c] \in Request,
           \A i \in v.issued : i.fence.op # f.op, ViewType(w),
           w.fence = v.fence, w.clock = v.clock, w.work = v.work,
           w.issued = v.issued \cup {[request |-> RequestOf[c], fence |-> f]},
           w.control.nextToken = f.token, w.control.active.fence = f,
           \A h \in w.history : h \in v.history \/ h.phase # "completed"
    PROVE  SystemOK(w, cl, nt)
<1> DEFINE new == [request |-> RequestOf[c], fence |-> f]
<1>1. ViewOK(v) /\ new.fence = f /\ new.request = RequestOf[c]
  BY DEF SystemOK
<1> HIDE DEF new
<1>2. w.issued = v.issued \cup {new} /\ new \in [request: Request, fence: Grant]
  BY DEF new
<1>3. \A d, g : Owns(v, d, g) => Owns(w, d, g) /\ g.op # f.op
  <2> SUFFICES ASSUME NEW d, NEW g, Owns(v, d, g) PROVE Owns(w, d, g) /\ g.op # f.op
    OBVIOUS
  <2>1. [request |-> RequestOf[d], fence |-> g] \in v.issued
    BY DEF Owns
  <2> QED
    BY <1>2, <2>1 DEF Owns
\* No grant known before has a new owner.
<1>4. \A d, e, g : Owns(v, e, g) /\ Owns(w, d, g) => Owns(v, d, g)
  <2> SUFFICES ASSUME NEW d, NEW e, NEW g, Owns(v, e, g), Owns(w, d, g) PROVE Owns(v, d, g)
    OBVIOUS
  <2>1. g # f
    BY <1>3
  <2> QED
    BY <1>2, <2>1 DEF Owns, new
<1>5. \A op : Done(w, op) => Done(v, op)
  BY DEF Done
<1>6. ~Done(w, f.op)
  <2> SUFFICES ASSUME Done(v, f.op) PROVE FALSE
    BY <1>5
  <2> DEFINE h == [op |-> f.op, phase |-> "completed"]
  <2>1. h \in v.history /\ h.phase = "completed" /\ h.op = f.op
    BY DEF Done
  <2> QED
    BY <1>1, <2>1 DEF ViewOK, JournalOK
<1>7. \A k, op : Records(w, k, op) <=> Records(v, k, op)
  BY DEF Records
<1>8. \A k, op : QuietAt(w, k, op) <=> QuietAt(v, k, op)
  BY <1>7 DEF QuietAt
<1>9. \A op : Quiet(w, op) <=> Quiet(v, op)
  BY <1>8 DEF Quiet
<1>10. ViewOK(w)
  <2>1. JournalOK(w)
    <3>1. JournalOK(v)
      BY <1>1 DEF ViewOK
    <3>2. w.issued \subseteq [request: Request, fence: Grant]
      BY <1>2, <3>1 DEF JournalOK
    <3>3. \A i \in w.issued : i.fence.targets # {} /\ i.fence.token <= w.control.nextToken
      <4> SUFFICES ASSUME NEW i \in w.issued
                   PROVE  i.fence.targets # {} /\ i.fence.token <= w.control.nextToken
        OBVIOUS
      <4>1. CASE i = new
        BY <1>1, <4>1, GrantFields
      <4>2. CASE i \in v.issued
        <5>1. i.fence \in Grant /\ i.fence.targets # {} /\ i.fence.token <= v.control.nextToken
          BY <3>1, <4>2 DEF JournalOK
        <5>2. i.fence.token \in Nat
          BY <5>1, GrantFields
        <5> QED
          BY <5>1, <5>2
      <4> QED
        BY <1>2, <4>1, <4>2
    <3>4. \A i, j \in w.issued : i.fence.op = j.fence.op =>
            i.request = j.request /\ i.fence.token = j.fence.token
      BY <1>1, <1>2, <3>1 DEF JournalOK
    <3>5. \A h \in w.history : h.phase = "completed" => \E i \in w.issued : i.fence.op = h.op
      BY <1>2, <3>1 DEF JournalOK
    <3> QED
      BY <3>2, <3>3, <3>4, <3>5 DEF JournalOK
  <2>2. ASSUME NEW k \in Node PROVE RecordOK(w, k) /\ WorkOK(w, k)
    BY <1>1, <1>3 DEF ViewOK, RecordOK, WorkOK
  <2> QED
    BY <2>1, <2>2 DEF ViewOK
<1>11. ASSUME NEW d \in Client
       PROVE  /\ AuthorityOK(w, cl[d]) /\ RecordsOK(w, d, cl[d])
              /\ FanOutOK(w, cl[d]) /\ OperationOK(w, d, cl[d])
  <2>1. cl[d] \in Coordinator /\ ClientOK(v, d, cl[d])
    BY DEF SystemOK
  <2>2. AuthorityOK(w, cl[d])
    <3>1. Alive(cl[d]) => Owns(v, d, cl[d].grant)
      BY <2>1 DEF ClientOK, GrantOK
    <3> QED
      BY <1>3, <3>1 DEF AuthorityOK
  <2>3. RecordsOK(w, d, cl[d])
    <3>1. ASSUME NEW n \in Node, w.fence[n].active # None, Owns(w, d, w.fence[n].active)
          PROVE  Owns(v, d, w.fence[n].active)
      <4>1. \E e \in Client : Owns(v, e, w.fence[n].active)
        BY <1>1, <3>1 DEF ViewOK, RecordOK
      <4> QED
        BY <1>4, <3>1, <4>1
    <3> QED
      BY <2>1, <3>1 DEF ClientOK, RecordsOK
  <2>4. FanOutOK(w, cl[d])
    BY <1>7, <2>1 DEF ClientOK, FanOutOK, Held
  <2>5. OperationOK(w, d, cl[d])
    <3>1. ASSUME NEW n \in Node, NEW g \in w.work[n], Owns(w, d, g)
          PROVE  Owns(v, d, g)
      <4>1. \E e \in Client : Owns(v, e, g)
        BY <1>1, <3>1 DEF ViewOK, WorkOK
      <4> QED
        BY <1>4, <3>1, <4>1
    <3>2. \A i \in w.issued : i.request = RequestOf[d] /\ Done(w, i.fence.op) =>
            cl[d].pc \in {"release", "stopped"} /\ Quiet(w, i.fence.op)
      BY <1>1, <1>2, <1>5, <1>6, <1>9, <2>1 DEF ClientOK, OperationOK
    <3> QED
      BY <1>8, <2>1, <3>1, <3>2 DEF ClientOK, OperationOK
  <2> QED
    BY <2>2, <2>3, <2>4, <2>5
<1>12. \A j \in Message : j.kind = "release" /\ MsgOK(v, j, cl[j.from]) => Quiet(w, j.body.op)
  BY <1>9 DEF MsgOK
<1>13. v.issued \subseteq w.issued
  BY <1>2
<1> QED
  BY <1>10, <1>11, <1>12, <1>13, Frame

\* The controller renews the grant f of request m: g is the successor.
LEMMA GrantRenewed ==
    ASSUME NEW v, NEW w, NEW cl, NEW nt, SystemOK(v, cl, nt), NEW m \in Message,
           m.kind = "renew", MsgOK(v, m, cl[m.from]), NEW f, f = m.body, NEW g \in Grant,
           Newer(f, g), v.control.active # None, v.control.active.fence = f,
           v.control.active.previous # None /\ v.control.active.previous \in Grant =>
               Newer(v.control.active.previous, f),
           ViewType(w), w.fence = v.fence, w.clock = v.clock, w.work = v.work,
           w.issued = v.issued \cup {[request |-> RequestOf[m.from], fence |-> g]},
           w.control.nextToken = v.control.nextToken, w.control.active # None,
           w.control.active.fence = g, w.control.active.previous = f, w.history = v.history
    PROVE  SystemOK(w, cl, nt)
<1> DEFINE c == m.from
           new == [request |-> RequestOf[c], fence |-> g]
<1>1. ViewOK(v) /\ new.fence = g /\ new.request = RequestOf[c] /\ c \in Client
      /\ f \in Grant /\ Owns(v, c, f)
  BY DEF SystemOK, MsgOK, Message
<1> HIDE DEF new
<1>2. w.issued = v.issued \cup {new} /\ new \in [request: Request, fence: Grant]
  BY <1>1 DEF new, Request
<1>3. /\ g.op = f.op /\ g.token = f.token /\ g.targets = f.targets
      /\ \A h \in Grant : Newer(h, f) => ~Newer(f, h)
      /\ ~Newer(f, f)
  BY <1>1, NewerFacts
<1>4. \A d, h : Owns(v, d, h) => Owns(w, d, h)
  BY <1>2 DEF Owns
<1>5. ASSUME NEW d \in Client, NEW e \in Client, NEW h, Owns(v, e, h), Owns(w, d, h)
      PROVE  Owns(v, d, h)
  <2> SUFFICES ASSUME ~Owns(v, d, h) PROVE FALSE
    OBVIOUS
  <2>1. [request |-> RequestOf[d], fence |-> h] = new
    BY <1>2, <1>5 DEF Owns
  <2>2. h = g /\ RequestOf[d] = RequestOf[c]
    BY <2>1 DEF new
  <2>3. d = c
    BY <1>1, <2>2, RequestAssumption
  <2>4. e = c
    BY <1>1, <1>3, <1>5, <2>2, OwnerUnique
  <2> QED
    BY <1>5, <2>3, <2>4
<1>6. \A op : Done(w, op) <=> Done(v, op)
  BY DEF Done
<1>7. \A k, op : Records(w, k, op) <=> Records(v, k, op)
  BY DEF Records
<1>8. \A k, op : QuietAt(w, k, op) <=> QuietAt(v, k, op)
  BY <1>7 DEF QuietAt
<1>9. \A op : Quiet(w, op) <=> Quiet(v, op)
  BY <1>8 DEF Quiet
<1> DEFINE old == [request |-> RequestOf[c], fence |-> f]
<1>10. old \in v.issued /\ old.request = RequestOf[c] /\ old.fence = f
  BY <1>1 DEF Owns
<1> HIDE DEF old
<1>11. ViewOK(w)
  <2>1. JournalOK(w)
    <3>1. JournalOK(v)
      BY <1>1 DEF ViewOK
    <3>2. w.issued \subseteq [request: Request, fence: Grant]
      BY <1>2, <3>1 DEF JournalOK
    <3>3. \A i \in w.issued : i.fence.targets # {} /\ i.fence.token <= w.control.nextToken
      <4>1. new.fence.targets = old.fence.targets /\ new.fence.token = old.fence.token
        BY <1>1, <1>3, <1>10
      <4> QED
        BY <1>2, <1>10, <3>1, <4>1 DEF JournalOK
    <3>4. \A i, j \in w.issued : i.fence.op = j.fence.op =>
            i.request = j.request /\ i.fence.token = j.fence.token
      <4>1. \A i \in v.issued : i.fence.op = f.op =>
              i.request = RequestOf[c] /\ i.fence.token = f.token
        BY <1>10, <3>1 DEF JournalOK
      <4> QED
        BY <1>1, <1>2, <1>3, <3>1, <4>1 DEF JournalOK
    <3>5. \A h \in w.history : h.phase = "completed" => \E i \in w.issued : i.fence.op = h.op
      BY <1>2, <3>1 DEF JournalOK
    <3>6. w.control.active.fence.token = w.control.nextToken
      BY <1>3, <3>1 DEF JournalOK
    <3> QED
      BY <3>2, <3>3, <3>4, <3>5, <3>6 DEF JournalOK
  <2>2. ASSUME NEW k \in Node PROVE RecordOK(w, k) /\ WorkOK(w, k)
    BY <1>1, <1>4 DEF ViewOK, RecordOK, WorkOK
  <2> QED
    BY <2>1, <2>2 DEF ViewOK
<1>12. ASSUME NEW d \in Client
       PROVE  /\ AuthorityOK(w, cl[d]) /\ RecordsOK(w, d, cl[d])
              /\ FanOutOK(w, cl[d]) /\ OperationOK(w, d, cl[d])
  <2>1. cl[d] \in Coordinator /\ ClientOK(v, d, cl[d])
    BY DEF SystemOK
  <2>2. AuthorityOK(w, cl[d])
    <3> DEFINE s == cl[d]
    <3> SUFFICES ASSUME Alive(s), f.op = s.grant.op
                 PROVE  s.offer = None /\ s.grant \in {g, f}
      BY <1>3 DEF AuthorityOK
    <3>1. s.grant \in Grant /\ Owns(v, d, s.grant) /\ (s.offer # None => Newer(s.grant, s.offer))
      BY <2>1 DEF ClientOK, GrantOK
    <3>2. d = c
      BY <1>1, <3>1, OwnerUnique
    <3>3. f = s.grant \/ Newer(f, s.grant)
      BY <3>2 DEF MsgOK
    <3>4. \/ s.offer = None /\ s.grant \in {f, v.control.active.previous}
          \/ s.offer = f /\ s.grant = v.control.active.previous
      BY <2>1 DEF ClientOK, AuthorityOK
    <3>5. s.grant = v.control.active.previous => Newer(s.grant, f)
      BY <3>1, GrantFields
    <3>6. s.grant = f
      BY <1>1, <1>3, <3>1, <3>3, <3>4, <3>5
    <3> QED
      BY <1>1, <1>3, <3>1, <3>4, <3>6, GrantFields
  <2>3. RecordsOK(w, d, cl[d])
    <3>1. ASSUME NEW n \in Node, w.fence[n].active # None, Owns(w, d, w.fence[n].active)
          PROVE  Owns(v, d, w.fence[n].active)
      <4>1. \E e \in Client : Owns(v, e, w.fence[n].active)
        BY <1>1, <3>1 DEF ViewOK, RecordOK
      <4> QED
        BY <1>5, <3>1, <4>1
    <3> QED
      BY <2>1, <3>1 DEF ClientOK, RecordsOK
  <2>4. FanOutOK(w, cl[d])
    BY <1>7, <2>1 DEF ClientOK, FanOutOK, Held
  <2>5. OperationOK(w, d, cl[d])
    <3>1. ASSUME NEW n \in Node, NEW h \in w.work[n], Owns(w, d, h)
          PROVE  Owns(v, d, h)
      <4>1. \E e \in Client : Owns(v, e, h)
        BY <1>1, <3>1 DEF ViewOK, WorkOK
      <4> QED
        BY <1>5, <3>1, <4>1
    <3>2. \A i \in v.issued : i.request = RequestOf[d] /\ Done(w, i.fence.op) =>
            cl[d].pc \in {"release", "stopped"} /\ Quiet(w, i.fence.op)
      BY <1>6, <1>9, <2>1 DEF ClientOK, OperationOK
    <3>3. \A i \in w.issued : i.request = RequestOf[d] /\ Done(w, i.fence.op) =>
            cl[d].pc \in {"release", "stopped"} /\ Quiet(w, i.fence.op)
      BY <1>1, <1>2, <1>3, <1>10, <3>2
    <3> QED
      BY <1>8, <2>1, <3>1, <3>3 DEF ClientOK, OperationOK
  <2> QED
    BY <2>2, <2>3, <2>4, <2>5
<1>13. \A j \in Message : j.kind = "release" /\ MsgOK(v, j, cl[j.from]) => Quiet(w, j.body.op)
  BY <1>9 DEF MsgOK
<1>14. v.issued \subseteq w.issued
  BY <1>2
<1> QED
  BY <1>11, <1>12, <1>13, <1>14, Frame

\* Node n activates the grant f of request m.
LEMMA RecordActivated ==
    ASSUME NEW v, NEW w, NEW cl, NEW nt, SystemOK(v, cl, nt), NEW m \in Message,
           m.kind = "activate", MsgOK(v, m, cl[m.from]), NEW f, f = m.body, NEW n \in Node,
           n \in f.targets, f # v.fence[n].active, ViewType(w),
           \/ /\ f.token = v.fence[n].highWater
              /\ v.fence[n].active # None /\ Newer(v.fence[n].active, f)
              /\ w.fence[n] = [highWater |-> f.token, active |-> f, previous |-> v.fence[n].active]
           \/ /\ f.token > v.fence[n].highWater
              /\ v.fence[n].active # None => v.clock[n] >= v.fence[n].active.expires
              /\ w.fence[n] = [highWater |-> f.token, active |-> f, previous |-> None],
           \A k \in Node : k # n => w.fence[k] = v.fence[k],
           w.issued = v.issued, w.clock = v.clock, w.control = v.control,
           w.history = v.history, w.work = v.work
    PROVE  SystemOK(w, cl, nt)
<1> DEFINE c == m.from
           r == v.fence[n]
           Renews == f.token = r.highWater
<1>1. ViewOK(v) /\ c \in Client /\ f \in Grant /\ f # None /\ Owns(v, c, f) /\ Begun(cl[c])
  BY GrantFields DEF SystemOK, Message, MsgOK
<1>2. /\ r.highWater \in Nat /\ f.token \in Nat /\ v.clock[n] \in Nat
      /\ r.active # None => r.active \in Grant
  BY <1>1, GrantFields DEF ViewOK, ViewType, W!FenceRecord
<1>3. /\ w.fence[n].active = f /\ w.fence[n].highWater = f.token /\ f.token >= r.highWater
      /\ Renews => r.active # None /\ Newer(r.active, f) /\ w.fence[n].previous = r.active
      /\ ~Renews => /\ f.token > r.highWater /\ w.fence[n].previous = None
                    /\ r.active # None => v.clock[n] >= r.active.expires
  BY <1>2
<1>4. Renews => r.active \in Grant /\ r.active.op = f.op
  BY <1>1, <1>2, <1>3, NewerFacts
<1> HIDE DEF Renews
<1>5. \A d, g : Owns(w, d, g) <=> Owns(v, d, g)
  BY DEF Owns
<1>6. \A op : Done(w, op) <=> Done(v, op)
  BY DEF Done
<1>7. /\ \A op : Records(w, n, op) <=> op = f.op
      /\ \A k \in Node : \A op : k # n => (Records(w, k, op) <=> Records(v, k, op))
  BY <1>1, <1>3 DEF Records
<1>8. r.active # None => \E d \in Client : Owns(v, d, r.active)
  BY <1>1 DEF ViewOK, RecordOK
\* Work left behind by an operation is not admitted again.
<1>9. ASSUME NEW k \in Node, NEW op, QuietAt(v, k, op) PROVE QuietAt(w, k, op)
  <2>1. CASE k # n
    BY <1>7, <1>9, <2>1 DEF QuietAt
  <2>2. CASE k = n
    <3> SUFFICES ASSUME NEW g \in v.work[n], g.op = op, op = f.op PROVE FALSE
      BY <1>7, <2>2 DEF QuietAt
    <3>1. PICK d \in Client : Owns(v, d, g)
      BY <1>1 DEF ViewOK, WorkOK
    <3>2. g.token = f.token
      BY <1>1, <3>1, OwnerUnique
    <3>3. g.token <= r.highWater
      BY <1>1 DEF ViewOK, WorkOK
    <3>4. Renews
      BY <1>2, <1>3, <3>2, <3>3
    <3>5. Records(v, n, op)
      BY <1>3, <1>4, <3>4 DEF Records
    <3> QED
      BY <1>9, <2>2, <3>5 DEF QuietAt
  <2> QED
    BY <2>1, <2>2
<1>10. \A op : Quiet(v, op) => Quiet(w, op)
  BY <1>9 DEF Quiet
<1>11. ViewOK(w)
  <2>1. JournalOK(w)
    BY <1>1 DEF ViewOK, JournalOK
  <2>2. ASSUME NEW k \in Node PROVE RecordOK(w, k) /\ WorkOK(w, k)
    <3>1. RecordOK(v, k) /\ WorkOK(v, k)
      BY <1>1 DEF ViewOK
    <3>2. RecordOK(w, k)
      <4>1. CASE k # n
        BY <1>5, <3>1, <4>1 DEF RecordOK
      <4>2. CASE k = n
        <5>1. w.fence[n].previous # None => Newer(w.fence[n].previous, f)
          BY <1>3
        <5> QED
          BY <1>1, <1>3, <1>5, <4>2, <5>1 DEF RecordOK
      <4> QED
        BY <4>1, <4>2
    <3>3. WorkOK(w, k)
      <4>1. CASE k # n
        BY <1>5, <3>1, <4>1 DEF WorkOK
      <4>2. CASE k = n
        <5>1. ASSUME NEW g \in v.work[n] PROVE g.token <= f.token
          <6>1. g \in Grant
            BY <1>1, <5>1 DEF ViewOK, ViewType
          <6>2. g.token \in Nat /\ g.token <= r.highWater
            BY <3>1, <4>2, <5>1, <6>1, GrantFields DEF WorkOK
          <6> QED
            BY <1>2, <1>3, <6>2
        <5> QED
          BY <1>3, <1>5, <3>1, <4>2, <5>1 DEF WorkOK
      <4> QED
        BY <4>1, <4>2
    <3> QED
      BY <3>2, <3>3
  <2> QED
    BY <2>1, <2>2 DEF ViewOK
<1>12. ASSUME NEW d \in Client
       PROVE  /\ AuthorityOK(w, cl[d]) /\ RecordsOK(w, d, cl[d])
              /\ FanOutOK(w, cl[d]) /\ OperationOK(w, d, cl[d])
  <2> DEFINE s == cl[d]
  <2>1. s \in Coordinator /\ ClientOK(v, d, s) /\ s.fenced \subseteq Node
    BY CoordinatorFields DEF SystemOK
  <2>2. Alive(s) => /\ s.grant \in Grant /\ Owns(v, d, s.grant)
                    /\ s.offer # None =>
                         /\ s.offer \in Grant /\ Owns(v, d, s.offer) /\ Newer(s.grant, s.offer)
                         /\ s.offer.op = s.grant.op /\ s.offer.token = s.grant.token
                         /\ s.grant.expires < s.offer.expires /\ ~Newer(s.offer, s.grant)
    BY <2>1, CoordinatorFields, NewerFacts DEF ClientOK, GrantOK
  <2>3. /\ s.pc \in {"fence", "phase", "starting", "mutate"} => Alive(s)
        /\ s.renewal = "publish" => s.offer # None /\ s.pc \in {"starting", "mutate"} /\ Alive(s)
        /\ s.offer # None => s.renewals > 0
        /\ s.renewals > 0 => s.pc \notin {"self", "snapshot", "publish"}
    BY <2>1 DEF ClientOK, Shape, RenewShape, Alive
  \* What the node recorded of this operation, if it did.
  <2>4. Alive(s) /\ n \in s.fenced /\ Records(v, n, s.grant.op) =>
           r.active = s.grant \/ (r.active = s.offer /\ r.previous = s.grant)
    <3> SUFFICES ASSUME Alive(s), n \in s.fenced, Records(v, n, s.grant.op)
                 PROVE  r.active = s.grant \/ (r.active = s.offer /\ r.previous = s.grant)
      OBVIOUS
    <3>1. r.active # None /\ r.active.op = s.grant.op
      BY DEF Records
    <3>2. Owns(v, d, r.active)
      BY <1>1, <1>8, <2>2, <3>1, OwnerUnique
    <3> QED
      BY <2>1, <3>1, <3>2 DEF ClientOK, RecordsOK
  \* An activation of the operation once its token is known is a renewal.
  <2>5. Alive(s) /\ n \in s.fenced /\ s.renewals > 0 /\ f.op = s.grant.op =>
          f = s.grant \/ (f = s.offer /\ w.fence[n].previous = s.grant)
    <3> SUFFICES ASSUME Alive(s), n \in s.fenced, s.renewals > 0, f.op = s.grant.op, f # s.grant
                 PROVE  f = s.offer /\ w.fence[n].previous = s.grant
      OBVIOUS
    <3>1. d = c /\ f.token = s.grant.token
      BY <1>1, <2>2, OwnerUnique
    <3>2. f = s.offer \/ Newer(f, s.grant)
      BY <3>1 DEF MsgOK
    <3>3. r.highWater >= s.grant.token
      BY <2>1 DEF ClientOK, FanOutOK
    <3>4. Renews
      BY <1>2, <1>3, <3>1, <3>3
    <3>5. Records(v, n, s.grant.op)
      BY <1>3, <1>4, <3>4 DEF Records
    <3>6. r.active = s.grant \/ r.active = s.offer
      BY <2>4, <3>5
    <3>7. Newer(r.active, f) /\ r.active \in Grant
      BY <1>3, <1>4, <3>4
    <3>8. ~Newer(f, s.grant)
      BY <1>1, <2>2, <3>6, <3>7, NewerFacts, GrantFields
    <3>9. f = s.offer
      BY <3>2, <3>8
    <3> QED
      BY <1>3, <3>4, <3>6, <3>9
  <2>6. AuthorityOK(w, s)
    BY <2>1 DEF ClientOK, AuthorityOK
  <2>7. RecordsOK(w, d, s)
    <3>1. ASSUME NEW k \in Node, k # n, w.fence[k].active # None, Owns(w, d, w.fence[k].active)
          PROVE  /\ Begun(s)
                 /\ Alive(s) /\ w.fence[k].active.op = s.grant.op
                      /\ (k \in s.fenced \/ s.pc \in {"self", "snapshot", "publish"}) =>
                      w.fence[k].active = s.grant \/
                        (w.fence[k].active = s.offer /\ w.fence[k].previous = s.grant)
      BY <1>5, <2>1, <3>1 DEF ClientOK, RecordsOK
    <3>2. ASSUME Owns(v, d, f)
          PROVE  /\ Begun(s)
                 /\ Alive(s) /\ f.op = s.grant.op
                      /\ (n \in s.fenced \/ s.pc \in {"self", "snapshot", "publish"}) =>
                      f = s.grant \/ (f = s.offer /\ w.fence[n].previous = s.grant)
      <4>1. d = c
        BY <1>1, <3>2, OwnerUnique
      <4>2. ASSUME Alive(s), f.op = s.grant.op, n \in s.fenced \/ s.pc \in {"self", "snapshot", "publish"}
            PROVE  f = s.grant \/ (f = s.offer /\ w.fence[n].previous = s.grant)
        <5>1. CASE s.renewals > 0
          BY <2>3, <2>5, <4>2, <5>1
        <5>2. CASE ~(s.renewals > 0)
          <6>1. s.offer = None
            BY <2>3, <5>2
          <6> QED
            BY <1>1, <4>1, <4>2, <5>2, <6>1 DEF MsgOK
        <5> QED
          BY <5>1, <5>2
      <4> QED
        BY <1>1, <4>1, <4>2
    <3> QED
      BY <1>3, <1>5, <3>1, <3>2 DEF RecordsOK
  <2>8. FanOutOK(w, s)
    <3>1. ASSUME NEW k \in Node
          PROVE  /\ w.fence[k].highWater >= v.fence[k].highWater
                 /\ w.fence[k].highWater \in Nat /\ v.fence[k].highWater \in Nat
      <4>1. w.fence[k].highWater \in Nat /\ v.fence[k].highWater \in Nat
        BY <1>1 DEF ViewOK, ViewType, W!FenceRecord
      <4>2. w.fence[k].highWater = v.fence[k].highWater \/ (k = n /\ w.fence[n].highWater = f.token)
        BY <1>3
      <4> QED
        BY <1>3, <4>1, <4>2
    <3>2. ASSUME NEW k \in s.fenced, NEW g \in Grant, g = s.grant \/ g = s.offer, Alive(s),
                 Held(v, k, g), g = s.offer => (Records(v, k, g.op) => v.fence[k].active = g)
          PROVE  Held(w, k, g)
      <4>1. g.op = s.grant.op /\ g.token \in Nat /\ g.expires \in Nat
        BY <2>2, <3>2, GrantFields
      <4>2. w.fence[k].highWater >= g.token
        BY <1>1, <1>3, <2>1, <3>1, <3>2, <4>1 DEF Held, ViewOK, ViewType, W!FenceRecord
      <4>3. CASE k # n
        BY <1>7, <2>1, <3>2, <4>2, <4>3 DEF Held
      <4>4. CASE k = n
        <5> SUFFICES ASSUME Records(v, n, g.op), g.op # f.op PROVE v.clock[n] >= g.expires
          BY <1>7, <3>2, <4>2, <4>4 DEF Held
        <5>1. ~Renews /\ r.active # None
          BY <1>4 DEF Records
        <5>2. v.clock[n] >= r.active.expires /\ r.active \in Grant
          BY <1>2, <1>3, <5>1
        <5>3. r.active = s.grant \/ r.active = s.offer
          BY <2>4, <3>2, <4>1, <4>4
        <5>4. r.active.expires >= g.expires /\ r.active.expires \in Nat
          BY <2>2, <3>2, <4>1, <4>4, <5>1, <5>2, <5>3, GrantFields
        <5> QED
          BY <1>2, <4>1, <5>2, <5>4
      <4> QED
        BY <4>3, <4>4
    <3>3. FanOutOK(v, s)
      BY <2>1 DEF ClientOK
    <3>4. s.pc = "fence" => \A k \in s.fenced \ s.todo : Held(w, k, s.grant)
      BY <2>2, <2>3, <3>2, <3>3, GrantFields DEF FanOutOK
    <3>5. s.pc \in {"phase", "starting", "mutate"} => \A k \in s.fenced : Held(w, k, s.grant)
      BY <2>2, <2>3, <3>2, <3>3, GrantFields DEF FanOutOK
    <3>6. Alive(s) /\ s.renewals > 0 => \A k \in s.fenced : w.fence[k].highWater >= s.grant.token
      <4> SUFFICES ASSUME Alive(s), s.renewals > 0, NEW k \in s.fenced
                   PROVE  w.fence[k].highWater >= s.grant.token
        OBVIOUS
      <4>1. v.fence[k].highWater >= s.grant.token
        BY <3>3 DEF FanOutOK
      <4>2. s.grant.token \in Nat
        BY <2>2, GrantFields
      <4> QED
        BY <2>1, <3>1, <4>1, <4>2
    <3>7. ASSUME s.renewal = "publish", NEW k \in s.fenced \ s.left
          PROVE  /\ Held(w, k, s.offer)
                 /\ Records(w, k, s.offer.op) => w.fence[k].active = s.offer
      <4>1. /\ Held(v, k, s.offer)
            /\ Records(v, k, s.offer.op) => v.fence[k].active = s.offer
        BY <3>3, <3>7 DEF FanOutOK
      <4>2. Held(w, k, s.offer)
        BY <2>2, <2>3, <3>2, <3>7, <4>1
      <4>3. CASE k # n
        BY <1>7, <2>1, <4>1, <4>2, <4>3
      <4>4. CASE k = n
        <5> SUFFICES ASSUME s.offer.op = f.op PROVE f = s.offer
          BY <1>3, <1>7, <4>2, <4>4
        <5>1. f = s.grant \/ f = s.offer
          BY <2>2, <2>3, <2>5, <3>7, <4>4
        <5>2. Renews
          <6>1. r.highWater >= s.offer.token
            BY <4>1, <4>4 DEF Held
          <6>2. s.offer.token = f.token
            BY <1>1, <2>2, <2>3, <3>7, OwnerUnique
          <6> QED
            BY <1>2, <1>3, <6>1, <6>2
        <5>3. Records(v, n, s.offer.op)
          BY <1>3, <1>4, <5>2 DEF Records
        <5>4. r.active = s.offer
          BY <4>1, <4>4, <5>3
        <5>5. Newer(s.offer, f)
          BY <1>3, <5>2, <5>4
        <5> QED
          BY <2>2, <2>3, <3>7, <5>1, <5>5
      <4> QED
        BY <4>3, <4>4
    <3> QED
      BY <3>4, <3>5, <3>6, <3>7 DEF FanOutOK
  <2>9. OperationOK(w, d, s)
    BY <1>5, <1>6, <1>9, <1>10, <2>1 DEF ClientOK, OperationOK
  <2> QED
    BY <2>6, <2>7, <2>8, <2>9
<1>13. \A j \in Message : j.kind = "release" /\ MsgOK(v, j, cl[j.from]) => Quiet(w, j.body.op)
  BY <1>10 DEF MsgOK
<1> QED
  BY <1>11, <1>12, <1>13, Frame

-----------------------------------------------------------------------------
(* Replies.                                                                *)

\* What a successful reply x to m tells about the nodes and the journal.
ReplyOK(v, m, x) ==
    LET a == v.control.active IN
    /\ m.kind = "acquire" => Owns(v, m.from, x) /\ (a # None => a.fence = x)
    /\ m.kind = "snapshot" => x \in Inventory
    /\ m.kind = "activate" =>
         /\ Held(v, m.node, m.body)
         /\ Records(v, m.node, m.body.op) => v.fence[m.node].active = m.body
    /\ m.kind = "revoke" => QuietAt(v, m.node, m.body.op)
    /\ m.kind = "renew" =>
         /\ Owns(v, m.from, x) /\ Newer(m.body, x)
         /\ a # None /\ a.fence.op = m.body.op => a.fence = x /\ a.previous = m.body

\* A coordinator that ends a call of its own for good.
LEMMA HaltMoves ==
    ASSUME NEW v, ViewOK(v), NEW c \in Client, NEW s \in Coordinator, ClientOK(v, c, s),
           s.pc \in {"acquire", "release"}
    PROVE  Moves(v, c, s, Calling(s, "stopped", None))
<1> DEFINE t == Calling(s, "stopped", None)
<1>1. t \in Coordinator /\ t.pc = "stopped" /\ t.call = None /\ SameRest(s, t)
  BY CallingFields DEF MainState
<1> HIDE DEF t
<1>2. t.rcall = None /\ t.renewal = "off" /\ (t.offer # None => t.renewals > 0)
  BY <1>1 DEF SameRest, ClientOK, Shape, RenewShape
<1> QED
  BY <1>1, <1>2, StopMoves DEF t

LEMMA MainOkMoves ==
    ASSUME NEW v, ViewOK(v), NEW c \in Client, NEW s \in Coordinator, ClientOK(v, c, s),
           NEW m \in Message, m = s.call, NEW x, ReplyOK(v, m, x)
    PROVE  Moves(v, c, s, MainOk(c, s, m, x))
<1>1. m # None /\ m.from = c
  <2>1. m # None
    BY MessageAssumption
  <2> QED
    BY <2>1 DEF ClientOK, CallsOK, Outstanding
<1>2. s.pc \in {"acquire", "self", "snapshot", "publish", "fence", "phase", "revoke", "release"}
  BY <1>1, CoordinatorFields DEF ClientOK, Shape, CallShape, MainState
<1>3. CASE s.pc = "acquire"
  <2>1. Owns(v, c, x) /\ (v.control.active # None => v.control.active.fence = x)
    BY <1>1, <1>3 DEF ReplyOK, ClientOK, Shape, CallShape
  <2> QED
    BY <1>3, <2>1, GrantedMoves DEF MainOk
<1>4. CASE s.pc = "self"
  BY <1>4, SelfMoves DEF MainOk
<1>5. CASE s.pc = "snapshot"
  <2>1. x \in Inventory
    BY <1>5 DEF ReplyOK, ClientOK, Shape, CallShape
  <2> QED
    BY <1>5, <2>1, SnapshotMoves DEF MainOk
<1>6. CASE s.pc = "publish"
  BY <1>6, PublishMoves DEF MainOk
<1>7. CASE s.pc = "fence"
  <2>1. Held(v, m.node, s.grant)
    BY <1>7 DEF ReplyOK, ClientOK, Shape, CallShape
  <2> QED
    BY <1>7, <2>1, FenceMoves DEF MainOk
<1>8. CASE s.pc = "phase"
  BY <1>8, PhaseMoves DEF MainOk
<1>9. CASE s.pc = "revoke"
  <2>1. QuietAt(v, m.node, s.grant.op)
    BY <1>9 DEF ReplyOK, ClientOK, Shape, CallShape
  <2> QED
    BY <1>9, <2>1, RevokeMoves DEF MainOk
<1>10. CASE s.pc = "release"
  BY <1>10, HaltMoves DEF MainOk
<1> QED
  BY <1>2, <1>3, <1>4, <1>5, <1>6, <1>7, <1>8, <1>9, <1>10

LEMMA MainFailMoves ==
    ASSUME NEW v, ViewOK(v), NEW c \in Client, NEW s \in Coordinator, ClientOK(v, c, s),
           NEW m \in Message, m = s.call, NEW retry \in BOOLEAN
    PROVE  Moves(v, c, s, MainFail(c, s, m, retry))
<1>1. m # None
  BY MessageAssumption
<1>2. s.pc \in {"acquire", "self", "snapshot", "publish", "fence", "phase", "revoke", "release"}
  BY <1>1, CoordinatorFields DEF ClientOK, Shape, CallShape, MainState
<1>3. CASE s.pc = "acquire"
  <2>1. ~Begun(s)
    BY <1>3 DEF Begun
  <2>2. Moves(v, c, s, Calling(s, "acquire", Msg(c, "acquire", Controller, None, 2)))
    BY <2>1, AcquireMoves
  <2>3. Moves(v, c, s, Calling(s, "stopped", None))
    BY <1>3, HaltMoves
  <2> QED
    BY <1>3, <2>2, <2>3 DEF MainFail
<1>4. CASE s.pc = "revoke"
  BY <1>4, RevokeMoves DEF MainFail
<1>5. CASE s.pc = "release"
  BY <1>5, HaltMoves DEF MainFail
<1>6. CASE s.pc \in {"self", "snapshot", "publish", "fence", "phase"}
  <2>1. Alive(s)
    BY <1>6 DEF Alive
  <2>2. MainFail(c, s, m, retry) = ToRelease(c, s)
    BY <1>6 DEF MainFail
  <2> QED
    BY <1>6, <2>1, <2>2, ReleaseMoves
<1> QED
  BY <1>2, <1>3, <1>4, <1>5, <1>6

LEMMA RenewOkMoves ==
    ASSUME NEW v, ViewOK(v), NEW c \in Client, NEW s \in Coordinator, ClientOK(v, c, s),
           NEW m \in Message, m = s.rcall, NEW x, ReplyOK(v, m, x)
    PROVE  Moves(v, c, s, RenewOk(c, s, m, x))
<1>1. m # None /\ m.from = c
  <2>1. m # None
    BY MessageAssumption
  <2> QED
    BY <2>1 DEF ClientOK, CallsOK, Outstanding
<1>2. s.renewal \in {"renew", "publish"}
  BY <1>1, CoordinatorFields DEF ClientOK, Shape, RenewShape, RenewState
<1>3. CASE s.renewal = "renew"
  <2>1. m.kind = "renew" /\ m.body = s.grant
    BY <1>3 DEF ClientOK, Shape, RenewShape
  <2>2. /\ Owns(v, c, x) /\ Newer(s.grant, x)
        /\ v.control.active # None /\ v.control.active.fence.op = s.grant.op =>
             v.control.active.fence = x /\ v.control.active.previous = s.grant
    BY <1>1, <2>1 DEF ReplyOK
  <2> QED
    BY <1>3, <2>2, OfferMoves
<1>4. CASE s.renewal = "publish"
  <2>1. m.kind = "activate" /\ m.body = s.offer
    BY <1>4 DEF ClientOK, Shape, RenewShape
  <2>2. /\ Held(v, m.node, s.offer)
        /\ Records(v, m.node, s.offer.op) => v.fence[m.node].active = s.offer
    BY <2>1 DEF ReplyOK
  <2> QED
    BY <1>4, <2>2, PublishedMoves
<1> QED
  BY <1>2, <1>3, <1>4

LEMMA RenewFailMoves ==
    ASSUME NEW v, ViewOK(v), NEW c \in Client, NEW s \in Coordinator, ClientOK(v, c, s),
           NEW m \in Message, m = s.rcall, NEW fatal \in BOOLEAN
    PROVE  Moves(v, c, s, RenewFail(c, s, fatal))
<1>1. m # None
  BY MessageAssumption
<1>2. s.renewal \in {"renew", "publish"} /\ s.pc \in {"starting", "mutate"}
  BY <1>1, CoordinatorFields DEF ClientOK, Shape, RenewShape, RenewState
<1>3. Moves(v, c, s, ToRelease(c, s))
  BY <1>2, ReleaseMoves DEF Alive
<1>4. s.renewal = "renew" => Moves(v, c, s, RenewalSettled(s))
  BY SettledMoves
<1> QED
  BY <1>2, <1>3, <1>4 DEF RenewFail, Lost

ClientsTyped == client \in [Client -> Coordinator]

\* After a step of the coordinators under the view w.
SystemAfter(w) == client' \in [Client -> Coordinator] /\ SystemOK(w, client', net')

\* One coordinator moves and sends what it now has outstanding.
LEMMA BecomesOK ==
    ASSUME NEW w, ClientsTyped, SystemOK(w, client, net), NEW c \in Client, NEW t, NEW gone,
           Moves(w, c, client[c], t), Becomes(c, t, gone)
    PROVE  SystemAfter(w)
<1>1. t \in Coordinator /\ ClientOK(w, c, t)
  BY DEF Moves
<1>2. client' = [client EXCEPT ![c] = t] /\ net' \subseteq net \cup Outstanding(t)
  BY DEF Becomes, Sent
<1>3. /\ client' \in [Client -> Coordinator] /\ client'[c] = t
      /\ \A d \in Client : d # c => client'[d] = client[d]
  BY <1>1, <1>2 DEF ClientsTyped
<1>4. ASSUME NEW m \in net' PROVE m \in Message /\ MsgOK(w, m, client'[m.from])
  <2>1. CASE m \in Outstanding(t)
    <3>1. m \in Message
      BY <1>1, <2>1, CoordinatorFields DEF Outstanding
    <3> QED
      BY <1>1, <1>3, <2>1, <3>1 DEF ClientOK, CallsOK
  <2>2. CASE m \in net
    <3>1. m \in Message /\ MsgOK(w, m, client[m.from]) /\ m.from \in Client
      BY <2>2 DEF SystemOK, Message
    <3>2. CASE m.from = c
      BY <1>3, <3>1, <3>2 DEF Moves
    <3>3. CASE m.from # c
      BY <1>3, <3>1, <3>3
    <3> QED
      BY <3>1, <3>2, <3>3
  <2> QED
    BY <1>2, <1>4, <2>1, <2>2
<1>5. ASSUME NEW d \in Client PROVE client'[d] \in Coordinator /\ ClientOK(w, d, client'[d])
  BY <1>1, <1>3 DEF SystemOK
<1> QED
  BY <1>3, <1>4, <1>5 DEF SystemOK, SystemAfter

LEMMA Unheard ==
    ASSUME NEW w, ClientsTyped, SystemOK(w, client, net), UNCHANGED client, net' \subseteq net
    PROVE  SystemAfter(w)
BY DEF ClientsTyped, SystemAfter, SystemOK

LEMMA RepliedOK ==
    ASSUME NEW w, ClientsTyped, SystemOK(w, client, net), NEW m \in net, NEW ok \in BOOLEAN, NEW x,
           Replied(m, ok, x), ok => ReplyOK(w, m, x)
    PROVE  SystemAfter(w) /\ faults' = faults
<1> DEFINE c == m.from
           s == client[c]
<1>1. m \in Message /\ c \in Client /\ ViewOK(w) /\ s \in Coordinator /\ ClientOK(w, c, s)
  BY DEF SystemOK, Message
<1>2. faults' = faults
  BY DEF Replied
<1>3. CASE net' = net \ {m} /\ UNCHANGED client
  BY <1>2, <1>3, Unheard
<1>4. CASE s.call = m /\ Becomes(c, IF ok THEN MainOk(c, s, m, x) ELSE MainFail(c, s, m, FALSE), {m})
  <2>1. ok => Moves(w, c, s, MainOk(c, s, m, x))
    BY <1>1, <1>4, MainOkMoves
  <2>2. Moves(w, c, s, MainFail(c, s, m, FALSE))
    BY <1>1, <1>4, MainFailMoves
  <2> DEFINE t == IF ok THEN MainOk(c, s, m, x) ELSE MainFail(c, s, m, FALSE)
  <2>3. Moves(w, c, s, t) /\ Becomes(c, t, {m})
    BY <1>4, <2>1, <2>2
  <2> HIDE DEF t
  <2> QED
    BY <1>1, <1>2, <2>3, BecomesOK
<1>5. CASE s.rcall = m /\ ok /\ Becomes(c, RenewOk(c, s, m, x), {m})
  <2>1. Moves(w, c, s, RenewOk(c, s, m, x))
    BY <1>1, <1>5, RenewOkMoves
  <2> QED
    BY <1>1, <1>2, <1>5, <2>1, BecomesOK
<1>6. CASE s.rcall = m /\ \E fatal \in BOOLEAN : Becomes(c, RenewFail(c, s, fatal), {m})
  <2>1. PICK fatal \in BOOLEAN : Becomes(c, RenewFail(c, s, fatal), {m})
    BY <1>6
  <2>2. Moves(w, c, s, RenewFail(c, s, fatal))
    BY <1>1, <1>6, RenewFailMoves
  <2> QED
    BY <1>1, <1>2, <2>1, <2>2, BecomesOK
<1> QED
  BY <1>3, <1>4, <1>5, <1>6 DEF Replied

LEMMA CallFailsOK ==
    ASSUME NEW w, ClientsTyped, SystemOK(w, client, net), NEW m \in net, NEW gone, CallFails(m, gone)
    PROVE  SystemAfter(w)
<1> DEFINE c == m.from
           s == client[c]
<1>1. m \in Message /\ c \in Client /\ ViewOK(w) /\ s \in Coordinator /\ ClientOK(w, c, s)
  BY DEF SystemOK, Message
<1>2. CASE s.call = m /\ \E retry \in BOOLEAN : Becomes(c, MainFail(c, s, m, retry), gone)
  <2>1. PICK retry \in BOOLEAN : Becomes(c, MainFail(c, s, m, retry), gone)
    BY <1>2
  <2>2. Moves(w, c, s, MainFail(c, s, m, retry))
    BY <1>1, <1>2, MainFailMoves
  <2> QED
    BY <1>1, <2>1, <2>2, BecomesOK
<1>3. CASE s.rcall = m /\ \E fatal \in BOOLEAN : Becomes(c, RenewFail(c, s, fatal), gone)
  <2>1. PICK fatal \in BOOLEAN : Becomes(c, RenewFail(c, s, fatal), gone)
    BY <1>3
  <2>2. Moves(w, c, s, RenewFail(c, s, fatal))
    BY <1>1, <1>3, RenewFailMoves
  <2> QED
    BY <1>1, <2>1, <2>2, BecomesOK
<1> QED
  BY <1>2, <1>3 DEF CallFails

LEMMA UnansweredOK ==
    ASSUME NEW w, ClientsTyped, SystemOK(w, client, net), NEW m \in net, Unanswered(m)
    PROVE  SystemAfter(w) /\ Fault
<1>1. CASE CallFails(m, {m})
  BY <1>1, CallFailsOK DEF Unanswered
<1>2. CASE net' = net \ {m} /\ UNCHANGED client
  BY <1>2, Unheard DEF Unanswered
<1> QED
  BY <1>1, <1>2 DEF Unanswered

-----------------------------------------------------------------------------
(* The components' own invariants.                                         *)

LEMMA WorkerStep ==
    ASSUME WP!IInv, WP!Next \/ UNCHANGED workerVars
    PROVE  WP!IInv'
BY WP!NextIInv, HoldAssumption, ToleranceAssumption, GrantAssumption, InventoryAssumption, GenerationAssumption,
   MaxTimeAssumption
   DEF W!GrantRecord, WP!GrantRecord, W!Operation, WP!Operation, W!InventoryRecord,
       WP!InventoryRecord, W!Lifecycle, WP!Lifecycle, W!Activation, WP!Activation,
       W!BarrierHold, WP!BarrierHold, workerVars, WP!workerVars

\* What the composed system does on a node is a step of that node's module.
LEMMA NodeActions ==
    ASSUME NEW n \in Node
    PROVE  /\ \A f \in Grant : /\ W!PassDenyLatch(n, f) => WP!Next
                               /\ W!AdmitMutation(n, f, "other") => WP!Next
                               /\ W!FinishMutation(n, f) => WP!Next
                               /\ W!ActivateFence(n, f) => WP!Next
                               /\ W!RevokeFence(n, f) => WP!Next
           /\ \A u \in Inventory : W!AcceptInventory(n, u) \/ W!InstallInventory(n, u) => WP!Next
           /\ W!RestartTakod(n) \/ W!Tick(n) => WP!Next
<1> USE DEF W!durable, WP!durable, W!barrierVars, WP!barrierVars, W!admission, WP!admission
<1>1. ASSUME NEW f \in Grant, W!PassDenyLatch(n, f) PROVE WP!Next
  <2>1. WP!PassDenyLatch(n, f)
    BY <1>1 DEF W!PassDenyLatch, WP!PassDenyLatch
  <2> QED
    BY <2>1 DEF WP!Next, WP!FenceStep
<1>2. ASSUME NEW f \in Grant, W!AdmitMutation(n, f, "other") PROVE WP!Next
  <2>1. WP!AdmitMutation(n, f, "other")
    BY <1>2 DEF W!AdmitMutation, WP!AdmitMutation, W!LifecycleAdmits, WP!LifecycleAdmits,
       W!ValidMutationFence, WP!ValidMutationFence, W!Targets, WP!Targets, W!ExactFence,
       WP!ExactFence, W!Valid, WP!Valid
  <2> QED
    BY <2>1 DEF WP!Next, WP!FenceStep
<1>3. ASSUME NEW f \in Grant, W!FinishMutation(n, f) PROVE WP!Next
  <2>1. WP!FinishMutation(n, f)
    BY <1>3 DEF W!FinishMutation, WP!FinishMutation
  <2> QED
    BY <2>1 DEF WP!Next, WP!FenceStep
<1>4. ASSUME NEW f \in Grant, W!ActivateFence(n, f) PROVE WP!Next
  <2>1. WP!ActivateFence(n, f)
    BY <1>4 DEF W!ActivateFence, WP!ActivateFence, W!AdmissionFree, WP!AdmissionFree,
       W!ActivationAccepted, WP!ActivationAccepted, W!Targets, WP!Targets, W!Valid, WP!Valid,
       W!TokenAccepted, WP!TokenAccepted, W!ValidFenceRenewal, WP!ValidFenceRenewal, W!Expired,
       WP!Expired, W!ActivatedFence, WP!ActivatedFence, W!Hold, WP!Hold
  <2> QED
    BY <2>1 DEF WP!Next, WP!FenceStep
<1>5. ASSUME NEW f \in Grant, W!RevokeFence(n, f) PROVE WP!Next
  <2>1. WP!RevokeFence(n, f)
    BY <1>5 DEF W!RevokeFence, WP!RevokeFence, W!AdmissionFree, WP!AdmissionFree,
       W!RevocationAccepted, WP!RevocationAccepted, W!Targets, WP!Targets, W!ExactFence,
       WP!ExactFence, W!ReleaseBarrier, WP!ReleaseBarrier
  <2> QED
    BY <2>1 DEF WP!Next, WP!FenceStep
<1>6. ASSUME NEW u \in Inventory, W!AcceptInventory(n, u) \/ W!InstallInventory(n, u) PROVE WP!Next
  <2>1. WP!AcceptInventory(n, u) \/ WP!InstallInventory(n, u)
    BY <1>6 DEF W!AcceptInventory, WP!AcceptInventory, W!AdmissionFree, WP!AdmissionFree,
       W!InventoryAccepted, WP!InventoryAccepted, W!InstallInventory, WP!InstallInventory
  <2> QED
    BY <2>1 DEF WP!Next, WP!NodeStep
<1>7. ASSUME W!RestartTakod(n) \/ W!Tick(n) PROVE WP!Next
  <2>1. WP!RestartTakod(n) \/ WP!Tick(n)
    BY <1>7 DEF W!RestartTakod, WP!RestartTakod, W!Tick, WP!Tick
  <2> QED
    BY <2>1 DEF WP!Next, WP!NodeStep
<1> QED
  BY <1>1, <1>2, <1>3, <1>4, <1>5, <1>6, <1>7

\* The assumptions of the controller's module hold of these constants.
LEMMA ControllerPremises ==
    /\ FutureTolerance \in Nat
    /\ Grant \subseteq CP!GrantRecord /\ None \notin Grant
    /\ Inventory \subseteq CP!InventoryRecord
    /\ \A u, v \in Inventory : u.gen = v.gen => u = v
    /\ Request \subseteq CP!RequestRecord /\ None \notin Request
    /\ TTL \in Nat \ {0}
    /\ MaxToken \in Nat /\ MaxOp \in Nat /\ MaxIssue \in Nat
    /\ None \notin CP!ActiveRecord
BY ToleranceAssumption, GrantAssumption, InventoryAssumption, GenerationAssumption,
   RequestAssumption, TTLAssumption, BoundAssumption, ActiveAssumption
   DEF W!GrantRecord, CP!GrantRecord, W!Operation, CP!Operation, W!InventoryRecord,
       CP!InventoryRecord, W!Lifecycle, CP!Lifecycle, C!RequestRecord, CP!RequestRecord,
       C!ActiveRecord, CP!ActiveRecord, C!GrantRecord, C!Operation, C!Phase, CP!Phase

LEMMA AuthorityUnchanged ==
    ASSUME CP!IInv, UNCHANGED authority, inventory'[Controller] \in Inventory,
           clock'[Controller] \in {clock[Controller], clock[Controller] + 1}
    PROVE  CP!IInv'
BY CP!TickPreserves, ControllerPremises DEF authority, CP!authority

LEMMA ViewIs ==
    /\ View.fence = fenceState /\ View.clock = clock /\ View.control = control
    /\ View.issued = issued /\ View.history = history
    /\ \A n \in Node : View.work[n] = gated[n] \cup running[n]
BY DEF View

LEMMA ViewIsNext ==
    /\ View'.fence = fenceState' /\ View'.clock = clock' /\ View'.control = control'
    /\ View'.issued = issued' /\ View'.history = history'
    /\ \A n \in Node : View'.work[n] = gated'[n] \cup running'[n]
BY DEF View

LEMMA ViewTyped ==
    ASSUME WP!IInv'
    PROVE  ViewType(View')
<1>1. WP!TypeOK'
  BY DEF WP!IInv
<1>2. /\ fenceState' \in [Node -> W!FenceRecord] /\ clock' \in [Node -> Nat]
      /\ gated' \in [Node -> SUBSET Grant] /\ running' \in [Node -> SUBSET Grant]
  BY <1>1 DEF WP!TypeOK, WP!FenceRecord, W!FenceRecord
<1> QED
  BY <1>2 DEF View, ViewType

\* A step seen from the components and the coordinators.
StepOK ==
    WP!IInv' /\ CP!IInv' /\ Idling' /\ faults' \in 0..MaxFaults /\ SystemAfter(View')

LEMMA StepInv == StepOK => Inv'
BY DEF StepOK, Inv, SystemAfter

LEMMA FaultCounted ==
    ASSUME faults \in 0..MaxFaults, Fault \/ faults' = faults
    PROVE  faults' \in 0..MaxFaults
BY FaultAssumption DEF Fault

\* The nodes and the journal stay as they are.
LEMMA QuietStep ==
    ASSUME Inv, UNCHANGED <<workerVars, authority>>
    PROVE  WP!IInv' /\ CP!IInv' /\ Idling' /\ View' = View
<1>1. WP!IInv'
  BY WorkerStep DEF Inv
<1>2. inventory[Controller] \in Inventory /\ UNCHANGED <<clock, inventory>>
  BY NodeAssumption DEF Inv, WP!IInv, WP!TypeOK, workerVars
<1>3. CP!IInv'
  BY <1>2, AuthorityUnchanged DEF Inv
<1>4. Idling'
  BY DEF Inv, Idling, workerVars
<1>5. View' = View
  BY DEF View, workerVars, authority
<1> QED
  BY <1>1, <1>3, <1>4, <1>5

\* A step of one coordinator alone.
LEMMA CoordinatorStep ==
    ASSUME Inv, UNCHANGED <<workerVars, authority>>, Fault \/ faults' = faults,
           SystemAfter(View)
    PROVE  StepOK
BY QuietStep, FaultCounted DEF Inv, StepOK

LEMMA StartStep ==
    ASSUME Inv, NEW c \in Client, Start(c)
    PROVE  StepOK
<1>1. ViewOK(View) /\ client[c] \in Coordinator /\ ClientOK(View, c, client[c]) /\ ~Begun(client[c])
  BY DEF Inv, SystemOK, Start, Begun
<1>2. SystemAfter(View)
  BY <1>1, AcquireMoves, BecomesOK DEF Inv, ClientsTyped, Start
<1> QED
  BY <1>2, CoordinatorStep DEF Start

LEMMA ReleaseStep ==
    ASSUME Inv, NEW c \in Client, Release(c)
    PROVE  StepOK
<1>1. ViewOK(View) /\ client[c] \in Coordinator /\ ClientOK(View, c, client[c])
      /\ Alive(client[c]) /\ client[c].pc \notin {"revoke", "release"}
  BY DEF Inv, SystemOK, Release, Alive
<1>2. SystemAfter(View)
  BY <1>1, ReleaseMoves, BecomesOK DEF Inv, ClientsTyped, Release
<1> QED
  BY <1>2, CoordinatorStep DEF Release

LEMMA RenewStep ==
    ASSUME Inv, NEW c \in Client, Renew(c)
    PROVE  StepOK
<1>1. ViewOK(View) /\ client[c] \in Coordinator /\ ClientOK(View, c, client[c])
      /\ client[c].pc = "mutate" /\ client[c].renewal = "idle"
  BY DEF Inv, SystemOK, Renew
<1>2. SystemAfter(View)
  BY <1>1, RenewMoves, BecomesOK DEF Inv, ClientsTyped, Renew
<1> QED
  BY <1>2, CoordinatorStep DEF Renew

LEMMA CrashStep ==
    ASSUME Inv, NEW c \in Client, CrashClient(c)
    PROVE  StepOK
<1> DEFINE t == [Idle EXCEPT !.pc = "stopped"]
<1>1. ViewOK(View) /\ client[c] \in Coordinator /\ ClientOK(View, c, client[c])
  BY DEF Inv, SystemOK
<1>2. /\ t \in Coordinator /\ t.pc = "stopped" /\ t.call = None /\ t.rcall = None
      /\ t.renewal = "off" /\ t.offer = None
  BY DEF Idle, Coordinator, MainState, RenewState
<1> HIDE DEF t
<1>3. Moves(View, c, client[c], t)
  BY <1>1, <1>2, StopMoves
<1>4. Becomes(c, t, {})
  BY <1>2 DEF CrashClient, Becomes, Sent, Outstanding, t
<1>5. SystemAfter(View)
  BY <1>3, <1>4, BecomesOK DEF Inv, ClientsTyped
<1> QED
  BY <1>5, CoordinatorStep DEF CrashClient

LEMMA TimeoutStep ==
    ASSUME Inv, NEW m \in net, Timeout(m)
    PROVE  StepOK
<1>1. SystemAfter(View)
  BY CallFailsOK DEF Timeout, Inv, ClientsTyped
<1> QED
  BY <1>1, CoordinatorStep DEF Timeout

-----------------------------------------------------------------------------
(* Steps of the nodes.                                                     *)

\* LocalChange for a step of the system.
LEMMA LocalView ==
    ASSUME Inv, WP!IInv', fenceState' = fenceState, issued' = issued,
           \A n \in Node : /\ gated'[n] \cup running'[n] \subseteq gated[n] \cup running[n]
                           /\ clock'[n] >= clock[n],
           control'.nextToken = control.nextToken,
           control'.active # None => /\ control.active # None
                                     /\ control'.active.fence = control.active.fence
                                     /\ control'.active.previous = control.active.previous,
           \A h \in history' : h \in history \/ h.phase # "completed"
    PROVE  SystemOK(View', client, net)
<1>1. SystemOK(View, client, net)
  BY DEF Inv
<1>2. ViewType(View')
  BY ViewTyped
<1>3. /\ View'.fence = View.fence /\ View'.issued = View.issued
      /\ \A n \in Node : View'.work[n] \subseteq View.work[n] /\ View'.clock[n] >= View.clock[n]
      /\ View'.control.nextToken = View.control.nextToken
      /\ View'.control.active # None =>
           /\ View.control.active # None
           /\ View'.control.active.fence = View.control.active.fence
           /\ View'.control.active.previous = View.control.active.previous
      /\ \A h \in View'.history : h \in View.history \/ h.phase # "completed"
  BY ViewIs, ViewIsNext
<1> QED
  BY <1>1, <1>2, <1>3, LocalChange

\* What the types say of the nodes.
LEMMA WorkerTypes ==
    ASSUME Inv
    PROVE  /\ clock \in [Node -> Nat] /\ inventory \in [Node -> Inventory]
           /\ denied \in [Node -> BOOLEAN] /\ fenceState \in [Node -> W!FenceRecord]
           /\ barrier \in [Node -> W!BarrierHold \cup {None}]
           /\ timers \in [Node -> SUBSET W!BarrierHold]
           /\ maintenance \in [Node -> SUBSET MaintenanceTask]
           /\ activating \in [Node -> W!Activation \cup {None}]
           /\ gated \in [Node -> SUBSET Grant] /\ running \in [Node -> SUBSET Grant]
           /\ \A n \in Node : activating[n] = None /\ maintenance[n] = {}
BY DEF Inv, Idling, WP!IInv, WP!TypeOK, WP!FenceRecord, W!FenceRecord, WP!BarrierHold, W!BarrierHold,
   WP!Activation, W!Activation

\* A node-local step: the coordinators hear nothing of it.
LEMMA LocalStepOK ==
    ASSUME Inv, WP!Next, UNCHANGED <<authority, client, net, fenceState>>,
           Fault \/ faults' = faults,
           \A n \in Node : /\ gated'[n] \cup running'[n] \subseteq gated[n] \cup running[n]
                           /\ activating'[n] = None /\ maintenance'[n] = {},
           inventory'[Controller] \in Inventory,
           \A n \in Node : clock'[n] \in {clock[n], clock[n] + 1}
    PROVE  StepOK
<1>1. WP!IInv'
  BY WorkerStep DEF Inv
<1>2. CP!IInv'
  BY AuthorityUnchanged, NodeAssumption DEF Inv
<1>3. \A n \in Node : clock'[n] >= clock[n]
  BY WorkerTypes
<1>4. UNCHANGED <<control, issued, history>>
  BY DEF authority
<1>5. SystemOK(View', client, net)
  BY <1>1, <1>3, <1>4, LocalView
<1>6. SystemAfter(View')
  BY <1>5, Unheard DEF Inv, ClientsTyped
<1> QED
  BY <1>1, <1>2, <1>6, FaultCounted DEF StepOK, Inv, Idling

LEMMA LocalNext ==
    ASSUME Inv, NEW n \in Node, LocalStep(n)
    PROVE  StepOK
<1>0. inventory[Controller] \in Inventory
  BY WorkerTypes, NodeAssumption
<1>1. ASSUME NEW f \in gated[n], W!AdmitMutation(n, f, "other") PROVE StepOK
  <2>1. f \in Grant
    BY WorkerTypes
  <2>3. WP!Next
    BY <1>1, <2>1, NodeActions
  <2>4. /\ gated' = [gated EXCEPT ![n] = @ \ {f}]
        /\ running' = [running EXCEPT ![n] = @ \cup {f}] \/ running' = running
        /\ UNCHANGED <<clock, inventory, fenceState, activating, maintenance>>
    BY <1>1 DEF W!AdmitMutation, W!durable, W!barrierVars
  <2>5. \A k \in Node : gated'[k] \cup running'[k] \subseteq gated[k] \cup running[k]
    BY <1>1, <2>4, WorkerTypes
  <2> QED
    BY <1>0, <2>3, <2>4, <2>5, WorkerTypes, LocalStepOK DEF LocalStep
<1>2. ASSUME NEW f \in running[n], W!FinishMutation(n, f) PROVE StepOK
  <2>1. f \in Grant
    BY WorkerTypes
  <2>3. WP!Next
    BY <1>2, <2>1, NodeActions
  <2>4. /\ running' = [running EXCEPT ![n] = @ \ {f}]
        /\ UNCHANGED <<clock, inventory, fenceState, activating, maintenance, gated>>
    BY <1>2 DEF W!FinishMutation, W!durable, W!barrierVars
  <2>5. \A k \in Node : gated'[k] \cup running'[k] \subseteq gated[k] \cup running[k]
    BY <2>4, WorkerTypes
  <2> QED
    BY <1>0, <2>3, <2>4, <2>5, WorkerTypes, LocalStepOK DEF LocalStep
<1>3. ASSUME W!Tick(n) PROVE StepOK
  <2>2. WP!Next
    BY <1>3, NodeActions
  <2>3. /\ clock' = [clock EXCEPT ![n] = @ + 1]
        /\ UNCHANGED <<inventory, fenceState, activating, maintenance, gated, running>>
    BY <1>3 DEF W!Tick, W!durable, W!barrierVars, W!admission
  <2>4. \A k \in Node : clock'[k] \in {clock[k], clock[k] + 1}
    BY <2>3, WorkerTypes
  <2> QED
    BY <1>0, <2>2, <2>3, <2>4, WorkerTypes, LocalStepOK DEF LocalStep
<1> QED
  BY <1>1, <1>2, <1>3 DEF LocalStep

\* A restart of takod on node n, on its own or in the middle of a handler.
LEMMA RestartFacts ==
    ASSUME Inv, NEW n \in Node, W!RestartTakod(n)
    PROVE  /\ WP!Next
           /\ UNCHANGED <<clock, inventory, fenceState>>
           /\ \A k \in Node : /\ gated'[k] \cup running'[k] \subseteq gated[k] \cup running[k]
                              /\ activating'[k] = None /\ maintenance'[k] = {}
<1>2. WP!Next
  BY NodeActions
<1>3. \A k \in Node : /\ gated'[k] \cup running'[k] \subseteq gated[k] \cup running[k]
                      /\ activating'[k] = None /\ maintenance'[k] = {}
  BY WorkerTypes DEF W!RestartTakod
<1> QED
  BY <1>2, <1>3 DEF W!RestartTakod, W!durable

LEMMA RestartNext ==
    ASSUME Inv, NEW n \in Node, Restart(n)
    PROVE  StepOK
<1>1. W!RestartTakod(n) /\ Fault /\ UNCHANGED <<authority, client, net>>
  BY DEF Restart
<1>2. inventory'[Controller] \in Inventory
  BY <1>1, RestartFacts, WorkerTypes, NodeAssumption
<1> QED
  BY <1>1, <1>2, RestartFacts, LocalStepOK

LEMMA InstallNext ==
    ASSUME Inv, NEW n \in Node, NEW u \in Inventory, W!InstallInventory(n, u),
           UNCHANGED <<authority, client, net, faults>>
    PROVE  StepOK
<1>2. WP!Next
  BY NodeActions
<1>3. /\ inventory' = [inventory EXCEPT ![n] = u]
      /\ UNCHANGED <<clock, fenceState, activating, maintenance, gated, running>>
  BY DEF W!InstallInventory, W!barrierVars, W!admission
<1>4. inventory'[Controller] \in Inventory
  BY <1>3, WorkerTypes, NodeAssumption
<1> QED
  BY <1>2, <1>3, <1>4, WorkerTypes, LocalStepOK

LEMMA SendNext ==
    ASSUME Inv, NEW c \in Client, NEW n \in Node, SendMutation(c, n)
    PROVE  StepOK
<1> DEFINE f == client[c].grant
<1>1. SystemOK(View, client, net) /\ client[c].pc = "mutate" /\ n \in client[c].fenced
  BY DEF Inv, SendMutation
<1>2. f \in Grant
  <2>1. Alive(client[c]) /\ ClientOK(View, c, client[c])
    BY <1>1 DEF SystemOK, Alive
  <2> QED
    BY <2>1 DEF ClientOK, GrantOK
<1>3. W!PassDenyLatch(n, f) /\ UNCHANGED <<authority, client, net, faults>>
  BY DEF SendMutation
<1> HIDE DEF f
<1>5. WP!Next
  BY <1>2, <1>3, NodeActions
<1>6. WP!IInv'
  BY <1>5, WorkerStep DEF Inv
<1>7. /\ gated' = [gated EXCEPT ![n] = @ \cup {f}]
      /\ UNCHANGED <<clock, inventory, fenceState, activating, maintenance, running>>
  BY <1>3 DEF W!PassDenyLatch, W!durable, W!barrierVars
<1>8. CP!IInv'
  BY <1>3, <1>7, WorkerTypes, NodeAssumption, AuthorityUnchanged DEF Inv
<1>9. \A k \in Node : gated'[k] \cup running'[k] =
          IF k = n THEN (gated[n] \cup running[n]) \cup {f} ELSE gated[k] \cup running[k]
  BY <1>7, WorkerTypes
<1>10. SystemOK(View', client, net)
  <2>1. ViewType(View')
    BY <1>6, ViewTyped
  <2>2. /\ View'.fence = View.fence /\ View'.issued = View.issued /\ View'.clock = View.clock
        /\ View'.control = View.control /\ View'.history = View.history
        /\ \A k \in Node : View'.work[k] = IF k = n THEN View.work[n] \cup {f} ELSE View.work[k]
    BY <1>3, <1>7, <1>9, ViewIs, ViewIsNext DEF authority
  <2> QED
    BY <1>1, <2>1, <2>2, WorkAdded DEF f
<1>11. SystemAfter(View')
  BY <1>3, <1>10, Unheard DEF Inv, ClientsTyped
<1>12. Idling'
  BY <1>7 DEF Inv, Idling
<1>13. faults' \in 0..MaxFaults
  BY <1>3 DEF Inv
<1> QED
  BY <1>6, <1>8, <1>11, <1>12, <1>13 DEF StepOK

-----------------------------------------------------------------------------
(* The handlers of the nodes.                                              *)

LEMMA Handled ==
    ASSUME Inv, WP!IInv', CP!IInv', Idling', SystemOK(View', client, net), NEW m \in net,
           NEW ok \in BOOLEAN, NEW x, Replied(m, ok, x), ok => ReplyOK(View', m, x)
    PROVE  StepOK
<1>1. SystemAfter(View') /\ faults' = faults
  BY RepliedOK DEF Inv, ClientsTyped
<1> QED
  BY <1>1 DEF StepOK, Inv

LEMMA Refused ==
    ASSUME Inv, UNCHANGED <<workerVars, authority>>, NEW m \in net, Replied(m, FALSE, None)
    PROVE  StepOK
<1>1. SystemOK(View', client, net)
  BY QuietStep DEF Inv
<1> QED
  BY <1>1, QuietStep, Handled

LEMMA NetFacts ==
    ASSUME Inv, NEW m \in net
    PROVE  /\ m \in Message /\ m.from \in Client /\ m.node \in Node
           /\ MsgOK(View, m, client[m.from])
           /\ m.kind \in {"renew", "release", "phase", "activate", "revoke"} =>
                m.body \in Grant /\ Owns(View, m.from, m.body)
           /\ m.kind = "inventory" => m.body \in Inventory
BY DEF Inv, SystemOK, Message, MsgOK

LEMMA SnapshotNext ==
    ASSUME Inv, NEW m \in net, HandleSnapshot(m)
    PROVE  StepOK
<1>1. UNCHANGED <<workerVars, authority>> /\ m.kind = "snapshot"
      /\ Replied(m, TRUE, inventory[Controller])
  BY DEF HandleSnapshot, Delivered
<1>2. SystemOK(View', client, net)
  BY <1>1, QuietStep DEF Inv
<1>3. ReplyOK(View', m, inventory[Controller])
  BY <1>1, WorkerTypes, NodeAssumption DEF ReplyOK
<1> QED
  BY <1>1, <1>2, <1>3, QuietStep, Handled

LEMMA InventoryNext ==
    ASSUME Inv, NEW m \in net, HandleInventory(m)
    PROVE  StepOK
<1> DEFINE n == m.node
           u == m.body
<1>1. m.kind = "inventory" /\ u \in Inventory /\ n \in Node /\ UNCHANGED authority
  BY NetFacts DEF HandleInventory, Delivered
<1>2. CASE W!AcceptInventory(n, u) /\ Replied(m, TRUE, None)
  <2>2. WP!Next
    BY <1>1, <1>2, NodeActions
  <2>3. WP!IInv'
    BY <2>2, WorkerStep DEF Inv
  <2>4. /\ inventory' = [inventory EXCEPT ![n] = u]
        /\ UNCHANGED <<clock, fenceState, activating, maintenance, gated, running>>
    BY <1>2 DEF W!AcceptInventory, W!barrierVars, W!admission
  <2>5. inventory'[Controller] \in Inventory
    BY <1>1, <2>4, WorkerTypes, NodeAssumption
  <2>6. CP!IInv'
    BY <1>1, <2>4, <2>5, AuthorityUnchanged DEF Inv
  <2>7. \A k \in Node : clock[k] >= clock[k]
    BY WorkerTypes
  <2>8. SystemOK(View', client, net)
    BY <1>1, <2>3, <2>4, <2>7, LocalView DEF authority
  <2>9. Idling'
    BY <2>4 DEF Inv, Idling
  <2>10. ReplyOK(View', m, None)
    BY <1>1 DEF ReplyOK
  <2> QED
    BY <1>2, <2>3, <2>6, <2>8, <2>9, <2>10, Handled
<1>3. CASE Replied(m, FALSE, None) /\ UNCHANGED workerVars
  BY <1>1, <1>3, Refused
<1> QED
  BY <1>2, <1>3 DEF HandleInventory

LEMMA ActivateNext ==
    ASSUME Inv, NEW m \in net, HandleActivate(m)
    PROVE  StepOK
<1> DEFINE n == m.node
           f == m.body
           r == fenceState[n]
<1>1. /\ m \in Message /\ m.kind = "activate" /\ f \in Grant /\ n \in Node /\ UNCHANGED authority
      /\ MsgOK(View, m, client[m.from]) /\ SystemOK(View, client, net)
  BY NetFacts DEF HandleActivate, Delivered, Inv
<1>2. CASE W!ActivateFence(n, f) /\ Replied(m, TRUE, None)
  <2>2. WP!Next
    BY <1>1, <1>2, NodeActions
  <2>3. WP!IInv'
    BY <2>2, WorkerStep DEF Inv
  <2>4. /\ fenceState' = [fenceState EXCEPT ![n] = W!ActivatedFence(r, f)]
        /\ UNCHANGED <<clock, inventory, activating, maintenance, gated, running>>
        /\ n \in f.targets /\ W!TokenAccepted(r, f)
        /\ f.token > r.highWater /\ r.active # None => clock[n] >= r.active.expires
    BY <1>2 DEF W!ActivateFence, W!admission, W!ActivationAccepted, W!Targets, W!Expired
  <2>5. CP!IInv'
    BY <1>1, <2>4, WorkerTypes, NodeAssumption, AuthorityUnchanged DEF Inv
  <2>6. Idling'
    BY <2>4 DEF Inv, Idling
  <2>7. r \in W!FenceRecord /\ r.highWater \in Nat /\ f.token \in Nat /\ f # None
        /\ (r.active # None => r.active \in Grant) /\ RecordOK(View, n)
        /\ fenceState'[n] = W!ActivatedFence(r, f)
        /\ \A k \in Node : k # n => fenceState'[k] = fenceState[k]
    BY <1>1, <2>4, WorkerTypes, GrantFields DEF W!FenceRecord, SystemOK, ViewOK
  <2>8. SystemOK(View', client, net) /\ fenceState'[n].active = f /\ fenceState'[n].highWater = f.token
    <3>1. CASE f = r.active
      <4>1. W!ActivatedFence(r, f) = r
        BY <3>1 DEF W!ActivatedFence
      <4>2. fenceState' = fenceState
        BY <2>4, <4>1, WorkerTypes
      <4>3. \A k \in Node : clock[k] >= clock[k]
        BY WorkerTypes
      <4>4. SystemOK(View', client, net)
        BY <1>1, <2>3, <2>4, <4>2, <4>3, LocalView DEF authority
      <4>5. r.active.token = r.highWater
        BY <2>7, <3>1, ViewIs DEF RecordOK
      <4> QED
        BY <3>1, <4>2, <4>4, <4>5
    <3>2. CASE f # r.active
      <4> DEFINE p == IF f.token = r.highWater THEN r.active ELSE None
      <4>1. fenceState'[n] = [highWater |-> f.token, active |-> f, previous |-> p]
        BY <2>7, <3>2 DEF W!ActivatedFence
      <4>2. /\ f.token >= r.highWater
            /\ f.token = r.highWater => r.active # None /\ Newer(r.active, f)
        BY <1>1, <2>4, <2>7, <3>2, NewerIsRenewal DEF W!TokenAccepted
      <4>3. \/ /\ f.token = r.highWater
               /\ r.active # None /\ Newer(r.active, f)
               /\ fenceState'[n] = [highWater |-> f.token, active |-> f, previous |-> r.active]
            \/ /\ f.token > r.highWater
               /\ r.active # None => clock[n] >= r.active.expires
               /\ fenceState'[n] = [highWater |-> f.token, active |-> f, previous |-> None]
        BY <2>4, <2>7, <4>1, <4>2
      <4>4. /\ View'.issued = View.issued /\ View'.clock = View.clock
            /\ View'.control = View.control /\ View'.history = View.history
            /\ View'.work = View.work
        BY <1>1, <2>4 DEF View, authority
      <4>5. ViewType(View')
        BY <2>3, ViewTyped
      <4>6. \/ /\ f.token = View.fence[n].highWater
               /\ View.fence[n].active # None /\ Newer(View.fence[n].active, f)
               /\ View'.fence[n] = [highWater |-> f.token, active |-> f,
                                    previous |-> View.fence[n].active]
            \/ /\ f.token > View.fence[n].highWater
               /\ View.fence[n].active # None => View.clock[n] >= View.fence[n].active.expires
               /\ View'.fence[n] = [highWater |-> f.token, active |-> f, previous |-> None]
        BY <4>3, ViewIs, ViewIsNext
      <4>7. /\ n \in f.targets /\ f # View.fence[n].active
            /\ \A k \in Node : k # n => View'.fence[k] = View.fence[k]
        BY <2>4, <2>7, <3>2, ViewIs, ViewIsNext
      <4>8. SystemOK(View', client, net)
        BY <1>1, <4>4, <4>5, <4>6, <4>7, RecordActivated
      <4> QED
        BY <4>1, <4>8
    <3> QED
      BY <3>1, <3>2
  <2>9. ReplyOK(View', m, None)
    BY <1>1, <2>7, <2>8, ViewIsNext DEF ReplyOK, Held, Records
  <2> QED
    BY <1>2, <2>3, <2>5, <2>6, <2>8, <2>9, Handled
<1>3. CASE Replied(m, FALSE, None) /\ UNCHANGED workerVars
  BY <1>1, <1>3, Refused
<1> QED
  BY <1>2, <1>3 DEF HandleActivate

LEMMA RevokeNext ==
    ASSUME Inv, NEW m \in net, HandleRevoke(m)
    PROVE  StepOK
<1> DEFINE n == m.node
           f == m.body
           r == fenceState[n]
<1>1. /\ m \in Message /\ m.kind = "revoke" /\ f \in Grant /\ n \in Node /\ UNCHANGED authority
      /\ MsgOK(View, m, client[m.from]) /\ SystemOK(View, client, net)
  BY NetFacts DEF HandleRevoke, Delivered, Inv
<1>2. CASE W!RevokeFence(n, f) /\ Replied(m, TRUE, None)
  <2>2. WP!Next
    BY <1>1, <1>2, NodeActions
  <2>3. WP!IInv'
    BY <2>2, WorkerStep DEF Inv
  <2>4. /\ fenceState' = [fenceState EXCEPT ![n].active = None, ![n].previous = None]
        /\ UNCHANGED <<clock, inventory, activating, maintenance, gated, running>>
        /\ r.active = None \/ f = r.active \/ (r.previous # None /\ f = r.previous)
    BY <1>2 DEF W!RevokeFence, W!admission, W!RevocationAccepted, W!ExactFence
  <2>5. CP!IInv'
    BY <1>1, <2>4, WorkerTypes, NodeAssumption, AuthorityUnchanged DEF Inv
  <2>6. Idling'
    BY <2>4 DEF Inv, Idling
  <2>7. /\ fenceState'[n].active = None /\ fenceState'[n].previous = None
        /\ fenceState'[n].highWater = r.highWater
        /\ \A k \in Node : k # n => fenceState'[k] = fenceState[k]
    BY <1>1, <2>4, WorkerTypes DEF W!FenceRecord
  <2>8. r.active # None => r.active.op = f.op
    <3> SUFFICES ASSUME r.active # None, r.previous # None, f = r.previous
                 PROVE  r.active.op = f.op
      BY <2>4
    <3>1. RecordOK(View, n)
      BY <1>1 DEF SystemOK, ViewOK
    <3>2. Newer(f, r.active)
      BY <3>1, ViewIs DEF RecordOK
    <3> QED
      BY <3>2 DEF Newer, SameOperation
  <2>9. SystemOK(View', client, net)
    <3>1. /\ View'.issued = View.issued /\ View'.clock = View.clock
          /\ View'.control = View.control /\ View'.history = View.history
          /\ View'.work = View.work
      BY <1>1, <2>4 DEF View, authority
    <3>2. ViewType(View')
      BY <2>3, ViewTyped
    <3> QED
      BY <1>1, <2>7, <2>8, <3>1, <3>2, ViewIs, ViewIsNext, RecordCleared
  <2>10. ReplyOK(View', m, None)
    BY <1>1, <2>7, ViewIsNext DEF ReplyOK, QuietAt, Records
  <2> QED
    BY <1>2, <2>3, <2>5, <2>6, <2>9, <2>10, Handled
<1>3. CASE Replied(m, FALSE, None) /\ UNCHANGED workerVars
  BY <1>1, <1>3, Refused
<1> QED
  BY <1>2, <1>3 DEF HandleRevoke

-----------------------------------------------------------------------------
(* The controller's own invariant, handler by handler.                     *)

ClockKept == UNCHANGED <<clock, inventory>>

LEMMA AcquireAuthorityOK ==
    ASSUME CP!IInv, ClockKept, NEW r \in Request, NEW u \in C!ReadInventory, C!AcquireAuthority(r, u)
    PROVE  CP!IInv'
<1>1. u \in CP!ReadInventory
  BY DEF C!ReadInventory, CP!ReadInventory
<1>2. CP!AcquireAuthority(r, u)
  BY DEF C!AcquireAuthority, CP!AcquireAuthority, C!NewGrant, CP!NewGrant, C!CanGrant, CP!CanGrant,
     C!RequestAdmitted, CP!RequestAdmitted, C!TargetsAllowed, CP!TargetsAllowed, C!Unexpired,
     CP!Unexpired, C!Expired, CP!Expired, C!LeaseLive, CP!LeaseLive, C!MayGrant, CP!MayGrant,
     C!RetireExpired, CP!RetireExpired
<1> QED
  BY <1>1, <1>2, CP!AcquirePreserves, ControllerPremises DEF ClockKept

LEMMA AcquireAbortsOK ==
    ASSUME CP!IInv, ClockKept, NEW r \in Request, NEW u \in C!ReadInventory, NEW bound \in BOOLEAN,
           NEW removed \in BOOLEAN, C!AcquireAborts(r, u, bound, removed)
    PROVE  CP!IInv'
<1>1. u \in CP!ReadInventory
  BY DEF C!ReadInventory, CP!ReadInventory
<1>2. CP!AcquireAborts(r, u, bound, removed)
  BY DEF C!AcquireAborts, CP!AcquireAborts, C!NewGrant, CP!NewGrant, C!CanGrant, CP!CanGrant,
     C!RequestAdmitted, CP!RequestAdmitted, C!TargetsAllowed, CP!TargetsAllowed, C!Unexpired,
     CP!Unexpired, C!Expired, CP!Expired, C!LeaseLive, CP!LeaseLive, C!MayGrant, CP!MayGrant
<1> QED
  BY <1>1, <1>2, CP!AbortPreserves, ControllerPremises DEF ClockKept

LEMMA ReadLeaseOK ==
    ASSUME CP!IInv, ClockKept, NEW s \in Scope, lease' = C!AfterReadLease(s),
           UNCHANGED <<control, binding, nextOp, history, issued>>
    PROVE  CP!IInv'
<1>1. lease' = CP!AfterReadLease(s)
  BY DEF C!AfterReadLease, CP!AfterReadLease, C!LeaseLive, CP!LeaseLive
<1> QED
  BY <1>1, CP!ReadPreserves, ControllerPremises DEF ClockKept

LEMMA RenewAuthorityOK ==
    ASSUME CP!IInv, ClockKept, NEW f \in Grant, C!RenewAuthority(f) \/ C!RenewCrashes(f)
    PROVE  CP!IInv'
<1>1. f \in CP!GrantRecord
  BY GrantAssumption DEF W!GrantRecord, CP!GrantRecord, W!Operation, CP!Operation
<1>2. CP!CanRenew(f) /\ CP!CommitRenewal(f)
  BY DEF C!RenewAuthority, C!RenewCrashes, C!CanRenew, CP!CanRenew, C!ExactAuthority,
     CP!ExactAuthority, C!Valid, CP!Valid, C!CommitRenewal, CP!CommitRenewal, C!Renewed, CP!Renewed
<1>3. lease' = lease \/ lease' = CP!AfterRenewLeaseTo(CP!Renewed(f))
  BY DEF C!RenewAuthority, C!RenewCrashes, C!AfterRenewLeaseTo, CP!AfterRenewLeaseTo, C!Renewed, CP!Renewed
<1> QED
  BY <1>1, <1>2, <1>3, CP!RenewPreserves, ControllerPremises DEF ClockKept

LEMMA RecoverAuthorityOK ==
    ASSUME CP!IInv, ClockKept, NEW f \in Grant, C!RecoverRenewal(f)
    PROVE  CP!IInv'
<1>1. f \in CP!GrantRecord
  BY GrantAssumption DEF W!GrantRecord, CP!GrantRecord, W!Operation, CP!Operation
<1>2. CP!RecoverRenewal(f)
  BY DEF C!RecoverRenewal, CP!RecoverRenewal, C!CanRecoverRenewal, CP!CanRecoverRenewal,
     C!ExactAuthority, CP!ExactAuthority, C!AfterRenewLeaseTo, CP!AfterRenewLeaseTo
<1> QED
  BY <1>1, <1>2, CP!RecoverPreserves, ControllerPremises DEF ClockKept

LEMMA ReleaseAuthorityOK ==
    ASSUME CP!IInv, ClockKept, NEW f \in Grant, C!ReleaseAuthority(f) \/ C!ReleaseCrashes(f)
    PROVE  CP!IInv'
<1>1. f \in CP!GrantRecord
  BY GrantAssumption DEF W!GrantRecord, CP!GrantRecord, W!Operation, CP!Operation
<1>2. CP!ReleaseAuthority(f) \/ CP!ReleaseCrashes(f)
  BY DEF C!ReleaseAuthority, CP!ReleaseAuthority, C!ReleaseCrashes, CP!ReleaseCrashes, C!CanRelease,
     CP!CanRelease, C!ExactAuthority, CP!ExactAuthority, C!HoldsLease, CP!HoldsLease
<1> QED
  BY <1>1, <1>2, CP!ReleasePreserves, ControllerPremises DEF ClockKept

LEMMA ReconcileAuthorityOK ==
    ASSUME CP!IInv, ClockKept, C!ReconcileExpired
    PROVE  CP!IInv'
<1>1. CP!ReconcileExpired
  BY DEF C!ReconcileExpired, CP!ReconcileExpired, C!Unexpired, CP!Unexpired, C!Expired, CP!Expired,
     C!RetireExpired, CP!RetireExpired
<1> QED
  BY <1>1, CP!ReconcilePreserves, ControllerPremises DEF ClockKept

LEMMA PhaseAuthorityOK ==
    ASSUME CP!IInv, ClockKept, NEW f \in Grant, C!UpdatePhase(f, "mutating")
    PROVE  CP!IInv'
<1>1. f \in CP!GrantRecord
  BY GrantAssumption DEF W!GrantRecord, CP!GrantRecord, W!Operation, CP!Operation
<1>2. CP!UpdatePhase(f, "mutating")
  BY DEF C!UpdatePhase, CP!UpdatePhase, C!CanUpdatePhase, CP!CanUpdatePhase, C!ExactAuthority,
     CP!ExactAuthority, C!Valid, CP!Valid
<1> QED
  BY <1>1, <1>2, CP!PhasePreserves, ControllerPremises DEF ClockKept

-----------------------------------------------------------------------------
(* The handlers of the controller.                                         *)

\* What the journal says of the active operation.
LEMMA ActiveFacts ==
    ASSUME Inv
    PROVE  /\ control \in [nextToken: Nat, active: C!ActiveRecord \cup {None}]
           /\ nextOp \in Nat /\ JournalOK(View) /\ ViewOK(View)
           /\ \A i \in issued : i.fence.op <= nextOp /\ i.fence.expires = i.fence.issued + TTL
           /\ control.active # None =>
                /\ control.active.fence \in Grant
                /\ \E i \in issued : /\ i.fence = control.active.fence
                                     /\ i.request.id = control.active.request
                                     /\ binding[control.active.request] = i.request
                /\ control.active.previous \in Grant =>
                     Newer(control.active.previous, control.active.fence)
<1>1. CP!TypeOK /\ CP!Counted /\ CP!FullWindow /\ CP!Bound /\ CP!ActiveIsLatest
      /\ JournalOK(View) /\ ViewOK(View)
  BY DEF Inv, CP!IInv, SystemOK, ViewOK
<1>2. control \in [nextToken: Nat, active: C!ActiveRecord \cup {None}] /\ nextOp \in Nat
  BY <1>1 DEF CP!TypeOK, CP!ActiveRecord, C!ActiveRecord, CP!GrantRecord, C!GrantRecord, CP!Phase,
     C!Phase, CP!Operation, C!Operation
<1>3. \A i \in issued : i.fence.op <= nextOp /\ i.fence.expires = i.fence.issued + TTL
  BY <1>1 DEF CP!Counted, CP!FullWindow
<1>4. ASSUME control.active # None
      PROVE  /\ control.active.fence \in Grant
             /\ \E i \in issued : /\ i.fence = control.active.fence
                                  /\ i.request.id = control.active.request
                                  /\ binding[control.active.request] = i.request
             /\ control.active.previous \in Grant =>
                  Newer(control.active.previous, control.active.fence)
  <2>1. PICK i \in issued : i.fence = control.active.fence /\ i.request.id = control.active.request
    BY <1>1, <1>4 DEF CP!ActiveIsLatest
  <2>2. i.fence \in Grant
    BY <1>1, ViewIs DEF JournalOK
  <2>3. binding[control.active.request] = i.request
    BY <1>1, <2>1 DEF CP!Bound
  <2>4. control.active.previous \in Grant =>
          CP!ValidFenceRenewal(control.active.previous, control.active.fence)
    BY <1>1, <1>4, GrantFields DEF CP!ActiveIsLatest
  <2>5. control.active.previous \in Grant => Newer(control.active.previous, control.active.fence)
    BY <2>1, <2>2, <2>4, NewerIsRenewal
  <2> QED
    BY <2>1, <2>2, <2>3, <2>5
<1> QED
  BY <1>1, <1>2, <1>3, <1>4

\* A handler that dies with takod on the controller.
LEMMA DiesWithTakod ==
    ASSUME Inv, W!RestartTakod(Controller)
    PROVE  WP!IInv' /\ Idling' /\ ClockKept /\ UNCHANGED fenceState
           /\ \A n \in Node : /\ gated'[n] \cup running'[n] \subseteq gated[n] \cup running[n]
                              /\ clock'[n] >= clock[n]
<1>1. /\ WP!Next
      /\ UNCHANGED <<clock, inventory, fenceState>>
      /\ \A k \in Node : /\ gated'[k] \cup running'[k] \subseteq gated[k] \cup running[k]
                         /\ activating'[k] = None /\ maintenance'[k] = {}
  BY RestartFacts, NodeAssumption
<1>2. WP!IInv'
  BY <1>1, WorkerStep DEF Inv
<1>3. Idling'
  BY <1>1 DEF Idling
<1>4. \A n \in Node : clock'[n] >= clock[n]
  BY <1>1, WorkerTypes
<1> QED
  BY <1>1, <1>2, <1>3, <1>4 DEF ClockKept

\* A handler that leaves the nodes alone.
LEMMA NodesKept ==
    ASSUME Inv, UNCHANGED workerVars
    PROVE  WP!IInv' /\ Idling' /\ ClockKept /\ UNCHANGED <<fenceState, gated, running>>
           /\ \A n \in Node : /\ gated'[n] \cup running'[n] \subseteq gated[n] \cup running[n]
                              /\ clock'[n] >= clock[n]
<1>1. UNCHANGED <<clock, inventory, fenceState, gated, running, activating, maintenance>>
  BY DEF workerVars
<1>2. WP!IInv'
  BY WorkerStep DEF Inv
<1>3. Idling'
  BY <1>1 DEF Inv, Idling
<1>4. \A n \in Node : clock'[n] >= clock[n]
  BY <1>1, WorkerTypes
<1> QED
  BY <1>1, <1>2, <1>3, <1>4 DEF ClockKept

LEMMA Died ==
    ASSUME Inv, WP!IInv', CP!IInv', Idling', SystemOK(View', client, net), NEW m \in net,
           Unanswered(m)
    PROVE  StepOK
<1>1. SystemAfter(View') /\ Fault
  BY UnansweredOK DEF Inv, ClientsTyped
<1> QED
  BY <1>1, FaultCounted DEF StepOK, Inv

LEMMA ObserveNext ==
    ASSUME Inv, Observe
    PROVE  StepOK
<1>1. UNCHANGED <<workerVars, client, net, faults>>
  BY DEF Observe
<1>2. /\ WP!IInv' /\ Idling' /\ ClockKept /\ UNCHANGED fenceState
      /\ \A n \in Node : /\ gated'[n] \cup running'[n] \subseteq gated[n] \cup running[n]
                         /\ clock'[n] >= clock[n]
  BY <1>1, NodesKept
<1>3. CP!IInv' /\ SystemOK(View', client, net)
  <2>1. CASE C!ReconcileExpired
    <3>1. CP!IInv'
      BY <1>2, <2>1, ReconcileAuthorityOK DEF Inv
    <3>2. /\ control' = [control EXCEPT !.active = None] /\ issued' = issued
          /\ history' = C!RetireExpired
      BY <2>1 DEF C!ReconcileExpired
    <3>3. control'.nextToken = control.nextToken /\ control'.active = None
      BY <3>2, ActiveFacts
    <3>4. \A h \in history' : h \in history \/ h.phase # "completed"
      BY <3>2 DEF C!RetireExpired
    <3>5. SystemOK(View', client, net)
      BY <1>2, <3>2, <3>3, <3>4, LocalView
    <3> QED
      BY <3>1, <3>5
  <2>2. CASE \E s \in Scope : C!ReadLeaseStatus(s)
    <3>1. PICK s \in Scope : C!ReadLeaseStatus(s)
      BY <2>2
    <3>2. lease' = C!AfterReadLease(s) /\ UNCHANGED <<control, binding, nextOp, history, issued>>
      BY <3>1 DEF C!ReadLeaseStatus
    <3>3. CP!IInv'
      BY <1>2, <3>2, ReadLeaseOK DEF Inv
    <3>4. SystemOK(View', client, net)
      BY <1>2, <3>2, LocalView
    <3> QED
      BY <3>3, <3>4
  <2> QED
    BY <2>1, <2>2 DEF Observe
<1>4. SystemAfter(View')
  BY <1>1, <1>3, Unheard DEF Inv, ClientsTyped
<1> QED
  BY <1>1, <1>2, <1>3, <1>4 DEF StepOK, Inv

LEMMA PhaseNext ==
    ASSUME Inv, NEW m \in net, HandlePhase(m)
    PROVE  StepOK
<1> DEFINE f == m.body
<1>1. m.kind = "phase" /\ f \in Grant /\ UNCHANGED workerVars
  BY NetFacts DEF HandlePhase, Delivered
<1>2. CASE C!UpdatePhase(f, "mutating") /\ Replied(m, TRUE, None)
  <2>1. /\ WP!IInv' /\ Idling' /\ ClockKept /\ UNCHANGED fenceState
        /\ \A n \in Node : /\ gated'[n] \cup running'[n] \subseteq gated[n] \cup running[n]
                           /\ clock'[n] >= clock[n]
    BY <1>1, NodesKept
  <2>2. CP!IInv'
    BY <1>1, <1>2, <2>1, PhaseAuthorityOK DEF Inv
  <2>3. /\ control.active # None /\ control' = [control EXCEPT !.active.phase = "mutating"]
        /\ UNCHANGED <<issued, history>>
    BY <1>2 DEF C!UpdatePhase, C!CanUpdatePhase
  <2>4. /\ control'.nextToken = control.nextToken
        /\ control'.active.fence = control.active.fence
        /\ control'.active.previous = control.active.previous
    BY <2>3, ActiveFacts DEF C!ActiveRecord
  <2>5. SystemOK(View', client, net)
    BY <2>1, <2>3, <2>4, LocalView
  <2>6. ReplyOK(View', m, None)
    BY <1>1 DEF ReplyOK
  <2> QED
    BY <1>2, <2>1, <2>2, <2>5, <2>6, Handled
<1>3. CASE Replied(m, FALSE, None) /\ UNCHANGED authority
  BY <1>1, <1>3, Refused
<1> QED
  BY <1>2, <1>3 DEF HandlePhase

LEMMA ReleaseNext ==
    ASSUME Inv, NEW m \in net, HandleRelease(m)
    PROVE  StepOK
<1> DEFINE f == m.body
<1>1. /\ m \in Message /\ m.kind = "release" /\ f \in Grant
      /\ MsgOK(View, m, client[m.from]) /\ SystemOK(View, client, net)
  BY NetFacts DEF HandleRelease, Delivered, Inv
<1>2. CASE C!ReleaseAuthority(f) /\ Replied(m, TRUE, None) /\ UNCHANGED workerVars
  <2>1. WP!IInv' /\ Idling' /\ ClockKept
    BY <1>2, NodesKept
  <2>2. CP!IInv'
    BY <1>1, <1>2, <2>1, ReleaseAuthorityOK DEF Inv
  <2>3. /\ control' = [control EXCEPT !.active = None] /\ issued' = issued
        /\ history' = history \cup {[op |-> f.op, phase |-> "completed"]}
    BY <1>2 DEF C!ReleaseAuthority
  <2>4. control'.nextToken = control.nextToken /\ control'.active = None
    BY <2>3, ActiveFacts
  <2>5. /\ View'.fence = View.fence /\ View'.clock = View.clock /\ View'.work = View.work
    BY <1>2 DEF View, workerVars
  <2>6. ViewType(View')
    BY <2>1, ViewTyped
  <2>7. /\ View'.issued = View.issued /\ View'.control.nextToken = View.control.nextToken
        /\ View'.control.active = None
        /\ View'.history = View.history \cup {[op |-> f.op, phase |-> "completed"]}
    BY <2>3, <2>4, ViewIs, ViewIsNext
  <2>8. SystemOK(View', client, net)
    BY <1>1, <2>5, <2>6, <2>7, OperationCompleted
  <2>9. ReplyOK(View', m, None)
    BY <1>1 DEF ReplyOK
  <2> QED
    BY <1>2, <2>1, <2>2, <2>8, <2>9, Handled
<1>3. CASE C!ReleaseCrashes(f) /\ W!RestartTakod(Controller) /\ Unanswered(m)
  <2>1. /\ WP!IInv' /\ Idling' /\ ClockKept /\ UNCHANGED fenceState
        /\ \A n \in Node : /\ gated'[n] \cup running'[n] \subseteq gated[n] \cup running[n]
                           /\ clock'[n] >= clock[n]
    BY <1>3, DiesWithTakod
  <2>2. CP!IInv'
    BY <1>1, <1>3, <2>1, ReleaseAuthorityOK DEF Inv
  <2>3. UNCHANGED <<control, history, issued>>
    BY <1>3 DEF C!ReleaseCrashes
  <2>4. SystemOK(View', client, net)
    BY <2>1, <2>3, LocalView
  <2> QED
    BY <1>3, <2>1, <2>2, <2>4, Died
<1>4. CASE Replied(m, FALSE, None) /\ UNCHANGED <<workerVars, authority>>
  BY <1>4, Refused
<1> QED
  BY <1>2, <1>3, <1>4 DEF HandleRelease

\* The journal commits the renewal of f, whether or not takod survives it.
LEMMA RenewalCommitted ==
    ASSUME Inv, NEW m \in net, m.kind = "renew", NEW f, f = m.body, C!CanRenew(f), C!CommitRenewal(f),
           WP!IInv', ClockKept, UNCHANGED fenceState,
           \A n \in Node : /\ gated'[n] \cup running'[n] \subseteq gated[n] \cup running[n]
                           /\ clock'[n] >= clock[n]
    PROVE  /\ SystemOK(View', client, net)
           /\ Owns(View', m.from, C!Renewed(f)) /\ Newer(f, C!Renewed(f))
           /\ control'.active.fence = C!Renewed(f) /\ control'.active.previous = f
<1> DEFINE g == C!Renewed(f)
           t == clock[Controller]
           mid == [View EXCEPT !.work = View'.work]
<1>1. /\ m \in Message /\ m.from \in Client /\ f \in Grant /\ Owns(View, m.from, f)
      /\ t \in Nat /\ t \in 0..MaxIssue /\ f.expires < t + TTL
      /\ control.active # None /\ control.active.fence = f
  <2>1. m \in Message /\ m.from \in Client /\ f \in Grant /\ Owns(View, m.from, f)
    BY NetFacts
  <2>2. t \in Nat
    BY WorkerTypes, NodeAssumption
  <2>3. control.active # None /\ control.active.fence = f /\ t + TTL > f.expires /\ t <= MaxIssue
    BY DEF C!CanRenew, C!ExactAuthority
  <2>4. f.expires \in Nat /\ TTL \in Nat /\ MaxIssue \in Nat
    BY <2>1, GrantFields, TTLAssumption, BoundAssumption
  <2> HIDE DEF t
  <2> QED
    BY <2>1, <2>2, <2>3, <2>4
<1>2. g = [f EXCEPT !.issued = t, !.expires = t + TTL] /\ g \in Grant
  BY <1>1, SignedAssumption DEF C!Renewed
<1>3. Newer(f, g)
  <2>1. f \in W!GrantRecord /\ f.issued \in Nat /\ f.expires \in Nat /\ TTL \in Nat
    BY <1>1, GrantFields, TTLAssumption
  <2>2. f.expires = f.issued + TTL
    <3>1. \E i \in issued : i.fence = f
      BY <1>1, ActiveFacts
    <3> QED
      BY <3>1, ActiveFacts
  <2>3. /\ g.token = f.token /\ g.op = f.op /\ g.scope = f.scope /\ g.operation = f.operation
        /\ g.gen = f.gen /\ g.targets = f.targets /\ g.issued = t /\ g.expires = t + TTL
    BY <1>2, <2>1 DEF W!GrantRecord
  <2>4. f.issued < t
    BY <1>1, <2>1, <2>2
  <2> HIDE DEF g
  <2> QED
    BY <1>1, <2>3, <2>4 DEF Newer, SameOperation
<1> HIDE DEF g
<1>4. binding[control.active.request] = RequestOf[m.from]
  <2>1. PICK i \in issued : i.fence = f /\ binding[control.active.request] = i.request
    BY <1>1, ActiveFacts
  <2> DEFINE j == [request |-> RequestOf[m.from], fence |-> f]
  <2>2. j \in issued /\ j.fence.op = i.fence.op /\ j.request = RequestOf[m.from]
    BY <1>1, <2>1, ViewIs DEF Owns
  <2> HIDE DEF j
  <2>3. i.request = j.request
    BY <2>1, <2>2, ActiveFacts, ViewIs DEF JournalOK
  <2> QED
    BY <2>1, <2>2, <2>3
<1>5. /\ issued' = issued \cup {[request |-> RequestOf[m.from], fence |-> g]}
      /\ control' = [control EXCEPT !.active.fence = g, !.active.previous = f]
      /\ history' = history
  BY <1>4 DEF C!CommitRenewal, g
<1>6. /\ control'.nextToken = control.nextToken /\ control'.active # None
      /\ control'.active.fence = g /\ control'.active.previous = f
  <2>1. control.active \in C!ActiveRecord /\ f \in C!GrantRecord /\ g \in C!GrantRecord
    BY <1>1, <1>2, ActiveFacts, GrantAssumption DEF W!GrantRecord, C!GrantRecord, W!Operation, C!Operation
  <2>2. control' = [control EXCEPT !.active = [control.active EXCEPT !.fence = g, !.previous = f]]
    BY <1>5, <2>1, ActiveFacts DEF C!ActiveRecord
  <2> DEFINE a == [control.active EXCEPT !.fence = g, !.previous = f]
  <2>3. a \in C!ActiveRecord /\ a.fence = g /\ a.previous = f
    BY <2>1 DEF C!ActiveRecord
  <2> HIDE DEF a
  <2>4. control'.nextToken = control.nextToken /\ control'.active = a
    BY <2>2, ActiveFacts DEF a
  <2> QED
    BY <2>3, <2>4, ActiveAssumption
<1>7. ViewType(View')
  BY ViewTyped
<1>8. /\ mid.fence = View.fence /\ mid.clock = View.clock /\ mid.control = View.control
      /\ mid.issued = View.issued /\ mid.history = View.history /\ mid.work = View'.work
  BY DEF View
<1> HIDE DEF mid
<1>9. SystemOK(mid, client, net)
  <2>1. SystemOK(View, client, net)
    BY DEF Inv
  <2>2. ViewType(mid)
    BY <1>7, <1>8, <2>1 DEF ViewType, SystemOK, ViewOK
  <2>3. \A n \in Node : mid.work[n] \subseteq View.work[n] /\ mid.clock[n] >= View.clock[n]
    BY <1>8, WorkerTypes, ViewIs, ViewIsNext
  <2> QED
    BY <1>8, <2>1, <2>2, <2>3, LocalChange
<1>10. MsgOK(mid, m, client[m.from])
  BY <1>9 DEF SystemOK
<1>11. /\ mid.control.active # None /\ mid.control.active.fence = f
       /\ mid.control.active.previous \in Grant => Newer(mid.control.active.previous, f)
  BY <1>1, <1>8, ViewIs, ActiveFacts
<1>12. /\ View'.fence = mid.fence /\ View'.clock = mid.clock /\ View'.work = mid.work
       /\ View'.issued = mid.issued \cup {[request |-> RequestOf[m.from], fence |-> g]}
       /\ View'.control.nextToken = mid.control.nextToken /\ View'.control.active # None
       /\ View'.control.active.fence = g /\ View'.control.active.previous = f
       /\ View'.history = mid.history
  BY <1>5, <1>6, <1>8, ViewIs, ViewIsNext DEF ClockKept
<1>13. SystemOK(View', client, net)
  BY <1>1, <1>2, <1>3, <1>7, <1>9, <1>10, <1>11, <1>12, GrantRenewed
<1>14. Owns(View', m.from, g)
  BY <1>12 DEF Owns
<1> QED
  BY <1>3, <1>6, <1>13, <1>14 DEF g

LEMMA RenewNext ==
    ASSUME Inv, NEW m \in net, HandleRenew(m)
    PROVE  StepOK
<1> DEFINE f == m.body
<1>1. /\ m \in Message /\ m.kind = "renew" /\ f \in Grant /\ Owns(View, m.from, f)
      /\ m.from \in Client
  BY NetFacts DEF HandleRenew, Delivered
<1>2. CASE /\ C!RenewAuthority(f) /\ Replied(m, C!HoldsLease(f), C!Renewed(f))
           /\ UNCHANGED workerVars
  <2>1. /\ WP!IInv' /\ Idling' /\ ClockKept /\ UNCHANGED fenceState
        /\ \A n \in Node : /\ gated'[n] \cup running'[n] \subseteq gated[n] \cup running[n]
                           /\ clock'[n] >= clock[n]
    BY <1>2, NodesKept
  <2>2. CP!IInv'
    BY <1>1, <1>2, <2>1, RenewAuthorityOK DEF Inv
  <2>3. C!CanRenew(f) /\ C!CommitRenewal(f)
    BY <1>2 DEF C!RenewAuthority
  <2>4. /\ SystemOK(View', client, net)
        /\ Owns(View', m.from, C!Renewed(f)) /\ Newer(f, C!Renewed(f))
        /\ control'.active.fence = C!Renewed(f) /\ control'.active.previous = f
    BY <1>1, <2>1, <2>3, RenewalCommitted
  <2>5. ReplyOK(View', m, C!Renewed(f))
    BY <1>1, <2>4, ViewIsNext DEF ReplyOK
  <2>6. C!HoldsLease(f) \in BOOLEAN
    BY DEF C!HoldsLease
  <2> QED
    BY <1>2, <2>1, <2>2, <2>4, <2>5, <2>6, Handled
<1>3. CASE C!RenewCrashes(f) /\ W!RestartTakod(Controller) /\ Unanswered(m)
  <2>1. /\ WP!IInv' /\ Idling' /\ ClockKept /\ UNCHANGED fenceState
        /\ \A n \in Node : /\ gated'[n] \cup running'[n] \subseteq gated[n] \cup running[n]
                           /\ clock'[n] >= clock[n]
    BY <1>3, DiesWithTakod
  <2>2. CP!IInv'
    BY <1>1, <1>3, <2>1, RenewAuthorityOK DEF Inv
  <2>3. C!CanRenew(f) /\ C!CommitRenewal(f)
    BY <1>3 DEF C!RenewCrashes
  <2>4. SystemOK(View', client, net)
    BY <1>1, <2>1, <2>3, RenewalCommitted
  <2> QED
    BY <1>3, <2>1, <2>2, <2>4, Died
<1>4. CASE /\ C!RecoverRenewal(f) /\ Replied(m, C!HoldsLease(f), control.active.fence)
           /\ UNCHANGED workerVars
  <2> DEFINE g == control.active.fence
  <2>1. /\ WP!IInv' /\ Idling' /\ ClockKept /\ UNCHANGED fenceState
        /\ \A n \in Node : /\ gated'[n] \cup running'[n] \subseteq gated[n] \cup running[n]
                           /\ clock'[n] >= clock[n]
    BY <1>4, NodesKept
  <2>2. CP!IInv'
    BY <1>1, <1>4, <2>1, RecoverAuthorityOK DEF Inv
  <2>3. /\ control.active # None /\ f = control.active.previous
        /\ UNCHANGED <<control, history, issued>>
    BY <1>4 DEF C!RecoverRenewal, C!CanRecoverRenewal, C!ExactAuthority
  <2>4. SystemOK(View', client, net)
    BY <2>1, <2>3, LocalView
  <2>5. g \in Grant /\ Newer(f, g) /\ f.op = g.op
    BY <1>1, <2>3, ActiveFacts DEF Newer, SameOperation
  <2>6. Owns(View', m.from, g)
    <3>1. PICK i \in issued : i.fence = g
      BY <2>3, ActiveFacts
    <3> DEFINE j == [request |-> RequestOf[m.from], fence |-> f]
    <3>2. j \in issued /\ j.fence.op = i.fence.op /\ j.request = RequestOf[m.from]
      BY <1>1, <2>5, <3>1, ViewIs DEF Owns
    <3> HIDE DEF j
    <3>3. i.request = RequestOf[m.from] /\ i \in [request: Request, fence: Grant]
      BY <3>1, <3>2, ActiveFacts, ViewIs DEF JournalOK
    <3>4. i = [request |-> RequestOf[m.from], fence |-> g]
      BY <3>1, <3>3
    <3> QED
      BY <2>3, <3>4, ViewIsNext DEF Owns
  <2>7. ReplyOK(View', m, g)
    BY <1>1, <2>3, <2>5, <2>6, ViewIsNext DEF ReplyOK
  <2>8. C!HoldsLease(f) \in BOOLEAN
    BY DEF C!HoldsLease
  <2> QED
    BY <1>4, <2>1, <2>2, <2>4, <2>7, <2>8, Handled
<1>5. CASE Replied(m, FALSE, None) /\ UNCHANGED <<workerVars, authority>>
  BY <1>5, Refused
<1> QED
  BY <1>2, <1>3, <1>4, <1>5 DEF HandleRenew

LEMMA AcquireNext ==
    ASSUME Inv, NEW m \in net, HandleAcquire(m)
    PROVE  StepOK
<1> DEFINE c == m.from
           r == RequestOf[c]
<1>1. /\ m \in Message /\ m.kind = "acquire" /\ c \in Client /\ SystemOK(View, client, net)
  BY NetFacts DEF HandleAcquire, Delivered, Inv
<1>2. r \in Request /\ r.id = c /\ r.targets \subseteq Node /\ r.scope \in Scope
  BY <1>1, RequestAssumption DEF Request, C!RequestRecord
<1>3. PICK u \in C!ReadInventory :
       \/ /\ C!AcquireAuthority(r, u)
          /\ Replied(m, TRUE, C!NewGrant(r, u))
          /\ UNCHANGED workerVars
       \/ /\ \E bound \in BOOLEAN : C!AcquireAborts(r, u, bound, FALSE)
          /\ W!RestartTakod(Controller)
          /\ Unanswered(m)
       \/ /\ C!AcquireWhileActive(r, u)
          /\ Replied(m, C!RetryAnswered(r), C!Unexpired.fence)
          /\ UNCHANGED workerVars
       \/ /\ Replied(m, FALSE, None)
          /\ UNCHANGED <<workerVars, authority>>
  BY DEF HandleAcquire
<1>4. u \in Inventory
  BY DEF C!ReadInventory
<1>5. CASE C!AcquireAuthority(r, u) /\ Replied(m, TRUE, C!NewGrant(r, u)) /\ UNCHANGED workerVars
  <2> DEFINE f == C!NewGrant(r, u)
             t == clock[Controller]
  <2>1. WP!IInv' /\ Idling' /\ ClockKept
    BY <1>5, NodesKept
  <2>2. CP!IInv'
    BY <1>2, <1>5, <2>1, AcquireAuthorityOK DEF Inv
  <2>3. /\ t \in Nat /\ t <= MaxIssue /\ control.nextToken \in Nat /\ nextOp \in Nat
        /\ control.nextToken < MaxToken /\ nextOp < MaxOp /\ r.targets # {}
    BY <1>5, WorkerTypes, NodeAssumption, ActiveFacts DEF C!AcquireAuthority, C!CanGrant, C!MayGrant,
       C!RequestAdmitted, C!TargetsAllowed
  <2>4. f = [token |-> control.nextToken + 1, op |-> nextOp + 1, scope |-> r.scope,
             operation |-> r.operation, gen |-> u.gen, targets |-> r.targets,
             issued |-> t, expires |-> t + TTL]
    BY DEF C!NewGrant
  <2>5. f \in Grant
    <3>1. t \in 0..MaxIssue /\ control.nextToken + 1 \in 1..MaxToken /\ nextOp + 1 \in 1..MaxOp
      BY <2>3, BoundAssumption
    <3> HIDE DEF f, t, r
    <3> QED
      BY <1>2, <1>4, <2>4, <3>1, SignedAssumption
  <2>6. f.token = control.nextToken + 1 /\ f.op = nextOp + 1 /\ f.targets = r.targets
    BY <2>4
  <2>7. /\ control' = [nextToken |-> f.token,
                       active |-> [request |-> r.id, fence |-> f, previous |-> None,
                                   phase |-> "authority-acquired"]]
        /\ issued' = issued \cup {[request |-> r, fence |-> f]}
        /\ history' = C!RetireExpired
    BY <1>5 DEF C!AcquireAuthority
  <2> HIDE DEF f
  <2>8. \A h \in history' : h \in history \/ h.phase # "completed"
    BY <2>7 DEF C!RetireExpired
  <2>9. \A i \in issued : i.fence.op # f.op
    <3> SUFFICES ASSUME NEW i \in issued, i.fence.op = nextOp + 1 PROVE FALSE
      BY <2>6
    <3>1. i.fence.op <= nextOp
      BY ActiveFacts
    <3> QED
      BY <2>3, <3>1
  <2>10. ViewType(View')
    BY <2>1, ViewTyped
  <2>11. /\ View'.fence = View.fence /\ View'.clock = View.clock /\ View'.work = View.work
    BY <1>5 DEF View, workerVars
  <2>12. /\ View.control.nextToken \in Nat /\ f.token = View.control.nextToken + 1
         /\ \A i \in View.issued : i.fence.op # f.op
         /\ View'.issued = View.issued \cup {[request |-> RequestOf[c], fence |-> f]}
         /\ View'.control.nextToken = f.token /\ View'.control.active.fence = f
         /\ \A h \in View'.history : h \in View.history \/ h.phase # "completed"
    BY <2>3, <2>6, <2>7, <2>8, <2>9, ViewIs, ViewIsNext
  <2>13. SystemOK(View', client, net)
    BY <1>1, <1>2, <2>3, <2>5, <2>6, <2>10, <2>11, <2>12, GrantIssued
  <2>14. ReplyOK(View', m, f)
    BY <1>1, <2>12 DEF ReplyOK, Owns
  <2>15. Replied(m, TRUE, f)
    BY <1>5 DEF f
  <2> QED
    BY <2>1, <2>2, <2>13, <2>14, <2>15, Handled
<1>6. CASE /\ \E bound \in BOOLEAN : C!AcquireAborts(r, u, bound, FALSE)
           /\ W!RestartTakod(Controller) /\ Unanswered(m)
  <2>1. /\ WP!IInv' /\ Idling' /\ ClockKept /\ UNCHANGED fenceState
        /\ \A n \in Node : /\ gated'[n] \cup running'[n] \subseteq gated[n] \cup running[n]
                           /\ clock'[n] >= clock[n]
    BY <1>6, DiesWithTakod
  <2>2. PICK bound \in BOOLEAN : C!AcquireAborts(r, u, bound, FALSE)
    BY <1>6
  <2>3. CP!IInv'
    BY <1>2, <2>1, <2>2, AcquireAbortsOK DEF Inv
  <2>4. UNCHANGED <<control, history, issued>>
    BY <2>2 DEF C!AcquireAborts
  <2>5. SystemOK(View', client, net)
    BY <2>1, <2>4, LocalView
  <2> QED
    BY <1>6, <2>1, <2>3, <2>5, Died
<1>7. CASE /\ C!AcquireWhileActive(r, u) /\ Replied(m, C!RetryAnswered(r), C!Unexpired.fence)
           /\ UNCHANGED workerVars
  <2>1. /\ WP!IInv' /\ Idling' /\ ClockKept /\ UNCHANGED fenceState
        /\ \A n \in Node : /\ gated'[n] \cup running'[n] \subseteq gated[n] \cup running[n]
                           /\ clock'[n] >= clock[n]
    BY <1>7, NodesKept
  <2>2. /\ C!Unexpired # None /\ C!Unexpired = control.active
        /\ UNCHANGED <<control, binding, nextOp, history, issued>>
    BY <1>7 DEF C!AcquireWhileActive, C!Unexpired
  <2>3. CP!IInv'
    <3> DEFINE s == IF C!Unexpired.request = r.id THEN r.scope ELSE C!Unexpired.fence.scope
    <3>1. lease' = C!AfterReadLease(s)
      BY <1>7 DEF C!AcquireWhileActive
    <3>2. s \in Scope
      BY <1>2, <2>2, ActiveFacts, GrantFields
    <3> HIDE DEF s
    <3> QED
      BY <2>1, <2>2, <3>1, <3>2, ReadLeaseOK DEF Inv
  <2>4. SystemOK(View', client, net)
    BY <2>1, <2>2, LocalView
  <2>5. C!RetryAnswered(r) => ReplyOK(View', m, C!Unexpired.fence)
    <3> SUFFICES ASSUME control.active.request = c PROVE ReplyOK(View', m, control.active.fence)
      BY <1>2, <2>2 DEF C!RetryAnswered
    <3>1. PICK i \in issued : i.fence = control.active.fence /\ i.request.id = c
      BY <2>2, ActiveFacts
    <3>2. i \in [request: Request, fence: Grant]
      BY <3>1, ActiveFacts, ViewIs DEF JournalOK
    <3>3. i.request = RequestOf[c]
      BY <3>1, <3>2, RequestAssumption DEF Request
    <3>4. i = [request |-> RequestOf[c], fence |-> control.active.fence]
      BY <3>1, <3>2, <3>3
    <3> QED
      BY <1>1, <2>2, <3>4, ViewIsNext DEF ReplyOK, Owns
  <2>6. C!RetryAnswered(r) \in BOOLEAN
    BY DEF C!RetryAnswered
  <2> QED
    BY <1>7, <2>1, <2>3, <2>4, <2>5, <2>6, Handled
<1>8. CASE Replied(m, FALSE, None) /\ UNCHANGED <<workerVars, authority>>
  BY <1>8, Refused
<1> QED
  BY <1>3, <1>5, <1>6, <1>7, <1>8

-----------------------------------------------------------------------------
(* The invariant is inductive.                                             *)

\* A coordinator that has not started, in a system where nothing has happened.
LEMMA IdleOK ==
    ASSUME NEW v, v.issued = {}, v.history = {}, \A n \in Node : v.work[n] = {},
           NEW c \in Client
    PROVE  Idle \in Coordinator /\ ClientOK(v, c, Idle)
<1>1. Idle \in Coordinator
  BY DEF Idle, Coordinator, MainState, RenewState
<1>2. /\ Idle.pc = "idle" /\ Idle.call = None /\ Idle.rcall = None /\ Idle.renewal = "off"
      /\ Idle.offer = None /\ Idle.fenced = {} /\ Idle.renewals = 0
  BY DEF Idle
<1>3. ~Alive(Idle)
  BY <1>2 DEF Alive
<1>4. Shape(Idle)
  BY <1>2 DEF Shape, CallShape, RenewShape
<1>5. CallsOK(v, c, Idle)
  BY <1>2 DEF CallsOK, Outstanding
<1>6. GrantOK(v, c, Idle) /\ AuthorityOK(v, Idle) /\ FanOutOK(v, Idle)
  BY <1>2, <1>3 DEF GrantOK, AuthorityOK, FanOutOK
<1>7. RecordsOK(v, c, Idle)
  BY DEF RecordsOK, Owns
<1>8. OperationOK(v, c, Idle)
  BY <1>2 DEF OperationOK
<1> QED
  BY <1>1, <1>4, <1>5, <1>6, <1>7, <1>8 DEF ClientOK

LEMMA InitInv == Init => Inv
<1> SUFFICES ASSUME Init PROVE Inv
  OBVIOUS
<1>1. W!Init /\ C!InitAuthority /\ client = [c \in Client |-> Idle] /\ net = {} /\ faults = 0
  BY DEF Init
<1>2. WP!IInv
  <2>1. WP!Init
    BY <1>1 DEF W!Init, WP!Init, W!NoFence, WP!NoFence
  <2> QED
    BY <2>1, WP!InitIInv, HoldAssumption, ToleranceAssumption, GrantAssumption, InventoryAssumption,
       GenerationAssumption, MaxTimeAssumption
       DEF W!GrantRecord, WP!GrantRecord, W!Operation, WP!Operation, W!InventoryRecord,
           WP!InventoryRecord, W!Lifecycle, WP!Lifecycle, W!Activation, WP!Activation,
           W!BarrierHold, WP!BarrierHold
<1>3. CP!IInv
  <2>1. clock[Controller] = 0 /\ inventory[Controller] \in Inventory
    BY <1>1, NodeAssumption DEF W!Init
  <2>2. CP!Init
    BY <1>1, <2>1 DEF CP!Init, CP!InitAuthority, C!InitAuthority
  <2> QED
    BY <2>2, CP!InitIInv, ControllerPremises
<1>4. Idling /\ faults \in 0..MaxFaults
  BY <1>1, FaultAssumption DEF W!Init, Idling
<1>5. /\ fenceState = [n \in Node |-> W!NoFence] /\ clock = [n \in Node |-> 0]
      /\ gated = [n \in Node |-> {}] /\ running = [n \in Node |-> {}]
      /\ control = [nextToken |-> 0, active |-> None] /\ history = {} /\ issued = {}
  BY <1>1 DEF W!Init, C!InitAuthority
<1>6. /\ View.issued = {} /\ View.history = {} /\ \A n \in Node : View.work[n] = {}
      /\ View.control.active = None
      /\ \A n \in Node : View.fence[n].active = None /\ View.fence[n].previous = None
  BY <1>5, ViewIs DEF W!NoFence
<1>7. ViewOK(View)
  <2>1. ViewType(View)
    <3>1. W!NoFence \in W!FenceRecord
      BY DEF W!NoFence, W!FenceRecord
    <3> QED
      BY <1>5, <3>1 DEF ViewType, View
  <2>2. JournalOK(View)
    BY <1>6 DEF JournalOK
  <2>3. \A n \in Node : RecordOK(View, n) /\ WorkOK(View, n)
    BY <1>6 DEF RecordOK, WorkOK
  <2> QED
    BY <2>1, <2>2, <2>3 DEF ViewOK
<1>8. \A c \in Client : client[c] = Idle /\ Idle \in Coordinator /\ ClientOK(View, c, Idle)
  BY <1>1, <1>6, IdleOK
<1>9. client \in [Client -> Coordinator]
  BY <1>1, <1>8
<1>10. SystemOK(View, client, net)
  BY <1>1, <1>7, <1>8 DEF SystemOK
<1> QED
  BY <1>2, <1>3, <1>4, <1>9, <1>10 DEF Inv

LEMMA NextInv == Inv /\ [Next]_vars => Inv'
<1> SUFFICES ASSUME Inv, [Next]_vars PROVE StepOK
  BY StepInv
<1>1. ASSUME NEW m \in net,
             \/ HandleAcquire(m) \/ HandleRenew(m) \/ HandleRelease(m) \/ HandlePhase(m)
             \/ HandleSnapshot(m) \/ HandleInventory(m) \/ HandleActivate(m) \/ HandleRevoke(m)
             \/ Timeout(m)
      PROVE  StepOK
  BY <1>1, AcquireNext, RenewNext, ReleaseNext, PhaseNext, SnapshotNext, InventoryNext,
     ActivateNext, RevokeNext, TimeoutStep
<1>2. ASSUME NEW c \in Client,
             \/ Start(c) \/ Renew(c) \/ Release(c) \/ CrashClient(c)
             \/ \E n \in Node : SendMutation(c, n)
      PROVE  StepOK
  BY <1>2, StartStep, RenewStep, ReleaseStep, CrashStep, SendNext
<1>3. ASSUME NEW n \in Node, LocalStep(n) \/ Restart(n) \/ CopyInventory(n)
      PROVE  StepOK
  <2>1. CASE CopyInventory(n)
    <3>1. inventory[Controller] \in Inventory
      BY WorkerTypes, NodeAssumption
    <3> QED
      BY <2>1, <3>1, InstallNext DEF CopyInventory
  <2> QED
    BY <1>3, <2>1, LocalNext, RestartNext
<1>4. CASE ChangeMembership
  BY <1>4, InstallNext, NodeAssumption DEF ChangeMembership
<1>5. CASE Observe
  BY <1>5, ObserveNext
<1>6. CASE UNCHANGED vars
  <2>1. UNCHANGED <<workerVars, authority>> /\ UNCHANGED <<client, net, faults>>
    BY <1>6 DEF vars
  <2>2. SystemAfter(View)
    BY <2>1, Unheard DEF Inv, ClientsTyped
  <2> QED
    BY <2>1, <2>2, CoordinatorStep
<1> QED
  BY <1>1, <1>2, <1>3, <1>4, <1>5, <1>6 DEF Next

-----------------------------------------------------------------------------
(* What follows from it.                                                   *)

\* The inductive invariant of the composed system holds in every behaviour:
\* the invariants of the nodes and of the controller, and how the coordinators,
\* the requests in flight, the fence records and the journal fit together.
THEOREM Invariance == Spec => []Inv
BY InitInv, NextInv, PTL DEF Spec

\* A request at work on a node is owned by the coordinator that acquired its
\* operation, and its grant is on record on the controller.
LEMMA WorkOwned ==
    ASSUME Inv, NEW n \in Node, NEW f \in running[n]
    PROVE  /\ f \in Grant /\ Records(View, n, f.op) /\ f \in View.work[n]
           /\ \E c \in Client : Owns(View, c, f)
           /\ \E i \in issued : i.fence = f
<1>1. f \in View.work[n] /\ f \in Grant /\ f # None
  BY ViewIs, WorkerTypes, GrantFields
<1>2. PICK c \in Client : Owns(View, c, f)
  BY <1>1 DEF Inv, SystemOK, ViewOK, WorkOK
<1>3. [request |-> RequestOf[c], fence |-> f] \in issued
  BY <1>2, ViewIs DEF Owns
<1>4. f = View.fence[n].active \/ f = View.fence[n].previous
  BY ViewIs DEF Inv, WP!IInv, WP!NodeOK
<1>5. Records(View, n, f.op)
  <2>1. RecordOK(View, n)
    BY DEF Inv, SystemOK, ViewOK
  <2> QED
    BY <1>1, <1>4, <2>1 DEF RecordOK, Records, Newer, SameOperation
<1> QED
  BY <1>1, <1>2, <1>3, <1>5

LEMMA InvQuiescent == Inv => CompletedIsQuiescent
<1> SUFFICES ASSUME Inv, NEW n \in Node, NEW f \in running[n], Completed(f.op) PROVE FALSE
  BY DEF CompletedIsQuiescent
<1>1. PICK c \in Client : Owns(View, c, f)
  BY WorkOwned
<1> DEFINE i == [request |-> RequestOf[c], fence |-> f]
<1>2. i \in View.issued /\ i.request = RequestOf[c] /\ i.fence = f /\ Done(View, i.fence.op)
  BY <1>1, ViewIs DEF Owns, Completed, Done
<1>3. OperationOK(View, c, client[c])
  BY DEF Inv, SystemOK, ClientOK
<1> HIDE DEF i
<1>4. Quiet(View, f.op)
  BY <1>2, <1>3 DEF OperationOK
<1> QED
  BY <1>4, WorkOwned DEF Quiet, QuietAt

LEMMA InvSingleWriter == Inv => ClusterSingleWriter
<1> SUFFICES ASSUME Inv, NEW n \in Node, NEW k \in Node, NEW f \in running[n], NEW g \in running[k],
                    f.token < g.token
             PROVE  clock[Controller] >= f.expires
  BY DEF ClusterSingleWriter
<1>1. PICK i \in issued : i.fence = f
  BY WorkOwned
<1>2. PICK j \in issued : j.fence = g
  BY WorkOwned
<1>3. /\ f.token \in Nat /\ g.token \in Nat /\ control.nextToken \in Nat
      /\ g.token <= control.nextToken
  BY <1>2, WorkOwned, GrantFields, ActiveFacts, ViewIs DEF JournalOK
<1>4. ~(control.active # None /\ control.active.fence.op = f.op)
  <2> SUFFICES ASSUME control.active # None, control.active.fence.op = f.op PROVE FALSE
    OBVIOUS
  <2>1. PICK a \in issued : a.fence = control.active.fence
    BY ActiveFacts
  <2>2. a.fence.token = f.token
    BY <1>1, <2>1, ActiveFacts, ViewIs DEF JournalOK
  <2>3. control.active.fence.token = control.nextToken
    BY ActiveFacts, ViewIs DEF JournalOK
  <2> QED
    BY <1>3, <2>1, <2>2, <2>3
<1>5. ~Completed(f.op)
  BY InvQuiescent DEF CompletedIsQuiescent
<1>6. CP!Expired(f, clock[Controller])
  BY <1>1, <1>4, <1>5 DEF Inv, CP!IInv, CP!OthersSettled, Completed
<1> QED
  BY <1>6 DEF CP!Expired

\* The grant a coordinator holds, on a target that records its operation.
LEMMA HolderRecorded ==
    ASSUME Inv, NEW c \in Client, Alive(client[c]), NEW n \in client[c].fenced,
           Records(View, n, client[c].grant.op)
    PROVE  /\ client[c].grant \in Grant /\ n \in Node
           /\ client[c].grant \in {fenceState[n].active, fenceState[n].previous}
           /\ n \in client[c].grant.targets
<1> DEFINE s == client[c]
           r == View.fence[n]
<1>1. ViewOK(View) /\ s \in Coordinator /\ ClientOK(View, c, s)
  BY DEF Inv, SystemOK
<1>2. n \in Node /\ s.grant \in Grant /\ Owns(View, c, s.grant)
  BY <1>1, CoordinatorFields DEF ClientOK, GrantOK
<1>3. RecordOK(View, n) /\ r.active # None /\ r.active.op = s.grant.op
  BY <1>1, <1>2 DEF ViewOK, Records
<1>4. PICK d \in Client : Owns(View, d, r.active)
  BY <1>3 DEF RecordOK
<1>5. d = c
  BY <1>1, <1>2, <1>3, <1>4, OwnerUnique
<1>6. r.active = s.grant \/ (r.active = s.offer /\ r.previous = s.grant)
  BY <1>1, <1>2, <1>3, <1>4, <1>5 DEF ClientOK, RecordsOK
<1>7. s.grant # None
  BY <1>2, GrantFields
<1>8. n \in s.grant.targets
  BY <1>3, <1>6, <1>7 DEF RecordOK, Newer, SameOperation
<1> QED
  BY <1>2, <1>6, <1>8, ViewIs

LEMMA InvRevocable == Inv => RevocableByHolder
<1> SUFFICES ASSUME Inv, NEW c \in Client, client[c].grant # None, client[c].pc # "stopped",
                    NEW n \in client[c].fenced, fenceState[n].active # None,
                    fenceState[n].active.op = client[c].grant.op
             PROVE  client[c].grant \in {fenceState[n].active, fenceState[n].previous}
  BY DEF RevocableByHolder
<1>1. Shape(client[c])
  BY DEF Inv, SystemOK, ClientOK
<1>2. Alive(client[c])
  BY <1>1 DEF Shape, Alive
<1>3. Records(View, n, client[c].grant.op)
  BY ViewIs DEF Records
<1> QED
  BY <1>2, <1>3, HolderRecorded

LEMMA InvAdmitted == Inv => HolderIsAdmitted
<1> SUFFICES ASSUME Inv, NEW c \in Client, client[c].pc = "mutate", NEW n \in client[c].fenced,
                    client[c].grant.gen = inventory[n].gen, W!Valid(client[c].grant, clock[n])
             PROVE  W!ValidMutationFence(n, client[c].grant)
  BY DEF HolderIsAdmitted
<1> DEFINE f == client[c].grant
<1>1. ClientOK(View, c, client[c]) /\ client[c] \in Coordinator /\ Alive(client[c])
  BY DEF Inv, SystemOK, Alive
<1>2. f \in Grant /\ f # None /\ f.expires \in Nat /\ n \in Node /\ clock[n] \in Nat
  BY <1>1, GrantFields, CoordinatorFields, WorkerTypes DEF ClientOK, GrantOK
<1>3. Held(View, n, f)
  BY <1>1 DEF ClientOK, FanOutOK
<1>4. Records(View, n, f.op)
  <2>1. clock[n] < f.expires
    BY DEF W!Valid
  <2> HIDE DEF f
  <2> QED
    BY <1>2, <1>3, <2>1, ViewIs DEF Held
<1>5. f \in {fenceState[n].active, fenceState[n].previous} /\ n \in f.targets
  BY <1>1, <1>4, HolderRecorded
<1> QED
  BY <1>2, <1>5 DEF W!ValidMutationFence, W!Targets, W!ExactFence

\* The state of the composed system stays well typed, without a bound on time,
\* faults aside: in particular every request in flight carries what its handler
\* expects and every grant in circulation is one the controller may sign.
THEOREM TypeCorrect == Spec => []TypeOK
<1>1. Inv => TypeOK
  <2> SUFFICES ASSUME Inv PROVE TypeOK
    OBVIOUS
  <2>1. W!TypeOK
    BY DEF Inv, WP!IInv, WP!TypeOK, W!TypeOK, WP!FenceRecord, W!FenceRecord, WP!BarrierHold,
       W!BarrierHold, WP!Activation, W!Activation
  <2>2. C!TypeOK
    BY DEF Inv, CP!IInv, CP!TypeOK, C!TypeOK, CP!ActiveRecord, C!ActiveRecord, CP!GrantRecord,
       C!GrantRecord, CP!Phase, C!Phase, CP!Operation, C!Operation, CP!LeaseRecord,
       C!LeaseRecord, CP!Retirement, C!Retirement
  <2>3. net \subseteq Message
    BY DEF Inv, SystemOK
  <2> QED
    BY <2>1, <2>2, <2>3 DEF Inv, TypeOK
<1> QED
  BY <1>1, Invariance, PTL

\* Once the controller's journal has an operation as completed, no node runs a
\* mutation of it, whatever requests are delayed, lost or executed after their
\* coordinator gave up, and whichever processes crash (RemoteLeaseSet.Release
\* revokes every target first and keeps the lease when one cannot be revoked).
THEOREM Quiescence == Spec => []CompletedIsQuiescent
BY Invariance, InvQuiescent, PTL

\* Two operations mutate the cluster at the same time, on the same or on
\* different nodes, only after the earlier grant has expired on the
\* controller's clock, for any number of coordinators and nodes and any skew.
THEOREM ClusterWriter == Spec => []ClusterSingleWriter
BY Invariance, InvSingleWriter, PTL

\* A target that records a coordinator's operation records the very grant the
\* coordinator holds, as active or as predecessor (validateWorkerFenceRevocation
\* accepts nothing else), however renewals, retries and timeouts interleave.
THEOREM Revocable == Spec => []RevocableByHolder
BY Invariance, InvRevocable, PTL

\* From the moment a coordinator may mutate, each of its targets accepts the
\* grant it holds while the grant and the membership last, also when renewAll
\* has published the renewal to some of the targets only.
THEOREM HolderAdmitted == Spec => []HolderIsAdmitted
BY Invariance, InvAdmitted, PTL

-----------------------------------------------------------------------------
(* What the coordinators do to the nodes is what WorkerFence allows.       *)

LEMMA FenceStep ==
    ASSUME Inv, [Next]_vars
    PROVE  WP!Next \/ UNCHANGED workerVars
<1>1. ASSUME NEW m \in net,
             \/ HandleAcquire(m) \/ HandleRenew(m) \/ HandleRelease(m) \/ HandlePhase(m)
             \/ HandleSnapshot(m) \/ Timeout(m)
      PROVE  UNCHANGED workerVars \/ W!RestartTakod(Controller)
  BY <1>1 DEF HandleAcquire, HandleRenew, HandleRelease, HandlePhase, HandleSnapshot, Timeout
<1>2. ASSUME NEW m \in net, HandleInventory(m) \/ HandleActivate(m) \/ HandleRevoke(m)
      PROVE  WP!Next \/ UNCHANGED workerVars
  <2>1. /\ m.node \in Node
        /\ m.kind \in {"activate", "revoke"} => m.body \in Grant
        /\ m.kind = "inventory" => m.body \in Inventory
    BY NetFacts
  <2>2. CASE HandleInventory(m)
    BY <2>1, <2>2, NodeActions DEF HandleInventory, Delivered
  <2>3. CASE HandleActivate(m)
    BY <2>1, <2>3, NodeActions DEF HandleActivate, Delivered
  <2>4. CASE HandleRevoke(m)
    BY <2>1, <2>4, NodeActions DEF HandleRevoke, Delivered
  <2> QED
    BY <1>2, <2>2, <2>3, <2>4
<1>3. ASSUME NEW c \in Client, NEW n \in Node, SendMutation(c, n) PROVE WP!Next
  <2>1. client[c].grant \in Grant
    BY <1>3 DEF SendMutation, Inv, SystemOK, ClientOK, GrantOK, Alive
  <2> QED
    BY <1>3, <2>1, NodeActions DEF SendMutation
<1>4. ASSUME NEW n \in Node, LocalStep(n) \/ Restart(n) \/ CopyInventory(n) PROVE WP!Next
  <2>1. gated[n] \subseteq Grant /\ running[n] \subseteq Grant /\ inventory[Controller] \in Inventory
    BY WorkerTypes, NodeAssumption
  <2> QED
    BY <1>4, <2>1, NodeActions DEF LocalStep, Restart, CopyInventory
<1>5. CASE ChangeMembership
  BY <1>5, NodeActions, NodeAssumption DEF ChangeMembership
<1>6. CASE \/ Observe \/ UNCHANGED vars
           \/ \E c \in Client : Start(c) \/ Renew(c) \/ Release(c) \/ CrashClient(c)
  BY <1>6 DEF Observe, vars, Start, Renew, Release, CrashClient
<1> QED
  BY <1>1, <1>2, <1>3, <1>4, <1>5, <1>6, NodeActions, NodeAssumption DEF Next

\* The composed system implements WorkerFence: coordinators, their renewal
\* loops and requests that are executed late do nothing to a node that the
\* node's own module does not allow, so what is proved of one node for any
\* sequence of requests holds of every node of a running cluster.
THEOREM NodesImplementWorkerFence == Spec => WP!Spec
<1>1. Init => WP!Init
  BY DEF Init, W!Init, WP!Init, W!NoFence, WP!NoFence
<1>2. Inv /\ [Next]_vars => [WP!Next]_(WP!workerVars)
  BY FenceStep DEF workerVars, WP!workerVars
<1> QED
  BY <1>1, <1>2, Invariance, PTL DEF Spec, WP!Spec

\* Through all of it each node is, for the operations of the cluster, a
\* single-writer register that moves only to higher tokens.
THEOREM NodesAreTokenFences == Spec => WP!IsTokenFence
<1>1. WP!Spec => WP!IsTokenFence
  BY WP!ImplementsTokenFence, HoldAssumption, ToleranceAssumption, GrantAssumption, InventoryAssumption,
     GenerationAssumption, MaxTimeAssumption
     DEF W!GrantRecord, WP!GrantRecord, W!Operation, WP!Operation, W!InventoryRecord,
         WP!InventoryRecord, W!Lifecycle, WP!Lifecycle, W!Activation, WP!Activation,
         W!BarrierHold, WP!BarrierHold
<1> QED
  BY <1>1, NodesImplementWorkerFence, PTL
=============================================================================
