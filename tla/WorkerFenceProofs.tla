-------------------------- MODULE WorkerFenceProofs --------------------------
(***************************************************************************)
(* The safety properties of WorkerFence, for every set of nodes, grants,   *)
(* inventories and maintenance tasks and without a bound on time.          *)
(***************************************************************************)
EXTENDS WorkerFence, FenceGrantProofs, TLAPS

\* A record of worker-fence.json as activation and revocation leave it.
RecordOK(s) ==
    /\ s.active # None => s.active.token = s.highWater
    /\ s.previous # None => s.active # None /\ ValidFenceRenewal(s.previous, s.active)

\* The barrier is free or belongs to the recorded grant, with its timer pending.
HeldForRecord(n) ==
    barrier[n] # None => /\ barrier[n] \in timers[n]
                         /\ fenceState[n].active # None
                         /\ barrier[n] = Hold(fenceState[n].active)

\* An activation keeps the admission lock, so no handler runs and the checks it
\* made against the record still hold.  One that displaces an operation finds
\* the barrier free; one that took the barrier has it until its grant expires;
\* and until the record is written, maintenance runs only under an expired one.
ActivationOK(n) ==
    LET a == activating[n]  s == fenceState[n] IN
    /\ running[n] = {}
    /\ TokenAccepted(s, a.grant)
    /\ a.stage = "hold" =>
         HeldForRecord(n) /\ (a.grant.token > s.highWater => barrier[n] = None)
    /\ a.stage = "write" =>
         /\ a.acquired => \/ barrier[n] = Hold(a.grant)
                          \/ barrier[n] = None /\ Expired(a.grant, clock[n])
         /\ ~a.acquired => HeldForRecord(n) /\ a.grant.token = s.highWater
         /\ maintenance[n] # {} /\ s.active # None => Expired(s.active, clock[n])
    /\ a.stage = "bind" => s.active = a.grant

\* While a maintenance task runs, the recorded grant or its predecessor has
\* expired.
Lapsed(n) ==
    maintenance[n] # {} /\ fenceState[n].active # None =>
        \/ Expired(fenceState[n].active, clock[n])
        \/ /\ fenceState[n].previous # None
           /\ Expired(fenceState[n].previous, clock[n])

NodeOK(n) ==
    /\ RecordOK(fenceState[n])
    /\ \A f \in running[n] : f = fenceState[n].active \/ f = fenceState[n].previous
    /\ maintenance[n] # {} => barrier[n] = None
    /\ Lapsed(n)
    /\ activating[n] = None => HeldForRecord(n)
    /\ activating[n] # None => ActivationOK(n)

\* The inductive invariant.
IInv == TypeOK /\ \A n \in Node : NodeOK(n)

-----------------------------------------------------------------------------
(* The record operators.                                                   *)

\* A strict renewal is a grant of the same operation under the same token with
\* a later expiry (validFenceRenewal).
LEMMA RenewalSameOperation ==
    ASSUME NEW a \in Grant, NEW b \in Grant, ValidFenceRenewal(a, b)
    PROVE  a.op = b.op /\ a.token = b.token /\ a.expires < b.expires /\ a # b
<1>0. a \in GrantRecord /\ b \in GrantRecord
  BY GrantAssumption
<1>1. a.expires \in Nat /\ b.expires \in Nat
  BY <1>0 DEF GrantRecord
<1> QED
  BY <1>0, <1>1, RenewalFields DEF SameOperation

\* What activateWorkerFence stores for an accepted grant is a well-formed
\* record whose active grant is the accepted one.
LEMMA ActivatedRecord ==
    ASSUME NEW s \in FenceRecord, NEW f \in Grant, RecordOK(s), TokenAccepted(s, f)
    PROVE  /\ ActivatedFence(s, f) \in FenceRecord
           /\ RecordOK(ActivatedFence(s, f))
           /\ ActivatedFence(s, f).active = f
           /\ ActivatedFence(s, f).highWater = f.token
           /\ f.token >= s.highWater
<1>0. f # None /\ f \in GrantRecord
  BY GrantAssumption
<1>1. CASE f = s.active
  BY <1>0, <1>1 DEF ActivatedFence, RecordOK, FenceRecord, GrantRecord, TokenAccepted
<1>2. CASE f # s.active
  <2>1. CASE f.token = s.highWater
    <3>1. s.active # None /\ ValidFenceRenewal(s.active, f)
      BY <1>2, <2>1 DEF TokenAccepted
    <3>2. ActivatedFence(s, f) = [highWater |-> f.token, active |-> f, previous |-> s.active]
      BY <1>2, <2>1 DEF ActivatedFence
    <3> QED
      BY <1>0, <3>1, <3>2 DEF RecordOK, FenceRecord, GrantRecord, TokenAccepted
  <2>2. CASE f.token # s.highWater
    <3>1. ActivatedFence(s, f) = [highWater |-> f.token, active |-> f, previous |-> None]
      BY <1>2, <2>2 DEF ActivatedFence
    <3> QED
      BY <1>0, <3>1 DEF RecordOK, FenceRecord, GrantRecord, TokenAccepted
  <2> QED
    BY <2>1, <2>2
<1> QED
  BY <1>1, <1>2

\* The recorded grants of a node belong to one operation and the predecessor
\* expires first.
LEMMA RecordedGrants ==
    ASSUME NEW s \in FenceRecord, RecordOK(s), NEW f \in Grant,
           f = s.active \/ f = s.previous
    PROVE  /\ s.active \in Grant
           /\ f.op = s.active.op /\ f.token = s.active.token
           /\ f.expires <= s.active.expires
<1>0. f # None /\ f.expires \in Nat
  BY GrantAssumption DEF GrantRecord
<1>1. CASE f = s.active
  BY <1>0, <1>1
<1>2. CASE f = s.previous
  <2>1. s.active \in Grant /\ ValidFenceRenewal(f, s.active)
    BY <1>0, <1>2 DEF RecordOK, FenceRecord
  <2>2. s.active.expires \in Nat
    BY <2>1, GrantAssumption DEF GrantRecord
  <2> QED
    BY <1>0, <2>1, <2>2, RenewalSameOperation
<1> QED
  BY <1>1, <1>2

-----------------------------------------------------------------------------
(* The invariant is inductive.                                             *)

LEMMA InitIInv == Init => IInv
<1> SUFFICES ASSUME Init PROVE IInv
  OBVIOUS
<1>1. NoFence \in FenceRecord
  BY DEF NoFence, FenceRecord
<1>2. TypeOK
  BY <1>1 DEF Init, TypeOK
<1>3. \A n \in Node : NodeOK(n)
  BY DEF Init, NodeOK, RecordOK, NoFence, Lapsed, HeldForRecord
<1> QED
  BY <1>2, <1>3 DEF IInv

\* Nothing that NodeOK speaks of changes on node k.
SameAt(k) ==
    /\ clock'[k] = clock[k] /\ fenceState'[k] = fenceState[k] /\ barrier'[k] = barrier[k]
    /\ timers'[k] = timers[k] /\ maintenance'[k] = maintenance[k]
    /\ activating'[k] = activating[k] /\ running'[k] = running[k]

LEMMA Frame ==
    ASSUME NEW k \in Node, NodeOK(k), SameAt(k)
    PROVE  NodeOK(k)'
BY DEF NodeOK, SameAt, Lapsed, HeldForRecord, ActivationOK

\* A step of node n keeps the invariant if it keeps the node's part of it.
LEMMA StepOfNode ==
    ASSUME IInv, TypeOK', NEW n \in Node, NodeOK(n)', \A k \in Node \ {n} : SameAt(k)
    PROVE  IInv'
BY Frame DEF IInv

\* What is kept on a node when only the admitted handlers change.
LEMMA HandlersChange ==
    ASSUME IInv, NEW n \in Node, NEW R \in SUBSET Grant, NEW G \in [Node -> SUBSET Grant],
           running' = [running EXCEPT ![n] = R], gated' = G,
           \A f \in R : f = fenceState[n].active \/ f = fenceState[n].previous,
           activating[n] # None => R = {},
           UNCHANGED <<clock, durable, barrierVars, activating>>
    PROVE  IInv'
<1>1. TypeOK'
  BY DEF IInv, TypeOK, durable, barrierVars
<1>2. \A k \in Node \ {n} : SameAt(k)
  BY DEF IInv, TypeOK, durable, barrierVars, SameAt
<1>3. NodeOK(n)'
  BY DEF IInv, TypeOK, durable, barrierVars, NodeOK, Lapsed, HeldForRecord, ActivationOK
<1> QED
  BY <1>1, <1>2, <1>3, StepOfNode

\* activateWorkerFence without interference.
LEMMA ActivatePreserves ==
    ASSUME IInv, NEW n \in Node, NEW f \in Grant, ActivateFence(n, f)
    PROVE  IInv'
<1> DEFINE s == fenceState[n]
           t == ActivatedFence(s, f)
<1> USE DEF ActivateFence, AdmissionFree, ActivationAccepted, admission
<1>0. f \in GrantRecord /\ f # None /\ Hold(f) \in BarrierHold
  BY GrantAssumption DEF GrantRecord, BarrierHold, Hold
<1>1. s \in FenceRecord /\ RecordOK(s) /\ TokenAccepted(s, f) /\ running[n] = {}
      /\ activating[n] = None /\ maintenance[n] = {}
  BY DEF IInv, TypeOK, NodeOK
<1>2. t \in FenceRecord /\ RecordOK(t) /\ t.active = f
  BY <1>1, ActivatedRecord
<1>3. /\ fenceState' = [fenceState EXCEPT ![n] = t]
      /\ barrier' = [barrier EXCEPT ![n] = Hold(f)]
      /\ timers' = [timers EXCEPT ![n] = @ \cup {Hold(f)}]
  OBVIOUS
<1> HIDE DEF t, s
<1>4. TypeOK'
  BY <1>0, <1>2, <1>3 DEF IInv, TypeOK
<1>5. fenceState'[n] = t /\ barrier'[n] = Hold(f) /\ Hold(f) \in timers'[n]
  BY <1>3 DEF IInv, TypeOK
<1>6. NodeOK(n)'
  BY <1>0, <1>1, <1>2, <1>5 DEF NodeOK, Lapsed, HeldForRecord
<1>7. \A k \in Node \ {n} : SameAt(k)
  BY <1>3 DEF SameAt, IInv, TypeOK
<1> QED
  BY <1>4, <1>6, <1>7, StepOfNode

\* The checks of activateWorkerFence, up to the release of a displaced barrier.
LEMMA BeginPreserves ==
    ASSUME IInv, NEW n \in Node, NEW f \in Grant, BeginActivation(n, f)
    PROVE  IInv'
<1> DEFINE s == fenceState[n]
           a == [grant |-> f, stage |-> "hold", acquired |-> FALSE]
<1> USE DEF BeginActivation, durable
<1>0. f \in GrantRecord /\ f # None
  BY GrantAssumption
<1>1. /\ s \in FenceRecord /\ RecordOK(s) /\ TokenAccepted(s, f) /\ running[n] = {}
      /\ activating[n] = None /\ HeldForRecord(n)
  BY DEF IInv, TypeOK, NodeOK, AdmissionFree, ActivationAccepted
<1>2. a \in Activation /\ activating' = [activating EXCEPT ![n] = a]
  BY DEF Activation
<1>3. activating'[n] = a
  BY <1>2 DEF IInv, TypeOK
<1>4. /\ barrier' \in [Node -> BarrierHold \cup {None}]
      /\ \A k \in Node \ {n} : barrier'[k] = barrier[k]
      /\ barrier'[n] \in {barrier[n], None}
  BY DEF ReleaseBarrier, IInv, TypeOK
<1>5. f.token > s.highWater => barrier'[n] = None
  <2> SUFFICES ASSUME f.token > s.highWater, barrier[n] # None PROVE barrier'[n] = None
    BY <1>4
  <2>1. s.active # None /\ barrier[n] = Hold(s.active)
    BY <1>1 DEF HeldForRecord
  <2>2. barrier[n].op = s.active.op
    BY <2>1 DEF Hold
  <2> QED
    BY <2>1, <2>2 DEF ReleaseBarrier, IInv, TypeOK
<1>6. TypeOK'
  BY <1>2, <1>4 DEF IInv, TypeOK
<1>7. /\ clock'[n] = clock[n] /\ fenceState'[n] = s /\ timers'[n] = timers[n]
      /\ maintenance'[n] = maintenance[n] /\ running'[n] = {}
  BY <1>1
<1>8. HeldForRecord(n)'
  BY <1>1, <1>4, <1>7 DEF HeldForRecord
<1>9. ActivationOK(n)'
  BY <1>0, <1>1, <1>3, <1>5, <1>7, <1>8 DEF ActivationOK
<1>10. NodeOK(n)'
  BY <1>1, <1>4, <1>7, <1>8, <1>9 DEF IInv, NodeOK, Lapsed
<1>11. \A k \in Node \ {n} : SameAt(k)
  BY <1>2, <1>4 DEF SameAt, IInv, TypeOK
<1> QED
  BY <1>6, <1>10, <1>11, StepOfNode

\* holdOperationBarrier.
LEMMA HoldPreserves ==
    ASSUME IInv, NEW n \in Node, HoldBarrier(n)
    PROVE  IInv'
<1> DEFINE s == fenceState[n]
           a == activating[n]
           b == activating'[n]
<1> USE DEF HoldBarrier, AtStage, durable
<1>1. /\ a \in Activation /\ a # None /\ a.stage = "hold" /\ a.grant \in Grant
      /\ s \in FenceRecord /\ RecordOK(s) /\ TokenAccepted(s, a.grant) /\ running[n] = {}
      /\ HeldForRecord(n) /\ (a.grant.token > s.highWater => barrier[n] = None)
      /\ maintenance[n] # {} => barrier[n] = None
  BY DEF IInv, TypeOK, NodeOK, ActivationOK, Activation
<1>2. a.grant.token \in Nat /\ s.highWater \in Nat /\ a.grant.token >= s.highWater
  BY <1>1, GrantAssumption DEF GrantRecord, FenceRecord, TokenAccepted
<1>3. /\ activating' \in [Node -> Activation \cup {None}]
      /\ \A k \in Node \ {n} : activating'[k] = activating[k]
      /\ b \in Activation /\ b.grant = a.grant /\ b.stage = "write"
      /\ b.acquired = (barrier[n] = None)
  BY <1>1 DEF IInv, TypeOK, Activation
<1>4. Hold(a.grant) \in BarrierHold
  BY <1>1, GrantAssumption DEF GrantRecord, BarrierHold, Hold
<1>5. /\ barrier' \in [Node -> BarrierHold \cup {None}]
      /\ \A k \in Node \ {n} : barrier'[k] = barrier[k]
      /\ barrier[n] # None => barrier'[n] = barrier[n]
      /\ barrier[n] = None => barrier'[n] = Hold(a.grant)
      /\ maintenance[n] = {}
  BY <1>1, <1>4 DEF IInv, TypeOK
<1>6. TypeOK'
  BY <1>3, <1>5 DEF IInv, TypeOK
<1>7. /\ clock'[n] = clock[n] /\ fenceState'[n] = s /\ timers'[n] = timers[n]
      /\ maintenance'[n] = {} /\ running'[n] = {}
  BY <1>1, <1>5
<1>8. ActivationOK(n)'
  <2>1. barrier[n] # None => HeldForRecord(n)' /\ a.grant.token = s.highWater
    BY <1>1, <1>2, <1>5, <1>7 DEF HeldForRecord
  <2> QED
    BY <1>1, <1>3, <1>5, <1>7, <2>1 DEF ActivationOK
<1>9. NodeOK(n)'
  <2>1. activating'[n] # None
    BY <1>3, NoneAssumption
  <2> QED
    BY <1>1, <1>7, <1>8, <2>1 DEF NodeOK, Lapsed
<1>10. \A k \in Node \ {n} : SameAt(k)
  BY <1>3, <1>5 DEF SameAt, IInv, TypeOK
<1> QED
  BY <1>6, <1>9, <1>10, StepOfNode

\* The record is written between holding and binding the barrier.
LEMMA WritePreserves ==
    ASSUME IInv, NEW n \in Node, WriteFence(n)
    PROVE  IInv'
<1> DEFINE s == fenceState[n]
           a == activating[n]
           b == activating'[n]
           t == ActivatedFence(s, a.grant)
<1> USE DEF WriteFence, AtStage, barrierVars
<1>1. /\ a \in Activation /\ a # None /\ a.stage = "write" /\ a.grant \in Grant /\ a.grant # None
      /\ s \in FenceRecord /\ RecordOK(s) /\ TokenAccepted(s, a.grant) /\ running[n] = {}
      /\ clock[n] \in Nat
  BY GrantAssumption DEF IInv, TypeOK, NodeOK, ActivationOK, Activation
<1>2. /\ t \in FenceRecord /\ RecordOK(t) /\ t.active = a.grant /\ t.highWater = a.grant.token
  BY <1>1, ActivatedRecord
<1>3. /\ fenceState' = [fenceState EXCEPT ![n] = t] /\ fenceState'[n] = t
      /\ \A k \in Node \ {n} : fenceState'[k] = fenceState[k]
  BY DEF IInv, TypeOK
<1>4. /\ activating' \in [Node -> Activation \cup {None}]
      /\ \A k \in Node \ {n} : activating'[k] = activating[k]
      /\ b \in Activation /\ b.grant = a.grant /\ b.stage = "bind"
  BY <1>1 DEF IInv, TypeOK, Activation
<1>5. maintenance[n] # {} =>
        \/ Expired(a.grant, clock[n])
        \/ t.previous # None /\ Expired(t.previous, clock[n])
  <2> SUFFICES ASSUME maintenance[n] # {}
               PROVE  \/ Expired(a.grant, clock[n])
                      \/ t.previous # None /\ Expired(t.previous, clock[n])
    OBVIOUS
  <2>0. /\ barrier[n] = None /\ Lapsed(n)
        /\ s.active # None => Expired(s.active, clock[n])
        /\ ~a.acquired => a.grant.token = s.highWater
        /\ a.acquired => barrier[n] = Hold(a.grant) \/ Expired(a.grant, clock[n])
    BY <1>1 DEF IInv, NodeOK, ActivationOK
  <2>1. CASE a.acquired
    BY <2>0, <2>1, NoneAssumption, <1>1, GrantAssumption DEF Hold, BarrierHold, GrantRecord
  <2>2. CASE ~a.acquired
    <3>1. s.active # None /\ a.grant.token = s.highWater
      BY <1>1, <2>0, <2>2 DEF TokenAccepted
    <3>2. CASE a.grant = s.active
      BY <2>0, <3>1, <3>2
    <3>3. CASE a.grant # s.active
      <4>1. t.previous = s.active
        BY <3>1, <3>3 DEF ActivatedFence
      <4> QED
        BY <2>0, <3>1, <4>1
    <3> QED
      BY <3>2, <3>3
  <2> QED
    BY <1>1, <2>1, <2>2 DEF Activation
<1> HIDE DEF t
<1>6. TypeOK'
  BY <1>2, <1>3, <1>4 DEF IInv, TypeOK
<1>7. /\ clock'[n] = clock[n] /\ maintenance'[n] = maintenance[n] /\ running'[n] = {}
      /\ barrier'[n] = barrier[n]
  BY <1>1
<1>8. TokenAccepted(t, a.grant)
  BY <1>1, <1>2, GrantAssumption DEF TokenAccepted, GrantRecord
<1>9. ActivationOK(n)'
  BY <1>2, <1>3, <1>4, <1>7, <1>8 DEF ActivationOK
<1>10. NodeOK(n)'
  <2>1. maintenance[n] # {} => barrier[n] = None
    BY DEF IInv, NodeOK
  <2> QED
    BY <1>2, <1>3, <1>4, <1>5, <1>7, <1>9, <2>1, NoneAssumption DEF NodeOK, Lapsed
<1>11. \A k \in Node \ {n} : SameAt(k)
  BY <1>3, <1>4 DEF SameAt, IInv, TypeOK
<1> QED
  BY <1>6, <1>10, <1>11, StepOfNode

\* holdOperationBarrier returns an error: only the activation ends.
LEMMA HoldFailsPreserves ==
    ASSUME IInv, NEW n \in Node, HoldBarrierFails(n)
    PROVE  IInv'
<1> USE DEF HoldBarrierFails, AtStage, durable, barrierVars
<1>1. /\ activating[n] # None /\ running[n] = {}
      /\ barrier[n] = None
  BY DEF IInv, NodeOK, ActivationOK
<1>2. /\ activating' \in [Node -> Activation \cup {None}] /\ activating'[n] = None
      /\ \A k \in Node \ {n} : activating'[k] = activating[k]
  BY DEF IInv, TypeOK
<1>3. TypeOK'
  BY <1>2 DEF IInv, TypeOK
<1>4. NodeOK(n)'
  BY <1>1, <1>2 DEF IInv, NodeOK, Lapsed, HeldForRecord
<1>5. \A k \in Node \ {n} : SameAt(k)
  BY <1>2 DEF SameAt
<1> QED
  BY <1>3, <1>4, <1>5, StepOfNode

LEMMA WriteFailsPreserves ==
    ASSUME IInv, NEW n \in Node, WriteFenceFails(n)
    PROVE  IInv'
<1> DEFINE s == fenceState[n]
           a == activating[n]
<1> USE DEF WriteFenceFails, AtStage, durable
<1>1. /\ a \in Activation /\ a # None /\ a.stage = "write" /\ running[n] = {}
      /\ a.acquired => barrier[n] = Hold(a.grant) \/ barrier[n] = None
      /\ ~a.acquired => HeldForRecord(n)
  BY DEF IInv, TypeOK, NodeOK, ActivationOK
<1>2. /\ barrier' \in [Node -> BarrierHold \cup {None}]
      /\ \A k \in Node \ {n} : barrier'[k] = barrier[k]
      /\ barrier'[n] \in {barrier[n], None}
  BY DEF ReleaseBarrier, IInv, TypeOK
<1>3. /\ activating' \in [Node -> Activation \cup {None}] /\ activating'[n] = None
      /\ \A k \in Node \ {n} : activating'[k] = activating[k]
  BY DEF IInv, TypeOK
<1>4. a.acquired => barrier'[n] = None
  BY <1>1 DEF ReleaseBarrier, IInv, TypeOK, Hold
<1>5. TypeOK'
  BY <1>2, <1>3 DEF IInv, TypeOK
<1>6. /\ clock'[n] = clock[n] /\ maintenance'[n] = maintenance[n] /\ running'[n] = {}
      /\ fenceState'[n] = s /\ timers'[n] = timers[n]
  BY <1>1
<1>7. HeldForRecord(n)'
  BY <1>1, <1>2, <1>4, <1>6 DEF HeldForRecord
<1>8. NodeOK(n)'
  BY <1>2, <1>3, <1>6, <1>7 DEF IInv, NodeOK, Lapsed
<1>9. \A k \in Node \ {n} : SameAt(k)
  BY <1>2, <1>3 DEF SameAt, IInv, TypeOK
<1> QED
  BY <1>5, <1>8, <1>9, StepOfNode

\* bindOperationBarrier and expireOperationBarrier.
LEMMA BindPreserves ==
    ASSUME IInv, NEW n \in Node, BindBarrier(n)
    PROVE  IInv'
<1> DEFINE s == fenceState[n]
           h == Hold(activating[n].grant)
<1> USE DEF BindBarrier, AtStage, durable
<1>1. /\ activating[n] \in Activation /\ activating[n].grant \in Grant /\ running[n] = {}
      /\ s.active = activating[n].grant /\ s.active # None /\ h = Hold(s.active)
  BY GrantAssumption DEF IInv, TypeOK, NodeOK, ActivationOK, Activation
<1>2. h \in BarrierHold
  BY <1>1, GrantAssumption DEF GrantRecord, BarrierHold, Hold
<1>3. /\ barrier' \in [Node -> BarrierHold \cup {None}]
      /\ \A k \in Node \ {n} : barrier'[k] = barrier[k] /\ timers'[k] = timers[k]
      /\ barrier[n] = None => barrier'[n] = None
      /\ barrier[n] # None => barrier'[n] = h
      /\ timers' \in [Node -> SUBSET BarrierHold] /\ h \in timers'[n]
  BY <1>2 DEF IInv, TypeOK
<1>4. /\ activating' \in [Node -> Activation \cup {None}] /\ activating'[n] = None
      /\ \A k \in Node \ {n} : activating'[k] = activating[k]
  BY DEF IInv, TypeOK
<1>5. TypeOK'
  BY <1>3, <1>4 DEF IInv, TypeOK
<1>6. /\ clock'[n] = clock[n] /\ maintenance'[n] = maintenance[n] /\ running'[n] = {}
      /\ fenceState'[n] = s
  BY <1>1
<1>7. HeldForRecord(n)'
  BY <1>1, <1>3, <1>6 DEF HeldForRecord
<1>8. NodeOK(n)'
  BY <1>3, <1>4, <1>6, <1>7 DEF IInv, NodeOK, Lapsed
<1>9. \A k \in Node \ {n} : SameAt(k)
  BY <1>3, <1>4 DEF SameAt, IInv, TypeOK
<1> QED
  BY <1>5, <1>8, <1>9, StepOfNode

LEMMA RevokePreserves ==
    ASSUME IInv, NEW n \in Node, NEW f \in Grant, RevokeFence(n, f)
    PROVE  IInv'
<1> USE DEF RevokeFence, admission
<1>0. /\ fenceState[n] \in FenceRecord /\ RecordOK(fenceState[n]) /\ running[n] = {}
      /\ activating[n] = None /\ HeldForRecord(n)
  BY DEF IInv, TypeOK, NodeOK, AdmissionFree
<1>1. /\ fenceState' \in [Node -> FenceRecord]
      /\ fenceState'[n].active = None /\ fenceState'[n].previous = None
      /\ \A k \in Node \ {n} : fenceState'[k] = fenceState[k]
  BY <1>0 DEF IInv, TypeOK, FenceRecord
<1>2. barrier' \in [Node -> BarrierHold \cup {None}] /\ \A k \in Node \ {n} : barrier'[k] = barrier[k]
  BY DEF ReleaseBarrier, IInv, TypeOK
<1>3. barrier'[n] = None
  <2> SUFFICES ASSUME barrier[n] # None PROVE barrier[n].op = f.op
    BY DEF ReleaseBarrier, IInv, TypeOK
  <2>1. fenceState[n].active # None /\ barrier[n] = Hold(fenceState[n].active)
    BY <1>0 DEF HeldForRecord
  <2>2. barrier[n].op = fenceState[n].active.op
    BY <2>1 DEF Hold
  <2>3. f = fenceState[n].active \/ f = fenceState[n].previous
    BY <2>1 DEF RevocationAccepted, ExactFence
  <2> QED
    BY <1>0, <2>2, <2>3, RecordedGrants
<1>4. TypeOK'
  BY <1>1, <1>2 DEF IInv, TypeOK
<1>5. NodeOK(n)'
  BY <1>0, <1>1, <1>3 DEF NodeOK, RecordOK, Lapsed, HeldForRecord
<1>6. \A k \in Node \ {n} : SameAt(k)
  BY <1>1, <1>2 DEF SameAt
<1> QED
  BY <1>4, <1>5, <1>6, StepOfNode

\* expireOperationBarrier's goroutine.
LEMMA TimerPreserves ==
    ASSUME IInv, NEW n \in Node, NEW t \in timers[n], BarrierTimer(n, t)
    PROVE  IInv'
<1> USE DEF BarrierTimer, durable, admission
<1>0. t \in BarrierHold /\ clock[n] \in Nat /\ (barrier[n] # None => barrier[n] \in BarrierHold)
      /\ fenceState[n] \in FenceRecord /\ (activating[n] # None => activating[n].grant \in Grant)
  BY DEF IInv, TypeOK, Activation
<1>1. /\ barrier' \in [Node -> BarrierHold \cup {None}]
      /\ timers' \in [Node -> SUBSET BarrierHold]
      /\ \A k \in Node \ {n} : barrier'[k] = barrier[k] /\ timers'[k] = timers[k]
      /\ timers'[n] = timers[n] \ {t}
      /\ \/ barrier'[n] = barrier[n]
         \/ barrier'[n] = None /\ clock[n] >= barrier[n].expires
      /\ barrier[n] = None => barrier'[n] = None
      /\ barrier'[n] # None => barrier[n] # t
  BY <1>0 DEF IInv, TypeOK, BarrierHold
<1>2. TypeOK'
  BY <1>1 DEF IInv, TypeOK
<1>3. HeldForRecord(n) => HeldForRecord(n)'
  BY <1>1 DEF HeldForRecord
<1>4. ASSUME activating[n] # None, barrier[n] = Hold(activating[n].grant),
             barrier'[n] # Hold(activating[n].grant)
      PROVE  barrier'[n] = None /\ Expired(activating[n].grant, clock[n])
  BY <1>1, <1>4 DEF Hold, Expired
<1>5. activating[n] # None => ActivationOK(n)'
  BY <1>0, <1>1, <1>3, <1>4 DEF IInv, NodeOK, ActivationOK
<1>6. NodeOK(n)'
  BY <1>1, <1>3, <1>5 DEF IInv, NodeOK, Lapsed
<1>7. \A k \in Node \ {n} : SameAt(k)
  BY <1>1 DEF SameAt
<1> QED
  BY <1>2, <1>6, <1>7, StepOfNode

LEMMA MaintenancePreserves ==
    ASSUME IInv, NEW n \in Node, NEW t \in MaintenanceTask,
           StartMaintenance(n, t) \/ EndMaintenance(n, t)
    PROVE  IInv'
<1> USE DEF StartMaintenance, EndMaintenance, durable, admission
<1>1. TypeOK'
  BY DEF IInv, TypeOK
<1>2. /\ maintenance'[n] # {} => \/ maintenance[n] # {}
                                 \/ barrier[n] = None /\ ~ActiveWorkerOperation(n)
      /\ \A k \in Node \ {n} : maintenance'[k] = maintenance[k]
  BY DEF IInv, TypeOK
<1>3. /\ clock'[n] = clock[n] /\ running'[n] = running[n] /\ fenceState'[n] = fenceState[n]
      /\ timers'[n] = timers[n] /\ barrier'[n] = barrier[n] /\ activating'[n] = activating[n]
  OBVIOUS
<1>4. NodeOK(n)'
  BY <1>2, <1>3 DEF IInv, NodeOK, Lapsed, HeldForRecord, ActivationOK, ActiveWorkerOperation
<1>5. \A k \in Node \ {n} : SameAt(k)
  BY <1>2 DEF SameAt
<1> QED
  BY <1>1, <1>4, <1>5, StepOfNode

LEMMA TickPreserves ==
    ASSUME IInv, NEW n \in Node, Tick(n)
    PROVE  IInv'
<1> USE DEF Tick, durable, barrierVars, admission
<1>1. TypeOK'
  BY DEF IInv, TypeOK
<1>2. /\ clock[n] \in Nat /\ clock'[n] = clock[n] + 1
      /\ \A k \in Node \ {n} : clock'[k] = clock[k]
  BY DEF IInv, TypeOK
<1>3. \A f \in Grant : Expired(f, clock[n]) => Expired(f, clock'[n])
  BY <1>2, GrantAssumption DEF Expired, GrantRecord
<1>4. /\ running'[n] = running[n] /\ fenceState'[n] = fenceState[n]
      /\ timers'[n] = timers[n] /\ barrier'[n] = barrier[n] /\ activating'[n] = activating[n]
      /\ maintenance'[n] = maintenance[n]
  OBVIOUS
<1>5. /\ fenceState[n].active # None => fenceState[n].active \in Grant
      /\ fenceState[n].previous # None => fenceState[n].previous \in Grant
      /\ activating[n] # None => activating[n].grant \in Grant
  BY DEF IInv, TypeOK, FenceRecord, Activation
<1>6. Lapsed(n)' /\ (HeldForRecord(n) => HeldForRecord(n)')
  BY <1>3, <1>4, <1>5 DEF IInv, NodeOK, Lapsed, HeldForRecord
<1>7. activating[n] # None => ActivationOK(n)'
  BY <1>3, <1>4, <1>5, <1>6 DEF IInv, NodeOK, ActivationOK
<1>8. NodeOK(n)'
  BY <1>4, <1>6, <1>7 DEF IInv, NodeOK
<1>9. \A k \in Node \ {n} : SameAt(k)
  BY <1>2 DEF SameAt
<1> QED
  BY <1>1, <1>8, <1>9, StepOfNode

LEMMA NextIInv == IInv /\ [Next]_workerVars => IInv'
<1> SUFFICES ASSUME IInv, [Next]_workerVars PROVE IInv'
  OBVIOUS
<1>0. \A k \in Node : running[k] \subseteq Grant /\ NodeOK(k)
  BY DEF IInv, TypeOK
<1>1. ASSUME NEW n \in Node, NEW f \in Grant, PassDenyLatch(n, f) PROVE IInv'
  <2>1. /\ running' = [running EXCEPT ![n] = running[n]] /\ gated' \in [Node -> SUBSET Grant]
        /\ UNCHANGED <<clock, durable, barrierVars, activating>>
    BY <1>1 DEF PassDenyLatch, IInv, TypeOK
  <2> QED
    BY <1>0, <2>1, HandlersChange DEF NodeOK, ActivationOK
<1>2. ASSUME NEW n \in Node, NEW f \in Grant, NEW path, AdmitMutation(n, f, path) PROVE IInv'
  <2> DEFINE R == running'[n]
  <2>1. /\ R \in SUBSET Grant /\ running' = [running EXCEPT ![n] = R]
        /\ gated' \in [Node -> SUBSET Grant] /\ activating[n] = None
        /\ UNCHANGED <<clock, durable, barrierVars, activating>>
    BY <1>2 DEF AdmitMutation, IInv, TypeOK
  <2>2. \A g \in R : g = fenceState[n].active \/ g = fenceState[n].previous
    BY <1>0, <1>2 DEF AdmitMutation, NodeOK, ValidMutationFence, ExactFence, IInv, TypeOK
  <2> HIDE DEF R
  <2> QED
    BY <2>1, <2>2, HandlersChange
<1>3. ASSUME NEW n \in Node, NEW f \in Grant, FinishMutation(n, f) PROVE IInv'
  <2>1. /\ running' = [running EXCEPT ![n] = running[n] \ {f}] /\ gated' = gated
        /\ gated \in [Node -> SUBSET Grant] /\ running[n] \ {f} \in SUBSET Grant
        /\ UNCHANGED <<clock, durable, barrierVars, activating>>
    BY <1>3 DEF FinishMutation, IInv, TypeOK
  <2> QED
    BY <1>0, <2>1, HandlersChange DEF NodeOK, ActivationOK
<1>4. ASSUME NEW n \in Node, NEW v \in Inventory, AcceptInventory(n, v) \/ InstallInventory(n, v)
      PROVE IInv'
  <2> USE DEF AcceptInventory, InstallInventory, barrierVars, admission
  <2>1. TypeOK'
    BY <1>4 DEF IInv, TypeOK
  <2> QED
    BY <1>0, <1>4, <2>1, Frame DEF IInv, SameAt
<1>5. ASSUME NEW n \in Node, NEW d \in BOOLEAN, SetDenyLatch(n, d) PROVE IInv'
  <2> USE DEF SetDenyLatch, barrierVars, admission
  <2>1. TypeOK'
    BY <1>5 DEF IInv, TypeOK
  <2> QED
    BY <1>0, <1>5, <2>1, Frame DEF IInv, SameAt
<1>6. ASSUME NEW n \in Node, RestartTakod(n) PROVE IInv'
  <2> USE DEF RestartTakod, durable
  <2>1. TypeOK'
    BY <1>6 DEF IInv, TypeOK
  <2>2. NodeOK(n)'
    BY <1>0, <1>6 DEF IInv, TypeOK, NodeOK, Lapsed, HeldForRecord
  <2>3. \A k \in Node \ {n} : SameAt(k)
    BY <1>6 DEF IInv, TypeOK, SameAt
  <2> QED
    BY <2>1, <2>2, <2>3, StepOfNode
<1>7. ASSUME UNCHANGED workerVars PROVE IInv'
  <2>1. TypeOK'
    BY <1>7 DEF IInv, TypeOK, workerVars
  <2> QED
    BY <1>0, <1>7, <2>1, Frame DEF IInv, SameAt, workerVars
<1> QED
  BY <1>1, <1>2, <1>3, <1>4, <1>5, <1>6, <1>7, ActivatePreserves, BeginPreserves, HoldPreserves,
     HoldFailsPreserves, WritePreserves, WriteFailsPreserves, BindPreserves, RevokePreserves,
     TimerPreserves,
     MaintenancePreserves, TickPreserves DEF Next, FenceStep, MaintenanceStep, NodeStep

\* Every reachable state satisfies the inductive invariant.
THEOREM Invariance == Spec => []IInv
<1> QED
  BY InitIInv, NextIInv, PTL DEF Spec

-----------------------------------------------------------------------------
(* The properties.                                                         *)

\* Every variable of a node keeps its type, for any constants.
THEOREM TypeCorrect == Spec => []TypeOK
<1>1. IInv => TypeOK
  BY DEF IInv
<1> QED
  BY <1>1, Invariance, PTL

\* No activation, revocation, renewal, restart or file replacement takes the
\* record away under an admitted handler (workerFenceAdmissionMu).
THEOREM AdmittedUnderRecord == Spec => []RunningUnderGrant
<1>1. IInv => RunningUnderGrant
  BY DEF IInv, NodeOK, RunningUnderGrant
<1> QED
  BY <1>1, Invariance, PTL

\* Two operations never mutate one node at the same time, for any clocks and
\* any grants a controller may sign (controlOperationStatePath).
THEOREM SingleWriter == Spec => []NodeSingleWriter
<1>1. ASSUME IInv PROVE NodeSingleWriter
  <2> SUFFICES ASSUME NEW n \in Node, NEW f \in running[n], NEW g \in running[n]
               PROVE  f.op = g.op /\ f.token = g.token
    BY DEF NodeSingleWriter
  <2>1. fenceState[n] \in FenceRecord /\ f \in Grant /\ g \in Grant
    BY <1>1 DEF IInv, TypeOK
  <2>2. RecordOK(fenceState[n])
    BY <1>1 DEF IInv, NodeOK
  <2>3. /\ f = fenceState[n].active \/ f = fenceState[n].previous
        /\ g = fenceState[n].active \/ g = fenceState[n].previous
    BY <1>1 DEF IInv, NodeOK
  <2> QED
    BY <2>1, <2>2, <2>3, RecordedGrants
<1> QED
  BY <1>1, Invariance, PTL

\* Maintenance meets a mutation within its grant only where a renewal was
\* recorded after its predecessor had lapsed (AcquireMaintenanceBarrier,
\* activeWorkerOperation, and the window between holdOperationBarrier and
\* bindOperationBarrier).
THEOREM OverlapBounded == Spec => []OverlapOnlyAfterLapse
<1>1. ASSUME IInv PROVE OverlapOnlyAfterLapse
  <2> SUFFICES ASSUME NEW n \in Node, maintenance[n] # {}, NEW f \in running[n],
                      ~Expired(f, clock[n])
               PROVE  /\ f = fenceState[n].active
                      /\ fenceState[n].previous # None
                      /\ Expired(fenceState[n].previous, clock[n])
    BY DEF OverlapOnlyAfterLapse
  <2>1. fenceState[n] \in FenceRecord /\ f \in Grant /\ f # None /\ clock[n] \in Nat
    BY <1>1, GrantAssumption DEF IInv, TypeOK
  <2>2. /\ RecordOK(fenceState[n]) /\ Lapsed(n)
        /\ f = fenceState[n].active \/ f = fenceState[n].previous
    BY <1>1 DEF IInv, NodeOK
  <2>3. fenceState[n].active \in Grant /\ f.expires <= fenceState[n].active.expires
    BY <2>1, <2>2, RecordedGrants
  <2>4. f.expires \in Nat /\ fenceState[n].active.expires \in Nat /\ fenceState[n].active # None
    BY <2>1, <2>3, GrantAssumption DEF GrantRecord
  <2>5. ~Expired(fenceState[n].active, clock[n])
    BY <2>1, <2>3, <2>4 DEF Expired
  <2> QED
    BY <2>2, <2>4, <2>5 DEF Lapsed
<1> QED
  BY <1>1, Invariance, PTL

\* Between activations a held barrier is bound to the recorded operation and has
\* a pending timer for exactly its expiry (bindOperationBarrier,
\* expireOperationBarrier).
THEOREM BarrierTimed == Spec => []BarrierHasTimer
<1>1. IInv => BarrierHasTimer
  BY DEF IInv, NodeOK, HeldForRecord, BarrierHasTimer
<1> QED
  BY <1>1, Invariance, PTL

\* The record an activation was checked against is still there when it writes.
LEMMA AcceptedHolds ==
    ASSUME IInv, NEW n \in Node, WriteFence(n)
    PROVE  /\ activating[n].grant \in Grant
           /\ TokenAccepted(fenceState[n], activating[n].grant)
           /\ running[n] = {}
BY DEF IInv, TypeOK, NodeOK, ActivationOK, WriteFence, AtStage, Activation

\* What one step may do to the record of a node.
RecordStep(s, t) ==
    \/ t = s
    \/ \E f \in Grant : TokenAccepted(s, f) /\ t = ActivatedFence(s, f)
    \/ t.highWater = s.highWater /\ t.active = None

LEMMA NextRecordStep ==
    ASSUME IInv, [Next]_workerVars, NEW n \in Node
    PROVE  RecordStep(fenceState[n], fenceState'[n])
<1> USE DEF RecordStep
<1>0. fenceState \in [Node -> FenceRecord]
  BY DEF IInv, TypeOK
<1>1. ASSUME NEW k \in Node, NEW f \in Grant, ActivateFence(k, f)
      PROVE  RecordStep(fenceState[n], fenceState'[n])
  BY <1>0, <1>1 DEF ActivateFence, ActivationAccepted
<1>2. ASSUME NEW k \in Node, WriteFence(k)
      PROVE  RecordStep(fenceState[n], fenceState'[n])
  <2>1. activating[k].grant \in Grant /\ TokenAccepted(fenceState[k], activating[k].grant)
    BY <1>2, AcceptedHolds
  <2> QED
    BY <1>0, <1>2, <2>1 DEF WriteFence
<1>3. ASSUME NEW k \in Node, NEW f \in Grant, RevokeFence(k, f)
      PROVE  RecordStep(fenceState[n], fenceState'[n])
  BY <1>0, <1>3 DEF RevokeFence, FenceRecord
<1>4. CASE UNCHANGED fenceState
  BY <1>4
<1> QED
  BY <1>1, <1>2, <1>3, <1>4 DEF Next, FenceStep, MaintenanceStep, NodeStep, workerVars,
     PassDenyLatch, AdmitMutation, FinishMutation, BeginActivation, HoldBarrier,
     HoldBarrierFails, WriteFenceFails, BindBarrier, BarrierTimer, StartMaintenance, EndMaintenance,
     AcceptInventory, InstallInventory, SetDenyLatch, RestartTakod, Tick, durable

\* The high-water mark never falls and a revoked or displaced token never
\* becomes active again, across restarts and replayed requests
\* (activateWorkerFence, revokeWorkerFenceWithFence).
THEOREM SpentTokens == Spec => SpentTokenStaysSpent
<1> DEFINE Safe(s, t) ==
             /\ t.highWater >= s.highWater
             /\ t.active # None /\ (s.active = None \/ s.active.op # t.active.op)
                  => t.active.token > s.highWater
<1>1. ASSUME NEW s \in FenceRecord, NEW t, RecordOK(s), RecordStep(s, t)
      PROVE  Safe(s, t)
  <2>1. CASE t = s
    BY <2>1 DEF FenceRecord
  <2>2. ASSUME NEW f \in Grant, TokenAccepted(s, f), t = ActivatedFence(s, f) PROVE Safe(s, t)
    <3>1. t.active = f /\ t.highWater = f.token /\ f.token >= s.highWater
      BY <1>1, <2>2, ActivatedRecord
    <3>2. f.token \in Nat /\ s.highWater \in Nat
      BY GrantAssumption DEF GrantRecord, FenceRecord
    <3>3. CASE f.token = s.highWater
      <4>1. s.active \in Grant /\ s.active.op = f.op
        BY <2>2, <3>3, RenewalSameOperation DEF TokenAccepted, FenceRecord
      <4> QED
        BY <3>1, <3>2, <4>1, GrantAssumption
    <3> QED
      BY <3>1, <3>2, <3>3
  <2>3. CASE t.highWater = s.highWater /\ t.active = None
    BY <2>3 DEF FenceRecord
  <2> QED
    BY <1>1, <2>1, <2>2, <2>3 DEF RecordStep
<1>2. IInv /\ [Next]_workerVars =>
        [\A n \in Node : Safe(fenceState[n], fenceState'[n])]_workerVars
  <2> SUFFICES ASSUME IInv, [Next]_workerVars, NEW n \in Node
               PROVE  Safe(fenceState[n], fenceState'[n])
    OBVIOUS
  <2>1. fenceState[n] \in FenceRecord /\ RecordOK(fenceState[n])
    BY DEF IInv, TypeOK, NodeOK
  <2> QED
    BY <1>1, <2>1, NextRecordStep
<1> QED
  BY <1>2, Invariance, PTL DEF Spec, SpentTokenStaysSpent

-----------------------------------------------------------------------------
(* The fence implements a single-writer register per node.                 *)

WriterOps(R) == {f.op : f \in R}
OwnerOf(s) == WriterOps({s.active} \ {None})

\* The register of node n before and after a step.
Owner == [n \in Node |-> OwnerOf(fenceState[n])]
HighWater == [n \in Node |-> fenceState[n].highWater]
Writers == [n \in Node |-> WriterOps(running[n])]

LEMMA RegisterView ==
    /\ Register!Init <=> /\ HighWater = [n \in Node |-> 0]
                         /\ Owner = [n \in Node |-> {}]
                         /\ Writers = [n \in Node |-> {}]
    /\ \A n \in Node : Register!Release(n) <=>
          /\ Writers[n] = {} /\ Owner' = [Owner EXCEPT ![n] = {}]
          /\ UNCHANGED <<HighWater, Writers>>
    /\ \A n \in Node : Register!Enter(n) <=>
          /\ Owner[n] # {} /\ Writers' = [Writers EXCEPT ![n] = @ \cup Owner[n]]
          /\ UNCHANGED <<HighWater, Owner>>
    /\ \A n \in Node : Register!Leave(n) <=>
          Writers' = [Writers EXCEPT ![n] = {}] /\ UNCHANGED <<HighWater, Owner>>
    /\ \A n \in Node, l \in {<<f.token, f.op>> : f \in Grant} : Register!Acquire(n, l) <=>
          /\ Writers[n] = {} /\ l[1] > HighWater[n]
          /\ HighWater' = [HighWater EXCEPT ![n] = l[1]]
          /\ Owner' = [Owner EXCEPT ![n] = {l[2]}]
          /\ UNCHANGED Writers
    /\ (UNCHANGED Register!fenceVars) <=> UNCHANGED <<HighWater, Owner, Writers>>
BY DEF Register!Init, Register!Release, Register!Enter, Register!Leave, Register!Acquire,
       Register!fenceVars, Owner, HighWater, Writers, OwnerOf, WriterOps

\* All handlers on a node belong to the operation that the record names.
LEMMA RecordedWriters ==
    ASSUME IInv, NEW n \in Node, NEW f \in Grant,
           f = fenceState[n].active \/ f = fenceState[n].previous
    PROVE  OwnerOf(fenceState[n]) = {f.op}
<1> DEFINE s == fenceState[n]
<1>1. s \in FenceRecord /\ f # None
  BY GrantAssumption DEF IInv, TypeOK
<1>2. CASE f = s.active
  BY <1>1, <1>2 DEF OwnerOf, WriterOps
<1>3. CASE f = s.previous
  <2>1. s.active # None /\ ValidFenceRenewal(f, s.active)
    BY <1>1, <1>3 DEF IInv, NodeOK, RecordOK
  <2>2. s.active \in Grant
    BY <1>1, <2>1 DEF FenceRecord
  <2> QED
    BY <2>1, <2>2, RenewalSameOperation DEF OwnerOf, WriterOps
<1> QED
  BY <1>2, <1>3

\* Activation of an accepted grant: a new owner, or the owner as before.
LEMMA ActivationOwns ==
    ASSUME IInv, NEW n \in Node, NEW f \in Grant, TokenAccepted(fenceState[n], f),
           fenceState' = [fenceState EXCEPT ![n] = ActivatedFence(@, f)],
           running[n] = {}, UNCHANGED running
    PROVE  (\E l \in {<<g.token, g.op>> : g \in Grant} : Register!Acquire(n, l))
             \/ UNCHANGED Register!fenceVars
<1> DEFINE s == fenceState[n]
           t == fenceState'[n]
           l == <<f.token, f.op>>
<1>1. /\ fenceState \in [Node -> FenceRecord] /\ s \in FenceRecord /\ RecordOK(s)
      /\ fenceState' = [fenceState EXCEPT ![n] = ActivatedFence(s, f)]
  BY DEF IInv, TypeOK, NodeOK
<1>2. t.active = f /\ t.highWater = f.token /\ f.token >= s.highWater /\ f # None
  BY <1>1, ActivatedRecord, GrantAssumption
<1>3. f.token \in Nat /\ s.highWater \in Nat
  BY <1>1, GrantAssumption DEF GrantRecord, FenceRecord
<1>4. OwnerOf(t) = {f.op}
  BY <1>2 DEF OwnerOf, WriterOps
<1>5. /\ HighWater' = [HighWater EXCEPT ![n] = f.token]
      /\ Owner' = [Owner EXCEPT ![n] = {f.op}]
      /\ Writers' = Writers /\ Writers[n] = {}
  BY <1>1, <1>2, <1>4 DEF HighWater, Owner, Writers, WriterOps
<1>6. CASE f.token = s.highWater
  <2>1. s.active \in Grant /\ s.active # None /\ s.active.op = f.op
    BY <1>1, <1>6, RenewalSameOperation DEF TokenAccepted, FenceRecord
  <2>2. HighWater[n] = f.token /\ Owner[n] = {f.op}
    BY <1>6, <2>1 DEF HighWater, Owner, OwnerOf, WriterOps
  <2>3. UNCHANGED <<HighWater, Owner, Writers>>
    BY <1>5, <2>2 DEF HighWater, Owner
  <2> QED
    BY <2>3, RegisterView
<1>7. CASE f.token # s.highWater
  <2>1. l \in {<<g.token, g.op>> : g \in Grant} /\ l[1] = f.token /\ l[2] = f.op
    OBVIOUS
  <2>2. f.token > HighWater[n]
    BY <1>2, <1>3, <1>7 DEF HighWater
  <2> QED
    BY <1>5, <2>1, <2>2, RegisterView
<1> QED
  BY <1>6, <1>7

LEMMA RegisterStep ==
    ASSUME IInv, [Next]_workerVars
    PROVE  [Register!Next]_(Register!fenceVars)
<1> USE DEF Register!Next
<1>0. /\ fenceState \in [Node -> FenceRecord] /\ running \in [Node -> SUBSET Grant]
      /\ \A n \in Node : running[n] \subseteq Grant
  BY DEF IInv, TypeOK
<1>1. CASE UNCHANGED <<fenceState, running>>
  <2>1. UNCHANGED <<HighWater, Owner, Writers>>
    BY <1>1 DEF HighWater, Owner, Writers
  <2> QED
    BY <2>1, RegisterView
<1>2. ASSUME NEW n \in Node, NEW f \in Grant, NEW path, AdmitMutation(n, f, path),
             running' # running
      PROVE  Register!Next
  <2>1. /\ running' = [running EXCEPT ![n] = running[n] \cup {f}] /\ UNCHANGED fenceState
        /\ f = fenceState[n].active \/ f = fenceState[n].previous
    BY <1>2 DEF AdmitMutation, ValidMutationFence, ExactFence, durable
  <2>2. OwnerOf(fenceState[n]) = {f.op}
    BY <2>1, RecordedWriters
  <2>3. Owner[n] = {f.op} /\ Owner[n] # {}
    BY <2>2 DEF Owner
  <2>4. WriterOps(running[n] \cup {f}) = WriterOps(running[n]) \cup {f.op}
    BY DEF WriterOps
  <2>5. /\ Writers' = [Writers EXCEPT ![n] = Writers[n] \cup Owner[n]]
        /\ UNCHANGED <<HighWater, Owner>>
    BY <1>0, <2>1, <2>3, <2>4 DEF Writers, HighWater, Owner
  <2>6. Register!Enter(n)
    BY <2>3, <2>5, RegisterView
  <2> QED
    BY <2>6
<1>3. ASSUME NEW n \in Node, NEW f \in Grant, FinishMutation(n, f)
      PROVE  [Register!Next]_(Register!fenceVars)
  <2>1. running' = [running EXCEPT ![n] = running[n] \ {f}] /\ UNCHANGED fenceState
    BY <1>3 DEF FinishMutation, durable
  <2>2. \A g, h \in running[n] : g.op = h.op
    BY <1>0, RecordedWriters DEF IInv, NodeOK
  <2>3. UNCHANGED <<HighWater, Owner>>
    BY <2>1 DEF HighWater, Owner
  <2>4. CASE running[n] \ {f} = {}
    <3>1. WriterOps({}) = {}
      BY DEF WriterOps
    <3>2. Writers' = [Writers EXCEPT ![n] = {}]
      BY <1>0, <2>1, <2>4, <3>1 DEF Writers
    <3>3. Register!Leave(n)
      BY <2>3, <3>2, RegisterView
    <3> QED
      BY <3>3
  <2>5. CASE running[n] \ {f} # {}
    <3>1. PICK g \in running[n] : g # f
      BY <2>5
    <3>2. f \in running[n] /\ f.op = g.op
      BY <1>3, <2>2, <3>1 DEF FinishMutation
    <3>3. WriterOps(running[n] \ {f}) = WriterOps(running[n])
      BY <3>1, <3>2 DEF WriterOps
    <3>4. Writers' = Writers
      BY <1>0, <2>1, <3>3 DEF Writers
    <3> QED
      BY <2>3, <3>4, RegisterView
  <2> QED
    BY <2>4, <2>5
<1>4. ASSUME NEW n \in Node, NEW f \in Grant, ActivateFence(n, f)
      PROVE  [Register!Next]_(Register!fenceVars)
  <2>1. /\ TokenAccepted(fenceState[n], f) /\ running[n] = {} /\ UNCHANGED running
        /\ fenceState' = [fenceState EXCEPT ![n] = ActivatedFence(@, f)]
    BY <1>4 DEF ActivateFence, ActivationAccepted, AdmissionFree, admission
  <2> QED
    BY <2>1, ActivationOwns
<1>5. ASSUME NEW n \in Node, WriteFence(n)
      PROVE  [Register!Next]_(Register!fenceVars)
  <2>1. /\ activating[n].grant \in Grant /\ TokenAccepted(fenceState[n], activating[n].grant)
        /\ running[n] = {}
    BY <1>5, AcceptedHolds
  <2>2. /\ fenceState' = [fenceState EXCEPT ![n] = ActivatedFence(@, activating[n].grant)]
        /\ UNCHANGED running
    BY <1>5 DEF WriteFence
  <2> QED
    BY <2>1, <2>2, ActivationOwns
<1>6. ASSUME NEW n \in Node, NEW f \in Grant, RevokeFence(n, f)
      PROVE  [Register!Next]_(Register!fenceVars)
  <2>1. /\ fenceState' = [fenceState EXCEPT ![n].active = None, ![n].previous = None]
        /\ running[n] = {} /\ UNCHANGED running
    BY <1>6 DEF RevokeFence, AdmissionFree, admission
  <2>2. fenceState'[n].active = None /\ fenceState'[n].highWater = fenceState[n].highWater
    BY <1>0, <2>1 DEF FenceRecord
  <2>3. \A k \in Node : k # n => fenceState'[k] = fenceState[k]
    BY <1>0, <2>1
  <2>4. OwnerOf(fenceState'[n]) = {}
    BY <2>2 DEF OwnerOf, WriterOps
  <2>a. Owner' = [Owner EXCEPT ![n] = {}]
    BY <2>3, <2>4 DEF Owner
  <2>b. HighWater' = HighWater
    BY <2>2, <2>3 DEF HighWater
  <2>c. Writers' = Writers /\ Writers[n] = {}
    BY <2>1 DEF Writers, WriterOps
  <2>6. Register!Release(n)
    BY <2>a, <2>b, <2>c, RegisterView
  <2> QED
    BY <2>6
<1>7. ASSUME NEW n \in Node, RestartTakod(n)
      PROVE  [Register!Next]_(Register!fenceVars)
  <2>1. running' = [running EXCEPT ![n] = {}] /\ UNCHANGED fenceState
    BY <1>7 DEF RestartTakod, durable
  <2>2. WriterOps({}) = {}
    BY DEF WriterOps
  <2>3. Writers' = [Writers EXCEPT ![n] = {}] /\ UNCHANGED <<HighWater, Owner>>
    BY <1>0, <2>1, <2>2 DEF Writers, HighWater, Owner
  <2>4. Register!Leave(n)
    BY <2>3, RegisterView
  <2> QED
    BY <2>4
<1>8. CASE UNCHANGED workerVars
  BY <1>1, <1>8 DEF workerVars
<1>9. CASE Next
  <2>1. \/ UNCHANGED <<fenceState, running>>
        \/ \E n \in Node : WriteFence(n) \/ RestartTakod(n)
        \/ \E n \in Node, f \in Grant :
             \/ \E path \in {"reconcile-service", "other"} :
                  AdmitMutation(n, f, path) /\ running' # running
             \/ FinishMutation(n, f) \/ ActivateFence(n, f) \/ RevokeFence(n, f)
    BY <1>9 DEF Next, FenceStep, MaintenanceStep, NodeStep, PassDenyLatch, AdmitMutation,
       BeginActivation, HoldBarrier, HoldBarrierFails, WriteFenceFails, BindBarrier, BarrierTimer,
       StartMaintenance, EndMaintenance, AcceptInventory, InstallInventory, SetDenyLatch, Tick,
       durable, admission
  <2> QED
    BY <1>1, <1>2, <1>3, <1>4, <1>5, <1>6, <1>7, <2>1
<1> QED
  BY <1>8, <1>9

\* WorkerFence implements TokenFence: whatever grants, renewals, replays,
\* restarts and clocks a node meets, its operations see a single-writer
\* register that moves only to higher tokens (activateWorkerFence,
\* revokeWorkerFenceWithFence, validateMutationFence).
THEOREM ImplementsTokenFence == Spec => IsTokenFence
<1>1. Init => Register!Init
  <2>1. Init => /\ HighWater = [n \in Node |-> 0] /\ Owner = [n \in Node |-> {}]
                /\ Writers = [n \in Node |-> {}]
    BY DEF Init, NoFence, HighWater, Owner, OwnerOf, Writers, WriterOps
  <2> QED
    BY <2>1, RegisterView
<1>2. IInv /\ [Next]_workerVars => [Register!Next]_(Register!fenceVars)
  BY RegisterStep
<1> QED
  BY <1>1, <1>2, Invariance, PTL DEF Spec, IsTokenFence, Register!Spec
=============================================================================
