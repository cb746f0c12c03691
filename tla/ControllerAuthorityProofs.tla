---------------------- MODULE ControllerAuthorityProofs ----------------------
(***************************************************************************)
(* The safety properties of ControllerAuthority, for every set of scopes,  *)
(* requests and inventories, every TTL and without bounds on tokens,       *)
(* operations and time.                                                    *)
(***************************************************************************)
EXTENDS ControllerAuthority, FenceGrantProofs, TLAPS

\* Tokens and operation IDs of the journal's grants have been counted, also
\* those of a lease without an operation.
Counted ==
    /\ \A i \in issued : i.fence.token <= control.nextToken /\ i.fence.op <= nextOp
    /\ \A s \in Scope : lease[s] # None => lease[s].op <= nextOp

\* Every grant carries a full validity window.
FullWindow == \A i \in issued : i.fence.expires = i.fence.issued + TTL

\* The binding of a request that obtained a grant is on disk.
Bound == \A i \in issued : binding[i.request.id] = i.request

\* The active record is the latest grant of its operation.
ActiveIsLatest ==
    control.active # None =>
        /\ \E i \in issued : i.fence = control.active.fence /\ i.request.id = control.active.request
        /\ control.active.previous # None =>
             ValidFenceRenewal(control.active.previous, control.active.fence)
        /\ \A j \in issued : j.fence.op = control.active.fence.op =>
             j.fence = control.active.fence \/ ValidFenceRenewal(j.fence, control.active.fence)

\* Operations other than the active one completed or have expired.
OthersSettled ==
    \A j \in issued :
        \/ control.active # None /\ control.active.fence.op = j.fence.op
        \/ [op |-> j.fence.op, phase |-> "completed"] \in history
        \/ Expired(j.fence, now)

\* The inductive invariant.
IInv ==
    /\ TypeOK
    /\ Counted
    /\ FullWindow
    /\ Bound
    /\ ActiveIsLatest
    /\ OthersSettled
    /\ TokenIdentifiesOperation
    /\ GrantsFormChain
    /\ LeaseWithinFence

LEMMA InitIInv == Init => IInv
<1> SUFFICES ASSUME Init PROVE IInv
  OBVIOUS
<1>1. TypeOK
  BY DEF Init, InitAuthority, TypeOK
<1> QED
  BY <1>1 DEF Init, InitAuthority, IInv, Counted, FullWindow, Bound, ActiveIsLatest,
     OthersSettled, TokenIdentifiesOperation, GrantsFormChain, LeaseWithinFence

\* What the types say of the grants on record.
LEMMA IssuedTypes ==
    ASSUME TypeOK, NEW i \in issued
    PROVE  /\ i.fence \in GrantRecord /\ i.request \in Request
           /\ i.request.id \in RequestId /\ i.request # None
           /\ i.fence.token \in Nat /\ i.fence.op \in Nat
           /\ i.fence.issued \in Nat /\ i.fence.expires \in Nat
<1>1. i.fence \in GrantRecord /\ i.request \in Request
  BY DEF TypeOK
<1>2. i.request \in RequestRecord /\ i.request # None
  BY <1>1, RequestAssumption
<1> QED
  BY <1>1, <1>2 DEF GrantRecord, RequestRecord

\* The grant an acquisition signs is well formed and new in token and ID.
LEMMA NewGrantTypes ==
    ASSUME IInv, NEW r \in Request, NEW v \in ReadInventory
    PROVE  /\ NewGrant(r, v) \in GrantRecord
           /\ NewGrant(r, v).token = control.nextToken + 1
           /\ NewGrant(r, v).op = nextOp + 1
           /\ NewGrant(r, v).issued = now /\ NewGrant(r, v).expires = now + TTL
           /\ control.nextToken \in Nat /\ nextOp \in Nat /\ now \in Nat /\ TTL \in Nat \ {0}
           /\ r.id \in RequestId /\ r.scope \in Scope /\ r # None
<1>1. r \in RequestRecord /\ r # None
  BY RequestAssumption
<1>2. v.gen \in Nat
  BY InventoryAssumption DEF ReadInventory, InventoryRecord
<1>3. control.nextToken \in Nat /\ nextOp \in Nat /\ now \in Nat
  BY DEF IInv, TypeOK
<1>4. TTL \in Nat \ {0}
  BY TTLAssumption
<1> QED
  BY <1>1, <1>2, <1>3, <1>4 DEF NewGrant, RequestRecord, GrantRecord

LEMMA AcquirePreserves ==
    ASSUME IInv, NEW r \in Request, NEW v \in ReadInventory, AcquireAuthority(r, v),
           UNCHANGED <<now, membership>>
    PROVE  IInv'
<1> DEFINE f == NewGrant(r, v)
           new == [request |-> r, fence |-> f]
           act == [request |-> r.id, fence |-> f, previous |-> None, phase |-> "authority-acquired"]
           l == [op |-> f.op, expires |-> f.expires]
<1>0. /\ f \in GrantRecord /\ f.token = control.nextToken + 1 /\ f.op = nextOp + 1
      /\ f.issued = now /\ f.expires = now + TTL
      /\ control.nextToken \in Nat /\ nextOp \in Nat /\ now \in Nat /\ TTL \in Nat \ {0}
      /\ r.id \in RequestId /\ r.scope \in Scope /\ r # None
  BY NewGrantTypes
<1>1. /\ control' = [nextToken |-> f.token, active |-> act]
      /\ lease' = [lease EXCEPT ![r.scope] = l]
      /\ binding' = [binding EXCEPT ![r.id] = r]
      /\ nextOp' = f.op
      /\ history' = RetireExpired
      /\ issued' = issued \cup {new}
      /\ now' = now /\ membership' = membership
  BY DEF AcquireAuthority
<1>2. Unexpired = None /\ binding[r.id] \in {None, r}
  BY DEF AcquireAuthority, CanGrant, RequestAdmitted
<1> HIDE DEF f
<1>3. act \in ActiveRecord /\ l \in LeaseRecord /\ new \in [request: Request, fence: GrantRecord]
  BY <1>0 DEF ActiveRecord, LeaseRecord, Phase, GrantRecord
<1>4. act # None /\ act.fence = f /\ act.previous = None /\ act.request = r.id
      /\ new.fence = f /\ new.request = r /\ l.op = f.op /\ l.expires = f.expires
  BY <1>3, ActiveAssumption
<1> HIDE DEF act, new, l
<1>5. \A i \in issued : i.fence.token < f.token /\ i.fence.op < f.op
  BY <1>0, IssuedTypes DEF IInv, Counted
<1>6. control'.active = act /\ control'.nextToken = f.token
  BY <1>1
<1>7. TypeOK'
  BY <1>0, <1>1, <1>3 DEF IInv, TypeOK, RetireExpired, Retirement, ActiveRecord, GrantRecord
<1>8. Counted'
  <2>1. \A i \in issued' : i.fence.token <= f.token /\ i.fence.op <= f.op
    BY <1>0, <1>1, <1>4, <1>5, IssuedTypes DEF IInv
  <2>2. \A s \in Scope : lease'[s] # None => lease'[s].op <= f.op
    BY <1>0, <1>1, <1>4 DEF IInv, TypeOK, Counted, LeaseRecord
  <2> QED
    BY <1>1, <1>6, <2>1, <2>2 DEF Counted
<1>9. FullWindow'
  BY <1>0, <1>1, <1>4 DEF IInv, FullWindow
<1>10. Bound'
  BY <1>0, <1>1, <1>2, <1>4, IssuedTypes DEF IInv, Bound, TypeOK
<1>11. ActiveIsLatest'
  <2>1. \A j \in issued' : j.fence.op = f.op => j.fence = f
    BY <1>0, <1>1, <1>4, <1>5, IssuedTypes DEF IInv
  <2> QED
    BY <1>1, <1>4, <1>6, <2>1 DEF ActiveIsLatest
<1>12. OthersSettled'
  <2> SUFFICES ASSUME NEW j \in issued
               PROVE  [op |-> j.fence.op, phase |-> "completed"] \in history' \/ Expired(j.fence, now)
    BY <1>1, <1>4, <1>6 DEF OthersSettled
  <2>1. history \subseteq history'
    BY <1>1 DEF RetireExpired
  <2>2. CASE control.active # None /\ control.active.fence.op = j.fence.op
    <3>1. Expired(control.active.fence, now)
      BY <1>2, <2>2 DEF Unexpired
    <3>2. j.fence.expires <= control.active.fence.expires
      BY <2>2, IssuedTypes, RenewalFields DEF IInv, ActiveIsLatest, TypeOK, ActiveRecord
    <3>3. j.fence.expires \in Nat /\ control.active.fence.expires \in Nat
      BY <2>2, IssuedTypes DEF IInv, TypeOK, ActiveRecord, GrantRecord
    <3> QED
      BY <1>0, <3>1, <3>2, <3>3 DEF Expired
  <2> QED
    BY <2>1, <2>2 DEF IInv, OthersSettled
<1>13. TokenIdentifiesOperation'
  BY <1>0, <1>1, <1>4, <1>5, IssuedTypes DEF IInv, TokenIdentifiesOperation
<1>14. GrantsFormChain'
  BY <1>0, <1>1, <1>4, <1>5, IssuedTypes DEF IInv, GrantsFormChain
<1>15. LeaseWithinFence'
  <2> SUFFICES ASSUME NEW s \in Scope, NEW i \in issued',
                      lease'[s] # None, lease'[s].op = i.fence.op
               PROVE  \E j \in issued' : j.fence.op = i.fence.op /\ lease'[s].expires <= j.fence.expires
    BY DEF LeaseWithinFence
  <2>1. CASE s = r.scope
    <3>1. lease'[s] = l
      BY <1>1, <2>1 DEF IInv, TypeOK
    <3> QED
      BY <1>0, <1>1, <1>4, <3>1 DEF GrantRecord
  <2>2. CASE s # r.scope
    <3>1. lease'[s] = lease[s]
      BY <1>1, <2>2 DEF IInv, TypeOK
    <3>2. lease[s].op \in Nat /\ lease[s].op < f.op
      BY <1>0, <3>1 DEF IInv, TypeOK, Counted, LeaseRecord
    <3>3. i \in issued
      BY <1>0, <1>1, <1>4, <3>1, <3>2
    <3> QED
      BY <1>1, <3>1, <3>3 DEF IInv, LeaseWithinFence
  <2> QED
    BY <2>1, <2>2
<1> QED
  BY <1>7, <1>8, <1>9, <1>10, <1>11, <1>12, <1>13, <1>14, <1>15 DEF IInv

\* renewControllerOperationLease, whether or not the lease file was written.
LEMMA RenewPreserves ==
    ASSUME IInv, NEW f \in GrantRecord, CanRenew(f), CommitRenewal(f),
           lease' = lease \/ lease' = AfterRenewLeaseTo(Renewed(f)),
           UNCHANGED <<now, membership>>
    PROVE  IInv'
<1> DEFINE g == Renewed(f)
           q == binding[control.active.request]
           new == [request |-> q, fence |-> g]
<1>1. /\ control.active # None /\ control.active \in ActiveRecord /\ f = control.active.fence
      /\ now + TTL > f.expires
  BY DEF CanRenew, ExactAuthority, IInv, TypeOK
<1>2. PICK i \in issued : i.fence = f /\ i.request.id = control.active.request
  BY <1>1 DEF IInv, ActiveIsLatest
<1>3. q = i.request /\ q \in Request /\ q.id = control.active.request
  BY <1>2, IssuedTypes DEF IInv, Bound
<1>4. /\ now \in Nat /\ TTL \in Nat \ {0} /\ nextOp \in Nat /\ control.nextToken \in Nat
      /\ f.token \in Nat /\ f.op \in Nat /\ f.issued \in Nat /\ f.expires \in Nat /\ f.scope \in Scope
  BY TTLAssumption DEF IInv, TypeOK, GrantRecord
<1>5. /\ g \in GrantRecord /\ SameOperation(f, g) /\ g.issued = now /\ g.expires = now + TTL
  <2>1. g = [f EXCEPT !.issued = now, !.expires = now + TTL] /\ now + TTL \in Nat
    BY <1>4 DEF Renewed
  <2> HIDE DEF g
  <2>2. /\ g.token = f.token /\ g.op = f.op /\ g.scope = f.scope /\ g.operation = f.operation
        /\ g.gen = f.gen /\ g.targets = f.targets /\ g.issued = now /\ g.expires = now + TTL
    BY <2>1 DEF GrantRecord
  <2>3. g \in GrantRecord
    BY <1>4, <2>1 DEF GrantRecord
  <2> QED
    BY <2>2, <2>3 DEF SameOperation
<1>6. f.expires = f.issued + TTL
  BY <1>2 DEF IInv, FullWindow
<1>7. ValidFenceRenewal(f, g)
  <2>1. f.issued < now /\ f.expires < now + TTL
    BY <1>1, <1>4, <1>6
  <2> QED
    BY <1>5, <2>1, RenewalFields
<1>8. /\ control' = [control EXCEPT !.active.fence = g, !.active.previous = f]
      /\ issued' = issued \cup {new}
      /\ binding' = binding /\ nextOp' = nextOp /\ history' = history
      /\ now' = now /\ membership' = membership
  BY DEF CommitRenewal
<1>9. new.request = q /\ new.fence = g /\ new \in [request: Request, fence: GrantRecord]
  BY <1>3, <1>5
<1> HIDE DEF g, q, new
<1>10. /\ control'.active = [control.active EXCEPT !.fence = g, !.previous = f]
       /\ control'.nextToken = control.nextToken
  BY <1>8 DEF IInv, TypeOK
<1>11. /\ control'.active \in ActiveRecord /\ control'.active # None
       /\ control'.active.fence = g /\ control'.active.previous = f
       /\ control'.active.request = control.active.request
  BY <1>1, <1>5, <1>10, ActiveAssumption DEF ActiveRecord
<1>12. /\ lease' \in [Scope -> LeaseRecord \cup {None}]
       /\ \A s \in Scope : \/ lease'[s] = lease[s]
                          \/ /\ lease[s] # None /\ lease[s].op = f.op
                             /\ lease'[s].op = f.op /\ lease'[s].expires = g.expires
  <2>1. CASE lease' = lease
    BY <2>1 DEF IInv, TypeOK
  <2>2. CASE lease' = AfterRenewLeaseTo(g)
    <3>0. g.op = f.op /\ g.scope = f.scope /\ g.expires \in Nat
      BY <1>5 DEF SameOperation, GrantRecord
    <3>1. CASE lease[f.scope] # None /\ lease[f.scope].op = f.op
      <4>1. lease' = [lease EXCEPT ![f.scope].expires = g.expires] /\ lease[f.scope] \in LeaseRecord
        BY <1>4, <2>2, <3>0, <3>1 DEF AfterRenewLeaseTo, IInv, TypeOK
      <4> QED
        BY <1>4, <3>0, <3>1, <4>1 DEF IInv, TypeOK, LeaseRecord
    <3>2. CASE ~(lease[f.scope] # None /\ lease[f.scope].op = f.op)
      BY <2>2, <3>0, <3>2 DEF AfterRenewLeaseTo, IInv, TypeOK
    <3> QED
      BY <3>1, <3>2
  <2> QED
    BY <2>1, <2>2 DEF g
<1>13. \A j \in issued : j.fence.op = f.op => j.fence = f \/ ValidFenceRenewal(j.fence, f)
  BY <1>1 DEF IInv, ActiveIsLatest
<1>14. \A j \in issued : j.fence.op = f.op => ValidFenceRenewal(j.fence, g)
  BY <1>5, <1>7, <1>13, RenewalTransitive, IssuedTypes DEF IInv
<1>15. TypeOK'
  <2>1. control' \in [nextToken: Nat, active: ActiveRecord \cup {None}]
    BY <1>8, <1>10, <1>11, <1>4 DEF IInv, TypeOK
  <2> QED
    BY <1>8, <1>9, <1>12, <2>1 DEF IInv, TypeOK
<1>16. Counted'
  <2>1. g.token <= control.nextToken /\ g.op <= nextOp
    BY <1>2, <1>5 DEF SameOperation, IInv, Counted
  <2>2. \A s \in Scope : lease'[s] # None => lease'[s].op <= nextOp
    BY <1>2, <1>12 DEF IInv, Counted
  <2> QED
    BY <1>8, <1>9, <1>10, <2>1, <2>2 DEF IInv, Counted
<1>17. FullWindow'
  BY <1>5, <1>8, <1>9 DEF IInv, FullWindow
<1>18. Bound'
  BY <1>2, <1>3, <1>8, <1>9 DEF IInv, Bound
<1>19. ActiveIsLatest'
  <2>1. new \in issued' /\ new.fence = control'.active.fence /\ new.request.id = control'.active.request
    BY <1>3, <1>8, <1>9, <1>11
  <2>2. \A j \in issued' : j.fence.op = g.op => j.fence = g \/ ValidFenceRenewal(j.fence, g)
    BY <1>5, <1>8, <1>9, <1>14 DEF SameOperation
  <2> QED
    BY <1>7, <1>11, <2>1, <2>2 DEF ActiveIsLatest
<1>20. OthersSettled'
  BY <1>1, <1>5, <1>8, <1>9, <1>11 DEF IInv, OthersSettled, SameOperation
<1>21. TokenIdentifiesOperation'
  BY <1>2, <1>5, <1>8, <1>9 DEF IInv, TokenIdentifiesOperation, SameOperation
<1>22. GrantsFormChain'
  BY <1>5, <1>8, <1>9, <1>14 DEF IInv, GrantsFormChain, SameOperation
<1>23. LeaseWithinFence'
  <2> SUFFICES ASSUME NEW s \in Scope, NEW k \in issued',
                      lease'[s] # None, lease'[s].op = k.fence.op
               PROVE  \E j \in issued' : j.fence.op = k.fence.op /\ lease'[s].expires <= j.fence.expires
    BY DEF LeaseWithinFence
  <2>1. CASE lease'[s] = lease[s]
    <3>1. \E j \in issued : j.fence.op = lease[s].op
      BY <1>2, <1>5, <1>8, <1>9, <2>1 DEF SameOperation
    <3> QED
      BY <1>8, <2>1, <3>1 DEF IInv, LeaseWithinFence
  <2>2. CASE lease'[s].op = f.op /\ lease'[s].expires = g.expires
    BY <1>4, <1>5, <1>8, <1>9, <2>2 DEF SameOperation
  <2> QED
    BY <1>12, <2>1, <2>2
<1> QED
  BY <1>15, <1>16, <1>17, <1>18, <1>19, <1>20, <1>21, <1>22, <1>23 DEF IInv

\* Steps that touch lease files only: reads that remove expired files, the
\* repair of a lost renewal reply, a release cut short.
LEMMA LeasePreserves ==
    ASSUME IInv, UNCHANGED <<control, binding, nextOp, history, issued, now, membership>>,
           lease' \in [Scope -> LeaseRecord \cup {None}],
           \A s \in Scope :
              \/ lease'[s] \in {lease[s], None}
              \/ /\ lease[s] # None /\ lease'[s].op = lease[s].op
                 /\ \E j \in issued : j.fence.op = lease[s].op /\ lease'[s].expires = j.fence.expires
    PROVE  IInv'
<1>1. TypeOK'
  BY DEF IInv, TypeOK
<1>2. Counted'
  BY DEF IInv, Counted
<1>3. LeaseWithinFence'
  <2> SUFFICES ASSUME NEW s \in Scope, NEW i \in issued, lease'[s] # None, lease'[s].op = i.fence.op
               PROVE  \E j \in issued : j.fence.op = i.fence.op /\ lease'[s].expires <= j.fence.expires
    BY DEF LeaseWithinFence
  <2>1. CASE lease'[s] = lease[s]
    BY <2>1 DEF IInv, LeaseWithinFence
  <2>2. CASE lease'[s].op = lease[s].op
             /\ \E j \in issued : j.fence.op = lease[s].op /\ lease'[s].expires = j.fence.expires
    BY <2>2, IssuedTypes DEF IInv
  <2> QED
    BY <2>1, <2>2
<1> QED
  BY <1>1, <1>2, <1>3 DEF IInv, FullWindow, Bound, ActiveIsLatest, OthersSettled,
     TokenIdentifiesOperation, GrantsFormChain

\* The active record is cleared once its operation completed or expired.
LEMMA RetirePreserves ==
    ASSUME IInv, control.active # None, control' = [control EXCEPT !.active = None],
           history' \subseteq [op: Nat, phase: Retirement], history \subseteq history',
           \/ Expired(control.active.fence, now)
           \/ [op |-> control.active.fence.op, phase |-> "completed"] \in history',
           lease' \in [Scope -> LeaseRecord \cup {None}],
           \A s \in Scope : lease'[s] \in {lease[s], None},
           UNCHANGED <<binding, nextOp, issued, now, membership>>
    PROVE  IInv'
<1>1. control'.active = None /\ control'.nextToken = control.nextToken
  BY DEF IInv, TypeOK
<1>2. TypeOK'
  BY <1>1 DEF IInv, TypeOK
<1>3. Counted'
  BY <1>1 DEF IInv, Counted
<1>4. LeaseWithinFence'
  BY DEF IInv, LeaseWithinFence
<1>5. OthersSettled'
  <2> SUFFICES ASSUME NEW j \in issued
               PROVE  [op |-> j.fence.op, phase |-> "completed"] \in history' \/ Expired(j.fence, now)
    BY DEF OthersSettled
  <2>1. CASE control.active.fence.op = j.fence.op /\ Expired(control.active.fence, now)
    <3>1. j.fence.expires <= control.active.fence.expires
      BY <2>1, IssuedTypes, RenewalFields DEF IInv, ActiveIsLatest, TypeOK, ActiveRecord
    <3>2. j.fence.expires \in Nat /\ control.active.fence.expires \in Nat /\ now \in Nat
      BY IssuedTypes DEF IInv, TypeOK, ActiveRecord, GrantRecord
    <3> QED
      BY <2>1, <3>1, <3>2 DEF Expired
  <2> QED
    BY <2>1 DEF IInv, OthersSettled
<1> QED
  BY <1>1, <1>2, <1>3, <1>4, <1>5 DEF IInv, FullWindow, Bound, ActiveIsLatest,
     TokenIdentifiesOperation, GrantsFormChain

\* A crash or write error before the journal is written.
LEMMA AbortPreserves ==
    ASSUME IInv, NEW r \in Request, NEW v \in ReadInventory, NEW bound \in BOOLEAN,
           NEW removed \in BOOLEAN, AcquireAborts(r, v, bound, removed), UNCHANGED <<now, membership>>
    PROVE  IInv'
<1> DEFINE f == NewGrant(r, v)
           l == IF removed THEN None ELSE [op |-> f.op, expires |-> f.expires]
<1>0. /\ f.op = nextOp + 1 /\ f.expires = now + TTL /\ nextOp \in Nat /\ now \in Nat
      /\ TTL \in Nat \ {0} /\ r.id \in RequestId /\ r.scope \in Scope /\ r # None
  BY NewGrantTypes
<1>1. /\ lease' = [lease EXCEPT ![r.scope] = l] /\ nextOp' = f.op
      /\ binding' = IF bound THEN [binding EXCEPT ![r.id] = r] ELSE binding
      /\ UNCHANGED <<control, history, issued, now, membership>>
      /\ binding[r.id] \in {None, r}
  BY DEF AcquireAborts, CanGrant, RequestAdmitted
<1> HIDE DEF f
<1>2. l \in LeaseRecord \cup {None} /\ (l # None => l.op = f.op)
  BY <1>0 DEF LeaseRecord
<1> HIDE DEF l
<1>3. \A s \in Scope : lease'[s] = IF s = r.scope THEN l ELSE lease[s]
  BY <1>1 DEF IInv, TypeOK
<1>4. TypeOK'
  BY <1>0, <1>1, <1>2 DEF IInv, TypeOK
<1>5. Counted'
  <2>1. \A i \in issued : i.fence.op < f.op
    BY <1>0, IssuedTypes DEF IInv, Counted
  <2>2. \A s \in Scope : lease'[s] # None => lease'[s].op <= f.op
    BY <1>0, <1>2, <1>3 DEF IInv, TypeOK, Counted, LeaseRecord
  <2> QED
    BY <1>0, <1>1, <2>1, <2>2, IssuedTypes DEF IInv, Counted
<1>6. Bound'
  BY <1>0, <1>1, IssuedTypes DEF IInv, Bound, TypeOK
<1>7. LeaseWithinFence'
  <2> SUFFICES ASSUME NEW s \in Scope, NEW i \in issued, lease'[s] # None, lease'[s].op = i.fence.op
               PROVE  \E j \in issued : j.fence.op = i.fence.op /\ lease'[s].expires <= j.fence.expires
    BY <1>1 DEF LeaseWithinFence
  <2>1. i.fence.op <= nextOp /\ i.fence.op \in Nat
    BY IssuedTypes DEF IInv, Counted
  <2>2. s # r.scope
    BY <1>0, <1>2, <1>3, <2>1
  <2> QED
    BY <1>3, <2>2 DEF IInv, LeaseWithinFence
<1> QED
  BY <1>1, <1>4, <1>5, <1>6, <1>7 DEF IInv, FullWindow, ActiveIsLatest, OthersSettled,
     TokenIdentifiesOperation, GrantsFormChain

\* Reading a lease file removes it or leaves every file alone.
LEMMA ReadPreserves ==
    ASSUME IInv, NEW s \in Scope, lease' = AfterReadLease(s),
           UNCHANGED <<control, binding, nextOp, history, issued, now, membership>>
    PROVE  IInv'
<1>1. lease' \in [Scope -> LeaseRecord \cup {None}]
  BY DEF AfterReadLease, IInv, TypeOK
<1>2. \A t \in Scope : lease'[t] \in {lease[t], None}
  BY DEF AfterReadLease, IInv, TypeOK
<1> QED
  BY <1>1, <1>2, LeasePreserves

\* A lost renewal reply is repaired from the grant in the journal.
LEMMA RecoverPreserves ==
    ASSUME IInv, NEW f \in GrantRecord, RecoverRenewal(f), UNCHANGED <<now, membership>>
    PROVE  IInv'
<1> DEFINE g == control.active.fence
<1>1. control.active # None /\ control.active \in ActiveRecord /\ lease' = AfterRenewLeaseTo(g)
      /\ UNCHANGED <<control, binding, nextOp, history, issued, now, membership>>
  BY DEF RecoverRenewal, CanRecoverRenewal, IInv, TypeOK
<1>2. g \in GrantRecord
  BY <1>1 DEF ActiveRecord
<1>3. g.scope \in Scope /\ g.expires \in Nat
  BY <1>2 DEF GrantRecord
<1>4. \E j \in issued : j.fence = g
  BY <1>1 DEF IInv, ActiveIsLatest
<1> HIDE DEF g
<1>5. CASE HoldsLease(g)
  <2>1. /\ lease' = [lease EXCEPT ![g.scope].expires = g.expires]
        /\ lease[g.scope] \in LeaseRecord /\ lease[g.scope] # None /\ lease[g.scope].op = g.op
    BY <1>1, <1>3, <1>5 DEF HoldsLease, AfterRenewLeaseTo, IInv, TypeOK
  <2>2. /\ lease' \in [Scope -> LeaseRecord \cup {None}]
        /\ lease'[g.scope].op = lease[g.scope].op /\ lease'[g.scope].expires = g.expires
        /\ \A s \in Scope : s # g.scope => lease'[s] = lease[s]
    BY <1>3, <2>1 DEF IInv, TypeOK, LeaseRecord
  <2> QED
    BY <1>1, <1>4, <2>1, <2>2, LeasePreserves
<1>6. CASE ~HoldsLease(g)
  <2>1. lease' = lease
    BY <1>1, <1>6 DEF HoldsLease, AfterRenewLeaseTo
  <2> QED
    BY <1>1, <2>1, LeasePreserves DEF IInv, TypeOK
<1> QED
  BY <1>5, <1>6

\* A release, complete or cut short after the lease file was removed.
LEMMA ReleasePreserves ==
    ASSUME IInv, NEW f \in GrantRecord, ReleaseAuthority(f) \/ ReleaseCrashes(f),
           UNCHANGED <<now, membership>>
    PROVE  IInv'
<1>1. /\ control.active # None /\ control.active \in ActiveRecord /\ CanRelease(f)
      /\ lease' = [lease EXCEPT ![f.scope] = None]
  BY DEF ReleaseAuthority, ReleaseCrashes, CanRelease, IInv, TypeOK
<1>2. /\ lease' \in [Scope -> LeaseRecord \cup {None}]
      /\ \A s \in Scope : lease'[s] \in {lease[s], None}
  BY <1>1 DEF IInv, TypeOK
<1>3. CASE ReleaseCrashes(f)
  BY <1>2, <1>3, LeasePreserves DEF ReleaseCrashes
<1>4. CASE ReleaseAuthority(f)
  <2>1. f.op = control.active.fence.op
    <3>1. CASE f = control.active.fence
      BY <3>1
    <3>2. CASE control.active.previous # None /\ f = control.active.previous
      <4>1. ValidFenceRenewal(f, control.active.fence) /\ control.active.fence \in GrantRecord
        BY <1>1, <3>2 DEF IInv, ActiveIsLatest, ActiveRecord
      <4> QED
        BY <4>1, RenewalFields DEF SameOperation
    <3> QED
      BY <1>1, <3>1, <3>2 DEF CanRelease, ExactAuthority
  <2>2. history' = history \cup {[op |-> f.op, phase |-> "completed"]}
        /\ control' = [control EXCEPT !.active = None] /\ UNCHANGED <<binding, nextOp, issued>>
    BY <1>4 DEF ReleaseAuthority
  <2>3. history' \subseteq [op: Nat, phase: Retirement]
    BY <2>2 DEF IInv, TypeOK, Retirement, GrantRecord
  <2> QED
    BY <1>1, <1>2, <2>1, <2>2, <2>3, RetirePreserves
<1> QED
  BY <1>3, <1>4

LEMMA ReconcilePreserves ==
    ASSUME IInv, ReconcileExpired, UNCHANGED <<now, membership>>
    PROVE  IInv'
<1>1. /\ control.active # None /\ control.active \in ActiveRecord
      /\ control' = [control EXCEPT !.active = None] /\ history' = RetireExpired
      /\ UNCHANGED <<lease, binding, nextOp, issued>>
  BY DEF ReconcileExpired, IInv, TypeOK
<1>2. Expired(control.active.fence, now)
  BY <1>1 DEF ReconcileExpired, Unexpired
<1>3. control.active.fence.op \in Nat
  BY <1>1 DEF ActiveRecord, GrantRecord
<1>4. history' \subseteq [op: Nat, phase: Retirement] /\ history \subseteq history'
  BY <1>1, <1>3 DEF RetireExpired, IInv, TypeOK, Retirement
<1> QED
  BY <1>1, <1>2, <1>4, RetirePreserves DEF IInv, TypeOK

LEMMA PhasePreserves ==
    ASSUME IInv, NEW f \in GrantRecord, NEW p \in {"targets-fenced", "mutating"},
           UpdatePhase(f, p), UNCHANGED <<now, membership>>
    PROVE  IInv'
<1>1. /\ control.active # None /\ control.active \in ActiveRecord
      /\ control' = [control EXCEPT !.active.phase = p]
      /\ UNCHANGED <<lease, binding, nextOp, history, issued, now, membership>>
  BY DEF UpdatePhase, CanUpdatePhase, IInv, TypeOK
<1>2. /\ control'.active = [control.active EXCEPT !.phase = p]
      /\ control'.nextToken = control.nextToken
  BY <1>1 DEF IInv, TypeOK
<1>3. /\ control'.active \in ActiveRecord /\ control'.active # None
      /\ control'.active.fence = control.active.fence
      /\ control'.active.previous = control.active.previous
      /\ control'.active.request = control.active.request
  BY <1>1, <1>2, ActiveAssumption DEF ActiveRecord, Phase
<1>4. TypeOK'
  BY <1>1, <1>2, <1>3 DEF IInv, TypeOK
<1>5. ActiveIsLatest' /\ OthersSettled'
  BY <1>1, <1>3 DEF IInv, ActiveIsLatest, OthersSettled
<1> QED
  BY <1>1, <1>2, <1>4, <1>5 DEF IInv, Counted, FullWindow, Bound, TokenIdentifiesOperation,
     GrantsFormChain, LeaseWithinFence

\* The clock only makes more grants expired; the membership may be any.
LEMMA TickPreserves ==
    ASSUME IInv, now' \in {now, now + 1}, membership' \in Inventory, UNCHANGED authority
    PROVE  IInv'
<1>1. now \in Nat /\ now' \in Nat /\ now' >= now
  BY DEF IInv, TypeOK
<1>2. TypeOK'
  BY <1>1 DEF IInv, TypeOK, authority
<1>3. \A j \in issued : Expired(j.fence, now) => Expired(j.fence, now')
  BY <1>1, IssuedTypes DEF IInv, Expired
<1>4. OthersSettled'
  BY <1>1, <1>3 DEF IInv, OthersSettled, authority
<1> QED
  BY <1>1, <1>2, <1>4 DEF IInv, Counted, FullWindow, Bound, ActiveIsLatest,
     TokenIdentifiesOperation, GrantsFormChain, LeaseWithinFence, authority

LEMMA NextIInv == IInv /\ [Next]_controllerVars => IInv'
<1> SUFFICES ASSUME IInv, [Next]_controllerVars PROVE IInv'
  OBVIOUS
<1>1. CASE Tick \/ ChangeMembership \/ UNCHANGED controllerVars
  <2>1. now' \in {now, now + 1} /\ membership' \in Inventory /\ UNCHANGED authority
    BY <1>1 DEF Tick, ChangeMembership, controllerVars, IInv, TypeOK
  <2> QED
    BY <2>1, TickPreserves
<1>2. CASE AuthorityStep /\ UNCHANGED <<now, membership>>
  <2> USE <1>2
  <2>1. ASSUME NEW r \in Request, NEW v \in ReadInventory, AcquireAuthority(r, v)
        PROVE  IInv'
    BY <2>1, AcquirePreserves
  <2>2. ASSUME NEW r \in Request, NEW v \in ReadInventory, NEW bound \in BOOLEAN,
               NEW removed \in BOOLEAN, AcquireAborts(r, v, bound, removed)
        PROVE  IInv'
    BY <2>2, AbortPreserves
  <2>3. ASSUME NEW r \in Request, NEW v \in ReadInventory, AcquireWhileActive(r, v)
        PROVE  IInv'
    <3>1. control.active # None /\ Unexpired = control.active /\ control.active \in ActiveRecord
      BY <2>3 DEF AcquireWhileActive, Unexpired, IInv, TypeOK
    <3>2. r.scope \in Scope /\ Unexpired.fence.scope \in Scope
      BY <3>1, RequestAssumption DEF RequestRecord, ActiveRecord, GrantRecord
    <3>3. \E s \in Scope : lease' = AfterReadLease(s)
      BY <2>3, <3>2 DEF AcquireWhileActive
    <3> QED
      BY <2>3, <3>3, ReadPreserves DEF AcquireWhileActive
  <2>4. ASSUME NEW i \in issued, RenewAuthority(i.fence) \/ RenewCrashes(i.fence)
        PROVE  IInv'
    <3>1. i.fence \in GrantRecord
      BY IssuedTypes DEF IInv
    <3>2. /\ CanRenew(i.fence) /\ CommitRenewal(i.fence)
          /\ lease' = lease \/ lease' = AfterRenewLeaseTo(Renewed(i.fence))
      BY <2>4 DEF RenewAuthority, RenewCrashes
    <3> QED
      BY <3>1, <3>2, RenewPreserves
  <2>5. ASSUME NEW i \in issued, RecoverRenewal(i.fence)
        PROVE  IInv'
    BY <2>5, IssuedTypes, RecoverPreserves DEF IInv
  <2>6. ASSUME NEW i \in issued, ReleaseAuthority(i.fence) \/ ReleaseCrashes(i.fence)
        PROVE  IInv'
    BY <2>6, IssuedTypes, ReleasePreserves DEF IInv
  <2>7. ASSUME NEW i \in issued, NEW p \in {"targets-fenced", "mutating"}, UpdatePhase(i.fence, p)
        PROVE  IInv'
    BY <2>7, IssuedTypes, PhasePreserves DEF IInv
  <2>8. ASSUME NEW s \in Scope, ReadLeaseStatus(s)
        PROVE  IInv'
    BY <2>8, ReadPreserves DEF ReadLeaseStatus
  <2>9. CASE ReconcileExpired
    BY <2>9, ReconcilePreserves
  <2> QED
    BY <2>1, <2>2, <2>3, <2>4, <2>5, <2>6, <2>7, <2>8, <2>9 DEF AuthorityStep
<1> QED
  BY <1>1, <1>2 DEF Next

\* IInv is inductive: it holds throughout every behaviour.
THEOREM Invariance == Spec => []IInv
  BY InitIInv, NextIInv, PTL DEF Spec

\* The journal, the lease files and the bindings always have their types.
THEOREM TypeCorrect == Spec => []TypeOK
<1>1. IInv => TypeOK
  BY DEF IInv
<1> QED
  BY <1>1, Invariance, PTL

\* acquireControllerOperationLease never reuses a token for another operation,
\* whatever crashes between the lease file and the journal.
THEOREM TokensIdentify == Spec => []TokenIdentifiesOperation
<1>1. IInv => TokenIdentifiesOperation
  BY DEF IInv
<1> QED
  BY <1>1, Invariance, PTL

\* A request ID obtains authority for one immutable request only.
THEOREM RequestsBound == Spec => []RequestBoundOnce
<1>1. IInv => RequestBoundOnce
  BY DEF IInv, Bound, RequestBoundOnce
<1> QED
  BY <1>1, Invariance, PTL

\* The grants of an operation form a chain of strict renewals.
THEOREM RenewalChain == Spec => []GrantsFormChain
<1>1. IInv => GrantsFormChain
  BY DEF IInv
<1> QED
  BY <1>1, Invariance, PTL

\* No lease file outlives the grants the journal recorded for its operation.
THEOREM LeaseBounded == Spec => []LeaseWithinFence
<1>1. IInv => LeaseWithinFence
  BY DEF IInv
<1> QED
  BY <1>1, Invariance, PTL

\* Authority never changes hands while a grant of an unfinished operation is
\* live on the controller's clock.
THEOREM Handover == Spec => HandoverAfterExpiry
<1> DEFINE Step == \A i \in issued' \ issued : \A j \in issued : j.fence.op # i.fence.op =>
                      \/ [op |-> j.fence.op, phase |-> "completed"] \in history
                      \/ Expired(j.fence, now)
<1>1. IInv /\ [Next]_controllerVars => [Step]_controllerVars
  <2> SUFFICES ASSUME IInv, Next, NEW i \in issued' \ issued, NEW j \in issued,
                      j.fence.op # i.fence.op
               PROVE  [op |-> j.fence.op, phase |-> "completed"] \in history \/ Expired(j.fence, now)
    BY DEF controllerVars
  <2>1. AuthorityStep
    BY DEF Next, ChangeMembership, Tick, authority
  <2>2. ASSUME NEW r \in Request, NEW v \in ReadInventory, AcquireAuthority(r, v)
        PROVE  [op |-> j.fence.op, phase |-> "completed"] \in history \/ Expired(j.fence, now)
    <3>1. Unexpired = None
      BY <2>2 DEF AcquireAuthority, CanGrant
    <3>2. CASE control.active # None /\ control.active.fence.op = j.fence.op
      <4>1. Expired(control.active.fence, now)
        BY <3>1, <3>2 DEF Unexpired
      <4>2. j.fence.expires <= control.active.fence.expires
        BY <3>2, IssuedTypes, RenewalFields DEF IInv, ActiveIsLatest, TypeOK, ActiveRecord
      <4>3. j.fence.expires \in Nat /\ control.active.fence.expires \in Nat /\ now \in Nat
        BY <3>2, IssuedTypes DEF IInv, TypeOK, ActiveRecord, GrantRecord
      <4> QED
        BY <4>1, <4>2, <4>3 DEF Expired
    <3> QED
      BY <3>2 DEF IInv, OthersSettled
  <2>3. ASSUME NEW k \in issued, CanRenew(k.fence), CommitRenewal(k.fence)
        PROVE  [op |-> j.fence.op, phase |-> "completed"] \in history \/ Expired(j.fence, now)
    <3>1. k.fence = control.active.fence /\ k.fence \in GrantRecord
      BY <2>3, IssuedTypes DEF CanRenew, ExactAuthority, IInv
    <3>2. i.fence = Renewed(k.fence)
      BY <2>3 DEF CommitRenewal
    <3>3. i.fence.op = control.active.fence.op
      BY <3>1, <3>2 DEF Renewed, GrantRecord
    <3> QED
      BY <3>3 DEF IInv, OthersSettled
  <2> QED
    BY <2>1, <2>2, <2>3 DEF AuthorityStep, AcquireAborts, AcquireWhileActive, RenewAuthority,
       RenewCrashes, RecoverRenewal, ReleaseAuthority, ReleaseCrashes, UpdatePhase,
       ReconcileExpired, ReadLeaseStatus
<1> QED
  BY <1>1, Invariance, PTL DEF Spec, HandoverAfterExpiry
=============================================================================
