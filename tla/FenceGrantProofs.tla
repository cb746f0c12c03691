-------------------------- MODULE FenceGrantProofs ---------------------------
(***************************************************************************)
(* Facts about strict renewal of a grant (validFenceRenewal).              *)
(***************************************************************************)
EXTENDS FenceGrant, TLAPS

\* The fields a renewal may not change.
SameOperation(a, b) ==
    /\ a.token = b.token /\ a.op = b.op /\ a.scope = b.scope
    /\ a.operation = b.operation /\ a.gen = b.gen /\ a.targets = b.targets

\* A strict renewal changes the validity window and nothing else, and moves
\* both of its ends forward.
LEMMA RenewalFields ==
    ASSUME NEW a \in GrantRecord, NEW b \in GrantRecord
    PROVE  ValidFenceRenewal(a, b) <=>
             SameOperation(a, b) /\ a.issued < b.issued /\ a.expires < b.expires
<1> DEFINE e == [b EXCEPT !.issued = a.issued, !.expires = a.expires]
<1>1. /\ e \in GrantRecord
      /\ e.token = b.token /\ e.op = b.op /\ e.scope = b.scope
      /\ e.operation = b.operation /\ e.gen = b.gen /\ e.targets = b.targets
      /\ e.issued = a.issued /\ e.expires = a.expires
  BY DEF GrantRecord
<1>2. /\ a.issued \in Nat /\ b.issued \in Nat /\ a.expires \in Nat /\ b.expires \in Nat
  BY DEF GrantRecord
<1>3. ValidFenceRenewal(a, b) <=> e = a /\ b.issued > a.issued /\ b.expires > a.expires
  BY DEF ValidFenceRenewal
<1> HIDE DEF e
<1>4. SameOperation(a, b) => e = a
  BY <1>1 DEF SameOperation, GrantRecord
<1>5. e = a => SameOperation(a, b)
  BY <1>1 DEF SameOperation
<1> QED
  BY <1>2, <1>3, <1>4, <1>5

\* Renewals of renewals are renewals of the first grant.
LEMMA RenewalTransitive ==
    ASSUME NEW a \in GrantRecord, NEW b \in GrantRecord, NEW c \in GrantRecord,
           ValidFenceRenewal(a, b), ValidFenceRenewal(b, c)
    PROVE  ValidFenceRenewal(a, c)
<1>1. /\ a.issued \in Nat /\ b.issued \in Nat /\ c.issued \in Nat
      /\ a.expires \in Nat /\ b.expires \in Nat /\ c.expires \in Nat
  BY DEF GrantRecord
<1> QED
  BY <1>1, RenewalFields DEF SameOperation
=============================================================================
