----------------------------- MODULE FenceGrant -----------------------------
(***************************************************************************)
(* The signed operation grant (nodeidentity.OperationFence) and the        *)
(* trusted inventory snapshot that controller and workers exchange.        *)
(*                                                                         *)
(* Abstracted: signatures, cluster identity and the private holder         *)
(* credential.  Exactly one credential exists per operation and only its   *)
(* holder presents it, so "the holder of operation o" stands for it; a     *)
(* grant that fails signature verification never reaches a state change.   *)
(***************************************************************************)
EXTENDS Integers

CONSTANTS
    Node,             \* enrolled nodes
    Controller,       \* the sole control-plane node (not in Node when an
                      \* instance consists of workers only)
    Scope,            \* project/environment pairs
    None,             \* a nil pointer or a missing file
    FutureTolerance,  \* how far ahead of a local clock IssuedAt may be (1 minute)
    Grant,            \* the grants a controller can sign
    Inventory         \* the inventory snapshots a controller can publish

Operation == {"deploy", "placement-apply"}

\* "cordoned" stands for cordoned and draining, "inactive" for a node that is
\* absent, joining, ready or whose mesh credential is revoked.
Lifecycle == {"schedulable", "cordoned", "inactive"}

GrantRecord ==
    [token: Nat \ {0}, op: Nat, scope: Scope, operation: Operation,
     gen: Nat, targets: SUBSET Node, issued: Nat, expires: Nat]

InventoryRecord == [gen: Nat, lifecycle: [Node -> Lifecycle]]

ASSUME ToleranceAssumption == FutureTolerance \in Nat
ASSUME GrantAssumption == Grant \subseteq GrantRecord /\ None \notin Grant
ASSUME InventoryAssumption == Inventory \subseteq InventoryRecord

\* Every membership change advances the generation.
ASSUME GenerationAssumption == \A u, v \in Inventory : u.gen = v.gen => u = v

\* OperationFence.Validate with a clock: not issued in the future, not expired.
Valid(f, now) == f.issued <= now + FutureTolerance /\ now < f.expires

Expired(f, now) == now >= f.expires

\* OperationFence.Targets.
Targets(f, n) == n \in f.targets

\* validFenceRenewal: the same grant with a strictly later validity window.
ValidFenceRenewal(active, candidate) ==
    /\ [candidate EXCEPT !.issued = active.issued, !.expires = active.expires] = active
    /\ candidate.issued > active.issued
    /\ candidate.expires > active.expires
=============================================================================
