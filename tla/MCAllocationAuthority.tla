------------------------ MODULE MCAllocationAuthority ------------------------
(***************************************************************************)
(* Operations of one application: the first publishes to both edges, the   *)
(* others to e1 only.                                                      *)
(***************************************************************************)
EXTENDS AllocationAuthority, TLC

CONSTANTS w, e1, e2, o1, o2, o3, app

MCScopeOf == [o \in Ops |-> app]
MCEdgesOf == [o \in Ops |-> IF o = o1 THEN Edges ELSE {e1}]

\* The first operation differs from the others.
Alike == Permutations({o2, o3})
==============================================================================
