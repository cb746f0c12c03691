------------------------------ MODULE MCRollout ------------------------------
(***************************************************************************)
(* A service of one or three replicas on three nodes: two recreate, one    *)
(* rolling and one manual blue-green revision.                             *)
(***************************************************************************)
EXTENDS Rollout

MCRevisions == {"recreate", "recreate3", "rolling", "green"}
MCStrategy == [r \in MCRevisions |->
                   CASE r \in {"recreate", "recreate3"} -> "recreate"
                     [] r = "rolling" -> "rolling"
                     [] OTHER -> "blue_green"]
MCManual == {"green"}
MCSlots == [r \in MCRevisions |-> IF r = "recreate" THEN {2} ELSE {1, 2, 3}]

==============================================================================
