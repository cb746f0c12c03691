--------------------------- MODULE MCWorkerFence ----------------------------
(***************************************************************************)
(* One worker (nodes do not interact in WorkerFence), offered the grants   *)
(* of three operations: op1 with two successive renewals, op2 signed for   *)
(* the generation that cordons the node, and op3 with op2's token, which   *)
(* only the worker's own check keeps apart.                                *)
(***************************************************************************)
EXTENDS WorkerFence

CONSTANTS w, ctl, app

G(token, op, operation, gen, issued, expires) ==
    [token |-> token, op |-> op, scope |-> app, operation |-> operation,
     gen |-> gen, targets |-> {w}, issued |-> issued, expires |-> expires]

MCGrant ==
    { G(1, 1, "deploy", 1, 0, 2), G(1, 1, "deploy", 1, 1, 3), G(1, 1, "deploy", 1, 2, 4),
      G(2, 2, "placement-apply", 2, 2, 4),
      G(2, 3, "deploy", 1, 0, 3) }

MCInventory ==
    { [gen |-> 1, lifecycle |-> [n \in {w} |-> "schedulable"]],
      [gen |-> 2, lifecycle |-> [n \in {w} |-> "cordoned"]] }
=============================================================================
