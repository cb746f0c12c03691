------------------------ MODULE MCControllerAuthority ------------------------
(***************************************************************************)
(* Two coordinators of different projects and a third request that reuses  *)
(* the first request ID for another scope.                                 *)
(***************************************************************************)
EXTENDS ControllerAuthority

CONSTANTS ctl, app1, app2, r1, r2

Req(id, scope, operation) ==
    [id |-> id, scope |-> scope, operation |-> operation, targets |-> {ctl}]

MCRequest ==
    { Req(r1, app1, "deploy"), Req(r2, app2, "placement-apply"), Req(r1, app2, "deploy") }

MCInventory ==
    { [gen |-> 1, lifecycle |-> [n \in {ctl} |-> "schedulable"]],
      [gen |-> 2, lifecycle |-> [n \in {ctl} |-> "cordoned"]] }
=============================================================================
