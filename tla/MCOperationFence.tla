-------------------------- MODULE MCOperationFence --------------------------
(***************************************************************************)
(* A controller and a worker; a coordinator that targets both and one of   *)
(* another project that targets the controller only.                       *)
(***************************************************************************)
EXTENDS OperationFence

CONSTANTS ctl, w, app1, app2, c1, c2

MCRequestOf ==
    [c \in {c1, c2} |->
        [id |-> c, operation |-> "deploy",
         scope |-> IF c = c1 THEN app1 ELSE app2,
         targets |-> IF c = c1 THEN {ctl, w} ELSE {ctl}]]

OneGeneration == {[gen |-> 1, lifecycle |-> [n \in {ctl, w} |-> "schedulable"]]}
TwoGenerations == {[gen |-> g, lifecycle |-> [n \in {ctl, w} |-> "schedulable"]] : g \in 1..2}

MCGrant ==
    [token: 1..MaxToken, op: 1..MaxOp, scope: {app1, app2}, operation: {"deploy"},
     gen: 1..2, targets: {{ctl}, {ctl, w}}, issued: 0..MaxIssue, expires: TTL..(MaxIssue + TTL)]
=============================================================================
