---------------------------- MODULE NodeLifecycle ----------------------------
(***************************************************************************)
(* Membership of a cluster: join tokens, enrollment, and the lifecycle     *)
(*                                                                         *)
(*   joining -> ready -> schedulable <-> cordoned -> draining -> removed   *)
(*                                                                         *)
(* The controller keeps the membership file and, beside it, the inventory  *)
(* derived from it.  A CLI command on the controller changes the file      *)
(* under its lock, rewrites WireGuard's peers, and copies the inventory    *)
(* over SSH to one worker after another.  Every step may be the last: the  *)
(* process dies, a worker cannot be reached, a file cannot be written.     *)
(*                                                                         *)
(* Every change of the file raises its generation and an inventory is      *)
(* replaced when its generation differs, so an inventory is here the       *)
(* lifecycle of every worker it was derived from.  Abstracted: keys,       *)
(* addresses and host keys, the SSH transport, the proxy, timestamps, the  *)
(* order of the membership's node list, the controller's own lifecycle.    *)
(***************************************************************************)
EXTENDS Naturals, FiniteSets

CONSTANTS
    Workers,     \* node IDs other than the controller's
    Tokens,      \* join tokens; one that is consumed or expired may stand for a later one
    TokenNode,   \* TokenNode[t]: the node the token is bound to
    Sessions,    \* CLI processes on the controller
    None         \* no inventory, no session, no worker

ASSUME NodeAssumption ==
    /\ TokenNode \in [Tokens -> Workers]
    /\ None \notin Workers /\ None \notin Tokens

VARIABLES
    members,     \* membership file: the lifecycle of every worker
    removal,     \* membership file: the phase of its removal operation
    open,        \* membership file: the join tokens neither consumed nor expired
    ctlInv,      \* the controller's inventory file
    ctlPeers,    \* the workers among the controller's WireGuard peers
    inv,         \* inv[w]: the inventory file on w
    peers,       \* peers[w]: the workers among w's WireGuard peers
    latch,       \* latch[w]: the deployment deny latch on w
    meshKey,     \* meshKey[w]: the mesh key bound at enrollment, on w's disk
    takod,       \* takod[w]: takod runs on w
    cmd          \* cmd[s]: the command that session s runs

store == <<members, removal, open>>
controller == <<ctlInv, ctlPeers>>
worker == <<inv, peers, latch, meshKey, takod>>
vars == <<store, controller, worker, cmd>>

Lifecycle == {"absent", "joining", "ready", "schedulable", "cordoned", "draining", "removed"}
RemovalPhase == {"none", "revoke-peers", "remove-membership", "cleanup-target"}
Inventory == [Workers -> Lifecycle]

ASSUME InventoryAssumption == None \notin Inventory

Kinds == {"enroll", "schedulable", "cordon", "drain", "remove"}
Publishing == {"revoke", "first", "target", "others"}
Steps == Publishing \cup
    {"idle", "reserve", "identity", "enroll", "ready", "latch", "store", "prepare", "reread",
     "revokeController", "mark", "removeMember", "read", "mesh", "clear",
     "cleanup", "complete"}

\* pc: the step it takes next; kind, node: its verb and --node-id; seen, phase:
\* the membership and the removal phase it has read last; todo: the workers its
\* present loop has still to publish to; dest, payload: the worker it uploads an
\* inventory to and the inventory; token: the token whose current reservation it
\* holds.
Command == [pc: Steps, kind: Kinds, node: Workers \cup {None}, seen: Inventory,
            phase: RemovalPhase, todo: SUBSET Workers, dest: Workers \cup {None},
            payload: Inventory, token: Tokens \cup {None}]

\* The nodes an inventory lists: those with a mesh credential.
Active(m) == {w \in Workers : m[w] \notin {"absent", "removed"}}

Nobody == [w \in Workers |-> "absent"]

Idle == [pc |-> "idle", kind |-> "enroll", node |-> None, seen |-> Nobody, phase |-> "none",
         todo |-> {}, dest |-> None, payload |-> Nobody, token |-> None]

Init ==
    /\ members = Nobody
    /\ removal = [w \in Workers |-> "none"]
    /\ open = {}
    /\ ctlInv = members
    /\ ctlPeers = {}
    /\ inv = [w \in Workers |-> None]
    /\ peers = [w \in Workers |-> {}]
    /\ latch = [w \in Workers |-> FALSE]
    /\ meshKey = [w \in Workers |-> "none"]
    /\ takod = [w \in Workers |-> FALSE]
    /\ cmd = [s \in Sessions |-> Idle]

-----------------------------------------------------------------------------
(* The membership store.  A mutation writes the membership file and then   *)
(* the inventory; a fault between the two leaves the inventory behind and  *)
(* ends the command.  A mutation that changes nothing, and every Read,     *)
(* still bring the inventory up.                                           *)

\* Mutant: the inventory is replaced only when the node list differs.
ReconcileNodeList(m) == IF Active(m) = Active(ctlInv) THEN ctlInv ELSE m

ReconcileInventory(m) == m

\* The command of session s continues as c, or has ended.
Continue(s, c) == cmd' = [cmd EXCEPT ![s] = c]
End(s) == Continue(s, Idle)
Goto(s, step) == Continue(s, [cmd[s] EXCEPT !.pc = step])

Commit(s, m, c) ==
    /\ members' = m
    /\ \/ ctlInv' = ReconcileInventory(m) /\ Continue(s, c)
       \/ ctlInv' = ctlInv /\ End(s)

CreateJoinToken(t) ==
    /\ t \notin open
    /\ members[TokenNode[t]] = "absent"
    /\ open' = open \cup {t}
    /\ ctlInv' \in {ctlInv, ReconcileInventory(members)}
    /\ UNCHANGED <<members, removal, ctlPeers, worker, cmd>>

\* An unused token passes its expiry, a reservation its five minutes.
ExpireToken(t) ==
    /\ open' = open \ {t}
    /\ UNCHANGED <<members, removal, controller, worker, cmd>>

ExpireReservation(s) ==
    /\ cmd[s].token # None
    /\ Continue(s, [cmd[s] EXCEPT !.token = None])
    /\ UNCHANGED <<store, controller, worker>>

-----------------------------------------------------------------------------
(* tako platform node enroll                                               *)

BeginEnroll(s, w) ==
    /\ cmd[s].pc = "idle"
    /\ ctlInv' = ReconcileInventory(members)
    /\ Continue(s, [Idle EXCEPT !.node = w, !.seen = members,
           !.pc = IF w \in Active(members) THEN "identity" ELSE "reserve"])
    /\ UNCHANGED <<store, ctlPeers, worker>>

\* Authenticates the token and replaces an abandoned reservation of it.
ReserveJoinToken(s, t) ==
    LET others == [u \in Sessions |-> IF cmd[u].token = t THEN [cmd[u] EXCEPT !.token = None]
                                      ELSE cmd[u]] IN
    /\ cmd[s].pc = "reserve"
    /\ t \in open /\ TokenNode[t] = cmd[s].node
    /\ \/ /\ ctlInv' = ReconcileInventory(members)
          /\ cmd' = [others EXCEPT ![s] = [cmd[s] EXCEPT !.pc = "identity", !.token = t]]
       \/ ctlInv' = ctlInv /\ cmd' = [others EXCEPT ![s] = Idle]
    /\ UNCHANGED <<store, ctlPeers, worker>>

\* prepare-enrollment on the worker creates its keys once.  A removed worker
\* gets a key again, never the one its membership bound.
PrepareIdentity(s) ==
    LET c == cmd[s]
        w == c.node IN
    /\ c.pc = "identity"
    /\ meshKey' = [meshKey EXCEPT ![w] = IF @ = "none" THEN "held" ELSE @]
    /\ \/ w \notin Active(c.seen) /\ Goto(s, "enroll")
       \/ /\ c.seen[w] \in {"joining", "ready"}
          /\ Continue(s, [c EXCEPT !.pc = "first", !.todo = {w}])
    /\ UNCHANGED <<store, controller, inv, peers, latch, takod>>

\* Mutant: the tombstone is not looked up.
EnrollTombstoned(s, t) ==
    LET c == cmd[s]
        w == c.node IN
    /\ c.pc = "enroll"
    /\ w \notin Active(members)
    /\ c.token = t /\ t \in open /\ TokenNode[t] = w
    /\ open' = open \ {t}
    /\ Commit(s, [members EXCEPT ![w] = "joining"],
              [c EXCEPT !.pc = "first", !.todo = {w}, !.seen[w] = "joining", !.token = None])
    /\ UNCHANGED <<removal, ctlPeers, worker>>

EnrollWorker(s, t) ==
    LET c == cmd[s]
        w == c.node IN
    /\ c.pc = "enroll"
    /\ members[w] = "absent"
    /\ c.token = t /\ t \in open /\ TokenNode[t] = w
    /\ open' = open \ {t}
    /\ Commit(s, [members EXCEPT ![w] = "joining"],
              [c EXCEPT !.pc = "first", !.todo = {w}, !.seen[w] = "joining",
                        !.token = None])
    /\ UNCHANGED <<removal, ctlPeers, worker>>

MarkReady(s) ==
    LET c == cmd[s]
        w == c.node IN
    /\ c.pc = "ready"
    /\ \/ /\ c.seen[w] = "joining"
          /\ members[w] \in {"joining", "ready"}
          /\ Commit(s, [members EXCEPT ![w] = "ready"], [c EXCEPT !.pc = "read"])
       \/ c.seen[w] # "joining" /\ Goto(s, "read") /\ UNCHANGED <<members, ctlInv>>
    /\ UNCHANGED <<removal, open, ctlPeers, worker>>

-----------------------------------------------------------------------------
(* tako platform node schedulable | cordon | drain | remove                *)

\* Mutant: a removal that has only the cleanup left does not publish again.
ResumeAtCleanup(p) ==
    CASE p = "none"              -> "prepare"
      [] p = "revoke-peers"      -> "revokeController"
      [] p = "remove-membership" -> "removeMember"
      [] p = "cleanup-target"    -> "cleanup"

\* Where a removal resumes from the phase it has read.
ResumeAt(p) ==
    CASE p = "none"              -> "prepare"
      [] p = "revoke-peers"      -> "revokeController"
      [] p = "remove-membership" -> "removeMember"
      [] p = "cleanup-target"    -> "read"

StoreStep(k, p) == IF k = "remove" THEN ResumeAt(p) ELSE "store"

\* Mutant: only a removal sets the deny latch first.
FirstStepUnlatched(k, w) ==
    IF k = "remove" /\ w \in Active(members) THEN "latch" ELSE StoreStep(k, removal[w])

\* Every command but schedulable sets the deny latch on an active node first.
FirstStep(k, w) ==
    IF k # "schedulable" /\ w \in Active(members) THEN "latch" ELSE StoreStep(k, removal[w])

BeginLifecycle(s, k, w) ==
    /\ cmd[s].pc = "idle"
    /\ k # "enroll"
    /\ w \in Active(members) \/ (k = "remove" /\ removal[w] # "none")
    /\ ctlInv' = ReconcileInventory(members)
    /\ Continue(s, [Idle EXCEPT !.kind = k, !.node = w, !.seen = members,
                                !.phase = removal[w], !.pc = FirstStep(k, w)])
    /\ UNCHANGED <<store, ctlPeers, worker>>

SetDeny(s) ==
    /\ cmd[s].pc = "latch"
    /\ latch' = [latch EXCEPT ![cmd[s].node] = TRUE]
    /\ Goto(s, StoreStep(cmd[s].kind, cmd[s].phase))
    /\ UNCHANGED <<store, controller, inv, peers, meshKey, takod>>

\* The lifecycles a command accepts (its own result included) and its result.
From(k) ==
    CASE k = "schedulable" -> {"ready", "cordoned", "schedulable"}
      [] k = "cordon"      -> {"ready", "schedulable", "cordoned"}
      [] k = "drain"       -> {"cordoned", "draining"}
To(k) ==
    CASE k = "schedulable" -> "schedulable"
      [] k = "cordon"      -> "cordoned"
      [] k = "drain"       -> "draining"

Transition(s) ==
    LET c == cmd[s] IN
    /\ c.pc = "store"
    /\ members[c.node] \in From(c.kind)
    /\ Commit(s, [members EXCEPT ![c.node] = To(c.kind)], [c EXCEPT !.pc = "read"])
    /\ UNCHANGED <<removal, open, ctlPeers, worker>>

PrepareRemoval(s) ==
    LET c == cmd[s]
        w == c.node
        p == IF removal[w] = "none" THEN "revoke-peers" ELSE removal[w] IN
    /\ c.pc = "prepare"
    /\ removal[w] # "none" \/ members[w] = "draining"
    /\ removal' = [removal EXCEPT ![w] = p]
    /\ Commit(s, members, [c EXCEPT !.pc = "reread", !.phase = p])
    /\ UNCHANGED <<open, ctlPeers, worker>>

RereadForRemoval(s) ==
    LET c == cmd[s] IN
    /\ c.pc = "reread"
    /\ ctlInv' = ReconcileInventory(members)
    /\ Continue(s, [c EXCEPT !.seen = members, !.pc = ResumeAt(c.phase)])
    /\ UNCHANGED <<store, ctlPeers, worker>>

\* platformMeshTopology: every other listed node, minus the excluded one.
MeshPeers(m, self, excluded) == Active(m) \ {self, excluded}

\* revokeMeshPeerEverywhere: the controller first, then every other worker.
RevokeOnController(s) ==
    LET c == cmd[s] IN
    /\ c.pc = "revokeController"
    /\ c.node \in Active(ctlInv)
    /\ ctlPeers' = MeshPeers(ctlInv, None, c.node)
    /\ Continue(s, [c EXCEPT !.pc = "revoke", !.todo = Active(c.seen) \ {c.node}])
    /\ UNCHANGED <<store, ctlInv, worker>>

MarkRemovalPeersRevoked(s) ==
    LET c == cmd[s] IN
    /\ c.pc = "mark"
    /\ removal[c.node] # "none"
    /\ removal' = [removal EXCEPT ![c.node] = IF @ = "revoke-peers" THEN "remove-membership" ELSE @]
    /\ Commit(s, members, [c EXCEPT !.pc = "removeMember"])
    /\ UNCHANGED <<open, ctlPeers, worker>>

Remove(s) ==
    LET c == cmd[s]
        w == c.node IN
    /\ c.pc = "removeMember"
    /\ \/ members[w] = "removed" /\ UNCHANGED removal
       \/ /\ members[w] = "draining" /\ removal[w] = "remove-membership"
          /\ removal' = [removal EXCEPT ![w] = "cleanup-target"]
    /\ Commit(s, [members EXCEPT ![w] = "removed"], [c EXCEPT !.pc = "read"])
    /\ UNCHANGED <<open, ctlPeers, worker>>

\* Mutant: the target is left to the loop over the other workers, which skips it.
ReadBackNoTarget(s) ==
    LET c == cmd[s] IN
    /\ c.pc = "read"
    /\ ctlInv' = ReconcileInventory(members)
    /\ Continue(s, [c EXCEPT !.seen = members, !.phase = removal[c.node], !.pc = "mesh"])
    /\ UNCHANGED <<store, ctlPeers, worker>>

\* /v1/platform/membership/reconcile reads the store and the command reads it
\* again.  An enrollment, which skips the former, then publishes to all workers
\* in one loop, the other commands to their target first.
ReadBack(s) ==
    LET c == cmd[s] IN
    /\ c.pc = "read"
    /\ ctlInv' = ReconcileInventory(members)
    /\ Continue(s, [c EXCEPT !.seen = members, !.phase = removal[c.node],
           !.todo = IF c.kind = "enroll" THEN {} ELSE {c.node} \cap Active(members),
           !.pc = IF c.kind = "enroll" THEN "mesh" ELSE "target"])
    /\ UNCHANGED <<store, ctlPeers, worker>>

ControllerMesh(s) ==
    LET c == cmd[s]
        skipped == IF c.kind = "enroll" THEN {} ELSE {c.node} IN
    /\ c.pc = "mesh"
    /\ ctlPeers' = MeshPeers(ctlInv, None, None)
    /\ Continue(s, [c EXCEPT !.pc = "others", !.todo = Active(c.seen) \ skipped])
    /\ UNCHANGED <<store, ctlInv, worker>>

-----------------------------------------------------------------------------
(* Publication of the inventory to one worker: the file is opened and      *)
(* uploaded, then a script installs it, rewrites WireGuard's peers,        *)
(* restarts takod and attests the result.                                  *)

Upload(s, w) ==
    LET c == cmd[s] IN
    /\ c.pc \in Publishing
    /\ c.dest = None /\ w \in c.todo
    /\ Continue(s, [c EXCEPT !.dest = w, !.todo = @ \ {w}, !.payload = ctlInv])
    /\ UNCHANGED <<store, controller, worker>>

Excluded(c) == IF c.pc = "revoke" THEN c.node ELSE None

\* reconcile-mesh refuses an inventory without the worker or without the node
\* to exclude; the attestation needs the bound mesh key.
Installable(c) ==
    /\ c.dest \in Active(c.payload)
    /\ c.pc = "revoke" => c.node \in Active(c.payload)
    /\ meshKey[c.dest] = "held"

\* The script has run to its end, or has died with the inventory installed.
Install(s) ==
    LET c == cmd[s]
        w == c.dest IN
    /\ w # None
    /\ inv' = [inv EXCEPT ![w] = c.payload]
    /\ \/ /\ Installable(c)
          /\ peers' = [peers EXCEPT ![w] = MeshPeers(c.payload, w, Excluded(c))]
          /\ takod' = [takod EXCEPT ![w] = TRUE]
          /\ Continue(s, [c EXCEPT !.dest = None, !.payload = Nobody])
       \/ End(s) /\ UNCHANGED <<peers, takod>>
    /\ UNCHANGED <<store, controller, latch, meshKey>>

AfterOthers(c) ==
    IF c.kind = "schedulable" /\ c.node \in Active(c.seen) THEN "clear"
    ELSE IF c.kind = "remove" /\ c.phase # "none" THEN "cleanup"
    ELSE "idle"

\* Mutant: a step nobody takes follows the last loop.
AfterLoopUnknown(c) ==
    CASE c.pc = "revoke" -> "mark"
      [] c.pc = "first"  -> "ready"
      [] c.pc = "target" -> "mesh"
      [] c.pc = "others" -> "published"

AfterLoop(c) ==
    CASE c.pc = "revoke" -> "mark"
      [] c.pc = "first"  -> "ready"
      [] c.pc = "target" -> "mesh"
      [] c.pc = "others" -> AfterOthers(c)

PublicationDone(s) ==
    LET c == cmd[s]
        step == AfterLoop(c) IN
    /\ c.pc \in Publishing
    /\ c.dest = None /\ c.todo = {}
    /\ IF step = "idle" THEN End(s) ELSE Goto(s, step)
    /\ UNCHANGED <<store, controller, worker>>

-----------------------------------------------------------------------------
(* The last steps of schedulable and remove, and faults.                   *)

ClearDeny(s) ==
    /\ cmd[s].pc = "clear"
    /\ latch' = [latch EXCEPT ![cmd[s].node] = FALSE]
    /\ End(s)
    /\ UNCHANGED <<store, controller, inv, peers, meshKey, takod>>

RevokeRemovedWorker(s) ==
    LET w == cmd[s].node IN
    /\ cmd[s].pc = "cleanup"
    /\ inv' = [inv EXCEPT ![w] = ctlInv]
    /\ \/ /\ takod' = [takod EXCEPT ![w] = FALSE]
          /\ peers' = [peers EXCEPT ![w] = {}]
          /\ meshKey' = [meshKey EXCEPT ![w] = "deleted"]
          /\ Goto(s, "complete")
       \/ End(s) /\ UNCHANGED <<takod, peers, meshKey>>
    /\ UNCHANGED <<store, controller, latch>>

CompleteRemoval(s) ==
    LET w == cmd[s].node IN
    /\ cmd[s].pc = "complete"
    /\ \/ removal[w] = "cleanup-target"
       \/ removal[w] = "none" /\ members[w] = "removed"
    /\ removal' = [removal EXCEPT ![w] = "none"]
    /\ Commit(s, members, Idle)
    /\ UNCHANGED <<open, ctlPeers, worker>>

\* The command is killed, or returns an error, before its next step.
Abort(s) ==
    /\ cmd[s].pc # "idle"
    /\ End(s)
    /\ UNCHANGED <<store, controller, worker>>

Session(s) ==
    \/ \E w \in Workers : BeginEnroll(s, w) \/ Upload(s, w)
    \/ \E k \in Kinds, w \in Workers : BeginLifecycle(s, k, w)
    \/ \E t \in Tokens : ReserveJoinToken(s, t) \/ EnrollWorker(s, t)
    \/ PrepareIdentity(s) \/ MarkReady(s)
    \/ SetDeny(s) \/ Transition(s)
    \/ PrepareRemoval(s) \/ RereadForRemoval(s) \/ RevokeOnController(s)
    \/ MarkRemovalPeersRevoked(s) \/ Remove(s)
    \/ ReadBack(s) \/ ControllerMesh(s)
    \/ Install(s) \/ PublicationDone(s)
    \/ ClearDeny(s) \/ RevokeRemovedWorker(s) \/ CompleteRemoval(s)
    \/ ExpireReservation(s) \/ Abort(s)

Next ==
    \/ \E s \in Sessions : Session(s)
    \/ \E t \in Tokens : CreateJoinToken(t) \/ ExpireToken(t)

Spec == Init /\ [][Next]_vars

-----------------------------------------------------------------------------
(* Properties                                                              *)

TypeOK ==
    /\ members \in Inventory
    /\ removal \in [Workers -> RemovalPhase]
    /\ open \subseteq Tokens
    /\ ctlInv \in Inventory
    /\ ctlPeers \subseteq Workers
    /\ inv \in [Workers -> Inventory \cup {None}]
    /\ peers \in [Workers -> SUBSET Workers]
    /\ latch \in [Workers -> BOOLEAN]
    /\ meshKey \in [Workers -> {"none", "held", "deleted"}]
    /\ takod \in [Workers -> BOOLEAN]
    /\ cmd \in [Sessions -> Command]

\* enrolledLifecycleHandler lets a workload mutation through on w.
Accepts(w) ==
    /\ takod[w] /\ ~latch[w]
    /\ inv[w] # None /\ inv[w][w] = "schedulable"

\* A node that the controller has cordoned, is draining or has removed accepts
\* no workload mutation, whatever it knows of the membership and wherever the
\* command that took it out has died: lifecycleCommand sets the deny latch
\* before it commits.
FailClosed == \A w \in Workers : members[w] \in {"cordoned", "draining", "removed"} => ~Accepts(w)

\* lifecycleCommand clears the deny latch only on a node whose own inventory
\* and whose membership say schedulable.
ClearedWhenAttested ==
    [][\A w \in Workers : latch[w] /\ ~latch'[w] =>
           members[w] = "schedulable" /\ inv[w] # None /\ inv[w][w] = "schedulable"]_vars

\* A tombstone is permanent: neither an older token of the node nor a command
\* that read the membership before the removal brings the node back.
RemovedForGood ==
    [][\A w \in Workers : members[w] = "removed" => members'[w] = "removed"]_vars

\* A removal is forgotten only when the removed node's mesh key is gone and the
\* controller and all remaining workers have dropped it as a peer.
RemovedIsIsolated ==
    \A w \in Workers : members[w] = "removed" /\ removal[w] = "none" =>
        /\ meshKey[w] = "deleted" /\ ~takod[w]
        /\ w \notin ctlPeers
        /\ \A v \in Active(members) : w \notin peers[v]

\* When a lifecycle command has published to everyone, every active worker has
\* the controller's present membership.
PublishedToAll ==
    \A s \in Sessions : cmd[s].pc \in {"clear", "cleanup", "complete"} =>
        \A w \in Active(members) : inv[w] = members

\* docs/CONFIGURATION.md: the WireGuard configuration of the controller and of
\* every remaining peer is without the target before the tombstone commits.
RevokedBeforeTombstone ==
    [][\A w \in Workers : members[w] # "removed" /\ members'[w] = "removed" =>
              w \notin ctlPeers /\ \A v \in Active(members) \ {w} : w \notin peers[v]]_vars
==============================================================================
