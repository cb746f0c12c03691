------------------------------- MODULE Rollout -------------------------------
(***************************************************************************)
(* How one proxied service gets from one revision to the next.             *)
(*                                                                         *)
(* A command (deploy, promote, rollback, scale) holds the operation fence  *)
(* of every node, so commands run one at a time.  It reads from the labels *)
(* of the running containers which revision is current and plans; then it  *)
(* reconciles the containers of its revision on all nodes in parallel,     *)
(* points the proxies at a revision, and prunes the containers of all      *)
(* others.  Each of the three waits for all nodes and ends the command if  *)
(* one of them failed.  What a failed command did stays: the next one      *)
(* starts from the labels it left.                                         *)
(*                                                                         *)
(* Under `recreate' a node's containers are removed first and the new ones *)
(* take over their names; under `rolling' and `blue_green' names and       *)
(* aliases carry the revision, and a route reaches only containers that    *)
(* were started under the kind of name it uses.                            *)
(*                                                                         *)
(* A revision stands for what its identifier hashes: image, configuration  *)
(* (with the number of replicas) and strategy.  A service has at most one  *)
(* replica on a node.  Abstracted: health checks (a container that a node  *)
(* reports started is healthy), the grace period (pruning may come late),  *)
(* the difference between images, ports, release commands and files.       *)
(***************************************************************************)
EXTENDS Naturals, SequencesExt

CONSTANTS
    NumNodes,       \* nodes are numbered in the order of their names
    Proxies,        \* the nodes that run a proxy
    Revisions,
    Strategy,       \* Strategy[r]: deploy.strategy
    Manual,         \* the blue-green revisions with promotion: manual
    Slots,          \* Slots[r]: the nodes that run a replica of r
    MaxCommands,    \* edits and commands other than a plain deploy
    MaxFaults,
    None

Nodes == 1..NumNodes

ASSUME RolloutAssumption ==
    /\ NumNodes \in Nat /\ Proxies \subseteq Nodes
    /\ Strategy \in [Revisions -> {"recreate", "rolling", "blue_green"}]
    /\ Manual \subseteq {r \in Revisions : Strategy[r] = "blue_green"}
    /\ Slots \in [Revisions -> (SUBSET Nodes) \ {{}}]
    /\ MaxCommands \in Nat /\ MaxFaults \in Nat
    /\ None \notin Revisions

VARIABLES
    config,         \* the revision tako.yaml describes; None: it has no such service
    containers,     \* containers[n][r]: the replica of r on n, with its tako.active label
    route,          \* route[p]: the revision in the proxy's upstreams and their nodes
    session,        \* the running command
    step,           \* step[n]: how far node n is in the phase at hand
    commands, faults

vars == <<config, containers, route, session, step, commands, faults>>

Label == Revisions \cup {None}
Route == [rev: Label, nodes: SUBSET Nodes]

\* target: the revision it starts, if it starts one; warm: without making it active;
\* route: where it points the proxies; keep: the revision that pruning spares, None if
\* it does not prune; late: route and keep are determined after reconciliation.
Session == [phase: {"idle", "reconcile", "switch", "prune"}, target: Label,
            warm: BOOLEAN, route: Route, keep: Label, late: BOOLEAN]

\* A route without upstreams is left out of the proxy's configuration.
NoRoute == [rev |-> None, nodes |-> {}]
Idle == [phase |-> "idle", target |-> None, warm |-> FALSE, route |-> NoRoute,
         keep |-> None, late |-> FALSE]

Init ==
    /\ config \in Label
    /\ containers = [n \in Nodes |-> [r \in Revisions |-> "none"]]
    /\ route = [p \in Proxies |-> NoRoute]
    /\ session = Idle
    /\ step = [n \in Nodes |-> "todo"]
    /\ commands = 0 /\ faults = 0

-----------------------------------------------------------------------------
(* What a command reads: labels of the running containers *)

\* Names and aliases of the containers of r contain the revision.
Scoped(r) == Strategy[r] \in {"rolling", "blue_green"}

SlotsOf(c) == IF c = None THEN {} ELSE Slots[c]

Labelled(n, labels) == {r \in Revisions : containers[n][r] \in labels}
Running(n) == Labelled(n, {"warm", "active"})

MergeOptionalLabel(existing, incoming) ==
    IF incoming = None \/ existing = incoming THEN existing
    ELSE IF existing = None THEN incoming ELSE None

\* Merging the labels of one node in the order docker lists them: a second label
\* clears the first, a third is taken again.  Any of them may be listed last.
MergedOnNode(S) == IF Cardinality(S) % 2 = 0 THEN {None} ELSE S

\* The nodes' results are merged in the order of the node names.
Aggregate(merged) ==
    {FoldLeft(MergeOptionalLabel, None, f) :
        f \in {g \in [Nodes -> UNION Range(merged)] : \A n \in Nodes : g[n] \in merged[n]}}

\* A node all of whose containers are warming, for one revision, takes that for active.
OnlyWarming(n) ==
    Labelled(n, {"active"}) = {} /\ Cardinality(Labelled(n, {"warm"})) = 1

CurrentRevision ==
    Aggregate([n \in Nodes |-> IF OnlyWarming(n) THEN Labelled(n, {"warm"})
                               ELSE MergedOnNode(Labelled(n, {"active"}))])

WarmingRevisions ==
    UNION {Labelled(n, {"warm"}) : n \in {m \in Nodes : ~OnlyWarming(m)}}

\* tako.configHash.
ConfigHash == Aggregate([n \in Nodes |-> MergedOnNode(Running(n))])

Exists == \E n \in Nodes : Running(n) # {}
Replicas == FoldLeft(+, 0, [n \in Nodes |-> Cardinality(Running(n))])

\* Mutant: the number of replicas is not compared.
ChangedHash(c, hash) == ~Exists \/ hash # c

\* detectChanges, for what the hashes merged to.  Without a hash it compares the proxy
\* settings with those of an empty snapshot, which a proxied service differs from.
Changed(c, hash) == ~Exists \/ Replicas # Cardinality(Slots[c]) \/ hash # c

\* ProxyActiveRevisions: the revision the proxies are pointed at; None: the upstreams
\* are named without one.
ActiveRevision(c, deploying, current) ==
    IF ~Scoped(c) THEN None
    ELSE IF deploying /\ ~(c \in Manual /\ current # None) THEN c
    ELSE current

-----------------------------------------------------------------------------
(* Commands *)

Ready == session.phase = "idle"

\* A command other than a plain deploy, of which there are MaxCommands.
Ordered == commands < MaxCommands /\ commands' = commands + 1

Begin(phase, target, warm, rt, keep, late) ==
    /\ session' = [phase |-> phase, target |-> target, warm |-> warm, route |-> rt,
                   keep |-> keep, late |-> late]
    /\ step' = [n \in Nodes |-> "todo"]

EditConfig(c) ==
    /\ Ordered /\ Ready /\ c # config
    /\ config' = c
    /\ UNCHANGED <<containers, route, session, step, faults>>

\* The plan is empty: the proxies are pointed at what runs.
DeployUpToDate(cur) ==
    /\ Ready /\ cur \in CurrentRevision
    /\ IF config = None
       THEN ~Exists /\ Begin("switch", None, FALSE, NoRoute, None, FALSE)
       ELSE /\ \E hash \in ConfigHash : ~Changed(config, hash)
            /\ Begin("switch", None, FALSE,
                     [rev |-> ActiveRevision(config, FALSE, cur), nodes |-> Slots[config]],
                     None, FALSE)
    /\ UNCHANGED <<config, containers, route, commands, faults>>

\* A revision with manual promotion is only warmed when there is a current one, and
\* what ran before is not pruned.
Rollout(cur) ==
    /\ Begin("reconcile", config, config \in Manual /\ cur # None,
             [rev |-> ActiveRevision(config, TRUE, cur), nodes |-> Slots[config]],
             IF config \in Manual THEN None ELSE ActiveRevision(config, TRUE, cur), FALSE)
    /\ UNCHANGED <<config, containers, route, faults>>

DeployChanged(cur) ==
    /\ Ready /\ config # None /\ cur \in CurrentRevision
    /\ \E hash \in ConfigHash : Changed(config, hash)
    /\ Rollout(cur)
    /\ UNCHANGED commands

\* deploy --force; a service built from source is deployed like this each time.
DeployForced(cur) ==
    /\ Ready /\ config # None /\ cur \in CurrentRevision
    /\ Rollout(cur)
    /\ Ordered

\* The service is running and no longer in the configuration.
DeployRemoval ==
    /\ Ready /\ config = None /\ Exists
    /\ Begin("reconcile", None, FALSE, NoRoute, None, FALSE)
    /\ UNCHANGED <<config, containers, route, commands, faults>>

\* The warmed revision is started once more, as active, before the switch.
Promote(cur) ==
    /\ Ordered /\ Ready /\ cur \in CurrentRevision
    /\ config \in Manual /\ config \in WarmingRevisions \ {cur}
    /\ Begin("reconcile", config, FALSE, [rev |-> config, nodes |-> Slots[config]],
             config, FALSE)
    /\ UNCHANGED <<config, containers, route, faults>>

\* r: an image and a number of replicas from the deployment history, the rest taken from
\* the configuration.  The history is not modelled: every revision may be in it.
SameKind(r) ==
    /\ config # None
    /\ Strategy[r] = Strategy[config] /\ (r \in Manual <=> config \in Manual)

Rollback(r) ==
    /\ Ordered /\ Ready /\ SameKind(r)
    /\ Begin("reconcile", r, FALSE, NoRoute, None, TRUE)
    /\ UNCHANGED <<config, containers, route, faults>>

\* r: the configuration with another number of replicas.  The proxies are reconciled
\* without active revisions.
Scale(r) ==
    /\ Ordered /\ Ready /\ SameKind(r)
    /\ Begin("reconcile", r, FALSE, [rev |-> None, nodes |-> Slots[r]], None, FALSE)
    /\ UNCHANGED <<config, containers, route, faults>>

-----------------------------------------------------------------------------
(* The steps of a command *)

Fault == faults < MaxFaults /\ faults' = faults + 1

Without(n, S) == [containers EXCEPT ![n] =
                      [r \in Revisions |-> IF r \in S THEN "none" ELSE @[r]]]

\* Mutant: every strategy removes by revision.
ReplacedByRevision == IF session.target = None THEN Revisions ELSE {session.target}

\* What reconciling the target takes away first: its own containers if names carry the
\* revision, else all containers of the service.
Replaced == IF session.target # None /\ Scoped(session.target)
            THEN {session.target} ELSE Revisions

NodeRemoves(n) ==
    /\ session.phase = "reconcile" /\ step[n] = "todo"
    /\ containers' = Without(n, Replaced)
    /\ step' = [step EXCEPT ![n] = IF n \in SlotsOf(session.target) THEN "removed" ELSE "ok"]
    /\ UNCHANGED <<config, route, session, commands, faults>>

\* Mutant: the label is stored as it is spelled.
StartedRaw(n) == [containers EXCEPT ![n][session.target] =
                      IF session.warm THEN "false" ELSE "active"]

Started(n) == [containers EXCEPT ![n][session.target] =
                   IF session.warm THEN "warm" ELSE "active"]

NodeStarts(n) ==
    /\ session.phase = "reconcile" /\ step[n] = "removed"
    /\ containers' = Started(n)
    /\ step' = [step EXCEPT ![n] = "ok"]
    /\ UNCHANGED <<config, route, session, commands, faults>>

\* The request is lost, or fails at any point (with some containers removed; what it
\* started is removed again), or succeeds and the reply is lost.
NodeFails(n) ==
    /\ Fault /\ session.phase = "reconcile"
    /\ \/ step[n] = "todo" /\ \E S \in SUBSET Replaced : containers' = Without(n, S)
       \/ step[n] = "removed" /\ containers' \in {containers, Started(n)}
    /\ step' = [step EXCEPT ![n] = "failed"]
    /\ UNCHANGED <<config, route, session, commands>>

\* Mutant: the first result is enough.
SettledFirst(S) == \E n \in S : step[n] \in {"ok", "failed"}

Settled(S) == \A n \in S : step[n] \in {"ok", "failed"}

\* Mutant: the nodes' errors are lost.
FailedUnseen(S) == S = {}

Failed(S) == \E n \in S : step[n] = "failed"

\* A rollback reads the labels again to find out where to point the proxies.
ReconcileEnds(cur) ==
    /\ session.phase = "reconcile" /\ Settled(Nodes) /\ cur \in CurrentRevision
    /\ IF Failed(Nodes)
       THEN session' = Idle
       ELSE LET active == IF session.late THEN ActiveRevision(session.target, TRUE, cur)
                          ELSE session.route.rev
            IN session' = [session EXCEPT
                 !.phase = "switch",
                 !.late = FALSE,
                 !.route = IF session.late
                           THEN [rev |-> active, nodes |-> Slots[session.target]] ELSE @,
                 !.keep = IF session.late /\ session.target \notin Manual
                          THEN active ELSE @]
    /\ step' = [n \in Nodes |-> "todo"]
    /\ UNCHANGED <<config, containers, route, commands, faults>>

ProxySwitches(p) ==
    /\ session.phase = "switch" /\ step[p] = "todo"
    /\ route' = [route EXCEPT ![p] = session.route]
    /\ step' = [step EXCEPT ![p] = "ok"]
    /\ UNCHANGED <<config, containers, session, commands, faults>>

ProxyFails(p) ==
    /\ Fault /\ session.phase = "switch" /\ step[p] = "todo"
    /\ route' \in {route, [route EXCEPT ![p] = session.route]}
    /\ step' = [step EXCEPT ![p] = "failed"]
    /\ UNCHANGED <<config, containers, session, commands>>

\* Without active revisions there is nothing to prune.
SwitchEnds ==
    /\ session.phase = "switch" /\ Settled(Proxies)
    /\ session' = IF Failed(Proxies) \/ session.keep = None THEN Idle
                  ELSE [session EXCEPT !.phase = "prune"]
    /\ step' = [n \in Nodes |-> "todo"]
    /\ UNCHANGED <<config, containers, route, commands, faults>>

NodePrunes(n) ==
    /\ session.phase = "prune" /\ step[n] = "todo"
    /\ containers' = Without(n, Revisions \ {session.keep})
    /\ step' = [step EXCEPT ![n] = "ok"]
    /\ UNCHANGED <<config, route, session, commands, faults>>

PruneFails(n) ==
    /\ Fault /\ session.phase = "prune" /\ step[n] = "todo"
    /\ \E S \in SUBSET (Revisions \ {session.keep}) : containers' = Without(n, S)
    /\ step' = [step EXCEPT ![n] = "failed"]
    /\ UNCHANGED <<config, route, session, commands>>

PruneEnds ==
    /\ session.phase = "prune" /\ Settled(Nodes)
    /\ session' = Idle
    /\ step' = [n \in Nodes |-> "todo"]
    /\ UNCHANGED <<config, containers, route, commands, faults>>

\* The process of the command dies, or loses its leases.
SessionDies ==
    /\ Fault /\ ~Ready
    /\ session' = Idle
    /\ step' = [n \in Nodes |-> "todo"]
    /\ UNCHANGED <<config, containers, route, commands>>

-----------------------------------------------------------------------------
Deploy == DeployRemoval \/ \E cur \in Label : DeployUpToDate(cur) \/ DeployChanged(cur)

Proceed ==
    \/ \E n \in Nodes : NodeRemoves(n) \/ NodeStarts(n) \/ NodePrunes(n)
    \/ \E p \in Proxies : ProxySwitches(p)
    \/ \E cur \in Label : ReconcileEnds(cur)
    \/ SwitchEnds \/ PruneEnds

Next ==
    \/ Deploy \/ Proceed \/ SessionDies
    \/ \E c \in Label : EditConfig(c)
    \/ \E cur \in Label : DeployForced(cur) \/ Promote(cur)
    \/ \E r \in Revisions : Rollback(r) \/ Scale(r)
    \/ \E n \in Nodes : NodeFails(n) \/ PruneFails(n)
    \/ \E p \in Proxies : ProxyFails(p)

Spec == Init /\ [][Next]_vars

\* A command runs on as long as its process lives, and tako deploy is repeated.
FairSpec == Spec /\ WF_vars(Proceed) /\ WF_vars(Deploy)

-----------------------------------------------------------------------------
(* Properties *)

TypeOK ==
    /\ config \in Label
    /\ containers \in [Nodes -> [Revisions -> {"none", "warm", "active"}]]
    /\ route \in [Proxies -> Route]
    /\ session \in Session
    /\ step \in [Nodes -> {"todo", "removed", "ok", "failed"}]
    /\ commands \in 0..MaxCommands /\ faults \in 0..MaxFaults

\* The container of r on node n answers under the name by which route rt reaches n.
Answers(n, r, rt) ==
    /\ n \in rt.nodes /\ containers[n][r] # "none"
    /\ IF rt.rev = None THEN ~Scoped(r) ELSE Scoped(r) /\ r = rt.rev

OwnRoute(r) == [rev |-> IF Scoped(r) THEN r ELSE None, nodes |-> Slots[r]]

\* The containers of a service whose names do not carry the revision follow each other
\* under one name: a node never has two of them, whatever strategies the service went
\* through and wherever its commands died.  (removeServiceContainersForReconcile)
OneUnscopedContainer ==
    \A n \in Nodes : \A r, q \in Running(n) : ~Scoped(r) /\ ~Scoped(q) => r = q

\* A command that rolls a revision out and points proxies at that revision does so only
\* when a container answers on every node of the route: no switch comes before the last
\* node has started its own, and no failure on the way is passed over.
SwitchIsServed ==
    [][\A p \in Proxies :
          route'[p] # route[p] /\ session.target # None
          /\ route'[p] = OwnRoute(session.target)
          => \A n \in route'[p].nodes : Answers(n, session.target, route'[p])]_vars

\* A container that a proxy sends requests to is taken away only to start the same
\* revision again, by a recreate deployment, or with the service.  Above all, pruning
\* never takes one, whichever proxies failed to switch.  (PruneRevisionsAfterGrace)
LiveContainersStay ==
    [][\A p \in Proxies, n \in Nodes, r \in Revisions :
          Answers(n, r, route[p]) /\ containers'[n][r] = "none"
          => session.phase = "reconcile" /\ r \in Replaced]_vars

\* What node n runs when the configuration is deployed.
Wanted(n) == IF n \in SlotsOf(config) THEN {config} ELSE {}

\* A node runs something else, and yet the number of containers is right and the labels
\* of all nodes merge to the configured revision: nothing shows that a deploy looks at.
Misread ==
    /\ config # None
    /\ \E n \in Nodes : Running(n) # Wanted(n)
    /\ config \in ConfigHash /\ Replicas = Cardinality(Slots[config])

\* When edits, special commands and faults have ended, repeating tako deploy brings the
\* nodes to run the configured revision and nothing else, and the proxies to route to it,
\* unless the labels are misread: then nothing is repaired, however often it is repeated.
\* A revision with manual promotion waits for tako promote instead.
RolloutConverges ==
    <>[](\/ config \in Manual
         \/ Misread
         \/ /\ \A n \in Nodes : Running(n) = Wanted(n)
            /\ \A p \in Proxies :
                  route[p] = IF config = None THEN NoRoute ELSE OwnRoute(config))

\* A deploy that finds nothing to do, and says that all services are up to date, leaves
\* no node with another revision.  (ComputePlan's "Service is up-to-date")
UpToDateIsConverged ==
    [][config # None /\ session.phase = "idle"
       /\ session'.phase = "switch" /\ session'.target = None
       => \A n \in Slots[config] : config \in Running(n)]_vars

=============================================================================
