---------------------------- MODULE RolloutProofs ----------------------------
(***************************************************************************)
(* Proofs about Rollout, for any nodes, proxies, revisions and bounds.     *)
(*                                                                         *)
(* What the labels merge to plays no part: the properties hold whichever   *)
(* revision a command takes for the current one.                           *)
(***************************************************************************)
EXTENDS Rollout, TLAPS

States == {"none", "warm", "active"}

\* While it reconciles, a command has started the target where a node succeeded, and
\* has nothing in its way where a node is about to start it.
Halfway ==
    session.phase = "reconcile" =>
        \A n \in Nodes :
            /\ step[n] = "ok" /\ n \in SlotsOf(session.target)
               => containers[n][session.target] # "none"
            /\ step[n] = "removed"
               => /\ session.target # None
                  /\ ~Scoped(session.target) =>
                        \A r \in Revisions : containers[n][r] = "none"

\* Afterwards the target runs on all its nodes.
RolledOut ==
    session.phase \in {"switch", "prune"} /\ session.target # None =>
        \A n \in Slots[session.target] : containers[n][session.target] # "none"

\* Pruning spares the target, to which the command points the proxies.
KeepsTarget ==
    /\ session.keep # None => /\ session.keep = session.target
                              /\ session.route.rev = session.keep
                              /\ Scoped(session.target)
                              /\ ~session.late
    /\ session.phase = "prune" => session.keep # None
    /\ session.late => session.target # None

\* Proxies that have switched have the command's route; when it prunes, all have.
Pointed ==
    \A p \in Proxies :
        (session.phase = "switch" /\ step[p] = "ok") \/ session.phase = "prune"
        => route[p] = session.route

\* OneUnscopedContainer, said of the labels.
SingleName ==
    \A n \in Nodes : \A r, q \in Revisions :
        containers[n][r] # "none" /\ containers[n][q] # "none"
        /\ ~Scoped(r) /\ ~Scoped(q) => r = q

Inductive == TypeOK /\ Halfway /\ RolledOut /\ KeepsTarget /\ Pointed /\ SingleName

-----------------------------------------------------------------------------
(* What the updates of containers do *)

\* The label of one container after removing those of S on node n.
LEMMA WithoutEffect ==
    ASSUME TypeOK, NEW n \in Nodes, NEW S
    PROVE  /\ Without(n, S) \in [Nodes -> [Revisions -> States]]
           /\ \A m \in Nodes, r \in Revisions :
                 Without(n, S)[m][r] = IF m = n /\ r \in S THEN "none"
                                       ELSE containers[m][r]
  BY DEF TypeOK, Without, States

\* And after starting the target on it.
LEMMA StartedEffect ==
    ASSUME TypeOK, NEW n \in Nodes, session.target # None
    PROVE  /\ Started(n) \in [Nodes -> [Revisions -> States]]
           /\ Started(n)[n][session.target] # "none"
           /\ \A m \in Nodes, r \in Revisions :
                 m # n \/ r # session.target => Started(n)[m][r] = containers[m][r]
  <1>1. session.target \in Revisions
    BY DEF TypeOK, Session, Label
  <1>2. containers \in [Nodes -> [Revisions -> States]]
    BY DEF TypeOK, States
  <1>. QED  BY <1>1, <1>2 DEF Started, States

\* Containers of one unscoped name are those that run.
LEMMA NamesOfRunning ==
    ASSUME TypeOK, SingleName
    PROVE  OneUnscopedContainer
  <1>1. \A n \in Nodes, r \in Revisions : r \in Running(n) => containers[n][r] # "none"
    BY DEF Running, Labelled
  <1>2. \A n \in Nodes : Running(n) \subseteq Revisions
    BY DEF Running, Labelled
  <1>. QED  BY <1>1, <1>2 DEF OneUnscopedContainer, SingleName

\* Removing containers leaves no two of a name behind.
LEMMA RemovalKeepsNames ==
    ASSUME TypeOK, SingleName, NEW n \in Nodes, NEW S, containers' = Without(n, S)
    PROVE  SingleName'
  <1>1. \A m \in Nodes, r \in Revisions :
           containers'[m][r] # "none" => containers[m][r] # "none"
    BY WithoutEffect
  <1>. QED  BY <1>1 DEF SingleName, Scoped

\* Neither does starting the target on a node that has been cleared for it.
LEMMA StartKeepsNames ==
    ASSUME TypeOK, SingleName, Halfway, NEW n \in Nodes, containers' = Started(n),
           session.phase = "reconcile", step[n] = "removed"
    PROVE  SingleName'
  <1>1. session.target # None
    BY DEF Halfway
  <1>2. \A m \in Nodes, r \in Revisions :
           m # n \/ r # session.target => containers'[m][r] = containers[m][r]
    BY <1>1, StartedEffect
  <1>3. CASE Scoped(session.target)
    BY <1>2, <1>3 DEF SingleName, Scoped
  <1>4. CASE ~Scoped(session.target)
    <2>1. \A r \in Revisions : r # session.target => containers'[n][r] = "none"
      BY <1>2, <1>4 DEF Halfway
    <2>. QED  BY <1>2, <2>1 DEF SingleName, Scoped
  <1>. QED  BY <1>3, <1>4

-----------------------------------------------------------------------------
(* Commands begin and end *)

\* A command begins with nothing done, to reconcile a revision or only to switch.
LEMMA BeginInductive ==
    ASSUME Inductive, UNCHANGED <<containers, route, faults>>,
           config' \in Label, commands' \in 0..MaxCommands,
           NEW phase \in {"reconcile", "switch"}, NEW target \in Label,
           NEW warm \in BOOLEAN, NEW rt \in Route, NEW keep \in Label,
           NEW late \in BOOLEAN,
           Begin(phase, target, warm, rt, keep, late),
           phase = "switch" => target = None,
           keep # None => keep = target /\ rt.rev = keep /\ Scoped(target) /\ ~late,
           late => target # None
    PROVE  Inductive'
  <1>. DEFINE s == [phase |-> phase, target |-> target, warm |-> warm, route |-> rt,
                    keep |-> keep, late |-> late]
  <1>1. session' = s /\ step' = [n \in Nodes |-> "todo"]
    BY DEF Begin
  <1>2. s \in Session
    BY DEF Session
  <1>3. TypeOK'
    BY <1>1, <1>2 DEF Inductive, TypeOK
  <1>4. Halfway' /\ RolledOut' /\ Pointed'
    BY <1>1, RolloutAssumption DEF Halfway, RolledOut, Pointed
  <1>5. KeepsTarget'
    BY <1>1 DEF KeepsTarget, Scoped
  <1>6. SingleName'
    BY DEF Inductive, SingleName, Scoped
  <1>. QED  BY <1>3, <1>4, <1>5, <1>6 DEF Inductive

\* A command ends, or dies, and leaves the nodes as they are.
LEMMA StopInductive ==
    ASSUME Inductive, UNCHANGED <<config, containers, route, commands>>,
           faults' \in 0..MaxFaults, session' = Idle, step' = [n \in Nodes |-> "todo"]
    PROVE  Inductive'
  <1>1. Idle \in Session
    BY DEF Idle, Session, Route, Label, NoRoute
  <1>2. TypeOK'
    BY <1>1 DEF Inductive, TypeOK
  <1>3. Halfway' /\ RolledOut' /\ Pointed' /\ KeepsTarget'
    BY DEF Halfway, RolledOut, Pointed, KeepsTarget, Idle
  <1>4. SingleName'
    BY DEF Inductive, SingleName, Scoped
  <1>. QED  BY <1>2, <1>3, <1>4 DEF Inductive

\* The route of a rollout is that of a revision on its own nodes or the current one.
LEMMA ActiveLabel ==
    ASSUME NEW c \in Revisions, NEW deploying \in BOOLEAN, NEW cur \in Label
    PROVE  /\ ActiveRevision(c, deploying, cur) \in Label
           /\ c \notin Manual => ActiveRevision(c, TRUE, cur) = IF Scoped(c) THEN c ELSE None
           /\ [rev |-> ActiveRevision(c, deploying, cur), nodes |-> Slots[c]] \in Route
  <1>1. Slots[c] \in SUBSET Nodes
    BY RolloutAssumption
  <1>2. ActiveRevision(c, deploying, cur) \in Label
    BY DEF ActiveRevision, Label
  <1>3. c \notin Manual => ActiveRevision(c, TRUE, cur) = IF Scoped(c) THEN c ELSE None
    BY DEF ActiveRevision
  <1>. QED  BY <1>1, <1>2, <1>3 DEF Route

-----------------------------------------------------------------------------
(* The commands *)

\* A rollout prunes only if the proxies are pointed at the revision it rolls out.
LEMMA RolloutInductive ==
    ASSUME Inductive, NEW cur \in Label, config # None, Rollout(cur),
           commands' \in 0..MaxCommands
    PROVE  Inductive'
  <1>1. config \in Revisions
    BY DEF Inductive, TypeOK, Label
  <1>. DEFINE rev == ActiveRevision(config, TRUE, cur)
              rt == [rev |-> rev, nodes |-> Slots[config]]
              keep == IF config \in Manual THEN None ELSE rev
  <1>2. rev \in Label /\ rt \in Route
    BY <1>1, ActiveLabel
  <1>3. keep \in Label /\ (keep # None => keep = config /\ rt.rev = keep /\ Scoped(config))
    BY <1>1, <1>2, ActiveLabel DEF Label
  <1>4. /\ Begin("reconcile", config, config \in Manual /\ cur # None, rt, keep, FALSE)
        /\ config' = config /\ UNCHANGED <<containers, route, faults>>
    BY DEF Rollout
  <1>5. (config \in Manual /\ cur # None) \in BOOLEAN /\ config \in Label
    BY <1>1 DEF Label
  <1>. HIDE DEF rt, keep
  <1>. QED  BY <1>2, <1>3, <1>4, <1>5, BeginInductive

LEMMA DeployUpToDateInductive ==
    ASSUME Inductive, NEW cur \in Label, DeployUpToDate(cur)
    PROVE  Inductive'
  <1>1. /\ config' = config /\ commands' = commands /\ UNCHANGED <<containers, route, faults>>
        /\ config' \in Label /\ commands' \in 0..MaxCommands
    BY DEF DeployUpToDate, Inductive, TypeOK
  <1>2. None \in Label
    BY DEF Label
  <1>3. CASE config = None
    <2>1. Begin("switch", None, FALSE, NoRoute, None, FALSE)
      BY <1>3 DEF DeployUpToDate
    <2>2. NoRoute \in Route
      BY DEF NoRoute, Route, Label
    <2>. QED  BY <1>1, <1>2, <2>1, <2>2, BeginInductive
  <1>4. CASE config # None
    <2>1. config \in Revisions
      BY <1>4 DEF Inductive, TypeOK, Label
    <2>. DEFINE rt == [rev |-> ActiveRevision(config, FALSE, cur), nodes |-> Slots[config]]
    <2>2. rt \in Route
      BY <2>1, ActiveLabel
    <2>3. Begin("switch", None, FALSE, rt, None, FALSE)
      BY <1>4 DEF DeployUpToDate
    <2>. HIDE DEF rt
    <2>. QED  BY <1>1, <1>2, <2>2, <2>3, BeginInductive
  <1>. QED  BY <1>3, <1>4

LEMMA DeployRemovalInductive ==
    ASSUME Inductive, DeployRemoval
    PROVE  Inductive'
  <1>1. NoRoute \in Route /\ None \in Label
    BY DEF NoRoute, Route, Label
  <1>2. config' \in Label /\ commands' \in 0..MaxCommands
    BY DEF DeployRemoval, Inductive, TypeOK
  <1>3. /\ Begin("reconcile", None, FALSE, NoRoute, None, FALSE)
        /\ UNCHANGED <<containers, route, faults>>
    BY DEF DeployRemoval
  <1>. QED  BY <1>1, <1>2, <1>3, BeginInductive

LEMMA OrderedBound ==
    ASSUME TypeOK, Ordered
    PROVE  commands' \in 0..MaxCommands
  BY RolloutAssumption DEF TypeOK, Ordered

LEMMA PromoteInductive ==
    ASSUME Inductive, NEW cur \in Label, Promote(cur)
    PROVE  Inductive'
  <1>1. config \in Revisions /\ config \in Label /\ Scoped(config)
    BY RolloutAssumption DEF Promote, Label, Scoped
  <1>. DEFINE rt == [rev |-> config, nodes |-> Slots[config]]
  <1>2. rt \in Route /\ rt.rev = config
    BY <1>1, RolloutAssumption DEF Route
  <1>3. /\ Begin("reconcile", config, FALSE, rt, config, FALSE)
        /\ config' = config /\ UNCHANGED <<containers, route, faults>>
    BY DEF Promote
  <1>4. commands' \in 0..MaxCommands
    BY OrderedBound DEF Promote, Inductive
  <1>. HIDE DEF rt
  <1>. QED  BY <1>1, <1>2, <1>3, <1>4, BeginInductive

LEMMA RollbackInductive ==
    ASSUME Inductive, NEW r \in Revisions, Rollback(r)
    PROVE  Inductive'
  <1>1. NoRoute \in Route /\ None \in Label /\ r \in Label /\ r # None
    BY RolloutAssumption DEF NoRoute, Route, Label
  <1>2. config' \in Label /\ commands' \in 0..MaxCommands
    BY OrderedBound DEF Rollback, Inductive, TypeOK
  <1>3. /\ Begin("reconcile", r, FALSE, NoRoute, None, TRUE)
        /\ UNCHANGED <<containers, route, faults>>
    BY DEF Rollback
  <1>. QED  BY <1>1, <1>2, <1>3, BeginInductive

LEMMA ScaleInductive ==
    ASSUME Inductive, NEW r \in Revisions, Scale(r)
    PROVE  Inductive'
  <1>. DEFINE rt == [rev |-> None, nodes |-> Slots[r]]
  <1>1. rt \in Route /\ None \in Label /\ r \in Label
    BY RolloutAssumption DEF Route, Label
  <1>2. config' \in Label /\ commands' \in 0..MaxCommands
    BY OrderedBound DEF Scale, Inductive, TypeOK
  <1>3. /\ Begin("reconcile", r, FALSE, rt, None, FALSE)
        /\ UNCHANGED <<containers, route, faults>>
    BY DEF Scale
  <1>. HIDE DEF rt
  <1>. QED  BY <1>1, <1>2, <1>3, BeginInductive

-----------------------------------------------------------------------------
(* The steps of a command *)

LEMMA NodeRemovesInductive ==
    ASSUME Inductive, NEW n \in Nodes, NodeRemoves(n)
    PROVE  Inductive'
  <1>1. /\ session.phase = "reconcile" /\ step[n] = "todo"
        /\ containers' = Without(n, Replaced)
        /\ step' = [step EXCEPT ![n] = IF n \in SlotsOf(session.target) THEN "removed"
                                       ELSE "ok"]
        /\ UNCHANGED <<config, route, session, commands, faults>>
    BY DEF NodeRemoves
  <1>2. /\ containers' \in [Nodes -> [Revisions -> States]]
        /\ \A m \in Nodes, r \in Revisions :
              containers'[m][r] = IF m = n /\ r \in Replaced THEN "none"
                                  ELSE containers[m][r]
    BY <1>1, WithoutEffect DEF Inductive
  <1>3. TypeOK'
    BY <1>1, <1>2 DEF Inductive, TypeOK, States
  <1>4. Halfway'
    <2>. SUFFICES ASSUME NEW m \in Nodes
         PROVE  /\ step'[m] = "ok" /\ m \in SlotsOf(session.target)
                   => containers'[m][session.target] # "none"
                /\ step'[m] = "removed"
                   => /\ session.target # None
                      /\ ~Scoped(session.target) =>
                            \A r \in Revisions : containers'[m][r] = "none"
      BY <1>1 DEF Halfway, SlotsOf, Scoped
    <2>0. step \in [Nodes -> {"todo", "removed", "ok", "failed"}]
      BY DEF Inductive, TypeOK
    <2>1. CASE m = n
      <3>1. n \in SlotsOf(session.target) => session.target # None
        BY DEF SlotsOf
      <3>2. step'[n] = IF n \in SlotsOf(session.target) THEN "removed" ELSE "ok"
        BY <1>1, <2>0
      <3>3. ~Scoped(session.target) => Replaced = Revisions
        BY DEF Replaced
      <3>. QED  BY <1>2, <2>1, <3>1, <3>2, <3>3
    <2>2. CASE m # n
      <3>1. step'[m] = step[m]
        BY <1>1, <2>0, <2>2
      <3>2. \A r \in Revisions : containers'[m][r] = containers[m][r]
        BY <1>2, <2>2
      <3>3. m \in SlotsOf(session.target) => session.target \in Revisions
        BY DEF SlotsOf, Inductive, TypeOK, Session, Label
      <3>. QED  BY <1>1, <3>1, <3>2, <3>3 DEF Inductive, Halfway
    <2>. QED  BY <2>1, <2>2
  <1>5. RolledOut' /\ KeepsTarget' /\ Pointed'
    BY <1>1 DEF Inductive, RolledOut, KeepsTarget, Pointed, Scoped
  <1>6. SingleName'
    BY <1>1, RemovalKeepsNames DEF Inductive
  <1>. QED  BY <1>3, <1>4, <1>5, <1>6 DEF Inductive

\* Whether the reply arrives or not.
LEMMA StartInductive ==
    ASSUME Inductive, NEW n \in Nodes, session.phase = "reconcile", step[n] = "removed",
           containers' = Started(n), NEW done \in {"ok", "failed"},
           step' = [step EXCEPT ![n] = done], faults' \in 0..MaxFaults,
           UNCHANGED <<config, route, session, commands>>
    PROVE  Inductive'
  <1>1. session.target # None
    BY DEF Inductive, Halfway
  <1>2. /\ containers' \in [Nodes -> [Revisions -> States]]
        /\ containers'[n][session.target] # "none"
        /\ \A m \in Nodes, r \in Revisions :
              m # n \/ r # session.target => containers'[m][r] = containers[m][r]
    BY <1>1, StartedEffect DEF Inductive
  <1>3. TypeOK'
    BY <1>2 DEF Inductive, TypeOK, States
  <1>4. Halfway'
    <2>0. step \in [Nodes -> {"todo", "removed", "ok", "failed"}]
          /\ session.target \in Revisions
      BY <1>1 DEF Inductive, TypeOK, Session, Label
    <2>1. \A m \in Nodes : m # n => step'[m] = step[m]
      BY <2>0
    <2>2. step'[n] = done
      BY <2>0
    <2>3. \A m \in Nodes : step'[m] = "ok" /\ m \in SlotsOf(session.target)
                           => containers'[m][session.target] # "none"
      BY <1>2, <2>0, <2>1, <2>2 DEF Inductive, Halfway
    <2>4. \A m \in Nodes : step'[m] = "removed" /\ ~Scoped(session.target)
                           => \A r \in Revisions : containers'[m][r] = "none"
      BY <1>2, <2>1, <2>2 DEF Inductive, Halfway
    <2>. QED  BY <1>1, <2>3, <2>4 DEF Halfway, SlotsOf, Scoped
  <1>5. RolledOut' /\ KeepsTarget' /\ Pointed'
    BY DEF Inductive, RolledOut, KeepsTarget, Pointed, Scoped
  <1>6. SingleName'
    BY StartKeepsNames DEF Inductive
  <1>. QED  BY <1>3, <1>4, <1>5, <1>6 DEF Inductive

LEMMA FaultBound ==
    ASSUME TypeOK, Fault
    PROVE  faults' \in 0..MaxFaults
  BY RolloutAssumption DEF TypeOK, Fault

\* A failed node has lost some of the replaced containers, or started the target.
LEMMA NodeFailsInductive ==
    ASSUME Inductive, NEW n \in Nodes, NodeFails(n)
    PROVE  Inductive'
  <1>1. /\ session.phase = "reconcile" /\ faults' \in 0..MaxFaults
        /\ step' = [step EXCEPT ![n] = "failed"]
        /\ UNCHANGED <<config, route, session, commands>>
    BY FaultBound DEF NodeFails, Inductive
  <1>2. CASE step[n] = "removed" /\ containers' = Started(n)
    BY <1>1, <1>2, StartInductive
  <1>3. CASE \E S : containers' = Without(n, S)
    <2>1. PICK S : containers' = Without(n, S)
      BY <1>3
    <2>2. /\ containers' \in [Nodes -> [Revisions -> States]]
          /\ \A m \in Nodes, r \in Revisions :
                containers'[m][r] = IF m = n /\ r \in S THEN "none" ELSE containers[m][r]
      BY <2>1, WithoutEffect DEF Inductive
    <2>3. TypeOK'
      BY <1>1, <2>2 DEF Inductive, TypeOK, States
    <2>4. Halfway'
      <3>1. step \in [Nodes -> {"todo", "removed", "ok", "failed"}]
        BY DEF Inductive, TypeOK
      <3>2. step'[n] = "failed" /\ \A m \in Nodes : m # n => step'[m] = step[m]
        BY <1>1, <3>1
      <3>3. \A m \in Nodes : m \in SlotsOf(session.target) => session.target \in Revisions
        BY DEF SlotsOf, Inductive, TypeOK, Session, Label
      <3>. QED  BY <1>1, <2>2, <3>2, <3>3 DEF Inductive, Halfway, SlotsOf, Scoped
    <2>5. RolledOut' /\ KeepsTarget' /\ Pointed'
      BY <1>1 DEF Inductive, RolledOut, KeepsTarget, Pointed, Scoped
    <2>6. SingleName'
      BY <2>1, RemovalKeepsNames DEF Inductive
    <2>. QED  BY <2>3, <2>4, <2>5, <2>6 DEF Inductive
  <1>4. containers = Without(n, {})
    BY DEF Without, Inductive, TypeOK
  <1>. QED  BY <1>2, <1>3, <1>4 DEF NodeFails

\* When all nodes succeeded the target runs on all of its own.
LEMMA ReconcileEndsInductive ==
    ASSUME Inductive, NEW cur \in Label, ReconcileEnds(cur)
    PROVE  Inductive'
  <1>1. /\ session.phase = "reconcile" /\ Settled(Nodes)
        /\ step' = [n \in Nodes |-> "todo"]
        /\ UNCHANGED <<config, containers, route, commands, faults>>
    BY DEF ReconcileEnds
  <1>2. CASE Failed(Nodes)
    <2>1. session' = Idle /\ faults' \in 0..MaxFaults
      BY <1>2 DEF ReconcileEnds, Inductive, TypeOK
    <2>. QED  BY <1>1, <2>1, StopInductive
  <1>3. CASE ~Failed(Nodes)
    <2>. DEFINE active == IF session.late THEN ActiveRevision(session.target, TRUE, cur)
                          ELSE session.route.rev
                rt == IF session.late THEN [rev |-> active, nodes |-> Slots[session.target]]
                      ELSE session.route
                keep == IF session.late /\ session.target \notin Manual THEN active
                        ELSE session.keep
    <2>1. session' = [session EXCEPT !.phase = "switch", !.late = FALSE, !.route = rt,
                                     !.keep = keep]
      BY <1>3 DEF ReconcileEnds
    <2>2. session \in Session /\ KeepsTarget
      BY DEF Inductive, TypeOK
    <2>3. session.late => session.target \in Revisions
      BY <2>2 DEF KeepsTarget, Session, Label
    <2>4. rt \in Route /\ keep \in Label
      BY <2>2, <2>3, ActiveLabel DEF Session
    <2>5. keep # None => keep = session.target /\ rt.rev = keep /\ Scoped(session.target)
      <3>1. CASE session.late /\ session.target \notin Manual
        BY <2>3, <3>1, ActiveLabel
      <3>2. CASE ~(session.late /\ session.target \notin Manual)
        BY <2>2, <3>2 DEF KeepsTarget
      <3>. QED  BY <3>1, <3>2
    <2>. HIDE DEF rt, keep
    <2>6. /\ session' \in Session
          /\ session'.phase = "switch" /\ session'.target = session.target
          /\ session'.keep = keep /\ session'.route = rt /\ session'.late = FALSE
      BY <2>1, <2>2, <2>4 DEF Session
    <2>7. TypeOK'
      BY <1>1, <2>6 DEF Inductive, TypeOK
    <2>8. Halfway' /\ Pointed'
      BY <1>1, <2>6, RolloutAssumption DEF Halfway, Pointed
    <2>9. KeepsTarget'
      BY <2>5, <2>6 DEF KeepsTarget, Scoped
    <2>10. RolledOut'
      <3>1. \A n \in Nodes : step[n] = "ok"
        BY <1>1, <1>3 DEF Settled, Failed
      <3>2. session.target # None =>
               /\ Slots[session.target] \subseteq Nodes
               /\ SlotsOf(session.target) = Slots[session.target]
        BY <2>2, RolloutAssumption DEF Session, Label, SlotsOf
      <3>. QED  BY <1>1, <2>6, <3>1, <3>2 DEF Inductive, Halfway, RolledOut
    <2>11. SingleName'
      BY <1>1 DEF Inductive, SingleName, Scoped
    <2>. QED  BY <2>7, <2>8, <2>9, <2>10, <2>11 DEF Inductive
  <1>. QED  BY <1>2, <1>3

\* A proxy takes the route, or is reported to have failed with it or without.
LEMMA ProxyInductive ==
    ASSUME Inductive, NEW p \in Proxies, session.phase = "switch", step[p] = "todo",
           NEW done \in {"ok", "failed"}, step' = [step EXCEPT ![p] = done],
           \/ route' = [route EXCEPT ![p] = session.route]
           \/ done = "failed" /\ route' = route,
           faults' \in 0..MaxFaults, UNCHANGED <<config, containers, session, commands>>
    PROVE  Inductive'
  <1>1. p \in Nodes /\ session.route \in Route
        /\ route \in [Proxies -> Route]
        /\ step \in [Nodes -> {"todo", "removed", "ok", "failed"}]
    BY RolloutAssumption DEF Inductive, TypeOK, Session
  <1>2. TypeOK'
    BY <1>1 DEF Inductive, TypeOK
  <1>3. Halfway' /\ RolledOut' /\ KeepsTarget' /\ SingleName'
    BY DEF Inductive, Halfway, RolledOut, KeepsTarget, SingleName, Scoped
  <1>4. Pointed'
    <2>. SUFFICES ASSUME NEW q \in Proxies, step'[q] = "ok"
         PROVE  route'[q] = session.route
      BY DEF Pointed
    <2>1. CASE q = p
      BY <1>1, <2>1
    <2>2. CASE q # p
      <3>1. q \in Nodes /\ step'[q] = step[q] /\ route'[q] = route[q]
        BY <1>1, <2>2, RolloutAssumption
      <3>. QED  BY <3>1 DEF Inductive, Pointed
    <2>. QED  BY <2>1, <2>2
  <1>. QED  BY <1>2, <1>3, <1>4 DEF Inductive

LEMMA SwitchEndsInductive ==
    ASSUME Inductive, SwitchEnds
    PROVE  Inductive'
  <1>1. /\ session.phase = "switch" /\ Settled(Proxies)
        /\ step' = [n \in Nodes |-> "todo"]
        /\ UNCHANGED <<config, containers, route, commands, faults>>
    BY DEF SwitchEnds
  <1>2. CASE session' = Idle
    <2>1. faults' \in 0..MaxFaults
      BY <1>1 DEF Inductive, TypeOK
    <2>. QED  BY <1>1, <1>2, <2>1, StopInductive
  <1>3. CASE ~Failed(Proxies) /\ session.keep # None
             /\ session' = [session EXCEPT !.phase = "prune"]
    <2>1. session \in Session
      BY DEF Inductive, TypeOK
    <2>2. /\ session' \in Session
          /\ session'.phase = "prune" /\ session'.target = session.target
          /\ session'.keep = session.keep /\ session'.route = session.route
          /\ session'.late = session.late
      BY <1>3, <2>1 DEF Session
    <2>3. TypeOK'
      BY <1>1, <2>2 DEF Inductive, TypeOK
    <2>4. \A p \in Proxies : step[p] = "ok"
      BY <1>1, <1>3 DEF Settled, Failed
    <2>5. Pointed'
      BY <1>1, <2>2, <2>4 DEF Inductive, Pointed
    <2>6. Halfway' /\ RolledOut' /\ KeepsTarget' /\ SingleName'
      BY <1>1, <1>3, <2>2 DEF Inductive, Halfway, RolledOut, KeepsTarget, SingleName, Scoped
    <2>. QED  BY <2>3, <2>5, <2>6 DEF Inductive
  <1>. QED  BY <1>2, <1>3 DEF SwitchEnds

\* Pruning a node, whether it is reported done or failed, spares the target.
LEMMA PruneInductive ==
    ASSUME Inductive, NEW n \in Nodes, session.phase = "prune",
           NEW S \in SUBSET (Revisions \ {session.keep}), containers' = Without(n, S),
           NEW done \in {"ok", "failed"}, step' = [step EXCEPT ![n] = done],
           faults' \in 0..MaxFaults, UNCHANGED <<config, route, session, commands>>
    PROVE  Inductive'
  <1>1. /\ containers' \in [Nodes -> [Revisions -> States]]
        /\ \A m \in Nodes, r \in Revisions :
              containers'[m][r] = IF m = n /\ r \in S THEN "none" ELSE containers[m][r]
    BY WithoutEffect DEF Inductive
  <1>2. TypeOK'
    BY <1>1 DEF Inductive, TypeOK, States
  <1>3. Halfway' /\ KeepsTarget' /\ Pointed'
    BY DEF Inductive, Halfway, KeepsTarget, Pointed, Scoped
  <1>4. RolledOut'
    <2>1. session.keep = session.target /\ session.target \in Revisions
      BY DEF Inductive, KeepsTarget, TypeOK, Session, Label
    <2>2. Slots[session.target] \subseteq Nodes
      BY <2>1, RolloutAssumption
    <2>. QED  BY <1>1, <2>1, <2>2 DEF Inductive, RolledOut
  <1>5. SingleName'
    BY RemovalKeepsNames DEF Inductive
  <1>. QED  BY <1>2, <1>3, <1>4, <1>5 DEF Inductive

LEMMA PruneFailsInductive ==
    ASSUME Inductive, NEW n \in Nodes, PruneFails(n)
    PROVE  Inductive'
  <1>1. /\ session.phase = "prune" /\ step' = [step EXCEPT ![n] = "failed"]
        /\ faults' \in 0..MaxFaults /\ UNCHANGED <<config, route, session, commands>>
    BY FaultBound DEF PruneFails, Inductive
  <1>2. PICK S \in SUBSET (Revisions \ {session.keep}) : containers' = Without(n, S)
    BY DEF PruneFails
  <1>. QED  BY <1>1, <1>2, PruneInductive

-----------------------------------------------------------------------------
(* Every step *)

LEMMA StepInductive ==
    ASSUME Inductive, [Next]_vars
    PROVE  Inductive'
  <1>0. /\ config \in Label /\ commands \in 0..MaxCommands /\ faults \in 0..MaxFaults
    BY DEF Inductive, TypeOK
  <1>1. CASE \E c \in Label : EditConfig(c)
    <2>1. PICK c \in Label : EditConfig(c)
      BY <1>1
    <2>2. commands' \in 0..MaxCommands
      BY <2>1, OrderedBound DEF EditConfig, Inductive
    <2>3. TypeOK'
      BY <2>1, <2>2 DEF EditConfig, Inductive, TypeOK
    <2>4. Halfway' /\ RolledOut' /\ KeepsTarget' /\ Pointed' /\ SingleName'
      BY <2>1 DEF EditConfig, Inductive, Halfway, RolledOut, KeepsTarget, Pointed,
                  SingleName, Scoped
    <2>. QED  BY <2>3, <2>4 DEF Inductive
  <1>2. CASE \E cur \in Label : DeployUpToDate(cur)
    BY <1>2, DeployUpToDateInductive
  <1>3. CASE \E cur \in Label : DeployChanged(cur)
    BY <1>0, <1>3, RolloutInductive DEF DeployChanged
  <1>4. CASE \E cur \in Label : DeployForced(cur)
    BY <1>4, RolloutInductive, OrderedBound DEF DeployForced, Inductive
  <1>5. CASE DeployRemoval
    BY <1>5, DeployRemovalInductive
  <1>6. CASE \E cur \in Label : Promote(cur)
    BY <1>6, PromoteInductive
  <1>7. CASE \E r \in Revisions : Rollback(r) \/ Scale(r)
    BY <1>7, RollbackInductive, ScaleInductive
  <1>8. CASE \E n \in Nodes : NodeRemoves(n)
    BY <1>8, NodeRemovesInductive
  <1>9. CASE \E n \in Nodes : NodeStarts(n)
    BY <1>0, <1>9, StartInductive DEF NodeStarts
  <1>10. CASE \E n \in Nodes : NodeFails(n)
    BY <1>10, NodeFailsInductive
  <1>11. CASE \E cur \in Label : ReconcileEnds(cur)
    BY <1>11, ReconcileEndsInductive
  <1>12. CASE \E p \in Proxies : ProxySwitches(p)
    BY <1>0, <1>12, ProxyInductive DEF ProxySwitches
  <1>13. CASE \E p \in Proxies : ProxyFails(p)
    BY <1>13, ProxyInductive, FaultBound DEF ProxyFails, Inductive
  <1>14. CASE SwitchEnds
    BY <1>14, SwitchEndsInductive
  <1>15. CASE \E n \in Nodes : NodePrunes(n)
    BY <1>0, <1>15, PruneInductive DEF NodePrunes
  <1>16. CASE \E n \in Nodes : PruneFails(n)
    BY <1>16, PruneFailsInductive
  <1>17. CASE PruneEnds
    BY <1>0, <1>17, StopInductive DEF PruneEnds
  <1>18. CASE SessionDies
    BY <1>18, StopInductive, FaultBound DEF SessionDies, Inductive
  <1>19. CASE UNCHANGED vars
    BY <1>19 DEF vars, Inductive, TypeOK, Halfway, RolledOut, KeepsTarget, Pointed,
                 SingleName, Scoped, SlotsOf
  <1>. QED  BY <1>1, <1>2, <1>3, <1>4, <1>5, <1>6, <1>7, <1>8, <1>9, <1>10, <1>11, <1>12,
               <1>13, <1>14, <1>15, <1>16, <1>17, <1>18, <1>19 DEF Next, Deploy, Proceed

LEMMA InitInductive == Init => Inductive
  <1>. SUFFICES ASSUME Init PROVE Inductive
    OBVIOUS
  <1>1. Idle \in Session /\ NoRoute \in Route
    BY DEF Idle, Session, Route, Label, NoRoute
  <1>2. TypeOK
    BY <1>1, RolloutAssumption DEF Init, TypeOK
  <1>3. Halfway /\ RolledOut /\ KeepsTarget /\ Pointed /\ SingleName
    BY DEF Init, Idle, Halfway, RolledOut, KeepsTarget, Pointed, SingleName
  <1>. QED  BY <1>2, <1>3 DEF Inductive

LEMMA AlwaysInductive == Spec => []Inductive
  BY InitInductive, StepInductive, PTL DEF Spec

-----------------------------------------------------------------------------
(* The theorems *)

\* Every command, failed step and death of a command leaves well-formed state behind.
THEOREM RolloutTypeOK == Spec => []TypeOK
  BY AlwaysInductive, PTL DEF Inductive

\* Whatever strategies a service went through and wherever its commands died, a node has
\* at most one container under the name that recreate deployments share.
THEOREM RolloutNames == Spec => []OneUnscopedContainer
  <1>1. Inductive => OneUnscopedContainer
    BY NamesOfRunning DEF Inductive
  <1>. QED  BY <1>1, AlwaysInductive, PTL

\* Only two actions write a proxy's route, and both find the target on all its nodes.
LEMMA SwitchStep ==
    ASSUME Inductive, [Next]_vars, NEW p \in Proxies, route'[p] # route[p],
           session.target # None, route'[p] = OwnRoute(session.target)
    PROVE  \A n \in route'[p].nodes : Answers(n, session.target, route'[p])
  <1>1. session.phase = "switch"
    <2>1. route' # route
      OBVIOUS
    <2>. QED  BY <2>1 DEF Next, Deploy, Proceed, DeployRemoval, DeployUpToDate, DeployChanged,
              DeployForced, Rollout, EditConfig, Promote, Rollback, Scale, NodeRemoves,
              NodeStarts, NodeFails, NodePrunes, PruneFails, ReconcileEnds, ProxySwitches,
              ProxyFails, SwitchEnds, PruneEnds, SessionDies, vars
  <1>2. session.target \in Revisions
    BY DEF Inductive, TypeOK, Session, Label
  <1>3. \A n \in Slots[session.target] : containers[n][session.target] # "none"
    BY <1>1 DEF Inductive, RolledOut
  <1>4. session.target # None /\ None \notin Revisions
    BY RolloutAssumption
  <1>. QED  BY <1>2, <1>3, <1>4 DEF OwnRoute, Answers

\* No proxy is pointed at a revision that is being rolled out before all its nodes run
\* it, however the nodes' steps, failures and lost replies are interleaved.
THEOREM RolloutSwitch == Spec => SwitchIsServed
  <1>1. Inductive /\ [Next]_vars =>
          [\A p \in Proxies :
              route'[p] # route[p] /\ session.target # None
              /\ route'[p] = OwnRoute(session.target)
              => \A n \in route'[p].nodes : Answers(n, session.target, route'[p])]_vars
    BY SwitchStep
  <1>. QED  BY <1>1, AlwaysInductive, PTL DEF Spec, SwitchIsServed

\* A container disappears when its node reconciles a revision that replaces it, or when
\* it is pruned; and then all proxies have the route of the revision that is kept.
LEMMA RemovalStep ==
    ASSUME Inductive, [Next]_vars, NEW p \in Proxies, NEW n \in Nodes, NEW r \in Revisions,
           Answers(n, r, route[p]), containers'[n][r] = "none"
    PROVE  session.phase = "reconcile" /\ r \in Replaced
  <1>0. containers[n][r] # "none"
    BY DEF Answers
  <1>1. PICK m \in Nodes :
           \/ session.phase = "reconcile" /\ \E S \in SUBSET Replaced : containers' = Without(m, S)
           \/ session.phase = "reconcile" /\ step[m] = "removed" /\ containers' = Started(m)
           \/ /\ session.phase = "prune"
              /\ \E S \in SUBSET (Revisions \ {session.keep}) : containers' = Without(m, S)
    <2>1. containers' # containers
      BY <1>0
    <2>. QED  BY <2>1 DEF Next, Deploy, Proceed, DeployRemoval, DeployUpToDate, DeployChanged,
              DeployForced, Rollout, EditConfig, Promote, Rollback, Scale, NodeRemoves,
              NodeStarts, NodeFails, NodePrunes, PruneFails, ReconcileEnds, ProxySwitches,
              ProxyFails, SwitchEnds, PruneEnds, SessionDies, vars
  <1>2. CASE session.phase = "reconcile" /\ \E S \in SUBSET Replaced : containers' = Without(m, S)
    BY <1>0, <1>2, WithoutEffect DEF Inductive
  <1>3. CASE session.phase = "reconcile" /\ step[m] = "removed" /\ containers' = Started(m)
    <2>1. session.target # None
      BY <1>3 DEF Inductive, Halfway
    <2>. QED  BY <1>0, <1>3, <2>1, StartedEffect DEF Inductive
  <1>4. CASE /\ session.phase = "prune"
             /\ \E S \in SUBSET (Revisions \ {session.keep}) : containers' = Without(m, S)
    <2>1. r # session.keep
      BY <1>0, <1>4, WithoutEffect DEF Inductive
    <2>2. route[p].rev = session.keep /\ session.keep # None
      BY <1>4 DEF Inductive, KeepsTarget, Pointed
    <2>. QED  BY <2>1, <2>2 DEF Answers
  <1>. QED  BY <1>1, <1>2, <1>3, <1>4

\* Pruning never takes a container that a proxy sends requests to, and reconciling takes
\* one only of the revision it starts again or under recreate.
THEOREM RolloutLiveContainers == Spec => LiveContainersStay
  <1>1. Inductive /\ [Next]_vars =>
          [\A p \in Proxies, n \in Nodes, r \in Revisions :
              Answers(n, r, route[p]) /\ containers'[n][r] = "none"
              => session.phase = "reconcile" /\ r \in Replaced]_vars
    BY RemovalStep
  <1>. QED  BY <1>1, AlwaysInductive, PTL DEF Spec, LiveContainersStay

=============================================================================
