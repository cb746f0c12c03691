------------------------ MODULE NodeLifecycleProofs ------------------------
(***************************************************************************)
(* Theorems about NodeLifecycle for any workers, tokens and sessions.      *)
(*                                                                         *)
(* What only the membership file decides holds for commands that overlap   *)
(* in any way.  What relates the file to the workers (FailClosed,          *)
(* ClearedWhenAttested, PublishedToAll and RemovedIsIsolated) holds when   *)
(* commands run one at a time, though each may stop at every step: nothing *)
(* in the code keeps a second command from clearing the latch that the     *)
(* first one has just set, or from publishing an older inventory last.     *)
(***************************************************************************)
EXTENDS NodeLifecycle, TLAPS

EnrollSteps == {"reserve", "identity", "enroll", "first", "ready"}
RemoveSteps == {"prepare", "reread", "revokeController", "revoke", "mark", "removeMember",
                "cleanup", "complete"}

\* A command that runs has a node and is at a step of its verb.
Coherent(c) ==
    /\ c.pc # "idle" => c.node \in Workers
    /\ c.pc = "latch" => c.kind \in {"cordon", "drain", "remove"}
    /\ c.pc = "store" => c.kind \in {"schedulable", "cordon", "drain"}
    /\ c.pc \in EnrollSteps => c.kind = "enroll"
    /\ c.pc \in RemoveSteps => c.kind = "remove"
    /\ c.pc = "clear" => c.kind = "schedulable"

PcKind == \A s \in Sessions : Coherent(cmd[s])

Typed == TypeOK /\ PcKind

\* Steps of the prescribed commands only lead to steps.
LEMMA StepType ==
    /\ \A p \in RemovalPhase : ResumeAt(p) \in RemoveSteps \cup {"read"} /\ ResumeAt(p) \in Steps
    /\ \A c \in Command : c.pc \in Publishing =>
           AfterLoop(c) \in {"mark", "ready", "mesh", "clear", "cleanup", "idle"}
    /\ \A k \in {"schedulable", "cordon", "drain"} :
           To(k) \in Lifecycle /\ "removed" \notin From(k)
    /\ Nobody \in Inventory
    /\ Idle \in Command /\ Idle.pc = "idle" /\ Coherent(Idle)
BY DEF ResumeAt, RemovalPhase, Steps, Publishing, Command, AfterLoop, AfterOthers, To, From,
       Lifecycle, Nobody, Inventory, Idle, Kinds, Coherent, EnrollSteps, RemoveSteps

\* The membership is written in a mutation that s performs and that leaves a
\* command c, or an ended one, behind.
LEMMA CommitType ==
    ASSUME Typed, NEW s \in Sessions, NEW m \in Inventory, NEW c \in Command,
           Coherent(c), Commit(s, m, c)
    PROVE  members' \in Inventory /\ ctlInv' \in Inventory /\ cmd' \in [Sessions -> Command]
           /\ PcKind'
BY StepType DEF Commit, Continue, End, ReconcileInventory, Typed, TypeOK, PcKind

LEMMA ContinueType ==
    ASSUME Typed, NEW s \in Sessions, NEW c \in Command,
           Coherent(c), Continue(s, c)
    PROVE  cmd' \in [Sessions -> Command] /\ PcKind'
BY DEF Continue, Typed, TypeOK, PcKind

LEMMA EndType ==
    ASSUME Typed, NEW s \in Sessions, End(s)
    PROVE  cmd' \in [Sessions -> Command] /\ PcKind'
BY StepType, ContinueType DEF End

LEMMA TypeInit == Init => Typed
BY StepType DEF Init, Typed, TypeOK, PcKind, Nobody, Inventory, Lifecycle, RemovalPhase

LEMMA TypeNext == Typed /\ [Next]_vars => Typed'
<1> SUFFICES ASSUME Typed, [Next]_vars PROVE Typed'
    OBVIOUS
<1> USE DEF store, controller, worker, EnrollSteps, RemoveSteps
<1>0. ASSUME UNCHANGED vars PROVE Typed'
    BY <1>0 DEF vars, Typed, TypeOK, PcKind
<1>1. ASSUME NEW t \in Tokens, CreateJoinToken(t) \/ ExpireToken(t) PROVE Typed'
    BY <1>1 DEF CreateJoinToken, ExpireToken, ReconcileInventory, Typed, TypeOK, PcKind
<1>2. ASSUME NEW s \in Sessions, Session(s) PROVE Typed'
    <2> DEFINE c == cmd[s]
    <2>0. c \in Command /\ Coherent(c) /\ members \in Inventory /\ ctlInv \in Inventory
        BY DEF Typed, TypeOK, PcKind
    <2>1. ASSUME NEW w \in Workers, BeginEnroll(s, w) PROVE Typed'
        <3>1. [Idle EXCEPT !.node = w, !.seen = members,
                 !.pc = IF w \in Active(members) THEN "identity" ELSE "reserve"] \in Command
            BY <2>0 DEF Idle, Command, Steps, Kinds, RemovalPhase, Nobody, Inventory, Lifecycle
        <3>2. cmd' \in [Sessions -> Command] /\ PcKind'
            BY <2>1, <3>1, ContinueType DEF BeginEnroll, Idle, Coherent
        <3> QED BY <2>1, <3>2 DEF BeginEnroll, ReconcileInventory, Typed, TypeOK
    <2>2. ASSUME NEW w \in Workers, Upload(s, w) PROVE Typed'
        <3>1. [c EXCEPT !.dest = w, !.todo = @ \ {w}, !.payload = ctlInv] \in Command
            BY <2>0 DEF Command
        <3>2. cmd' \in [Sessions -> Command] /\ PcKind'
            BY <2>2, <2>0, <3>1, ContinueType DEF Upload, Publishing, Command, Coherent
        <3> QED BY <2>2, <3>2 DEF Upload, Typed, TypeOK
    <2>3. ASSUME NEW k \in Kinds, NEW w \in Workers, BeginLifecycle(s, k, w) PROVE Typed'
        <3> DEFINE d == [Idle EXCEPT !.kind = k, !.node = w, !.seen = members,
                                     !.phase = removal[w], !.pc = FirstStep(k, w)]
        <3>1. removal[w] \in RemovalPhase
            BY DEF Typed, TypeOK
        <3>2. FirstStep(k, w) \in Steps
            BY <3>1, StepType DEF FirstStep, StoreStep, Steps, Publishing
        <3>3. d \in Command /\ d.kind = k /\ d.node = w /\ d.pc = FirstStep(k, w)
            BY <2>0, <3>1, <3>2 DEF Idle, Command, Nobody, Inventory, Lifecycle
        <3>4. /\ d.pc = "latch" => k \in {"cordon", "drain", "remove"}
              /\ d.pc = "store" => k \in {"schedulable", "cordon", "drain"}
              /\ d.pc \in RemoveSteps => k = "remove"
              /\ d.pc \notin EnrollSteps \cup {"clear"}
            BY <2>3, <3>1, <3>3, StepType DEF BeginLifecycle, Kinds, FirstStep, StoreStep
        <3>5. cmd' \in [Sessions -> Command] /\ PcKind'
            BY <2>3, <3>3, <3>4, ContinueType DEF BeginLifecycle, Coherent
        <3> QED BY <2>3, <3>5 DEF BeginLifecycle, ReconcileInventory, Typed, TypeOK
    <2>4. ASSUME NEW t \in Tokens, ReserveJoinToken(s, t) PROVE Typed'
        <3> DEFINE others == [u \in Sessions |-> IF cmd[u].token = t
                                 THEN [cmd[u] EXCEPT !.token = None] ELSE cmd[u]]
        <3>1. /\ others \in [Sessions -> Command]
              /\ \A u \in Sessions : others[u].pc = cmd[u].pc /\ others[u].kind = cmd[u].kind
                                       /\ others[u].node = cmd[u].node
            BY DEF Typed, TypeOK, Command
        <3>2. [c EXCEPT !.pc = "identity", !.token = t] \in Command
            BY <2>0 DEF Command, Steps
        <3>3. cmd' \in [Sessions -> Command]
            BY <2>4, <3>1, <3>2, StepType DEF ReserveJoinToken
        <3>4. ASSUME NEW u \in Sessions
              PROVE  Coherent(cmd'[u])
            <4>1. u # s => cmd'[u] = others[u]
                BY <2>4, <3>1 DEF ReserveJoinToken
            <4>2. cmd'[s] \in {[c EXCEPT !.pc = "identity", !.token = t], Idle}
                BY <2>4, <3>1 DEF ReserveJoinToken
            <4>3. Coherent(cmd'[s])
                BY <2>4, <4>2, <2>0, StepType DEF ReserveJoinToken, Command, Coherent
            <4>4. Coherent(others[u])
                BY <3>1 DEF Typed, PcKind, Coherent
            <4> QED BY <4>1, <4>3, <4>4
        <3>5. PcKind'
            BY <3>4 DEF PcKind
        <3> QED BY <2>4, <2>0, <3>3, <3>5 DEF ReserveJoinToken, ReconcileInventory, Typed, TypeOK
    <2>5. ASSUME NEW t \in Tokens, EnrollWorker(s, t) PROVE Typed'
        <3> DEFINE w == c.node
                   d == [c EXCEPT !.pc = "first", !.todo = {w}, !.seen[w] = "joining",
                                  !.token = None]
                   m == [members EXCEPT ![w] = "joining"]
        <3>1. w \in Workers
            BY <2>5, NodeAssumption DEF EnrollWorker
        <3>2. m \in Inventory
            BY <2>0 DEF Inventory, Lifecycle
        <3>3. d \in Command /\ Coherent(d)
            BY <2>5, <2>0, <3>1 DEF EnrollWorker, Coherent, Command, Steps, Publishing, Inventory,
                                    Lifecycle
        <3>4. Commit(s, m, d)
            BY <2>5 DEF EnrollWorker
        <3> HIDE DEF d, m
        <3> QED BY <2>5, <3>2, <3>3, <3>4, CommitType DEF EnrollWorker, Typed, TypeOK
    <2>6. ASSUME PrepareIdentity(s) PROVE Typed'
        <3> DEFINE d == [c EXCEPT !.pc = "first", !.todo = {c.node}]
                   e == [c EXCEPT !.pc = "enroll"]
        <3>1. c.node \in Workers
            BY <2>6, <2>0 DEF PrepareIdentity, Coherent
        <3>2. e \in Command /\ Coherent(e)
            BY <2>6, <2>0, <3>1 DEF PrepareIdentity, Coherent, Command, Steps
        <3>3. d \in Command /\ Coherent(d)
            BY <2>6, <2>0, <3>1 DEF PrepareIdentity, Coherent, Command, Steps, Publishing
        <3>4. Continue(s, d) \/ Continue(s, e)
            BY <2>6 DEF PrepareIdentity, Goto
        <3> HIDE DEF d, e
        <3> QED BY <2>6, <3>2, <3>3, <3>4, ContinueType DEF PrepareIdentity, Typed, TypeOK
    <2>7. ASSUME MarkReady(s) PROVE Typed'
        <3> DEFINE d == [c EXCEPT !.pc = "read"]
                   m == [members EXCEPT ![c.node] = "ready"]
        <3>1. m \in Inventory
            BY <2>0 DEF Inventory, Lifecycle
        <3>2. d \in Command /\ Coherent(d)
            BY <2>7, <2>0 DEF MarkReady, Coherent, Command, Steps
        <3>3. Commit(s, m, d) \/ (Continue(s, d) /\ UNCHANGED <<members, ctlInv>>)
            BY <2>7 DEF MarkReady, Goto
        <3> HIDE DEF d, m
        <3> QED BY <2>7, <3>1, <3>2, <3>3, CommitType, ContinueType DEF MarkReady, Typed, TypeOK
    <2>8. ASSUME SetDeny(s) PROVE Typed'
        <3> DEFINE d == [c EXCEPT !.pc = StoreStep(c.kind, c.phase)]
        <3>1. d \in Command /\ d.pc = StoreStep(c.kind, c.phase) /\ d.kind = c.kind
              /\ d.node = c.node
            BY <2>0, StepType DEF Command, StoreStep, Steps
        <3>2. c.kind \in {"cordon", "drain", "remove"}
            BY <2>8, <2>0 DEF SetDeny, Coherent
        <3>3. Coherent(d)
            BY <2>8, <2>0, <3>1, <3>2, StepType DEF SetDeny, StoreStep, Command, Coherent
        <3>4. Continue(s, d)
            BY <2>8 DEF SetDeny, Goto
        <3> HIDE DEF d
        <3> QED BY <2>8, <3>1, <3>3, <3>4, ContinueType DEF SetDeny, Typed, TypeOK
    <2>9. ASSUME Transition(s) PROVE Typed'
        <3> DEFINE d == [c EXCEPT !.pc = "read"]
                   m == [members EXCEPT ![c.node] = To(c.kind)]
        <3>1. m \in Inventory
            BY <2>9, <2>0, StepType DEF Transition, Coherent, Inventory
        <3>2. d \in Command /\ Coherent(d)
            BY <2>9, <2>0 DEF Transition, Coherent, Command, Steps
        <3>3. Commit(s, m, d)
            BY <2>9 DEF Transition
        <3> HIDE DEF d, m
        <3> QED BY <2>9, <3>1, <3>2, <3>3, CommitType DEF Transition, Typed, TypeOK
    <2>10. ASSUME PrepareRemoval(s) PROVE Typed'
        <3> DEFINE w == c.node
                   p == IF removal[w] = "none" THEN "revoke-peers" ELSE removal[w]
                   d == [c EXCEPT !.pc = "reread", !.phase = p]
        <3>1. w \in Workers
            BY <2>10, <2>0 DEF PrepareRemoval, Coherent
        <3>2. p \in RemovalPhase
            BY <3>1 DEF Typed, TypeOK, RemovalPhase
        <3>3. d \in Command /\ Coherent(d)
            BY <2>10, <2>0, <3>2 DEF PrepareRemoval, Coherent, Command, Steps
        <3>4. Commit(s, members, d) /\ removal' = [removal EXCEPT ![w] = p]
            BY <2>10 DEF PrepareRemoval
        <3>5. UNCHANGED <<open, ctlPeers, inv, peers, latch, meshKey, takod>>
            BY <2>10 DEF PrepareRemoval
        <3> HIDE DEF d, p
        <3>6. removal' \in [Workers -> RemovalPhase]
            BY <3>2, <3>4 DEF Typed, TypeOK
        <3> QED BY <2>0, <3>3, <3>4, <3>5, <3>6, CommitType DEF Typed, TypeOK
    <2>11. ASSUME RereadForRemoval(s) PROVE Typed'
        <3> DEFINE d == [c EXCEPT !.seen = members, !.pc = ResumeAt(c.phase)]
        <3>1. d \in Command /\ d.pc = ResumeAt(c.phase) /\ d.node = c.node
            BY <2>0, StepType DEF Command
        <3>2. Coherent(d)
            BY <2>11, <3>1, <2>0, StepType DEF RereadForRemoval, Command, Coherent
        <3>3. Continue(s, d)
            BY <2>11 DEF RereadForRemoval
        <3> HIDE DEF d
        <3> QED BY <2>11, <2>0, <3>1, <3>2, <3>3, ContinueType
                DEF RereadForRemoval, ReconcileInventory, Typed, TypeOK
    <2>12. ASSUME RevokeOnController(s) PROVE Typed'
        <3> DEFINE d == [c EXCEPT !.pc = "revoke", !.todo = Active(c.seen) \ {c.node}]
        <3>1. d \in Command /\ Coherent(d)
            BY <2>12, <2>0 DEF RevokeOnController, Coherent, Command, Steps, Publishing, Active
        <3>2. Continue(s, d)
            BY <2>12 DEF RevokeOnController
        <3> HIDE DEF d
        <3> QED BY <2>12, <3>1, <3>2, ContinueType
                DEF RevokeOnController, MeshPeers, Active, Typed, TypeOK
    <2>13. ASSUME MarkRemovalPeersRevoked(s) PROVE Typed'
        <3> DEFINE d == [c EXCEPT !.pc = "removeMember"]
        <3>1. d \in Command /\ Coherent(d)
            BY <2>13, <2>0 DEF MarkRemovalPeersRevoked, Coherent, Command, Steps
        <3>2. Commit(s, members, d)
            BY <2>13 DEF MarkRemovalPeersRevoked
        <3>3. removal' \in [Workers -> RemovalPhase]
            BY <2>13 DEF MarkRemovalPeersRevoked, RemovalPhase, Typed, TypeOK
        <3> HIDE DEF d
        <3> QED BY <2>13, <2>0, <3>1, <3>2, <3>3, CommitType
                DEF MarkRemovalPeersRevoked, Typed, TypeOK
    <2>14. ASSUME Remove(s) PROVE Typed'
        <3> DEFINE d == [c EXCEPT !.pc = "read"]
                   m == [members EXCEPT ![c.node] = "removed"]
        <3>1. m \in Inventory
            BY <2>0 DEF Inventory, Lifecycle
        <3>2. d \in Command /\ Coherent(d)
            BY <2>14, <2>0 DEF Remove, Coherent, Command, Steps
        <3>3. Commit(s, m, d)
            BY <2>14 DEF Remove
        <3>4. removal' \in [Workers -> RemovalPhase]
            BY <2>14 DEF Remove, RemovalPhase, Typed, TypeOK
        <3> HIDE DEF d, m
        <3> QED BY <2>14, <3>1, <3>2, <3>3, <3>4, CommitType DEF Remove, Typed, TypeOK
    <2>15. ASSUME ReadBack(s) PROVE Typed'
        <3> DEFINE d == [c EXCEPT !.seen = members, !.phase = removal[c.node],
                   !.todo = IF c.kind = "enroll" THEN {} ELSE {c.node} \cap Active(members),
                   !.pc = IF c.kind = "enroll" THEN "mesh" ELSE "target"]
        <3>1. c.node \in Workers
            BY <2>15, <2>0 DEF ReadBack, Coherent
        <3>2. removal[c.node] \in RemovalPhase
            BY <3>1 DEF Typed, TypeOK
        <3>3. d \in Command /\ Coherent(d)
            BY <2>15, <2>0, <3>2 DEF ReadBack, Coherent, Command, Steps, Publishing, Active
        <3>4. Continue(s, d)
            BY <2>15 DEF ReadBack
        <3> HIDE DEF d
        <3> QED BY <2>15, <2>0, <3>3, <3>4, ContinueType
                DEF ReadBack, ReconcileInventory, Typed, TypeOK
    <2>16. ASSUME ControllerMesh(s) PROVE Typed'
        <3> DEFINE skipped == IF c.kind = "enroll" THEN {} ELSE {c.node}
                   d == [c EXCEPT !.pc = "others", !.todo = Active(c.seen) \ skipped]
        <3>1. d \in Command /\ Coherent(d)
            BY <2>16, <2>0 DEF ControllerMesh, Coherent, Command, Steps, Publishing, Active
        <3>2. Continue(s, d)
            BY <2>16 DEF ControllerMesh
        <3> HIDE DEF d
        <3> QED BY <2>16, <3>1, <3>2, ContinueType
                DEF ControllerMesh, MeshPeers, Active, Typed, TypeOK
    <2>17. ASSUME Install(s) PROVE Typed'
        <3> DEFINE d == [c EXCEPT !.dest = None, !.payload = Nobody]
        <3>1. d \in Command /\ Coherent(d)
            BY <2>0, StepType DEF Command, Coherent
        <3>2. Continue(s, d) \/ End(s)
            BY <2>17 DEF Install
        <3>3. cmd' \in [Sessions -> Command] /\ PcKind'
            <4> HIDE DEF d
            <4> QED BY <3>1, <3>2, ContinueType, EndType
        <3>4. inv' \in [Workers -> Inventory \cup {None}]
            BY <2>17, <2>0 DEF Install, Command, Typed, TypeOK
        <3>5. peers' \in [Workers -> SUBSET Workers] /\ takod' \in [Workers -> BOOLEAN]
            <4>1. MeshPeers(c.payload, c.dest, Excluded(c)) \in SUBSET Workers
                BY DEF MeshPeers, Active
            <4>2. CASE UNCHANGED <<peers, takod>>
                BY <4>2 DEF Typed, TypeOK
            <4>3. CASE /\ peers' = [peers EXCEPT ![c.dest] = MeshPeers(c.payload, c.dest, Excluded(c))]
                       /\ takod' = [takod EXCEPT ![c.dest] = TRUE]
                BY <4>1, <4>3 DEF Typed, TypeOK
            <4> QED BY <2>17, <4>2, <4>3 DEF Install
        <3> QED BY <2>17, <3>3, <3>4, <3>5 DEF Install, Typed, TypeOK
    <2>18. ASSUME PublicationDone(s) PROVE Typed'
        <3> DEFINE d == [c EXCEPT !.pc = AfterLoop(c)]
        <3>0. d \in Command /\ d.pc = AfterLoop(c) /\ d.kind = c.kind /\ d.node = c.node
            BY <2>18, <2>0, StepType DEF PublicationDone, Command, Steps, Publishing
        <3>01. /\ AfterLoop(c) \in {"mark", "ready", "mesh", "clear", "cleanup", "idle"}
               /\ AfterLoop(c) \in {"mark", "cleanup"} => c.kind = "remove"
               /\ AfterLoop(c) = "ready" => c.kind = "enroll"
               /\ AfterLoop(c) = "clear" => c.kind = "schedulable"
            BY <2>18, <2>0, StepType DEF PublicationDone, Publishing, Coherent, AfterLoop, AfterOthers
        <3>02. c.node \in Workers
            BY <2>18, <2>0 DEF PublicationDone, Publishing, Coherent
        <3>1. d \in Command /\ Coherent(d)
            BY <3>0, <3>01, <3>02 DEF Coherent
        <3>2. Continue(s, d) \/ End(s)
            BY <2>18 DEF PublicationDone, Goto
        <3> HIDE DEF d
        <3> QED BY <2>18, <3>1, <3>2, ContinueType, EndType DEF PublicationDone, Typed, TypeOK
    <2>19. ASSUME ClearDeny(s) \/ Abort(s) PROVE Typed'
        <3>1. End(s)
            BY <2>19 DEF ClearDeny, Abort
        <3> QED BY <2>19, <3>1, EndType DEF ClearDeny, Abort, Typed, TypeOK
    <2>20. ASSUME RevokeRemovedWorker(s) PROVE Typed'
        <3> DEFINE d == [c EXCEPT !.pc = "complete"]
        <3>1. d \in Command /\ Coherent(d)
            BY <2>20, <2>0 DEF RevokeRemovedWorker, Coherent, Command, Steps
        <3>2. Continue(s, d) \/ End(s)
            BY <2>20 DEF RevokeRemovedWorker, Goto
        <3> HIDE DEF d
        <3> QED BY <2>20, <3>1, <3>2, ContinueType, EndType
                DEF RevokeRemovedWorker, Typed, TypeOK
    <2>21. ASSUME CompleteRemoval(s) PROVE Typed'
        <3>1. removal' \in [Workers -> RemovalPhase]
            BY <2>21 DEF CompleteRemoval, RemovalPhase, Typed, TypeOK
        <3>2. Commit(s, members, Idle)
            BY <2>21 DEF CompleteRemoval
        <3> QED BY <2>21, <2>0, <3>1, <3>2, CommitType, StepType
                DEF CompleteRemoval, Typed, TypeOK
    <2>22. ASSUME ExpireReservation(s) PROVE Typed'
        <3> DEFINE d == [c EXCEPT !.token = None]
        <3>1. d \in Command /\ Coherent(d)
            BY <2>0 DEF Command, Coherent
        <3>2. Continue(s, d)
            BY <2>22 DEF ExpireReservation
        <3>3. cmd' \in [Sessions -> Command] /\ PcKind'
            <4> HIDE DEF d
            <4> QED BY <3>1, <3>2, ContinueType
        <3> QED BY <2>22, <3>3 DEF ExpireReservation, Typed, TypeOK
    <2> QED BY <1>2, <2>1, <2>2, <2>3, <2>4, <2>5, <2>6, <2>7, <2>8, <2>9, <2>10, <2>11, <2>12,
               <2>13, <2>14, <2>15, <2>16, <2>17, <2>18, <2>19, <2>20, <2>21, <2>22
            DEF Session
<1> QED BY <1>0, <1>1, <1>2 DEF Next

\* The files, the workers and the commands stay what the code declares them to
\* be, whichever commands overlap and wherever they stop.
THEOREM TypeCorrect == Spec => []TypeOK
<1>1. Spec => []Typed
    BY TypeInit, TypeNext, PTL DEF Spec
<1> QED BY <1>1, PTL DEF Typed

-----------------------------------------------------------------------------
(* Tombstones.                                                             *)

\* The four operations that change a lifecycle.
LEMMA MembersFrame ==
    ASSUME [Next]_vars
    PROVE  \/ UNCHANGED members
           \/ \E s \in Sessions : \/ \E t \in Tokens : EnrollWorker(s, t)
                                  \/ MarkReady(s) \/ Transition(s) \/ Remove(s)
<1> USE DEF store, controller, worker
<1>1. CASE UNCHANGED vars
    BY <1>1 DEF vars
<1>2. ASSUME NEW t \in Tokens, CreateJoinToken(t) \/ ExpireToken(t) PROVE UNCHANGED members
    BY <1>2 DEF CreateJoinToken, ExpireToken
<1>3. ASSUME NEW s \in Sessions,
             \/ \E w \in Workers : BeginEnroll(s, w) \/ Upload(s, w)
             \/ \E k \in Kinds, w \in Workers : BeginLifecycle(s, k, w)
             \/ \E t \in Tokens : ReserveJoinToken(s, t)
      PROVE  UNCHANGED members
    BY <1>3 DEF BeginEnroll, Upload, BeginLifecycle, ReserveJoinToken
<1>4. ASSUME NEW s \in Sessions,
             PrepareRemoval(s) \/ MarkRemovalPeersRevoked(s) \/ CompleteRemoval(s)
      PROVE  UNCHANGED members
    BY <1>4 DEF PrepareRemoval, MarkRemovalPeersRevoked, CompleteRemoval, Commit
<1>5. ASSUME NEW s \in Sessions,
             \/ PrepareIdentity(s) \/ SetDeny(s) \/ RereadForRemoval(s) \/ RevokeOnController(s)
             \/ ReadBack(s) \/ ControllerMesh(s) \/ Install(s) \/ PublicationDone(s)
             \/ ClearDeny(s) \/ RevokeRemovedWorker(s) \/ ExpireReservation(s) \/ Abort(s)
      PROVE  UNCHANGED members
    BY <1>5 DEF PrepareIdentity, SetDeny, RereadForRemoval, RevokeOnController, ReadBack,
                ControllerMesh, Install, PublicationDone, ClearDeny, RevokeRemovedWorker,
                ExpireReservation, Abort
<1> QED BY <1>1, <1>2, <1>3, <1>4, <1>5 DEF Next, Session

LEMMA TombstoneStep ==
    ASSUME Typed, [Next]_vars
    PROVE  \A w \in Workers : members[w] = "removed" => members'[w] = "removed"
<1> SUFFICES ASSUME NEW w \in Workers, members[w] = "removed" PROVE members'[w] = "removed"
    OBVIOUS
<1>0. members \in Inventory
    BY DEF Typed, TypeOK
<1>1. ASSUME NEW s \in Sessions, NEW t \in Tokens, EnrollWorker(s, t) PROVE members'[w] = "removed"
    BY <1>0, <1>1 DEF EnrollWorker, Commit, Inventory
<1>2. ASSUME NEW s \in Sessions, MarkReady(s) PROVE members'[w] = "removed"
    BY <1>0, <1>2 DEF MarkReady, Commit, Inventory
<1>3. ASSUME NEW s \in Sessions, Transition(s) PROVE members'[w] = "removed"
    <2>1. "removed" \notin From(cmd[s].kind)
        BY <1>3, StepType DEF Transition, Typed, PcKind, Coherent
    <2> QED BY <1>0, <1>3, <2>1 DEF Transition, Commit, Inventory
<1>4. ASSUME NEW s \in Sessions, Remove(s) PROVE members'[w] = "removed"
    BY <1>0, <1>4 DEF Remove, Commit, Inventory
<1> QED BY <1>1, <1>2, <1>3, <1>4, MembersFrame

\* A tombstone is permanent for any tokens left open and any commands that
\* overlap with the removal.
THEOREM TombstonesArePermanent == Spec => RemovedForGood
<1>1. Spec => []Typed
    BY TypeInit, TypeNext, PTL DEF Spec
<1>2. Typed /\ [Next]_vars =>
          [\A w \in Workers : members[w] = "removed" => members'[w] = "removed"]_vars
    BY TombstoneStep
<1> QED BY <1>1, <1>2, PTL DEF Spec, RemovedForGood

-----------------------------------------------------------------------------
(* The deny latch, when commands run one at a time.                        *)

Serial == \A s, u \in Sessions : s = u

TakenOut == {"cordoned", "draining", "removed"}

\* The latch is set wherever the membership has taken the node out or is about
\* to, and a command that will clear it has made the node schedulable.
LatchInv ==
    /\ \A w \in Workers : members[w] \in TakenOut => latch[w]
    /\ \A s \in Sessions : cmd[s].pc = "store" /\ cmd[s].kind \in {"cordon", "drain"} =>
                               latch[cmd[s].node]
    /\ \A s \in Sessions :
           cmd[s].kind = "schedulable" /\ cmd[s].pc \in {"read", "target", "mesh", "others", "clear"} =>
               members[cmd[s].node] = "schedulable"

\* What a schedulable command has attested on its target by the time it clears
\* the latch.
Attested(w) == inv[w] # None /\ inv[w][w] = "schedulable"
Attests(c) ==
    /\ c.pc \in {"target", "mesh", "others", "clear"} => ctlInv = members
    /\ c.pc \in {"target", "others"} /\ c.dest # None => c.payload = members
    /\ c.pc = "target" => c.todo \subseteq {c.node} /\ c.dest \in {None, c.node}
    /\ c.kind = "schedulable" =>
           /\ c.pc = "target" /\ c.dest = None /\ c.todo = {} => Attested(c.node)
           /\ c.pc \in {"mesh", "others", "clear"} => Attested(c.node)
    /\ c.pc \notin Publishing => c.dest = None
AttestInv == \A s \in Sessions : Attests(cmd[s])

LEMMA LatchNext ==
    ASSUME Serial, Typed, LatchInv, [Next]_vars
    PROVE  LatchInv'
<1> USE DEF store, controller, worker
<1>1. CASE UNCHANGED vars
    BY <1>1 DEF vars, LatchInv
<1>2. ASSUME NEW t \in Tokens, CreateJoinToken(t) \/ ExpireToken(t) PROVE LatchInv'
    BY <1>2 DEF CreateJoinToken, ExpireToken, LatchInv
<1>3. ASSUME NEW s \in Sessions, Session(s) PROVE LatchInv'
    <2> DEFINE c == cmd[s]
               d == cmd'[s]
    <2>0. c \in Command /\ Coherent(c) /\ cmd \in [Sessions -> Command] /\ members \in Inventory
          /\ latch \in [Workers -> BOOLEAN]
        BY DEF Typed, TypeOK, PcKind
    <2>00. \A u \in Sessions : u = s
        BY DEF Serial
    <2>i. Idle.pc = "idle"
        BY DEF Idle
    <2>1. ASSUME UNCHANGED <<members, latch>>,
                 d.pc = "store" /\ d.kind \in {"cordon", "drain"} => latch[d.node],
                 d.kind = "schedulable" /\ d.pc \in {"read", "target", "mesh", "others", "clear"} =>
                     members[d.node] = "schedulable"
          PROVE  LatchInv'
        BY <2>1, <2>00 DEF LatchInv
    <2>2. ASSUME NEW w \in Workers, BeginEnroll(s, w) PROVE LatchInv'
        BY <2>2, <2>1, <2>0 DEF BeginEnroll, Continue, Idle
    <2>3. ASSUME NEW w \in Workers, Upload(s, w) PROVE LatchInv'
        <3>1. d.pc = c.pc /\ d.kind = c.kind /\ d.node = c.node
            BY <2>3, <2>0 DEF Upload, Continue, Command
        <3> QED BY <2>3, <2>1, <3>1 DEF Upload, LatchInv
    <2>4. ASSUME NEW k \in Kinds, NEW w \in Workers, BeginLifecycle(s, k, w) PROVE LatchInv'
        <3>1. d.pc = FirstStep(k, w) /\ d.kind = k /\ d.node = w
            BY <2>4, <2>0 DEF BeginLifecycle, Continue, Idle
        <3>2. removal[w] \in RemovalPhase
            BY DEF Typed, TypeOK
        <3>3. k = "schedulable" => d.pc = "store"
            BY <3>1 DEF FirstStep, StoreStep
        <3>4. k \in {"cordon", "drain"} => d.pc = "latch"
            BY <2>4, <3>1 DEF FirstStep, BeginLifecycle
        <3> QED BY <2>4, <2>1, <3>1, <3>3, <3>4 DEF BeginLifecycle
    <2>5. ASSUME NEW t \in Tokens, ReserveJoinToken(s, t) PROVE LatchInv'
        <3>1. d \in {[c EXCEPT !.pc = "identity", !.token = t], Idle}
            BY <2>5, <2>0 DEF ReserveJoinToken
        <3>2. d.pc \in {"identity", "idle"}
            BY <3>1, <2>0, <2>i DEF Command
        <3> QED BY <2>5, <2>1, <3>2 DEF ReserveJoinToken
    <2>6. ASSUME NEW t \in Tokens, EnrollWorker(s, t) PROVE LatchInv'
        <3>1. d.pc \in {"first", "idle"}
            BY <2>6, <2>0, <2>i DEF EnrollWorker, Commit, Continue, End, Command
        <3>2. latch' = latch /\ members' = [members EXCEPT ![c.node] = "joining"]
            BY <2>6 DEF EnrollWorker, Commit
        <3> QED BY <2>0, <2>00, <3>1, <3>2 DEF LatchInv, TakenOut, Inventory
    <2>7. ASSUME PrepareIdentity(s) PROVE LatchInv'
        <3>1. d.pc \in {"first", "enroll"}
            BY <2>7, <2>0 DEF PrepareIdentity, Goto, Continue, Command
        <3> QED BY <2>7, <2>1, <3>1 DEF PrepareIdentity
    <2>8. ASSUME MarkReady(s) PROVE LatchInv'
        <3>1. c.kind = "enroll"
            BY <2>8, <2>0 DEF MarkReady, Coherent, EnrollSteps
        <3>2. d.pc = "idle" \/ (d.pc = "read" /\ d.kind = "enroll")
            BY <2>8, <2>0, <2>i, <3>1 DEF MarkReady, Commit, Goto, Continue, End, Command
        <3>3. latch' = latch /\ members' \in {members, [members EXCEPT ![c.node] = "ready"]}
            BY <2>8 DEF MarkReady, Commit
        <3> QED BY <2>0, <2>00, <3>2, <3>3 DEF LatchInv, TakenOut, Inventory
    <2>9. ASSUME SetDeny(s) PROVE LatchInv'
        <3>1. d.pc = StoreStep(c.kind, c.phase) /\ d.kind = c.kind /\ d.node = c.node
            BY <2>9, <2>0 DEF SetDeny, Goto, Continue, Command
        <3>2. c.kind # "schedulable" /\ c.node \in Workers
            BY <2>9, <2>0 DEF SetDeny, Coherent
        <3>3. members' = members /\ latch' = [latch EXCEPT ![c.node] = TRUE]
            BY <2>9 DEF SetDeny
        <3> QED BY <2>0, <2>00, <3>1, <3>2, <3>3 DEF LatchInv
    <2>10. ASSUME Transition(s) PROVE LatchInv'
        <3> DEFINE m == [members EXCEPT ![c.node] = To(c.kind)]
        <3>1. d.pc = "idle" \/ (d.pc = "read" /\ d.kind = c.kind /\ d.node = c.node)
            BY <2>10, <2>0, <2>i DEF Transition, Commit, Continue, End, Command
        <3>2. c.kind \in {"schedulable", "cordon", "drain"} /\ c.node \in Workers
            BY <2>10, <2>0 DEF Transition, Coherent
        <3>3. latch' = latch /\ members' = m
            BY <2>10 DEF Transition, Commit
        <3>4. c.kind # "schedulable" => latch[c.node]
            BY <2>10, <3>2 DEF Transition, LatchInv
        <3>5. c.kind = "schedulable" => To(c.kind) = "schedulable"
            BY DEF To
        <3>6. \A w \in Workers : members'[w] \in TakenOut => latch'[w]
            BY <2>0, <3>2, <3>3, <3>4, <3>5 DEF LatchInv, TakenOut, Inventory
        <3>7. members'[c.node] = To(c.kind)
            BY <2>0, <3>2, <3>3 DEF Inventory
        <3> QED BY <2>00, <3>1, <3>5, <3>6, <3>7 DEF LatchInv
    <2>11. ASSUME Remove(s) PROVE LatchInv'
        <3>1. c.kind = "remove"
            BY <2>11, <2>0 DEF Remove, Coherent, RemoveSteps
        <3>2. d.pc = "idle" \/ (d.pc = "read" /\ d.kind = "remove")
            BY <2>11, <2>0, <2>i, <3>1 DEF Remove, Commit, Continue, End, Command
        <3>3. /\ latch' = latch /\ members' = [members EXCEPT ![c.node] = "removed"]
              /\ members[c.node] \in TakenOut
            BY <2>11 DEF Remove, Commit, TakenOut
        <3> QED BY <2>0, <2>00, <3>2, <3>3 DEF LatchInv, TakenOut, Inventory
    <2>12. ASSUME PrepareRemoval(s) \/ MarkRemovalPeersRevoked(s) \/ CompleteRemoval(s) PROVE LatchInv'
        <3>1. d.pc \in {"idle", "reread", "removeMember"}
            BY <2>12, <2>0, <2>i
            DEF PrepareRemoval, MarkRemovalPeersRevoked, CompleteRemoval, Commit, Continue, End, Command
        <3>2. UNCHANGED <<members, latch>>
            BY <2>12 DEF PrepareRemoval, MarkRemovalPeersRevoked, CompleteRemoval, Commit
        <3> QED BY <2>1, <3>1, <3>2
    <2>13. ASSUME RereadForRemoval(s) PROVE LatchInv'
        <3>1. d.kind = "remove"
            BY <2>13, <2>0 DEF RereadForRemoval, Continue, Command, Coherent, RemoveSteps
        <3> QED BY <2>13, <2>1, <3>1 DEF RereadForRemoval
    <2>14. ASSUME RevokeOnController(s) \/ ControllerMesh(s) \/ ReadBack(s) PROVE LatchInv'
        <3>1. d.kind = c.kind /\ d.node = c.node /\ d.pc \in {"revoke", "mesh", "target", "others"}
            <4>1. CASE RevokeOnController(s)
                BY <4>1, <2>0 DEF RevokeOnController, Continue, Command
            <4>2. CASE ControllerMesh(s)
                BY <4>2, <2>0 DEF ControllerMesh, Continue, Command
            <4>3. CASE ReadBack(s)
                BY <4>3, <2>0 DEF ReadBack, Continue, Command
            <4> QED BY <2>14, <4>1, <4>2, <4>3
        <3>2. c.kind = "schedulable" => c.pc \in {"mesh", "read"}
            BY <2>14, <2>0
            DEF RevokeOnController, ControllerMesh, ReadBack, Coherent, RemoveSteps
        <3>3. UNCHANGED <<members, latch>>
            BY <2>14 DEF RevokeOnController, ControllerMesh, ReadBack
        <3> QED BY <2>1, <3>1, <3>2, <3>3 DEF LatchInv
    <2>15. ASSUME Install(s) \/ ExpireReservation(s) PROVE LatchInv'
        <3>1. d.pc = "idle" \/ (d.pc = c.pc /\ d.kind = c.kind /\ d.node = c.node)
            <4>1. CASE Install(s)
                <5>1. End(s) \/ \E x, y : Continue(s, [c EXCEPT !.dest = x, !.payload = y])
                    BY <4>1 DEF Install
                <5> QED BY <5>1, <2>0, <2>i DEF Continue, End, Command
            <4>2. CASE ExpireReservation(s)
                BY <4>2, <2>0, <2>i DEF ExpireReservation, Continue, End, Command
            <4> QED BY <2>15, <4>1, <4>2
        <3>2. UNCHANGED <<members, latch>>
            BY <2>15 DEF Install, ExpireReservation
        <3> QED BY <2>1, <3>1, <3>2 DEF LatchInv
    <2>16. ASSUME PublicationDone(s) PROVE LatchInv'
        <3>1. d.pc = "idle" \/ (d.pc = AfterLoop(c) /\ d.kind = c.kind /\ d.node = c.node)
            BY <2>16, <2>0, <2>i DEF PublicationDone, Goto, Continue, End, Command
        <3>2. c.kind = "schedulable" => c.pc \in {"target", "others"}
            BY <2>16, <2>0 DEF PublicationDone, Publishing, Coherent, RemoveSteps, EnrollSteps
        <3>3. AfterLoop(c) # "store"
            BY <2>16, <2>0, StepType DEF PublicationDone
        <3>4. UNCHANGED <<members, latch>>
            BY <2>16 DEF PublicationDone
        <3> QED BY <2>1, <3>1, <3>2, <3>3, <3>4 DEF LatchInv
    <2>17. ASSUME ClearDeny(s) PROVE LatchInv'
        <3>1. c.node \in Workers /\ members[c.node] = "schedulable"
            BY <2>17, <2>0 DEF ClearDeny, Coherent, LatchInv
        <3>2. d.pc = "idle" /\ members' = members /\ latch' = [latch EXCEPT ![c.node] = FALSE]
            BY <2>17, <2>0, <2>i DEF ClearDeny, End, Continue
        <3> QED BY <2>0, <2>00, <3>1, <3>2 DEF LatchInv, TakenOut
    <2>18. ASSUME RevokeRemovedWorker(s) \/ Abort(s) PROVE LatchInv'
        <3>1. d.pc \in {"complete", "idle"}
            BY <2>18, <2>0, <2>i DEF RevokeRemovedWorker, Abort, Goto, Continue, End, Command
        <3> QED BY <2>18, <2>1, <3>1 DEF RevokeRemovedWorker, Abort
    <2> QED BY <1>3, <2>2, <2>3, <2>4, <2>5, <2>6, <2>7, <2>8, <2>9, <2>10, <2>11, <2>12, <2>13,
               <2>14, <2>15, <2>16, <2>17, <2>18
            DEF Session
<1> QED BY <1>1, <1>2, <1>3 DEF Next

\* A node the membership has taken out accepts no workload mutation, when
\* commands run one at a time and each stops wherever it may.
THEOREM TakenOutIsFailClosed == Serial => (Spec => []FailClosed)
<1> SUFFICES ASSUME Serial PROVE Spec => []FailClosed
    OBVIOUS
<1>1. Init => Typed /\ LatchInv
    BY TypeInit DEF Init, LatchInv, TakenOut, Nobody, Idle
<1>2. Typed /\ LatchInv /\ [Next]_vars => (Typed /\ LatchInv)'
    BY TypeNext, LatchNext
<1>3. LatchInv => FailClosed
    BY DEF LatchInv, FailClosed, Accepts, TakenOut
<1> QED BY <1>1, <1>2, <1>3, PTL DEF Spec

LEMMA AttestNext ==
    ASSUME Serial, Typed, LatchInv, AttestInv, [Next]_vars
    PROVE  AttestInv'
<1> USE DEF store, controller, worker, ReconcileInventory
<1>1. CASE UNCHANGED vars
    BY <1>1 DEF vars, AttestInv, Attests, Attested
<1>2. ASSUME NEW t \in Tokens, CreateJoinToken(t) \/ ExpireToken(t) PROVE AttestInv'
    BY <1>2 DEF CreateJoinToken, ExpireToken, AttestInv, Attests, Attested
<1>3. ASSUME NEW s \in Sessions, Session(s) PROVE AttestInv'
    <2> DEFINE c == cmd[s]
               d == cmd'[s]
    <2>0. c \in Command /\ Coherent(c) /\ cmd \in [Sessions -> Command] /\ members \in Inventory
          /\ Attests(c)
        BY DEF Typed, TypeOK, PcKind, AttestInv
    <2>00. \A u \in Sessions : u = s
        BY DEF Serial
    <2>i. Idle.pc = "idle" /\ Idle.dest = None
        BY DEF Idle
    <2>1. ASSUME d.pc \notin {"target", "mesh", "others", "clear"}, d.pc \notin Publishing => d.dest = None
          PROVE  AttestInv'
        BY <2>1, <2>00 DEF AttestInv, Attests
    <2>2. ASSUME NEW w \in Workers, BeginEnroll(s, w) PROVE AttestInv'
        BY <2>2, <2>1, <2>0 DEF BeginEnroll, Continue, Idle
    <2>3. ASSUME NEW k \in Kinds, NEW w \in Workers, BeginLifecycle(s, k, w) PROVE AttestInv'
        <3>1. d.pc = FirstStep(k, w) /\ d.dest = None
            BY <2>3, <2>0 DEF BeginLifecycle, Continue, Idle
        <3>2. removal[w] \in RemovalPhase
            BY DEF Typed, TypeOK
        <3>3. FirstStep(k, w) \in {"latch", "store", "read"} \cup RemoveSteps
            BY <3>2, StepType DEF FirstStep, StoreStep
        <3> QED BY <2>1, <3>1, <3>3 DEF RemoveSteps
    <2>4. ASSUME NEW t \in Tokens, ReserveJoinToken(s, t) PROVE AttestInv'
        <3>1. d \in {[c EXCEPT !.pc = "identity", !.token = t], Idle}
            BY <2>4, <2>0 DEF ReserveJoinToken
        <3>2. d.pc \in {"identity", "idle"} /\ d.dest = None
            BY <2>4, <3>1, <2>0, <2>i DEF ReserveJoinToken, Command, Attests, Publishing
        <3> QED BY <2>1, <3>2
    <2>5. ASSUME NEW t \in Tokens, EnrollWorker(s, t) PROVE AttestInv'
        <3> DEFINE e == [c EXCEPT !.pc = "first", !.todo = {c.node}, !.seen[c.node] = "joining",
                                  !.token = None]
        <3>0. e.pc = "first" /\ e.dest = None
            BY <2>5, <2>0 DEF EnrollWorker, Attests, Publishing, Command
        <3>1. d.pc \in {"first", "idle"} /\ d.dest = None
            <4>1. d \in {e, Idle}
                BY <2>5, <2>0 DEF EnrollWorker, Commit, Continue, End
            <4> QED BY <4>1, <2>i, <3>0
        <3> QED BY <2>1, <3>1
    <2>6. ASSUME PrepareIdentity(s) PROVE AttestInv'
        <3> DEFINE e == [c EXCEPT !.pc = "first", !.todo = {c.node}]
                   f == [c EXCEPT !.pc = "enroll"]
        <3>0. e.pc = "first" /\ e.dest = None /\ f.pc = "enroll" /\ f.dest = None
            BY <2>6, <2>0 DEF PrepareIdentity, Attests, Publishing, Command
        <3>1. d.pc \in {"first", "enroll"} /\ d.dest = None
            <4>1. d \in {e, f}
                BY <2>6, <2>0 DEF PrepareIdentity, Goto, Continue
            <4> QED BY <4>1, <3>0
        <3> QED BY <2>1, <3>1
    <2>7. ASSUME MarkReady(s) \/ Transition(s) \/ Remove(s) PROVE AttestInv'
        <3>1. c.dest = None
            BY <2>7, <2>0 DEF MarkReady, Transition, Remove, Attests, Publishing
        <3>2. d.pc \in {"read", "idle"} /\ d.dest = None
            BY <2>7, <2>0, <2>i, <3>1
            DEF MarkReady, Transition, Remove, Commit, Goto, Continue, End, Command
        <3> QED BY <2>1, <3>2
    <2>8. ASSUME SetDeny(s) PROVE AttestInv'
        <3>1. d.pc = StoreStep(c.kind, c.phase) /\ d.dest = None
            BY <2>8, <2>0 DEF SetDeny, Goto, Continue, Command, Attests, Publishing
        <3>2. d.pc \in {"store", "read"} \cup RemoveSteps
            BY <2>0, <3>1, StepType DEF StoreStep, Command
        <3> QED BY <2>1, <3>1, <3>2 DEF RemoveSteps
    <2>9. ASSUME PrepareRemoval(s) \/ MarkRemovalPeersRevoked(s) \/ CompleteRemoval(s) PROVE AttestInv'
        <3>1. c.dest = None
            BY <2>9, <2>0
            DEF PrepareRemoval, MarkRemovalPeersRevoked, CompleteRemoval, Attests, Publishing
        <3>2. d.pc \in {"idle", "reread", "removeMember"} /\ d.dest = None
            BY <2>9, <2>0, <2>i, <3>1
            DEF PrepareRemoval, MarkRemovalPeersRevoked, CompleteRemoval, Commit, Continue, End, Command
        <3> QED BY <2>1, <3>2
    <2>10. ASSUME RereadForRemoval(s) PROVE AttestInv'
        <3>1. d.pc = ResumeAt(c.phase) /\ d.dest = None
            BY <2>10, <2>0 DEF RereadForRemoval, Continue, Command, Attests, Publishing
        <3>2. d.pc \in RemoveSteps \cup {"read"}
            BY <2>0, <3>1, StepType DEF Command
        <3> QED BY <2>1, <3>1, <3>2 DEF RemoveSteps
    <2>11. ASSUME RevokeOnController(s) PROVE AttestInv'
        <3>1. d.pc = "revoke"
            BY <2>11, <2>0 DEF RevokeOnController, Continue, Command
        <3> QED BY <2>1, <3>1 DEF Publishing
    <2>12. ASSUME ReadBack(s) PROVE AttestInv'
        <3>1. c.dest = None /\ c.node \in Workers
            BY <2>12, <2>0 DEF ReadBack, Attests, Publishing, Coherent
        <3>2. /\ d.pc = (IF c.kind = "enroll" THEN "mesh" ELSE "target") /\ d.kind = c.kind
              /\ d.node = c.node /\ d.dest = None
              /\ d.todo = (IF c.kind = "enroll" THEN {} ELSE {c.node} \cap Active(members))
            BY <2>12, <2>0, <3>1 DEF ReadBack, Continue, Command
        <3>3. ctlInv' = members /\ members' = members
            BY <2>12 DEF ReadBack
        <3>4. c.kind = "schedulable" => d.todo # {}
            BY <2>12, <3>1, <3>2 DEF ReadBack, LatchInv, Active
        <3> QED BY <2>00, <3>2, <3>3, <3>4 DEF AttestInv, Attests
    <2>13. ASSUME ControllerMesh(s) PROVE AttestInv'
        <3>1. c.dest = None
            BY <2>13, <2>0 DEF ControllerMesh, Attests, Publishing
        <3>2. d.pc = "others" /\ d.kind = c.kind /\ d.node = c.node /\ d.dest = None
            BY <2>13, <2>0, <3>1 DEF ControllerMesh, Continue, Command
        <3>3. UNCHANGED <<ctlInv, members, inv>>
            BY <2>13 DEF ControllerMesh
        <3> QED BY <2>13, <2>0, <2>00, <3>2, <3>3
                DEF ControllerMesh, AttestInv, Attests, Attested
    <2>14. ASSUME NEW w \in Workers, Upload(s, w) PROVE AttestInv'
        <3>1. /\ d.pc = c.pc /\ d.kind = c.kind /\ d.node = c.node /\ d.dest = w
              /\ d.todo = c.todo \ {w} /\ d.payload = ctlInv
            BY <2>14, <2>0 DEF Upload, Continue, Command
        <3>2. UNCHANGED <<ctlInv, members, inv>> /\ c.pc \in Publishing /\ w \in c.todo /\ w # None
            BY <2>14, NodeAssumption DEF Upload
        <3> QED BY <2>0, <2>00, <3>1, <3>2 DEF AttestInv, Attests, Attested, Publishing
    <2>15. ASSUME Install(s) PROVE AttestInv'
        <3>1. CASE d.pc = "idle" /\ d.dest = None
            BY <2>1, <3>1
        <3>2. CASE /\ d.pc = c.pc /\ d.kind = c.kind /\ d.node = c.node /\ d.dest = None
                   /\ d.todo = c.todo
            <4>1. c.dest # None /\ inv' = [inv EXCEPT ![c.dest] = c.payload]
                  /\ UNCHANGED <<ctlInv, members>>
                BY <2>15 DEF Install
            <4>2. c.dest \in Workers /\ inv \in [Workers -> Inventory \cup {None}]
                BY <2>0, <4>1 DEF Command, Typed, TypeOK
            <4>3. inv'[c.dest] = c.payload /\ \A v \in Workers \ {c.dest} : inv'[v] = inv[v]
                BY <4>1, <4>2
            <4>4. c.pc \in Publishing
                BY <2>0, <4>1 DEF Attests
            <4>5. c.node \in Workers
                BY <2>0, <4>4 DEF Coherent, Publishing
            <4>6. c.kind = "schedulable" => c.pc \in {"target", "others"}
                BY <2>0, <4>4 DEF Coherent, Publishing, EnrollSteps, RemoveSteps
            <4>7. c.kind = "schedulable" =>
                      members[c.node] = "schedulable" /\ c.payload = members
                BY <2>0, <4>1, <4>6 DEF LatchInv, Attests
            <4>8. members # None
                BY <2>0, InventoryAssumption
            <4>9. c.kind = "schedulable" =>
                      inv'[c.node] # None /\ inv'[c.node][c.node] = "schedulable"
                <5> SUFFICES ASSUME c.kind = "schedulable"
                             PROVE  inv'[c.node] # None /\ inv'[c.node][c.node] = "schedulable"
                    OBVIOUS
                <5>1. CASE c.dest = c.node
                    BY <5>1, <4>3, <4>7, <4>8
                <5>2. CASE c.dest # c.node
                    <6>1. c.pc = "others"
                        BY <5>2, <2>0, <4>1, <4>6 DEF Attests
                    <6>2. inv'[c.node] = inv[c.node]
                        BY <5>2, <4>3, <4>5
                    <6> QED BY <6>1, <6>2, <2>0 DEF Attests, Attested
                <5> QED BY <5>1, <5>2
            <4>10. Attests(cmd[s])'
                BY <2>0, <3>2, <4>1, <4>4, <4>9 DEF Attests, Attested
            <4> QED BY <2>00, <4>10 DEF AttestInv
        <3>3. d \in {[c EXCEPT !.dest = None, !.payload = Nobody], Idle}
            BY <2>15, <2>0 DEF Install, Continue, End
        <3> QED BY <2>0, <2>i, <3>1, <3>2, <3>3 DEF Command
    <2>16. ASSUME PublicationDone(s) PROVE AttestInv'
        <3>1. d.pc = "idle" \/ (d.pc = AfterLoop(c) /\ d.kind = c.kind /\ d.node = c.node)
            BY <2>16, <2>0, <2>i DEF PublicationDone, Goto, Continue, End, Command
        <3>2. c.dest = None /\ d.dest = None /\ c.todo = {} /\ c.pc \in Publishing
            BY <2>16, <2>0, <2>i DEF PublicationDone, Goto, Continue, End, Command
        <3>3. UNCHANGED <<ctlInv, members, inv>>
            BY <2>16 DEF PublicationDone
        <3>4. /\ AfterLoop(c) \in {"mark", "ready", "mesh", "clear", "cleanup", "idle"}
              /\ AfterLoop(c) = "mesh" => c.pc = "target"
              /\ AfterLoop(c) = "clear" => c.pc = "others"
            BY <3>2 DEF Publishing, AfterLoop, AfterOthers
        <3> QED BY <2>0, <2>00, <3>1, <3>2, <3>3, <3>4 DEF AttestInv, Attests, Attested
    <2>17. ASSUME ClearDeny(s) \/ Abort(s) PROVE AttestInv'
        BY <2>17, <2>0, <2>i, <2>1 DEF ClearDeny, Abort, End, Continue
    <2>18. ASSUME RevokeRemovedWorker(s) PROVE AttestInv'
        <3>1. d.pc \in {"complete", "idle"} /\ d.dest = None
            BY <2>18, <2>0, <2>i
            DEF RevokeRemovedWorker, Goto, Continue, End, Command, Attests, Publishing
        <3> QED BY <2>1, <3>1
    <2>19. ASSUME ExpireReservation(s) PROVE AttestInv'
        <3>1. /\ d.pc = c.pc /\ d.kind = c.kind /\ d.node = c.node /\ d.dest = c.dest
              /\ d.todo = c.todo /\ d.payload = c.payload
            BY <2>19, <2>0 DEF ExpireReservation, Continue, Command
        <3>2. UNCHANGED <<ctlInv, members, inv>>
            BY <2>19 DEF ExpireReservation
        <3> QED BY <2>0, <2>00, <3>1, <3>2 DEF AttestInv, Attests, Attested
    <2> QED BY <1>3, <2>2, <2>3, <2>4, <2>5, <2>6, <2>7, <2>8, <2>9, <2>10, <2>11, <2>12, <2>13,
               <2>14, <2>15, <2>16, <2>17, <2>18, <2>19
            DEF Session
<1> QED BY <1>1, <1>2, <1>3 DEF Next

LEMMA LatchFrame ==
    ASSUME [Next]_vars, NEW w \in Workers, latch[w], ~latch'[w], latch \in [Workers -> BOOLEAN]
    PROVE  \E s \in Sessions : ClearDeny(s) /\ cmd[s].node = w
<1> USE DEF store, controller, worker
<1>1. CASE UNCHANGED vars
    BY <1>1 DEF vars
<1>2. ASSUME NEW t \in Tokens, CreateJoinToken(t) \/ ExpireToken(t) PROVE FALSE
    BY <1>2 DEF CreateJoinToken, ExpireToken
<1>3. ASSUME NEW s \in Sessions,
             \/ \E v \in Workers : BeginEnroll(s, v) \/ Upload(s, v)
             \/ \E k \in Kinds, v \in Workers : BeginLifecycle(s, k, v)
             \/ \E t \in Tokens : ReserveJoinToken(s, t) \/ EnrollWorker(s, t)
      PROVE  FALSE
    BY <1>3 DEF BeginEnroll, Upload, BeginLifecycle, ReserveJoinToken, EnrollWorker
<1>4. ASSUME NEW s \in Sessions,
             \/ PrepareIdentity(s) \/ MarkReady(s) \/ Transition(s) \/ PrepareRemoval(s)
             \/ RereadForRemoval(s) \/ RevokeOnController(s) \/ MarkRemovalPeersRevoked(s)
             \/ Remove(s) \/ ReadBack(s) \/ ControllerMesh(s) \/ Install(s) \/ PublicationDone(s)
             \/ RevokeRemovedWorker(s) \/ CompleteRemoval(s) \/ ExpireReservation(s) \/ Abort(s)
      PROVE  FALSE
    BY <1>4 DEF PrepareIdentity, MarkReady, Transition, PrepareRemoval, RereadForRemoval,
                RevokeOnController, MarkRemovalPeersRevoked, Remove, ReadBack, ControllerMesh,
                Install, PublicationDone, RevokeRemovedWorker, CompleteRemoval,
                ExpireReservation, Abort
<1>5. ASSUME NEW s \in Sessions, SetDeny(s) PROVE FALSE
    BY <1>5 DEF SetDeny
<1>6. ASSUME NEW s \in Sessions, ClearDeny(s) PROVE cmd[s].node = w
    BY <1>6 DEF ClearDeny
<1> QED BY <1>1, <1>2, <1>3, <1>4, <1>5, <1>6 DEF Next, Session

\* The latch is cleared only on a node whose membership and whose own inventory
\* say schedulable, when commands run one at a time.
THEOREM LatchClearedWhenAttested == Serial => (Spec => ClearedWhenAttested)
<1> SUFFICES ASSUME Serial PROVE Spec => ClearedWhenAttested
    OBVIOUS
<1> DEFINE Inv == Typed /\ LatchInv /\ AttestInv
<1>1. Init => Inv
    BY TypeInit DEF Init, LatchInv, AttestInv, Attests, TakenOut, Nobody, Idle
<1>2. Inv /\ [Next]_vars => Inv'
    BY TypeNext, LatchNext, AttestNext
<1>3. Inv /\ [Next]_vars =>
          [\A w \in Workers : latch[w] /\ ~latch'[w] =>
               members[w] = "schedulable" /\ inv[w] # None /\ inv[w][w] = "schedulable"]_vars
    <2> SUFFICES ASSUME Inv, [Next]_vars, NEW w \in Workers, latch[w], ~latch'[w]
                 PROVE  members[w] = "schedulable" /\ inv[w] # None /\ inv[w][w] = "schedulable"
        OBVIOUS
    <2>1. PICK s \in Sessions : ClearDeny(s) /\ cmd[s].node = w
        BY LatchFrame DEF Typed, TypeOK
    <2>2. cmd[s].pc = "clear" /\ cmd[s].kind = "schedulable"
        BY <2>1 DEF ClearDeny, Typed, PcKind, Coherent
    <2> QED BY <2>1, <2>2 DEF LatchInv, AttestInv, Attests, Attested
<1> QED BY <1>1, <1>2, <1>3, PTL DEF Spec, ClearedWhenAttested

-----------------------------------------------------------------------------
(* Publication and removal, when commands run one at a time.               *)

Late == {"target", "mesh", "others", "clear", "cleanup", "complete"}

\* The last publication has reached v.
Current(v) == inv[v] = members /\ peers[v] \subseteq Active(members)

\* How far the publication of a command has come.
Publishes(c) ==
    /\ c.pc \in Late => ctlInv = members /\ c.seen = members
    /\ c.pc = "target" =>
           \A v \in ({c.node} \cap Active(members)) \ (c.todo \cup {c.dest}) : Current(v)
    /\ c.pc = "mesh" /\ c.kind # "enroll" => \A v \in {c.node} \cap Active(members) : Current(v)
    /\ c.pc = "others" => \A v \in Active(members) \ (c.todo \cup {c.dest}) : Current(v)
    /\ c.pc \in {"clear", "cleanup", "complete"} => \A v \in Active(members) : Current(v)
    /\ c.pc \in {"others", "clear", "cleanup", "complete"} => ctlPeers \subseteq Active(members)
PublishInv == \A s \in Sessions : Publishes(cmd[s])

\* A removal publishes, cleans up and completes only after the tombstone.
Removes(c) ==
    /\ c.phase = "cleanup-target" => members[c.node] = "removed"
    /\ c.kind = "remove" /\ c.pc \in {"read"} \cup Late => members[c.node] = "removed"
    /\ c.pc = "complete" => meshKey[c.node] = "deleted" /\ ~takod[c.node]
RemoveInv == \A s \in Sessions : Removes(cmd[s])

\* A worker before its enrollment, and after its removal is forgotten: no
\* inventory that is still to be installed brings it back.
Forgotten(w) == members[w] = "removed" /\ removal[w] = "none"
Unknown(w) ==
    ctlInv[w] = "absent" /\ peers[w] = {} /\ \A s \in Sessions : cmd[s].payload[w] = "absent"
Isolated(w) ==
    /\ meshKey[w] = "deleted" /\ ~takod[w] /\ w \notin ctlPeers /\ ctlInv[w] = "removed"
    /\ \A v \in Active(members) : w \notin peers[v]
    /\ \A s \in Sessions : cmd[s].dest # None => cmd[s].payload[w] = "removed"
FateInv ==
    \A w \in Workers : /\ removal[w] = "cleanup-target" => members[w] = "removed"
                       /\ members[w] = "absent" => Unknown(w)
                       /\ Forgotten(w) => Isolated(w)

\* What a command carries to a worker after a step.
Carries(u) ==
    \/ cmd'[u].dest = None /\ cmd'[u].payload = Nobody
    \/ cmd'[u].dest \in {cmd[u].dest, None} /\ cmd'[u].payload = cmd[u].payload
    \/ cmd'[u].payload = ctlInv

\* Steps that neither install an inventory nor complete a removal.
LEMMA FateStep ==
    ASSUME Typed, FateInv, members' \in Inventory, cmd' \in [Sessions -> Command],
           \A w \in Workers : /\ members'[w] = "absent" => members[w] = "absent"
                              /\ members[w] = "removed" => members'[w] = "removed"
                              /\ removal'[w] = "cleanup-target" => members'[w] = "removed"
                              /\ Forgotten(w)' => Forgotten(w)
                              /\ meshKey[w] = "deleted" => meshKey'[w] = "deleted"
                              /\ takod'[w] => takod[w]
                              /\ peers'[w] \subseteq peers[w],
           ctlInv' \in {ctlInv, members'}, ctlPeers' \subseteq ctlPeers \cup Active(ctlInv),
           \A u \in Sessions : Carries(u)
    PROVE  FateInv'
<1> SUFFICES ASSUME NEW w \in Workers
             PROVE  /\ removal'[w] = "cleanup-target" => members'[w] = "removed"
                    /\ members'[w] = "absent" => Unknown(w)'
                    /\ Forgotten(w)' => Isolated(w)'
    BY DEF FateInv, Forgotten, Unknown, Isolated
<1>1. ASSUME members'[w] = "absent" PROVE Unknown(w)'
    <2>1. members[w] = "absent" /\ Unknown(w)
        BY <1>1 DEF FateInv
    <2>2. ctlInv'[w] = "absent" /\ peers'[w] = {}
        BY <1>1, <2>1 DEF Unknown
    <2>3. \A u \in Sessions : cmd'[u].payload[w] = "absent"
        BY <2>1 DEF Unknown, Carries, Nobody
    <2> QED BY <2>2, <2>3 DEF Unknown
<1>2. ASSUME Forgotten(w)' PROVE Isolated(w)'
    <2>1. Forgotten(w) /\ Isolated(w) /\ members'[w] = "removed"
        BY <1>2 DEF FateInv, Forgotten
    <2>2. meshKey'[w] = "deleted" /\ ~takod'[w] /\ w \notin ctlPeers' /\ ctlInv'[w] = "removed"
        BY <2>1 DEF Isolated, Active
    <2>3. ASSUME NEW v \in Active(members') PROVE w \notin peers'[v]
        <3>1. v \in Workers /\ members'[v] \notin {"absent", "removed"}
            BY <2>3 DEF Active
        <3>2. CASE members[v] = "absent"
            BY <3>1, <3>2 DEF FateInv, Unknown
        <3>3. CASE members[v] # "absent"
            BY <2>1, <3>1, <3>3 DEF Isolated, Active
        <3> QED BY <3>2, <3>3
    <2>4. \A u \in Sessions : cmd'[u].dest # None => cmd'[u].payload[w] = "removed"
        BY <2>1 DEF Isolated, Carries
    <2> QED BY <2>2, <2>3, <2>4 DEF Isolated, Active
<1> QED BY <1>1, <1>2

\* The removal resumes at a late step only when the tombstone is committed.
LEMMA ResumeSteps ==
    \A p \in RemovalPhase :
        /\ ResumeAt(p) \in {"prepare", "revokeController", "removeMember", "read"}
        /\ ResumeAt(p) = "read" => p = "cleanup-target"
BY DEF RemovalPhase, ResumeAt

LEMMA IdleFields ==
    /\ Idle \in Command /\ Idle.pc = "idle" /\ Idle.kind = "enroll" /\ Idle.phase = "none"
    /\ Idle.dest = None /\ Idle.payload = Nobody
BY DEF Idle, Command, Steps, Kinds, RemovalPhase, Nobody, Inventory, Lifecycle

\* Steps that leave the membership file and the workers' meshes alone.
LEMMA FateKept ==
    ASSUME Typed, Typed', FateInv, UNCHANGED <<members, removal, peers, takod>>,
           \A w \in Workers : meshKey[w] = "deleted" => meshKey'[w] = "deleted",
           ctlInv' \in {ctlInv, members}, ctlPeers' \subseteq ctlPeers \cup Active(ctlInv),
           \A u \in Sessions : Carries(u)
    PROVE  FateInv'
<1>1. members' \in Inventory /\ cmd' \in [Sessions -> Command]
    BY DEF Typed, TypeOK
<1>2. \A w \in Workers : /\ removal'[w] = "cleanup-target" => members'[w] = "removed"
                         /\ Forgotten(w)' => Forgotten(w)
    BY DEF FateInv, Forgotten
<1> QED BY <1>1, <1>2, FateStep

SerialInv == Typed /\ LatchInv /\ AttestInv /\ PublishInv /\ RemoveInv /\ FateInv

\* The steps of one command up to its publication.
LEMMA EarlySteps ==
    ASSUME Serial, SerialInv, Typed', [Next]_vars, NEW s \in Sessions,
           \/ \E w \in Workers : BeginEnroll(s, w)
           \/ \E k \in Kinds, w \in Workers : BeginLifecycle(s, k, w)
           \/ \E t \in Tokens : ReserveJoinToken(s, t)
           \/ PrepareIdentity(s) \/ SetDeny(s) \/ RereadForRemoval(s) \/ RevokeOnController(s)
           \/ Abort(s) \/ ClearDeny(s)
    PROVE  PublishInv' /\ RemoveInv' /\ FateInv'
<1> USE DEF store, controller, worker, ReconcileInventory
<1> DEFINE c == cmd[s]
           d == cmd'[s]
<1>0. /\ c \in Command /\ Coherent(c) /\ cmd \in [Sessions -> Command] /\ members \in Inventory
      /\ Attests(c) /\ Publishes(c) /\ Removes(c) /\ Typed /\ FateInv
      /\ removal \in [Workers -> RemovalPhase] /\ c.phase \in RemovalPhase
    BY DEF SerialInv, Typed, TypeOK, PcKind, AttestInv, PublishInv, RemoveInv, Command
<1>s. \A u \in Sessions : u = s
    BY DEF Serial
<1>i. Idle.pc = "idle" /\ Idle.kind = "enroll" /\ Idle.phase = "none" /\ Idle.dest = None
      /\ Idle.payload = Nobody
    BY IdleFields
<1>p. ASSUME d.pc \notin Late PROVE PublishInv'
    BY <1>p, <1>s DEF PublishInv, Publishes, Late
<1>r. ASSUME d.pc \notin Late, d.phase = "cleanup-target" => members'[d.node] = "removed",
             d.kind = "remove" /\ d.pc = "read" => members'[d.node] = "removed"
      PROVE  RemoveInv'
    BY <1>r, <1>s DEF RemoveInv, Removes, Late
<1>f. ASSUME UNCHANGED <<members, removal, peers, takod>>,
             \A w \in Workers : meshKey[w] = "deleted" => meshKey'[w] = "deleted",
             ctlInv' \in {ctlInv, members}, ctlPeers' \subseteq ctlPeers \cup Active(ctlInv),
             Carries(s)
      PROVE  FateInv'
    BY <1>f, <1>0, <1>s, FateKept
<1>1. ASSUME NEW w \in Workers, BeginEnroll(s, w) PROVE PublishInv' /\ RemoveInv' /\ FateInv'
    <2>1. d.pc \in {"identity", "reserve"} /\ d.phase = "none" /\ d.dest = None /\ d.payload = Nobody
        BY <1>1, <1>0 DEF BeginEnroll, Continue, Idle
    <2> QED BY <1>1, <1>p, <1>r, <1>f, <2>1 DEF BeginEnroll, Late, Carries
<1>2. ASSUME NEW k \in Kinds, NEW w \in Workers, BeginLifecycle(s, k, w)
      PROVE  PublishInv' /\ RemoveInv' /\ FateInv'
    <2>1. /\ d.pc = FirstStep(k, w) /\ d.kind = k /\ d.node = w /\ d.phase = removal[w]
          /\ d.dest = None /\ d.payload = Nobody
        BY <1>2, <1>0 DEF BeginLifecycle, Continue, Idle
    <2>2. removal[w] \in RemovalPhase
        BY <1>0
    <2>3. /\ d.pc \in {"latch", "store", "prepare", "revokeController", "removeMember", "read"}
          /\ d.pc = "read" => removal[w] = "cleanup-target"
        BY <2>1, <2>2, ResumeSteps DEF FirstStep, StoreStep
    <2>4. removal[w] = "cleanup-target" => members[w] = "removed"
        BY <1>0 DEF FateInv
    <2>5. UNCHANGED <<store, ctlPeers, worker>> /\ ctlInv' = members
        BY <1>2 DEF BeginLifecycle
    <2> QED BY <1>p, <1>r, <1>f, <2>1, <2>3, <2>4, <2>5 DEF Late, Carries
<1>3. ASSUME NEW t \in Tokens, ReserveJoinToken(s, t) PROVE PublishInv' /\ RemoveInv' /\ FateInv'
    <2>1. d \in {[c EXCEPT !.pc = "identity", !.token = t], Idle}
        BY <1>3, <1>0 DEF ReserveJoinToken
    <2>2. c.dest = None /\ c.kind = "enroll"
        BY <1>3, <1>0 DEF ReserveJoinToken, Attests, Publishing, Coherent, EnrollSteps
    <2>3. /\ d.pc \in {"identity", "idle"} /\ d.dest = None /\ d.payload \in {c.payload, Nobody}
          /\ d.phase = "none" \/ (d.phase = c.phase /\ d.node = c.node)
        BY <2>1, <2>2, <1>0, <1>i DEF Command
    <2>4. UNCHANGED <<store, ctlPeers, worker>> /\ ctlInv' \in {ctlInv, members}
        BY <1>3 DEF ReserveJoinToken
    <2> QED BY <1>0, <1>p, <1>r, <1>f, <2>2, <2>3, <2>4 DEF Late, Carries, Removes
<1>4. ASSUME PrepareIdentity(s) PROVE PublishInv' /\ RemoveInv' /\ FateInv'
    <2> DEFINE e == [c EXCEPT !.pc = "first", !.todo = {c.node}]
               f == [c EXCEPT !.pc = "enroll"]
    <2>1. d \in {e, f}
        BY <1>4, <1>0 DEF PrepareIdentity, Goto, Continue
    <2>2. /\ d.pc \in {"first", "enroll"} /\ d.dest = c.dest /\ d.payload = c.payload
          /\ d.phase = c.phase /\ d.node = c.node
        BY <2>1, <1>0 DEF Command
    <2>3. UNCHANGED <<store, controller, inv, peers, latch, takod>>
          /\ meshKey' = [meshKey EXCEPT ![c.node] = IF @ = "none" THEN "held" ELSE @]
        BY <1>4 DEF PrepareIdentity
    <2>4. \A w \in Workers : meshKey[w] = "deleted" => meshKey'[w] = "deleted"
        BY <1>0, <2>3 DEF Typed, TypeOK
    <2> HIDE DEF e, f
    <2> QED BY <1>0, <1>p, <1>r, <1>f, <2>2, <2>3, <2>4 DEF Late, Carries, Removes
<1>5. ASSUME SetDeny(s) PROVE PublishInv' /\ RemoveInv' /\ FateInv'
    <2>1. /\ d.pc = StoreStep(c.kind, c.phase) /\ d.kind = c.kind /\ d.node = c.node
          /\ d.phase = c.phase /\ d.dest = c.dest /\ d.payload = c.payload
        BY <1>5, <1>0 DEF SetDeny, Goto, Continue, Command
    <2>2. /\ d.pc \in {"store", "prepare", "revokeController", "removeMember", "read"}
          /\ d.pc = "read" => c.phase = "cleanup-target"
        BY <1>0, <2>1, ResumeSteps DEF StoreStep
    <2>3. UNCHANGED <<store, controller, inv, peers, meshKey, takod>>
        BY <1>5 DEF SetDeny
    <2> QED BY <1>0, <1>p, <1>r, <1>f, <2>1, <2>2, <2>3 DEF Late, Carries, Removes
<1>6. ASSUME RereadForRemoval(s) PROVE PublishInv' /\ RemoveInv' /\ FateInv'
    <2>1. /\ d.pc = ResumeAt(c.phase) /\ d.kind = c.kind /\ d.node = c.node
          /\ d.phase = c.phase /\ d.dest = c.dest /\ d.payload = c.payload
        BY <1>6, <1>0 DEF RereadForRemoval, Continue, Command
    <2>2. /\ d.pc \in {"prepare", "revokeController", "removeMember", "read"}
          /\ d.pc = "read" => c.phase = "cleanup-target"
        BY <1>0, <2>1, ResumeSteps
    <2>3. UNCHANGED <<store, ctlPeers, worker>> /\ ctlInv' = members
        BY <1>6 DEF RereadForRemoval
    <2> QED BY <1>0, <1>p, <1>r, <1>f, <2>1, <2>2, <2>3 DEF Late, Carries, Removes
<1>7. ASSUME RevokeOnController(s) PROVE PublishInv' /\ RemoveInv' /\ FateInv'
    <2>1. /\ d.pc = "revoke" /\ d.node = c.node /\ d.phase = c.phase /\ d.dest = c.dest
          /\ d.payload = c.payload
        BY <1>7, <1>0 DEF RevokeOnController, Continue, Command
    <2>2. UNCHANGED <<store, ctlInv, worker>> /\ ctlPeers' \subseteq Active(ctlInv)
        BY <1>7 DEF RevokeOnController, MeshPeers
    <2> QED BY <1>0, <1>p, <1>r, <1>f, <2>1, <2>2 DEF Late, Carries, Removes
<1>8. ASSUME Abort(s) \/ ClearDeny(s) PROVE PublishInv' /\ RemoveInv' /\ FateInv'
    <2>1. d = Idle
        BY <1>8, <1>0 DEF Abort, ClearDeny, End, Continue
    <2>2. UNCHANGED <<store, controller, inv, peers, meshKey, takod>>
        BY <1>8 DEF Abort, ClearDeny
    <2> QED BY <1>i, <1>p, <1>r, <1>f, <2>1, <2>2 DEF Late, Carries
<1> QED BY <1>1, <1>2, <1>3, <1>4, <1>5, <1>6, <1>7, <1>8

\* The steps that write the membership file, but for the end of a removal.
LEMMA StoreSteps ==
    ASSUME Serial, SerialInv, Typed', [Next]_vars, NEW s \in Sessions,
           \/ \E t \in Tokens : EnrollWorker(s, t)
           \/ MarkReady(s) \/ Transition(s) \/ PrepareRemoval(s) \/ MarkRemovalPeersRevoked(s)
           \/ Remove(s)
    PROVE  PublishInv' /\ RemoveInv' /\ FateInv'
<1> USE DEF store, controller, worker, ReconcileInventory
<1> DEFINE c == cmd[s]
           d == cmd'[s]
<1>0. /\ c \in Command /\ Coherent(c) /\ cmd \in [Sessions -> Command] /\ members \in Inventory
      /\ Attests(c) /\ Publishes(c) /\ Removes(c) /\ Typed /\ FateInv
      /\ removal \in [Workers -> RemovalPhase] /\ c.phase \in RemovalPhase
    BY DEF SerialInv, Typed, TypeOK, PcKind, AttestInv, PublishInv, RemoveInv, Command
<1>s. \A u \in Sessions : u = s
    BY DEF Serial
<1>i. Idle.pc = "idle" /\ Idle.kind = "enroll" /\ Idle.phase = "none" /\ Idle.dest = None
      /\ Idle.payload = Nobody
    BY IdleFields
<1>p. ASSUME d.pc \notin Late PROVE PublishInv'
    BY <1>p, <1>s DEF PublishInv, Publishes, Late
<1>r. ASSUME d.pc \notin Late, d.phase = "cleanup-target" => members'[d.node] = "removed",
             d.kind = "remove" /\ d.pc = "read" => members'[d.node] = "removed"
      PROVE  RemoveInv'
    BY <1>r, <1>s DEF RemoveInv, Removes, Late
<1>t. \A w \in Workers : members[w] = "removed" => members'[w] = "removed"
    BY <1>0, TombstoneStep
<1>k. c.pc # "idle" => (c.phase = "cleanup-target" => members'[c.node] = "removed")
    BY <1>0, <1>t DEF Coherent, Removes
<1>f. ASSUME \A w \in Workers : /\ members'[w] = "absent" => members[w] = "absent"
                                /\ removal'[w] = "cleanup-target" => members'[w] = "removed"
                                /\ Forgotten(w)' => Forgotten(w),
             ctlInv' \in {ctlInv, members'}, UNCHANGED <<ctlPeers, worker>>, Carries(s)
      PROVE  FateInv'
    <2>1. members' \in Inventory /\ cmd' \in [Sessions -> Command]
        BY DEF Typed, TypeOK
    <2> QED BY <1>f, <1>0, <1>s, <1>t, <2>1, FateStep
<1>m. ASSUME UNCHANGED removal,
             \A w \in Workers : /\ members'[w] = "absent" => members[w] = "absent"
                                /\ members'[w] = "removed" => members[w] = "removed"
      PROVE  \A w \in Workers : /\ removal'[w] = "cleanup-target" => members'[w] = "removed"
                                /\ Forgotten(w)' => Forgotten(w)
    BY <1>m, <1>0, <1>t DEF FateInv, Forgotten
<1>1. ASSUME NEW t \in Tokens, EnrollWorker(s, t) PROVE PublishInv' /\ RemoveInv' /\ FateInv'
    <2> DEFINE e == [c EXCEPT !.pc = "first", !.todo = {c.node}, !.seen[c.node] = "joining",
                              !.token = None]
    <2>1. d \in {e, Idle}
        BY <1>1, <1>0 DEF EnrollWorker, Commit, Continue, End
    <2>2. /\ e.pc = "first" /\ e.dest = c.dest /\ e.payload = c.payload /\ e.node = c.node
          /\ e.phase = c.phase
        BY <1>0 DEF Command
    <2>3. c.pc = "enroll" /\ members' = [members EXCEPT ![c.node] = "joining"]
          /\ ctlInv' \in {ctlInv, members'} /\ UNCHANGED <<removal, ctlPeers, worker>>
        BY <1>1 DEF EnrollWorker, Commit
    <2>4. \A w \in Workers : /\ members'[w] = "absent" => members[w] = "absent"
                             /\ members'[w] = "removed" => members[w] = "removed"
        BY <1>0, <2>3 DEF Inventory
    <2> HIDE DEF e
    <2> QED BY <1>i, <1>p, <1>r, <1>k, <1>f, <1>m, <2>1, <2>2, <2>3, <2>4 DEF Late, Carries
<1>2. ASSUME MarkReady(s) PROVE PublishInv' /\ RemoveInv' /\ FateInv'
    <2> DEFINE e == [c EXCEPT !.pc = "read"]
    <2>1. d \in {e, Idle}
        BY <1>2, <1>0 DEF MarkReady, Commit, Goto, Continue, End
    <2>2. /\ e.pc = "read" /\ e.dest = c.dest /\ e.payload = c.payload /\ e.node = c.node
          /\ e.phase = c.phase /\ e.kind = c.kind
        BY <1>0 DEF Command
    <2>3. c.pc = "ready" /\ members' \in {members, [members EXCEPT ![c.node] = "ready"]}
          /\ ctlInv' \in {ctlInv, members'} /\ UNCHANGED <<removal, ctlPeers, worker>>
        BY <1>2 DEF MarkReady, Commit
    <2>4. \A w \in Workers : /\ members'[w] = "absent" => members[w] = "absent"
                             /\ members'[w] = "removed" => members[w] = "removed"
        BY <1>0, <2>3 DEF Inventory
    <2>5. c.kind = "enroll"
        BY <1>0, <2>3 DEF Coherent, EnrollSteps
    <2> HIDE DEF e
    <2> QED BY <1>i, <1>p, <1>r, <1>k, <1>f, <1>m, <2>1, <2>2, <2>3, <2>4, <2>5 DEF Late, Carries
<1>3. ASSUME Transition(s) PROVE PublishInv' /\ RemoveInv' /\ FateInv'
    <2> DEFINE e == [c EXCEPT !.pc = "read"]
    <2>1. d \in {e, Idle}
        BY <1>3, <1>0 DEF Transition, Commit, Continue, End
    <2>2. /\ e.pc = "read" /\ e.dest = c.dest /\ e.payload = c.payload /\ e.node = c.node
          /\ e.phase = c.phase /\ e.kind = c.kind
        BY <1>0 DEF Command
    <2>3. c.pc = "store" /\ members' = [members EXCEPT ![c.node] = To(c.kind)]
          /\ ctlInv' \in {ctlInv, members'} /\ UNCHANGED <<removal, ctlPeers, worker>>
        BY <1>3 DEF Transition, Commit
    <2>4. c.kind \in {"schedulable", "cordon", "drain"}
        BY <1>0, <2>3 DEF Coherent
    <2>5. To(c.kind) \notin {"absent", "removed"}
        BY <2>4 DEF To
    <2>6. \A w \in Workers : /\ members'[w] = "absent" => members[w] = "absent"
                             /\ members'[w] = "removed" => members[w] = "removed"
        BY <1>0, <2>3, <2>5 DEF Inventory
    <2> HIDE DEF e
    <2> QED BY <1>i, <1>p, <1>r, <1>k, <1>f, <1>m, <2>1, <2>2, <2>3, <2>4, <2>6 DEF Late, Carries
<1>4. ASSUME PrepareRemoval(s) PROVE PublishInv' /\ RemoveInv' /\ FateInv'
    <2> DEFINE p == IF removal[c.node] = "none" THEN "revoke-peers" ELSE removal[c.node]
               e == [c EXCEPT !.pc = "reread", !.phase = p]
    <2>1. d \in {e, Idle}
        BY <1>4, <1>0 DEF PrepareRemoval, Commit, Continue, End
    <2>2. e.pc = "reread" /\ e.dest = c.dest /\ e.payload = c.payload /\ e.node = c.node /\ e.phase = p
        BY <1>0 DEF Command
    <2>3. c.pc = "prepare" /\ members' = members /\ removal' = [removal EXCEPT ![c.node] = p]
          /\ ctlInv' \in {ctlInv, members'} /\ UNCHANGED <<ctlPeers, worker>>
        BY <1>4 DEF PrepareRemoval, Commit
    <2>4. c.node \in Workers /\ (p = "cleanup-target" => removal[c.node] = "cleanup-target")
          /\ p # "none"
        BY <1>0, <2>3 DEF Coherent
    <2>5. \A w \in Workers : /\ removal'[w] = "cleanup-target" => removal[w] = "cleanup-target"
                             /\ removal'[w] = "none" => removal[w] = "none"
        BY <1>0, <2>3, <2>4
    <2>6. \A w \in Workers : /\ removal'[w] = "cleanup-target" => members'[w] = "removed"
                             /\ Forgotten(w)' => Forgotten(w)
        BY <1>0, <2>3, <2>5 DEF FateInv, Forgotten
    <2>7. p = "cleanup-target" => members'[c.node] = "removed"
        BY <1>0, <2>3, <2>4 DEF FateInv
    <2> HIDE DEF e, p
    <2> QED BY <1>i, <1>p, <1>r, <1>f, <2>1, <2>2, <2>3, <2>6, <2>7 DEF Late, Carries
<1>5. ASSUME MarkRemovalPeersRevoked(s) PROVE PublishInv' /\ RemoveInv' /\ FateInv'
    <2> DEFINE e == [c EXCEPT !.pc = "removeMember"]
    <2>1. d \in {e, Idle}
        BY <1>5, <1>0 DEF MarkRemovalPeersRevoked, Commit, Continue, End
    <2>2. /\ e.pc = "removeMember" /\ e.dest = c.dest /\ e.payload = c.payload /\ e.node = c.node
          /\ e.phase = c.phase
        BY <1>0 DEF Command
    <2>3. /\ c.pc = "mark" /\ members' = members
          /\ removal' = [removal EXCEPT ![c.node] = IF @ = "revoke-peers" THEN "remove-membership" ELSE @]
          /\ ctlInv' \in {ctlInv, members'} /\ UNCHANGED <<ctlPeers, worker>>
        BY <1>5 DEF MarkRemovalPeersRevoked, Commit
    <2>4. \A w \in Workers : /\ removal'[w] = "cleanup-target" => removal[w] = "cleanup-target"
                             /\ removal'[w] = "none" => removal[w] = "none"
        BY <1>0, <2>3
    <2>5. \A w \in Workers : /\ removal'[w] = "cleanup-target" => members'[w] = "removed"
                             /\ Forgotten(w)' => Forgotten(w)
        BY <1>0, <2>3, <2>4 DEF FateInv, Forgotten
    <2> HIDE DEF e
    <2> QED BY <1>i, <1>p, <1>r, <1>k, <1>f, <2>1, <2>2, <2>3, <2>5 DEF Late, Carries
<1>6. ASSUME Remove(s) PROVE PublishInv' /\ RemoveInv' /\ FateInv'
    <2> DEFINE e == [c EXCEPT !.pc = "read"]
    <2>1. d \in {e, Idle}
        BY <1>6, <1>0 DEF Remove, Commit, Continue, End
    <2>2. /\ e.pc = "read" /\ e.dest = c.dest /\ e.payload = c.payload /\ e.node = c.node
          /\ e.phase = c.phase
        BY <1>0 DEF Command
    <2>3. /\ c.pc = "removeMember" /\ members' = [members EXCEPT ![c.node] = "removed"]
          /\ ctlInv' \in {ctlInv, members'} /\ UNCHANGED <<ctlPeers, worker>>
          /\ \/ members[c.node] = "removed" /\ removal' = removal
             \/ removal' = [removal EXCEPT ![c.node] = "cleanup-target"]
        BY <1>6 DEF Remove, Commit
    <2>4. c.node \in Workers
        BY <1>0, <2>3 DEF Coherent
    <2>5. /\ members'[c.node] = "removed"
          /\ \A w \in Workers \ {c.node} : members'[w] = members[w] /\ removal'[w] = removal[w]
          /\ removal'[c.node] = "none" => removal[c.node] = "none" /\ members[c.node] = "removed"
        BY <1>0, <2>3, <2>4 DEF Inventory
    <2>6. \A w \in Workers : /\ members'[w] = "absent" => members[w] = "absent"
                             /\ removal'[w] = "cleanup-target" => members'[w] = "removed"
                             /\ Forgotten(w)' => Forgotten(w)
        BY <1>0, <2>5 DEF FateInv, Forgotten
    <2> HIDE DEF e
    <2> QED BY <1>i, <1>p, <1>r, <1>k, <1>f, <2>1, <2>2, <2>3, <2>5, <2>6 DEF Late, Carries
<1> QED BY <1>1, <1>2, <1>3, <1>4, <1>5, <1>6

\* The publication loop of a command.
LEMMA PublishSteps ==
    ASSUME Serial, SerialInv, Typed', [Next]_vars, NEW s \in Sessions,
           \/ ReadBack(s) \/ ControllerMesh(s) \/ PublicationDone(s) \/ ExpireReservation(s)
           \/ \E w \in Workers : Upload(s, w)
    PROVE  PublishInv' /\ RemoveInv' /\ FateInv'
<1> USE DEF store, controller, worker, ReconcileInventory
<1> DEFINE c == cmd[s]
           d == cmd'[s]
<1>0. /\ c \in Command /\ Coherent(c) /\ cmd \in [Sessions -> Command] /\ members \in Inventory
      /\ Attests(c) /\ Publishes(c) /\ Removes(c) /\ Typed /\ FateInv
      /\ removal \in [Workers -> RemovalPhase] /\ c.phase \in RemovalPhase
    BY DEF SerialInv, Typed, TypeOK, PcKind, AttestInv, PublishInv, RemoveInv, Command
<1>s. \A u \in Sessions : u = s
    BY DEF Serial
<1>p. ASSUME Publishes(cmd[s])', Removes(cmd[s])' PROVE PublishInv' /\ RemoveInv'
    BY <1>p, <1>s DEF PublishInv, RemoveInv
<1>f. ASSUME UNCHANGED <<members, removal, worker>>,
             ctlInv' \in {ctlInv, members}, ctlPeers' \subseteq ctlPeers \cup Active(ctlInv),
             Carries(s)
      PROVE  FateInv'
    BY <1>f, <1>0, <1>s, FateKept
<1>1. ASSUME ReadBack(s) PROVE PublishInv' /\ RemoveInv' /\ FateInv'
    <2>1. c.node \in Workers /\ c.dest = None /\ c.pc = "read"
        BY <1>1, <1>0 DEF ReadBack, Coherent, Attests, Publishing
    <2>2. /\ d.seen = members /\ d.phase = removal[c.node] /\ d.kind = c.kind /\ d.node = c.node
          /\ d.pc = (IF c.kind = "enroll" THEN "mesh" ELSE "target") /\ d.dest = c.dest
          /\ d.todo = (IF c.kind = "enroll" THEN {} ELSE {c.node} \cap Active(members))
          /\ d.payload = c.payload
        BY <1>1, <1>0 DEF ReadBack, Continue, Command
    <2>3. UNCHANGED <<store, ctlPeers, worker>> /\ ctlInv' = members
        BY <1>1 DEF ReadBack
    <2>4. Publishes(cmd[s])'
        BY <2>2, <2>3 DEF Publishes, Late
    <2>5. removal[c.node] = "cleanup-target" => members[c.node] = "removed"
        BY <1>0, <2>1 DEF FateInv
    <2>6. Removes(cmd[s])'
        BY <1>0, <2>1, <2>2, <2>3, <2>5 DEF Removes, Late
    <2> QED BY <1>p, <1>f, <2>2, <2>3, <2>4, <2>6 DEF Carries
<1>2. ASSUME ControllerMesh(s) PROVE PublishInv' /\ RemoveInv' /\ FateInv'
    <2> DEFINE skipped == IF c.kind = "enroll" THEN {} ELSE {c.node}
    <2>1. /\ d.pc = "others" /\ d.todo = Active(c.seen) \ skipped /\ d.kind = c.kind
          /\ d.node = c.node /\ d.dest = c.dest /\ d.seen = c.seen /\ d.phase = c.phase
          /\ d.payload = c.payload
        BY <1>2, <1>0 DEF ControllerMesh, Continue, Command
    <2>2. c.pc = "mesh" /\ ctlPeers' \subseteq Active(ctlInv) /\ UNCHANGED <<store, ctlInv, worker>>
        BY <1>2 DEF ControllerMesh, MeshPeers
    <2>3. ctlInv = members /\ c.seen = members
        BY <1>0, <2>2 DEF Publishes, Late
    <2>4. ASSUME NEW v \in Active(members) \ (d.todo \cup {d.dest}) PROVE Current(v)
        <3>1. v = c.node /\ c.kind # "enroll"
            BY <2>1, <2>3, <2>4
        <3> QED BY <1>0, <2>2, <2>4, <3>1 DEF Publishes
    <2>5. Publishes(cmd[s])'
        BY <2>1, <2>2, <2>3, <2>4 DEF Publishes, Current, Late
    <2>6. Removes(cmd[s])'
        BY <1>0, <2>1, <2>2 DEF Removes, Late
    <2> QED BY <1>p, <1>f, <2>1, <2>2, <2>5, <2>6 DEF Carries
<1>3. ASSUME NEW w \in Workers, Upload(s, w) PROVE PublishInv' /\ RemoveInv' /\ FateInv'
    <2>1. /\ d.pc = c.pc /\ d.kind = c.kind /\ d.node = c.node /\ d.dest = w /\ d.phase = c.phase
          /\ d.todo = c.todo \ {w} /\ d.payload = ctlInv /\ d.seen = c.seen
        BY <1>3, <1>0 DEF Upload, Continue, Command
    <2>2. /\ UNCHANGED <<store, controller, worker>> /\ w \in c.todo /\ c.pc \in Publishing
          /\ c.dest = None
        BY <1>3 DEF Upload
    <2>3. d.todo \cup {d.dest} = c.todo
        BY <2>1, <2>2
    <2>a. Active(members) \subseteq Workers /\ None \notin Workers
        BY NodeAssumption DEF Active
    <2>b. \A v \in Active(members) \ c.todo : v \notin c.todo \cup {c.dest}
        BY <2>2, <2>a
    <2>c. \A v \in Workers : Current(v) => Current(v)'
        BY <2>2 DEF Current
    <2>d. c.pc = "target" =>
              \A v \in ({c.node} \cap Active(members)) \ (d.todo \cup {d.dest}) : Current(v)'
        BY <1>0, <2>3, <2>a, <2>b, <2>c DEF Publishes
    <2>e. c.pc = "others" => \A v \in Active(members) \ (d.todo \cup {d.dest}) : Current(v)'
        BY <1>0, <2>3, <2>a, <2>b, <2>c DEF Publishes
    <2>4. Publishes(cmd[s])'
        BY <1>0, <2>1, <2>2, <2>d, <2>e DEF Publishes, Late, Publishing
    <2>5. Removes(cmd[s])'
        BY <1>0, <2>1, <2>2 DEF Removes, Late
    <2> QED BY <1>p, <1>f, <2>1, <2>2, <2>4, <2>5 DEF Carries
<1>4. ASSUME PublicationDone(s) PROVE PublishInv' /\ RemoveInv' /\ FateInv'
    <2>1. \/ d = Idle
          \/ /\ d.pc = AfterLoop(c) /\ d.kind = c.kind /\ d.node = c.node /\ d.dest = c.dest
             /\ d.todo = c.todo /\ d.payload = c.payload /\ d.seen = c.seen /\ d.phase = c.phase
        BY <1>4, <1>0 DEF PublicationDone, Goto, Continue, End, Command
    <2>2. /\ UNCHANGED <<store, controller, worker>> /\ c.dest = None /\ c.todo = {}
          /\ c.pc \in Publishing
        BY <1>4 DEF PublicationDone
    <2>3. /\ AfterLoop(c) \in {"mark", "ready", "mesh", "clear", "cleanup", "idle"}
          /\ AfterLoop(c) = "mesh" => c.pc = "target"
          /\ AfterLoop(c) \in {"clear", "cleanup"} => c.pc = "others"
        BY <2>2 DEF Publishing, AfterLoop, AfterOthers
    <2>4. FateInv'
        BY <1>f, <2>1, <2>2, IdleFields DEF Carries
    <2>5. CASE d = Idle
        <3>1. Publishes(cmd[s])' /\ Removes(cmd[s])'
            BY <2>5, IdleFields DEF Publishes, Removes, Late
        <3> QED BY <1>p, <2>4, <3>1
    <2>6. CASE /\ d.pc = AfterLoop(c) /\ d.kind = c.kind /\ d.node = c.node
               /\ d.seen = c.seen /\ d.phase = c.phase
        <3>1. None \notin Workers
            BY NodeAssumption
        <3>2. Active(members) \ (c.todo \cup {c.dest}) = Active(members)
            BY <2>2, <3>1 DEF Active
        <3>3. c.pc = "others" => \A v \in Active(members) : Current(v)
            BY <1>0, <3>2 DEF Publishes
        <3>4. c.pc = "target" => \A v \in {c.node} \cap Active(members) : Current(v)
            BY <1>0, <2>2, <3>1 DEF Publishes, Active
        <3>5. Publishes(cmd[s])'
            BY <1>0, <2>2, <2>3, <2>6, <3>3, <3>4 DEF Publishes, Current, Late
        <3>6. Removes(cmd[s])'
            BY <1>0, <2>2, <2>3, <2>6 DEF Removes, Late
        <3> QED BY <1>p, <2>4, <3>5, <3>6
    <2> QED BY <2>1, <2>5, <2>6
<1>5. ASSUME ExpireReservation(s) PROVE PublishInv' /\ RemoveInv' /\ FateInv'
    <2>1. /\ d.pc = c.pc /\ d.kind = c.kind /\ d.node = c.node /\ d.dest = c.dest
          /\ d.todo = c.todo /\ d.payload = c.payload /\ d.seen = c.seen /\ d.phase = c.phase
        BY <1>5, <1>0 DEF ExpireReservation, Continue, Command
    <2>2. UNCHANGED <<store, controller, worker>>
        BY <1>5 DEF ExpireReservation
    <2>3. Publishes(cmd[s])' /\ Removes(cmd[s])'
        BY <1>0, <2>1, <2>2 DEF Publishes, Current, Removes, Late
    <2> QED BY <1>p, <1>f, <2>1, <2>2, <2>3 DEF Carries
<1> QED BY <1>1, <1>2, <1>3, <1>4, <1>5

\* The script on a worker, and the last steps of a removal.
LEMMA WorkerSteps ==
    ASSUME Serial, SerialInv, Typed', [Next]_vars, NEW s \in Sessions,
           Install(s) \/ RevokeRemovedWorker(s) \/ CompleteRemoval(s)
    PROVE  PublishInv' /\ RemoveInv' /\ FateInv'
<1> USE DEF store, controller, worker, ReconcileInventory
<1> DEFINE c == cmd[s]
           d == cmd'[s]
<1>0. /\ c \in Command /\ Coherent(c) /\ cmd \in [Sessions -> Command] /\ members \in Inventory
      /\ Attests(c) /\ Publishes(c) /\ Removes(c) /\ Typed /\ FateInv
      /\ removal \in [Workers -> RemovalPhase] /\ c.phase \in RemovalPhase
      /\ inv \in [Workers -> Inventory \cup {None}] /\ peers \in [Workers -> SUBSET Workers]
      /\ takod \in [Workers -> BOOLEAN] /\ meshKey \in [Workers -> {"none", "held", "deleted"}]
    BY DEF SerialInv, Typed, TypeOK, PcKind, AttestInv, PublishInv, RemoveInv, Command
<1>s. \A u \in Sessions : u = s
    BY DEF Serial
<1>p. ASSUME Publishes(cmd[s])', Removes(cmd[s])' PROVE PublishInv' /\ RemoveInv'
    BY <1>p, <1>s DEF PublishInv, RemoveInv
<1>i. ASSUME d = Idle PROVE PublishInv' /\ RemoveInv'
    <2>1. Publishes(cmd[s])' /\ Removes(cmd[s])'
        BY <1>i, IdleFields DEF Publishes, Removes, Late
    <2> QED BY <1>p, <2>1
<1>1. ASSUME Install(s) PROVE PublishInv' /\ RemoveInv' /\ FateInv'
    <2> DEFINE w == c.dest
               e == [c EXCEPT !.dest = None, !.payload = Nobody]
    <2>1. /\ w # None /\ w \in Workers /\ inv' = [inv EXCEPT ![w] = c.payload]
          /\ UNCHANGED <<store, controller, latch, meshKey>>
        BY <1>1, <1>0 DEF Install, Command
    <2>2. \/ /\ Installable(c) /\ peers' = [peers EXCEPT ![w] = MeshPeers(c.payload, w, Excluded(c))]
             /\ takod' = [takod EXCEPT ![w] = TRUE] /\ d = e
          \/ d = Idle /\ UNCHANGED <<peers, takod>>
        BY <1>1, <1>0 DEF Install, Continue, End
    <2>3. /\ e.pc = c.pc /\ e.kind = c.kind /\ e.node = c.node /\ e.todo = c.todo
          /\ e.seen = c.seen /\ e.phase = c.phase /\ e.dest = None /\ e.payload = Nobody
        BY <1>0 DEF Command
    <2>4. c.pc \in Publishing
        BY <1>0, <2>1 DEF Attests
    <2> HIDE DEF e
    <2>5. d.dest = None /\ d.payload = Nobody
        BY <2>2, <2>3, IdleFields
    <2>6. \A v \in Workers :
              \/ peers'[v] = peers[v] /\ takod'[v] = takod[v]
              \/ v = w /\ w \in Active(c.payload) /\ peers'[v] \subseteq Active(c.payload)
        BY <1>0, <2>1, <2>2 DEF Installable, MeshPeers
    <2>7. FateInv'
        <3> SUFFICES ASSUME NEW x \in Workers
                     PROVE  /\ removal'[x] = "cleanup-target" => members'[x] = "removed"
                            /\ members'[x] = "absent" => Unknown(x)'
                            /\ Forgotten(x)' => Isolated(x)'
            BY DEF FateInv, Forgotten, Unknown, Isolated
        <3>1. removal'[x] = "cleanup-target" => members'[x] = "removed"
            BY <1>0, <2>1 DEF FateInv
        <3>2. ASSUME members'[x] = "absent" PROVE Unknown(x)'
            <4>1. Unknown(x) /\ c.payload[x] = "absent"
                BY <1>0, <2>1, <3>2 DEF FateInv, Unknown
            <4>2. peers'[x] = {}
                BY <2>6, <4>1 DEF Unknown, Active
            <4> QED BY <1>s, <2>1, <2>5, <4>1, <4>2 DEF Unknown, Nobody
        <3>3. ASSUME Forgotten(x)' PROVE Isolated(x)'
            <4>1. Isolated(x) /\ c.payload[x] = "removed"
                BY <1>0, <2>1, <3>3 DEF FateInv, Forgotten, Isolated
            <4>2. ~takod'[x]
                BY <2>6, <4>1 DEF Isolated, Active
            <4>3. \A v \in Active(members') : x \notin peers'[v]
                BY <2>1, <2>6, <4>1 DEF Isolated, Active
            <4> QED BY <1>s, <2>1, <2>5, <4>1, <4>2, <4>3 DEF Isolated
        <3> QED BY <3>1, <3>2, <3>3
    <2>8. CASE Installable(c) /\ d = e /\ peers' = [peers EXCEPT ![w] = MeshPeers(c.payload, w, Excluded(c))]
        <3>1. c.pc \in {"target", "others"} => c.payload = members
            BY <1>0, <2>1 DEF Attests
        <3>m. MeshPeers(c.payload, w, Excluded(c)) \subseteq Active(c.payload)
            BY DEF MeshPeers
        <3>2. c.pc \in {"target", "others"} => inv'[w] = members' /\ peers'[w] \subseteq Active(members')
            BY <1>0, <2>1, <2>8, <3>1, <3>m
        <3>3. \A v \in Workers \ {w} : Current(v) => Current(v)'
            BY <1>0, <2>1, <2>8 DEF Current, Active
        <3>4. Active(members) \subseteq Workers
            BY DEF Active
        <3>5. ASSUME c.pc = "others", NEW v \in Active(members) \ c.todo PROVE Current(v)'
            <4>1. CASE v = w BY <3>2, <3>5, <4>1 DEF Current
            <4>2. CASE v # w BY <1>0, <3>3, <3>4, <3>5, <4>2 DEF Publishes
            <4> QED BY <4>1, <4>2
        <3>6. ASSUME c.pc = "target", NEW v \in ({c.node} \cap Active(members)) \ c.todo
              PROVE  Current(v)'
            <4>1. CASE v = w BY <3>2, <3>6, <4>1 DEF Current
            <4>2. CASE v # w BY <1>0, <3>3, <3>4, <3>6, <4>2 DEF Publishes
            <4> QED BY <4>1, <4>2
        <3>7. Publishes(cmd[s])'
            BY <1>0, <2>1, <2>3, <2>4, <2>8, <3>5, <3>6 DEF Publishes, Late, Publishing
        <3>8. Removes(cmd[s])'
            BY <1>0, <2>1, <2>3, <2>4, <2>8 DEF Removes, Late, Publishing
        <3> QED BY <1>p, <2>7, <3>7, <3>8
    <2>9. CASE d = Idle
        BY <1>i, <2>7, <2>9
    <2> QED BY <2>2, <2>8, <2>9
<1>2. ASSUME RevokeRemovedWorker(s) PROVE PublishInv' /\ RemoveInv' /\ FateInv'
    <2> DEFINE w == c.node
               e == [c EXCEPT !.pc = "complete"]
    <2>1. /\ c.pc = "cleanup" /\ inv' = [inv EXCEPT ![w] = ctlInv]
          /\ UNCHANGED <<store, controller, latch>>
        BY <1>2 DEF RevokeRemovedWorker
    <2>2. \/ /\ takod' = [takod EXCEPT ![w] = FALSE] /\ peers' = [peers EXCEPT ![w] = {}]
             /\ meshKey' = [meshKey EXCEPT ![w] = "deleted"] /\ d = e
          \/ d = Idle /\ UNCHANGED <<takod, peers, meshKey>>
        BY <1>2, <1>0 DEF RevokeRemovedWorker, Goto, Continue, End
    <2>3. /\ e.pc = "complete" /\ e.kind = c.kind /\ e.node = c.node /\ e.seen = c.seen
          /\ e.phase = c.phase /\ e.dest = c.dest /\ e.payload = c.payload
        BY <1>0 DEF Command
    <2>4. w \in Workers /\ members[w] = "removed" /\ c.kind = "remove"
        BY <1>0, <2>1 DEF Coherent, Removes, RemoveSteps, Late
    <2> HIDE DEF e
    <2>5. \A v \in Workers : /\ meshKey[v] = "deleted" => meshKey'[v] = "deleted"
                             /\ takod'[v] => takod[v]
                             /\ peers'[v] \subseteq peers[v]
        BY <1>0, <2>2
    <2>6. FateInv'
        <3>1. members' \in Inventory /\ cmd' \in [Sessions -> Command]
            BY DEF Typed, TypeOK
        <3>2. \A u \in Sessions : Carries(u)
            BY <1>s, <2>2, <2>3, IdleFields DEF Carries
        <3>3. \A v \in Workers : /\ removal'[v] = "cleanup-target" => members'[v] = "removed"
                                 /\ Forgotten(v)' => Forgotten(v)
            BY <1>0, <2>1 DEF FateInv, Forgotten
        <3> QED BY <1>0, <2>1, <2>5, <3>1, <3>2, <3>3, FateStep
    <2>7. CASE d = e /\ takod' = [takod EXCEPT ![w] = FALSE] /\ meshKey' = [meshKey EXCEPT ![w] = "deleted"]
        <3>1. \A v \in Active(members) : v \in Workers /\ v # w
            BY <2>4 DEF Active
        <3>2. \A v \in Active(members) : Current(v)'
            BY <1>0, <2>1, <2>2, <3>1 DEF Publishes, Current
        <3>3. Publishes(cmd[s])'
            BY <1>0, <2>1, <2>3, <2>7, <3>2 DEF Publishes, Late
        <3>4. takod'[w] = FALSE /\ meshKey'[w] = "deleted"
            BY <1>0, <2>4, <2>7
        <3>5. Removes(cmd[s])'
            BY <1>0, <2>1, <2>3, <2>4, <2>7, <3>4 DEF Removes, Late
        <3> QED BY <1>p, <2>6, <3>3, <3>5
    <2>8. CASE d = Idle
        BY <1>i, <2>6, <2>8
    <2> QED BY <2>2, <2>7, <2>8
<1>3. ASSUME CompleteRemoval(s) PROVE PublishInv' /\ RemoveInv' /\ FateInv'
    <2> DEFINE w == c.node
    <2>1. /\ c.pc = "complete" /\ removal' = [removal EXCEPT ![w] = "none"] /\ members' = members
          /\ ctlInv' \in {ctlInv, members} /\ UNCHANGED <<ctlPeers, worker>> /\ d = Idle
        BY <1>3, <1>0 DEF CompleteRemoval, Commit, Continue, End
    <2>2. /\ w \in Workers /\ members[w] = "removed" /\ meshKey[w] = "deleted" /\ ~takod[w]
          /\ ctlInv = members /\ ctlPeers \subseteq Active(members)
          /\ \A v \in Active(members) : peers[v] \subseteq Active(members)
        BY <1>0, <2>1 DEF Coherent, Removes, RemoveSteps, Late, Publishes, Current
    <2>a. \A u \in Sessions : cmd'[u].dest = None
        BY <1>s, <2>1, IdleFields
    <2>3. ASSUME NEW x \in Workers, x = w PROVE Isolated(x)'
        <3>1. /\ meshKey'[x] = "deleted" /\ ~takod'[x] /\ ctlInv'[x] = "removed"
            BY <2>1, <2>2, <2>3
        <3>2. x \notin Active(members)
            BY <2>2, <2>3 DEF Active
        <3>3. x \notin ctlPeers' /\ \A v \in Active(members') : x \notin peers'[v]
            BY <2>1, <2>2, <3>2
        <3> QED BY <2>a, <3>1, <3>3 DEF Isolated
    <2>4. ASSUME NEW x \in Workers
          PROVE  /\ removal'[x] = "cleanup-target" => members'[x] = "removed"
                 /\ members'[x] = "absent" => Unknown(x)'
                 /\ Forgotten(x)' => Isolated(x)'
        <3>1. removal'[x] = "cleanup-target" => members'[x] = "removed"
            BY <1>0, <2>1 DEF FateInv
        <3>2. ASSUME members'[x] = "absent" PROVE Unknown(x)'
            BY <1>0, <1>s, <2>1, <2>2, <3>2, IdleFields DEF FateInv, Unknown, Nobody
        <3>3. ASSUME Forgotten(x)', x # w PROVE Isolated(x)'
            <4>1. Isolated(x)
                BY <1>0, <2>1, <3>3 DEF FateInv, Forgotten
            <4>2. /\ meshKey'[x] = "deleted" /\ ~takod'[x] /\ ctlInv'[x] = "removed"
                  /\ x \notin ctlPeers' /\ \A v \in Active(members') : x \notin peers'[v]
                BY <2>1, <2>2, <4>1 DEF Isolated
            <4> QED BY <2>a, <4>2 DEF Isolated
        <3> QED BY <2>3, <3>1, <3>2, <3>3
    <2>5. FateInv'
        BY <2>4 DEF FateInv, Forgotten, Unknown, Isolated
    <2> QED BY <1>i, <2>1, <2>5
<1> QED BY <1>1, <1>2, <1>3

LEMMA SerialInit == Init => SerialInv
<1> SUFFICES ASSUME Init PROVE SerialInv
    OBVIOUS
<1>1. Typed /\ LatchInv /\ AttestInv
    BY TypeInit DEF Init, LatchInv, AttestInv, Attests, TakenOut, Nobody, Idle
<1>2. \A s \in Sessions : cmd[s] = Idle
    BY DEF Init
<1>3. PublishInv /\ RemoveInv
    BY <1>2, IdleFields DEF PublishInv, RemoveInv, Publishes, Removes, Late
<1>4. FateInv
    BY <1>2, IdleFields DEF Init, FateInv, Forgotten, Unknown, Nobody
<1> QED BY <1>1, <1>3, <1>4 DEF SerialInv

LEMMA SerialNext ==
    ASSUME Serial, SerialInv, [Next]_vars
    PROVE  SerialInv'
<1>1. Typed' /\ LatchInv' /\ AttestInv'
    BY TypeNext, LatchNext, AttestNext DEF SerialInv
<1>2. PublishInv' /\ RemoveInv' /\ FateInv'
    <2>0. Typed /\ PublishInv /\ RemoveInv /\ FateInv
        BY DEF SerialInv
    <2>1. ASSUME NEW s \in Sessions, Session(s) PROVE PublishInv' /\ RemoveInv' /\ FateInv'
        BY <1>1, <2>1, EarlySteps, StoreSteps, PublishSteps, WorkerSteps DEF Session
    <2>2. ASSUME UNCHANGED <<members, removal, ctlPeers, worker, cmd>>, ctlInv' \in {ctlInv, members}
          PROVE  PublishInv' /\ RemoveInv' /\ FateInv'
        <3>1. PublishInv'
            BY <2>0, <2>2 DEF PublishInv, Publishes, Current, Late, worker
        <3>2. RemoveInv'
            BY <2>0, <2>2 DEF RemoveInv, Removes, worker
        <3>3. \A u \in Sessions : Carries(u)
            BY <2>2 DEF Carries
        <3>4. FateInv'
            BY <1>1, <2>0, <2>2, <3>3, FateKept DEF worker
        <3> QED BY <3>1, <3>2, <3>4
    <2>3. ASSUME NEW t \in Tokens, CreateJoinToken(t) \/ ExpireToken(t)
          PROVE  PublishInv' /\ RemoveInv' /\ FateInv'
        BY <2>2, <2>3 DEF CreateJoinToken, ExpireToken, ReconcileInventory, controller
    <2>4. CASE UNCHANGED vars
        BY <2>2, <2>4 DEF vars, store, controller
    <2> QED BY <2>1, <2>3, <2>4 DEF Next
<1> QED BY <1>1, <1>2 DEF SerialInv

\* When a command has published to everyone, every active worker has the
\* controller's present membership, when commands run one at a time: the loop
\* over the workers starts from the membership read back after the commit.
THEOREM PublicationComplete == Serial => (Spec => []PublishedToAll)
<1> SUFFICES ASSUME Serial PROVE Spec => []PublishedToAll
    OBVIOUS
<1>1. SerialInv /\ [Next]_vars => SerialInv'
    BY SerialNext
<1>2. SerialInv => PublishedToAll
    BY DEF SerialInv, PublishInv, Publishes, Current, PublishedToAll
<1> QED BY <1>1, <1>2, SerialInit, PTL DEF Spec

\* A removal is forgotten only when the node's mesh key is deleted, takod is
\* stopped there and the controller and all active workers have dropped it as a
\* peer, and it stays so: no later enrollment, publication or resumed removal
\* brings it back, when commands run one at a time and stop wherever they may.
THEOREM RemovedNodesAreIsolated == Serial => (Spec => []RemovedIsIsolated)
<1> SUFFICES ASSUME Serial PROVE Spec => []RemovedIsIsolated
    OBVIOUS
<1>1. SerialInv /\ [Next]_vars => SerialInv'
    BY SerialNext
<1>2. SerialInv => RemovedIsIsolated
    BY DEF SerialInv, FateInv, Forgotten, Isolated, RemovedIsIsolated
<1> QED BY <1>1, <1>2, SerialInit, PTL DEF Spec
==============================================================================
