---------------------- MODULE AllocationAuthorityProofs ----------------------
(***************************************************************************)
(* Theorems about AllocationAuthority for any operations, edges, workers   *)
(* and bounds.                                                             *)
(*                                                                         *)
(* The argument.  No inventory is ahead of the controller except for the   *)
(* candidate of the pending proposal (Ordered), so a candidate, a recovery *)
(* and a new membership each have a pair of generations that no inventory  *)
(* has yet; only the recovery of a candidate at the last generation may    *)
(* share the candidate's (Unique).  A candidate that was abandoned is      *)
(* behind the controller, and every edge that it may still reach would     *)
(* refuse it, unless a delayed installation has put an old inventory back: *)
(* the edge accepted the recovery, which is beyond the candidate (Shared). *)
(* An edge that counts as published to has accepted the candidate          *)
(* (Handshake).                                                            *)
(***************************************************************************)
EXTENDS AllocationAuthority, TLAPS

\* The client works through the edges.
Publishing(c) == c.pc \in {"next", "posted", "ack"}

\* The candidate is within the bounds as well: a commit writes it to the controller.
PendingBounded ==
    pending # None => /\ pending.cand.gen <= MaxGeneration
                      /\ pending.cand.agen <= MaxAllocationGeneration

Typed == TypeOK /\ PendingBounded

\* The inventories in the system, with those that are recorded in the proposal.
Exists(i) ==
    \/ i = NoAllocations
    \/ i = ctl
    \/ i \in uncommitted
    \/ \E e \in Edges : i = edge[e]
    \/ \E m \in flight : i = m.inv
    \/ \E u \in uploads : i = u.inv
    \/ \E o \in Ops : i = client[o].snap
    \/ pending # None /\ (i = pending.cand \/ i = pending.recovery)

\* Nothing is ahead of the controller but the candidate of the pending proposal, and
\* that by one allocation generation above the base it was prepared on and only until
\* it is committed.
Ordered ==
    /\ \A i \in Inventory : Exists(i) =>
           /\ i.gen <= ctl.gen
           /\ i.agen <= ctl.agen \/ (pending # None /\ i = pending.cand)
    /\ pending # None => /\ pending.cand.agen = pending.base + 1
                         /\ pending.base <= ctl.agen
                         /\ pending.cand \in uncommitted \/ pending.cand.agen <= ctl.agen

\* i and j are the same inventory, or one is a candidate that was given up at the last
\* generation.
Same(i, j) ==
    i = j \/ (i.agen = MaxAllocationGeneration /\ (i \in uncommitted \/ j \in uncommitted))

\* Equal generations, equal content.
Unique ==
    \A i, j \in Inventory :
        Exists(i) /\ Exists(j) /\ i.gen = j.gen /\ i.agen = j.agen => Same(i, j)

IsPending(u) == pending # None /\ u = pending.cand

\* An edge that holds i refuses u.
Beyond(i, u) == i.agen > u.agen \/ (i.agen = u.agen /\ i.gen >= u.gen /\ i # u)

\* A candidate that was not committed is pending or behind the controller, and the
\* inventory the cluster started from can be replaced by the controller's.
Settled ==
    /\ ctl \notin uncommitted
    /\ \A u \in uncommitted : u.agen > 0 /\ (Beyond(ctl, u) \/ IsPending(u))
    /\ Advances(NoAllocations, ctl)

\* A POST of such a candidate that is still on its way goes to a target of the pending
\* proposal, or to an edge that will refuse it or has gone back.
LatePosts ==
    \A m \in flight : m.inv \in uncommitted =>
        /\ IsPending(m.inv) => m.edge \in pending.targets
        /\ ~IsPending(m.inv) => m.edge \in stale \/ Beyond(edge[m.edge], m.inv)

\* Nothing that the edge accepts takes it below r.
Has(e, r) == e \in stale \/ Advances(r, edge[e])

\* The recovery is beyond the candidate, and a target that counts as recovered has it.
RecoveryIsAbove ==
    pending # None =>
        /\ pending.recovery # None =>
               /\ pending.recovery.agen >= pending.cand.agen
               /\ pending.cand \in uncommitted => Beyond(pending.recovery, pending.cand)
               /\ Advances(pending.recovery, ctl)
               /\ pending.recovery \notin uncommitted
        /\ \A e \in pending.recovered : pending.recovery # None /\ Has(e, pending.recovery)

\* A client that recovers publishes the recorded copy, and has an answer only from an
\* edge that holds it or something later, or has gone back since.
Recoverer(c) ==
    /\ c.snap \notin uncommitted /\ Advances(c.snap, ctl)
    /\ Publishing(c) =>
        /\ c.id.agen <= c.snap.agen
        /\ IsPending(c.id) => pending.recovery # None /\ c.snap = pending.recovery
    /\ c.pc = "ack" => c.at \in Edges /\ Has(c.at, c.snap)

\* A client that proposes publishes what identifies its proposal.
Clients ==
    \A o \in Ops : /\ client[o].mode = "recovery" => Recoverer(client[o])
                   /\ client[o].mode = "proposal" => client[o].snap = client[o].id

\* The owner of the pending proposal has crossed off only edges that accepted it.
Handshake ==
    \A o \in Ops :
        client[o].mode = "proposal" /\ Publishing(client[o])
            /\ IsPending(client[o].id) /\ pending.op = o
        => /\ EdgesOf[o] \ client[o].todo \subseteq held
           /\ client[o].pc = "ack" => client[o].at \in held

-----------------------------------------------------------------------------
(* What a step makes of the client.                                        *)

\* Only the client of o changes, and it stays one.
Steps(o) == client' \in [Ops -> Client] /\ \A p \in Ops \ {o} : client'[p] = client[p]

LEMMA InitialTypes == NoAllocations \in Inventory /\ NewClient \in Client
BY AllocationAssumption DEF NoAllocations, NewClient, Inventory, Client

LEMMA BecomeFacts ==
    ASSUME client \in [Ops -> Client], NEW o \in Ops, NEW c \in Client, Become(o, c)
    PROVE  Steps(o) /\ client'[o] = c
BY DEF Become, Steps

LEMMA AcquireFacts ==
    ASSUME client \in [Ops -> Client], NEW o \in Ops, NEW g \in Nat,
           Become(o, [NewClient EXCEPT !.pc = "recover", !.gen = g])
    PROVE  /\ Steps(o)
           /\ client'[o].pc = "recover" /\ client'[o].mode = "recovery"
           /\ client'[o].snap = NoAllocations
<1> DEFINE c == [NewClient EXCEPT !.pc = "recover", !.gen = g]
<1>1. c \in Client /\ c.pc = "recover" /\ c.mode = "recovery" /\ c.snap = NoAllocations
    BY InitialTypes DEF Client, NewClient
<1> HIDE DEF c
<1>2. Become(o, c)
    BY DEF c
<1> QED BY <1>1, <1>2, BecomeFacts

LEMMA ReturnFacts ==
    ASSUME client \in [Ops -> Client], NEW o \in Ops, NEW pc \in {"ready", "ended"}, Return(o, pc)
    PROVE  /\ Steps(o)
           /\ client'[o].pc = pc /\ client'[o].mode = "recovery"
           /\ client'[o].snap = NoAllocations
<1> DEFINE g == IF pc = "ended" THEN 0 ELSE client[o].gen
           c == [NewClient EXCEPT !.pc = pc, !.gen = g]
<1>1. g \in Nat
    BY DEF Client
<1> HIDE DEF g
<1>2. c \in Client /\ c.pc = pc /\ c.mode = "recovery" /\ c.snap = NoAllocations
    BY <1>1, InitialTypes DEF Client, NewClient
<1> HIDE DEF c
<1>3. Become(o, c)
    BY DEF c, g, Return
<1> QED BY <1>2, <1>3, BecomeFacts

LEMMA SynchronizeFacts ==
    ASSUME client \in [Ops -> Client], NEW o \in Ops, Synchronize(o)
    PROVE  /\ Steps(o)
           /\ client'[o].pc = "sync" /\ client'[o].mode = "recovery"
           /\ client'[o].snap = NoAllocations
<1> DEFINE c == [NewClient EXCEPT !.pc = "sync", !.gen = client[o].gen, !.todo = EdgesOf[o]]
<1>1. client[o].gen \in Nat /\ EdgesOf[o] \in SUBSET Edges
    BY AllocationAssumption DEF Client
<1>2. c \in Client /\ c.pc = "sync" /\ c.mode = "recovery" /\ c.snap = NoAllocations
    BY <1>1, InitialTypes DEF Client, NewClient
<1> HIDE DEF c
<1>3. Become(o, c)
    BY DEF c, Synchronize
<1> QED BY <1>2, <1>3, BecomeFacts

LEMMA RecovererType ==
    ASSUME NEW c \in Client, NEW i \in Inventory, NEW T \in SUBSET Edges, NEW from \in Ops,
           NEW id \in Inventory
    PROVE  [c EXCEPT !.pc = "next", !.mode = "recovery", !.snap = i,
                     !.todo = T, !.from = from, !.id = id] \in Client
BY DEF Client

LEMMA StartRecoveryFacts ==
    ASSUME client \in [Ops -> Client], NEW o \in Ops, NEW p \in Proposal, NEW i \in Inventory,
           StartRecovery(o, p, i)
    PROVE  /\ Steps(o)
           /\ client'[o].pc = "next" /\ client'[o].mode = "recovery"
           /\ client'[o].snap = i /\ client'[o].id = p.cand
<1> DEFINE c == [client[o] EXCEPT !.pc = "next", !.mode = "recovery", !.snap = i,
                                  !.todo = p.targets, !.from = p.op, !.id = p.cand]
<1>0. p.targets \in SUBSET Edges /\ p.op \in Ops /\ p.cand \in Inventory
    BY DEF Proposal
<1>1. c \in Client
    BY <1>0, RecovererType
<1>2. c.pc = "next" /\ c.mode = "recovery" /\ c.snap = i /\ c.id = p.cand
    BY DEF Client
<1> HIDE DEF c
<1>3. Become(o, c)
    BY DEF c, StartRecovery
<1> QED BY <1>1, <1>2, <1>3, BecomeFacts

LEMMA StartProposalFacts ==
    ASSUME client \in [Ops -> Client], NEW o \in Ops, NEW p \in Proposal, StartProposal(o, p)
    PROVE  /\ Steps(o)
           /\ client'[o].pc = "next" /\ client'[o].mode = "proposal"
           /\ client'[o].snap = p.cand /\ client'[o].id = p.cand /\ client'[o].todo = EdgesOf[o]
<1> DEFINE c == [client[o] EXCEPT !.pc = "next", !.mode = "proposal", !.snap = p.cand,
                                  !.todo = EdgesOf[o], !.from = o, !.id = p.cand]
<1>0. EdgesOf[o] \in SUBSET Edges /\ p.cand \in Inventory
    BY AllocationAssumption DEF Proposal
<1>1. /\ c \in Client /\ c.pc = "next" /\ c.mode = "proposal" /\ c.snap = p.cand
      /\ c.id = p.cand /\ c.todo = EdgesOf[o]
    BY <1>0 DEF Client
<1> HIDE DEF c
<1>2. Become(o, c)
    BY DEF c, StartProposal
<1> QED BY <1>1, <1>2, BecomeFacts

LEMMA PostFacts ==
    ASSUME client \in [Ops -> Client], NEW o \in Ops, NEW e \in Edges, Post(o, e)
    PROVE  /\ Steps(o)
           /\ client'[o].pc = "posted" /\ client'[o].at = e
           /\ client'[o].mode = client[o].mode /\ client'[o].snap = client[o].snap
           /\ client'[o].id = client[o].id /\ client'[o].todo = client[o].todo
           /\ flight' = flight \cup {[op |-> o, edge |-> e, inv |-> client[o].snap]}
           /\ [op |-> o, edge |-> e, inv |-> client[o].snap] \in Request
<1> DEFINE c == [client[o] EXCEPT !.pc = "posted", !.at = e]
<1>1. /\ c \in Client /\ c.pc = "posted" /\ c.at = e /\ c.mode = client[o].mode
      /\ c.snap = client[o].snap /\ c.id = client[o].id /\ c.todo = client[o].todo
    BY DEF Client
<1> HIDE DEF c
<1>2. Become(o, c)
    BY DEF c, Post
<1>3. client[o].snap \in Inventory
    BY DEF Client
<1> QED BY <1>1, <1>2, <1>3, BecomeFacts DEF Post, Request

\* The edge at hand is done.
LEMMA DoneFacts ==
    ASSUME client \in [Ops -> Client], NEW o \in Ops,
           Become(o, [client[o] EXCEPT !.pc = "next", !.todo = @ \ {client[o].at}])
    PROVE  /\ Steps(o)
           /\ client'[o].pc = "next"
           /\ client'[o].mode = client[o].mode /\ client'[o].snap = client[o].snap
           /\ client'[o].id = client[o].id
           /\ client'[o].todo = client[o].todo \ {client[o].at}
<1> DEFINE c == [client[o] EXCEPT !.pc = "next", !.todo = @ \ {client[o].at}]
<1>1. /\ c \in Client /\ c.pc = "next" /\ c.mode = client[o].mode
      /\ c.snap = client[o].snap /\ c.id = client[o].id
      /\ c.todo = client[o].todo \ {client[o].at}
    BY DEF Client
<1> HIDE DEF c
<1>2. Become(o, c)
    BY DEF c
<1> QED BY <1>1, <1>2, BecomeFacts

LEMMA SyncFacts ==
    ASSUME client \in [Ops -> Client], NEW o \in Ops, NEW e \in Edges,
           Become(o, [client[o] EXCEPT !.todo = @ \ {e}])
    PROVE  /\ Steps(o)
           /\ client'[o].pc = client[o].pc
           /\ client'[o].mode = client[o].mode /\ client'[o].snap = client[o].snap
           /\ client'[o].id = client[o].id
<1> DEFINE c == [client[o] EXCEPT !.todo = @ \ {e}]
<1>1. /\ c \in Client /\ c.pc = client[o].pc /\ c.mode = client[o].mode
      /\ c.snap = client[o].snap /\ c.id = client[o].id
    BY DEF Client
<1> HIDE DEF c
<1>2. Become(o, c)
    BY DEF c
<1> QED BY <1>1, <1>2, BecomeFacts

LEMMA ReplyFacts ==
    ASSUME client \in [Ops -> Client], NEW o \in Ops, client' = [client EXCEPT ![o].pc = "ack"]
    PROVE  /\ Steps(o)
           /\ client'[o].pc = "ack" /\ client'[o].at = client[o].at
           /\ client'[o].mode = client[o].mode /\ client'[o].snap = client[o].snap
           /\ client'[o].id = client[o].id /\ client'[o].todo = client[o].todo
<1> DEFINE c == [client[o] EXCEPT !.pc = "ack"]
<1>1. /\ c \in Client /\ c.pc = "ack" /\ c.at = client[o].at /\ c.mode = client[o].mode
      /\ c.snap = client[o].snap /\ c.id = client[o].id /\ c.todo = client[o].todo
    BY DEF Client
<1>2. client' = [client EXCEPT ![o] = c]
    OBVIOUS
<1> HIDE DEF c
<1> QED BY <1>1, <1>2 DEF Steps

-----------------------------------------------------------------------------
(* Types.                                                                  *)

LEMMA CtlFacts ==
    ASSUME Typed
    PROVE  /\ ctl \in Inventory /\ ctl.gen \in Nat /\ ctl.agen \in Nat
           /\ ctl.sched \in SUBSET Workers
           /\ ctl.allocs \in [Scopes -> SUBSET (Workers \X Ops)]
BY DEF Typed, TypeOK, Inventory

LEMMA PendingFacts ==
    ASSUME Typed, pending # None
    PROVE  /\ pending \in Proposal /\ pending.op \in Ops /\ pending.base \in Nat
           /\ pending.cand \in Inventory /\ pending.cand.agen \in Nat /\ pending.cand.gen \in Nat
           /\ pending.targets \subseteq Edges /\ pending.recovered \subseteq Edges
           /\ pending.recovery # None =>
                  pending.recovery \in Inventory /\ pending.recovery.agen \in Nat
BY DEF Typed, TypeOK, Proposal, Inventory

LEMMA ClientFacts ==
    ASSUME Typed, NEW o \in Ops
    PROVE  /\ client \in [Ops -> Client] /\ client[o] \in Client
           /\ client[o].snap \in Inventory /\ client[o].id \in Inventory
           /\ client[o].snap.agen \in Nat /\ client[o].id.agen \in Nat
           /\ client[o].at \in Edges \cup {None} /\ client[o].todo \in SUBSET Edges
           /\ client[o].mode \in {"recovery", "proposal"}
           /\ client[o].gen \in Nat
BY DEF Typed, TypeOK, Client, Inventory

\* The copy is an inventory, ahead of the controller.
LEMMA CopyFacts ==
    ASSUME Typed, pending # None
    PROVE  /\ RecoveryCopy \in Inventory /\ RecoveryCopy.gen = ctl.gen
           /\ RecoveryCopy.agen = RecoveryGeneration /\ RecoveryGeneration \in Nat
           /\ RecoveryGeneration > ctl.agen
<1>1. RecoveryGeneration \in Nat /\ RecoveryGeneration > ctl.agen
    BY CtlFacts, PendingFacts DEF RecoveryGeneration
<1>2. RecoveryCopy.agen = RecoveryGeneration /\ RecoveryCopy.gen = ctl.gen
    BY CtlFacts DEF RecoveryCopy, Inventory
<1>3. RecoveryCopy \in Inventory
    BY <1>1, CtlFacts DEF RecoveryCopy, Inventory
<1> QED BY <1>1, <1>2, <1>3

\* It is above the candidate, or both have the last generation there is.
LEMMA CopyAbove ==
    ASSUME Typed, Ordered, pending # None
    PROVE  \/ RecoveryGeneration > pending.cand.agen
           \/ /\ RecoveryGeneration = pending.cand.agen
              /\ pending.cand.agen = MaxAllocationGeneration
<1>1. /\ ctl.agen \in Nat /\ pending.cand.agen \in Nat /\ pending.base \in Nat
      /\ pending.cand.agen = pending.base + 1 /\ pending.base <= ctl.agen
      /\ pending.cand.agen <= MaxAllocationGeneration /\ MaxAllocationGeneration \in Nat
    BY CtlFacts, PendingFacts, AllocationAssumption DEF Ordered, Typed, PendingBounded
<1> QED BY <1>1 DEF RecoveryGeneration, Exhausted

LEMMA CandidateFacts ==
    ASSUME Typed, NEW o \in Ops, NEW ws \in SUBSET Workers
    PROVE  /\ Candidate(o, ws) \in Inventory /\ Candidate(o, ws).gen = ctl.gen
           /\ Candidate(o, ws).agen = ctl.agen + 1
           /\ NewProposal(o, ws) \in Proposal /\ NewProposal(o, ws).cand = Candidate(o, ws)
           /\ NewProposal(o, ws).op = o /\ NewProposal(o, ws).base = ctl.agen
           /\ NewProposal(o, ws).targets = {} /\ NewProposal(o, ws).recovery = None
           /\ NewProposal(o, ws).recovered = {}
<1>1. Allocations(o, ws) \in [Scopes -> SUBSET (Workers \X Ops)]
    <2>1. {<<w, o>> : w \in ws} \in SUBSET (Workers \X Ops)
        OBVIOUS
    <2> QED BY <2>1, CtlFacts, AllocationAssumption DEF Allocations
<1>2. /\ Candidate(o, ws) \in Inventory /\ Candidate(o, ws).gen = ctl.gen
      /\ Candidate(o, ws).agen = ctl.agen + 1
    <2> DEFINE n == ctl.agen + 1
               A == Allocations(o, ws)
    <2>1. n \in Nat /\ A \in [Scopes -> SUBSET (Workers \X Ops)]
        BY <1>1, CtlFacts
    <2>2. Candidate(o, ws) = [ctl EXCEPT !.agen = n, !.allocs = A]
        BY DEF Candidate
    <2>3. n = ctl.agen + 1
        OBVIOUS
    <2> HIDE DEF n, A
    <2>4. ctl \in Inventory
        BY CtlFacts
    <2>5. [ctl EXCEPT !.agen = n, !.allocs = A].gen = ctl.gen
        BY <2>1, <2>4 DEF Inventory
    <2>6. [ctl EXCEPT !.agen = n, !.allocs = A].agen = n
        BY <2>1, <2>4 DEF Inventory
    <2>7. [ctl EXCEPT !.agen = n, !.allocs = A] \in Inventory
        BY <2>1, <2>4 DEF Inventory
    <2> QED BY <2>2, <2>3, <2>5, <2>6, <2>7
<1> HIDE DEF Candidate
<1>3. NewProposal(o, ws) \in Proposal
    BY <1>2, CtlFacts DEF NewProposal, Proposal
<1> QED BY <1>2, <1>3 DEF NewProposal

LEMMA MembershipFacts ==
    ASSUME Typed, NEW sched \in SUBSET Workers, MembershipChange(sched)
    PROVE  /\ ctl' \in Inventory /\ ctl'.gen = ctl.gen + 1 /\ ctl'.gen <= MaxGeneration
           /\ ctl'.agen >= ctl.agen /\ ctl'.agen <= MaxAllocationGeneration
<1> DEFINE A == Revoked(ctl, sched)
           n == IF A = ctl.allocs THEN ctl.agen ELSE ctl.agen + 1
<1>1. A \in [Scopes -> SUBSET (Workers \X Ops)]
    BY CtlFacts DEF Revoked
<1>2. n \in Nat /\ n >= ctl.agen
    BY CtlFacts
<1>3. /\ ctl.gen < MaxGeneration /\ n <= MaxAllocationGeneration
      /\ ctl' = [gen |-> ctl.gen + 1, agen |-> n, sched |-> sched, allocs |-> A]
    BY DEF MembershipChange
<1> HIDE DEF A, n
<1> QED BY <1>1, <1>2, <1>3, CtlFacts, AllocationAssumption DEF Inventory

LEMMA TypeInit == Init => Typed
BY InitialTypes, AllocationAssumption
   DEF Init, Typed, TypeOK, PendingBounded, NoAllocations, Inventory

\* What a request adds to the proposal leaves the rest of it alone.
LEMMA TargetsFacts ==
    ASSUME Typed, pending # None, NEW e \in Edges,
           pending' = [pending EXCEPT !.targets = @ \cup {e}]
    PROVE  /\ pending' \in Proposal /\ pending'.targets = pending.targets \cup {e}
           /\ pending'.op = pending.op /\ pending'.cand = pending.cand
           /\ pending'.base = pending.base /\ pending'.recovery = pending.recovery
           /\ pending'.recovered = pending.recovered
BY PendingFacts DEF Proposal

LEMMA AckedFacts ==
    ASSUME Typed, pending # None, NEW e \in Edges,
           pending' = [pending EXCEPT !.acked = @ \cup {e}]
    PROVE  /\ pending' \in Proposal /\ pending'.targets = pending.targets
           /\ pending'.op = pending.op /\ pending'.cand = pending.cand
           /\ pending'.base = pending.base /\ pending'.recovery = pending.recovery
           /\ pending'.recovered = pending.recovered
BY PendingFacts DEF Proposal

LEMMA RecoveredFacts ==
    ASSUME Typed, pending # None, NEW e \in Edges,
           pending' = [pending EXCEPT !.recovered = @ \cup {e}]
    PROVE  /\ pending' \in Proposal /\ pending'.recovered = pending.recovered \cup {e}
           /\ pending'.op = pending.op /\ pending'.cand = pending.cand
           /\ pending'.base = pending.base /\ pending'.recovery = pending.recovery
           /\ pending'.targets = pending.targets
BY PendingFacts DEF Proposal

LEMMA RecoveryFacts ==
    ASSUME Typed, pending # None, NEW i \in Inventory,
           pending' = [pending EXCEPT !.recovery = i]
    PROVE  /\ pending' \in Proposal /\ pending'.recovery = i
           /\ pending'.op = pending.op /\ pending'.cand = pending.cand
           /\ pending'.base = pending.base /\ pending'.targets = pending.targets
           /\ pending'.recovered = pending.recovered
BY PendingFacts DEF Proposal

\* The three outcomes of a recovery request.
LEMMA RecoverCases ==
    ASSUME Typed, NEW o \in Ops, Recover(o)
    PROVE  \/ /\ pending = None /\ UNCHANGED <<ctl, pending, uncommitted>>
              /\ Steps(o) /\ client'[o].pc = "sync" /\ client'[o].mode = "recovery"
              /\ client'[o].snap = NoAllocations
           \/ /\ pending # None /\ pending.recovery # None
              /\ UNCHANGED <<ctl, pending, uncommitted>>
              /\ Steps(o) /\ client'[o].pc = "next" /\ client'[o].mode = "recovery"
              /\ client'[o].snap = pending.recovery /\ client'[o].id = pending.cand
           \/ /\ pending # None /\ pending.recovery = None
              /\ RecoveryGeneration <= MaxAllocationGeneration
              /\ pending.op # o /\ active = o
              /\ uncommitted' = uncommitted \ {RecoveryCopy}
              /\ ctl' = RecoveryCopy /\ pending' = [pending EXCEPT !.recovery = RecoveryCopy]
              /\ Steps(o) /\ client'[o].pc = "next" /\ client'[o].mode = "recovery"
              /\ client'[o].snap = RecoveryCopy /\ client'[o].id = pending.cand
<1>0. client \in [Ops -> Client]
    BY ClientFacts
<1>1. CASE pending = None /\ Synchronize(o) /\ UNCHANGED <<ctl, pending, uncommitted>>
    BY <1>0, <1>1, SynchronizeFacts
<1>2. CASE /\ pending # None /\ pending.recovery # None
           /\ StartRecovery(o, pending, pending.recovery)
           /\ UNCHANGED <<ctl, pending, uncommitted>>
    BY <1>0, <1>2, PendingFacts, StartRecoveryFacts
<1>3. CASE /\ pending # None /\ pending.recovery = None /\ ~Exhausted(RecoveryGeneration)
           /\ pending.op # o /\ active = o /\ uncommitted' = uncommitted \ {RecoveryCopy}
           /\ ctl' = RecoveryCopy /\ pending' = [pending EXCEPT !.recovery = RecoveryCopy]
           /\ StartRecovery(o, pending, RecoveryCopy)
    <2>1. RecoveryGeneration <= MaxAllocationGeneration
        BY <1>3, CopyFacts, AllocationAssumption DEF Exhausted
    <2> QED BY <1>0, <1>3, <2>1, PendingFacts, CopyFacts, StartRecoveryFacts
<1> QED BY <1>1, <1>2, <1>3 DEF Recover, Admitted

\* The two outcomes of the preparation of a proposal.
LEMMA PrepareCases ==
    ASSUME Typed, NEW o \in Ops, NEW ws \in SUBSET Workers, Prepare(o, ws)
    PROVE  /\ Steps(o) /\ client'[o].pc = "next" /\ client'[o].mode = "proposal"
           /\ client'[o].todo = EdgesOf[o]
           /\ \/ /\ pending = None /\ ctl.agen + 1 <= MaxAllocationGeneration
                 /\ pending' = NewProposal(o, ws)
                 /\ uncommitted' = uncommitted \cup {Candidate(o, ws)}
                 /\ client'[o].snap = Candidate(o, ws) /\ client'[o].id = Candidate(o, ws)
              \/ /\ pending # None /\ UNCHANGED <<pending, uncommitted>>
                 /\ client'[o].snap = pending.cand /\ client'[o].id = pending.cand
<1>0. client \in [Ops -> Client]
    BY ClientFacts
<1>1. CASE /\ pending = None /\ ~Exhausted(ctl.agen + 1) /\ pending' = NewProposal(o, ws)
           /\ StartProposal(o, NewProposal(o, ws))
           /\ uncommitted' = uncommitted \cup {Candidate(o, ws)}
    <2>1. ctl.agen + 1 <= MaxAllocationGeneration
        BY <1>1, CtlFacts, AllocationAssumption DEF Exhausted
    <2> QED BY <1>0, <1>1, <2>1, CandidateFacts, StartProposalFacts
<1>2. CASE pending # None /\ StartProposal(o, pending) /\ UNCHANGED <<pending, uncommitted>>
    BY <1>0, <1>2, PendingFacts, StartProposalFacts
<1> QED BY <1>1, <1>2 DEF Prepare

LEMMA TypeNext ==
    ASSUME Typed, [Next]_vars
    PROVE  Typed'
<1> USE DEF history, copying, Typed, TypeOK, PendingBounded
<1>c. \A o \in Ops : Steps(o) => client' \in [Ops -> Client]
    BY DEF Steps
<1>1. CASE UNCHANGED vars
    BY <1>1 DEF vars
<1>2. ASSUME NEW sched \in SUBSET Workers, MembershipChange(sched) PROVE Typed'
    <2>1. ctl' \in Inventory /\ ctl'.gen <= MaxGeneration /\ ctl'.agen <= MaxAllocationGeneration
        BY <1>2, MembershipFacts DEF Typed
    <2> QED BY <1>2, <2>1 DEF MembershipChange
<1>3. ASSUME NEW e \in Edges, UploadInventory(e) PROVE Typed'
    <2>1. [edge |-> e, inv |-> ctl] \in Upload
        BY CtlFacts DEF Upload
    <2>2. uploads' \subseteq Upload /\ copies' \in 0..MaxCopies
        BY <1>3, <2>1, AllocationAssumption DEF UploadInventory
    <2> QED BY <1>3, <2>2 DEF UploadInventory
<1>16. ASSUME NEW u \in uploads, InstallInventory(u) PROVE Typed'
    <2>1. u.edge \in Edges /\ u.inv \in Inventory
        BY <1>16 DEF Upload
    <2> QED BY <1>16, <2>1 DEF InstallInventory
<1>4. ASSUME NEW o \in Ops PROVE
          Acquire(o) \/ End(o) \/ LoseFence(o) \/ GiveUp(o) \/ Ready(o) => Typed'
    <2>1. ASSUME Acquire(o) PROVE Typed'
        <3>1. Steps(o)
            BY <2>1, CtlFacts, AcquireFacts DEF Acquire
        <3> QED BY <1>c, <2>1, <3>1 DEF Acquire
    <2>2. ASSUME End(o) PROVE Typed'
        BY <1>c, <2>2, ReturnFacts DEF End
    <2>3. ASSUME LoseFence(o) PROVE Typed'
        BY <2>3 DEF LoseFence
    <2>4. ASSUME GiveUp(o) \/ Ready(o) PROVE Typed'
        BY <1>c, <2>4, ReturnFacts DEF GiveUp, Ready
    <2> QED BY <2>1, <2>2, <2>3, <2>4
<1>5. ASSUME NEW o \in Ops, Recover(o) PROVE Typed'
    <2>1. client' \in [Ops -> Client]
        BY <1>c, <1>5, RecoverCases
    <2>2. CASE UNCHANGED <<ctl, pending, uncommitted>>
        BY <1>5, <2>1, <2>2 DEF Recover
    <2>3. CASE /\ pending # None /\ RecoveryGeneration <= MaxAllocationGeneration
               /\ uncommitted' = uncommitted \ {RecoveryCopy}
               /\ ctl' = RecoveryCopy /\ pending' = [pending EXCEPT !.recovery = RecoveryCopy]
        <3>1. /\ RecoveryCopy \in Inventory /\ RecoveryCopy.gen = ctl.gen
              /\ RecoveryCopy.agen <= MaxAllocationGeneration
            BY <2>3, CopyFacts
        <3>2. pending' \in Proposal /\ pending'.cand = pending.cand
            BY <2>3, <3>1, RecoveryFacts
        <3> QED BY <1>5, <2>1, <2>3, <3>1, <3>2 DEF Recover
    <2> QED BY <1>5, <2>2, <2>3, RecoverCases
<1>6. ASSUME NEW o \in Ops, RecoverCrash(o) PROVE Typed'
    <2>1. pending # None /\ ~Exhausted(RecoveryGeneration) /\ ctl' = RecoveryCopy
        BY <1>6 DEF RecoverCrash
    <2>2. /\ RecoveryCopy \in Inventory /\ RecoveryCopy.gen = ctl.gen
          /\ RecoveryCopy.agen <= MaxAllocationGeneration
        BY <2>1, CopyFacts, AllocationAssumption DEF Exhausted
    <2>3. client' \in [Ops -> Client]
        BY <1>c, <1>6, ReturnFacts DEF RecoverCrash
    <2> QED BY <1>6, <2>1, <2>2, <2>3 DEF RecoverCrash
<1>7. ASSUME NEW o \in Ops, AckRecovery(o) PROVE Typed'
    <2>1. pending # None /\ client[o].at \in Edges
        BY <1>7, PendingFacts DEF AckRecovery, Recovering
    <2>2. pending' \in Proposal /\ pending'.cand = pending.cand
        BY <1>7, <2>1, RecoveredFacts DEF AckRecovery
    <2>3. client' \in [Ops -> Client]
        BY <1>c, <1>7, DoneFacts DEF AckRecovery
    <2> QED BY <1>7, <2>1, <2>2, <2>3 DEF AckRecovery
<1>8. ASSUME NEW o \in Ops, FinalizeRecovery(o) PROVE Typed'
    BY <1>c, <1>8, SynchronizeFacts DEF FinalizeRecovery
<1>9. ASSUME NEW o \in Ops, NEW ws \in SUBSET Workers, Prepare(o, ws) PROVE Typed'
    <2>1. client' \in [Ops -> Client]
        BY <1>c, <1>9, PrepareCases
    <2>2. CASE UNCHANGED <<pending, uncommitted>>
        BY <1>9, <2>1, <2>2 DEF Prepare
    <2>3. CASE /\ ctl.agen + 1 <= MaxAllocationGeneration /\ pending' = NewProposal(o, ws)
               /\ uncommitted' = uncommitted \cup {Candidate(o, ws)}
        <3>1. /\ pending' \in Proposal /\ pending'.cand.gen = ctl.gen
              /\ pending'.cand.agen = ctl.agen + 1 /\ Candidate(o, ws) \in Inventory
            BY <2>3, CandidateFacts
        <3> QED BY <1>9, <2>1, <2>3, <3>1 DEF Prepare
    <2> QED BY <1>9, <2>2, <2>3, PrepareCases
<1>10. ASSUME NEW o \in Ops, Ack(o) PROVE Typed'
    <2>1. pending # None /\ client[o].at \in Edges
        BY <1>10, PendingFacts DEF Ack, Bound
    <2>2. pending' \in Proposal /\ pending'.cand = pending.cand
        BY <1>10, <2>1, AckedFacts DEF Ack
    <2>3. client' \in [Ops -> Client]
        BY <1>c, <1>10, DoneFacts DEF Ack
    <2> QED BY <1>10, <2>1, <2>2, <2>3 DEF Ack
<1>11. ASSUME NEW o \in Ops, Commit(o) \/ CommitCrash(o) PROVE Typed'
    <2>1. pending # None /\ ctl' = pending.cand /\ uncommitted' = uncommitted \ {pending.cand}
        BY <1>11 DEF Commit, CommitCrash, CanCommit, Bound
    <2>2. client' \in [Ops -> Client]
        BY <1>c, <1>11, ReturnFacts DEF Commit, CommitCrash
    <2>3. ctl' \in Inventory /\ ctl'.gen <= MaxGeneration /\ ctl'.agen <= MaxAllocationGeneration
        BY <2>1, PendingFacts
    <2>4. CASE Commit(o)
        BY <2>1, <2>2, <2>3, <2>4 DEF Commit
    <2>5. CASE CommitCrash(o)
        BY <2>1, <2>2, <2>3, <2>5 DEF CommitCrash
    <2> QED BY <1>11, <2>4, <2>5
<1>12. ASSUME NEW o \in Ops, NEW e \in Edges, SyncEdge(o, e) PROVE Typed'
    BY <1>c, <1>12, SyncFacts DEF SyncEdge
<1>13. ASSUME NEW o \in Ops, NEW e \in Edges, SendRecovery(o, e) PROVE Typed'
    <2>1. client' \in [Ops -> Client] /\ flight' \subseteq Request
        <3> DEFINE r == [op |-> o, edge |-> e, inv |-> client[o].snap]
        <3>1. Steps(o) /\ flight' = flight \cup {r} /\ r \in Request
            BY <1>13, PostFacts DEF SendRecovery
        <3> HIDE DEF r
        <3> QED BY <1>c, <3>1
    <2> QED BY <1>13, <2>1 DEF SendRecovery
<1>14. ASSUME NEW o \in Ops, NEW e \in Edges, Track(o, e) PROVE Typed'
    <2>1. client' \in [Ops -> Client] /\ flight' \subseteq Request
        <3> DEFINE r == [op |-> o, edge |-> e, inv |-> client[o].snap]
        <3>1. Steps(o) /\ flight' = flight \cup {r} /\ r \in Request
            BY <1>14, PostFacts DEF Track
        <3> HIDE DEF r
        <3> QED BY <1>c, <3>1
    <2>2. pending # None
        BY <1>14 DEF Track, Bound
    <2>3. pending' \in Proposal /\ pending'.cand = pending.cand
        BY <1>14, <2>2, TargetsFacts DEF Track
    <2> QED BY <1>14, <2>1, <2>2, <2>3 DEF Track
<1>15. ASSUME NEW m \in flight, AcceptInventory(m) PROVE Typed'
    <2>1. m.op \in Ops /\ m.edge \in Edges /\ m.inv \in Inventory
        BY <1>15 DEF Request
    <2>2. client' \in [Ops -> Client]
        BY <1>c, <1>15, <2>1, ReplyFacts DEF AcceptInventory
    <2> QED BY <1>15, <2>1, <2>2 DEF AcceptInventory
<1> HIDE DEF Typed, TypeOK, PendingBounded
<1> QED BY <1>1, <1>2, <1>3, <1>4, <1>5, <1>6, <1>7, <1>8, <1>9, <1>10, <1>11, <1>12, <1>13,
           <1>14, <1>15, <1>16
        DEF Next

\* Every variable keeps its type and no generation passes its bound.
THEOREM TypeCorrect == Spec => []TypeOK
<1>1. Typed /\ [Next]_vars => Typed'
    BY TypeNext
<1>2. Typed => TypeOK
    BY DEF Typed
<1> QED BY TypeInit, <1>1, <1>2, PTL DEF Spec

-----------------------------------------------------------------------------
(* Generations.                                                            *)

\* The step creates no inventory, except perhaps n.
Creates(n) == \A i \in Inventory : Exists(i)' => Exists(i) \/ i = n

LEMMA CreatesFrom ==
    ASSUME NEW n,
           ctl' = n \/ Exists(ctl'),
           \A u \in uncommitted' : u = n \/ Exists(u),
           \A e \in Edges : edge'[e] = n \/ Exists(edge'[e]),
           \A m \in flight' : m.inv = n \/ Exists(m.inv),
           \A u \in uploads' : u.inv = n \/ Exists(u.inv),
           \A o \in Ops : client'[o].snap = n \/ Exists(client'[o].snap),
           pending' # None => pending'.cand = n \/ Exists(pending'.cand),
           pending' # None => pending'.recovery = n \/ Exists(pending'.recovery)
    PROVE  \A i : Exists(i)' => Exists(i) \/ i = n \/ i = NoAllocations
<1> SUFFICES ASSUME NEW i, Exists(i)' PROVE Exists(i) \/ i = n \/ i = NoAllocations
    OBVIOUS
<1> QED BY DEF Exists

LEMMA Kept ==
    /\ Exists(NoAllocations) /\ Exists(ctl)
    /\ \A u \in uncommitted : Exists(u)
    /\ \A e \in Edges : Exists(edge[e])
    /\ \A m \in flight : Exists(m.inv)
    /\ \A u \in uploads : Exists(u.inv)
    /\ \A o \in Ops : Exists(client[o].snap)
    /\ pending # None => Exists(pending.cand) /\ Exists(pending.recovery)
BY DEF Exists

\* The steps that create an inventory: a change of the membership, the copy that a
\* recovery commits, a candidate.
LEMMA Creation ==
    ASSUME Typed, [Next]_vars
    PROVE  \/ Creates(NoAllocations)
           \/ \E sched \in SUBSET Workers : MembershipChange(sched) /\ Creates(ctl')
           \/ pending # None /\ ctl' = RecoveryCopy /\ Creates(RecoveryCopy)
           \/ \E o \in Ops, ws \in SUBSET Workers :
                  /\ pending = None /\ pending' = NewProposal(o, ws) /\ ctl' = ctl
                  /\ Creates(Candidate(o, ws))
<1> USE DEF history, copying
<1> DEFINE Only(n) == \A i : Exists(i)' => Exists(i) \/ i = n \/ i = NoAllocations
<1>0. \A n : Only(n) => Creates(n)
    BY Kept DEF Creates
<1>1. CASE UNCHANGED vars
    <2>1. \A i : Exists(i)' => Exists(i)
        BY <1>1 DEF vars, Exists
    <2> QED BY <2>1 DEF Creates
<1>2. ASSUME NEW sched \in SUBSET Workers, MembershipChange(sched)
      PROVE  Creates(ctl')
    <2>1. UNCHANGED <<pending, client, flight, edge, uploads, uncommitted>>
        BY <1>2 DEF MembershipChange
    <2>2. Only(ctl')
        BY <2>1, Kept, CreatesFrom
    <2> QED BY <1>0, <2>2
<1>3. ASSUME NEW e \in Edges, UploadInventory(e) PROVE Creates(NoAllocations)
    <2>1. /\ UNCHANGED <<ctl, pending, client, flight, edge, uncommitted>>
          /\ \A u \in uploads' : u \in uploads \/ u.inv = ctl
        BY <1>3 DEF UploadInventory
    <2>2. Only(NoAllocations)
        BY <2>1, Kept, CreatesFrom
    <2> QED BY <1>0, <2>2
<1>14. ASSUME NEW u \in uploads, InstallInventory(u) PROVE Creates(NoAllocations)
    <2>1. /\ UNCHANGED <<ctl, pending, client, flight, uncommitted>> /\ uploads' \subseteq uploads
          /\ \A f \in Edges : edge'[f] = edge[f] \/ edge'[f] = u.inv
        BY <1>14 DEF InstallInventory, Typed, TypeOK
    <2>2. Only(NoAllocations)
        BY <2>1, Kept, CreatesFrom
    <2> QED BY <1>0, <2>2
<1>4. ASSUME NEW o \in Ops, Acquire(o) \/ End(o) \/ LoseFence(o) \/ GiveUp(o) \/ Ready(o)
      PROVE  Creates(NoAllocations)
    <2>1. UNCHANGED <<ctl, pending, flight, edge, uploads, uncommitted>>
        BY <1>4 DEF Acquire, End, LoseFence, GiveUp, Ready
    <2>2. UNCHANGED client \/ (Steps(o) /\ client'[o].snap = NoAllocations)
        BY <1>4, CtlFacts, ClientFacts, AcquireFacts, ReturnFacts
        DEF Acquire, End, LoseFence, GiveUp, Ready
    <2>3. \A p \in Ops : Exists(client'[p].snap)
        BY <2>2, Kept DEF Steps
    <2>4. Only(NoAllocations)
        BY <2>1, <2>3, Kept, CreatesFrom
    <2> QED BY <1>0, <2>4
<1>5. ASSUME NEW o \in Ops, Recover(o)
      PROVE  \/ Creates(NoAllocations)
             \/ pending # None /\ ctl' = RecoveryCopy /\ Creates(RecoveryCopy)
    <2>0. UNCHANGED <<flight, edge, uploads>> /\ uncommitted' \subseteq uncommitted
        BY <1>5 DEF Recover
    <2>1. CASE pending = None /\ UNCHANGED <<ctl, pending>> /\ Steps(o)
               /\ client'[o].snap = NoAllocations
        <3>1. \A p \in Ops : Exists(client'[p].snap)
            BY <2>1, Kept DEF Steps
        <3>2. Only(NoAllocations)
            BY <2>0, <2>1, <3>1, Kept, CreatesFrom
        <3> QED BY <1>0, <3>2
    <2>2. CASE pending # None /\ UNCHANGED <<ctl, pending>> /\ Steps(o)
               /\ client'[o].snap = pending.recovery
        <3>1. \A p \in Ops : Exists(client'[p].snap)
            BY <2>2, Kept DEF Steps
        <3>2. Only(NoAllocations)
            BY <2>0, <2>2, <3>1, Kept, CreatesFrom
        <3> QED BY <1>0, <3>2
    <2>3. CASE pending # None /\ ctl' = RecoveryCopy /\ Steps(o)
               /\ pending' = [pending EXCEPT !.recovery = RecoveryCopy]
               /\ client'[o].snap = RecoveryCopy
        <3>1. \A p \in Ops : Exists(client'[p].snap) \/ client'[p].snap = RecoveryCopy
            BY <2>3, Kept DEF Steps
        <3>2. pending'.cand = pending.cand /\ pending'.recovery = RecoveryCopy
            BY <2>3, CopyFacts, RecoveryFacts
        <3>3. Only(RecoveryCopy)
            BY <2>0, <2>3, <3>1, <3>2, Kept, CreatesFrom
        <3> QED BY <1>0, <2>3, <3>3
    <2> QED BY <1>5, <2>1, <2>2, <2>3, RecoverCases
<1>6. ASSUME NEW o \in Ops, RecoverCrash(o)
      PROVE  pending # None /\ ctl' = RecoveryCopy /\ Creates(RecoveryCopy)
    <2>1. /\ UNCHANGED <<pending, flight, edge, uploads>> /\ uncommitted' \subseteq uncommitted
          /\ pending # None /\ ctl' = RecoveryCopy
        BY <1>6 DEF RecoverCrash
    <2>2. \A p \in Ops : Exists(client'[p].snap)
        BY <1>6, Kept, ClientFacts, ReturnFacts DEF RecoverCrash, Steps
    <2>3. Only(RecoveryCopy)
        BY <2>1, <2>2, Kept, CreatesFrom
    <2> QED BY <1>0, <2>1, <2>3
<1>7. ASSUME NEW o \in Ops, AckRecovery(o) \/ Ack(o) PROVE Creates(NoAllocations)
    <2>0. pending # None /\ client[o].at \in Edges
        BY <1>7, PendingFacts DEF AckRecovery, Recovering, Ack, Bound
    <2>1. UNCHANGED <<ctl, flight, edge, uploads, uncommitted>>
        BY <1>7 DEF AckRecovery, Ack
    <2>2. pending'.cand = pending.cand /\ pending'.recovery = pending.recovery
        BY <1>7, <2>0, RecoveredFacts, AckedFacts DEF AckRecovery, Ack
    <2>3. \A p \in Ops : Exists(client'[p].snap)
        BY <1>7, Kept, ClientFacts, DoneFacts DEF AckRecovery, Ack, Steps
    <2>4. Only(NoAllocations)
        BY <2>0, <2>1, <2>2, <2>3, Kept, CreatesFrom
    <2> QED BY <1>0, <2>4
<1>8. ASSUME NEW o \in Ops, FinalizeRecovery(o) PROVE Creates(NoAllocations)
    <2>1. UNCHANGED <<ctl, flight, edge, uploads, uncommitted>> /\ pending' = None
        BY <1>8 DEF FinalizeRecovery
    <2>2. \A p \in Ops : Exists(client'[p].snap)
        BY <1>8, Kept, ClientFacts, SynchronizeFacts DEF FinalizeRecovery, Steps
    <2>3. Only(NoAllocations)
        BY <2>1, <2>2, Kept, CreatesFrom
    <2> QED BY <1>0, <2>3
<1>9. ASSUME NEW o \in Ops, NEW ws \in SUBSET Workers, Prepare(o, ws)
      PROVE  \/ Creates(NoAllocations)
             \/ /\ pending = None /\ pending' = NewProposal(o, ws) /\ ctl' = ctl
                /\ Creates(Candidate(o, ws))
    <2>0. UNCHANGED <<ctl, flight, edge, uploads>> /\ Steps(o)
        BY <1>9, PrepareCases DEF Prepare
    <2>1. CASE /\ pending = None /\ pending' = NewProposal(o, ws)
               /\ uncommitted' = uncommitted \cup {Candidate(o, ws)}
               /\ client'[o].snap = Candidate(o, ws)
        <3>1. \A p \in Ops : Exists(client'[p].snap) \/ client'[p].snap = Candidate(o, ws)
            BY <2>0, <2>1, Kept DEF Steps
        <3>2. /\ pending'.cand = Candidate(o, ws)
              /\ pending'.recovery = None
            BY <2>1, CandidateFacts
        <3>3. \A i \in Inventory : Exists(i)' => Exists(i) \/ i = Candidate(o, ws)
            <4> SUFFICES ASSUME NEW i \in Inventory, Exists(i)'
                         PROVE  Exists(i) \/ i = Candidate(o, ws)
                OBVIOUS
            <4> QED BY <2>0, <2>1, <3>1, <3>2, Kept, AllocationAssumption DEF Exists
        <3> QED BY <2>0, <2>1, <3>3 DEF Creates
    <2>2. CASE pending # None /\ UNCHANGED <<pending, uncommitted>>
               /\ client'[o].snap = pending.cand
        <3>1. \A p \in Ops : Exists(client'[p].snap)
            BY <2>0, <2>2, Kept DEF Steps
        <3>2. Only(NoAllocations)
            BY <2>0, <2>2, <3>1, Kept, CreatesFrom
        <3> QED BY <1>0, <3>2
    <2> QED BY <1>9, <2>1, <2>2, PrepareCases
<1>10. ASSUME NEW o \in Ops, Commit(o) \/ CommitCrash(o) PROVE Creates(NoAllocations)
    <2>1. /\ pending # None /\ ctl' = pending.cand /\ UNCHANGED <<flight, edge, uploads>>
          /\ uncommitted' \subseteq uncommitted /\ (pending' = None \/ pending' = pending)
        BY <1>10 DEF Commit, CommitCrash, CanCommit, Bound
    <2>2. \A p \in Ops : Exists(client'[p].snap)
        BY <1>10, Kept, ClientFacts, ReturnFacts DEF Commit, CommitCrash, Steps
    <2>3. Only(NoAllocations)
        BY <2>1, <2>2, Kept, CreatesFrom
    <2> QED BY <1>0, <2>3
<1>11. ASSUME NEW o \in Ops, NEW e \in Edges, SyncEdge(o, e) PROVE Creates(NoAllocations)
    <2>1. /\ UNCHANGED <<ctl, pending, flight, uploads, uncommitted>>
          /\ \A f \in Edges : edge'[f] = edge[f] \/ edge'[f] = ctl
        BY <1>11 DEF SyncEdge, Typed, TypeOK
    <2>2. \A p \in Ops : Exists(client'[p].snap)
        BY <1>11, Kept, ClientFacts, SyncFacts DEF SyncEdge, Steps
    <2>3. Only(NoAllocations)
        BY <2>1, <2>2, Kept, CreatesFrom
    <2> QED BY <1>0, <2>3
<1>12. ASSUME NEW o \in Ops, NEW e \in Edges, SendRecovery(o, e) \/ Track(o, e)
       PROVE  Creates(NoAllocations)
    <2>1. UNCHANGED <<ctl, edge, uploads, uncommitted>> /\ Post(o, e)
        BY <1>12 DEF SendRecovery, Track
    <2>2. \A p \in Ops : Exists(client'[p].snap)
        BY <2>1, Kept, ClientFacts, PostFacts DEF Steps
    <2>3. \A m \in flight' : Exists(m.inv)
        <3>1. flight' = flight \cup {[op |-> o, edge |-> e, inv |-> client[o].snap]}
            BY <2>1, ClientFacts, PostFacts
        <3> QED BY <3>1, Kept
    <2>4. \/ pending' = pending
          \/ /\ pending # None /\ pending'.cand = pending.cand
             /\ pending'.recovery = pending.recovery
        BY <1>12, TargetsFacts DEF SendRecovery, Track, Bound
    <2>5. Only(NoAllocations)
        BY <2>1, <2>2, <2>3, <2>4, Kept, CreatesFrom
    <2> QED BY <1>0, <2>5
<1>13. ASSUME NEW m \in flight, AcceptInventory(m) PROVE Creates(NoAllocations)
    <2>0. m.op \in Ops
        BY DEF Typed, TypeOK, Request
    <2>1. /\ UNCHANGED <<ctl, pending, uploads, uncommitted>> /\ flight' \subseteq flight
          /\ \A f \in Edges : edge'[f] = edge[f] \/ edge'[f] = m.inv
        BY <1>13 DEF AcceptInventory, Typed, TypeOK
    <2>2. \A p \in Ops : client'[p].snap = client[p].snap
        BY <1>13, <2>0, ClientFacts, ReplyFacts DEF AcceptInventory, Steps
    <2>3. Only(NoAllocations)
        BY <2>1, <2>2, Kept, CreatesFrom
    <2> QED BY <1>0, <2>3
<1> HIDE DEF Only
<1> QED BY <1>1, <1>2, <1>3, <1>4, <1>5, <1>6, <1>7, <1>8, <1>9, <1>10, <1>11, <1>12, <1>13,
           <1>14
        DEF Next

\* A step never takes the controller back, a proposal goes away only when its candidate
\* is not ahead of the controller, and a candidate ceases to be uncommitted only when
\* the controller advances to it.
Forward ==
    /\ ctl'.gen >= ctl.gen /\ ctl'.agen >= ctl.agen
    /\ ctl' # ctl => ctl'.gen > ctl.gen \/ ctl'.agen > ctl.agen
    /\ pending # None =>
           \/ pending' # None /\ pending'.cand = pending.cand /\ pending'.base = pending.base
           \/ pending' = None /\ pending.cand.agen <= ctl'.agen
    /\ \A u \in uncommitted : u \in uncommitted' \/ (u = ctl' /\ ctl'.agen > ctl.agen)

\* A proposal appears with a candidate one generation ahead of the controller.
Proposed ==
    pending = None /\ pending' # None =>
        /\ ctl' = ctl /\ pending'.cand.gen = ctl.gen
        /\ pending'.cand.agen = ctl.agen + 1 /\ pending'.base = ctl.agen
        /\ pending'.cand \in uncommitted'

LEMMA StepForward ==
    ASSUME Typed, Ordered, RecoveryIsAbove, [Next]_vars
    PROVE  Forward /\ Proposed
<1> USE DEF history, copying, Forward, Proposed
<1>i. /\ ctl.gen \in Nat /\ ctl.agen \in Nat
      /\ pending # None => pending.cand.agen \in Nat /\ pending.base \in Nat /\ pending \in Proposal
    BY CtlFacts, PendingFacts
<1>k. ASSUME UNCHANGED <<ctl, pending, uncommitted>> PROVE Forward /\ Proposed
    BY <1>i, <1>k
<1>1. CASE UNCHANGED vars
    BY <1>1, <1>k DEF vars
<1>2. ASSUME NEW sched \in SUBSET Workers, MembershipChange(sched) PROVE Forward /\ Proposed
    BY <1>2, <1>i, MembershipFacts DEF MembershipChange
<1>3. ASSUME (\E e \in Edges : UploadInventory(e)) \/ \E u \in uploads : InstallInventory(u)
      PROVE  Forward /\ Proposed
    BY <1>3, <1>k DEF UploadInventory, InstallInventory
<1>4. ASSUME NEW o \in Ops, Acquire(o) \/ End(o) \/ LoseFence(o) \/ GiveUp(o) \/ Ready(o)
      PROVE  Forward /\ Proposed
    BY <1>4, <1>k DEF Acquire, End, LoseFence, GiveUp, Ready
<1>5. ASSUME NEW o \in Ops, Recover(o) PROVE Forward /\ Proposed
    <2>1. CASE UNCHANGED <<ctl, pending, uncommitted>>
        BY <1>k, <2>1
    <2>2. CASE /\ pending # None /\ ctl' = RecoveryCopy
               /\ uncommitted' = uncommitted \ {RecoveryCopy}
               /\ pending' = [pending EXCEPT !.recovery = RecoveryCopy]
        <3>1. pending' \in Proposal /\ pending'.cand = pending.cand /\ pending'.base = pending.base
            BY <2>2, CopyFacts, RecoveryFacts
        <3> QED BY <1>i, <2>2, <3>1, CopyFacts, AllocationAssumption
    <2> QED BY <1>5, <2>1, <2>2, RecoverCases
<1>6. ASSUME NEW o \in Ops, RecoverCrash(o) PROVE Forward /\ Proposed
    BY <1>6, <1>i, CopyFacts DEF RecoverCrash
<1>7. ASSUME NEW o \in Ops, AckRecovery(o) \/ Ack(o) PROVE Forward /\ Proposed
    <2>1. pending # None /\ client[o].at \in Edges /\ UNCHANGED <<ctl, uncommitted>>
        BY <1>7, PendingFacts DEF AckRecovery, Recovering, Ack, Bound
    <2>2. pending' \in Proposal /\ pending'.cand = pending.cand /\ pending'.base = pending.base
        BY <1>7, <2>1, RecoveredFacts, AckedFacts DEF AckRecovery, Ack
    <2> QED BY <1>i, <2>1, <2>2, AllocationAssumption
<1>8. ASSUME NEW o \in Ops, FinalizeRecovery(o) PROVE Forward /\ Proposed
    <2>1. pending # None /\ pending.recovery # None /\ pending' = None
          /\ UNCHANGED <<ctl, uncommitted>>
        BY <1>8 DEF FinalizeRecovery, Recovering
    <2>2. pending.recovery.agen \in Nat
        BY <2>1, PendingFacts
    <2> QED BY <1>i, <2>1, <2>2 DEF RecoveryIsAbove, Advances
<1>9. ASSUME NEW o \in Ops, NEW ws \in SUBSET Workers, Prepare(o, ws) PROVE Forward /\ Proposed
    <2>1. ctl' = ctl
        BY <1>9 DEF Prepare
    <2>2. CASE pending # None /\ UNCHANGED <<pending, uncommitted>>
        BY <1>k, <2>1, <2>2
    <2>3. CASE /\ pending = None /\ pending' = NewProposal(o, ws)
               /\ uncommitted' = uncommitted \cup {Candidate(o, ws)}
        BY <1>i, <2>1, <2>3, CandidateFacts
    <2> QED BY <1>9, <2>2, <2>3, PrepareCases
<1>10. ASSUME NEW o \in Ops, Commit(o) \/ CommitCrash(o) PROVE Forward /\ Proposed
    <2>1. /\ pending # None /\ ctl' = pending.cand /\ (pending' = None \/ pending' = pending)
          /\ ctl.gen = pending.cand.gen /\ ctl.agen = pending.base
          /\ uncommitted' = uncommitted \ {pending.cand}
        BY <1>10 DEF Commit, CommitCrash, CanCommit, Bound, BaseUnchanged
    <2>2. pending.cand.agen = pending.base + 1
        BY <2>1 DEF Ordered
    <2> QED BY <1>i, <2>1, <2>2
<1>11. ASSUME NEW o \in Ops, NEW e \in Edges, SyncEdge(o, e) \/ SendRecovery(o, e)
       PROVE  Forward /\ Proposed
    BY <1>11, <1>k DEF SyncEdge, SendRecovery
<1>12. ASSUME NEW o \in Ops, NEW e \in Edges, Track(o, e) PROVE Forward /\ Proposed
    <2>1. pending # None /\ UNCHANGED <<ctl, uncommitted>>
        BY <1>12 DEF Track, Bound
    <2>2. pending' \in Proposal /\ pending'.cand = pending.cand /\ pending'.base = pending.base
        BY <1>12, <2>1, TargetsFacts DEF Track
    <2> QED BY <1>i, <2>1, <2>2, AllocationAssumption
<1>13. ASSUME NEW m \in flight, AcceptInventory(m) PROVE Forward /\ Proposed
    BY <1>13, <1>k DEF AcceptInventory
<1> HIDE DEF Forward, Proposed
<1> QED BY <1>1, <1>2, <1>3, <1>4, <1>5, <1>6, <1>7, <1>8, <1>9, <1>10, <1>11, <1>12, <1>13
        DEF Next

LEMMA OrderedNext ==
    ASSUME Typed, Ordered, Forward, Proposed, [Next]_vars
    PROVE  Ordered'
<1>t. Typed'
    BY TypeNext
<1>i. /\ ctl.gen \in Nat /\ ctl.agen \in Nat /\ ctl'.gen \in Nat /\ ctl'.agen \in Nat
      /\ pending # None =>
             /\ pending.cand.agen \in Nat /\ pending.cand.gen \in Nat /\ pending.base \in Nat
             /\ pending.cand \in Inventory
    BY <1>t, CtlFacts, PendingFacts DEF Typed, TypeOK, Inventory
<1>g. \A i \in Inventory : i.gen \in Nat /\ i.agen \in Nat
    BY DEF Inventory
<1> DEFINE Behind(i) == /\ i.gen <= ctl'.gen
                        /\ i.agen <= ctl'.agen \/ (pending' # None /\ i = pending'.cand)
<1>1. ASSUME NEW i \in Inventory, Exists(i) PROVE Behind(i)
    <2>1. /\ i.gen <= ctl.gen
          /\ i.agen <= ctl.agen \/ (pending # None /\ i = pending.cand)
        BY <1>1 DEF Ordered
    <2> QED BY <1>i, <1>g, <2>1 DEF Forward
<1>2. \A i \in Inventory : Exists(i)' => Behind(i)
    <2>0. Behind(ctl')
        BY <1>i
    <2>1. CASE Creates(NoAllocations)
        BY <2>1, <1>1, Kept DEF Creates
    <2>2. CASE Creates(ctl')
        BY <2>0, <2>2, <1>1 DEF Creates
    <2>3. CASE ctl' = RecoveryCopy /\ Creates(RecoveryCopy)
        BY <2>0, <2>3, <1>1 DEF Creates
    <2>4. ASSUME NEW o \in Ops, NEW ws \in SUBSET Workers,
                 pending = None, pending' = NewProposal(o, ws), ctl' = ctl,
                 Creates(Candidate(o, ws))
          PROVE  \A i \in Inventory : Exists(i)' => Behind(i)
        <3>1. Behind(Candidate(o, ws))
            BY <1>i, <2>4, CandidateFacts, AllocationAssumption
        <3> QED BY <1>1, <2>4, <3>1 DEF Creates
    <2> QED BY <2>1, <2>2, <2>3, <2>4, Creation
<1>3. pending' # None =>
          /\ pending'.cand.agen = pending'.base + 1 /\ pending'.base <= ctl'.agen
          /\ pending'.cand \in uncommitted' \/ pending'.cand.agen <= ctl'.agen
    BY <1>i DEF Forward, Proposed, Ordered
<1> QED BY <1>2, <1>3 DEF Ordered

LEMMA UniqueNext ==
    ASSUME Typed, Ordered, Unique, Forward, [Next]_vars
    PROVE  Unique'
<1>i. /\ ctl.gen \in Nat /\ ctl.agen \in Nat
      /\ pending # None =>
             pending.cand.agen \in Nat /\ pending.cand.gen \in Nat /\ pending.cand \in Inventory
    BY CtlFacts, PendingFacts
<1>g. \A i \in Inventory : i.gen \in Nat /\ i.agen \in Nat
    BY DEF Inventory
\* What is ahead of the controller is the candidate.
<1>a. ASSUME NEW i \in Inventory, Exists(i), i.agen > ctl.agen
      PROVE  pending # None /\ i = pending.cand
    BY <1>a, <1>i, <1>g DEF Ordered
\* The new inventory n may share its generations with a candidate that is given up.
<1> DEFINE After(i, j) == i = j \/ (i.agen = MaxAllocationGeneration
                                       /\ (i \in uncommitted' \/ j \in uncommitted'))
           Fresh(n) == \A i \in Inventory :
               Exists(i) /\ i.gen = n.gen /\ i.agen = n.agen => After(i, n)
<1>k. ASSUME NEW i \in Inventory, NEW j \in Inventory, Exists(i), Exists(j),
             i.gen = j.gen, i.agen = j.agen
      PROVE  After(i, j)
    <2>1. Same(i, j)
        BY <1>k DEF Unique
    <2>2. ASSUME i.agen > ctl.agen PROVE i = j
        BY <1>a, <1>k, <2>2
    <2>3. ASSUME i \in uncommitted, i \notin uncommitted' PROVE i = j
        BY <2>2, <2>3 DEF Forward
    <2>4. ASSUME j \in uncommitted, j \notin uncommitted' PROVE i = j
        BY <1>k, <2>2, <2>4 DEF Forward
    <2> QED BY <2>1, <2>3, <2>4 DEF Same
<1>1. ASSUME NEW n, Creates(n), Fresh(n) PROVE Unique'
    <2> SUFFICES ASSUME NEW i \in Inventory, NEW j \in Inventory, Exists(i)', Exists(j)',
                        i.gen = j.gen, i.agen = j.agen
                 PROVE  After(i, j)
        BY DEF Unique, Same
    <2>1. (Exists(i) \/ i = n) /\ (Exists(j) \/ j = n)
        BY <1>1 DEF Creates
    <2>2. CASE Exists(i) /\ Exists(j)
        BY <1>k, <2>2
    <2>3. CASE Exists(i) /\ j = n
        BY <1>1, <2>3
    <2>4. CASE i = n /\ Exists(j)
        BY <1>1, <2>4
    <2>5. CASE i = n /\ j = n
        BY <2>5
    <2> QED BY <2>1, <2>2, <2>3, <2>4, <2>5
<1>2. CASE Creates(NoAllocations)
    <2>1. Fresh(NoAllocations)
        BY <1>k, InitialTypes, Kept
    <2> QED BY <1>1, <1>2, <2>1
<1>3. ASSUME NEW sched \in SUBSET Workers, MembershipChange(sched), Creates(ctl') PROVE Unique'
    <2>1. \A i \in Inventory : Exists(i) => i.gen # ctl'.gen
        BY <1>3, <1>i, <1>g, MembershipFacts DEF Ordered
    <2> QED BY <1>1, <1>3, <2>1
<1>4. CASE pending # None /\ ctl' = RecoveryCopy /\ Creates(RecoveryCopy)
    <2>1. ASSUME NEW i \in Inventory, Exists(i), i.gen = RecoveryCopy.gen,
                 i.agen = RecoveryCopy.agen, i # RecoveryCopy
          PROVE  i.agen = MaxAllocationGeneration /\ i \in uncommitted'
        <3>1. i.agen = RecoveryGeneration /\ RecoveryGeneration > ctl.agen
            BY <1>4, <2>1, CopyFacts
        <3>2. i = pending.cand
            BY <1>a, <2>1, <3>1
        <3>3. i.agen = MaxAllocationGeneration
            BY <1>4, <1>i, <3>1, <3>2, CopyFacts, CopyAbove
        <3>4. i \in uncommitted
            BY <1>4, <1>i, <3>1, <3>2 DEF Ordered
        <3> QED BY <1>4, <2>1, <3>3, <3>4 DEF Forward
    <2>2. Fresh(RecoveryCopy)
        BY <2>1
    <2> QED BY <1>1, <1>4, <2>2
<1>5. ASSUME NEW o \in Ops, NEW ws \in SUBSET Workers,
             pending = None, Creates(Candidate(o, ws))
      PROVE  Unique'
    <2>1. \A i \in Inventory : Exists(i) => i.agen # Candidate(o, ws).agen
        BY <1>5, <1>i, <1>g, CandidateFacts DEF Ordered
    <2> QED BY <1>1, <1>5, <2>1
<1> QED BY <1>2, <1>3, <1>4, <1>5, Creation

-----------------------------------------------------------------------------
(* Convergence.                                                            *)

LEMMA AdvancesFacts ==
    ASSUME NEW r \in Inventory
    PROVE  /\ Advances(r, r)
           /\ \A i, j \in Inventory : Advances(r, i) /\ Advances(i, j) => Advances(r, j)
           /\ \A u, i \in Inventory : Beyond(r, u) /\ Advances(r, i) => Beyond(i, u)
           /\ \A u \in Inventory : Beyond(r, u) => ~Advances(r, u)
<1>1. \A i \in Inventory : i.gen \in Nat /\ i.agen \in Nat
    BY DEF Inventory
<1> QED BY <1>1 DEF Advances, Beyond

\* What the controller's inventory may replace, no edge goes below.
EdgesKeep ==
    \A e \in Edges, r \in Inventory :
        Advances(r, ctl) /\ Has(e, r) => e \in stale' \/ Advances(r, edge'[e])

LEMMA EdgeFacts ==
    ASSUME Typed
    PROVE  \A e \in Edges : edge[e] \in Inventory /\ edge[e].agen \in Nat /\ edge[e].gen \in Nat
BY DEF Typed, TypeOK, Inventory

LEMMA RequestFacts ==
    ASSUME Typed, NEW m \in flight
    PROVE  m.op \in Ops /\ m.edge \in Edges /\ m.inv \in Inventory /\ m.inv.agen \in Nat
BY DEF Typed, TypeOK, Request, Inventory

LEMMA EdgesNext ==
    ASSUME Typed, [Next]_vars
    PROVE  EdgesKeep
<1> USE DEF history, copying
<1>k. ASSUME UNCHANGED <<edge, stale>> PROVE EdgesKeep
    BY <1>k DEF EdgesKeep, Has
<1>1. ASSUME NEW e \in Edges, edge' = [edge EXCEPT ![e] = ctl], stale' = stale \ {e}
      PROVE  EdgesKeep
    BY <1>1 DEF EdgesKeep, Has, Typed, TypeOK
<1>2. ASSUME NEW m \in flight, AcceptInventory(m) PROVE EdgesKeep
    <2>1. \A e \in Edges : edge'[e] = edge[e] \/ Advances(edge[e], edge'[e])
        BY <1>2, RequestFacts DEF AcceptInventory, Typed, TypeOK
    <2>2. \A e \in Edges : edge'[e] \in Inventory
        BY <1>2, EdgeFacts, RequestFacts DEF AcceptInventory, Typed, TypeOK
    <2>3. stale' = stale
        BY <1>2 DEF AcceptInventory
    <2> QED BY <2>1, <2>2, <2>3, EdgeFacts, AdvancesFacts DEF EdgesKeep, Has
<1>3. CASE UNCHANGED vars
    BY <1>3, <1>k DEF vars
<1>4. ASSUME NEW o \in Ops,
             \/ Acquire(o) \/ End(o) \/ LoseFence(o) \/ GiveUp(o) \/ Ready(o) \/ Recover(o)
             \/ RecoverCrash(o) \/ AckRecovery(o) \/ FinalizeRecovery(o) \/ Ack(o) \/ Commit(o)
             \/ CommitCrash(o) \/ \E ws \in SUBSET Workers : Prepare(o, ws)
             \/ \E e \in Edges : SendRecovery(o, e) \/ Track(o, e)
      PROVE  EdgesKeep
    BY <1>4, <1>k DEF Acquire, End, LoseFence, GiveUp, Ready, Recover, RecoverCrash, AckRecovery,
                      FinalizeRecovery, Ack, Commit, CommitCrash, Prepare, SendRecovery, Track
<1>5. ASSUME (\E sched \in SUBSET Workers : MembershipChange(sched))
             \/ \E e \in Edges : UploadInventory(e)
      PROVE  EdgesKeep
    BY <1>5, <1>k DEF MembershipChange, UploadInventory
<1>6. ASSUME NEW e \in Edges, NEW o \in Ops, SyncEdge(o, e) PROVE EdgesKeep
    BY <1>6, <1>1 DEF SyncEdge
<1>7. ASSUME NEW u \in uploads, InstallInventory(u) PROVE EdgesKeep
    <2>0. u.edge \in Edges
        BY DEF Typed, TypeOK, Upload
    <2>1. CASE u.inv = ctl
        BY <1>1, <1>7, <2>0, <2>1 DEF InstallInventory
    <2>2. CASE u.inv # ctl
        BY <1>7, <2>0, <2>2 DEF InstallInventory, EdgesKeep, Has, Typed, TypeOK
    <2> QED BY <2>1, <2>2
<1> QED BY <1>2, <1>3, <1>4, <1>5, <1>6, <1>7 DEF Next

Shared == Settled /\ AbandonedIsTracked /\ LatePosts /\ RecoveryIsAbove

\* The steps that change nothing but the clients, the fence and the uploads.
LEMMA SharedStutter ==
    ASSUME Shared, UNCHANGED <<ctl, pending, flight, edge, uncommitted, stale>>
    PROVE  Shared'
BY DEF Shared, Settled, AbandonedIsTracked, LatePosts, RecoveryIsAbove, IsPending, Has

LEMMA SharedNext ==
    ASSUME Typed, Ordered, Shared, Clients, Forward, [Next]_vars
    PROVE  Shared'
<1> USE DEF history, copying
<1>i. /\ ctl.gen \in Nat /\ ctl.agen \in Nat
      /\ pending # None =>
             /\ pending.cand.agen \in Nat /\ pending.cand \in Inventory
             /\ pending.targets \subseteq Edges /\ pending.recovered \subseteq Edges
             /\ pending.recovery # None => pending.recovery.agen \in Nat
    BY CtlFacts, PendingFacts
<1>u. \A u \in uncommitted : /\ u \in Inventory /\ u.agen \in Nat /\ u.gen \in Nat
                             /\ u.gen <= ctl.gen
    BY Kept DEF Typed, TypeOK, Inventory, Ordered
<1>e. \A e \in Edges : edge[e] \in Inventory /\ edge[e].agen \in Nat
    BY EdgeFacts
<1>m. \A m \in flight : m.edge \in Edges /\ m.inv \in Inventory /\ m.inv.agen \in Nat
    BY RequestFacts
<1>s. Settled /\ AbandonedIsTracked /\ LatePosts /\ RecoveryIsAbove
    BY DEF Shared
<1>c. /\ ctl \in Inventory /\ ctl' \in Inventory /\ ctl'.gen \in Nat /\ ctl'.agen \in Nat
      /\ NoAllocations \in Inventory
      /\ pending # None /\ pending.recovery # None => pending.recovery \in Inventory
    BY TypeNext, InitialTypes, CtlFacts, PendingFacts DEF Typed, TypeOK, Inventory
<1>k. EdgesKeep
    BY EdgesNext
\* What the controller may replace, it may replace for ever.
<1>a. \A r \in Inventory : Advances(r, ctl) => Advances(r, ctl')
    <2>1. Advances(ctl, ctl')
        BY <1>i, <1>c DEF Forward, Advances
    <2> QED BY <1>c, <2>1, AdvancesFacts
<1>1. CASE UNCHANGED vars
    BY <1>1, SharedStutter DEF vars
<1>2. ASSUME NEW o \in Ops, Acquire(o) \/ End(o) \/ LoseFence(o) \/ GiveUp(o) \/ Ready(o)
      PROVE  Shared'
    BY <1>2, SharedStutter DEF Acquire, End, LoseFence, GiveUp, Ready
<1>14. ASSUME NEW e \in Edges, UploadInventory(e) PROVE Shared'
    BY <1>14, SharedStutter DEF UploadInventory
<1>3. ASSUME NEW sched \in SUBSET Workers, MembershipChange(sched) PROVE Shared'
    <2>1. /\ ctl'.gen = ctl.gen + 1 /\ ctl'.agen >= ctl.agen /\ ctl'.agen \in Nat
          /\ UNCHANGED <<pending, flight, edge, uncommitted, stale>>
        BY <1>3, MembershipFacts DEF MembershipChange, Inventory
    <2>2. Settled'
        BY <1>a, <1>c, <1>i, <1>u, <1>s, <2>1 DEF Settled, IsPending, Beyond
    <2>3. AbandonedIsTracked' /\ LatePosts' /\ RecoveryIsAbove'
        BY <1>a, <1>c, <1>i, <1>s, <2>1
        DEF AbandonedIsTracked, LatePosts, RecoveryIsAbove, IsPending, Has
    <2> QED BY <2>2, <2>3 DEF Shared
<1>4. ASSUME NEW e \in Edges, UNCHANGED <<ctl, pending, flight, uncommitted>>,
             edge' = [edge EXCEPT ![e] = ctl], stale' = stale \ {e}
      PROVE  Shared'
    <2>1. edge'[e] = ctl /\ \A f \in Edges \ {e} : edge'[f] = edge[f]
        BY <1>4 DEF Typed, TypeOK
    <2>2. Settled'
        BY <1>s, <1>4 DEF Settled, IsPending
    <2>3. AbandonedIsTracked'
        BY <1>s, <1>4, <2>1 DEF AbandonedIsTracked, Settled
    <2>4. LatePosts'
        BY <1>m, <1>s, <1>4, <2>1 DEF LatePosts, Settled, IsPending
    <2>5. RecoveryIsAbove'
        BY <1>c, <1>i, <1>k, <1>s, <1>4 DEF RecoveryIsAbove, EdgesKeep, Has
    <2> QED BY <2>2, <2>3, <2>4, <2>5 DEF Shared
<1>15. ASSUME NEW u \in uploads, InstallInventory(u) PROVE Shared'
    <2>0. u.edge \in Edges
        BY DEF Typed, TypeOK, Upload
    <2>1. CASE u.inv = ctl
        BY <1>4, <1>15, <2>0, <2>1 DEF InstallInventory
    <2>2. CASE u.inv # ctl
        <3>1. /\ UNCHANGED <<ctl, pending, flight, uncommitted>>
              /\ stale' = stale \cup {u.edge}
              /\ \A f \in Edges \ {u.edge} : edge'[f] = edge[f]
            BY <1>15, <2>0, <2>2 DEF InstallInventory, Typed, TypeOK
        <3>2. Settled' /\ AbandonedIsTracked'
            BY <1>s, <3>1 DEF Settled, AbandonedIsTracked, IsPending
        <3>3. LatePosts'
            BY <1>m, <1>s, <3>1 DEF LatePosts, IsPending
        <3>4. RecoveryIsAbove'
            BY <1>c, <1>i, <1>k, <1>s, <3>1 DEF RecoveryIsAbove, EdgesKeep, Has
        <3> QED BY <3>2, <3>3, <3>4 DEF Shared
    <2> QED BY <2>1, <2>2
<1>16. ASSUME NEW o \in Ops, NEW e \in Edges, SyncEdge(o, e) PROVE Shared'
    BY <1>4, <1>16 DEF SyncEdge
<1>5. ASSUME NEW o \in Ops, Recover(o) \/ RecoverCrash(o) PROVE Shared'
    <2>0. UNCHANGED <<flight, edge, stale>>
        BY <1>5 DEF Recover, RecoverCrash
    <2>1. CASE UNCHANGED <<ctl, pending, uncommitted>>
        BY <2>0, <2>1, SharedStutter
    <2>2. ASSUME pending # None, ctl' = RecoveryCopy, uncommitted' = uncommitted \ {RecoveryCopy},
                 \/ pending' = pending
                 \/ /\ pending.recovery = None
                    /\ pending' = [pending EXCEPT !.recovery = RecoveryCopy]
          PROVE  Shared'
        <3>1. /\ ctl'.agen > ctl.agen /\ ctl'.agen >= pending.cand.agen /\ ctl'.agen \in Nat
              /\ RecoveryCopy # None /\ ctl'.gen = ctl.gen
            BY <1>i, <2>2, CopyFacts, CopyAbove, AllocationAssumption
        <3>2. /\ pending' # None /\ pending'.cand = pending.cand
              /\ pending'.targets = pending.targets /\ pending'.recovered = pending.recovered
              /\ \/ pending'.recovery = pending.recovery
                 \/ pending.recovery = None /\ pending'.recovery = RecoveryCopy
            BY <2>2, CopyFacts, RecoveryFacts, AllocationAssumption
        <3>3. ctl' \notin uncommitted' /\ uncommitted' \subseteq uncommitted
            BY <2>2
        <3>4. Settled'
            <4>1. \A u \in uncommitted' : u.agen > 0 /\ (Beyond(ctl', u) \/ u = pending.cand)
                BY <1>i, <1>u, <1>s, <2>2, <3>1, <3>3 DEF Settled, IsPending, Beyond
            <4>2. Advances(NoAllocations, ctl')
                BY <1>a, <1>c, <1>s DEF Settled
            <4> QED BY <3>2, <3>3, <4>1, <4>2 DEF Settled, IsPending
        <3>5. AbandonedIsTracked' /\ LatePosts'
            BY <1>s, <2>0, <2>2, <3>2, <3>3 DEF AbandonedIsTracked, LatePosts, IsPending
        <3>6. pending.cand \in uncommitted' => Beyond(ctl', pending.cand)
            BY <1>i, <1>u, <2>2, <3>1 DEF Beyond
        <3>7. Advances(ctl', ctl')
            BY <1>c, AdvancesFacts
        <3>8. RecoveryIsAbove'
            <4>1. CASE pending'.recovery = pending.recovery
                BY <1>a, <1>c, <1>s, <2>0, <2>2, <3>2, <3>3, <4>1 DEF RecoveryIsAbove, Has
            <4>2. CASE pending.recovery = None /\ pending'.recovery = RecoveryCopy
                BY <1>s, <2>2, <3>1, <3>2, <3>3, <3>6, <3>7, <4>2 DEF RecoveryIsAbove
            <4> QED BY <3>2, <4>1, <4>2
        <3> QED BY <3>4, <3>5, <3>8 DEF Shared
    <2> QED BY <1>5, <2>1, <2>2, RecoverCases DEF RecoverCrash
<1>6. ASSUME NEW o \in Ops, AckRecovery(o) PROVE Shared'
    <2>1. /\ pending # None /\ pending.recovery # None /\ client[o].at \in Edges
          /\ UNCHANGED <<ctl, flight, edge, uncommitted, stale>>
        BY <1>6, PendingFacts DEF AckRecovery, Recovering
    <2>2. /\ pending' # None /\ pending'.cand = pending.cand
          /\ pending'.targets = pending.targets /\ pending'.recovery = pending.recovery
          /\ pending'.recovered = pending.recovered \cup {client[o].at}
        BY <1>6, <2>1, RecoveredFacts, AllocationAssumption DEF AckRecovery
    <2>3. Has(client[o].at, pending.recovery)
        BY <1>6, <2>1 DEF AckRecovery, Recovering, Clients, Recoverer, Publishing, IsPending
    <2>4. Settled' /\ AbandonedIsTracked' /\ LatePosts'
        BY <1>s, <2>1, <2>2 DEF Settled, AbandonedIsTracked, LatePosts, IsPending
    <2>5. RecoveryIsAbove'
        BY <1>s, <2>1, <2>2, <2>3 DEF RecoveryIsAbove, Has
    <2> QED BY <2>4, <2>5 DEF Shared
<1>7. ASSUME NEW o \in Ops, FinalizeRecovery(o) PROVE Shared'
    <2>1. /\ pending # None /\ pending.recovery # None /\ pending.targets = pending.recovered
          /\ pending' = None /\ UNCHANGED <<ctl, flight, edge, uncommitted, stale>>
        BY <1>7 DEF FinalizeRecovery, Recovering
    <2>2. ASSUME pending.cand \in uncommitted
          PROVE  /\ Beyond(ctl, pending.cand)
                 /\ \A e \in pending.targets : e \in stale \/ Beyond(edge[e], pending.cand)
        BY <1>c, <1>i, <1>e, <1>s, <2>1, <2>2, AdvancesFacts DEF RecoveryIsAbove, Has
    <2>3. Settled'
        BY <1>s, <2>1, <2>2 DEF Settled, IsPending
    <2>4. AbandonedIsTracked'
        BY <1>i, <1>s, <2>1, <2>2 DEF AbandonedIsTracked, Beyond
    <2>5. LatePosts'
        BY <1>s, <2>1, <2>2 DEF LatePosts, IsPending
    <2>6. RecoveryIsAbove'
        BY <2>1 DEF RecoveryIsAbove
    <2> QED BY <2>3, <2>4, <2>5, <2>6 DEF Shared
<1>8. ASSUME NEW o \in Ops, NEW ws \in SUBSET Workers, Prepare(o, ws) PROVE Shared'
    <2>0. UNCHANGED <<ctl, flight, edge, stale>>
        BY <1>8 DEF Prepare
    <2>1. CASE UNCHANGED <<pending, uncommitted>>
        BY <2>0, <2>1, SharedStutter
    <2>2. CASE /\ pending = None /\ pending' = NewProposal(o, ws)
               /\ uncommitted' = uncommitted \cup {Candidate(o, ws)}
        <3>1. /\ pending' # None /\ pending'.cand = Candidate(o, ws)
              /\ pending'.recovery = None /\ pending'.recovered = {}
              /\ Candidate(o, ws).agen = ctl.agen + 1
            BY <2>2, CandidateFacts, AllocationAssumption
        <3>2. \A i \in Inventory : Exists(i) => i # Candidate(o, ws)
            BY <1>i, <2>2, <3>1 DEF Ordered
        <3>3. Settled'
            BY <1>i, <1>u, <1>s, <2>0, <2>2, <3>1 DEF Settled, IsPending
        <3>4. AbandonedIsTracked'
            BY <1>e, <1>s, <2>0, <2>2, <3>2, Kept DEF AbandonedIsTracked
        <3>5. LatePosts'
            BY <1>m, <1>s, <2>0, <2>2, <3>1, <3>2, Kept DEF LatePosts, IsPending
        <3>6. RecoveryIsAbove'
            BY <3>1 DEF RecoveryIsAbove
        <3> QED BY <3>3, <3>4, <3>5, <3>6 DEF Shared
    <2> QED BY <1>8, <2>1, <2>2, PrepareCases
<1>9. ASSUME NEW o \in Ops, Ack(o) PROVE Shared'
    <2>1. pending # None /\ client[o].at \in Edges /\ UNCHANGED <<ctl, flight, edge, uncommitted, stale>>
        BY <1>9, PendingFacts DEF Ack, Bound
    <2>2. /\ pending' # None /\ pending'.cand = pending.cand
          /\ pending'.targets = pending.targets /\ pending'.recovery = pending.recovery
          /\ pending'.recovered = pending.recovered
        BY <1>9, <2>1, AckedFacts, AllocationAssumption DEF Ack
    <2> QED BY <1>s, <2>1, <2>2
            DEF Shared, Settled, AbandonedIsTracked, LatePosts, RecoveryIsAbove, IsPending, Has
<1>10. ASSUME NEW o \in Ops, Commit(o) \/ CommitCrash(o) PROVE Shared'
    <2>1. /\ pending # None /\ ctl' = pending.cand /\ UNCHANGED <<flight, edge, stale>>
          /\ uncommitted' = uncommitted \ {pending.cand}
          /\ (pending' = None \/ pending' = pending) /\ ctl.agen = pending.base
        BY <1>10 DEF Commit, CommitCrash, CanCommit, Bound, BaseUnchanged
    <2>2. pending.cand.agen = ctl.agen + 1
        BY <2>1 DEF Ordered
    <2>3. Settled'
        <3>1. \A u \in uncommitted' : u.agen > 0 /\ Beyond(ctl', u)
            BY <1>i, <1>u, <1>s, <2>1, <2>2 DEF Settled, IsPending, Beyond
        <3>2. Advances(NoAllocations, ctl')
            BY <1>a, <1>c, <1>s DEF Settled
        <3> QED BY <2>1, <3>1, <3>2 DEF Settled
    <2>4. AbandonedIsTracked'
        BY <1>s, <2>1 DEF AbandonedIsTracked
    <2>5. LatePosts'
        BY <1>s, <2>1 DEF LatePosts, IsPending
    <2>6. RecoveryIsAbove'
        BY <1>a, <1>c, <1>s, <2>1 DEF RecoveryIsAbove, Has
    <2> QED BY <2>3, <2>4, <2>5, <2>6 DEF Shared
<1>11. ASSUME NEW o \in Ops, NEW e \in Edges, SendRecovery(o, e) PROVE Shared'
    <2> DEFINE r == [op |-> o, edge |-> e, inv |-> client[o].snap]
    <2>1. UNCHANGED <<ctl, pending, edge, uncommitted, stale>> /\ flight' = flight \cup {r}
        BY <1>11, ClientFacts, PostFacts DEF SendRecovery
    <2>2. r.inv \notin uncommitted
        BY <1>11 DEF SendRecovery, Clients, Recoverer
    <2> HIDE DEF r
    <2>3. LatePosts'
        BY <1>s, <2>1, <2>2 DEF LatePosts, IsPending
    <2> QED BY <1>s, <2>1, <2>3
            DEF Shared, Settled, AbandonedIsTracked, RecoveryIsAbove, IsPending, Has
<1>12. ASSUME NEW o \in Ops, NEW e \in Edges, Track(o, e) PROVE Shared'
    <2> DEFINE r == [op |-> o, edge |-> e, inv |-> client[o].snap]
    <2>1. /\ pending # None /\ UNCHANGED <<ctl, edge, uncommitted, stale>>
          /\ flight' = flight \cup {r}
        BY <1>12, ClientFacts, PostFacts DEF Track, Bound
    <2>2. /\ pending' # None /\ pending'.cand = pending.cand
          /\ pending'.targets = pending.targets \cup {e}
          /\ pending'.recovery = pending.recovery /\ pending'.recovered = pending.recovered
        BY <1>12, <2>1, TargetsFacts, AllocationAssumption DEF Track
    <2>3. r.inv = pending.cand /\ r.edge = e
        BY <1>12 DEF Track, Bound, Clients
    <2> HIDE DEF r
    <2>4. LatePosts'
        BY <1>s, <2>1, <2>2, <2>3 DEF LatePosts, IsPending
    <2>5. Settled' /\ AbandonedIsTracked' /\ RecoveryIsAbove'
        BY <1>s, <2>1, <2>2 DEF Settled, AbandonedIsTracked, RecoveryIsAbove, IsPending, Has
    <2> QED BY <2>4, <2>5 DEF Shared
<1>13. ASSUME NEW m \in flight, AcceptInventory(m) PROVE Shared'
    <2>1. /\ UNCHANGED <<ctl, pending, uncommitted, stale>> /\ flight' \subseteq flight
          /\ edge'[m.edge] = m.inv /\ \A f \in Edges \ {m.edge} : edge'[f] = edge[f]
          /\ Advances(edge[m.edge], m.inv)
        BY <1>13, <1>m DEF AcceptInventory, Typed, TypeOK
    <2>2. Settled'
        BY <1>s, <2>1 DEF Settled, IsPending
    <2>3. AbandonedIsTracked'
        BY <1>e, <1>m, <1>s, <2>1, AdvancesFacts DEF AbandonedIsTracked, LatePosts, IsPending
    <2>4. LatePosts'
        BY <1>e, <1>m, <1>s, <2>1, AdvancesFacts DEF LatePosts, IsPending
    <2>5. RecoveryIsAbove'
        BY <1>c, <1>i, <1>k, <1>s, <2>1 DEF RecoveryIsAbove, EdgesKeep, Has
    <2> QED BY <2>2, <2>3, <2>4, <2>5 DEF Shared
<1> QED BY <1>1, <1>2, <1>3, <1>5, <1>6, <1>7, <1>8, <1>9, <1>10, <1>11, <1>12, <1>13,
           <1>14, <1>15, <1>16
        DEF Next

ClientOK(c) ==
    /\ c.mode = "recovery" => Recoverer(c)
    /\ c.mode = "proposal" => c.snap = c.id

\* What a client that does not move depends on.
LEMMA ClientKept ==
    ASSUME Typed, Ordered, Shared, [Next]_vars, Forward, Proposed, NEW p \in Ops,
           ClientOK(client[p]), client'[p] = client[p],
           \A u \in uncommitted' :
               u \in uncommitted \/ (pending = None /\ pending' # None /\ u = pending'.cand),
           pending # None /\ pending' # None /\ pending.recovery # None =>
               pending'.recovery = pending.recovery
    PROVE  ClientOK(client[p])'
<1> DEFINE c == client[p]
<1>i. /\ ctl.agen \in Nat /\ ctl'.agen \in Nat /\ ctl.gen \in Nat /\ ctl'.gen \in Nat
      /\ ctl \in Inventory /\ ctl' \in Inventory
      /\ c.snap.agen \in Nat /\ c.id.agen \in Nat
      /\ c.snap \in Inventory /\ c.id \in Inventory
    BY TypeNext, CtlFacts, ClientFacts DEF Typed, TypeOK, Inventory
<1>k. EdgesKeep
    BY EdgesNext
<1>c. c' = c
    OBVIOUS
<1> SUFFICES ASSUME c.mode = "recovery" PROVE Recoverer(c)'
    BY <1>c DEF ClientOK
<1>0. Recoverer(c)
    BY DEF ClientOK
<1> HIDE DEF c
<1>a. Advances(ctl, ctl')
    BY <1>i DEF Forward, Advances
<1>1. c.snap.agen <= ctl.agen /\ c.snap \notin uncommitted /\ Advances(c.snap, ctl')
    <2>1. Advances(c.snap, ctl) /\ c.snap \notin uncommitted
        BY <1>0 DEF Recoverer
    <2> QED BY <1>i, <1>a, <2>1, AdvancesFacts DEF Advances
<1>p. ASSUME pending = None, pending' # None
      PROVE  pending'.cand.agen = ctl.agen + 1
    BY <1>p DEF Proposed
<1>2. c.snap \notin uncommitted'
    BY <1>i, <1>1, <1>p
<1>3. ASSUME Publishing(c), IsPending(c.id)'
      PROVE  pending'.recovery # None /\ c.snap = pending'.recovery
    <2>1. c.id.agen <= c.snap.agen
        BY <1>0, <1>3 DEF Recoverer
    <2>2. pending' # None /\ c.id = pending'.cand
        BY <1>c, <1>3 DEF IsPending
    <2>3. pending # None
        BY <1>i, <1>1, <1>p, <2>1, <2>2
    <2>4. IsPending(c.id)
        BY <2>2, <2>3 DEF IsPending, Forward
    <2> QED BY <1>0, <1>3, <2>2, <2>3, <2>4 DEF Recoverer
<1>4. ASSUME c.pc = "ack"
      PROVE  c.at \in Edges /\ (c.at \in stale' \/ Advances(c.snap, edge'[c.at]))
    BY <1>i, <1>k, <1>0, <1>4 DEF EdgesKeep, Recoverer
<1> QED BY <1>c, <1>0, <1>1, <1>2, <1>3, <1>4 DEF Recoverer, Publishing, IsPending, Has

\* A client that starts over publishes nothing.
LEMMA ClientRestarted ==
    ASSUME Typed', Settled', NEW o \in Ops,
           client'[o].pc \in {"recover", "sync", "ready", "ended"},
           client'[o].mode = "recovery", client'[o].snap = NoAllocations
    PROVE  ClientOK(client[o])'
<1>1. NoAllocations.agen = 0 /\ Advances(NoAllocations, ctl')
    BY DEF NoAllocations, Settled
<1>2. NoAllocations \notin uncommitted'
    BY <1>1 DEF Settled
<1> QED BY <1>1, <1>2 DEF ClientOK, Recoverer, Publishing

LEMMA ClientsNext ==
    ASSUME Typed, Ordered, Shared, Clients, [Next]_vars
    PROVE  Clients'
<1> USE DEF history, copying
<1>f. Forward /\ Proposed /\ Typed' /\ Shared'
    <2>1. Forward /\ Proposed
        BY StepForward DEF Shared
    <2> QED BY <2>1, TypeNext, SharedNext
<1>s. Settled' /\ RecoveryIsAbove'
    BY <1>f DEF Shared
<1>o. \A p \in Ops : ClientOK(client[p])
    BY DEF Clients, ClientOK
<1>g. (\A p \in Ops : ClientOK(client[p])') => Clients'
    BY DEF Clients, ClientOK
<1>i. ctl.agen \in Nat /\ ctl'.agen \in Nat /\ ctl'.agen >= ctl.agen
    BY <1>f, CtlFacts DEF Forward, Typed, TypeOK, Inventory
<1> DEFINE Calm == /\ \A u \in uncommitted' :
                          \/ u \in uncommitted
                          \/ pending = None /\ pending' # None /\ u = pending'.cand
                   /\ pending # None /\ pending' # None /\ pending.recovery # None =>
                          pending'.recovery = pending.recovery
<1>k. ASSUME Calm, NEW p \in Ops, client'[p] = client[p] PROVE ClientOK(client[p])'
    BY <1>f, <1>o, <1>k, ClientKept
<1>w. ASSUME Calm, NEW o \in Ops, Steps(o), ClientOK(client[o])' PROVE Clients'
    BY <1>g, <1>k, <1>w DEF Steps
<1>r. ASSUME Calm, NEW o \in Ops, Steps(o), client'[o].mode = "recovery",
             client'[o].pc \in {"recover", "sync", "ready", "ended"},
             client'[o].snap = NoAllocations
      PROVE  Clients'
    BY <1>f, <1>s, <1>r, <1>w, ClientRestarted
<1>z. ASSUME client' = client, Calm PROVE Clients'
    BY <1>g, <1>k, <1>z
<1>q. UNCHANGED <<pending, uncommitted>> => Calm
    OBVIOUS
<1> HIDE DEF Calm
<1>1. CASE UNCHANGED vars
    BY <1>1, <1>q, <1>z DEF vars
<1>2. ASSUME NEW sched \in SUBSET Workers, MembershipChange(sched) PROVE Clients'
    BY <1>2, <1>q, <1>z DEF MembershipChange
<1>3. ASSUME (\E e \in Edges : UploadInventory(e)) \/ \E u \in uploads : InstallInventory(u)
      PROVE  Clients'
    BY <1>3, <1>q, <1>z DEF UploadInventory, InstallInventory
<1>4. ASSUME NEW o \in Ops, LoseFence(o) PROVE Clients'
    BY <1>4, <1>q, <1>z DEF LoseFence
<1>5. ASSUME NEW o \in Ops, Acquire(o) \/ End(o) \/ GiveUp(o) \/ Ready(o) PROVE Clients'
    <2>1. UNCHANGED <<pending, uncommitted>>
        BY <1>5 DEF Acquire, End, GiveUp, Ready
    <2>2. /\ Steps(o) /\ client'[o].mode = "recovery" /\ client'[o].snap = NoAllocations
          /\ client'[o].pc \in {"recover", "ready", "ended"}
        BY <1>5, CtlFacts, ClientFacts, AcquireFacts, ReturnFacts DEF Acquire, End, GiveUp, Ready
    <2> QED BY <1>q, <1>r, <2>1, <2>2
<1>6. ASSUME NEW o \in Ops, Recover(o) PROVE Clients'
    <2>1. CASE UNCHANGED <<pending, uncommitted>> /\ Steps(o) /\ client'[o].pc = "sync"
               /\ client'[o].mode = "recovery" /\ client'[o].snap = NoAllocations
        BY <1>q, <1>r, <2>1
    <2>2. ASSUME pending # None, pending' # None, pending'.recovery # None,
                 Calm, Steps(o), client'[o].pc = "next", client'[o].mode = "recovery",
                 client'[o].snap = pending'.recovery, client'[o].id = pending'.cand
          PROVE  Clients'
        <3>1. /\ pending'.recovery.agen >= pending'.cand.agen
              /\ Advances(pending'.recovery, ctl')
              /\ pending'.recovery \notin uncommitted'
            BY <1>s, <2>2 DEF RecoveryIsAbove
        <3>2. pending'.recovery.agen \in Nat /\ pending'.cand.agen \in Nat
            BY <1>f, <2>2 DEF Typed, TypeOK, Proposal, Inventory
        <3>3. ClientOK(client[o])'
            BY <2>2, <3>1, <3>2 DEF ClientOK, Recoverer, Publishing, IsPending
        <3> QED BY <1>w, <2>2, <3>3
    <2>3. CASE pending # None /\ pending.recovery # None /\ UNCHANGED <<pending, uncommitted>>
               /\ Steps(o) /\ client'[o].pc = "next" /\ client'[o].mode = "recovery"
               /\ client'[o].snap = pending.recovery /\ client'[o].id = pending.cand
        BY <1>q, <2>2, <2>3
    <2>4. CASE /\ pending # None /\ pending.recovery = None
               /\ uncommitted' = uncommitted \ {RecoveryCopy}
               /\ pending' = [pending EXCEPT !.recovery = RecoveryCopy]
               /\ Steps(o) /\ client'[o].pc = "next" /\ client'[o].mode = "recovery"
               /\ client'[o].snap = RecoveryCopy /\ client'[o].id = pending.cand
        <3>1. /\ pending' # None /\ pending'.recovery = RecoveryCopy
              /\ pending'.cand = pending.cand /\ RecoveryCopy # None
            BY <2>4, CopyFacts, RecoveryFacts, AllocationAssumption
        <3>2. Calm
            BY <2>4 DEF Calm
        <3> QED BY <2>2, <2>4, <3>1, <3>2
    <2> QED BY <1>6, <2>1, <2>3, <2>4, RecoverCases
<1>7. ASSUME NEW o \in Ops, RecoverCrash(o) PROVE Clients'
    <2>1. Calm
        BY <1>7 DEF RecoverCrash, Calm
    <2> QED BY <1>7, <1>r, <2>1, ClientFacts, ReturnFacts DEF RecoverCrash
<1>8. ASSUME NEW o \in Ops, AckRecovery(o) PROVE Clients'
    <2>1. pending # None /\ client[o].at \in Edges /\ UNCHANGED <<ctl, uncommitted>>
          /\ client[o].pc = "ack" /\ client[o].mode = "recovery"
        BY <1>8, PendingFacts DEF AckRecovery, Recovering
    <2>2. /\ pending' # None /\ pending'.recovery = pending.recovery
          /\ pending'.cand = pending.cand
        BY <1>8, <2>1, RecoveredFacts, AllocationAssumption DEF AckRecovery
    <2>3. /\ Steps(o) /\ client'[o].pc = "next" /\ client'[o].mode = client[o].mode
          /\ client'[o].snap = client[o].snap /\ client'[o].id = client[o].id
        BY <1>8, ClientFacts, DoneFacts DEF AckRecovery
    <2>4. ClientOK(client[o])'
        BY <1>o, <2>1, <2>2, <2>3 DEF ClientOK, Recoverer, Publishing, IsPending
    <2>5. Calm
        BY <2>1, <2>2 DEF Calm
    <2> QED BY <1>w, <2>3, <2>4, <2>5
<1>9. ASSUME NEW o \in Ops, FinalizeRecovery(o) PROVE Clients'
    <2>1. Calm
        BY <1>9 DEF FinalizeRecovery, Calm
    <2> QED BY <1>9, <1>r, <2>1, ClientFacts, SynchronizeFacts DEF FinalizeRecovery
<1>10. ASSUME NEW o \in Ops, NEW ws \in SUBSET Workers, Prepare(o, ws) PROVE Clients'
    <2>1. /\ Steps(o) /\ client'[o].mode = "proposal" /\ client'[o].snap = client'[o].id
        BY <1>10, PrepareCases
    <2>2. Calm
        <3>1. CASE UNCHANGED <<pending, uncommitted>>
            BY <1>q, <3>1
        <3>2. CASE /\ pending = None /\ pending' = NewProposal(o, ws)
                   /\ uncommitted' = uncommitted \cup {Candidate(o, ws)}
            <4>1. pending' # None /\ pending'.cand = Candidate(o, ws)
                BY <3>2, CandidateFacts, AllocationAssumption
            <4> QED BY <3>2, <4>1 DEF Calm
        <3> QED BY <1>10, <3>1, <3>2, PrepareCases
    <2>3. ClientOK(client[o])'
        BY <2>1 DEF ClientOK
    <2> QED BY <1>w, <2>1, <2>2, <2>3
<1>11. ASSUME NEW o \in Ops, Ack(o) PROVE Clients'
    <2>1. pending # None /\ client[o].at \in Edges /\ UNCHANGED uncommitted
          /\ client[o].mode = "proposal"
        BY <1>11, PendingFacts DEF Ack, Bound
    <2>2. pending' # None /\ pending'.recovery = pending.recovery
        BY <1>11, <2>1, AckedFacts, AllocationAssumption DEF Ack
    <2>3. /\ Steps(o) /\ client'[o].mode = client[o].mode
          /\ client'[o].snap = client[o].snap /\ client'[o].id = client[o].id
        BY <1>11, ClientFacts, DoneFacts DEF Ack
    <2>4. ClientOK(client[o])'
        BY <1>o, <2>1, <2>3 DEF ClientOK
    <2>5. Calm
        BY <2>1, <2>2 DEF Calm
    <2> QED BY <1>w, <2>3, <2>4, <2>5
<1>12. ASSUME NEW o \in Ops, Commit(o) \/ CommitCrash(o) PROVE Clients'
    <2>1. Calm
        BY <1>12 DEF Commit, CommitCrash, Calm
    <2> QED BY <1>12, <1>r, <2>1, ClientFacts, ReturnFacts DEF Commit, CommitCrash
<1>13. ASSUME NEW o \in Ops, NEW e \in Edges, SyncEdge(o, e) PROVE Clients'
    <2>1. /\ Steps(o) /\ client'[o].pc = client[o].pc /\ client'[o].mode = client[o].mode
          /\ client'[o].snap = client[o].snap /\ client'[o].id = client[o].id
        BY <1>13, ClientFacts, SyncFacts DEF SyncEdge
    <2>2. UNCHANGED <<ctl, pending, uncommitted>> /\ client[o].pc = "sync"
        BY <1>13 DEF SyncEdge
    <2>3. ClientOK(client[o])'
        BY <1>o, <2>1, <2>2 DEF ClientOK, Recoverer, Publishing
    <2> QED BY <1>q, <1>w, <2>1, <2>2, <2>3
<1>14. ASSUME NEW o \in Ops, NEW e \in Edges, SendRecovery(o, e) \/ Track(o, e) PROVE Clients'
    <2>1. /\ Steps(o) /\ client'[o].pc = "posted" /\ client'[o].mode = client[o].mode
          /\ client'[o].snap = client[o].snap /\ client'[o].id = client[o].id
        BY <1>14, ClientFacts, PostFacts DEF SendRecovery, Track
    <2>2. /\ UNCHANGED <<ctl, uncommitted>> /\ client[o].pc = "next"
          /\ \/ pending' = pending
             \/ /\ pending # None /\ pending' # None /\ pending'.recovery = pending.recovery
                /\ pending'.cand = pending.cand
        BY <1>14, TargetsFacts, AllocationAssumption DEF SendRecovery, Track, Bound
    <2>3. ClientOK(client[o])'
        BY <1>o, <2>1, <2>2 DEF ClientOK, Recoverer, Publishing, IsPending
    <2>4. Calm
        BY <2>2 DEF Calm
    <2> QED BY <1>w, <2>1, <2>3, <2>4
<1>15. ASSUME NEW m \in flight, AcceptInventory(m) PROVE Clients'
    <2>0. m.op \in Ops /\ m.edge \in Edges /\ m.inv \in Inventory
        BY RequestFacts
    <2>1. UNCHANGED <<ctl, pending, uncommitted>> /\ edge'[m.edge] = m.inv
        BY <1>15, <2>0 DEF AcceptInventory, Typed, TypeOK
    <2>2. CASE client' = client
        BY <1>q, <1>z, <2>1, <2>2
    <2>3. CASE AwaitsReply(m) /\ client' = [client EXCEPT ![m.op].pc = "ack"]
        <3>1. /\ Steps(m.op) /\ client'[m.op].pc = "ack" /\ client'[m.op].at = m.edge
              /\ client[m.op].pc = "posted" /\ client'[m.op].mode = client[m.op].mode
              /\ client'[m.op].snap = client[m.op].snap /\ client[m.op].snap = m.inv
              /\ client'[m.op].id = client[m.op].id
            BY <2>0, <2>3, ClientFacts, ReplyFacts DEF AwaitsReply
        <3>2. ClientOK(client[m.op])'
            BY <1>o, <2>0, <2>1, <3>1, AdvancesFacts
            DEF ClientOK, Recoverer, Publishing, IsPending, Has
        <3> QED BY <1>q, <1>w, <2>0, <2>1, <3>1, <3>2
    <2> QED BY <1>15, <2>2, <2>3 DEF AcceptInventory
<1> QED BY <1>1, <1>2, <1>3, <1>4, <1>5, <1>6, <1>7, <1>8, <1>9, <1>10, <1>11, <1>12, <1>13,
           <1>14, <1>15
        DEF Next

-----------------------------------------------------------------------------
(* Publication.                                                            *)

\* The client publishes the pending proposal as its own.
Owner(o) ==
    /\ client[o].mode = "proposal" /\ Publishing(client[o])
    /\ IsPending(client[o].id) /\ pending.op = o

Reached(o) ==
    /\ EdgesOf[o] \ client[o].todo \subseteq held
    /\ client[o].pc = "ack" => client[o].at \in held

LEMMA HandshakeNext ==
    ASSUME Typed, Clients, Handshake, [Next]_vars
    PROVE  Handshake'
<1> USE DEF history, copying
<1>h. \A p \in Ops : Owner(p) => Reached(p)
    BY DEF Handshake, Owner, Reached
<1>g. (\A p \in Ops : Owner(p)' => Reached(p)') => Handshake'
    BY DEF Handshake, Owner, Reached
<1> DEFINE Calm == /\ held \subseteq held'
                   /\ pending # None
                   /\ pending' # None => pending'.cand = pending.cand /\ pending'.op = pending.op
<1>n. ASSUME pending' = None PROVE Handshake'
    BY <1>g, <1>n DEF Owner, IsPending
<1>k. ASSUME NEW p \in Ops, client'[p] = client[p], Calm PROVE Owner(p)' => Reached(p)'
    BY <1>h, <1>k DEF Owner, Reached, Publishing, IsPending
<1>w. ASSUME Calm, NEW o \in Ops, Steps(o), Owner(o)' => Reached(o)' PROVE Handshake'
    BY <1>g, <1>k, <1>w DEF Steps
<1>z. ASSUME client' = client, UNCHANGED <<pending, held>> PROVE Handshake'
    BY <1>h, <1>g, <1>z DEF Owner, Reached, Publishing, IsPending
<1>r. ASSUME NEW o \in Ops, Steps(o), client'[o].mode = "recovery", UNCHANGED <<pending, held>>
      PROVE  Handshake'
    <2>1. CASE pending = None
        BY <1>n, <1>r, <2>1
    <2>2. CASE pending # None
        BY <1>r, <1>w, <2>2 DEF Owner
    <2> QED BY <2>1, <2>2
<1>1. CASE UNCHANGED vars
    BY <1>1, <1>z DEF vars
<1>2. ASSUME NEW sched \in SUBSET Workers, MembershipChange(sched) PROVE Handshake'
    BY <1>2, <1>z DEF MembershipChange
<1>3. ASSUME (\E e \in Edges : UploadInventory(e)) \/ \E u \in uploads : InstallInventory(u)
      PROVE  Handshake'
    BY <1>3, <1>z DEF UploadInventory, InstallInventory
<1>4. ASSUME NEW o \in Ops, LoseFence(o) PROVE Handshake'
    BY <1>4, <1>z DEF LoseFence
<1>5. ASSUME NEW o \in Ops, Acquire(o) \/ End(o) \/ GiveUp(o) \/ Ready(o) \/ RecoverCrash(o)
                            \/ CommitCrash(o)
      PROVE  Handshake'
    <2>1. UNCHANGED <<pending, held>>
        BY <1>5 DEF Acquire, End, GiveUp, Ready, RecoverCrash, CommitCrash
    <2>2. Steps(o) /\ client'[o].mode = "recovery"
        BY <1>5, CtlFacts, ClientFacts, AcquireFacts, ReturnFacts
        DEF Acquire, End, GiveUp, Ready, RecoverCrash, CommitCrash
    <2> QED BY <1>r, <2>1, <2>2
<1>6. ASSUME NEW o \in Ops, Recover(o) PROVE Handshake'
    <2>0. held' = held
        BY <1>6 DEF Recover
    <2>1. CASE UNCHANGED pending /\ Steps(o) /\ client'[o].mode = "recovery"
        BY <1>r, <2>0, <2>1
    <2>2. CASE /\ pending # None /\ pending' = [pending EXCEPT !.recovery = RecoveryCopy]
               /\ Steps(o) /\ client'[o].mode = "recovery"
        <3>1. pending'.cand = pending.cand /\ pending'.op = pending.op
            BY <2>2, CopyFacts, RecoveryFacts
        <3> QED BY <1>w, <2>0, <2>2, <3>1 DEF Owner
    <2> QED BY <1>6, <2>1, <2>2, RecoverCases
<1>7. ASSUME NEW o \in Ops, AckRecovery(o) PROVE Handshake'
    <2>1. pending # None /\ client[o].at \in Edges /\ held' = held /\ client[o].mode = "recovery"
        BY <1>7, PendingFacts DEF AckRecovery, Recovering
    <2>2. pending'.cand = pending.cand /\ pending'.op = pending.op
        BY <1>7, <2>1, RecoveredFacts DEF AckRecovery
    <2>3. Steps(o) /\ client'[o].mode = client[o].mode
        BY <1>7, ClientFacts, DoneFacts DEF AckRecovery
    <2> QED BY <1>w, <2>1, <2>2, <2>3 DEF Owner
<1>8. ASSUME NEW o \in Ops, FinalizeRecovery(o) \/ Commit(o) PROVE Handshake'
    BY <1>8, <1>n DEF FinalizeRecovery, Commit
<1>9. ASSUME NEW o \in Ops, NEW ws \in SUBSET Workers, Prepare(o, ws) PROVE Handshake'
    <2>0. held' = held
        BY <1>9 DEF Prepare
    <2>1. Steps(o) /\ client'[o].pc = "next" /\ client'[o].todo = EdgesOf[o]
        BY <1>9, PrepareCases
    <2>2. Reached(o)'
        BY <2>1 DEF Reached
    <2>3. CASE pending # None /\ UNCHANGED pending
        BY <1>w, <2>0, <2>1, <2>2, <2>3
    <2>4. CASE pending' = NewProposal(o, ws)
        <3>1. pending'.op = o
            BY <2>4, CandidateFacts
        <3> QED BY <1>g, <2>2, <3>1 DEF Owner
    <2> QED BY <1>9, <2>3, <2>4, PrepareCases
<1>10. ASSUME NEW o \in Ops, Ack(o) PROVE Handshake'
    <2>1. /\ pending # None /\ client[o].at \in Edges /\ held' = held
          /\ client[o].mode = "proposal" /\ client[o].pc = "ack"
        BY <1>10, PendingFacts DEF Ack, Bound
    <2>2. pending'.cand = pending.cand /\ pending'.op = pending.op
        BY <1>10, <2>1, AckedFacts DEF Ack
    <2>3. /\ Steps(o) /\ client'[o].pc = "next" /\ client'[o].id = client[o].id
          /\ client'[o].todo = client[o].todo \ {client[o].at}
        BY <1>10, ClientFacts, DoneFacts DEF Ack
    <2>4. Owner(o)
        BY <1>10, <2>1 DEF Ack, Bound, Owner, Publishing, IsPending
    <2>5. Reached(o)'
        BY <1>h, <2>1, <2>3, <2>4 DEF Reached
    <2> QED BY <1>w, <2>1, <2>2, <2>3, <2>5
<1>11. ASSUME NEW o \in Ops, NEW e \in Edges, SyncEdge(o, e) PROVE Handshake'
    <2>1. Steps(o) /\ client'[o].pc = "sync" /\ UNCHANGED <<pending, held>>
        BY <1>11, ClientFacts, SyncFacts DEF SyncEdge
    <2>2. CASE pending = None
        BY <1>n, <2>1, <2>2
    <2>3. CASE pending # None
        BY <1>w, <2>1, <2>3 DEF Owner, Publishing
    <2> QED BY <2>2, <2>3
<1>12. ASSUME NEW o \in Ops, NEW e \in Edges, SendRecovery(o, e) PROVE Handshake'
    BY <1>12, <1>r, ClientFacts, PostFacts DEF SendRecovery
<1>13. ASSUME NEW o \in Ops, NEW e \in Edges, Track(o, e) PROVE Handshake'
    <2>1. pending # None /\ held' = held /\ Owner(o)
        BY <1>13 DEF Track, Bound, Owner, Publishing, IsPending
    <2>2. pending'.cand = pending.cand /\ pending'.op = pending.op
        BY <1>13, <2>1, TargetsFacts DEF Track
    <2>3. Steps(o) /\ client'[o].pc = "posted" /\ client'[o].todo = client[o].todo
        BY <1>13, ClientFacts, PostFacts DEF Track
    <2>4. Reached(o)'
        BY <1>h, <2>1, <2>3 DEF Reached
    <2> QED BY <1>w, <2>1, <2>2, <2>3, <2>4
<1>14. ASSUME NEW m \in flight, AcceptInventory(m) PROVE Handshake'
    <2>0. m.op \in Ops
        BY RequestFacts
    <2>1. pending' = pending /\ held \subseteq held'
        BY <1>14 DEF AcceptInventory
    <2>2. CASE pending = None
        BY <1>n, <2>1, <2>2
    <2>3. CASE pending # None /\ client' = client
        BY <1>g, <1>k, <2>1, <2>3
    <2>4. CASE pending # None /\ AwaitsReply(m) /\ client' = [client EXCEPT ![m.op].pc = "ack"]
        <3>1. /\ Steps(m.op) /\ client'[m.op].at = m.edge /\ client'[m.op].pc = "ack"
              /\ client[m.op].pc = "posted" /\ client'[m.op].mode = client[m.op].mode
              /\ client[m.op].snap = m.inv /\ client'[m.op].todo = client[m.op].todo
              /\ client'[m.op].id = client[m.op].id
            BY <2>0, <2>4, ClientFacts, ReplyFacts DEF AwaitsReply
        <3>2. ASSUME Owner(m.op)' PROVE Reached(m.op)'
            <4>1. Owner(m.op)
                BY <2>1, <2>4, <3>1, <3>2 DEF Owner, Publishing, IsPending
            <4>2. m.inv = pending.cand
                BY <2>0, <3>1, <4>1 DEF Owner, IsPending, Clients
            <4>3. m.edge \in held'
                BY <1>14, <2>4, <4>2 DEF AcceptInventory
            <4> QED BY <1>h, <2>0, <2>1, <3>1, <4>1, <4>3 DEF Reached
        <3> QED BY <1>w, <2>0, <2>1, <2>4, <3>1, <3>2
    <2> QED BY <1>14, <2>2, <2>3, <2>4 DEF AcceptInventory
<1> QED BY <1>1, <1>2, <1>3, <1>4, <1>5, <1>6, <1>7, <1>8, <1>9, <1>10, <1>11, <1>12, <1>13,
           <1>14
        DEF Next

-----------------------------------------------------------------------------
(* The theorems.                                                           *)

Inductive == Typed /\ Ordered /\ Unique /\ Shared /\ Clients /\ Handshake

LEMMA InductiveInit == Init => Inductive
<1> SUFFICES ASSUME Init PROVE Inductive
    OBVIOUS
<1>1. Typed
    BY TypeInit
<1>2. \A i \in Inventory : Exists(i) => i = NoAllocations
    BY DEF Init, Exists, NewClient
<1>3. Ordered /\ Unique
    BY <1>1, <1>2, CtlFacts DEF Init, Ordered, Unique, Same
<1>a. Advances(NoAllocations, NoAllocations)
    BY InitialTypes, AdvancesFacts
<1>4. NoAllocations.agen = 0 /\ NewClient.mode = "recovery" /\ NewClient.snap = NoAllocations
      /\ NewClient.pc = "new"
    BY DEF NoAllocations, NewClient
<1>5. Shared
    BY <1>a DEF Init, Shared, Settled, AbandonedIsTracked, LatePosts, RecoveryIsAbove
<1>6. Clients /\ Handshake
    BY <1>4, <1>a DEF Init, Clients, Recoverer, Handshake, Publishing
<1> QED BY <1>1, <1>3, <1>5, <1>6 DEF Inductive

LEMMA InductiveNext == Inductive /\ [Next]_vars => Inductive'
<1> SUFFICES ASSUME Inductive, [Next]_vars PROVE Inductive'
    OBVIOUS
<1>1. Forward /\ Proposed
    BY StepForward DEF Inductive, Shared
<1> QED BY <1>1, TypeNext, OrderedNext, UniqueNext, SharedNext, ClientsNext, HandshakeNext
        DEF Inductive

\* Two inventories with the same two generations are the same, for any number of
\* operations, crashes, recoveries and delayed installations, unless one is a candidate
\* that was given up at the last generation.
THEOREM GenerationsIdentifyContent == Spec => []SameGenerationSameContent
<1>1. Inductive => SameGenerationSameContent
    <2> SUFFICES ASSUME Inductive, NEW i \in Inventories, NEW j \in Inventories,
                        i.gen = j.gen, i.agen = j.agen
                 PROVE  Same(i, j)
        BY DEF SameGenerationSameContent, Same
    <2>1. Inventories \subseteq Inventory
        BY DEF Inductive, Typed, TypeOK, Inventories, Request, Upload, Client
    <2>2. \A k \in Inventories : Exists(k)
        BY DEF Inventories, Exists
    <2> QED BY <2>1, <2>2 DEF Inductive, Unique
<1> QED BY InductiveInit, InductiveNext, <1>1, PTL DEF Spec

\* A proposal that was abandoned leaves nothing behind on an edge once it is
\* recovered, however many edges, operations and late POSTs there are, unless a delayed
\* installation has put an old inventory back on the edge.
THEOREM AbandonedLeavesNothing == Spec => []AbandonedIsTracked
<1>1. Inductive => AbandonedIsTracked
    BY DEF Inductive, Shared
<1> QED BY InductiveInit, InductiveNext, <1>1, PTL DEF Spec

\* A candidate is committed only after every edge of its operation has accepted it.
THEOREM PublishBeforeCommit == Spec => CommitAfterEveryEdge
<1>1. Inductive /\ [Next]_vars =>
          [\A o \in Ops :
               active = o /\ pending # None /\ pending.op = o /\ ctl' = pending.cand /\ ctl' # ctl
                   => EdgesOf[o] \subseteq held]_vars
    <2> SUFFICES ASSUME Inductive, [Next]_vars, NEW o \in Ops, active = o, pending # None,
                        pending.op = o, ctl' = pending.cand, ctl' # ctl
                 PROVE  EdgesOf[o] \subseteq held
        OBVIOUS
    <2>i. /\ Typed /\ pending.cand.agen \in Nat /\ pending.cand.gen \in Nat
          /\ pending.cand.gen <= ctl.gen /\ ctl.gen \in Nat
        BY PendingFacts, CtlFacts, Kept DEF Inductive, Ordered
    <2>1. ASSUME NEW sched \in SUBSET Workers, MembershipChange(sched) PROVE FALSE
        BY <2>i, <2>1, MembershipFacts
    <2>2. ASSUME NEW p \in Ops, Recover(p) \/ RecoverCrash(p) PROVE FALSE
        BY <2>i, <2>2, RecoverCases DEF RecoverCrash, Admitted
    <2>3. ASSUME NEW p \in Ops, Commit(p) \/ CommitCrash(p) PROVE EdgesOf[o] \subseteq held
        <3>1. /\ client[p].mode = "proposal" /\ Publishing(client[p]) /\ client[p].todo = {}
              /\ IsPending(client[p].id) /\ pending.op = p
            BY <2>3 DEF Commit, CommitCrash, CanCommit, Published, Bound, Publishing, IsPending
        <3> QED BY <3>1 DEF Inductive, Handshake
    <2>4. CASE UNCHANGED ctl
        BY <2>4
    <2>5. ASSUME NEW p \in Ops,
                 \/ Acquire(p) \/ End(p) \/ LoseFence(p) \/ GiveUp(p) \/ Ready(p)
                 \/ AckRecovery(p) \/ FinalizeRecovery(p) \/ Ack(p)
                 \/ \E ws \in SUBSET Workers : Prepare(p, ws)
                 \/ \E e \in Edges : SyncEdge(p, e) \/ SendRecovery(p, e) \/ Track(p, e)
          PROVE  UNCHANGED ctl
        BY <2>5 DEF Acquire, End, LoseFence, GiveUp, Ready, AckRecovery, FinalizeRecovery, Ack,
                    Prepare, SyncEdge, SendRecovery, Track
    <2>6. ASSUME \/ \E e \in Edges : UploadInventory(e)
                 \/ \E u \in uploads : InstallInventory(u)
                 \/ \E m \in flight : AcceptInventory(m)
          PROVE  UNCHANGED ctl
        BY <2>6 DEF UploadInventory, InstallInventory, AcceptInventory
    <2> QED BY <2>1, <2>2, <2>3, <2>4, <2>5, <2>6 DEF Next, vars
<1> QED BY InductiveInit, InductiveNext, <1>1, PTL DEF Spec, CommitAfterEveryEdge

\* The controller's authority never goes back and never changes under the same
\* generations.
THEOREM AuthorityNeverGoesBack == Spec => AuthorityIsMonotonic
<1>1. Inductive /\ [Next]_vars =>
          [ctl' # ctl => /\ ctl'.gen >= ctl.gen /\ ctl'.agen >= ctl.agen
                         /\ ctl'.gen > ctl.gen \/ ctl'.agen > ctl.agen]_vars
    BY StepForward DEF Inductive, Shared, Forward
<1> QED BY InductiveInit, InductiveNext, <1>1, PTL DEF Spec, AuthorityIsMonotonic

=============================================================================
