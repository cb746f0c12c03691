-------------------------- MODULE OperationJournal --------------------------
(***************************************************************************)
(* The durable operation queue of the platform worker.                     *)
(*                                                                         *)
(* A mutation is a file in queue/ until it is settled and a file in        *)
(* history/ afterwards.  Structured requests are claimed by the engine and *)
(* may outlive the process; streamed mutations are executed by the ingress *)
(* handler that received them.  The store mutex covers each store          *)
(* operation, so one is an action; where it writes, renames and journals,  *)
(* a fault may stop it after any of the three.                             *)
(*                                                                         *)
(* Abstracted: payloads and responses, byte budgets, the audit journal's   *)
(* contents.  Interactive upgrades are not modelled.                       *)
(***************************************************************************)
EXTENDS Integers, FiniteSets

CONSTANTS
    Op,          \* operations, numbered in the order of CreatedAt and ID
    Stream,      \* those of kind agent.stream; the others are agent.request
    ReplaySafe,  \* those Plan derives to be safe to replay
    Build,       \* those that need a build slot
    Malformed,   \* those Plan rejects
    MaxOps,      \* MaximumConcurrentOps
    MaxBuilds,   \* MaximumConcurrentBuilds
    MaxPending,  \* maxPendingOperations
    MaxFaults,   \* bound on crashes, shutdowns and failed writes
    None         \* a missing file

ASSUME OpAssumption ==
    /\ Op \subseteq Nat
    /\ Stream \subseteq Op /\ ReplaySafe \subseteq Op /\ Malformed \subseteq Op
    /\ Stream \cap ReplaySafe = {}
ASSUME LimitAssumption ==
    /\ MaxOps \in Nat \ {0} /\ MaxBuilds \in Nat \ {0} /\ MaxPending \in Nat
    /\ MaxFaults \in Nat

VARIABLES
    queue,       \* queue[o]: the file queue/<o>.json
    archive,     \* archive[o]: the file history/<o>.json
    mode,        \* the worker process
    task,        \* task[o]: the goroutine or handler that executes the operation
    enqueued,    \* operations that were ever accepted (IDs are random)
    dispatches,  \* dispatches[o]: sent to takod never, once or more often (0, 1, 2)
    answer,      \* answer[o]: what takod answered to the last dispatch
    faults       \* faults so far

vars == <<queue, archive, mode, task, enqueued, dispatches, answer, faults>>
files == <<queue, archive>>
ghosts == <<enqueued, dispatches, answer>>

Terminal == {"succeeded", "failed", "ambiguous"}
Status == {"queued", "running"} \cup Terminal
Phase == {"queued", "executing", "recovered", "interrupted", "completed", "failed",
          "not-dispatched", "recovery-failed", "outcome-unknown"}
Record == [status: Status, phase: Phase]

ASSUME RecordAssumption == None \notin Record

\* "cancelled": the process was told to stop and the context is done or about
\* to be; "draining": the engine's loop has returned on an error and waits for
\* its goroutines.
Mode == {"recovering", "running", "cancelled", "draining", "down"}
Up == {"running", "cancelled", "draining"}

\* "starting": a streamed operation queued but not yet marked running;
\* "claimed": before admission; "slot": waiting for a build slot;
\* "dispatched": sent to takod.
Task == {"none", "starting", "claimed", "slot", "dispatched"}
Answer == {"none", "unknown", "applied", "rejected"}

TypeOK ==
    /\ queue \in [Op -> Record \cup {None}]
    /\ archive \in [Op -> Record \cup {None}]
    /\ mode \in Mode
    /\ task \in [Op -> Task]
    /\ enqueued \subseteq Op
    /\ dispatches \in [Op -> 0..2]
    /\ answer \in [Op -> Answer]
    /\ faults \in Nat

Init ==
    /\ queue = [o \in Op |-> None]
    /\ archive = [o \in Op |-> None]
    /\ mode = "running"
    /\ task = [o \in Op |-> "none"]
    /\ enqueued = {}
    /\ dispatches = [o \in Op |-> 0]
    /\ answer = [o \in Op |-> "none"]
    /\ faults = 0

Rec(status, phase) == [status |-> status, phase |-> phase]

Fault == faults < MaxFaults /\ faults' = faults + 1
NoFault == UNCHANGED <<faults, mode>>

\* A failed store operation of the engine makes Run return; one of a stream
\* handler makes Serve return, and the engine goes on until the process exits.
FaultStops(o) ==
    /\ Fault
    /\ mode' = IF o \in Stream /\ mode # "draining" THEN "cancelled" ELSE "draining"

-----------------------------------------------------------------------------
(* The store.                                                              *)

\* writeLocked.
Written(o, rec) == queue' = [queue EXCEPT ![o] = rec]

\* pruneHistoryLocked: the oldest settled operations go, by age, number and
\* size; `kept' operations stay.
Pruned(h, kept) == [o \in Op |-> IF o \in kept THEN h[o] ELSE None]
Prunings == SUBSET Op

\* moveToHistoryLocked.  What was just written is not the oldest.
Moved(o, rec) ==
    /\ queue' = [queue EXCEPT ![o] = None]
    /\ \E kept \in Prunings : o \in kept /\ archive' = Pruned([archive EXCEPT ![o] = rec], kept)

\* complete and markAmbiguous: write the terminal record, move it, journal it.
Settled(o, rec) ==
    \/ Moved(o, rec) /\ NoFault
    \/ /\ FaultStops(o)
       /\ \/ UNCHANGED files
          \/ Written(o, rec) /\ UNCHANGED archive
          \/ Moved(o, rec)

\* requeue.
RequeuedUnknownStatus(o) ==
    Written(o, Rec("interrupted", "interrupted")) /\ UNCHANGED archive /\ NoFault
Requeued(o) ==
    \/ Written(o, Rec("queued", "interrupted")) /\ UNCHANGED archive /\ NoFault
    \/ FaultStops(o) /\ (UNCHANGED queue \/ Written(o, Rec("queued", "interrupted"))) /\ UNCHANGED archive

Pending == {o \in Op : queue[o] # None}

-----------------------------------------------------------------------------
(* Ingress.                                                                *)

\* Enqueue.  If only the audit record cannot be written the caller gets an
\* error although the operation is queued; a stream is then abandoned.
Enqueue(o) ==
    /\ mode \in Up /\ o \notin enqueued /\ Cardinality(Pending) < MaxPending
    /\ enqueued' = enqueued \cup {o}
    /\ Written(o, Rec("queued", "queued"))
    /\ \E kept \in Prunings : archive' = Pruned(archive, kept)
    /\ \/ NoFault /\ task' = [task EXCEPT ![o] = IF o \in Stream THEN "starting" ELSE "none"]
       \/ Fault /\ UNCHANGED <<mode, task>>
    /\ UNCHANGED <<dispatches, answer>>

\* Enqueue of an operation that is refused, for a full queue or a failed write,
\* has pruned the history all the same.
EnqueueRefused ==
    /\ mode \in Up
    /\ \E kept \in Prunings : archive' = Pruned(archive, kept)
    /\ UNCHANGED <<queue, mode, task, ghosts, faults>>

\* startExternal, after Enqueue: marked running before anything is sent.
StartExternal(o) ==
    /\ mode \in Up /\ task[o] = "starting"
    /\ \/ NoFault /\ Written(o, Rec("running", "executing")) /\ task' = [task EXCEPT ![o] = "claimed"]
       \/ /\ Fault /\ UNCHANGED mode
          /\ UNCHANGED queue \/ Written(o, Rec("running", "executing"))
          /\ task' = [task EXCEPT ![o] = "none"]
    /\ UNCHANGED <<archive, ghosts>>

-----------------------------------------------------------------------------
(* The engine.                                                             *)

InFlight == {o \in Op \ Stream : task[o] # "none"}

ClaimableFresh == {o \in Op \ Stream : queue[o] = Rec("queued", "queued") /\ task[o] = "none"}
Claimable ==
    {o \in Op \ Stream : queue[o] # None /\ queue[o].status = "queued" /\ task[o] = "none"}

\* claimNext: the oldest queued request that no goroutine still works on.
Claim(o) ==
    /\ mode \in {"running", "cancelled"} /\ Cardinality(InFlight) < MaxOps
    /\ o \in Claimable /\ \A p \in Claimable : o <= p
    /\ \/ NoFault /\ Written(o, Rec("running", "executing")) /\ task' = [task EXCEPT ![o] = "claimed"]
       \/ /\ FaultStops(o)
          /\ UNCHANGED queue \/ Written(o, Rec("running", "executing"))
          /\ UNCHANGED task
    /\ UNCHANGED <<archive, ghosts>>

OpSlots == {o \in Op : task[o] \in {"slot", "dispatched"}}
BuildSlots == {o \in Build : task[o] = "dispatched"}

Dispatched(o) ==
    /\ task' = [task EXCEPT ![o] = "dispatched"]
    /\ dispatches' = [dispatches EXCEPT ![o] = IF @ = 2 THEN 2 ELSE @ + 1]
    /\ answer' = [answer EXCEPT ![o] = "unknown"]
    /\ UNCHANGED <<files, mode, enqueued, faults>>

\* Admit: an operation slot, and for a build a build slot while holding it.
\* A done context does not keep a free slot from being taken.
Admit(o) ==
    /\ mode \in Up /\ o \notin Malformed
    /\ \/ /\ task[o] = "claimed" /\ Cardinality(OpSlots) < MaxOps
          /\ IF o \in Build
             THEN task' = [task EXCEPT ![o] = "slot"] /\ UNCHANGED <<files, mode, ghosts, faults>>
             ELSE Dispatched(o)
       \/ task[o] = "slot" /\ Cardinality(BuildSlots) < MaxBuilds /\ Dispatched(o)

\* Plan fails, the disk is low or a stream's caller has gone: a failure that
\* is known to have happened before dispatch.
RefuseBeforeDispatch(o) ==
    /\ mode \in Up /\ task[o] \in {"claimed", "slot"}
    /\ task[o] = "slot" => o \in Stream
    /\ Settled(o, Rec("failed", "failed"))
    /\ task' = [task EXCEPT ![o] = "none"]
    /\ UNCHANGED ghosts

\* The context is done while a request waits for admission.
CancelBeforeDispatch(o) ==
    /\ mode \in {"cancelled", "draining"} /\ o \notin Stream \cup Malformed
    /\ task[o] \in {"claimed", "slot"}
    /\ Requeued(o)
    /\ task' = [task EXCEPT ![o] = "none"]
    /\ UNCHANGED ghosts

\* takod answers: the effect took place (its answer may be too large to keep,
\* which counts as a failure) or was rejected.
ReturnAnswer(o) ==
    /\ mode \in Up /\ task[o] = "dispatched"
    /\ \/ /\ answer' = [answer EXCEPT ![o] = "applied"]
          /\ \/ Settled(o, Rec("succeeded", "completed"))
             \/ o \notin Stream /\ Settled(o, Rec("failed", "failed"))
       \/ /\ answer' = [answer EXCEPT ![o] = "rejected"]
          /\ Settled(o, Rec("failed", "failed"))
    /\ task' = [task EXCEPT ![o] = "none"]
    /\ UNCHANGED <<enqueued, dispatches>>

UncertainAsFailed(o) == Rec("failed", "failed")
\* The record of a dispatch that returned an error and no answer.
Uncertain(o) == IF o \in ReplaySafe THEN Rec("failed", "failed") ELSE Rec("ambiguous", "outcome-unknown")

ReturnError(o) ==
    /\ mode \in Up /\ task[o] = "dispatched"
    /\ Settled(o, Uncertain(o))
    /\ task' = [task EXCEPT ![o] = "none"]
    /\ UNCHANGED ghosts

\* The context is done while takod works on the request.
CancelAfterDispatch(o) ==
    /\ mode \in {"cancelled", "draining"} /\ o \notin Stream /\ task[o] = "dispatched"
    /\ IF o \in ReplaySafe THEN Requeued(o) ELSE Settled(o, Rec("ambiguous", "outcome-unknown"))
    /\ task' = [task EXCEPT ![o] = "none"]
    /\ UNCHANGED ghosts

-----------------------------------------------------------------------------
(* The process.                                                            *)

Stop ==
    /\ mode = "running" /\ Fault /\ mode' = "cancelled"
    /\ UNCHANGED <<files, task, ghosts>>

\* The process ends: orderly, or in the middle of anything.
Exit ==
    /\ mode # "down"
    /\ mode' = "down"
    /\ IF mode \in {"cancelled", "draining"} THEN UNCHANGED faults ELSE Fault
    /\ task' = [o \in Op |-> "none"]
    /\ UNCHANGED <<files, ghosts>>

Restart ==
    /\ mode = "down" /\ mode' = "recovering"
    /\ UNCHANGED <<files, task, ghosts, faults>>

\* What recoverIncomplete makes of a record it finds in the queue.
RecoveredReplays(o) ==
    IF queue[o].status = "running" THEN Rec("queued", "recovered") ELSE queue[o]
RecoveredReclassifies(o) ==
    IF queue[o].status # "queued" THEN Rec("ambiguous", "outcome-unknown") ELSE queue[o]
Recovered(o) ==
    IF queue[o].status = "running"
    THEN IF o \in Malformed THEN Rec("failed", "recovery-failed")
         ELSE IF o \in ReplaySafe THEN Rec("queued", "recovered")
         ELSE Rec("ambiguous", "outcome-unknown")
    ELSE IF queue[o].status = "queued" /\ o \in Stream THEN Rec("failed", "not-dispatched")
    ELSE queue[o]

\* The records recoverIncomplete acts on.
IncompleteRunning == {o \in Op : queue[o] # None /\ queue[o].status = "running"}
Incomplete == {o \in Op : queue[o] # None /\ ~(o \notin Stream /\ queue[o].status = "queued")}

\* One record of recoverIncomplete.
Recover(o) ==
    /\ mode = "recovering" /\ o \in Incomplete
    /\ LET rec == Recovered(o) IN
       IF rec.status = "queued"
       THEN Written(o, rec) /\ UNCHANGED <<archive, mode, faults>>
       ELSE \/ Moved(o, rec) /\ UNCHANGED <<mode, faults>>
            \/ Fault /\ mode' = "down" /\ Written(o, rec) /\ UNCHANGED archive
    /\ UNCHANGED <<task, ghosts>>

\* NewOperationEngine returns, the ingress opens and Run starts.
Serve ==
    /\ mode = "recovering" /\ Incomplete = {}
    /\ mode' = "running"
    /\ UNCHANGED <<files, task, ghosts, faults>>

-----------------------------------------------------------------------------
OpStep(o) ==
    \/ Enqueue(o) \/ StartExternal(o)
    \/ Claim(o) \/ Admit(o) \/ RefuseBeforeDispatch(o) \/ CancelBeforeDispatch(o)
    \/ ReturnAnswer(o) \/ ReturnError(o) \/ CancelAfterDispatch(o)
    \/ Recover(o)

Next == (\E o \in Op : OpStep(o)) \/ EnqueueRefused \/ Stop \/ Exit \/ Restart \/ Serve

Spec == Init /\ [][Next]_vars

\* The poll loop claims, a free slot goes to whoever waits for it (blocked
\* senders of a channel are served in turn), takod answers or the connection
\* fails, a stopped process exits, the service manager restarts it and
\* recovery runs.  Callers are under no obligation.
Fairness ==
    /\ \A o \in Op :
         /\ WF_vars(Claim(o))
         /\ SF_vars(Admit(o))
         /\ WF_vars(o \in Malformed /\ RefuseBeforeDispatch(o))
         /\ WF_vars(ReturnAnswer(o) \/ ReturnError(o) \/ CancelAfterDispatch(o))
         /\ WF_vars(StartExternal(o))
         /\ WF_vars(Recover(o))
    /\ WF_vars(mode \in {"cancelled", "draining"} /\ Exit)
    /\ WF_vars(Restart)
    /\ WF_vars(Serve)

FairSpec == Spec /\ Fairness

-----------------------------------------------------------------------------
(* Properties.                                                             *)

\* A mutation that is not safe to replay is sent to takod at most once,
\* whatever crashes, shutdowns and failed writes surround it (startExternal:
\* "rather than silently replaying it").
AtMostOnce == \A o \in Op \ ReplaySafe : dispatches[o] <= 1

\* The outcome on file for o, wherever it lies.
Outcome(o) == IF queue[o] # None THEN queue[o] ELSE archive[o]

\* The outcome on file is true: success was answered by takod, a failure of an
\* operation that cannot be replayed either came before dispatch or was
\* answered, and "retry is safe" (recoverIncomplete) is said only of an
\* operation that was never sent.
OutcomeHonest ==
    \A o \in Op : Outcome(o) # None =>
        /\ Outcome(o).status = "succeeded" => answer[o] = "applied"
        /\ Outcome(o).status = "failed" /\ o \notin ReplaySafe => answer[o] # "unknown"
        /\ Outcome(o).phase = "not-dispatched" => dispatches[o] = 0

\* While the worker serves, the live queue holds no settled operation
\* (recoverIncomplete: "must not leave a terminal record consuming live queue
\* capacity forever") and no running request without a goroutine.
QueueIsOwned ==
    mode = "running" =>
        \A o \in Pending :
            /\ queue[o].status \notin Terminal
            /\ queue[o].status = "running" /\ o \notin Stream => task[o] # "none"

\* A settled operation keeps its outcome until it is pruned.
OutcomeFinal ==
    [][\A o \in Op : Outcome(o) # None /\ Outcome(o).status \in Terminal =>
         Outcome(o)' = Outcome(o) \/ Outcome(o)' = None]_vars

\* Every queued request is settled in the end, after however many restarts.
RequestSettles == \A o \in Op \ Stream : o \in Pending ~> o \notin Pending
=============================================================================
