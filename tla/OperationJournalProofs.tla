----------------------- MODULE OperationJournalProofs -----------------------
(***************************************************************************)
(* The safety properties of OperationJournal, for every set of operations, *)
(* every limit and any number of faults.                                   *)
(***************************************************************************)
EXTENDS OperationJournal, TLAPS

\* What a file says about operation o is true (see OutcomeHonest).
Honest(o, rec) ==
    rec # None =>
        /\ rec.status = "succeeded" => answer[o] = "applied"
        /\ rec.status = "failed" /\ o \notin ReplaySafe => answer[o] # "unknown"
        /\ rec.phase = "not-dispatched" => rec.status = "failed" /\ dispatches[o] = 0

\* The files of an operation: fresh until accepted, then in one directory.
Filed(o) ==
    /\ o \notin enqueued =>
         queue[o] = None /\ archive[o] = None /\ task[o] = "none" /\ dispatches[o] = 0
    /\ archive[o] # None => queue[o] = None /\ archive[o].status \in Terminal

\* An operation somebody works on is marked running before it is sent.
Marked(o) ==
    task[o] # "none" =>
        /\ mode \in Up /\ queue[o] # None
        /\ task[o] = "starting" => queue[o].status = "queued"
        /\ task[o] # "starting" => queue[o].status = "running"

\* A queued operation, and one that waits for admission, was not yet sent.
Unsent(o) ==
    /\ dispatches[o] = 0 => answer[o] = "none" /\ task[o] # "dispatched"
    /\ o \in Malformed => dispatches[o] = 0
    /\ o \notin ReplaySafe =>
         /\ dispatches[o] <= 1
         /\ queue[o] # None /\ queue[o].status = "queued" => dispatches[o] = 0
         /\ task[o] \in {"claimed", "slot"} => dispatches[o] = 0

Local(o) == Filed(o) /\ Marked(o) /\ Unsent(o) /\ Honest(o, queue[o]) /\ Honest(o, archive[o])

\* The inductive invariant.
IInv == TypeOK /\ \A o \in Op : Local(o)

LEMMA InitIInv == Init => IInv
BY OpAssumption, LimitAssumption
   DEF Init, IInv, TypeOK, Local, Filed, Marked, Unsent, Honest, Mode, Task, Answer

-----------------------------------------------------------------------------
(* Operations a step does not act on.                                      *)

\* A step that leaves o's file, goroutine and ghosts alone, and at most prunes
\* its history, preserves what is said about o.
LEMMA Untouched ==
    ASSUME NEW o \in Op, Local(o),
           queue'[o] = queue[o], archive'[o] \in {archive[o], None}, task'[o] = task[o],
           dispatches'[o] = dispatches[o], answer'[o] = answer[o],
           o \in enqueued' <=> o \in enqueued,
           mode' \in Up \/ mode' = mode \/ task[o] = "none"
    PROVE  Local(o)'
<1>1. Filed(o)' BY DEF Local, Filed
<1>2. Marked(o)' BY DEF Local, Marked
<1>3. Unsent(o)' BY DEF Local, Unsent
<1>4. Honest(o, queue[o])' BY DEF Local, Honest
<1>5. Honest(o, archive[o])' BY DEF Local, Honest
<1> QED BY <1>1, <1>2, <1>3, <1>4, <1>5 DEF Local

-----------------------------------------------------------------------------
(* The store.                                                              *)

\* moveToHistoryLocked files the record and touches no other operation.
LEMMA MovedFiles ==
    ASSUME TypeOK, NEW o \in Op, NEW rec \in Record, Moved(o, rec)
    PROVE  /\ queue' \in [Op -> Record \cup {None}] /\ archive' \in [Op -> Record \cup {None}]
           /\ queue'[o] = None /\ archive'[o] = rec
           /\ \A p \in Op \ {o} : queue'[p] = queue[p] /\ archive'[p] \in {archive[p], None}
<1>1. PICK kept \in SUBSET Op :
        o \in kept /\ archive' = Pruned([archive EXCEPT ![o] = rec], kept)
  BY DEF Moved, Prunings
<1>2. /\ archive' \in [Op -> Record \cup {None}] /\ archive'[o] = rec
      /\ \A p \in Op \ {o} : archive'[p] \in {archive[p], None}
  BY <1>1 DEF Pruned, TypeOK
<1>3. /\ queue' \in [Op -> Record \cup {None}] /\ queue'[o] = None
      /\ \A p \in Op \ {o} : queue'[p] = queue[p]
  BY DEF Moved, TypeOK
<1> QED BY <1>2, <1>3

\* writeLocked replaces one file.
LEMMA WrittenFiles ==
    ASSUME TypeOK, NEW o \in Op, NEW rec \in Record, Written(o, rec)
    PROVE  /\ queue' \in [Op -> Record \cup {None}]
           /\ queue'[o] = rec /\ \A p \in Op \ {o} : queue'[p] = queue[p]
BY DEF TypeOK, Written

\* A fault keeps the process up for now.
LEMMA FaultMode ==
    ASSUME TypeOK, NEW o \in Op, NoFault \/ FaultStops(o)
    PROVE  mode' \in Mode /\ faults' \in Nat /\ (mode' = mode \/ mode' \in Up)
BY DEF TypeOK, NoFault, FaultStops, Fault, Mode, Up

\* complete and markAmbiguous leave the operation as it was, written or moved.
LEMMA SettledFiles ==
    ASSUME TypeOK, NEW o \in Op, NEW rec \in Record, Settled(o, rec)
    PROVE  /\ queue' \in [Op -> Record \cup {None}] /\ archive' \in [Op -> Record \cup {None}]
           /\ mode' \in Mode /\ faults' \in Nat /\ (mode' = mode \/ mode' \in Up)
           /\ \/ queue'[o] = None /\ archive'[o] = rec
              \/ queue'[o] = queue[o] /\ archive'[o] = archive[o]
              \/ queue'[o] = rec /\ archive'[o] = archive[o]
           /\ \A p \in Op \ {o} : queue'[p] = queue[p] /\ archive'[p] \in {archive[p], None}
<1>1. mode' \in Mode /\ faults' \in Nat /\ (mode' = mode \/ mode' \in Up)
  BY FaultMode DEF Settled
<1>2. CASE Moved(o, rec) BY <1>1, <1>2, MovedFiles
<1>3. CASE UNCHANGED files BY <1>1, <1>3 DEF files, TypeOK
<1>4. CASE Written(o, rec) /\ UNCHANGED archive BY <1>1, <1>4, WrittenFiles DEF TypeOK
<1> QED BY <1>2, <1>3, <1>4 DEF Settled

\* requeue leaves the operation as it was or queued again.
LEMMA RequeuedFiles ==
    ASSUME TypeOK, NEW o \in Op, Requeued(o)
    PROVE  /\ queue' \in [Op -> Record \cup {None}] /\ archive' = archive
           /\ mode' \in Mode /\ faults' \in Nat /\ (mode' = mode \/ mode' \in Up)
           /\ queue'[o] \in {queue[o], Rec("queued", "interrupted")}
           /\ \A p \in Op \ {o} : queue'[p] = queue[p]
<1>0. Rec("queued", "interrupted") \in Record BY DEF Rec, Record, Status, Phase
<1>1. mode' \in Mode /\ faults' \in Nat /\ (mode' = mode \/ mode' \in Up)
  BY FaultMode DEF Requeued
<1>2. CASE Written(o, Rec("queued", "interrupted"))
  BY <1>0, <1>1, <1>2, WrittenFiles DEF Requeued
<1>3. CASE UNCHANGED queue BY <1>1, <1>3 DEF Requeued, TypeOK
<1> QED BY <1>2, <1>3 DEF Requeued
-----------------------------------------------------------------------------
(* One step.                                                               *)

\* A goroutine or handler that leaves o with a true terminal record on file,
\* or with the file as it was, preserves the invariant: complete and
\* markAmbiguous with the end of their caller.
LEMMA SettleStep ==
    ASSUME IInv, NEW o \in Op, NEW rec \in Record, Settled(o, rec),
           rec.status \in Terminal, rec.phase # "not-dispatched",
           mode \in Up, task[o] \notin {"none", "starting"},
           task' = [task EXCEPT ![o] = "none"],
           enqueued' = enqueued, dispatches' = dispatches,
           answer' \in [Op -> Answer], \A p \in Op \ {o} : answer'[p] = answer[p],
           dispatches[o] = 0 => answer'[o] = "none",
           rec.status = "succeeded" => answer'[o] = "applied",
           rec.status = "failed" /\ o \notin ReplaySafe => answer'[o] # "unknown"
    PROVE  IInv'
<1>0. TypeOK /\ Local(o) BY DEF IInv
<1>1. TypeOK' BY <1>0, SettledFiles DEF TypeOK, Task
<1>2. queue[o] # None /\ queue[o].status = "running" /\ o \in enqueued /\ archive[o] = None
  BY <1>0 DEF Local, Marked, Filed
<1>3. \/ queue'[o] = None /\ archive'[o] = rec
      \/ queue'[o] = queue[o] /\ archive'[o] = None
      \/ queue'[o] = rec /\ archive'[o] = None
  BY <1>0, <1>2, SettledFiles
<1>4. task'[o] = "none" BY <1>0 DEF TypeOK
<1>5. Filed(o)' BY <1>2, <1>3 DEF Filed
<1>6. Marked(o)' BY <1>4 DEF Marked
<1>7. Unsent(o)' BY <1>0, <1>2, <1>3, <1>4 DEF Unsent, Local, Terminal
<1>8. queue[o].phase # "not-dispatched"
  BY <1>0, <1>2 DEF Local, Honest
<1>9. Honest(o, queue[o])' /\ Honest(o, archive[o])'
  BY <1>2, <1>3, <1>8 DEF Honest
<1>10. Local(o)' BY <1>5, <1>6, <1>7, <1>9 DEF Local
<1>11. ASSUME NEW p \in Op \ {o} PROVE Local(p)'
  BY <1>0, SettledFiles, Untouched DEF IInv, TypeOK
<1> QED BY <1>1, <1>10, <1>11 DEF IInv

\* requeue with the end of its caller.
LEMMA RequeueStep ==
    ASSUME IInv, NEW o \in Op, Requeued(o), mode \in Up,
           task[o] \notin {"none", "starting"},
           o \in ReplaySafe \/ task[o] \in {"claimed", "slot"},
           task' = [task EXCEPT ![o] = "none"], UNCHANGED ghosts
    PROVE  IInv'
<1>0. TypeOK /\ Local(o) BY DEF IInv
<1>1. TypeOK' BY <1>0, RequeuedFiles DEF TypeOK, Task, ghosts
<1>2. queue[o] # None /\ queue[o].status = "running" /\ o \in enqueued /\ archive[o] = None
  BY <1>0 DEF Local, Marked, Filed
<1>3. /\ queue'[o] = queue[o] \/ queue'[o] = Rec("queued", "interrupted")
      /\ archive'[o] = None /\ task'[o] = "none"
  BY <1>0, <1>2, RequeuedFiles DEF TypeOK
<1>4. o \notin ReplaySafe => dispatches[o] = 0 BY <1>0 DEF Local, Unsent
<1>5. Filed(o)' BY <1>2, <1>3 DEF Filed, ghosts
<1>6. Marked(o)' BY <1>3 DEF Marked
<1>7. Unsent(o)' BY <1>0, <1>2, <1>3, <1>4 DEF Unsent, Local, ghosts
<1>8. queue[o].phase # "not-dispatched"
  BY <1>0, <1>2 DEF Local, Honest
<1>9. Honest(o, queue[o])' /\ Honest(o, archive[o])'
  BY <1>2, <1>3, <1>8 DEF Honest, Rec, ghosts
<1>10. Local(o)' BY <1>5, <1>6, <1>7, <1>9 DEF Local
<1>11. ASSUME NEW p \in Op \ {o} PROVE Local(p)'
  BY <1>0, RequeuedFiles, Untouched DEF IInv, TypeOK, ghosts
<1> QED BY <1>1, <1>10, <1>11 DEF IInv

\* The records that the engine and the ingress write.
LEMMA RecordTypes ==
    /\ Rec("queued", "queued") \in Record /\ Rec("running", "executing") \in Record
    /\ Rec("succeeded", "completed") \in Record /\ Rec("failed", "failed") \in Record
    /\ Rec("ambiguous", "outcome-unknown") \in Record
    /\ Rec("failed", "not-dispatched") \in Record /\ Rec("failed", "recovery-failed") \in Record
    /\ Rec("queued", "recovered") \in Record
BY DEF Rec, Record, Status, Phase, Terminal

\* Marking an operation running, for the handler or goroutine that will send
\* it, or for nobody when a fault intervenes (startExternal and claimNext).
LEMMA MarkStep ==
    ASSUME IInv, NEW o \in Op, mode \in Up,
           queue[o] # None, queue[o].status = "queued",
           \/ Written(o, Rec("running", "executing")) /\ task'[o] \in {"claimed", "none"}
           \/ queue' = queue /\ task'[o] = "none",
           task' \in [Op -> Task], \A p \in Op \ {o} : task'[p] = task[p],
           mode' \in Up, faults' \in Nat, UNCHANGED <<archive, ghosts>>
    PROVE  IInv'
<1>0. TypeOK /\ Local(o) BY DEF IInv
<1>1. /\ queue' \in [Op -> Record \cup {None}] /\ \A p \in Op \ {o} : queue'[p] = queue[p]
      /\ \/ queue'[o] = Rec("running", "executing") /\ task'[o] \in {"claimed", "none"}
         \/ queue'[o] = queue[o] /\ task'[o] = "none"
  BY <1>0, WrittenFiles, RecordTypes DEF TypeOK
<1>2. TypeOK' BY <1>0, <1>1 DEF TypeOK, ghosts, Up, Mode
<1>3. o \in enqueued /\ archive[o] = None BY <1>0 DEF Local, Filed
<1>4. o \notin ReplaySafe => dispatches[o] = 0 BY <1>0 DEF Local, Unsent
<1>5. Filed(o)' BY <1>3 DEF Filed, ghosts
<1>6. Marked(o)' BY <1>0, <1>1, RecordTypes, RecordAssumption DEF Marked, Rec
<1>7. Unsent(o)' BY <1>0, <1>1, <1>4 DEF Unsent, Local, ghosts
<1>8. Honest(o, queue[o])' /\ Honest(o, archive[o])'
  BY <1>0, <1>1, <1>3 DEF Honest, Local, Rec, ghosts
<1>9. Local(o)' BY <1>5, <1>6, <1>7, <1>8 DEF Local
<1>10. ASSUME NEW p \in Op \ {o} PROVE Local(p)'
  BY <1>0, <1>1, Untouched DEF IInv, TypeOK, ghosts
<1> QED BY <1>2, <1>9, <1>10 DEF IInv

\* Enqueue.
LEMMA EnqueueStep == ASSUME IInv, NEW o \in Op, Enqueue(o) PROVE IInv'
<1>0. TypeOK /\ Local(o) BY DEF IInv
<1>1. /\ queue' \in [Op -> Record \cup {None}] /\ queue'[o] = Rec("queued", "queued")
      /\ \A p \in Op \ {o} : queue'[p] = queue[p]
  BY <1>0, WrittenFiles, RecordTypes DEF Enqueue
<1>2. archive' \in [Op -> Record \cup {None}] /\ \A p \in Op : archive'[p] \in {archive[p], None}
  BY <1>0 DEF Enqueue, Pruned, Prunings, TypeOK
<1>3. /\ task' \in [Op -> Task] /\ \A p \in Op \ {o} : task'[p] = task[p]
      /\ task'[o] \in {"starting", "none"} /\ mode' = mode /\ faults' \in Nat
  BY <1>0 DEF Enqueue, Filed, Local, NoFault, Fault, TypeOK, Task
<1>4. TypeOK' BY <1>0, <1>1, <1>2, <1>3 DEF TypeOK, Enqueue
<1>5. archive'[o] = None /\ dispatches[o] = 0 BY <1>0, <1>2 DEF Local, Filed, Enqueue
<1>6. Filed(o)' BY <1>0, <1>5 DEF Filed, Enqueue, TypeOK
<1>7. Marked(o)' BY <1>1, <1>3, RecordTypes, RecordAssumption DEF Marked, Rec, Enqueue
<1>8. Unsent(o)' BY <1>0, <1>3, <1>5 DEF Unsent, Local, Enqueue
<1>9. Honest(o, queue[o])' /\ Honest(o, archive[o])' BY <1>1, <1>5 DEF Honest, Rec
<1>10. Local(o)' BY <1>6, <1>7, <1>8, <1>9 DEF Local
<1>11. ASSUME NEW p \in Op \ {o} PROVE Local(p)'
  BY <1>1, <1>2, <1>3, Untouched DEF IInv, Enqueue
<1> QED BY <1>4, <1>10, <1>11 DEF IInv

\* Admit.
LEMMA AdmitStep == ASSUME IInv, NEW o \in Op, Admit(o) PROVE IInv'
<1>0. TypeOK /\ Local(o) BY DEF IInv
<1>1. /\ mode \in Up /\ task[o] \in {"claimed", "slot"}
      /\ queue' = queue /\ archive' = archive /\ mode' = mode /\ enqueued' = enqueued /\ faults' = faults
  BY DEF Admit, Dispatched, files, ghosts
<1>2. \/ /\ task' = [task EXCEPT ![o] = "slot"]
         /\ dispatches' = dispatches /\ answer' = answer
      \/ Dispatched(o)
  BY DEF Admit, ghosts
<1>3. /\ task' \in [Op -> Task] /\ dispatches' \in [Op -> 0..2] /\ answer' \in [Op -> Answer]
      /\ \A p \in Op \ {o} :
            task'[p] = task[p] /\ dispatches'[p] = dispatches[p] /\ answer'[p] = answer[p]
      /\ \/ task'[o] = "slot" /\ dispatches'[o] = dispatches[o] /\ answer'[o] = answer[o]
         \/ /\ task'[o] = "dispatched" /\ answer'[o] = "unknown"
            /\ dispatches'[o] = IF dispatches[o] = 2 THEN 2 ELSE dispatches[o] + 1
  BY <1>0, <1>2 DEF Dispatched, TypeOK, Task, Answer
<1>4. TypeOK' BY <1>0, <1>1, <1>3 DEF TypeOK
<1>5. queue[o] # None /\ queue[o].status = "running" /\ o \in enqueued /\ archive[o] = None
  BY <1>0, <1>1 DEF Local, Marked, Filed
<1>6. dispatches[o] \in 0..2 /\ (o \notin ReplaySafe => dispatches[o] = 0)
  BY <1>0, <1>1 DEF Local, Unsent, TypeOK
<1>7. Filed(o)' BY <1>1, <1>5 DEF Filed
<1>8. Marked(o)' BY <1>1, <1>3, <1>5 DEF Marked
<1>9. Unsent(o)'
  <2>1. dispatches'[o] = 0 => answer'[o] = "none" /\ task'[o] # "dispatched" BY <1>0, <1>3, <1>6 DEF Local, Unsent
  <2>2. o \notin ReplaySafe => dispatches'[o] <= 1 BY <1>3, <1>6
  <2>4. o \in Malformed => dispatches'[o] = 0 BY DEF Admit
  <2>3. o \notin ReplaySafe /\ task'[o] \in {"claimed", "slot"} => dispatches'[o] = 0 BY <1>3, <1>6
  <2> QED BY <1>1, <1>5, <2>1, <2>2, <2>3, <2>4 DEF Unsent
<1>10. Honest(o, queue[o])' /\ Honest(o, archive[o])'
  <2>1. queue[o].phase # "not-dispatched"
    BY <1>0, <1>5 DEF Local, Honest
  <2> QED BY <1>1, <1>5, <2>1 DEF Honest
<1>11. Local(o)' BY <1>7, <1>8, <1>9, <1>10 DEF Local
<1>12. ASSUME NEW p \in Op \ {o} PROVE Local(p)'
  BY <1>1, <1>3, Untouched DEF IInv
<1> QED BY <1>4, <1>11, <1>12 DEF IInv

\* One record of recoverIncomplete.
LEMMA RecoverStep == ASSUME IInv, NEW o \in Op, Recover(o) PROVE IInv'
<1>0. TypeOK /\ Local(o) BY DEF IInv
<1> DEFINE rec == Recovered(o)
<1>1. /\ queue[o] # None /\ queue[o] \in Record /\ o \in enqueued /\ archive[o] = None
      /\ task[o] = "none" /\ mode = "recovering"
  BY <1>0 DEF Recover, Incomplete, Local, Filed, Marked, TypeOK, Up
<1>2. rec \in Record BY <1>1, RecordTypes DEF Recovered
<1>3. /\ rec.status = "queued" => o \in ReplaySafe
      /\ rec.status \in Terminal \cup {"queued"}
  BY <1>1 DEF Recover, Incomplete, Recovered, Rec, Record, Status, Terminal
<1>4. Honest(o, rec)
  <2>1. CASE rec = queue[o] BY <1>0, <2>1 DEF Local
  <2>2. CASE o \in Stream /\ queue[o].status = "queued"
    <3>1. o \notin ReplaySafe BY <2>2, OpAssumption
    <3>2. dispatches[o] = 0 /\ answer[o] = "none" BY <1>0, <1>1, <2>2, <3>1 DEF Local, Unsent
    <3> QED BY <2>2, <3>2 DEF Honest, Recovered, Rec
  <2>3. CASE queue[o].status = "running" /\ o \in Malformed
    <3>1. dispatches[o] = 0 /\ answer[o] = "none" BY <1>0, <2>3 DEF Local, Unsent
    <3> QED BY <2>3, <3>1 DEF Honest, Recovered, Rec
  <2>4. CASE queue[o].status = "running" /\ o \notin Malformed
    BY <2>4 DEF Honest, Recovered, Rec
  <2> QED BY <1>1, <2>1, <2>2, <2>3, <2>4 DEF Recovered
<1>5. /\ queue' \in [Op -> Record \cup {None}] /\ archive' \in [Op -> Record \cup {None}]
      /\ \A p \in Op \ {o} : queue'[p] = queue[p] /\ archive'[p] \in {archive[p], None}
      /\ \/ queue'[o] = rec /\ archive'[o] = None
         \/ queue'[o] = None /\ archive'[o] = rec /\ rec.status \in Terminal
  <2>1. CASE Written(o, rec) /\ UNCHANGED archive
    BY <1>0, <1>1, <1>2, <2>1, WrittenFiles DEF TypeOK
  <2>2. CASE Moved(o, rec) /\ rec.status # "queued"
    BY <1>0, <1>2, <1>3, <2>2, MovedFiles
  <2> QED BY <2>1, <2>2 DEF Recover
<1>6. /\ mode' \in Mode /\ faults' \in Nat
      /\ task' = task /\ enqueued' = enqueued /\ dispatches' = dispatches /\ answer' = answer
  BY <1>0 DEF Recover, Fault, ghosts, Mode, TypeOK
<1> HIDE DEF rec
<1>7. TypeOK' BY <1>0, <1>5, <1>6 DEF TypeOK
<1>8. Filed(o)' BY <1>1, <1>5, <1>6 DEF Filed
<1>9. Marked(o)' BY <1>1, <1>6 DEF Marked
<1>10. Unsent(o)' BY <1>0, <1>1, <1>3, <1>5, <1>6 DEF Unsent, Local, Terminal
<1>11. Honest(o, queue[o])' /\ Honest(o, archive[o])' BY <1>4, <1>5, <1>6 DEF Honest
<1>12. Local(o)' BY <1>8, <1>9, <1>10, <1>11 DEF Local
<1>13. \A p \in Op : task[p] = "none" BY <1>1 DEF IInv, Local, Marked, Up
<1>14. ASSUME NEW p \in Op \ {o} PROVE Local(p)'
  BY <1>5, <1>6, <1>13, Untouched DEF IInv
<1> QED BY <1>7, <1>12, <1>14 DEF IInv

\* Steps that at most prune the history and end goroutines.
LEMMA QuietStep ==
    ASSUME IInv, queue' = queue, archive' \in [Op -> Record \cup {None}],
           \A p \in Op : archive'[p] \in {archive[p], None},
           mode' \in Mode, faults' \in Nat, UNCHANGED ghosts,
           \/ task' = task /\ (mode' \in Up \/ mode \notin Up \/ mode' = mode)
           \/ task' = [p \in Op |-> "none"]
    PROVE  IInv'
<1>1. TypeOK' BY DEF IInv, TypeOK, ghosts, Task
<1>2. ASSUME NEW p \in Op PROVE Local(p)'
  <2>1. TypeOK /\ Local(p) BY DEF IInv
  <2>2. CASE task' = task /\ (mode' \in Up \/ mode \notin Up \/ mode' = mode)
    <3>1. mode \notin Up => task[p] = "none" BY <2>1 DEF Local, Marked
    <3> QED BY <2>1, <2>2, <3>1, Untouched DEF ghosts
  <2>3. CASE task' = [q \in Op |-> "none"]
    <3>1. task'[p] = "none" BY <2>3
    <3>2. Filed(p)' BY <2>1, <3>1 DEF Local, Filed, ghosts
    <3>3. Marked(p)' BY <3>1 DEF Marked
    <3>4. Unsent(p)' BY <2>1, <3>1 DEF Local, Unsent, ghosts
    <3>5. Honest(p, queue[p])' /\ Honest(p, archive[p])' BY <2>1 DEF Local, Honest, ghosts
    <3> QED BY <3>2, <3>3, <3>4, <3>5 DEF Local
  <2> QED BY <2>2, <2>3
<1> QED BY <1>1, <1>2 DEF IInv

\* Every step preserves the invariant.
LEMMA NextIInv == IInv /\ [Next]_vars => IInv'
<1> SUFFICES ASSUME IInv, [Next]_vars PROVE IInv'
  OBVIOUS
<1>0. TypeOK BY DEF IInv
<1>1. ASSUME NEW o \in Op, OpStep(o) PROVE IInv'
  <2>0. Local(o) BY DEF IInv
  <2>1. CASE Enqueue(o) BY <2>1, EnqueueStep
  <2>2. CASE StartExternal(o)
    <3>1. queue[o] # None /\ queue[o].status = "queued"
      BY <2>0, <2>2 DEF Local, Marked, StartExternal
    <3>2. /\ task' \in [Op -> Task] /\ \A p \in Op \ {o} : task'[p] = task[p]
          /\ task'[o] \in {"claimed", "none"} /\ (queue' = queue => task'[o] = "none" \/ Written(o, Rec("running", "executing")))
      BY <1>0, <2>2 DEF StartExternal, TypeOK, Task
    <3>3. mode' = mode /\ faults' \in Nat
      BY <1>0, <2>2 DEF StartExternal, NoFault, Fault, TypeOK
    <3> QED BY <2>2, <3>1, <3>2, <3>3, MarkStep DEF StartExternal
  <2>3. CASE Claim(o)
    <3>1. queue[o] # None /\ queue[o].status = "queued" /\ task[o] = "none"
      BY <2>3 DEF Claim, Claimable
    <3>2. mode \in Up /\ mode' \in Up /\ faults' \in Nat
      BY <1>0, <2>3 DEF Claim, NoFault, FaultStops, Fault, TypeOK, Up
    <3>3. /\ task' \in [Op -> Task] /\ \A p \in Op \ {o} : task'[p] = task[p]
          /\ task'[o] \in {"claimed", "none"}
      BY <1>0, <2>3, <3>1 DEF Claim, TypeOK, Task
    <3>4. \/ Written(o, Rec("running", "executing")) /\ task'[o] \in {"claimed", "none"}
          \/ queue' = queue /\ task'[o] = "none"
      BY <2>3, <3>1, <3>3 DEF Claim
    <3> QED BY <2>3, <3>1, <3>2, <3>3, <3>4, MarkStep DEF Claim
  <2>4. CASE Admit(o) BY <2>4, AdmitStep
  <2>5. CASE RefuseBeforeDispatch(o)
    <3>1. o \notin ReplaySafe => answer[o] = "none"
      BY <2>0, <2>5 DEF Local, Unsent, RefuseBeforeDispatch
    <3>2. dispatches[o] = 0 => answer[o] = "none" BY <2>0 DEF Local, Unsent
    <3> QED BY <1>0, <2>5, <3>1, <3>2, SettleStep, RecordTypes
            DEF RefuseBeforeDispatch, Rec, Terminal, ghosts, TypeOK
  <2>6. CASE CancelBeforeDispatch(o)
    BY <2>6, RequeueStep DEF CancelBeforeDispatch, Up
  <2>7. CASE ReturnAnswer(o)
    <3>1. dispatches[o] # 0 BY <2>0, <2>7 DEF Local, Unsent, ReturnAnswer
    <3>2. /\ answer' \in [Op -> Answer] /\ \A p \in Op \ {o} : answer'[p] = answer[p]
          /\ answer'[o] \in {"applied", "rejected"}
      BY <1>0, <2>7 DEF ReturnAnswer, TypeOK, Answer
    <3>3. CASE Settled(o, Rec("failed", "failed"))
      BY <2>7, <3>1, <3>2, <3>3, SettleStep, RecordTypes DEF ReturnAnswer, Rec, Terminal
    <3>4. CASE Settled(o, Rec("succeeded", "completed")) /\ answer' = [answer EXCEPT ![o] = "applied"]
      <4>1. answer'[o] = "applied" BY <1>0, <3>4 DEF TypeOK
      <4> QED BY <2>7, <3>1, <3>2, <3>4, <4>1, SettleStep, RecordTypes DEF ReturnAnswer, Rec, Terminal
    <3> QED BY <2>7, <3>3, <3>4 DEF ReturnAnswer
  <2>8. CASE ReturnError(o)
    <3>1. dispatches[o] = 0 => answer[o] = "none" BY <2>0 DEF Local, Unsent
    <3>2. /\ Uncertain(o) \in Record /\ Uncertain(o).status \in Terminal
          /\ Uncertain(o).phase # "not-dispatched" /\ Uncertain(o).status # "succeeded"
          /\ Uncertain(o).status = "failed" => o \in ReplaySafe
      BY RecordTypes DEF Uncertain, Rec, Terminal
    <3> QED BY <1>0, <2>8, <3>1, <3>2, SettleStep DEF ReturnError, ghosts, TypeOK
  <2>9. CASE CancelAfterDispatch(o)
    <3>1. dispatches[o] = 0 => answer[o] = "none" BY <2>0 DEF Local, Unsent
    <3>2. CASE o \in ReplaySafe
      BY <2>9, <3>2, RequeueStep DEF CancelAfterDispatch, Up
    <3>3. CASE o \notin ReplaySafe
      BY <1>0, <2>9, <3>1, <3>3, SettleStep, RecordTypes
         DEF CancelAfterDispatch, Up, Rec, Terminal, ghosts, TypeOK
    <3> QED BY <3>2, <3>3
  <2>10. CASE Recover(o) BY <2>10, RecoverStep
  <2> QED BY <1>1, <2>1, <2>2, <2>3, <2>4, <2>5, <2>6, <2>7, <2>8, <2>9, <2>10 DEF OpStep
<1>2. CASE EnqueueRefused
  <2>1. archive' \in [Op -> Record \cup {None}] /\ \A p \in Op : archive'[p] \in {archive[p], None}
    BY <1>0, <1>2 DEF EnqueueRefused, Pruned, Prunings, TypeOK
  <2> QED BY <1>0, <1>2, <2>1, QuietStep DEF EnqueueRefused, TypeOK
<1>3. CASE Stop \/ Exit \/ Restart \/ Serve
  <2>1. queue' = queue /\ archive' = archive /\ UNCHANGED ghosts
    BY <1>3 DEF Stop, Exit, Restart, Serve, files
  <2>2. mode' \in Mode /\ faults' \in Nat
    BY <1>0, <1>3 DEF Stop, Exit, Restart, Serve, Fault, Mode, TypeOK
  <2>3. \/ task' = task /\ (mode' \in Up \/ mode \notin Up \/ mode' = mode)
        \/ task' = [p \in Op |-> "none"]
    BY <1>3 DEF Stop, Exit, Restart, Serve, Up
  <2> QED BY <1>0, <2>1, <2>2, <2>3, QuietStep DEF TypeOK
<1>4. CASE UNCHANGED vars
  BY <1>0, <1>4, QuietStep DEF vars, ghosts, TypeOK
<1> QED BY <1>1, <1>2, <1>3, <1>4 DEF Next

-----------------------------------------------------------------------------
(* The theorems.                                                           *)

\* The inductive invariant holds in every reachable state.
THEOREM Invariance == Spec => []IInv
<1>1. Init => IInv BY InitIInv
<1>2. IInv /\ [Next]_vars => IInv' BY NextIInv
<1> QED BY <1>1, <1>2, PTL DEF Spec

\* The files, goroutines and counters keep their types.
THEOREM TypeCorrect == Spec => []TypeOK
<1>1. IInv => TypeOK BY DEF IInv
<1> QED BY <1>1, Invariance, PTL

\* A mutation that is not safe to replay reaches takod at most once, for any
\* number of crashes, shutdowns and failed writes of the worker.
THEOREM SentOnce == Spec => []AtMostOnce
<1>1. IInv => AtMostOnce BY DEF IInv, Local, Unsent, AtMostOnce
<1> QED BY <1>1, Invariance, PTL

\* The outcome that Read reports is true of what takod was sent and answered.
THEOREM TruthfulOutcome == Spec => []OutcomeHonest
<1>1. IInv => OutcomeHonest
  BY DEF IInv, Local, Honest, OutcomeHonest, Outcome
<1> QED BY <1>1, Invariance, PTL

\* A step on one operation leaves the file of any other, but for pruning.
LEMMA OtherFiles ==
    ASSUME IInv, NEW q \in Op, OpStep(q), NEW o \in Op \ {q}
    PROVE  queue'[o] = queue[o] /\ archive'[o] \in {archive[o], None}
<1>0. TypeOK BY DEF IInv
<1>1. CASE Enqueue(q)
  BY <1>0, <1>1, WrittenFiles, RecordTypes DEF Enqueue, Pruned, Prunings, TypeOK
<1>2. CASE StartExternal(q) \/ Claim(q)
  BY <1>0, <1>2, WrittenFiles, RecordTypes DEF StartExternal, Claim
<1>3. CASE Admit(q) BY <1>3 DEF Admit, Dispatched, files
<1>4. CASE Settled(q, Rec("failed", "failed")) BY <1>0, <1>4, SettledFiles, RecordTypes
<1>5. CASE Settled(q, Rec("succeeded", "completed")) BY <1>0, <1>5, SettledFiles, RecordTypes
<1>6. CASE Settled(q, Rec("ambiguous", "outcome-unknown")) BY <1>0, <1>6, SettledFiles, RecordTypes
<1>7. CASE Requeued(q) BY <1>0, <1>7, RequeuedFiles
<1>8. CASE Recover(q)
  <2>1. queue[q] \in Record BY <1>0, <1>8 DEF Recover, Incomplete, TypeOK
  <2>2. Recovered(q) \in Record BY <2>1, RecordTypes DEF Recovered
  <2> QED BY <1>0, <1>8, <2>2, WrittenFiles, MovedFiles DEF Recover
<1> QED
  BY <1>1, <1>2, <1>3, <1>4, <1>5, <1>6, <1>7, <1>8
     DEF OpStep, RefuseBeforeDispatch, CancelBeforeDispatch, ReturnAnswer, ReturnError,
         CancelAfterDispatch, Uncertain

\* Only recovery acts on a settled operation, and it files the outcome it finds.
LEMMA SettledKept ==
    ASSUME IInv, NEW o \in Op, OpStep(o), Outcome(o) # None, Outcome(o).status \in Terminal
    PROVE  Outcome(o)' = Outcome(o)
<1>0. TypeOK /\ Local(o) BY DEF IInv
<1>1. task[o] = "none" /\ o \in enqueued
  BY <1>0 DEF Local, Filed, Marked, Outcome, Terminal
<1>2. ~Claim(o)
  BY DEF Claim, Claimable, Outcome, Terminal
<1>3. Recover(o)
  BY <1>1, <1>2 DEF OpStep, Enqueue, StartExternal, Admit, RefuseBeforeDispatch,
     CancelBeforeDispatch, ReturnAnswer, ReturnError, CancelAfterDispatch
<1>4. queue[o] # None /\ queue[o] \in Record /\ queue[o].status \in Terminal
  BY <1>0, <1>3 DEF Recover, Incomplete, Outcome, TypeOK
<1>5. Recovered(o) = queue[o] BY <1>4 DEF Recovered, Terminal
<1>6. Written(o, queue[o]) \/ Moved(o, queue[o]) BY <1>3, <1>4, <1>5 DEF Recover, Terminal
<1>7. CASE Written(o, queue[o]) BY <1>0, <1>4, <1>7, WrittenFiles DEF Outcome
<1>8. CASE Moved(o, queue[o]) BY <1>0, <1>4, <1>8, MovedFiles DEF Outcome
<1> QED BY <1>6, <1>7, <1>8

\* A settled operation keeps its outcome until pruneHistoryLocked removes it,
\* also when its move to history fails and recoverIncomplete repeats it.
THEOREM OutcomeKept == Spec => OutcomeFinal
<1> DEFINE Kept == \A o \in Op : Outcome(o) # None /\ Outcome(o).status \in Terminal =>
                     Outcome(o)' = Outcome(o) \/ Outcome(o)' = None
<1>1. IInv /\ [Next]_vars => [Kept]_vars
  <2> SUFFICES ASSUME IInv, Next, NEW o \in Op, Outcome(o) # None, Outcome(o).status \in Terminal
               PROVE  Outcome(o)' = Outcome(o) \/ Outcome(o)' = None
    OBVIOUS
  <2>0. TypeOK /\ Local(o) BY DEF IInv
  <2>1. CASE queue'[o] = queue[o] /\ archive'[o] \in {archive[o], None} BY <2>1 DEF Outcome
  <2>2. ASSUME NEW q \in Op, OpStep(q) PROVE Outcome(o)' = Outcome(o) \/ Outcome(o)' = None
    BY <2>1, <2>2, OtherFiles, SettledKept
  <2>3. CASE EnqueueRefused
    BY <2>0, <2>1, <2>3 DEF EnqueueRefused, Pruned, Prunings, TypeOK
  <2>4. CASE Stop \/ Exit \/ Restart \/ Serve
    BY <2>1, <2>4 DEF Stop, Exit, Restart, Serve, files
  <2> QED BY <2>2, <2>3, <2>4 DEF Next
<1> QED BY <1>1, Invariance, PTL DEF Spec, OutcomeFinal

-----------------------------------------------------------------------------
(* Who owns the records of the live queue.                                 *)

\* Only an ingress handler starts an operation that is not yet running, and
\* while the worker serves a record of the queue is unsettled and, if it is a
\* running request, some goroutine has it.
OwnedAt(o) ==
    /\ task[o] = "starting" => o \in Stream
    /\ mode = "running" /\ queue[o] # None =>
         /\ queue[o].status \notin Terminal
         /\ queue[o].status = "running" /\ o \notin Stream => task[o] # "none"

Owned == \A o \in Op : OwnedAt(o)

\* Every step on q leaves the goroutines of other operations alone, and none
\* but Serve makes the worker serve.
LEMMA OtherTasks ==
    ASSUME IInv, NEW q \in Op, OpStep(q)
    PROVE  /\ mode' = "running" => mode = "running"
           /\ \A o \in Op \ {q} : task'[o] = task[o]
<1>0. TypeOK BY DEF IInv
<1>1. \A o \in Op \ {q} : task'[o] = task[o]
  BY <1>0 DEF TypeOK, OpStep, Enqueue, StartExternal, Claim, Admit, Dispatched, RefuseBeforeDispatch,
     CancelBeforeDispatch, ReturnAnswer, ReturnError, CancelAfterDispatch, Recover
<1>2. mode' = "running" => mode = "running"
  BY DEF OpStep, Enqueue, StartExternal, Claim, Admit, Dispatched, RefuseBeforeDispatch,
     CancelBeforeDispatch, ReturnAnswer, ReturnError, CancelAfterDispatch, Recover, Settled,
     Requeued, NoFault, FaultStops
<1> QED BY <1>1, <1>2

\* complete and markAmbiguous: as long as the worker serves the record is gone.
LEMMA SettledOwned ==
    ASSUME IInv, NEW o \in Op, NEW rec \in Record, Settled(o, rec),
           task' = [task EXCEPT ![o] = "none"]
    PROVE  OwnedAt(o)'
<1>1. TypeOK BY DEF IInv
<1>2. task'[o] = "none" BY <1>1 DEF TypeOK
<1>3. mode' = "running" => queue'[o] = None
  BY <1>1, MovedFiles DEF Settled, FaultStops
<1> QED BY <1>2, <1>3 DEF OwnedAt

\* requeue happens only once the worker no longer serves.
LEMMA RequeuedOwned ==
    ASSUME IInv, NEW o \in Op, Requeued(o), mode \in {"cancelled", "draining"},
           task' = [task EXCEPT ![o] = "none"]
    PROVE  OwnedAt(o)'
<1>1. task'[o] = "none" BY DEF IInv, TypeOK
<1>2. mode' # "running" BY DEF Requeued, NoFault, FaultStops
<1> QED BY <1>1, <1>2 DEF OwnedAt

LEMMA OpStepOwned ==
    ASSUME IInv, Owned, NEW o \in Op, OpStep(o)
    PROVE  OwnedAt(o)'
<1>0. TypeOK /\ Local(o) /\ OwnedAt(o) BY DEF IInv, Owned
<1>1. CASE Enqueue(o)
  <2>1. queue'[o] = Rec("queued", "queued")
    BY <1>0, <1>1, WrittenFiles, RecordTypes DEF Enqueue
  <2>2. task'[o] = "starting" => o \in Stream
    BY <1>0, <1>1 DEF Enqueue, TypeOK, OwnedAt
  <2> QED BY <2>1, <2>2 DEF OwnedAt, Rec, Terminal
<1>2. CASE StartExternal(o)
  <2>1. queue[o] # None /\ queue[o].status = "queued" /\ o \in Stream
    BY <1>0, <1>2 DEF Local, Marked, StartExternal, OwnedAt
  <2>2. queue'[o] \in {queue[o], Rec("running", "executing")}
    BY <1>0, <1>2, WrittenFiles, RecordTypes DEF StartExternal
  <2> QED BY <2>1, <2>2 DEF OwnedAt, Rec, Terminal
<1>3. CASE Claim(o)
  <2>1. CASE NoFault /\ Written(o, Rec("running", "executing")) /\ task' = [task EXCEPT ![o] = "claimed"]
    <3>1. queue'[o] = Rec("running", "executing") /\ task'[o] = "claimed"
      BY <1>0, <2>1, WrittenFiles, RecordTypes DEF TypeOK
    <3> QED BY <3>1 DEF OwnedAt, Rec, Terminal
  <2>2. CASE FaultStops(o) /\ UNCHANGED task
    BY <1>0, <2>2 DEF OwnedAt, FaultStops
  <2> QED BY <1>3, <2>1, <2>2 DEF Claim
<1>4. CASE Admit(o)
  <2>1. task'[o] \in {"slot", "dispatched"} /\ queue' = queue /\ mode' = mode
    BY <1>0, <1>4 DEF Admit, Dispatched, files, TypeOK
  <2> QED BY <1>0, <2>1 DEF OwnedAt
<1>5. CASE RefuseBeforeDispatch(o) BY <1>5, SettledOwned, RecordTypes DEF RefuseBeforeDispatch
<1>6. CASE CancelBeforeDispatch(o) BY <1>6, RequeuedOwned DEF CancelBeforeDispatch
<1>7. CASE ReturnAnswer(o) BY <1>7, SettledOwned, RecordTypes DEF ReturnAnswer
<1>8. CASE ReturnError(o) BY <1>8, SettledOwned, RecordTypes DEF ReturnError, Uncertain
<1>9. CASE CancelAfterDispatch(o)
  BY <1>9, SettledOwned, RequeuedOwned, RecordTypes DEF CancelAfterDispatch
<1>10. CASE Recover(o)
  <2>1. mode' # "running" /\ task' = task BY <1>10 DEF Recover
  <2> QED BY <1>0, <2>1 DEF OwnedAt
<1> QED BY <1>1, <1>2, <1>3, <1>4, <1>5, <1>6, <1>7, <1>8, <1>9, <1>10 DEF OpStep

LEMMA NextOwned == IInv /\ Owned /\ [Next]_vars => Owned'
<1> SUFFICES ASSUME IInv, Owned, [Next]_vars, NEW o \in Op PROVE OwnedAt(o)'
  BY DEF Owned
<1>0. TypeOK /\ OwnedAt(o) BY DEF IInv, Owned
<1>1. ASSUME NEW q \in Op, OpStep(q) PROVE OwnedAt(o)'
  <2>1. CASE q = o BY <1>1, <2>1, OpStepOwned
  <2>2. CASE q # o
    <3>1. /\ queue'[o] = queue[o] /\ task'[o] = task[o]
          /\ mode' = "running" => mode = "running"
      BY <1>1, <2>2, OtherFiles, OtherTasks
    <3> QED BY <1>0, <3>1 DEF OwnedAt
  <2> QED BY <2>1, <2>2
<1>2. CASE EnqueueRefused BY <1>0, <1>2 DEF EnqueueRefused, OwnedAt
<1>3. CASE Stop \/ Restart BY <1>0, <1>3 DEF Stop, Restart, files, OwnedAt
<1>4. CASE Exit
  <2>1. task'[o] = "none" /\ mode' = "down" BY <1>4 DEF Exit
  <2> QED BY <2>1 DEF OwnedAt
<1>5. CASE Serve
  <2>1. queue'[o] = queue[o] /\ task'[o] = task[o]
    BY <1>5 DEF Serve, files
  <2>2. queue[o] # None => o \notin Stream /\ queue[o].status = "queued"
    BY <1>5 DEF Serve, Incomplete
  <2> QED BY <1>0, <2>1, <2>2 DEF OwnedAt, Terminal
<1>6. CASE UNCHANGED vars BY <1>0, <1>6 DEF vars, OwnedAt
<1> QED BY <1>1, <1>2, <1>3, <1>4, <1>5, <1>6 DEF Next

\* While the worker serves, no settled record takes up the live queue and no
\* request is marked running without a goroutine that will settle it: a failed
\* write that could leave either behind also ends the service, and
\* recoverIncomplete is through before the ingress opens again.
THEOREM QueueOwned == Spec => []QueueIsOwned
<1>1. Init => Owned BY DEF Init, Owned, OwnedAt
<1>2. Owned => QueueIsOwned BY DEF Owned, OwnedAt, QueueIsOwned, Pending
<1> QED BY <1>1, <1>2, NextOwned, Invariance, PTL DEF Spec
=============================================================================
