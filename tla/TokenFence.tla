----------------------------- MODULE TokenFence -----------------------------
(***************************************************************************)
(* What a node promises about fenced writes, without grants, files, locks, *)
(* clocks or requests: a node has at most one owner, ownership changes     *)
(* hands only towards a higher token and never under a running writer, and *)
(* only the owner's writers get in.                                        *)
(***************************************************************************)
EXTENDS Integers

CONSTANTS
    Node,    \* the nodes
    Lease    \* pairs <<token, operation>> that a node may be offered

VARIABLES
    highWater,  \* highWater[n]: the highest token that ever owned n
    owner,      \* owner[n]: the operation that owns n, as a set: {} or {o}
    writers     \* writers[n]: the operations with a writer on n

fenceVars == <<highWater, owner, writers>>

Init ==
    /\ highWater = [n \in Node |-> 0]
    /\ owner = [n \in Node |-> {}]
    /\ writers = [n \in Node |-> {}]

Acquire(n, l) ==
    /\ writers[n] = {}
    /\ l[1] > highWater[n]
    /\ highWater' = [highWater EXCEPT ![n] = l[1]]
    /\ owner' = [owner EXCEPT ![n] = {l[2]}]
    /\ UNCHANGED writers

\* The token of the former owner stays spent.
Release(n) ==
    /\ writers[n] = {}
    /\ owner' = [owner EXCEPT ![n] = {}]
    /\ UNCHANGED <<highWater, writers>>

Enter(n) ==
    /\ owner[n] # {}
    /\ writers' = [writers EXCEPT ![n] = @ \cup owner[n]]
    /\ UNCHANGED <<highWater, owner>>

\* The last writer has finished, or the process that ran them has died.
Leave(n) ==
    /\ writers' = [writers EXCEPT ![n] = {}]
    /\ UNCHANGED <<highWater, owner>>

Next ==
    \E n \in Node : \/ \E l \in Lease : Acquire(n, l)
                    \/ Release(n) \/ Enter(n) \/ Leave(n)

Spec == Init /\ [][Next]_fenceVars
=============================================================================
