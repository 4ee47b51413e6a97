----------------------------- MODULE Leadership -----------------------------
(***************************************************************************)
(* What the election promises, whatever its steps: one node at a time has  *)
(* the lease, never one straight after another, and a node that has once   *)
(* stopped leading is not elected again before it restarts.  It does not   *)
(* promise that one node at a time acts as leader: the lease lapses by     *)
(* itself, and who had it goes on until it resigns or is elected again.    *)
(***************************************************************************)
CONSTANTS Node, NoNode

VARIABLES
    leader,     \* the node that has the lease, or NoNode
    acting,     \* the nodes that act as leader
    retired     \* the nodes that stopped leading and still run

Init ==
    /\ leader = NoNode
    /\ acting = {}
    /\ retired = {}

\* The answer may come so late that the lease has run out meanwhile.
Elect(n) ==
    /\ leader = NoNode
    /\ n \notin retired
    /\ leader' \in {n, NoNode}
    /\ acting' = acting \union {n}
    /\ UNCHANGED retired

Lapse ==
    /\ leader' = NoNode
    /\ UNCHANGED <<acting, retired>>

Resign(n) ==
    /\ n \in acting
    /\ leader' = IF leader = n THEN NoNode ELSE leader
    /\ acting' = acting \ {n}
    /\ retired' = retired \union {n}

Crash(n) ==
    /\ leader' = IF leader = n THEN NoNode ELSE leader
    /\ acting' = acting \ {n}
    /\ retired' = retired \ {n}

Next == Lapse \/ \E n \in Node : Elect(n) \/ Resign(n) \/ Crash(n)

Spec == Init /\ [][Next]_<<leader, acting, retired>>

=============================================================================
