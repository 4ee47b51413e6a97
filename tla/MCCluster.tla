----------------------------- MODULE MCCluster -----------------------------
(***************************************************************************)
(* Instances of Cluster for TLC: two processes with a goroutine each.      *)
(***************************************************************************)
EXTENDS Cluster, TLC

CONSTANTS i1, i2, t1, t2, p1, p2

TwoProcs == t1 :> p1 @@ t2 :> p2

\* The names are alike, and the processes with their goroutines.
Swap == t1 :> t2 @@ t2 :> t1 @@ p1 :> p2 @@ p2 :> p1

Symmetry == Permutations({i1, i2}) \union {Swap}
                \union {f @@ Swap : f \in Permutations({i1, i2})}

\* ipamCache is written and never read by the calls.
ButCache == <<store, lock, pc, args, cur, endIP, status, faults, election, disturbed>>

=============================================================================
