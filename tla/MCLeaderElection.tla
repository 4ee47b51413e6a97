-------------------------- MODULE MCLeaderElection --------------------------
(***************************************************************************)
(* Instances of LeaderElection for TLC.                                    *)
(***************************************************************************)
EXTENDS LeaderElection, TLC

CONSTANTS n1, n2, n3

\* The history variable decides nothing: runs whose properties do not speak of
\* it look at the others.
ButTaken == <<now, rec, fresh, late, phase, pc, tryNow, final, since, observed,
              observedAt, reported, faults, crashes>>

NodeSymmetry == Permutations({n1, n2, n3})

=============================================================================
