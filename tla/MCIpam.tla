------------------------------- MODULE MCIpam -------------------------------
(***************************************************************************)
(* Instances of Ipam for TLC.                                              *)
(***************************************************************************)
EXTENDS Ipam, TLC

CONSTANTS i1, i2, i3, i4, t1, t2, p1

\* Two goroutines of one process: the watcher of the previous role and the
\* watcher of the present one.
OneProc == t1 :> p1 @@ t2 :> p1

IdSymmetry == Permutations({i1, i2, i3, i4})

=============================================================================
