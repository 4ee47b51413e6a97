------------------------------ MODULE Cluster ------------------------------
(***************************************************************************)
(* The address managers of several processes under an election: Ipam,      *)
(* where only processes that lead start calls, composed with what          *)
(* Leadership promises.                                                    *)
(*                                                                         *)
(* Nothing keeps the calls of two processes apart.  IsLeader is read       *)
(* before a call and not looked at after; a process whose lease has lapsed *)
(* starts calls until OnStoppedLeading has run; and the next leader starts *)
(* its own without asking whether they have ended.                         *)
(***************************************************************************)
EXTENDS Ipam

CONSTANT NoProc         \* nobody has the lease

ASSUME ClusterAssumption == NoProc \notin Proc

VARIABLES
    leader, acting, retired,    \* see Leadership
    disturbed   \* history: the addresses that other goroutines assigned or
                \* freed since the call of a goroutine began

election == <<leader, acting, retired>>
cvars    == <<vars, election, disturbed>>

L == INSTANCE Leadership WITH Node <- Proc, NoNode <- NoProc

CInit ==
    /\ Init
    /\ L!Init
    /\ disturbed = [t \in Thread |-> {}]

\* What a step of goroutine t is to the calls of the others.
Disturb(t) ==
    LET changed == {ip \in Addresses : owner'[ip] # owner[ip]}
    IN  disturbed' = [s \in Thread |->
            IF pc'[s] = "idle" THEN {}
            ELSE disturbed[s] \union IF s = t THEN {} ELSE changed]

\* OnStartedLeading: Run(true) sets IsLeader.
Elect(p) == L!Elect(p) /\ UNCHANGED <<vars, disturbed>>

\* The lease runs out before the process renews it or gives up.
Lapse == L!Lapse /\ UNCHANGED <<vars, disturbed>>

\* OnStoppedLeading: Change clears it.  A call in progress goes on.
Resign(p) == L!Resign(p) /\ UNCHANGED <<vars, disturbed>>

\* ConfigService and DeleteService call ipam if IsLeader is set.
LeaderCall(t) ==
    /\ procOf[t] \in acting
    /\ Call(t)
    /\ Disturb(t)
    /\ UNCHANGED election

LeaderStep(t) == Step(t) /\ Disturb(t) /\ UNCHANGED election

Die(p) ==
    /\ L!Crash(p)
    /\ Restart(p)
    /\ disturbed' = [t \in Thread |-> IF procOf[t] = p THEN {} ELSE disturbed[t]]

CNext ==
    \/ \E t \in Thread : LeaderCall(t) \/ LeaderStep(t)
    \/ \E p \in Proc : Elect(p) \/ Resign(p) \/ Die(p)
    \/ Lapse

CSpec == CInit /\ [][CNext]_cvars

-----------------------------------------------------------------------------
(* Properties.  SearchAdvances and NewlyAllocated are those of Ipam.  The  *)
(* others say which part of what ipam.lock keeps in one process is left    *)
(* when two processes call at the same time.                               *)

(***************************************************************************)
(* A call only overwrites or frees what another call wrote while it ran.   *)
(* A write of Store.Reserve to an address nobody touched since the call    *)
(* began finds it free, and a delete of Store.Release finds it the         *)
(* caller's: an address assigned before a call starts is never taken from  *)
(* its owner by that call, though its lookup, test, write and delete are   *)
(* requests that others come between.                                      *)
(***************************************************************************)
HarmConfined ==
    [][\A t \in Thread : LET ip == cur[t] IN
          /\ pc[t] \in {"writeIP", "relDelete"}
          /\ pc'[t] \notin {pc[t], "idle"}
          /\ owner'[ip] # owner[ip]
          /\ ip \notin disturbed[t]
          => owner[ip] = IF pc[t] = "writeIP" THEN Free ELSE id[t]]_cvars

(***************************************************************************)
(* An address RequireIP reports, kept or newly reserved, is the caller's   *)
(* in etcd unless another call wrote that very address meanwhile.          *)
(***************************************************************************)
OwnedUnlessDisturbed ==
    \A t \in Thread :
        /\ pc[t] = "done" /\ op[t] = "require" /\ status[t] = "ok"
        /\ cur[t] \notin disturbed[t]
        => owner[cur[t]] = id[t]

(***************************************************************************)
(* "No IP addresses available" is said when every address that stayed as   *)
(* it was during the search has an owner, and "requested IP address is not *)
(* available" when the requested one has, wherever other processes moved   *)
(* last_reserved_ip and whatever they assigned and freed meanwhile.        *)
(***************************************************************************)
RefusedUnlessDisturbed ==
    \A t \in Thread : pc[t] = "done" =>
        /\ status[t] = "full"
              => \A ip \in Addresses \ disturbed[t] : owner[ip] # Free
        /\ status[t] = "taken" /\ reqIP[t] \notin disturbed[t]
              => owner[reqIP[t]] # Free

=============================================================================
