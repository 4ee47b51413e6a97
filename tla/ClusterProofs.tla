--------------------------- MODULE ClusterProofs ---------------------------
(***************************************************************************)
(* Proofs about Cluster: what is left of the guarantees of ipam.lock when  *)
(* processes call at the same time.  Everything is proved for any set of   *)
(* processes and goroutines, any subnet, any names, any number of failed   *)
(* requests, and whatever the election does.                               *)
(***************************************************************************)
EXTENDS Cluster, IpamProofs

\* A call in progress against the addresses no other call has written: the
\* one it is about to write is free, the one it is about to delete, has
\* written or reports is its own, and those behind its search are taken.
Undisturbed(t) ==
    /\ pc[t] = "writeIP" /\ cur[t] \notin disturbed[t] => owner[cur[t]] = Free
    /\ pc[t] \in {"relDelete", "writeLast"} /\ cur[t] \notin disturbed[t]
          => owner[cur[t]] = id[t]
    /\ pc[t] = "done" /\ op[t] = "require" /\ status[t] = "ok"
          => /\ cur[t] \in Addresses
             /\ cur[t] \notin disturbed[t] => owner[cur[t]] = id[t]
    /\ pc[t] = "check" /\ reqIP[t] = NoIP
          => \A a \in Probed(cur[t], endIP[t]) \ disturbed[t] : owner[a] # Free
    /\ pc[t] = "done" /\ status[t] = "full"
          => \A a \in Addresses \ disturbed[t] : owner[a] # Free
    /\ pc[t] = "done" /\ status[t] = "taken"
          => /\ reqIP[t] \in Addresses
             /\ reqIP[t] \notin disturbed[t] => owner[reqIP[t]] # Free

CInv ==
    /\ TypeOK
    /\ ArgsInv
    /\ disturbed \in [Thread -> SUBSET Addresses]
    /\ \A t \in Thread : Undisturbed(t)

\* The steps HarmConfined allows.
Confined ==
    \A t \in Thread : LET ip == cur[t] IN
        /\ pc[t] \in {"writeIP", "relDelete"}
        /\ pc'[t] \notin {pc[t], "idle"}
        /\ owner'[ip] # owner[ip]
        /\ ip \notin disturbed[t]
        => owner[ip] = IF pc[t] = "writeIP" THEN Free ELSE id[t]

-----------------------------------------------------------------------------
(***************************************************************************)
(* The election only decides who may call: a step of the cluster is a step *)
(* of the address managers, or none.                                       *)
(***************************************************************************)
LEMMA ClusterStep == [CNext]_cvars => [Next]_vars
BY DEF CNext, cvars, Next, LeaderCall, LeaderStep, Elect, Resign, Lapse, Die

(***************************************************************************)
(* A goroutine changes nothing of another's call.                          *)
(***************************************************************************)
LEMMA OthersStill ==
    ASSUME TypeOK, NEW t \in Thread, Call(t) \/ Step(t), NEW s \in Thread \ {t}
    PROVE  /\ pc'[s] = pc[s] /\ op'[s] = op[s] /\ id'[s] = id[s]
           /\ reqIP'[s] = reqIP[s] /\ cur'[s] = cur[s] /\ endIP'[s] = endIP[s]
           /\ status'[s] = status[s]
<1>1. ASSUME StartGet(t) PROVE cur'[s] = cur[s] /\ status'[s] = status[s]
  BY <1>1 DEF StartGet, Finish, TypeOK
<1>2. ASSUME NEW err, AfterRelease(t, err)
      PROVE  cur'[s] = cur[s] /\ status'[s] = status[s]
  BY <1>1, <1>2 DEF AfterRelease, Finish, TypeOK
<1>3. CASE Call(t)
  BY <1>3 DEF Call, RequireIP, ReleaseIP, Goto, TypeOK
<1>4. CASE Step(t)
  <2>1. pc'[s] = pc[s]
    BY <1>4, StepMoves
  <2>2. op'[s] = op[s] /\ id'[s] = id[s] /\ reqIP'[s] = reqIP[s]
        /\ endIP'[s] = endIP[s]
    BY <1>4 DEF Step, Exist, RelExist, RelDelete, ReadLast, Check, WriteIP,
                WriteLast, Return, args, TypeOK
  <2>3. cur'[s] = cur[s] /\ status'[s] = status[s]
    BY <1>1, <1>2, <1>4
    DEF Step, Exist, RelExist, RelDelete, ReadLast, Check, WriteIP, WriteLast,
        Return, Move, Finish, TypeOK
  <2> QED
    BY <2>1, <2>2, <2>3
<1> QED
  BY <1>3, <1>4

(***************************************************************************)
(* What a step writes is written down as a disturbance of all other calls. *)
(***************************************************************************)
LEMMA DisturbType ==
    ASSUME disturbed \in [Thread -> SUBSET Addresses], NEW t \in Thread, Disturb(t)
    PROVE  /\ disturbed' \in [Thread -> SUBSET Addresses]
           /\ \A s \in Thread :
                 /\ pc'[s] = "idle" => disturbed'[s] = {}
                 /\ pc'[s] # "idle" /\ s = t => disturbed'[s] = disturbed[s]
                 /\ pc'[s] # "idle" /\ s # t => disturbed'[s] =
                       disturbed[s] \union {ip \in Addresses : owner'[ip] # owner[ip]}
BY DEF Disturb

(***************************************************************************)
(* So a step keeps what another call knows.                                *)
(***************************************************************************)
LEMMA OthersUndisturbed ==
    ASSUME CInv, NEW t \in Thread, Call(t) \/ Step(t), Disturb(t),
           NEW s \in Thread \ {t}
    PROVE  Undisturbed(s)'
<1> USE DEF CInv
<1>1. /\ pc'[s] = pc[s] /\ op'[s] = op[s] /\ id'[s] = id[s]
      /\ reqIP'[s] = reqIP[s] /\ cur'[s] = cur[s] /\ endIP'[s] = endIP[s]
      /\ status'[s] = status[s]
  BY OthersStill
<1>2. CASE pc[s] = "idle"
  BY <1>1, <1>2 DEF Undisturbed
<1>3. CASE pc[s] # "idle"
  <2>1. \A a \in Addresses : a \notin disturbed'[s] =>
            a \notin disturbed[s] /\ owner'[a] = owner[a]
    BY <1>1, <1>3, DisturbType
  <2>2. pc[s] \in {"relDelete", "check", "writeIP", "writeLast"}
            => cur[s] \in Addresses
    BY DEF ArgsInv
  <2>3. \A c, e : Probed(c, e) \subseteq Addresses /\ Probed(c, e)' = Probed(c, e)
    BY DEF Probed
  <2> QED
    BY <1>1, <2>1, <2>2, <2>3 DEF Undisturbed, Probed
<1> QED
  BY <1>2, <1>3

(***************************************************************************)
(* The lookups, tests and writes of a call establish what it relies on.    *)
(***************************************************************************)
LEMMA OwnUndisturbed ==
    ASSUME CInv, NEW t \in Thread, Step(t), Disturb(t)
    PROVE  Undisturbed(t)'
<1> USE DEF CInv
<1>0. pc'[t] # "idle" => disturbed'[t] = disturbed[t]
  BY DisturbType
<1>1. CASE Exist(t)
  <2>1. UNCHANGED <<owner, id, op, reqIP, endIP>>
    BY <1>1 DEF Exist, store, args
  <2>2. CASE \E ip \in Owned(id[t]) :
               cur' = [cur EXCEPT ![t] = ip] /\ Finish(t, "ok")
    BY <2>1, <2>2 DEF Owned, Finish, Goto, TypeOK, Undisturbed
  <2>3. CASE Move(t) \/ Finish(t, "error")
    BY <2>3 DEF Move, Finish, Goto, TypeOK, Undisturbed
  <2>4. CASE StartGet(t)
    BY <2>1, <2>4, StartGetTo DEF Undisturbed
  <2> QED
    BY <1>1, <2>2, <2>3, <2>4 DEF Exist
<1>2. CASE RelExist(t)
  <2>1. UNCHANGED <<owner, id, op, reqIP>>
    BY <1>2 DEF RelExist, store, args
  <2>2. CASE \E ip \in Owned(id[t]) :
               cur' = [cur EXCEPT ![t] = ip] /\ Goto(t, "relDelete")
    BY <2>1, <2>2 DEF Owned, Goto, TypeOK, Undisturbed
  <2>3. CASE \E err \in BOOLEAN : AfterRelease(t, err)
    BY <2>1, <2>3, AfterReleaseTo DEF Undisturbed
  <2> QED
    BY <1>2, <2>2, <2>3 DEF RelExist
<1>3. CASE RelDelete(t)
  BY <1>3, AfterReleaseTo DEF RelDelete, args, Undisturbed
<1>4. CASE ReadLast(t)
  <2>1. PICK last \in {lastReserved, NoIP} :
          /\ cur' = [cur EXCEPT ![t] = getSearchRange(last).first]
          /\ endIP' = [endIP EXCEPT ![t] = getSearchRange(last).end]
    BY <1>4 DEF ReadLast
  <2>2. /\ getSearchRange(last).end \in Addresses
        /\ getSearchRange(last).first = nextIP(getSearchRange(last).end)
    BY <2>1, SearchRange DEF TypeOK
  <2>3. Probed(cur'[t], endIP'[t]) = {}
    BY <2>1, <2>2, ProbedStep DEF TypeOK
  <2>4. pc'[t] = "check"
    BY <1>4 DEF ReadLast, Goto, TypeOK
  <2> QED
    BY <2>3, <2>4 DEF Undisturbed, Probed
<1>5. CASE Check(t)
  <2>1. /\ pc[t] = "check" /\ cur[t] \in Addresses
        /\ reqIP[t] = NoIP => endIP[t] \in Addresses
        /\ reqIP[t] # NoIP => cur[t] = reqIP[t]
        /\ UNCHANGED <<owner, id, reqIP, endIP>>
    BY <1>5 DEF Check, ArgsInv, store, args
  <2>2. CASE owner[cur[t]] = Free /\ Goto(t, "writeIP") /\ UNCHANGED cur
    BY <2>1, <2>2 DEF Goto, TypeOK, Undisturbed
  <2>3. CASE owner[cur[t]] # Free /\ reqIP[t] # NoIP /\ Finish(t, "taken")
    BY <2>1, <2>3 DEF Finish, Goto, TypeOK, Undisturbed
  <2>4. CASE /\ owner[cur[t]] # Free /\ reqIP[t] = NoIP
             /\ cur[t] = endIP[t] /\ Finish(t, "full")
    <3>1. \A a \in Addresses \ disturbed[t] : owner[a] # Free
      BY <2>1, <2>4, ProbedStep DEF Undisturbed
    <3>2. pc'[t] = "done" /\ status'[t] = "full"
      BY <2>4 DEF Finish, Goto, TypeOK
    <3> QED
      BY <1>0, <2>1, <3>1, <3>2 DEF Undisturbed
  <2>5. CASE /\ owner[cur[t]] # Free /\ reqIP[t] = NoIP /\ cur[t] # endIP[t]
             /\ cur' = [cur EXCEPT ![t] = nextIP(cur[t])]
             /\ UNCHANGED pc
    <3>1. cur'[t] = nextIP(cur[t])
      BY <2>5 DEF TypeOK
    <3>2. \A a \in Probed(cur'[t], endIP[t]) \ disturbed[t] : owner[a] # Free
      BY <2>1, <2>5, <3>1, ProbedStep DEF Undisturbed
    <3> QED
      BY <1>0, <2>1, <2>5, <3>2 DEF Undisturbed, Probed
  <2>6. CASE Finish(t, "error")
    BY <2>6 DEF Finish, Goto, TypeOK, Undisturbed
  <2> QED
    BY <1>5, <2>2, <2>3, <2>4, <2>5, <2>6 DEF Check
<1>6. CASE WriteIP(t)
  BY <1>6 DEF WriteIP, Finish, Goto, args, TypeOK, ArgsInv, Undisturbed
<1>7. CASE WriteLast(t)
  <2>1. pc[t] = "writeLast" /\ cur[t] \in Addresses
        /\ UNCHANGED <<owner, cur, id>>
    BY <1>7 DEF WriteLast, args, ArgsInv
  <2> QED
    BY <1>0, <1>7, <2>1 DEF WriteLast, Finish, Goto, TypeOK, Undisturbed
<1>8. CASE Return(t)
  BY <1>8 DEF Return, Goto, TypeOK, Undisturbed
<1> QED
  BY <1>1, <1>2, <1>3, <1>4, <1>5, <1>6, <1>7, <1>8 DEF Step

(***************************************************************************)
(* The inductive invariant holds whatever the election does.               *)
(***************************************************************************)
LEMMA ClusterInvariant == CSpec => []CInv
<1>1. CInit => CInv
  BY IpamAssumption DEF CInit, Init, CInv, TypeOK, ArgsInv, Undisturbed
<1>2. CInv /\ [CNext]_cvars => CInv'
  <2> SUFFICES ASSUME CInv, [CNext]_cvars PROVE CInv'
    OBVIOUS
  <2>1. TypeOK' /\ ArgsInv'
    BY ClusterStep, TypeStep, ArgsStep DEF CInv
  <2>2. ASSUME NEW t \in Thread, LeaderCall(t) \/ LeaderStep(t)
        PROVE  CInv'
    <3>1. (Call(t) \/ Step(t)) /\ Disturb(t)
      BY <2>2 DEF LeaderCall, LeaderStep
    <3>2. disturbed' \in [Thread -> SUBSET Addresses]
      BY <3>1, DisturbType DEF CInv
    <3>3. \A s \in Thread \ {t} : Undisturbed(s)'
      BY <3>1, OthersUndisturbed
    <3>4. Undisturbed(t)'
      <4>1. CASE Call(t)
        BY <4>1, CallMoves DEF CInv, Undisturbed
      <4> QED
        BY <3>1, <4>1, OwnUndisturbed
    <3> QED
      BY <2>1, <3>2, <3>3, <3>4 DEF CInv
  <2>3. ASSUME NEW p \in Proc, Die(p)
        PROVE  CInv'
    <3>1. /\ Restart(p)
          /\ disturbed' = [t \in Thread |-> IF procOf[t] = p THEN {} ELSE disturbed[t]]
      BY <2>3 DEF Die
    <3>2. disturbed' \in [Thread -> SUBSET Addresses]
      BY <3>1 DEF CInv
    <3>3. ASSUME NEW t \in Thread
          PROVE  Undisturbed(t)'
      <4>1. CASE pc'[t] = "idle"
        BY <4>1 DEF Undisturbed
      <4>2. CASE procOf[t] # p
        <5>1. /\ pc'[t] = pc[t] /\ op'[t] = op[t] /\ id'[t] = id[t]
              /\ reqIP'[t] = reqIP[t] /\ cur'[t] = cur[t]
              /\ endIP'[t] = endIP[t] /\ status'[t] = status[t]
              /\ owner' = owner /\ disturbed'[t] = disturbed[t]
          BY <3>1, <4>2, RestartMoves DEF CInv
        <5>2. Undisturbed(t)
          BY DEF CInv
        <5> QED
          BY <5>1, <5>2 DEF Undisturbed, Probed
      <4> QED
        BY <3>1, <4>1, <4>2, RestartMoves DEF CInv
    <3> QED
      BY <2>1, <3>2, <3>3 DEF CInv
  <2>4. CASE UNCHANGED <<vars, disturbed>>
    BY <2>1, <2>4 DEF CInv, vars, Undisturbed, Probed
  <2> QED
    BY <2>2, <2>3, <2>4 DEF CNext, Elect, Resign, Lapse, cvars
<1> QED
  BY <1>1, <1>2, PTL DEF CSpec

-----------------------------------------------------------------------------
(* The properties of the cluster.                                          *)

(***************************************************************************)
(* An address RequireIP reports is recorded in etcd for the name that      *)
(* asked, in any process, unless another call has written that address     *)
(* meanwhile.                                                              *)
(***************************************************************************)
THEOREM OwnedUnlessDisturbedHolds == CSpec => []OwnedUnlessDisturbed
<1>1. CInv => OwnedUnlessDisturbed
  BY DEF CInv, Undisturbed, OwnedUnlessDisturbed
<1> QED
  BY <1>1, ClusterInvariant, PTL

(***************************************************************************)
(* A refusal of IPAllocator.Get is true of the addresses that no other     *)
(* call has written while the store was searched.                          *)
(***************************************************************************)
THEOREM RefusedUnlessDisturbedHolds == CSpec => []RefusedUnlessDisturbed
<1>1. CInv => RefusedUnlessDisturbed
  BY DEF CInv, Undisturbed, RefusedUnlessDisturbed
<1> QED
  BY <1>1, ClusterInvariant, PTL

(***************************************************************************)
(* Whoever leads, thinks it leads, or has led: no call takes an address    *)
(* that was assigned before the call began from its owner.                 *)
(***************************************************************************)
THEOREM HarmConfinedHolds == CSpec => HarmConfined
<1>1. CInv => Confined
  BY DEF CInv, Undisturbed, Confined
<1> QED
  BY <1>1, ClusterInvariant, PTL DEF CSpec, HarmConfined, Confined

(***************************************************************************)
(* A search ends whatever the other processes write while it runs.         *)
(***************************************************************************)
THEOREM ClusterSearchAdvances == CSpec => SearchAdvances
<1>1. CInv /\ [CNext]_cvars => [Nearer]_vars
  BY ClusterStep, NearerStep DEF CInv
<1> QED
  BY <1>1, ClusterInvariant, PTL DEF CSpec, SearchAdvances, Nearer

=============================================================================
