------------------------ MODULE LeaderElectionProofs ------------------------
(***************************************************************************)
(* Proofs about LeaderElection, for any number of nodes, failed requests,  *)
(* late writes and crashes, and for any durations: a node that has the     *)
(* lease is the holder on record and keeps it, a leader stops in time, and *)
(* while no request fails, and no try lasts a lease, a dead leader is      *)
(* replaced in time.                                                       *)
(***************************************************************************)
EXTENDS LeaderElection, TLAPS

\* tryAcquireOrRenew runs within acquire or within renew.
PhaseInv ==
    \A n \in Node : pc[n] # "wait" => phase[n] \in {"acquire", "leading"}

\* The clock and what the nodes remember of it.
TimeInv ==
    /\ taken <= now
    /\ \A n \in Node :
          /\ tryNow[n] <= now
          /\ since[n] <= now
          /\ pc[n] # "wait" => now <= tryNow[n] + OpDelay

\* How long a leader acts on its last renewal: Poll's deadline, the try that
\* was running then, and the last one.
PollInv ==
    \A n \in Node : phase[n] = "leading" =>
        /\ pc[n] = "wait" => now <= since[n] + RenewDeadline + OpDelay
        /\ pc[n] # "wait" =>
              /\ since[n] <= tryNow[n]
              /\ tryNow[n] <= since[n] + RenewDeadline + (IF final[n] THEN OpDelay ELSE 0)

\* Renewal times as stored: from the past, and in order for each node.
RecInv ==
    /\ rec # NoRecord => rec.renew <= Stamp(tryNow[rec.holder])
    /\ \A r \in late : r.renew <= Stamp(tryNow[r.holder])

\* A record is seen when it has been written, not before.
ObsInv ==
    \A n \in Node : observed[n] # NoRecord => observed[n].renew <= observedAt[n]

\* The lease of a holder about to be replaced has passed.
SwapInv ==
    /\ \A n \in Node : n \in fresh => rec # NoRecord
    /\ \A n \in Node : pc[n] = "update" /\ n \in fresh /\ rec.holder # n
          => rec.renew + LeaseDuration <= now
    /\ \A r \in late : rec # NoRecord =>
          IF r.holder = rec.holder THEN rec.renew <= r.renew
                                   ELSE rec.renew + LeaseDuration <= now

\* A write etcd would accept now.
Writable(r) == r \in late \/ \E k \in Node : Sending(k) /\ r = Wanted(k)

\* How old the renewal is on which a leader acts, by the time on record, or by
\* the time at which another node took the record.
HoldInv ==
    /\ \A n \in Node : phase[n] = "leading" =>
          /\ rec # NoRecord
          /\ reported[n] = n
          /\ IF rec.holder = n
             THEN since[n] < rec.renew + Second + OpDelay
             ELSE since[n] + LeaseDuration < taken + Second + OpDelay
    /\ \A r \in late : phase[r.holder] = "leading"
          => since[r.holder] < r.renew + Second + OpDelay

\* A renewal that a node remembers as its own is on record, or has expired.
LeaseInv ==
    \A n \in Node : observed[n].holder = n =>
        \/ rec.holder = n /\ Stamp(observed[n].renew) <= rec.renew
        \/ Stamp(observed[n].renew) + LeaseDuration <= now

IInv == /\ TypeOK /\ TimeInv /\ PollInv /\ RecInv /\ ObsInv /\ SwapInv
        /\ HoldInv /\ LeaseInv

-----------------------------------------------------------------------------
(* Arithmetic.                                                             *)

(***************************************************************************)
(* The constants are numbers.                                              *)
(***************************************************************************)
LEMMA Numbers ==
    /\ LeaseDuration \in Nat /\ RenewDeadline \in Nat /\ RetryPeriod \in Nat
    /\ Second \in Nat /\ Second > 0 /\ RetryPeriod > 0
    /\ OpDelay \in Nat /\ MaxClock \in Nat /\ MaxFaults \in Nat
    /\ MaxCrashes \in Nat
BY ElectionAssumption

(***************************************************************************)
(* A stored time is at most a second older than the time it stands for.    *)
(***************************************************************************)
LEMMA StampBounds ==
    ASSUME NEW t \in Int
    PROVE  Stamp(t) \in Int /\ Stamp(t) <= t /\ t < Stamp(t) + Second
<1>1. t % Second \in 0 .. (Second - 1)
  BY Numbers
<1> QED
  BY <1>1, Numbers DEF Stamp

(***************************************************************************)
(* Truncation keeps the order of two times.                                *)
(***************************************************************************)
LEMMA StampMono ==
    ASSUME NEW a \in Int, NEW b \in Int, a <= b
    PROVE  Stamp(a) <= Stamp(b)
<1> DEFINE qa == a \div Second
           qb == b \div Second
<1>1. /\ a = Second * qa + (a % Second) /\ qa \in Int
      /\ b = Second * qb + (b % Second) /\ qb \in Int
      /\ a % Second \in 0 .. (Second - 1)
      /\ b % Second \in 0 .. (Second - 1)
  BY Numbers
<1>2. Second * qa \in Int /\ Second * qb \in Int
  BY <1>1, Numbers
<1>3. Stamp(a) = Second * qa /\ Stamp(b) = Second * qb
  BY <1>1, <1>2, Numbers DEF Stamp
<1>4. ASSUME qa >= qb + 1 PROVE FALSE
  <2>1. Second * qa >= Second * qb + Second
    BY <1>1, <1>4, Numbers
  <2> HIDE DEF qa, qb
  <2> QED
    BY <1>1, <1>2, <2>1, Numbers
<1>5. qa <= qb
  BY <1>1, <1>4
<1>6. Second * qa <= Second * qb
  BY <1>1, <1>5, Numbers
<1> QED
  BY <1>3, <1>6

(***************************************************************************)
(* "No record" is not a record: its holder is no node.                     *)
(***************************************************************************)
LEMMA NoRecordFacts ==
    /\ NoRecord \notin Record
    /\ NoRecord.holder = NoNode /\ NoRecord.renew = 0
    /\ \A r \in Record : r.holder \in Node /\ r.renew \in Int
BY ElectionAssumption DEF NoRecord, Record

-----------------------------------------------------------------------------
(* Type correctness.                                                       *)

(***************************************************************************)
(* The end of a try keeps the types.                                       *)
(***************************************************************************)
LEMMA LostType ==
    ASSUME TypeOK, NEW n \in Node, Lost(n),
           observed' \in [Node -> Record \union {NoRecord}]
    PROVE  /\ pc' = [pc EXCEPT ![n] = "wait"]
           /\ final' = [final EXCEPT ![n] = FALSE]
           /\ phase' \in [Node -> {"acquire", "leading", "stopped", "down"}]
           /\ since' \in [Node -> Int]
           /\ reported' \in [Node -> Node \union {NoNode}]
<1>1. observed'[n].holder \in Node \union {NoNode}
  BY NoRecordFacts
<1>2. now \in Int
  BY DEF TypeOK
<1>3. /\ pc' = [pc EXCEPT ![n] = "wait"]
      /\ final' = [final EXCEPT ![n] = FALSE]
      /\ phase' \in {phase, [phase EXCEPT ![n] = "stopped"]}
      /\ since' \in {since, [since EXCEPT ![n] = now]}
      /\ reported' \in {reported, [reported EXCEPT ![n] = observed'[n].holder]}
  BY DEF Lost, Report
<1> QED
  BY <1>1, <1>2, <1>3 DEF TypeOK

(***************************************************************************)
(* The variables keep their types under every step.                        *)
(***************************************************************************)
LEMMA TypeStep == TypeOK /\ [Next]_vars => TypeOK'
<1> SUFFICES ASSUME TypeOK, [Next]_vars PROVE TypeOK'
  OBVIOUS
<1>0. now \in Int /\ now \in 0 .. MaxClock
  BY DEF TypeOK
<1>w. \A n \in Node : Wanted(n) \in Record
  BY StampBounds DEF Wanted, Record, TypeOK
<1>1. ASSUME NEW n \in Node, Start(n) PROVE TypeOK'
  BY <1>0, <1>1, Numbers DEF Start, TypeOK, store, seen
<1>2. ASSUME NEW n \in Node, Crash(n) PROVE TypeOK'
  <2>1. late' \subseteq Record
    BY <1>2, <1>w DEF Crash, TypeOK
  <2>2. crashes' \in 0 .. MaxCrashes
    BY <1>2, Numbers DEF Crash, TypeOK
  <2> QED
    BY <1>2, <2>1, <2>2 DEF Crash, TypeOK
<1>3. ASSUME NEW n \in Node, Try(n) PROVE TypeOK'
  <2>1. PICK last \in BOOLEAN : BeginTry(n, last)
    BY <1>3 DEF Try
  <2>2. final' \in [Node -> BOOLEAN]
    BY <2>1, Zenon DEF BeginTry, TypeOK
  <2> QED
    BY <1>0, <2>1, <2>2 DEF BeginTry, TypeOK, store, seen
<1>4. ASSUME NEW n \in Node, Get(n) PROVE TypeOK'
  <2>1. /\ UNCHANGED <<now, rec, late, tryNow, taken, crashes>>
        /\ fresh' \subseteq Node
        /\ observed' \in [Node -> Record \union {NoRecord}]
        /\ observedAt' \in [Node -> Int]
        /\ faults' \in 0 .. MaxFaults
    BY <1>0, <1>4, Numbers DEF Get, Observe, TypeOK, seen
  <2>2. CASE Lost(n)
    BY <2>1, <2>2, LostType DEF TypeOK
  <2>3. CASE /\ \E l \in {"create", "update"} : pc' = [pc EXCEPT ![n] = l]
             /\ UNCHANGED <<phase, final, since, reported>>
    BY <2>1, <2>3 DEF TypeOK
  <2> QED
    BY <1>4, <2>2, <2>3 DEF Get
<1>5. ASSUME NEW n \in Node, Write(n) PROVE TypeOK'
  <2>1. UNCHANGED <<now, tryNow, crashes>>
    BY <1>5 DEF Write
  <2>2. CASE /\ Swap(n, Wanted(n))
             /\ observed' = [observed EXCEPT ![n] = [holder |-> n, renew |-> tryNow[n]]]
             /\ observedAt' = [observedAt EXCEPT ![n] = now]
             /\ Won(n)
             /\ UNCHANGED faults
    <3>1. /\ [holder |-> n, renew |-> tryNow[n]] \in Record
          /\ observed'[n].holder = n
      BY <2>2 DEF Record, TypeOK
    <3> QED
      BY <1>0, <1>w, <2>1, <2>2, <3>1 DEF Swap, Takes, Won, Report, TypeOK
  <2>3. CASE UNCHANGED <<store, seen, taken, faults>> /\ Lost(n)
    BY <2>1, <2>3, LostType DEF TypeOK, store, seen
  <2>4. CASE /\ faults < MaxFaults /\ faults' = faults + 1
             /\ late' = IF Sending(n) THEN late \union {Wanted(n)} ELSE late
             /\ UNCHANGED <<rec, fresh, seen, taken>>
             /\ Lost(n)
    <3>1. late' \subseteq Record /\ faults' \in 0 .. MaxFaults
      BY <1>w, <2>4, Numbers DEF TypeOK
    <3> QED
      BY <2>1, <2>4, <3>1, LostType DEF TypeOK, seen
  <2> QED
    BY <1>5, <2>2, <2>3, <2>4 DEF Write
<1>6. ASSUME NEW r \in late, LateWrite(r) PROVE TypeOK'
  BY <1>0, <1>6 DEF LateWrite, Takes, TypeOK, seen
<1>7. CASE Tick
  BY <1>7, Numbers DEF Tick, TypeOK, store, seen
<1>8. CASE UNCHANGED vars
  BY <1>8 DEF vars, TypeOK
<1> QED
  BY <1>1, <1>2, <1>3, <1>4, <1>5, <1>6, <1>7, <1>8 DEF Next, TimeUp

-----------------------------------------------------------------------------
(* The invariant.                                                          *)

(***************************************************************************)
(* A write that etcd would accept now renews the record of its holder, or  *)
(* finds that the lease on record has passed.                              *)
(***************************************************************************)
LEMMA WritableAge ==
    ASSUME IInv, NEW r, Writable(r), rec # NoRecord
    PROVE  /\ r \in Record /\ r.renew \in Int /\ r.holder \in Node
           /\ rec \in Record /\ rec.renew \in Int
           /\ r.holder = rec.holder => rec.renew <= r.renew
           /\ r.holder # rec.holder => rec.renew + LeaseDuration <= now
<1>1. rec \in Record /\ rec.renew \in Int
  BY NoRecordFacts DEF IInv, TypeOK
<1>2. CASE r \in late
  BY <1>1, <1>2, NoRecordFacts DEF IInv, SwapInv, TypeOK
<1>3. ASSUME NEW n \in Node, Sending(n), r = Wanted(n)
      PROVE  /\ r \in Record /\ r.renew \in Int /\ r.holder \in Node
             /\ r.holder = rec.holder => rec.renew <= r.renew
             /\ r.holder # rec.holder => rec.renew + LeaseDuration <= now
  <2>1. /\ r \in Record /\ r.holder = n /\ r.renew = Stamp(tryNow[n])
        /\ r.renew \in Int
    BY <1>3, StampBounds DEF Wanted, Record, IInv, TypeOK
  <2>2. pc[n] = "update" /\ n \in fresh
    BY <1>3 DEF Sending
  <2>3. n = rec.holder => rec.renew <= r.renew
    BY <2>1 DEF IInv, RecInv
  <2>4. n # rec.holder => rec.renew + LeaseDuration <= now
    BY <2>2 DEF IInv, SwapInv
  <2> QED
    BY <2>1, <2>3, <2>4
<1> QED
  BY <1>1, <1>2, <1>3 DEF Writable

(***************************************************************************)
(* What a write leaves of the other nodes' leases, and for how long those  *)
(* that lead may go on.                                                    *)
(***************************************************************************)
LEMMA Overwritten ==
    ASSUME IInv, NEW r, Writable(r), rec' = r, Takes(r), now' = now
    PROVE  /\ taken' \in Int /\ taken' <= now
           /\ \A m \in Node : observed[m].holder = m =>
                 \/ r.holder = m /\ Stamp(observed[m].renew) <= r.renew
                 \/ Stamp(observed[m].renew) + LeaseDuration <= now
           /\ \A m \in Node : phase[m] = "leading" /\ r.holder # m =>
                 since[m] + LeaseDuration < taken' + Second + OpDelay
<1>0. now \in Int /\ taken \in Int /\ taken <= now
  BY DEF IInv, TypeOK, TimeInv
<1>1. taken' \in Int /\ taken' <= now
  BY <1>0 DEF Takes
<1>2. ASSUME NEW m \in Node, observed[m].holder = m
      PROVE  \/ r.holder = m /\ Stamp(observed[m].renew) <= r.renew
             \/ Stamp(observed[m].renew) + LeaseDuration <= now
  <2>1. CASE Stamp(observed[m].renew) + LeaseDuration <= now
    BY <2>1
  <2>2. CASE rec.holder = m /\ Stamp(observed[m].renew) <= rec.renew
    <3>1. rec # NoRecord
      BY <2>2, NoRecordFacts, ElectionAssumption
    <3>2. Stamp(observed[m].renew) \in Int
      BY <1>2, NoRecordFacts, StampBounds, ElectionAssumption DEF IInv, TypeOK
    <3> QED
      BY <1>0, <2>2, <3>1, <3>2, WritableAge, Numbers
  <2> QED
    BY <1>2, <2>1, <2>2 DEF IInv, LeaseInv
<1>3. ASSUME NEW m \in Node, phase[m] = "leading", r.holder # m
      PROVE  since[m] + LeaseDuration < taken' + Second + OpDelay
  <2>1. rec # NoRecord /\ since[m] \in Int
    BY <1>3 DEF IInv, HoldInv, TypeOK
  <2>2. CASE rec.holder = m
    <3>1. since[m] < rec.renew + Second + OpDelay
      BY <1>3, <2>2 DEF IInv, HoldInv
    <3>2. rec.renew \in Int /\ rec.renew + LeaseDuration <= now /\ taken' = now
      BY <1>3, <2>1, <2>2, WritableAge DEF Takes
    <3> QED
      BY <1>0, <2>1, <3>1, <3>2, Numbers
  <2>3. CASE rec.holder # m
    <3>1. since[m] + LeaseDuration < taken + Second + OpDelay
      BY <1>3, <2>3 DEF IInv, HoldInv
    <3>2. taken <= taken'
      BY <1>0 DEF Takes
    <3> QED
      BY <1>0, <1>1, <2>1, <3>1, <3>2, Numbers
  <2> QED
    BY <2>2, <2>3
<1> QED
  BY <1>1, <1>2, <1>3

(***************************************************************************)
(* leader.Run starts with nothing but the clock.                           *)
(***************************************************************************)
LEMMA StartStep ==
    ASSUME IInv, TypeOK', NEW n \in Node, Start(n)
    PROVE  IInv'
<1>1. /\ now \in Int
      /\ UNCHANGED <<now, rec, fresh, late, pc, tryNow, final, observed,
                     observedAt, reported, taken>>
      /\ phase' = [phase EXCEPT ![n] = "acquire"]
      /\ since' = [since EXCEPT ![n] = now - RetryPeriod]
  BY DEF Start, store, seen, IInv, TypeOK
<1>2. TimeInv'
  BY <1>1, Numbers DEF IInv, TimeInv, TypeOK
<1>3. PollInv' /\ HoldInv'
  BY <1>1 DEF IInv, PollInv, HoldInv, TypeOK
<1>4. RecInv' /\ ObsInv' /\ SwapInv' /\ LeaseInv'
  BY <1>1 DEF IInv, RecInv, ObsInv, SwapInv, LeaseInv
<1> QED
  BY <1>2, <1>3, <1>4 DEF IInv

(***************************************************************************)
(* A try begins on a tick or at the deadline of wait.Poll.                 *)
(***************************************************************************)
LEMMA TryStep ==
    ASSUME IInv, TypeOK', NEW n \in Node, Try(n)
    PROVE  IInv'
<1>1. /\ now \in Int /\ since[n] \in Int /\ tryNow[n] <= now
      /\ pc[n] = "wait"
      /\ since[n] <= now
      /\ UNCHANGED <<now, rec, fresh, late, phase, since, observed, observedAt,
                     reported, taken>>
      /\ pc' = [pc EXCEPT ![n] = "get"]
      /\ tryNow' = [tryNow EXCEPT ![n] = now]
  BY DEF Try, BeginTry, store, seen, IInv, TypeOK, TimeInv
<1>2. TimeInv'
  BY <1>1, Numbers DEF IInv, TimeInv, TypeOK
<1>3. PollInv'
  <2>1. \A m \in Node \ {n} : /\ pc'[m] = pc[m] /\ tryNow'[m] = tryNow[m]
                              /\ final'[m] = final[m]
    BY <1>1 DEF Try, BeginTry, IInv, TypeOK
  <2>2. pc'[n] = "get" /\ tryNow'[n] = now
    BY <1>1 DEF IInv, TypeOK
  <2>3. ASSUME phase[n] = "leading"
        PROVE  now <= since[n] + RenewDeadline + (IF final'[n] THEN OpDelay ELSE 0)
    <3>1. CASE TickDue(n) /\ BeginTry(n, FALSE)
      BY <1>1, <3>1, Numbers DEF TickDue, BeginTry, IInv, TypeOK
    <3>2. CASE BeginTry(n, TRUE)
      <4>1. final'[n] = TRUE
        BY <3>2 DEF BeginTry, IInv, TypeOK
      <4> QED
        BY <1>1, <2>3, <4>1 DEF IInv, PollInv
    <3> QED
      BY <2>3, <3>1, <3>2 DEF Try, AcquireDue
  <2> QED
    BY <1>1, <2>1, <2>2, <2>3 DEF IInv, PollInv
<1>4. RecInv'
  <2>1. \A m \in Node : Stamp(tryNow[m]) <= Stamp(tryNow'[m])
                        /\ Stamp(tryNow[m]) \in Int /\ Stamp(tryNow'[m]) \in Int
    <3>1. \A m \in Node : /\ tryNow[m] \in Int /\ tryNow'[m] \in Int
                          /\ tryNow[m] <= tryNow'[m]
      BY <1>1 DEF IInv, TypeOK
    <3> QED
      BY <3>1, StampMono, StampBounds
  <2>2. \A r \in late \union {rec} : r # NoRecord =>
            r.holder \in Node /\ r.renew \in Int
    BY NoRecordFacts DEF IInv, TypeOK
  <2>3. \A r \in late : r # NoRecord
    BY NoRecordFacts DEF IInv, TypeOK
  <2> QED
    BY <1>1, <2>1, <2>2, <2>3 DEF IInv, RecInv
<1>5. ObsInv' /\ SwapInv' /\ HoldInv' /\ LeaseInv'
  BY <1>1 DEF IInv, ObsInv, SwapInv, HoldInv, LeaseInv, TypeOK
<1> QED
  BY <1>2, <1>3, <1>4, <1>5 DEF IInv

(***************************************************************************)
(* A failed try leaves the leader's time bounded: after the last one of a  *)
(* Poll it no longer leads.                                                *)
(***************************************************************************)
LEMMA LostStep ==
    ASSUME IInv, NEW n \in Node, Lost(n), pc[n] # "wait",
           UNCHANGED <<now, tryNow, rec, taken>>,
           \A r \in late' : r \in late \/ (Sending(n) /\ r = Wanted(n))
    PROVE  TimeInv' /\ PollInv' /\ HoldInv'
<1>1. /\ now \in Int /\ since[n] \in Int /\ tryNow[n] \in Int
      /\ now <= tryNow[n] + OpDelay
  BY DEF IInv, TypeOK, TimeInv
<1>w. ASSUME phase[n] = "leading"
      PROVE  since[n] < Wanted(n).renew + Second + OpDelay /\ Wanted(n).holder = n
  BY <1>1, <1>w, StampBounds, Numbers DEF Wanted, IInv, PollInv
<1>2. /\ pc' = [pc EXCEPT ![n] = "wait"]
      /\ final' = [final EXCEPT ![n] = FALSE]
  BY DEF Lost
<1>3. CASE /\ phase[n] = "acquire"
           /\ since' = [since EXCEPT ![n] = now]
           /\ \A m \in Node \ {n} : reported'[m] = reported[m]
           /\ UNCHANGED phase
  <2>1. TimeInv'
    BY <1>1, <1>2, <1>3 DEF IInv, TimeInv, TypeOK
  <2>2. PollInv'
    BY <1>2, <1>3 DEF IInv, PollInv, TypeOK
  <2>3. HoldInv'
    BY <1>3, NoRecordFacts DEF IInv, HoldInv, TypeOK, Wanted
  <2> QED
    BY <2>1, <2>2, <2>3
<1>4. CASE /\ phase[n] = "leading"
           /\ ~ final[n]
           /\ UNCHANGED <<phase, since, reported>>
  <2>1. now <= since[n] + RenewDeadline + OpDelay
    <3>1. tryNow[n] <= since[n] + RenewDeadline + 0
      BY <1>4 DEF IInv, PollInv
    <3> QED
      BY <1>1, <3>1, Numbers
  <2>2. TimeInv'
    BY <1>1, <1>2, <1>4 DEF IInv, TimeInv, TypeOK
  <2>3. PollInv'
    BY <1>2, <1>4, <2>1 DEF IInv, PollInv, TypeOK
  <2>4. HoldInv'
    BY <1>4, <1>w DEF IInv, HoldInv
  <2> QED
    BY <2>2, <2>3, <2>4
<1>5. CASE /\ phase' = [phase EXCEPT ![n] = "stopped"]
           /\ \A m \in Node \ {n} : reported'[m] = reported[m]
           /\ UNCHANGED since
  <2>1. TimeInv'
    BY <1>1, <1>2, <1>5 DEF IInv, TimeInv, TypeOK
  <2>2. PollInv'
    BY <1>2, <1>5 DEF IInv, PollInv, TypeOK
  <2>3. HoldInv'
    BY <1>5, NoRecordFacts DEF IInv, HoldInv, TypeOK, Wanted
  <2> QED
    BY <2>1, <2>2, <2>3
<1> QED
  BY <1>3, <1>4, <1>5 DEF Lost, Report, IInv, TypeOK

(***************************************************************************)
(* A write on its way is recorded as late: when it may take the record     *)
(* from its holder, the holder's lease has passed.                         *)
(***************************************************************************)
LEMMA SendingLate ==
    ASSUME IInv, NEW n \in Node,
           late' = IF Sending(n) THEN late \union {Wanted(n)} ELSE late,
           UNCHANGED <<now, rec, fresh, tryNow>>,
           \A m \in Node : pc'[m] = "update" => pc[m] = "update"
    PROVE  RecInv' /\ SwapInv'
<1>1. /\ Wanted(n).holder = n /\ Wanted(n).renew = Stamp(tryNow[n])
      /\ Stamp(tryNow[n]) \in Int
  BY StampBounds DEF Wanted, IInv, TypeOK
<1>2. RecInv'
  BY <1>1 DEF IInv, RecInv
<1>3. ASSUME NEW r \in late', rec # NoRecord
      PROVE  IF r.holder = rec.holder THEN rec.renew <= r.renew
                                      ELSE rec.renew + LeaseDuration <= now
  <2>1. CASE r \in late
    BY <1>3, <2>1 DEF IInv, SwapInv
  <2>2. CASE r = Wanted(n) /\ Sending(n)
    <3>1. pc[n] = "update" /\ n \in fresh
      BY <1>3, <2>2 DEF Sending
    <3> QED
      BY <1>1, <1>3, <2>2, <3>1 DEF IInv, SwapInv, RecInv
  <2> QED
    BY <1>3, <2>1, <2>2
<1> QED
  BY <1>2, <1>3 DEF IInv, SwapInv

(***************************************************************************)
(* A crash takes nobody's leadership away but the node's own.              *)
(***************************************************************************)
LEMMA CrashStep ==
    ASSUME IInv, TypeOK', NEW n \in Node, Crash(n)
    PROVE  IInv'
<1>1. /\ UNCHANGED <<now, rec, fresh, tryNow, taken>>
      /\ phase' = [phase EXCEPT ![n] = "down"]
      /\ pc' = [pc EXCEPT ![n] = "wait"]
      /\ since' = [since EXCEPT ![n] = 0]
      /\ observed' = [observed EXCEPT ![n] = NoRecord]
      /\ \A m \in Node \ {n} : /\ reported'[m] = reported[m]
                              /\ final'[m] = final[m]
                              /\ observedAt'[m] = observedAt[m]
      /\ now \in Int /\ 0 <= now
  BY DEF Crash, IInv, TypeOK
<1>2. TimeInv'
  BY <1>1 DEF IInv, TimeInv, TypeOK
<1>3. PollInv'
  BY <1>1 DEF IInv, PollInv, TypeOK
<1>4. HoldInv'
  <2>1. \A r \in late' : r \in late \/ r.holder = n
    BY DEF Crash, Wanted
  <2>2. \A r \in late : r.holder \in Node
    BY NoRecordFacts DEF IInv, TypeOK
  <2> QED
    BY <1>1, <2>1, <2>2 DEF IInv, HoldInv, TypeOK
<1>5. ObsInv' /\ LeaseInv'
  BY <1>1, ElectionAssumption DEF IInv, ObsInv, LeaseInv, TypeOK, NoRecord
<1>6. RecInv' /\ SwapInv'
  <2>1. \A m \in Node : pc'[m] = "update" => pc[m] = "update"
    BY <1>1 DEF IInv, TypeOK
  <2> QED
    BY <1>1, <2>1, SendingLate DEF Crash
<1> QED
  BY <1>2, <1>3, <1>4, <1>5, <1>6 DEF IInv

(***************************************************************************)
(* Get sends a node on to Update only when it is the holder or has seen    *)
(* the record unchanged for a lease.                                       *)
(***************************************************************************)
LEMMA GetStep ==
    ASSUME IInv, TypeOK', NEW n \in Node, Get(n)
    PROVE  IInv'
<1>0. /\ UNCHANGED <<now, rec, late, tryNow, taken>> /\ pc[n] = "get"
      /\ now \in Int /\ tryNow[n] \in Int /\ tryNow[n] <= now
      /\ observedAt[n] \in Int
  BY DEF Get, IInv, TypeOK, TimeInv
<1>1. RecInv'
  BY <1>0 DEF IInv, RecInv
<1>2. CASE /\ rec = NoRecord
           /\ pc' = [pc EXCEPT ![n] = "create"]
           /\ UNCHANGED <<fresh, phase, final, since, seen, reported, faults>>
  <2>1. TimeInv' /\ PollInv'
    BY <1>0, <1>2 DEF IInv, TimeInv, PollInv, TypeOK
  <2>2. ObsInv' /\ SwapInv' /\ HoldInv' /\ LeaseInv'
    BY <1>0, <1>2 DEF IInv, ObsInv, SwapInv, HoldInv, LeaseInv, TypeOK, seen
  <2> QED
    BY <1>1, <2>1, <2>2 DEF IInv
<1>3. CASE rec # NoRecord /\ fresh' = fresh \union {n} /\ Observe(n)
  <2>0. rec \in Record /\ rec.renew \in Int /\ rec.holder \in Node
    BY <1>3, NoRecordFacts DEF IInv, TypeOK
  <2>1. rec.renew <= now
    <3>1. tryNow[rec.holder] \in Int /\ tryNow[rec.holder] <= now
      BY <2>0 DEF IInv, TypeOK, TimeInv
    <3>2. rec.renew <= Stamp(tryNow[rec.holder])
      BY <1>3 DEF IInv, RecInv
    <3> QED
      BY <1>0, <2>0, <3>1, <3>2, StampBounds
  <2>2. /\ observed' = [observed EXCEPT ![n] = rec]
        /\ observed[n] = rec => observedAt' = observedAt
        /\ observed[n] # rec => observedAt' = [observedAt EXCEPT ![n] = now]
    BY <1>3 DEF Observe
  <2>3. rec.renew <= observedAt'[n] /\ observedAt'[n] \in Int
    <3>1. CASE observed[n] = rec
      BY <1>0, <1>3, <2>2, <3>1 DEF IInv, ObsInv
    <3>2. CASE observed[n] # rec
      BY <1>0, <2>1, <2>2, <3>2 DEF IInv, TypeOK
    <3> QED
      BY <3>1, <3>2
  <2>4. ObsInv' /\ LeaseInv'
    <3>1. ObsInv'
      BY <2>2, <2>3 DEF IInv, ObsInv, TypeOK
    <3>2. LeaseInv'
      BY <1>0, <2>0, <2>2, StampBounds DEF IInv, LeaseInv, TypeOK
    <3> QED
      BY <3>1, <3>2
  <2>5. CASE /\ rec.holder = n \/ Expired(n)
             /\ pc' = [pc EXCEPT ![n] = "update"]
             /\ UNCHANGED <<phase, final, since, reported>>
    <3>1. TimeInv' /\ PollInv'
      BY <1>0, <2>5 DEF IInv, TimeInv, PollInv, TypeOK
    <3>2. HoldInv'
      BY <1>0, <2>5 DEF IInv, HoldInv
    <3>3. rec.holder # n => rec.renew + LeaseDuration <= now
      BY <1>0, <2>0, <2>3, <2>5, Numbers DEF Expired
    <3>4. SwapInv'
      BY <1>0, <1>3, <2>5, <3>3 DEF IInv, SwapInv, TypeOK
    <3> QED
      BY <1>1, <2>4, <3>1, <3>2, <3>4 DEF IInv
  <2>6. CASE Lost(n)
    <3>1. TimeInv' /\ PollInv' /\ HoldInv'
      BY <1>0, <2>6, LostStep
    <3>2. SwapInv'
      BY <1>0, <1>3, <2>6 DEF Lost, IInv, SwapInv, TypeOK
    <3> QED
      BY <1>1, <2>4, <3>1, <3>2 DEF IInv
  <2> QED
    BY <1>3, <2>5, <2>6 DEF Get
<1>4. CASE UNCHANGED <<fresh, seen>> /\ Lost(n)
  <2>1. TimeInv' /\ PollInv' /\ HoldInv'
    BY <1>0, <1>4, LostStep
  <2>2. ObsInv' /\ LeaseInv'
    BY <1>0, <1>4 DEF IInv, ObsInv, LeaseInv, seen
  <2>3. SwapInv'
    BY <1>0, <1>4 DEF Lost, IInv, SwapInv, TypeOK
  <2> QED
    BY <1>1, <2>1, <2>2, <2>3 DEF IInv
<1> QED
  BY <1>2, <1>3, <1>4 DEF Get

(***************************************************************************)
(* Create and Update: the node that wins has the record, and another one   *)
(* that leads is left with what it had of its time.                        *)
(***************************************************************************)
LEMMA WriteStep ==
    ASSUME IInv, TypeOK', NEW n \in Node, Write(n)
    PROVE  IInv'
<1>0. /\ UNCHANGED <<now, tryNow>> /\ pc[n] # "wait"
      /\ now \in Int /\ tryNow[n] \in Int /\ tryNow[n] <= now
      /\ now <= tryNow[n] + OpDelay
  BY DEF Write, IInv, TypeOK, TimeInv
<1>1. /\ Wanted(n) \in Record
      /\ Wanted(n).holder = n /\ Wanted(n).renew = Stamp(tryNow[n])
      /\ Stamp(tryNow[n]) \in Int /\ tryNow[n] < Stamp(tryNow[n]) + Second
  BY <1>0, StampBounds DEF Wanted, Record
<1>2. CASE /\ Swap(n, Wanted(n))
           /\ observed' = [observed EXCEPT ![n] = [holder |-> n, renew |-> tryNow[n]]]
           /\ observedAt' = [observedAt EXCEPT ![n] = now]
           /\ Won(n)
  <2>1. /\ Sending(n) /\ rec' = Wanted(n) /\ fresh' = {} /\ late' = {}
        /\ Takes(Wanted(n))
        /\ pc' = [pc EXCEPT ![n] = "wait"]
        /\ phase' = [phase EXCEPT ![n] = "leading"]
        /\ since' = [since EXCEPT ![n] = now]
        /\ final' = [final EXCEPT ![n] = FALSE]
        /\ reported' = [reported EXCEPT ![n] = n]
    BY <1>2 DEF Swap, Won, Report, IInv, TypeOK
  <2>2. /\ taken' \in Int /\ taken' <= now
        /\ \A m \in Node : observed[m].holder = m =>
              \/ n = m /\ Stamp(observed[m].renew) <= Stamp(tryNow[n])
              \/ Stamp(observed[m].renew) + LeaseDuration <= now
        /\ \A m \in Node : phase[m] = "leading" /\ n # m =>
              since[m] + LeaseDuration < taken' + Second + OpDelay
    BY <1>0, <1>1, <2>1, Overwritten DEF Writable
  <2>3. rec' # NoRecord
    BY <1>1, <2>1, NoRecordFacts
  <2>4. TimeInv'
    BY <1>0, <2>1, <2>2 DEF IInv, TimeInv, TypeOK
  <2>5. PollInv'
    BY <1>0, <2>1, Numbers DEF IInv, PollInv, TypeOK
  <2>6. RecInv' /\ SwapInv'
    BY <1>0, <1>1, <2>1, <2>3 DEF RecInv, SwapInv
  <2>7. ObsInv'
    BY <1>0, <1>2 DEF IInv, ObsInv, TypeOK
  <2>8. now < Stamp(tryNow[n]) + Second + OpDelay
    BY <1>0, <1>1, Numbers
  <2>9. HoldInv'
    BY <1>1, <2>1, <2>2, <2>3, <2>8 DEF IInv, HoldInv, TypeOK
  <2>10. LeaseInv'
    BY <1>0, <1>1, <1>2, <2>1, <2>2 DEF IInv, LeaseInv, TypeOK
  <2> QED
    BY <2>4, <2>5, <2>6, <2>7, <2>9, <2>10 DEF IInv
<1>3. CASE UNCHANGED <<store, seen, taken>> /\ Lost(n)
  <2>1. TimeInv' /\ PollInv' /\ HoldInv'
    BY <1>0, <1>3, LostStep DEF store
  <2>2. RecInv' /\ ObsInv' /\ LeaseInv'
    BY <1>0, <1>3 DEF IInv, RecInv, ObsInv, LeaseInv, store, seen
  <2>3. SwapInv'
    BY <1>0, <1>3 DEF Lost, IInv, SwapInv, TypeOK, store
  <2> QED
    BY <2>1, <2>2, <2>3 DEF IInv
<1>4. CASE /\ late' = IF Sending(n) THEN late \union {Wanted(n)} ELSE late
           /\ UNCHANGED <<rec, fresh, seen, taken>>
           /\ Lost(n)
  <2>1. TimeInv' /\ PollInv' /\ HoldInv'
    <3>1. \A r \in late' : r \in late \/ (Sending(n) /\ r = Wanted(n))
      BY <1>4
    <3> QED
      BY <1>0, <1>4, <3>1, LostStep
  <2>2. ObsInv' /\ LeaseInv'
    BY <1>0, <1>4 DEF IInv, ObsInv, LeaseInv, seen
  <2>3. \A m \in Node : pc'[m] = "update" => pc[m] = "update"
    BY <1>4 DEF Lost, IInv, TypeOK
  <2>4. RecInv' /\ SwapInv'
    BY <1>0, <1>4, <2>3, SendingLate
  <2> QED
    BY <2>1, <2>2, <2>4 DEF IInv
<1> QED
  BY <1>2, <1>3, <1>4 DEF Write

(***************************************************************************)
(* A late write renews the record of its holder or takes one whose lease   *)
(* has passed.                                                             *)
(***************************************************************************)
LEMMA LateStep ==
    ASSUME IInv, TypeOK', NEW r \in late, LateWrite(r)
    PROVE  IInv'
<1>1. /\ rec' = r /\ fresh' = {} /\ late' = {} /\ Takes(r)
      /\ UNCHANGED <<now, phase, pc, tryNow, final, since, observed, observedAt,
                     reported>>
      /\ r \in Record /\ r # NoRecord /\ r.renew \in Int
  BY NoRecordFacts DEF LateWrite, IInv, TypeOK, seen
<1>2. /\ taken' \in Int /\ taken' <= now
      /\ \A m \in Node : observed[m].holder = m =>
            \/ r.holder = m /\ Stamp(observed[m].renew) <= r.renew
            \/ Stamp(observed[m].renew) + LeaseDuration <= now
      /\ \A m \in Node : phase[m] = "leading" /\ r.holder # m =>
            since[m] + LeaseDuration < taken' + Second + OpDelay
  BY <1>1, Overwritten DEF Writable
<1>3. TimeInv' /\ PollInv' /\ ObsInv'
  BY <1>1, <1>2 DEF IInv, TimeInv, PollInv, ObsInv
<1>4. RecInv' /\ SwapInv'
  BY <1>1 DEF IInv, RecInv, SwapInv
<1>5. HoldInv'
  BY <1>1, <1>2 DEF IInv, HoldInv
<1>6. LeaseInv'
  BY <1>1, <1>2 DEF LeaseInv
<1> QED
  BY <1>3, <1>4, <1>5, <1>6 DEF IInv

(***************************************************************************)
(* Time passes only as far as tries and deadlines let it.                  *)
(***************************************************************************)
LEMMA TickStep ==
    ASSUME IInv, TypeOK', Tick
    PROVE  IInv'
<1>1. /\ now \in Int /\ now' = now + 1
      /\ UNCHANGED <<rec, fresh, late, phase, pc, tryNow, final, since, seen,
                     reported, taken>>
      /\ taken \in Int
  BY DEF Tick, store, IInv, TypeOK
<1>2. \A n \in Node :
          /\ tryNow[n] \in Int /\ since[n] \in Int
          /\ pc[n] # "wait" => now < tryNow[n] + OpDelay
          /\ pc[n] = "wait" /\ phase[n] = "leading"
                => ~ (now >= since[n] + RenewDeadline)
  BY DEF Tick, DeadlineDue, IInv, TypeOK
<1>3. TimeInv'
  BY <1>1, <1>2, Numbers DEF IInv, TimeInv
<1>4. PollInv'
  BY <1>1, <1>2, Numbers DEF IInv, PollInv
<1>5. RecInv' /\ ObsInv' /\ HoldInv'
  BY <1>1 DEF IInv, RecInv, ObsInv, HoldInv, seen
<1>7. LeaseInv'
  <2>1. \A n \in Node : observed[n].holder = n => Stamp(observed[n].renew) \in Int
    BY NoRecordFacts, StampBounds, ElectionAssumption DEF IInv, TypeOK
  <2> QED
    BY <1>1, <2>1, Numbers DEF IInv, LeaseInv, seen
<1>6. SwapInv'
  <2>1. rec # NoRecord => rec.renew \in Int
    BY NoRecordFacts DEF IInv, TypeOK
  <2> QED
    BY <1>1, <2>1, Numbers DEF IInv, SwapInv
<1> QED
  BY <1>3, <1>4, <1>5, <1>6, <1>7 DEF IInv

(***************************************************************************)
(* The inductive invariant holds, whatever the durations.                  *)
(***************************************************************************)
LEMMA InductiveInvariant == Spec => []IInv
<1>1. Init => IInv
  <2> SUFFICES ASSUME Init PROVE IInv
    OBVIOUS
  <2>1. TypeOK
    BY Numbers, NoRecordFacts DEF Init, TypeOK
  <2>2. TimeInv /\ PollInv /\ HoldInv
    BY Numbers DEF Init, TimeInv, PollInv, HoldInv
  <2>4. LeaseInv
    BY ElectionAssumption DEF Init, LeaseInv, NoRecord
  <2>3. RecInv /\ ObsInv /\ SwapInv
    BY DEF Init, RecInv, ObsInv, SwapInv
  <2> QED
    BY <2>1, <2>2, <2>3, <2>4 DEF IInv
<1>2. IInv /\ [Next]_vars => IInv'
  <2> SUFFICES ASSUME IInv, [Next]_vars PROVE IInv'
    OBVIOUS
  <2>1. TypeOK'
    BY TypeStep DEF IInv
  <2>2. CASE UNCHANGED vars
    BY <2>1, <2>2 DEF vars, IInv, TimeInv, PollInv, RecInv, ObsInv, SwapInv,
                      HoldInv, LeaseInv
  <2> QED
    BY <2>1, <2>2, StartStep, CrashStep, TryStep, GetStep, WriteStep, LateStep,
       TickStep
    DEF Next, TimeUp
<1> QED
  BY <1>1, <1>2, PTL DEF Spec

-----------------------------------------------------------------------------
(* The theorems.                                                           *)

(***************************************************************************)
(* The lease of a node on record has not passed while the node has it.     *)
(***************************************************************************)
LEMMA LeaseOnRecord ==
    ASSUME IInv, NEW n \in Node, HasLease(n)
    PROVE  /\ rec # NoRecord /\ rec.holder = n
           /\ rec.renew \in Int /\ now < rec.renew + LeaseDuration
<1>1. Stamp(observed[n].renew) \in Int /\ now \in Int
  BY NoRecordFacts, StampBounds, ElectionAssumption DEF HasLease, IInv, TypeOK
<1>2. rec.holder = n /\ Stamp(observed[n].renew) <= rec.renew
  BY <1>1, Numbers DEF HasLease, IInv, LeaseInv
<1>3. rec # NoRecord /\ rec.renew \in Int
  BY <1>2, NoRecordFacts, ElectionAssumption DEF IInv, TypeOK
<1> QED
  BY <1>1, <1>2, <1>3, Numbers DEF HasLease

(***************************************************************************)
(* A write that etcd would accept is the holder's while it has the lease.  *)
(***************************************************************************)
LEMMA LeaseKept ==
    ASSUME IInv, NEW n \in Node, HasLease(n), NEW r, Writable(r)
    PROVE  r.holder = n
<1>1. now \in Int
  BY DEF IInv, TypeOK
<1> QED
  BY <1>1, LeaseOnRecord, WritableAge, Numbers

(***************************************************************************)
(* A node that has the lease is the holder on record, and one that leads   *)
(* has announced itself, however long requests take and however the        *)
(* durations are chosen.                                                   *)
(***************************************************************************)
THEOREM LeaderHoldsRecord == Spec => []LeaderOnRecord
<1>1. IInv => LeaderOnRecord
  BY LeaseOnRecord DEF IInv, HoldInv, LeaderOnRecord
<1> QED
  BY <1>1, InductiveInvariant, PTL

(***************************************************************************)
(* No write that etcd would accept takes the record from a node that has   *)
(* the lease.                                                              *)
(***************************************************************************)
THEOREM LeaseNotBroken == Spec => []NoTakeover
<1>1. IInv => NoTakeover
  <2> SUFFICES ASSUME IInv, NEW m \in Node, HasLease(m)
               PROVE  /\ \A n \in Node : pc[n] = "update" /\ n \in fresh => n = m
                      /\ \A r \in late : r.holder = m
    BY DEF NoTakeover
  <2>1. \A r \in late : r.holder = m
    BY LeaseKept DEF Writable
  <2>2. ASSUME NEW n \in Node, pc[n] = "update", n \in fresh PROVE n = m
    <3>1. Writable(Wanted(n)) /\ Wanted(n).holder = n
      BY <2>2 DEF Writable, Sending, Wanted
    <3> QED
      BY <3>1, LeaseKept
  <2> QED
    BY <2>1, <2>2
<1> QED
  BY <1>1, InductiveInvariant, PTL

(***************************************************************************)
(* A leader stops in time, also when another node has taken the record.    *)
(***************************************************************************)
THEOREM LeaderStopsInTime == Spec => []DeposedLeaderStops
<1>1. IInv => DeposedLeaderStops
  <2> SUFFICES ASSUME IInv, NEW n \in Node, phase[n] = "leading"
               PROVE  now < ActingTime + (IF rec.holder = n THEN rec.renew
                                                  ELSE taken - LeaseDuration)
    BY DEF DeposedLeaderStops
  <2>1. /\ now \in Int /\ since[n] \in Int /\ tryNow[n] \in Int
        /\ taken \in Int /\ rec.renew \in Int
    BY NoRecordFacts DEF IInv, HoldInv, TypeOK
  <2>2. now <= since[n] + RenewDeadline + 2 * OpDelay
    <3>1. CASE pc[n] = "wait"
      BY <2>1, <3>1, Numbers DEF IInv, PollInv
    <3>2. CASE pc[n] # "wait"
      <4>1. tryNow[n] <= since[n] + RenewDeadline + OpDelay
        BY <2>1, <3>2, Numbers DEF IInv, PollInv
      <4>2. now <= tryNow[n] + OpDelay
        BY <3>2 DEF IInv, TimeInv
      <4> QED
        BY <2>1, <4>1, <4>2, Numbers
    <3> QED
      BY <3>1, <3>2
  <2>3. CASE rec.holder = n
    <3>1. since[n] < rec.renew + Second + OpDelay
      BY <2>3 DEF IInv, HoldInv
    <3> QED
      BY <2>1, <2>2, <2>3, <3>1, Numbers DEF ActingTime
  <2>4. CASE rec.holder # n
    <3>1. since[n] + LeaseDuration < taken + Second + OpDelay
      BY <2>4 DEF IInv, HoldInv
    <3> QED
      BY <2>1, <2>2, <2>4, <3>1, Numbers DEF ActingTime
  <2> QED
    BY <2>3, <2>4
<1> QED
  BY <1>1, InductiveInvariant, PTL

(***************************************************************************)
(* Only acquire and renew try.                                             *)
(***************************************************************************)
LEMMA TriesInLoop == Spec => [](TypeOK /\ PhaseInv)
<1>1. Init => TypeOK /\ PhaseInv
  BY Numbers, NoRecordFacts DEF Init, TypeOK, PhaseInv
<1>2. TypeOK /\ PhaseInv /\ [Next]_vars => PhaseInv'
  <2> SUFFICES ASSUME TypeOK, PhaseInv, [Next]_vars PROVE PhaseInv'
    OBVIOUS
  <2>1. ASSUME NEW n \in Node, Start(n) \/ Crash(n) \/ Try(n) PROVE PhaseInv'
    BY <2>1 DEF Start, Crash, Try, BeginTry, AcquireDue, TickDue, DeadlineDue,
                PhaseInv, TypeOK
  <2>2. ASSUME NEW n \in Node, Get(n) \/ Write(n) PROVE PhaseInv'
    <3>1. phase[n] \in {"acquire", "leading"}
      BY <2>2 DEF Get, Write, PhaseInv
    <3>2. CASE pc' = [pc EXCEPT ![n] = "wait"] /\
               \E p \in {phase[n], "stopped", "leading"} : phase' = [phase EXCEPT ![n] = p]
      BY <3>2 DEF PhaseInv, TypeOK
    <3>3. CASE UNCHANGED phase /\ \E l : pc' = [pc EXCEPT ![n] = l]
      BY <3>1, <3>3 DEF PhaseInv, TypeOK
    <3>4. Lost(n) => \/ UNCHANGED phase /\ \E l : pc' = [pc EXCEPT ![n] = l]
                     \/ /\ pc' = [pc EXCEPT ![n] = "wait"]
                        /\ phase' = [phase EXCEPT ![n] = "stopped"]
      BY DEF Lost
    <3> QED
      BY <2>2, <3>2, <3>3, <3>4 DEF Get, Write, Won
  <2>3. CASE (\E r \in late : LateWrite(r)) \/ Tick \/ UNCHANGED vars
    BY <2>3 DEF LateWrite, Tick, vars, PhaseInv
  <2> QED
    BY <2>1, <2>2, <2>3 DEF Next, TimeUp
<1> QED
  BY <1>1, <1>2, TypeStep, PTL DEF Spec

(***************************************************************************)
(* Type correctness, without any assumption on the durations.              *)
(***************************************************************************)
THEOREM TypeCorrect == Spec => []TypeOK
BY TriesInLoop, PTL

\* The leader of the abstract election is the node that has the lease.
OneHasLease ==
    /\ \A n \in Node : HasLease(n) <=> leader = n
    /\ leader \in Node \union {NoNode}

(***************************************************************************)
(* At most one node has the lease at a time.                               *)
(***************************************************************************)
LEMMA LeaderIs == Spec => []OneHasLease
<1>1. ASSUME IInv PROVE OneHasLease
  <2>1. \A m, n \in Node : HasLease(m) /\ HasLease(n) => m = n
    BY <1>1, LeaseOnRecord
  <2> QED
    BY <2>1, ElectionAssumption DEF leader, OneHasLease
<1> QED
  BY <1>1, InductiveInvariant, PTL

(***************************************************************************)
(* A step that changes nobody's phase, and lets nobody's lease begin.      *)
(***************************************************************************)
LEMMA LapseStep ==
    ASSUME OneHasLease, OneHasLease', phase' = phase,
           \A n \in Node : HasLease(n)' => HasLease(n)
    PROVE  L!Lapse \/ UNCHANGED <<leader, acting, retired>>
<1>3. leader' = NoNode \/ leader' = leader
  BY DEF OneHasLease
<1>4. UNCHANGED <<acting, retired>>
  BY DEF acting, retired
<1> QED
  BY <1>3, <1>4 DEF L!Lapse

(***************************************************************************)
(* A write that succeeds: its node is elected, or goes on.                 *)
(***************************************************************************)
LEMMA WonStep ==
    ASSUME IInv, OneHasLease, OneHasLease', PhaseInv,
           NEW n \in Node, Write(n), Won(n),
           Swap(n, Wanted(n)),
           \A m \in Node \ {n} : observed'[m] = observed[m]
    PROVE  L!Elect(n) \/ L!Lapse \/ UNCHANGED <<leader, acting, retired>>
<1>3. \A m \in Node : HasLease(m) => m = n
  BY LeaseKept DEF Swap, Writable, Wanted
<1>4. /\ now' = now /\ phase' = [phase EXCEPT ![n] = "leading"]
      /\ phase[n] \in {"acquire", "leading"}
  BY DEF Write, Won, PhaseInv
<1>5. \A m \in Node \ {n} : HasLease(m)' <=> HasLease(m)
  BY <1>4 DEF HasLease, IInv, TypeOK
<1>6. leader \in {n, NoNode} /\ leader' \in {n, NoNode}
  BY <1>3, <1>5 DEF OneHasLease
<1>7. /\ acting' = acting \union {n} /\ retired' = retired /\ n \notin retired
      /\ phase[n] = "leading" => acting' = acting
  BY <1>4 DEF acting, retired, IInv, TypeOK
<1>8. CASE leader = NoNode
  BY <1>6, <1>7, <1>8 DEF L!Elect
<1>9. CASE leader = n
  <2>1. phase[n] = "leading"
    BY <1>9 DEF HasLease, OneHasLease
  <2> QED
    BY <1>6, <1>7, <1>9, <2>1 DEF L!Lapse
<1> QED
  BY <1>6, <1>8, <1>9

(***************************************************************************)
(* A try that fails: only the node's own lease may end, and with its last  *)
(* try its leadership does.                                                *)
(***************************************************************************)
LEMMA LostLease ==
    ASSUME IInv, OneHasLease, OneHasLease', NEW n \in Node, Lost(n), now' = now,
           \A m \in Node \ {n} : observed'[m] = observed[m],
           \/ observed'[n] = observed[n]
           \/ observed'[n].holder # n
    PROVE  L!Resign(n) \/ L!Lapse \/ UNCHANGED <<leader, acting, retired>>
<1>3. CASE phase' = phase
  <2>1. \A m \in Node : HasLease(m)' => HasLease(m)
    BY <1>3 DEF HasLease
  <2> QED
    BY <1>3, <2>1, LapseStep
<1>4. CASE phase[n] = "leading" /\ phase' = [phase EXCEPT ![n] = "stopped"]
  <2>1. /\ n \in acting /\ acting' = acting \ {n}
        /\ retired' = retired \union {n}
    BY <1>4 DEF acting, retired, IInv, TypeOK
  <2>2. \A m \in Node \ {n} : HasLease(m)' <=> HasLease(m)
    BY <1>4 DEF HasLease, IInv, TypeOK
  <2>3. ~ HasLease(n)'
    BY <1>4 DEF HasLease, IInv, TypeOK
  <2>4. leader' = IF leader = n THEN NoNode ELSE leader
    BY <2>2, <2>3, ElectionAssumption DEF OneHasLease
  <2> QED
    BY <2>1, <2>4 DEF L!Resign
<1> QED
  BY <1>3, <1>4 DEF Lost

(***************************************************************************)
(* Get: a node that leads may learn of a renewal of its own that had no    *)
(* answer, or of the loss of its record.                                   *)
(***************************************************************************)
LEMMA GetLease ==
    ASSUME IInv, OneHasLease, OneHasLease', PhaseInv, NEW n \in Node, Get(n)
    PROVE  [L!Next]_<<leader, acting, retired>>
<1>0. /\ now' = now /\ \A m \in Node \ {n} : observed'[m] = observed[m]
      /\ phase[n] \in {"acquire", "leading"}
  BY DEF Get, Observe, seen, PhaseInv, IInv, TypeOK
<1>1. CASE UNCHANGED <<phase, seen>>
  <2>1. \A m \in Node : HasLease(m)' => HasLease(m)
    BY <1>0, <1>1 DEF HasLease, seen
  <2> QED
    BY <1>1, <2>1, LapseStep DEF L!Next
<1>2. CASE Observe(n) /\ rec.holder # n /\ Lost(n)
  <2>1. observed'[n].holder # n
    BY <1>2 DEF Observe, IInv, TypeOK
  <2> QED
    BY <1>0, <1>2, <2>1, LostLease DEF L!Next
<1>3. CASE UNCHANGED seen /\ Lost(n)
  BY <1>0, <1>3, LostLease DEF L!Next, seen
<1>4. CASE rec # NoRecord /\ Observe(n) /\ UNCHANGED phase
      <2>3. \A m \in Node \ {n} : HasLease(m)' <=> HasLease(m)
    BY <1>0, <1>4 DEF HasLease
  <2>4. CASE HasLease(n)' /\ ~ HasLease(n)
    <3>1. rec' = rec /\ observed'[n] = rec
      BY <1>4 DEF Get, Observe, IInv, TypeOK
    <3>2. rec.holder = n /\ phase[n] = "leading"
      BY <1>4, <2>4, <3>1 DEF HasLease
    <3>3. leader = NoNode
      BY <2>4, <3>2, LeaseOnRecord DEF OneHasLease
    <3>4. n \notin retired /\ acting' = acting \union {n} /\ retired' = retired
      BY <1>4, <3>2 DEF acting, retired
    <3> QED
      BY <2>4, <3>3, <3>4 DEF L!Elect, L!Next, OneHasLease
  <2>5. CASE ~ (HasLease(n)' /\ ~ HasLease(n))
    <3>1. \A m \in Node : HasLease(m)' => HasLease(m)
      BY <2>3, <2>5
    <3> QED
      BY <1>4, <3>1, LapseStep DEF L!Next
  <2> QED
    BY <2>4, <2>5
<1> QED
  BY <1>1, <1>2, <1>3, <1>4 DEF Get

(***************************************************************************)
(* The election implements the abstract leadership, whatever the durations *)
(* and however long requests take.                                         *)
(***************************************************************************)
THEOREM Implementation == Spec => ImplementsLeadership
<1>1. Init => L!Init
  BY DEF Init, L!Init, leader, acting, retired, HasLease
<1>2. ASSUME IInv, OneHasLease, OneHasLease', PhaseInv, [Next]_vars
      PROVE  [L!Next]_<<leader, acting, retired>>
      <2>1. ASSUME NEW n \in Node, Start(n)
        PROVE  UNCHANGED <<leader, acting, retired>>
    <3>1. /\ phase[n] = "down" /\ phase' = [phase EXCEPT ![n] = "acquire"]
          /\ UNCHANGED <<now, observed>>
      BY <2>1 DEF Start, seen
    <3>2. \A m \in Node : HasLease(m)' <=> HasLease(m)
      BY <1>2, <3>1 DEF HasLease, IInv, TypeOK
    <3>3. UNCHANGED <<acting, retired>>
      BY <1>2, <3>1 DEF acting, retired, IInv, TypeOK
    <3> QED
      BY <1>2, <3>2, <3>3 DEF OneHasLease
  <2>2. ASSUME NEW n \in Node, Crash(n) PROVE L!Crash(n)
    <3>1. /\ phase' = [phase EXCEPT ![n] = "down"] /\ now' = now
          /\ \A m \in Node \ {n} : observed'[m] = observed[m]
      BY <2>2 DEF Crash
    <3>2. /\ ~ HasLease(n)'
          /\ \A m \in Node \ {n} : HasLease(m)' <=> HasLease(m)
      BY <1>2, <3>1 DEF HasLease, IInv, TypeOK
    <3>3. acting' = acting \ {n} /\ retired' = retired \ {n}
      BY <1>2, <3>1 DEF acting, retired, IInv, TypeOK
    <3>4. leader' = IF leader = n THEN NoNode ELSE leader
      BY <1>2, <3>2, ElectionAssumption DEF OneHasLease
    <3> QED
      BY <3>3, <3>4 DEF L!Crash
  <2>3. ASSUME NEW n \in Node, Write(n)
        PROVE  [L!Next]_<<leader, acting, retired>>
    <3>1. CASE /\ Swap(n, Wanted(n))
               /\ observed' = [observed EXCEPT ![n] = [holder |-> n, renew |-> tryNow[n]]]
               /\ Won(n)
      <4>1. \A m \in Node \ {n} : observed'[m] = observed[m]
        BY <1>2, <3>1 DEF IInv, TypeOK
      <4> QED
        BY <1>2, <2>3, <3>1, <4>1, WonStep DEF L!Next
    <3>2. CASE UNCHANGED seen /\ Lost(n)
      <4>1. now' = now
        BY <2>3 DEF Write
      <4> QED
        BY <1>2, <3>2, <4>1, LostLease DEF L!Next, seen
    <3> QED
      BY <2>3, <3>1, <3>2 DEF Write
  <2>4. ASSUME UNCHANGED <<phase, observed>>, now' \in {now, now + 1}
        PROVE  [L!Next]_<<leader, acting, retired>>
    <3>1. \A n \in Node : observed[n].holder = n => Stamp(observed[n].renew) \in Int
      BY <1>2, NoRecordFacts, StampBounds, ElectionAssumption DEF IInv, TypeOK
    <3>2. \A n \in Node : HasLease(n)' => HasLease(n)
      BY <1>2, <2>4, <3>1, Numbers DEF HasLease, Stamp, IInv, TypeOK
    <3> QED
      BY <1>2, <2>4, <3>2, LapseStep DEF L!Next
  <2>5. ASSUME \/ \E n \in Node : Try(n)
               \/ \E r \in late : LateWrite(r)
               \/ Tick \/ UNCHANGED vars
        PROVE  UNCHANGED <<phase, observed>> /\ now' \in {now, now + 1}
    BY <2>5 DEF Try, BeginTry, LateWrite, Tick, vars, seen
  <2> QED
    BY <1>2, <2>1, <2>2, <2>3, <2>4, <2>5, GetLease DEF Next, TimeUp, L!Next
<1> QED
  BY <1>1, <1>2, InductiveInvariant, LeaderIs, TriesInLoop, PTL
  DEF Spec, ImplementsLeadership, L!Spec

-----------------------------------------------------------------------------
(* Takeover in time.                                                       *)

\* A try does not last longer than the lease.  With the 10 s of pkg/leader and
\* two requests of 3 s it does not.
TryWithinLease == LeaseDuration >= OpDelay + Second

\* A node that has seen a record and waits for its lease to end.
Candidate(n) == phase[n] = "acquire" /\ observed[n] # NoRecord

\* The end of the lease the candidate waits for.
LeaseEnd(n) == observedAt[n] + LeaseDuration

\* A record that was written after o was on record, and is not o again.
Later(r, o) == IF r.holder = o.holder THEN o.renew < r.renew
                                      ELSE o.renew + LeaseDuration <= now

\* What a node remembers was on record, and is forgotten with the process.
SightInv(n) ==
    /\ phase[n] = "down" => observed[n] = NoRecord
    /\ observed[n] # NoRecord => rec # NoRecord
    /\ phase[n] = "acquire" /\ pc[n] = "create" => observed[n] = NoRecord

\* acquire waits at most MaxWait between two tries.
WaitInv(n) ==
    phase[n] = "acquire" =>
        IF pc[n] = "wait" THEN now <= since[n] + MaxWait
                          ELSE tryNow[n] <= since[n] + MaxWait

\* A record that has been replaced by another one does not come back.
PastInv(n) ==
    Candidate(n) /\ rec # observed[n] =>
        /\ Later(rec, observed[n])
        /\ \A r \in late : r.holder = observed[n].holder
                              => observed[n].renew < r.renew

\* A candidate about to replace the record has seen the one that is there.
AimInv(n) ==
    Candidate(n) /\ pc[n] = "update" /\ n \in fresh => rec = observed[n]

\* How often a candidate has tried in vain since the lease ended: never, or
\* once, after which the same record cannot be written again, or twice, after
\* which it has been replaced.
RoundInv(n) ==
    Candidate(n) =>
        \/ since[n] < LeaseEnd(n) + OpDelay
        \/ /\ LeaseEnd(n) <= now
           /\ since[n] <= LeaseEnd(n) + MaxWait + 2 * OpDelay
           /\ rec # observed[n] \/ observed[n] \notin late
        \/ /\ since[n] <= LeaseEnd(n) + 2 * MaxWait + 3 * OpDelay
           /\ rec # observed[n]
           /\ pc[n] # "update"

\* An Update whose index is out of date, after the end of the lease.
VainInv(n) ==
    /\ Candidate(n) /\ pc[n] = "update" /\ n \notin fresh
    /\ LeaseEnd(n) <= tryNow[n]
    => /\ rec # observed[n] \/ observed[n] \notin late
       /\ since[n] >= LeaseEnd(n) + OpDelay => rec # observed[n]

NodeInv(n) ==
    /\ SightInv(n) /\ WaitInv(n) /\ PastInv(n) /\ AimInv(n)
    /\ faults = 0 => RoundInv(n) /\ VainInv(n)

TakeoverInv == \A n \in Node : NodeInv(n)

\* What the steps of other nodes leave alone.
own(n) == <<phase[n], pc[n], tryNow[n], since[n], observed[n], observedAt[n]>>

(***************************************************************************)
(* acquire waits at least RetryPeriod.                                     *)
(***************************************************************************)
LEMMA WaitBound == MaxWait \in Int /\ MaxWait >= RetryPeriod
BY Numbers DEF MaxWait

(***************************************************************************)
(* The types a candidate's proof needs.                                    *)
(***************************************************************************)
LEMMA CandidateTypes ==
    ASSUME IInv, NEW n \in Node, SightInv(n), Candidate(n)
    PROVE  /\ observed[n] \in Record /\ observed[n].renew \in Int
           /\ observed[n].holder \in Node
           /\ rec \in Record /\ rec.renew \in Int /\ rec # NoRecord
           /\ observedAt[n] \in Int /\ tryNow[n] \in Int /\ since[n] \in Int
           /\ LeaseEnd(n) \in Int
           /\ now \in Int /\ tryNow[n] <= now /\ since[n] <= now
           /\ observed[n].renew + LeaseDuration <= LeaseEnd(n)
<1>1. observed[n] \in Record /\ rec \in Record /\ rec # NoRecord
  BY DEF IInv, TypeOK, SightInv, Candidate
<1>2. observed[n].renew \in Int /\ observed[n].holder \in Node /\ rec.renew \in Int
  BY <1>1, NoRecordFacts
<1>3. /\ observedAt[n] \in Int /\ tryNow[n] \in Int /\ since[n] \in Int
      /\ now \in Int /\ tryNow[n] <= now /\ since[n] <= now
      /\ observed[n].renew <= observedAt[n]
  BY DEF IInv, TypeOK, TimeInv, ObsInv, Candidate
<1> QED
  BY <1>1, <1>2, <1>3, Numbers DEF LeaseEnd

(***************************************************************************)
(* What is sent a lease after a record was renewed carries a later time.   *)
(***************************************************************************)
LEMMA SentLater ==
    ASSUME TryWithinLease, IInv, NEW k \in Node, Sending(k),
           NEW t \in Int, t + LeaseDuration <= now
    PROVE  t < Wanted(k).renew
<1>1. /\ now \in Int /\ tryNow[k] \in Int /\ now <= tryNow[k] + OpDelay
      /\ Wanted(k).renew = Stamp(tryNow[k])
  BY DEF Sending, Wanted, IInv, TypeOK, TimeInv
<1>2. Stamp(tryNow[k]) \in Int /\ tryNow[k] < Stamp(tryNow[k]) + Second
  BY <1>1, StampBounds
<1> QED
  BY <1>1, <1>2, Numbers DEF TryWithinLease

(***************************************************************************)
(* A write etcd would accept is later than what a candidate has seen, or   *)
(* it is the same record once more; and that only while the record the     *)
(* candidate has seen is still there.                                      *)
(***************************************************************************)
LEMMA WritesLater ==
    ASSUME TryWithinLease, IInv, NEW n \in Node, SightInv(n), PastInv(n),
           Candidate(n), NEW r, Writable(r)
    PROVE  /\ r \in Record
           /\ r # observed[n] => Later(r, observed[n])
           /\ rec # observed[n] /\ r.holder = observed[n].holder
                 => observed[n].renew < r.renew
           /\ rec # observed[n] => r # observed[n]
           /\ LeaseEnd(n) <= now /\ r \notin late => r # observed[n]
<1> DEFINE o == observed[n]
<1>0. /\ o \in Record /\ o.renew \in Int /\ o.holder \in Node
      /\ rec \in Record /\ rec.renew \in Int /\ rec # NoRecord
      /\ observedAt[n] \in Int /\ now \in Int /\ LeaseEnd(n) \in Int
      /\ o.renew + LeaseDuration <= LeaseEnd(n)
  BY CandidateTypes
<1>1. r \in Record /\ r.renew \in Int
  BY NoRecordFacts, StampBounds DEF Writable, Wanted, Record, IInv, TypeOK
<1>2. /\ r.holder = rec.holder => rec.renew <= r.renew
      /\ r.holder # rec.holder => rec.renew + LeaseDuration <= now
  <2>1. CASE r \in late
    BY <1>0, <2>1 DEF IInv, SwapInv
  <2>2. ASSUME NEW k \in Node, Sending(k), r = Wanted(k)
        PROVE  /\ r.holder = rec.holder => rec.renew <= r.renew
               /\ r.holder # rec.holder => rec.renew + LeaseDuration <= now
    <3>1. /\ pc[k] = "update" /\ k \in fresh
          /\ r.holder = k /\ r.renew = Stamp(tryNow[k])
      BY <1>0, <2>2 DEF Sending, Wanted
    <3> QED
      BY <1>0, <3>1 DEF IInv, SwapInv, RecInv
  <2> QED
    BY <2>1, <2>2 DEF Writable
<1>3. ASSUME r \notin late, o.renew + LeaseDuration <= now
      PROVE  o.renew < r.renew
  BY <1>0, <1>3, SentLater DEF Writable
<1>4. ASSUME rec # o, r.holder = o.holder PROVE o.renew < r.renew
  <2>1. CASE r \in late
    BY <1>4, <2>1 DEF PastInv
  <2>2. CASE r \notin late
    <3>1. CASE rec.holder = o.holder
      <4>1. o.renew < rec.renew
        BY <1>4, <3>1 DEF PastInv, Later
      <4>2. rec.renew <= r.renew
        BY <1>2, <1>4, <3>1
      <4> QED
        BY <1>0, <1>1, <4>1, <4>2
    <3>2. CASE rec.holder # o.holder
      <4>1. o.renew + LeaseDuration <= now
        BY <1>4, <3>2 DEF PastInv, Later
      <4> QED
        BY <1>3, <2>2, <4>1
    <3> QED
      BY <3>1, <3>2
  <2> QED
    BY <2>1, <2>2
<1>5. ASSUME rec = o, r.holder = o.holder, r # o PROVE o.renew < r.renew
  <2>1. o.renew <= r.renew
    BY <1>2, <1>5
  <2>2. o.renew # r.renew
    BY <1>0, <1>1, <1>5 DEF Record
  <2> QED
    BY <1>0, <1>1, <2>1, <2>2
<1>6. ASSUME r.holder # o.holder PROVE o.renew + LeaseDuration <= now
  <2>1. CASE rec = o
    BY <1>2, <1>6, <2>1
  <2>2. CASE rec # o /\ rec.holder = o.holder
    <3>1. o.renew < rec.renew
      BY <2>2 DEF PastInv, Later
    <3>2. rec.renew + LeaseDuration <= now
      BY <1>2, <1>6, <2>2
    <3> QED
      BY <1>0, <3>1, <3>2, Numbers
  <2>3. CASE rec # o /\ rec.holder # o.holder
    BY <2>3 DEF PastInv, Later
  <2> QED
    BY <2>1, <2>2, <2>3
<1>7. r # o => Later(r, o)
  BY <1>4, <1>5, <1>6 DEF Later
<1>8. rec # o => r # o
  BY <1>0, <1>1, <1>4
<1>9. LeaseEnd(n) <= now /\ r \notin late => r # o
  <2> SUFFICES ASSUME LeaseEnd(n) <= now, r \notin late, r = o PROVE FALSE
    OBVIOUS
  <2>1. o.renew + LeaseDuration <= now
    BY <1>0, Numbers
  <2> QED
    BY <1>0, <1>3, <2>1
<1> QED
  BY <1>1, <1>4, <1>7, <1>8, <1>9

(***************************************************************************)
(* A step of another node that leaves the record alone, and at most leaves *)
(* a write without an answer behind.                                       *)
(***************************************************************************)
LEMMA OtherKeeps ==
    ASSUME TryWithinLease, IInv, NEW n \in Node, NodeInv(n),
           UNCHANGED <<now, rec, own(n)>>,
           faults' = 0 => faults = 0,
           n \in fresh' <=> n \in fresh,
           \A r \in late' : Writable(r)
    PROVE  NodeInv(n)'
<1>0. /\ phase'[n] = phase[n] /\ pc'[n] = pc[n] /\ tryNow'[n] = tryNow[n]
      /\ since'[n] = since[n] /\ observed'[n] = observed[n]
      /\ observedAt'[n] = observedAt[n] /\ now' = now /\ rec' = rec
  BY DEF own
<1>1. (SightInv(n) /\ WaitInv(n) /\ AimInv(n))'
  BY <1>0 DEF NodeInv, SightInv, WaitInv, AimInv, Candidate
<1>2. PastInv(n)'
  <2> SUFFICES ASSUME Candidate(n), rec # observed[n], NEW r \in late',
                      r.holder = observed[n].holder
               PROVE  observed[n].renew < r.renew
    BY <1>0 DEF PastInv, Candidate, Later, NodeInv
  <2> QED
    BY WritesLater DEF NodeInv
<1>3. ASSUME Candidate(n), LeaseEnd(n) <= now, observed[n] \notin late,
             rec = observed[n]
      PROVE  observed[n] \notin late'
  BY <1>3, WritesLater DEF NodeInv
<1>4. ASSUME faults' = 0 PROVE RoundInv(n)' /\ VainInv(n)'
  <2>1. RoundInv(n) /\ VainInv(n)
    BY <1>4 DEF NodeInv
  <2>2. Candidate(n)' <=> Candidate(n)
    BY <1>0 DEF Candidate
  <2>3. LeaseEnd(n)' = LeaseEnd(n)
    BY <1>0 DEF LeaseEnd
  <2>4. RoundInv(n)'
    BY <1>0, <1>3, <2>1, <2>2, <2>3 DEF RoundInv
  <2>5. Candidate(n) /\ LeaseEnd(n) <= tryNow[n] => LeaseEnd(n) <= now
    BY CandidateTypes DEF NodeInv
  <2>6. VainInv(n)'
    BY <1>0, <1>3, <2>1, <2>2, <2>3, <2>5 DEF VainInv
  <2> QED
    BY <2>4, <2>6
<1> QED
  BY <1>1, <1>2, <1>4 DEF NodeInv

(***************************************************************************)
(* A write that is not the candidate's own.                                *)
(***************************************************************************)
LEMMA OtherWrites ==
    ASSUME TryWithinLease, IInv, NEW n \in Node, NodeInv(n), NEW r, Writable(r),
           rec' = r, fresh' = {}, late' = {},
           UNCHANGED <<now, own(n), faults>>
    PROVE  NodeInv(n)'
<1>0. /\ phase'[n] = phase[n] /\ pc'[n] = pc[n] /\ tryNow'[n] = tryNow[n]
      /\ since'[n] = since[n] /\ observed'[n] = observed[n]
      /\ observedAt'[n] = observedAt[n] /\ now' = now
      /\ (Candidate(n)' <=> Candidate(n)) /\ LeaseEnd(n)' = LeaseEnd(n)
  BY DEF own, Candidate, LeaseEnd
<1>1. r \in Record /\ r # NoRecord
  BY NoRecordFacts, StampBounds DEF Writable, Wanted, Record, IInv, TypeOK
<1>2. (SightInv(n) /\ WaitInv(n) /\ AimInv(n))'
  BY <1>0, <1>1 DEF NodeInv, SightInv, WaitInv, AimInv
<1>3. PastInv(n)'
  <2> SUFFICES ASSUME Candidate(n), r # observed[n] PROVE Later(r, observed[n])
    BY <1>0 DEF PastInv, Later
  <2> QED
    BY WritesLater DEF NodeInv
<1>4. ASSUME Candidate(n), rec # observed[n] PROVE r # observed[n]
  BY <1>4, WritesLater DEF NodeInv
<1>5. ASSUME faults' = 0 PROVE RoundInv(n)' /\ VainInv(n)'
  <2>1. RoundInv(n) /\ VainInv(n)
    BY <1>5 DEF NodeInv
  <2>2. RoundInv(n)'
    BY <1>0, <1>4, <2>1 DEF RoundInv
  <2>3. ASSUME Candidate(n), pc[n] = "update", LeaseEnd(n) <= tryNow[n],
               since[n] >= LeaseEnd(n) + OpDelay
        PROVE  r # observed[n]
    <3>1. /\ since[n] \in Int /\ LeaseEnd(n) \in Int
          /\ tryNow[n] \in Int /\ tryNow[n] <= now /\ now \in Int
      BY <2>3, CandidateTypes DEF NodeInv
    <3>2. /\ LeaseEnd(n) <= now
          /\ rec # observed[n] \/ observed[n] \notin late
      BY <2>1, <2>3, <3>1, Numbers DEF RoundInv
    <3> QED
      BY <1>4, <2>3, <3>2, WritesLater DEF NodeInv
  <2>4. VainInv(n)'
    BY <1>0, <2>3 DEF VainInv
  <2> QED
    BY <2>2, <2>4
<1> QED
  BY <1>2, <1>3, <1>5 DEF NodeInv

(***************************************************************************)
(* acquire tries at once.                                                  *)
(***************************************************************************)
LEMMA TakeoverStart ==
    ASSUME TryWithinLease, IInv, PhaseInv, TakeoverInv, NEW m \in Node, Start(m)
    PROVE  TakeoverInv'
<1>0. /\ phase[m] = "down" /\ phase' = [phase EXCEPT ![m] = "acquire"]
      /\ since' = [since EXCEPT ![m] = now - RetryPeriod]
      /\ UNCHANGED <<now, rec, fresh, late, pc, tryNow, observed, observedAt,
                     faults>>
  BY DEF Start, store, seen
<1>1. ASSUME NEW n \in Node, n # m PROVE NodeInv(n)'
  BY <1>0, <1>1, OtherKeeps DEF TakeoverInv, own, Writable, IInv, TypeOK
<1>2. NodeInv(m)'
  <2>1. /\ pc'[m] = "wait" /\ observed'[m] = NoRecord /\ phase'[m] = "acquire"
        /\ since'[m] = now - RetryPeriod /\ now' = now /\ now \in Int
    BY <1>0 DEF PhaseInv, TakeoverInv, NodeInv, SightInv, IInv, TypeOK
  <2>2. WaitInv(m)'
    BY <2>1, WaitBound, Numbers DEF WaitInv
  <2> QED
    BY <2>1, <2>2 DEF NodeInv, SightInv, PastInv, AimInv, RoundInv, VainInv,
                      Candidate
<1> QED
  BY <1>1, <1>2 DEF TakeoverInv

(***************************************************************************)
(* A crash forgets what the node saw; its write may still arrive.          *)
(***************************************************************************)
LEMMA TakeoverCrash ==
    ASSUME TryWithinLease, IInv, TakeoverInv, NEW m \in Node, Crash(m)
    PROVE  TakeoverInv'
<1>0. /\ phase' = [phase EXCEPT ![m] = "down"]
      /\ observed' = [observed EXCEPT ![m] = NoRecord]
      /\ UNCHANGED <<now, rec, fresh, tryNow, faults>>
      /\ \A n \in Node \ {m} : UNCHANGED own(n)
  BY DEF Crash, own, IInv, TypeOK
<1>1. \A r \in late' : Writable(r)
  BY DEF Crash, Writable
<1>2. ASSUME NEW n \in Node, n # m PROVE NodeInv(n)'
  BY <1>0, <1>1, <1>2, OtherKeeps DEF TakeoverInv
<1>3. NodeInv(m)'
  <2>1. phase'[m] = "down" /\ observed'[m] = NoRecord
    BY <1>0 DEF IInv, TypeOK
  <2> QED
    BY <2>1 DEF NodeInv, SightInv, WaitInv, PastInv, AimInv, RoundInv, VainInv,
                Candidate
<1> QED
  BY <1>2, <1>3 DEF TakeoverInv

(***************************************************************************)
(* A try of a candidate begins when its wait is over.                      *)
(***************************************************************************)
LEMMA TakeoverTry ==
    ASSUME TryWithinLease, IInv, TakeoverInv, NEW m \in Node, Try(m)
    PROVE  TakeoverInv'
<1>0. /\ pc[m] = "wait" /\ pc' = [pc EXCEPT ![m] = "get"]
      /\ tryNow' = [tryNow EXCEPT ![m] = now]
      /\ UNCHANGED <<now, rec, fresh, late, phase, since, observed, observedAt,
                     faults>>
  BY DEF Try, BeginTry, store, seen
<1>1. ASSUME NEW n \in Node, n # m PROVE NodeInv(n)'
  BY <1>0, <1>1, OtherKeeps DEF TakeoverInv, own, Writable, IInv, TypeOK
<1>2. NodeInv(m)'
  <2>0. NodeInv(m)
    BY DEF TakeoverInv
  <2>1. pc'[m] = "get" /\ tryNow'[m] = now
    BY <1>0 DEF IInv, TypeOK
  <2>2. (SightInv(m) /\ WaitInv(m) /\ PastInv(m) /\ AimInv(m))'
    BY <1>0, <2>0, <2>1 DEF NodeInv, SightInv, WaitInv, PastInv, AimInv,
                            Candidate, Later
  <2>3. ASSUME faults = 0 PROVE RoundInv(m)' /\ VainInv(m)'
    BY <1>0, <2>0, <2>1, <2>3 DEF NodeInv, RoundInv, VainInv, Candidate, LeaseEnd
  <2> QED
    BY <1>0, <2>2, <2>3 DEF NodeInv
<1> QED
  BY <1>1, <1>2 DEF TakeoverInv

(***************************************************************************)
(* Get: a candidate sees the record that is there, and a second failure    *)
(* after the end of the lease leaves another one to be seen.               *)
(***************************************************************************)
LEMMA TakeoverGet ==
    ASSUME TryWithinLease, IInv, PhaseInv, TakeoverInv, NEW m \in Node, Get(m)
    PROVE  TakeoverInv'
<1>0. /\ pc[m] = "get" /\ phase[m] \in {"acquire", "leading"}
      /\ UNCHANGED <<now, rec, late, tryNow>>
      /\ faults \in Nat /\ (faults' = faults \/ faults' = faults + 1)
      /\ now \in Int /\ tryNow[m] \in Int /\ since[m] \in Int
      /\ observedAt[m] \in Int
      /\ tryNow[m] <= now /\ now <= tryNow[m] + OpDelay /\ since[m] <= now
  BY DEF Get, PhaseInv, IInv, TypeOK, TimeInv
<1>n. NodeInv(m)
  BY DEF TakeoverInv
<1>l. Lost(m) => /\ pc' = [pc EXCEPT ![m] = "wait"]
                 /\ \/ phase' = phase /\ since' = [since EXCEPT ![m] = now]
                    \/ phase' = phase /\ since' = since /\ phase[m] = "leading"
                    \/ phase' = [phase EXCEPT ![m] = "stopped"] /\ since' = since
  BY DEF Lost
<1>1. ASSUME NEW n \in Node, n # m PROVE NodeInv(n)'
  <2>1. UNCHANGED own(n) /\ (n \in fresh' <=> n \in fresh)
    BY <1>0, <1>1, <1>l DEF Get, Observe, own, seen, IInv, TypeOK
  <2>2. faults' = 0 => faults = 0
    BY <1>0
  <2> QED
    BY <1>0, <2>1, <2>2, OtherKeeps DEF TakeoverInv, Writable
<1>2. CASE /\ rec = NoRecord
           /\ pc' = [pc EXCEPT ![m] = "create"]
           /\ UNCHANGED <<fresh, phase, final, since, seen, reported, faults>>
  <2>1. pc'[m] = "create" /\ observed'[m] = NoRecord /\ phase' = phase
        /\ since' = since
    BY <1>2, <1>n DEF NodeInv, SightInv, seen, IInv, TypeOK
  <2>2. WaitInv(m)'
    BY <1>0, <1>n, <2>1 DEF NodeInv, WaitInv
  <2>3. NodeInv(m)'
    BY <1>0, <2>1, <2>2 DEF NodeInv, SightInv, PastInv, AimInv, RoundInv,
                            VainInv, Candidate
  <2> QED
    BY <1>1, <2>3 DEF TakeoverInv
<1>3. CASE rec # NoRecord /\ fresh' = fresh \union {m} /\ Observe(m)
           /\ UNCHANGED faults
  <2>1. /\ observed'[m] = rec /\ observedAt'[m] \in Int
        /\ \/ observed[m] = rec /\ observedAt'[m] = observedAt[m]
           \/ observed[m] # rec /\ observedAt'[m] = now
    BY <1>0, <1>3 DEF Observe, IInv, TypeOK
  <2>2. PastInv(m)' /\ AimInv(m)' /\ VainInv(m)'
    BY <1>0, <1>3, <2>1 DEF PastInv, AimInv, VainInv
  <2>3. CASE /\ pc' = [pc EXCEPT ![m] = "update"]
             /\ UNCHANGED <<phase, final, since, reported>>
    <3>1. pc'[m] = "update" /\ phase' = phase /\ since' = since
      BY <2>3 DEF IInv, TypeOK
    <3>2. SightInv(m)' /\ WaitInv(m)'
      BY <1>0, <1>3, <1>n, <3>1 DEF NodeInv, SightInv, WaitInv
    <3>3. ASSUME faults = 0 PROVE RoundInv(m)'
      <4>1. CASE observed[m] = rec /\ observedAt'[m] = observedAt[m]
        BY <1>0, <1>3, <1>n, <2>1, <3>1, <3>3, <4>1
        DEF NodeInv, RoundInv, Candidate, LeaseEnd
      <4>2. CASE observedAt'[m] = now
        <5>1. since'[m] < LeaseEnd(m)' + OpDelay
          BY <1>0, <3>1, <4>2, ElectionAssumption DEF LeaseEnd
        <5> QED
          BY <5>1 DEF RoundInv
      <4> QED
        BY <2>1, <4>1, <4>2
    <3>4. NodeInv(m)'
      BY <1>3, <2>2, <3>2, <3>3 DEF NodeInv
    <3> QED
      BY <1>1, <3>4 DEF TakeoverInv
  <2>4. CASE ~ Expired(m) /\ Lost(m)
    <3>1. pc'[m] = "wait" /\ phase'[m] # "down"
      BY <1>0, <1>l, <2>4 DEF IInv, TypeOK
    <3>2. phase'[m] = "acquire" => since'[m] = now
      BY <1>0, <1>l, <2>4 DEF IInv, TypeOK
    <3>3. SightInv(m)' /\ WaitInv(m)'
      BY <1>0, <1>3, <3>1, <3>2, WaitBound, Numbers DEF SightInv, WaitInv
    <3>4. now < observedAt'[m] + LeaseDuration + OpDelay
      BY <1>0, <2>1, <2>4, Numbers DEF Expired
    <3>5. RoundInv(m)'
      BY <1>0, <3>2, <3>4 DEF RoundInv, Candidate, LeaseEnd
    <3>6. NodeInv(m)'
      BY <2>2, <3>3, <3>5 DEF NodeInv
    <3> QED
      BY <1>1, <3>6 DEF TakeoverInv
  <2> QED
    BY <1>0, <1>3, <2>3, <2>4 DEF Get
<1>4. CASE faults' = faults + 1 /\ UNCHANGED <<fresh, seen>> /\ Lost(m)
  <2>1. pc'[m] = "wait" /\ phase'[m] # "down" /\ observed' = observed
    BY <1>0, <1>l, <1>4 DEF IInv, TypeOK, seen
  <2>2. phase'[m] = "acquire" => since'[m] = now /\ phase[m] = "acquire"
    BY <1>0, <1>l, <1>4 DEF IInv, TypeOK
  <2>3. (SightInv(m) /\ WaitInv(m) /\ PastInv(m) /\ AimInv(m))'
    BY <1>0, <1>n, <2>1, <2>2, WaitBound, Numbers
    DEF NodeInv, SightInv, WaitInv, PastInv, AimInv, Candidate, Later
  <2>4. NodeInv(m)'
    BY <1>0, <1>4, <2>3 DEF NodeInv
  <2> QED
    BY <1>1, <2>4 DEF TakeoverInv
<1> QED
  BY <1>2, <1>3, <1>4 DEF Get

(***************************************************************************)
(* Update: a candidate fails when the record was written since it read it. *)
(***************************************************************************)
LEMMA TakeoverWrite ==
    ASSUME TryWithinLease, IInv, PhaseInv, TakeoverInv, NEW m \in Node, Write(m)
    PROVE  TakeoverInv'
<1>0. /\ pc[m] \in {"create", "update"} /\ phase[m] \in {"acquire", "leading"}
      /\ UNCHANGED <<now, tryNow>>
      /\ faults \in Nat /\ now \in Int /\ tryNow[m] \in Int
      /\ tryNow[m] <= now /\ now <= tryNow[m] + OpDelay
  BY DEF Write, PhaseInv, IInv, TypeOK, TimeInv
<1>n. NodeInv(m)
  BY DEF TakeoverInv
<1>l. Lost(m) => /\ pc' = [pc EXCEPT ![m] = "wait"]
                 /\ \/ phase' = phase /\ since' = [since EXCEPT ![m] = now]
                    \/ phase' = phase /\ since' = since /\ phase[m] = "leading"
                    \/ phase' = [phase EXCEPT ![m] = "stopped"] /\ since' = since
  BY DEF Lost
<1>1. CASE /\ Swap(m, Wanted(m))
           /\ observed' = [observed EXCEPT ![m] = [holder |-> m, renew |-> tryNow[m]]]
           /\ observedAt' = [observedAt EXCEPT ![m] = now]
           /\ Won(m)
           /\ UNCHANGED faults
  <2>1. /\ Writable(Wanted(m)) /\ Wanted(m) # NoRecord
        /\ rec' = Wanted(m) /\ fresh' = {} /\ late' = {}
        /\ phase' = [phase EXCEPT ![m] = "leading"]
    BY <1>1, NoRecordFacts, StampBounds
    DEF Swap, Won, Writable, Wanted, Record, IInv, TypeOK
  <2>2. ASSUME NEW n \in Node, n # m PROVE NodeInv(n)'
    <3>1. UNCHANGED own(n)
      BY <1>0, <1>1, <2>2 DEF Won, own, IInv, TypeOK
    <3> QED
      BY <1>0, <1>1, <2>1, <3>1, OtherWrites DEF TakeoverInv
  <2>3. phase'[m] = "leading"
    BY <2>1 DEF IInv, TypeOK
  <2>4. NodeInv(m)'
    BY <2>1, <2>3 DEF NodeInv, SightInv, WaitInv, PastInv, AimInv, RoundInv,
                      VainInv, Candidate
  <2> QED
    BY <2>2, <2>4 DEF TakeoverInv
<1>2. CASE /\ UNCHANGED <<rec, fresh, seen>> /\ Lost(m)
           /\ \/ ~ Sending(m) /\ UNCHANGED <<late, faults>>
              \/ /\ faults' = faults + 1
                 /\ late' = IF Sending(m) THEN late \union {Wanted(m)} ELSE late
  <2>1. faults' = 0 => ~ Sending(m) /\ late' = late /\ faults = 0
    BY <1>0, <1>2
  <2>2. \A r \in late' : Writable(r)
    BY <1>2 DEF Writable
  <2>3. ASSUME NEW n \in Node, n # m PROVE NodeInv(n)'
    <3>1. UNCHANGED own(n)
      BY <1>0, <1>l, <1>2, <2>3 DEF own, seen, IInv, TypeOK
    <3> QED
      BY <1>0, <1>2, <2>1, <2>2, <3>1, OtherKeeps DEF TakeoverInv
  <2>4. /\ pc'[m] = "wait" /\ phase'[m] # "down"
        /\ phase'[m] = "acquire" => phase[m] = "acquire" /\ since'[m] = now
        /\ observed' = observed /\ observedAt' = observedAt /\ rec' = rec
        /\ Candidate(m)' => Candidate(m)
        /\ LeaseEnd(m)' = LeaseEnd(m)
    BY <1>0, <1>l, <1>2 DEF IInv, TypeOK, seen, Candidate, LeaseEnd
  <2>5. SightInv(m)' /\ WaitInv(m)' /\ AimInv(m)' /\ VainInv(m)'
    BY <1>0, <1>n, <2>4, WaitBound, Numbers
    DEF NodeInv, SightInv, WaitInv, AimInv, VainInv
  <2>6. PastInv(m)'
    <3> SUFFICES ASSUME Candidate(m), rec # observed[m], NEW r \in late',
                        r.holder = observed[m].holder
                 PROVE  observed[m].renew < r.renew
      BY <1>0, <1>n, <2>4 DEF PastInv, Later, NodeInv
    <3> QED
      BY <1>n, <2>2, WritesLater DEF NodeInv
  <2>7. ASSUME faults' = 0 PROVE RoundInv(m)'
    <3> SUFFICES ASSUME Candidate(m), phase'[m] = "acquire"
                 PROVE  RoundInv(m)'
      BY <2>4 DEF RoundInv, Candidate
    <3>1. /\ since[m] \in Int /\ LeaseEnd(m) \in Int /\ MaxWait \in Int
          /\ rec # NoRecord
      BY <1>n, CandidateTypes, WaitBound DEF NodeInv
    <3>2. pc[m] = "update" /\ m \notin fresh
      BY <1>0, <1>n, <2>1, <2>7 DEF NodeInv, SightInv, Sending, Candidate
    <3>3. now <= since[m] + MaxWait + OpDelay
      <4>1. tryNow[m] <= since[m] + MaxWait
        BY <1>n, <3>2 DEF NodeInv, WaitInv, Candidate
      <4> QED
        BY <1>0, <3>1, <4>1, Numbers
    <3>4. CASE tryNow[m] < LeaseEnd(m)
      <4>1. now < LeaseEnd(m) + OpDelay
        BY <1>0, <3>1, <3>4, Numbers
      <4> QED
        BY <2>4, <4>1 DEF RoundInv
    <3>5. CASE LeaseEnd(m) <= tryNow[m] /\ since[m] < LeaseEnd(m) + OpDelay
      <4>1. /\ now <= LeaseEnd(m) + MaxWait + 2 * OpDelay
            /\ LeaseEnd(m) <= now
        BY <1>0, <3>1, <3>3, <3>5, Numbers
      <4>2. rec # observed[m] \/ observed[m] \notin late'
        BY <1>n, <2>1, <2>7, <3>2, <3>5 DEF NodeInv, VainInv
      <4> QED
        BY <1>0, <2>4, <4>1, <4>2 DEF RoundInv
    <3>6. CASE LeaseEnd(m) <= tryNow[m] /\ ~ (since[m] < LeaseEnd(m) + OpDelay)
      <4>1. since[m] <= LeaseEnd(m) + MaxWait + 2 * OpDelay
        BY <1>n, <2>1, <2>7, <3>2, <3>6 DEF NodeInv, RoundInv
      <4>2. now <= LeaseEnd(m) + 2 * MaxWait + 3 * OpDelay
        BY <1>0, <3>1, <3>3, <4>1, Numbers
      <4>3. since[m] >= LeaseEnd(m) + OpDelay
        BY <3>1, <3>6, Numbers
      <4>4. rec # observed[m]
        BY <1>n, <2>1, <2>7, <3>2, <3>6, <4>3 DEF NodeInv, VainInv
      <4> QED
        BY <2>4, <4>2, <4>4 DEF RoundInv
    <3> QED
      BY <1>0, <3>1, <3>4, <3>5, <3>6
  <2>8. NodeInv(m)'
    BY <2>5, <2>6, <2>7 DEF NodeInv
  <2> QED
    BY <2>3, <2>8 DEF TakeoverInv
<1> QED
  BY <1>1, <1>2 DEF Write, store

(***************************************************************************)
(* Time passes only as far as waits and tries let it.                      *)
(***************************************************************************)
LEMMA TakeoverTick ==
    ASSUME TryWithinLease, IInv, TakeoverInv, Tick
    PROVE  TakeoverInv'
<1> SUFFICES ASSUME NEW n \in Node PROVE NodeInv(n)'
  BY DEF TakeoverInv
<1>0. /\ now \in Int /\ now' = now + 1 /\ tryNow[n] \in Int /\ since[n] \in Int
      /\ UNCHANGED <<rec, fresh, late, phase, pc, tryNow, since, observed,
                     observedAt, faults>>
      /\ Candidate(n)' <=> Candidate(n)
      /\ LeaseEnd(n)' = LeaseEnd(n)
  BY DEF Tick, store, seen, IInv, TypeOK, Candidate, LeaseEnd
<1>n. NodeInv(n)
  BY DEF TakeoverInv
<1>1. SightInv(n)' /\ AimInv(n)' /\ (faults = 0 => VainInv(n)')
  BY <1>0, <1>n DEF NodeInv, SightInv, AimInv, VainInv
<1>2. WaitInv(n)'
  <2>1. pc[n] = "wait" /\ phase[n] = "acquire" => now < since[n] + MaxWait
    BY DEF Tick
  <2> QED
    BY <1>0, <1>n, <2>1, WaitBound DEF NodeInv, WaitInv
<1>3. ASSUME Candidate(n) PROVE PastInv(n)' /\ (faults = 0 => RoundInv(n)')
  <2>0. /\ observed[n].renew \in Int /\ LeaseEnd(n) \in Int
    BY <1>n, <1>3, CandidateTypes DEF NodeInv
  <2>1. Later(rec, observed[n]) => Later(rec, observed[n])'
    BY <1>0, <2>0, Numbers DEF Later
  <2>2. PastInv(n)'
    BY <1>0, <1>n, <2>1 DEF NodeInv, PastInv
  <2>3. LeaseEnd(n) <= now => LeaseEnd(n) <= now'
    BY <1>0, <2>0
  <2>4. faults = 0 => RoundInv(n)'
    BY <1>0, <1>n, <2>3 DEF NodeInv, RoundInv
  <2> QED
    BY <2>2, <2>4
<1>4. PastInv(n)' /\ (faults = 0 => RoundInv(n)')
  BY <1>0, <1>3 DEF PastInv, RoundInv
<1> QED
  BY <1>0, <1>1, <1>2, <1>4 DEF NodeInv

(***************************************************************************)
(* What a candidate knows of its lease, for every number of nodes and of   *)
(* crashes.                                                                *)
(***************************************************************************)
LEMMA TakeoverInvariant ==
    ASSUME TryWithinLease PROVE Spec => [](IInv /\ TakeoverInv)
<1>1. Init => TakeoverInv
  BY DEF Init, TakeoverInv, NodeInv, SightInv, WaitInv, PastInv, AimInv,
         RoundInv, VainInv, Candidate
<1>2. IInv /\ PhaseInv /\ TakeoverInv /\ [Next]_vars => TakeoverInv'
  <2> SUFFICES ASSUME IInv, PhaseInv, TakeoverInv, [Next]_vars
               PROVE  TakeoverInv'
    OBVIOUS
  <2>1. ASSUME NEW r \in late, LateWrite(r) PROVE TakeoverInv'
    <3>1. \A n \in Node : UNCHANGED own(n)
      BY <2>1 DEF LateWrite, own, seen
    <3> QED
      BY <2>1, <3>1, OtherWrites DEF LateWrite, TakeoverInv, Writable
  <2>2. CASE UNCHANGED vars
    BY <2>2 DEF vars, TakeoverInv, NodeInv, SightInv, WaitInv, PastInv, AimInv,
                RoundInv, VainInv, Candidate, LeaseEnd, Later
  <2> QED
    BY <2>1, <2>2, TakeoverStart, TakeoverCrash, TakeoverTry, TakeoverGet,
       TakeoverWrite, TakeoverTick
    DEF Next, TimeUp
<1> QED
  BY <1>1, <1>2, InductiveInvariant, TriesInLoop, PTL DEF Spec

(***************************************************************************)
(* While etcd answers, and no try lasts as long as a lease, a dead leader  *)
(* is replaced within the lease and three rounds of tries.                 *)
(***************************************************************************)
THEOREM TakeoverInTime == ASSUME TryWithinLease PROVE Spec => []TimelyTakeover
<1>1. IInv /\ TakeoverInv => TimelyTakeover
  <2> SUFFICES ASSUME IInv, TakeoverInv, faults = 0, NEW n \in Node,
                      Candidate(n)
               PROVE  now <= observedAt[n] + LeaseDuration + 3 * MaxWait + 4 * OpDelay
    BY DEF TimelyTakeover, Candidate
  <2>0. /\ SightInv(n) /\ WaitInv(n) /\ RoundInv(n)
        /\ MaxWait \in Int /\ MaxWait >= 0
    BY WaitBound, Numbers DEF TakeoverInv, NodeInv
  <2>1. /\ observedAt[n] \in Int /\ tryNow[n] \in Int /\ since[n] \in Int
        /\ now \in Int
    BY <2>0, CandidateTypes
  <2>2. now <= since[n] + MaxWait + OpDelay
    BY <2>0, <2>1, Numbers DEF WaitInv, Candidate, IInv, TimeInv
  <2>3. since[n] <= observedAt[n] + LeaseDuration + 2 * MaxWait + 3 * OpDelay
    BY <2>0, <2>1, Numbers DEF RoundInv, LeaseEnd
  <2> QED
    BY <2>0, <2>1, <2>2, <2>3, Numbers
<1> QED
  BY <1>1, TakeoverInvariant, PTL

=============================================================================
