--------------------------- MODULE LeaderElection ---------------------------
(***************************************************************************)
(* The election that pkg/leader runs: client-go's LeaderElector over an    *)
(* etcd key (ETCDLock), written only by compare-and-swap.                  *)
(*                                                                         *)
(* Time is a clock of integer ticks all nodes read; tryAcquireOrRenew      *)
(* takes at most OpDelay of them.  A request may fail; a write whose       *)
(* answer is lost may still be applied, at once or later, by a node that   *)
(* goes on or has died meanwhile.  A node may crash at any step and come   *)
(* back under the same identity (its hostname).                            *)
(***************************************************************************)
EXTENDS Integers

CONSTANTS
    Node,            \* the hostnames
    NoNode,          \* "", the identity in a record that was never set
    LeaseDuration, RenewDeadline, RetryPeriod,
    OpDelay,         \* longest run of tryAcquireOrRenew
    Second,          \* ticks in a second, the resolution of a stored time
    MaxClock,        \* bound: last tick
    MaxFaults,       \* bound: failing requests in a behaviour
    MaxCrashes       \* bound: crashes in a behaviour

(***************************************************************************)
(* The checks of NewLeaderElector (JitterFactor is 1.2), and sane units:   *)
(* the durations of pkg/leader are 10 s, 5 s and 2 s.                      *)
(***************************************************************************)
ASSUME ElectionAssumption ==
    /\ NoNode \notin Node
    /\ {LeaseDuration, RenewDeadline, RetryPeriod, Second} \subseteq Nat \ {0}
    /\ {OpDelay, MaxClock, MaxFaults, MaxCrashes} \subseteq Nat
    /\ LeaseDuration > RenewDeadline
    /\ LeaseDuration >= Second
    /\ 5 * RenewDeadline > 6 * RetryPeriod

\* JitterUntil waits RetryPeriod times 1 to 2.2 between two tries of acquire.
MaxWait == (RetryPeriod * 22) \div 10

VARIABLES
    now,        \* the clock
    rec,        \* etcd: the record at election/<catalog>/leader
    fresh,      \* the nodes whose pair has the index of the stored key
    late,       \* writes without an answer that etcd may still apply
    phase,      \* where LeaderElector.Run is
    pc,         \* the request tryAcquireOrRenew is about to send
    tryNow,     \* its variable now
    final,      \* wait.Poll's channel was closed: this try is the last
    since,      \* when the present Poll, or the present wait, began
    observed,   \* observedRecord
    observedAt, \* observedTime
    reported,   \* reportedLeader
    taken,      \* history: when the holder on record last changed
    faults,     \* failed requests so far
    crashes     \* crashes so far

store == <<rec, fresh, late>>
seen  == <<observed, observedAt>>
vars  == <<now, rec, fresh, late, phase, pc, tryNow, final, since, observed,
           observedAt, reported, taken, faults, crashes>>

\* metav1.Time is stored as RFC 3339, without fractions of a second.
Stamp(time) == time - (time % Second)

\* A record is its holder and its RenewTime.  AcquireTime and LeaderTransitions
\* change with the holder only, and a holder that comes back, at the earliest
\* two leases later, has another RenewTime.
NoRecord == [holder |-> NoNode, renew |-> 0]
Record   == [holder : Node, renew : Int]

TypeOK ==
    /\ now \in 0 .. MaxClock
    /\ rec \in Record \union {NoRecord}
    /\ fresh \subseteq Node
    /\ late \subseteq Record
    /\ phase \in [Node -> {"acquire", "leading", "stopped", "down"}]
    /\ pc \in [Node -> {"wait", "get", "create", "update"}]
    /\ tryNow \in [Node -> Int]
    /\ final \in [Node -> BOOLEAN]
    /\ since \in [Node -> Int]
    /\ observed \in [Node -> Record \union {NoRecord}]
    /\ observedAt \in [Node -> Int]
    /\ reported \in [Node -> Node \union {NoNode}]
    /\ taken \in 0 .. MaxClock
    /\ faults \in 0 .. MaxFaults
    /\ crashes \in 0 .. MaxCrashes

Init ==
    /\ now = 0
    /\ rec = NoRecord
    /\ fresh = {}
    /\ late = {}
    /\ phase = [n \in Node |-> "down"]
    /\ pc = [n \in Node |-> "wait"]
    /\ tryNow = [n \in Node |-> -1]
    /\ final = [n \in Node |-> FALSE]
    /\ since = [n \in Node |-> 0]
    /\ observed = [n \in Node |-> NoRecord]
    /\ observedAt = [n \in Node |-> 0]
    /\ reported = [n \in Node |-> NoNode]
    /\ taken = 0
    /\ faults = 0
    /\ crashes = 0

-----------------------------------------------------------------------------
(* The life of a process.                                                  *)

\* leader.Run; acquire tries at once.
Start(n) ==
    /\ phase[n] = "down"
    /\ phase' = [phase EXCEPT ![n] = "acquire"]
    /\ since' = [since EXCEPT ![n] = now - RetryPeriod]
    /\ UNCHANGED <<now, store, pc, tryNow, final, seen, reported, taken,
                   faults, crashes>>

\* Seeded fault: the record is written without the holder's identity.
Wanted_Anonymous(n) == [holder |-> NoNode, renew |-> Stamp(tryNow[n])]

\* The record this try would write.
Wanted(n) == [holder |-> n, renew |-> Stamp(tryNow[n])]

\* A write is on its way: it may be applied as long as its condition holds.
Sending(n) == \/ pc[n] = "update" /\ n \in fresh
              \/ pc[n] = "create" /\ rec = NoRecord

Crash(n) ==
    /\ phase[n] # "down"
    /\ crashes < MaxCrashes
    /\ crashes' = crashes + 1
    /\ phase' = [phase EXCEPT ![n] = "down"]
    /\ pc' = [pc EXCEPT ![n] = "wait"]
    /\ final' = [final EXCEPT ![n] = FALSE]
    /\ since' = [since EXCEPT ![n] = 0]
    /\ observed' = [observed EXCEPT ![n] = NoRecord]
    /\ observedAt' = [observedAt EXCEPT ![n] = 0]
    /\ reported' = [reported EXCEPT ![n] = NoNode]
    /\ late' = IF Sending(n) THEN late \union {Wanted(n)} ELSE late
    /\ UNCHANGED <<now, rec, fresh, tryNow, taken, faults>>

-----------------------------------------------------------------------------
(* When a try begins and how it ends.                                      *)

\* acquire: the jittered wait after the last try is over.
AcquireDue(n) == phase[n] = "acquire" /\ now >= since[n] + RetryPeriod

\* renew: the ticker of wait.Poll, which drops ticks while a try runs.
TickDue(n) ==
    /\ phase[n] = "leading"
    /\ tryNow[n] < now
    /\ now <= since[n] + RenewDeadline
    /\ now > since[n]
    /\ (now - since[n]) % RetryPeriod = 0

\* Seeded fault: a leader that missed its deadline goes on trying.
DeadlineDue_Never(n) == FALSE

\* renew: the timer of wait.Poll, after which its channel is closed.
DeadlineDue(n) ==
    /\ phase[n] = "leading"
    /\ now >= since[n] + RenewDeadline

BeginTry(n, last) ==
    /\ pc[n] = "wait"
    /\ pc' = [pc EXCEPT ![n] = "get"]
    /\ tryNow' = [tryNow EXCEPT ![n] = now]
    /\ final' = [final EXCEPT ![n] = last]
    /\ UNCHANGED <<now, store, phase, since, seen, reported, taken, faults,
                   crashes>>

Try(n) ==
    \/ (AcquireDue(n) \/ TickDue(n)) /\ BeginTry(n, FALSE)
    \/ DeadlineDue(n) /\ BeginTry(n, TRUE)

\* maybeReportTransition, after a try of acquire and after a Poll of renew.
Report(n) == reported' = [reported EXCEPT ![n] = observed'[n].holder]

(***************************************************************************)
(* tryAcquireOrRenew returned true: acquire returns and renew starts its   *)
(* first Poll, or a Poll ends and the next one starts.                     *)
(***************************************************************************)
Won(n) ==
    /\ pc' = [pc EXCEPT ![n] = "wait"]
    /\ phase' = [phase EXCEPT ![n] = "leading"]
    /\ since' = [since EXCEPT ![n] = now]
    /\ final' = [final EXCEPT ![n] = FALSE]
    /\ Report(n)

(***************************************************************************)
(* It returned false: acquire waits, Poll waits for its next tick, or the  *)
(* last try of a Poll ends renew and with it the node's candidacy, since   *)
(* pkg/leader runs the elector once.                                       *)
(***************************************************************************)
Lost(n) ==
    /\ pc' = [pc EXCEPT ![n] = "wait"]
    /\ final' = [final EXCEPT ![n] = FALSE]
    /\ \/ /\ phase[n] = "acquire"
          /\ since' = [since EXCEPT ![n] = now]
          /\ Report(n)
          /\ UNCHANGED phase
       \/ /\ phase[n] = "leading"
          /\ ~ final[n]
          /\ UNCHANGED <<phase, since, reported>>
       \/ /\ phase[n] = "leading"
          /\ final[n]
          /\ phase' = [phase EXCEPT ![n] = "stopped"]
          /\ Report(n)
          /\ UNCHANGED since

-----------------------------------------------------------------------------
(* tryAcquireOrRenew.                                                      *)

\* Seeded fault: the lease is counted from its renewal time as recorded.
Expired_ByRecord(n) == rec.renew + RenewDeadline <= tryNow[n]

\* Seeded fault: a record with another holder is never taken over.
Expired_Never(n) == FALSE

\* The lease, counted from when this node saw the record change, is over.
Expired(n) == observedAt'[n] + LeaseDuration <= tryNow[n]

\* The record that is there, and when it was first seen.
Observe(n) ==
    /\ observed' = [observed EXCEPT ![n] = rec]
    /\ observedAt' = IF observed[n] = rec THEN observedAt
                     ELSE [observedAt EXCEPT ![n] = now]

Get(n) ==
    /\ pc[n] = "get"
    /\ \/ /\ rec = NoRecord
          /\ pc' = [pc EXCEPT ![n] = "create"]
          /\ UNCHANGED <<fresh, phase, final, since, seen, reported, faults>>
       \/ /\ rec # NoRecord
          /\ fresh' = fresh \union {n}
          /\ Observe(n)
          /\ \/ /\ rec.holder = n \/ Expired(n)
                /\ pc' = [pc EXCEPT ![n] = "update"]
                /\ UNCHANGED <<phase, final, since, reported>>
             \/ /\ ~ (rec.holder = n \/ Expired(n))
                /\ Lost(n)
          /\ UNCHANGED faults
       \/ /\ faults < MaxFaults
          /\ faults' = faults + 1
          /\ UNCHANGED <<fresh, seen>>
          /\ Lost(n)
    /\ UNCHANGED <<now, rec, late, tryNow, taken, crashes>>

Takes(r) == taken' = IF r.holder = rec.holder THEN taken ELSE now

\* Seeded fault: the write does not carry the index of the record read.
Swap_Unconditional(n, r) ==
    /\ rec' = r
    /\ fresh' = {}
    /\ late' = {}
    /\ Takes(r)

\* A compare-and-swap succeeds and defeats every other one under way.
Swap(n, r) ==
    /\ Sending(n)
    /\ rec' = r
    /\ fresh' = {}
    /\ late' = {}
    /\ Takes(r)

(***************************************************************************)
(* Create (PrevNoExist) and Update (PrevIndex).  The record kept in memory *)
(* has the full time, the stored one the truncated.                        *)
(***************************************************************************)
Write(n) ==
    /\ pc[n] \in {"create", "update"}
    /\ \/ /\ Swap(n, Wanted(n))
          /\ observed' = [observed EXCEPT ![n] = [holder |-> n, renew |-> tryNow[n]]]
          /\ observedAt' = [observedAt EXCEPT ![n] = now]
          /\ Won(n)
          /\ UNCHANGED faults
       \/ /\ ~ Sending(n)
          /\ UNCHANGED <<store, seen, taken, faults>>
          /\ Lost(n)
       \/ /\ faults < MaxFaults
          /\ faults' = faults + 1
          /\ late' = IF Sending(n) THEN late \union {Wanted(n)} ELSE late
          /\ UNCHANGED <<rec, fresh, seen, taken>>
          /\ Lost(n)
    /\ UNCHANGED <<now, tryNow, crashes>>

\* etcd applies a write whose sender has given up.
LateWrite(r) ==
    /\ r \in late
    /\ rec' = r
    /\ fresh' = {}
    /\ late' = {}
    /\ Takes(r)
    /\ UNCHANGED <<now, phase, pc, tryNow, final, since, seen, reported, faults,
                   crashes>>

\* Nothing that is due is put off: tries end and begin on time.
Tick ==
    /\ now < MaxClock
    /\ \A n \in Node :
          IF pc[n] # "wait"
          THEN now < tryNow[n] + OpDelay
          ELSE /\ phase[n] = "acquire" => now < since[n] + MaxWait
               /\ ~ TickDue(n)
               /\ ~ DeadlineDue(n)
    /\ now' = now + 1
    /\ UNCHANGED <<store, phase, pc, tryNow, final, since, seen, reported, taken,
                   faults, crashes>>

\* The bound on the clock is reached: not a deadlock of the system.
TimeUp == now = MaxClock /\ UNCHANGED vars

Next ==
    \/ \E n \in Node : Start(n) \/ Crash(n) \/ Try(n) \/ Get(n) \/ Write(n)
    \/ \E r \in late : LateWrite(r)
    \/ Tick \/ TimeUp

Spec == Init /\ [][Next]_vars

-----------------------------------------------------------------------------
(* Properties.                                                             *)

(***************************************************************************)
(* A node has the lease while the renewal it remembers, with its time as   *)
(* the store keeps it, is not LeaseDuration old.  client-go does not       *)
(* promise that only such a node acts as leader (leaderelection.go:21-24): *)
(* a leader goes on until renew() ends.                                    *)
(***************************************************************************)
HasLease(n) ==
    /\ phase[n] = "leading"
    /\ observed[n].holder = n
    /\ now < Stamp(observed[n].renew) + LeaseDuration

(***************************************************************************)
(* A node that has the lease is the holder on record, whatever requests    *)
(* fail, are slow, are applied late or are repeated after a restart; and   *)
(* one that leads has announced itself, so that no OnNewLeader callback    *)
(* makes it a follower while it leads.                                     *)
(***************************************************************************)
LeaderOnRecord ==
    \A n \in Node : /\ HasLease(n) => rec.holder = n
                    /\ phase[n] = "leading" => reported[n] = n

(***************************************************************************)
(* No write that etcd would accept, one under way or one whose sender has  *)
(* given up, takes the record from a node that has the lease: a candidate  *)
(* counts the lease from when it saw the record, never from before it was  *)
(* written.                                                                *)
(***************************************************************************)
NoTakeover ==
    \A m \in Node : HasLease(m) =>
        /\ \A n \in Node : pc[n] = "update" /\ n \in fresh => n = m
        /\ \A r \in late : r.holder = m

(***************************************************************************)
(* How long a node acts as leader on a renewal: the try that made it, the  *)
(* deadline of renew, the try that was running then and the last one, and  *)
(* the second that the stored time may be too old.                         *)
(***************************************************************************)
ActingTime == RenewDeadline + 3 * OpDelay + Second

(***************************************************************************)
(* A leader stops in time: ActingTime after the renewal on record, and     *)
(* when another node has taken the record, ActingTime after it did, less   *)
(* the lease it had to wait for.  With a lease of at least ActingTime two  *)
(* nodes never lead at once; with the durations of pkg/leader they may.    *)
(***************************************************************************)
DeposedLeaderStops ==
    \A n \in Node : phase[n] = "leading" =>
        now < ActingTime + (IF rec.holder = n THEN rec.renew
                                              ELSE taken - LeaseDuration)

(***************************************************************************)
(* The election implements the abstract leadership: the lease never goes   *)
(* from one node straight to another, and a node whose renew() has ended   *)
(* does not lead again before it restarts.                                 *)
(***************************************************************************)
leader  == IF \E n \in Node : HasLease(n) THEN CHOOSE n \in Node : HasLease(n)
                                          ELSE NoNode
acting  == {n \in Node : phase[n] = "leading"}
retired == {n \in Node : phase[n] = "stopped"}
L == INSTANCE Leadership
ImplementsLeadership == L!Spec

(***************************************************************************)
(* While etcd answers, a dead leader is replaced in time: no candidate     *)
(* sees the same record for longer than its lease and three rounds of      *)
(* tries.  The first round may fail because a write that outlived its      *)
(* sender, sent within the second of the renewal on record, writes the     *)
(* same record once more; the second because another node is faster.       *)
(***************************************************************************)
TimelyTakeover ==
    faults = 0 => \A n \in Node :
        phase[n] = "acquire" /\ observed[n] # NoRecord
            => now <= observedAt[n] + LeaseDuration + 3 * MaxWait + 4 * OpDelay

=============================================================================
