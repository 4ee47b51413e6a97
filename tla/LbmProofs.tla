----------------------------- MODULE LbmProofs -----------------------------
(***************************************************************************)
(* Proofs about Lbm, for any number of load balancers, addresses, users'   *)
(* changes and failures.                                                   *)
(***************************************************************************)
EXTENDS Lbm, TLAPS

\* What a consumer is about to configure was parsed; at the steps after the
\* VIP it has one; at these and at a removal it is at a load balancer.
ConsumerInv ==
    \A w \in Watcher :
        /\ \A l \in Lb : todo[w][l] # Absent => todo[w][l].ver \in Ver
        /\ pc[w] \in {"put", "render"}
              => cur[w] \in Lb /\ todo[w][cur[w]] \in File
        /\ pc[w] = "remove" => cur[w] \in Lb

\* An object that a consumer may change is a parsed one, never a stub.
MakerInv == \A l \in Lb : maker[l] # 0 => elem[l] \in Value \union {Absent}

CoreInv == TypeOK /\ ConsumerInv /\ MakerInv

\* Only deletions that are carried out are pending, and what is about to be
\* configured is in Elem.
TrackInv ==
    \A w \in Watcher :
        /\ pc[w] \notin {"delete", "remove"} => dels[w] = {}
        /\ \A l \in Lb : todo[w][l] # Absent => elem[l] # Absent

-----------------------------------------------------------------------------
(* One lemma per action: it keeps CoreInv.                                 *)

\* What allocVIP makes of a load balancer: one that can be served.
LEMMA AssignedTypes ==
    ASSUME NEW v \in Value, NEW ip \in Addr
    PROVE  /\ Assigned(v, ip) \in Value
           /\ Assigned(v, ip).ver = v.ver
           /\ Assigned(v, ip).vip = ip
           /\ v.ver \in Ver => Assigned(v, ip) \in File
  BY DEF Assigned, Value, File

LEMMA StoreTypes ==
    ASSUME TypeOK, NEW l \in Lb, NEW v \in Value \union {Absent}, Store(l, v)
    PROVE  /\ lbs' \in [Lb -> Value \union {Absent}]
           /\ backlog' \in [Watcher -> Nat]
<1>1. lbs' \in [Lb -> Value \union {Absent}]
  BY DEF TypeOK, Store
<1>2. backlog' \in [Watcher -> Nat]
  BY DEF TypeOK, Store
<1> QED
  BY <1>1, <1>2

LEMMA ConfiguredTypes ==
    ASSUME TypeOK, NEW w \in Watcher, NEW l \in Lb, Configured(w, l)
    PROVE  /\ todo' \in [Watcher -> [Lb -> Value \union {Absent}]]
           /\ todo'[w][l] = Absent
           /\ \A v \in Watcher, m \in Lb : v # w \/ m # l => todo'[v][m] = todo[v][m]
           /\ pc' = [pc EXCEPT ![w] = "config"]
  BY DEF TypeOK, Configured

LEMMA UserPutCore ==
    ASSUME CoreInv, NEW l \in Lb, NEW c \in Ver \union {Invalid}, NEW vip \in Addr \union {NoIP},
           NEW port \in GivesPort, UserPut(l, c, vip, port)
    PROVE  CoreInv'
<1> USE LbmAssumption DEF CoreInv, etcd, memory, disk, run, producer, consumer, counters
<1>1. TypeOK'
  <2>1. [ver |-> c, vip |-> vip, port |-> port] \in Value
    BY DEF Value
  <2>2. lbs' \in [Lb -> Value \union {Absent}] /\ backlog' \in [Watcher -> Nat]
    BY <2>1, StoreTypes DEF UserPut
  <2> QED
    BY <2>2 DEF TypeOK, UserPut
<1>2. ConsumerInv'
  BY DEF TypeOK, ConsumerInv, Value, File, UserPut, Store
<1>3. MakerInv'
  BY DEF TypeOK, MakerInv, Value, UserPut, Store
<1> QED
  BY <1>1, <1>2, <1>3

LEMMA UserDeleteCore ==
    ASSUME CoreInv, NEW l \in Lb, UserDelete(l)
    PROVE  CoreInv'
<1> USE LbmAssumption DEF CoreInv, etcd, memory, disk, run, producer, consumer, counters
<1>1. TypeOK'
  BY DEF TypeOK, UserDelete, Store
<1>2. ConsumerInv'
  BY DEF TypeOK, ConsumerInv, Value, File, UserDelete, Store
<1>3. MakerInv'
  BY DEF TypeOK, MakerInv, Value, UserDelete, Store
<1> QED
  BY <1>1, <1>2, <1>3

LEMMA PeerStepCore ==
    ASSUME CoreInv, PeerStep
    PROVE  CoreInv'
<1> USE LbmAssumption DEF CoreInv, etcd, memory, disk, run, producer, consumer, counters
<1>1. owner' \in [Addr -> Lb \union {Free}]
  <2>1. owner \in [Addr -> Lb \union {Free}]
    BY DEF TypeOK
  <2>2. CASE UNCHANGED owner
    BY <2>1, <2>2
  <2>3. CASE AP!Next
    BY <2>1, <2>3 DEF AP!Next, AP!Assign, AP!Unassign
  <2> QED
    BY <2>2, <2>3 DEF PeerStep
<1>2. lbs' \in [Lb -> Value \union {Absent}] /\ backlog' \in [Watcher -> Nat]
  <2>1. CASE UNCHANGED <<lbs, backlog>>
    BY <2>1 DEF TypeOK
  <2>2. CASE \E ip \in Addr, l \in Lb :
               lbs[l] # Absent /\ Store(l, Assigned(lbs[l], ip))
    <3> PICK ip \in Addr, l \in Lb :
               lbs[l] # Absent /\ Store(l, Assigned(lbs[l], ip))
      BY <2>2
    <3>1. lbs[l] \in Value
      BY DEF TypeOK
    <3>2. Assigned(lbs[l], ip) \in Value
      BY <3>1, AssignedTypes
    <3> QED
      BY <3>2, StoreTypes
  <2> QED
    BY <2>1, <2>2 DEF PeerStep
<1>3. peer' \in 0 .. MaxPeer
  BY DEF TypeOK, PeerStep
<1>4. TypeOK'
  BY <1>1, <1>2, <1>3 DEF TypeOK, PeerStep
<1>5. ConsumerInv' /\ MakerInv'
  BY DEF ConsumerInv, MakerInv, PeerStep
<1> QED
  BY <1>4, <1>5

LEMMA CrashCore ==
    ASSUME CoreInv, Crash
    PROVE  CoreInv'
<1> USE LbmAssumption DEF CoreInv, etcd, memory, disk, run, producer, consumer, counters
<1>1. /\ Nothing \in [Lb -> Value \union {Absent}]
      /\ Nothing \in [Lb -> Value \union {Stub, Absent}]
  BY DEF Nothing
<1>2. /\ listed' \in [Watcher -> [Lb -> Value \union {Absent}]]
      /\ event' \in [Watcher -> [Lb -> Value \union {Absent}]]
      /\ todo' \in [Watcher -> [Lb -> Value \union {Absent}]]
  BY <1>1 DEF Crash, Each
<1>3. /\ cur' \in [Watcher -> Lb \union {Absent}]
      /\ dels' \in [Watcher -> SUBSET Lb]
      /\ cache' \subseteq Lb
  BY DEF Crash, Each
<1>4. crashes' \in 0 .. MaxCrashes
  BY DEF TypeOK, Crash
<1>5. TypeOK'
  BY <1>1, <1>2, <1>3, <1>4 DEF TypeOK, Crash, Each
<1>6. ConsumerInv' /\ MakerInv'
  BY DEF ConsumerInv, MakerInv, Crash, Each, Nothing
<1> QED
  BY <1>5, <1>6

LEMMA RunCore ==
    ASSUME CoreInv, NEW w \in Watcher, NEW leads \in BOOLEAN, Run(w, leads), stop' \in [Watcher -> BOOLEAN]
    PROVE  CoreInv'
<1> USE LbmAssumption DEF CoreInv, etcd, memory, disk, run, producer, consumer, counters
<1>1. TypeOK'
  BY DEF TypeOK, Run, Recover
<1>2. ConsumerInv'
  BY DEF TypeOK, ConsumerInv, Value, File, Run, Recover
<1>3. MakerInv'
  BY DEF TypeOK, MakerInv, Value, Run, Recover
<1> QED
  BY <1>1, <1>2, <1>3

LEMMA ListCore ==
    ASSUME CoreInv, NEW w \in Watcher, List(w)
    PROVE  CoreInv'
<1> USE LbmAssumption DEF CoreInv, etcd, memory, disk, run, producer, consumer, counters
<1>1. TypeOK'
  BY DEF TypeOK, List
<1>2. ConsumerInv'
  BY DEF TypeOK, ConsumerInv, Value, File, List
<1>3. MakerInv'
  BY DEF TypeOK, MakerInv, Value, List
<1> QED
  BY <1>1, <1>2, <1>3

LEMMA WatchCore ==
    ASSUME CoreInv, NEW w \in Watcher, Watch(w)
    PROVE  CoreInv'
<1> USE LbmAssumption DEF CoreInv, etcd, memory, disk, run, producer, consumer, counters
<1>1. TypeOK'
  BY DEF TypeOK, Watch
<1>2. ConsumerInv'
  BY DEF TypeOK, ConsumerInv, Value, File, Watch
<1>3. MakerInv'
  BY DEF TypeOK, MakerInv, Value, Watch
<1> QED
  BY <1>1, <1>2, <1>3

LEMMA NextEventCore ==
    ASSUME CoreInv, NEW w \in Watcher, NextEvent(w)
    PROVE  CoreInv'
<1> USE LbmAssumption DEF CoreInv, etcd, memory, disk, run, producer, consumer, counters
<1>1. TypeOK'
  BY DEF TypeOK, NextEvent
<1>2. ConsumerInv'
  BY DEF TypeOK, ConsumerInv, Value, File, NextEvent
<1>3. MakerInv'
  BY DEF TypeOK, MakerInv, Value, NextEvent
<1> QED
  BY <1>1, <1>2, <1>3

LEMMA WatchErrorCore ==
    ASSUME CoreInv, NEW w \in Watcher, WatchError(w)
    PROVE  CoreInv'
<1> USE LbmAssumption DEF CoreInv, etcd, memory, disk, run, producer, consumer, counters
<1>1. TypeOK'
  BY DEF TypeOK, WatchError, StoreError
<1>2. ConsumerInv'
  BY DEF TypeOK, ConsumerInv, Value, File, WatchError, StoreError
<1>3. MakerInv'
  BY DEF TypeOK, MakerInv, Value, WatchError, StoreError
<1> QED
  BY <1>1, <1>2, <1>3

LEMMA ReceiveCore ==
    ASSUME CoreInv, NEW w \in Watcher, Receive(w)
    PROVE  CoreInv'
<1> USE LbmAssumption DEF CoreInv, etcd, memory, disk, run, producer, consumer, counters
<1>1. TypeOK'
  BY DEF TypeOK, Receive, Changed
<1>2. ConsumerInv'
  <2>1. ASSUME NEW l \in Lb, Changed(w, l) PROVE listed[w][l].ver \in Ver
    BY <2>1 DEF TypeOK, Changed, Value
  <2> QED
    BY <2>1 DEF TypeOK, ConsumerInv, Receive
<1>3. MakerInv'
  BY DEF TypeOK, MakerInv, Value, Receive, Changed
<1> QED
  BY <1>1, <1>2, <1>3

LEMMA ConfigServiceCore ==
    ASSUME CoreInv, NEW w \in Watcher, NEW l \in Lb, ConfigService(w, l)
    PROVE  CoreInv'
<1> USE LbmAssumption DEF CoreInv, etcd, memory, disk, run, producer, consumer, counters
<1>1. /\ todo[w][l] \in Value
      /\ todo[w][l].ver \in Ver
      /\ pc[w] = "config"
  BY DEF TypeOK, ConsumerInv, ConfigService
<1>2. /\ UNCHANGED <<lbs, maker, isLeader, disk, run, producer, event, dels>>
      /\ UNCHANGED <<needReload, changes, peer, crashes>>
  BY DEF ConfigService
<1>3. owner' \in [Addr -> Lb \union {Free}]
  <2>1. ASSUME NEW own \in GivenBack(l, todo[w][l].vip) \union {owner}
        PROVE  own \in [Addr -> Lb \union {Free}]
    <3>1. own = owner \/ \E ip \in Addr : own = [owner EXCEPT ![ip] = Free]
      BY DEF GivenBack, Other, Owned
    <3> QED
      BY <3>1 DEF TypeOK
  <2>2. \/ owner' = owner
        \/ owner' \in GivenBack(l, todo[w][l].vip)
        \/ \E own \in GivenBack(l, todo[w][l].vip) \union {owner}, ip \in Addr :
              owner' = [own EXCEPT ![ip] = l]
    BY DEF ConfigService, RequireIP, Grantable
  <2>3. CASE \E own \in GivenBack(l, todo[w][l].vip) \union {owner}, ip \in Addr :
               owner' = [own EXCEPT ![ip] = l]
    BY <2>1, <2>3
  <2> QED
    BY <2>1, <2>2, <2>3 DEF TypeOK
<1>4. cache' \subseteq Lb /\ faults' \in 0 .. MaxFaults
  BY DEF TypeOK, ConfigService, RequireIP, StoreError
\* The four ways a call goes on.
<1>5. \/ \E ip \in Addr : Granted(w, l, ip)
      \/ Configured(w, l) /\ UNCHANGED <<elem, cur>>
      \/ /\ checkValid(todo[w][l])
         /\ cur' = [cur EXCEPT ![w] = l]
         /\ pc' = [pc EXCEPT ![w] = "render"]
         /\ UNCHANGED <<elem, todo>>
  BY DEF ConfigService, RequireIP, Owned
<1>6. CASE \E ip \in Addr : Granted(w, l, ip)
  <2> PICK ip \in Addr : Granted(w, l, ip)
    BY <1>6
  <2>1. Assigned(todo[w][l], ip) \in File
    BY <1>1, AssignedTypes
  <2>2. File \subseteq Value
    BY DEF File, Value
  <2>3. /\ todo' \in [Watcher -> [Lb -> Value \union {Absent}]]
        /\ todo'[w][l] \in File
        /\ \A v \in Watcher, m \in Lb : v # w \/ m # l => todo'[v][m] = todo[v][m]
    <3>1. todo' = [todo EXCEPT ![w] = [todo[w] EXCEPT ![l] = Assigned(todo[w][l], ip)]]
      BY DEF Granted, TypeOK
    <3>2. [todo[w] EXCEPT ![l] = Assigned(todo[w][l], ip)] \in [Lb -> Value \union {Absent}]
      BY <2>1, <2>2 DEF TypeOK
    <3> QED
      BY <2>1, <3>1, <3>2 DEF TypeOK
  <2>4. /\ elem' \in [Lb -> Value \union {Stub, Absent}]
        /\ \A m \in Lb : maker[m] # 0 => elem'[m] \in Value \union {Absent}
    <3>1. CASE elem[l] # Absent /\ maker[l] = w
      <4>1. elem[l] \in Value
        BY <3>1 DEF MakerInv, Watcher
      <4>2. Assigned(elem[l], ip) \in Value
        BY <4>1, AssignedTypes
      <4> QED
        BY <3>1, <4>2 DEF TypeOK, MakerInv, Granted
    <3>2. CASE ~ (elem[l] # Absent /\ maker[l] = w)
      BY <3>2 DEF TypeOK, MakerInv, Granted
    <3> QED
      BY <3>1, <3>2
  <2>5. /\ cur' = [cur EXCEPT ![w] = l]
        /\ pc' = [pc EXCEPT ![w] = "render"] \/ pc' = [pc EXCEPT ![w] = "put"]
    BY DEF Granted
  <2>6. TypeOK'
    BY <1>2, <1>3, <1>4, <2>3, <2>4, <2>5 DEF TypeOK
  <2>7. ConsumerInv'
    <3> SUFFICES ASSUME NEW v \in Watcher
                 PROVE  /\ \A m \in Lb : todo'[v][m] # Absent => todo'[v][m].ver \in Ver
                        /\ pc'[v] \in {"put", "render"}
                              => cur'[v] \in Lb /\ todo'[v][cur'[v]] \in File
                        /\ pc'[v] = "remove" => cur'[v] \in Lb
      BY DEF ConsumerInv
    <3>1. CASE v # w
      BY <2>3, <2>5, <3>1 DEF TypeOK, ConsumerInv
    <3>2. CASE v = w
      <4>1. todo'[w][l].ver \in Ver
        BY <2>3 DEF File
      <4>2. cur'[w] = l /\ pc'[w] \in {"put", "render"}
        BY <2>5 DEF TypeOK
      <4>3. \A m \in Lb : todo'[w][m] # Absent => todo'[w][m].ver \in Ver
        BY <2>3, <4>1 DEF ConsumerInv
      <4> QED
        BY <2>3, <3>2, <4>2, <4>3
    <3> QED
      BY <3>1, <3>2
  <2>8. MakerInv'
    BY <1>2, <2>4 DEF MakerInv
  <2> QED
    BY <2>6, <2>7, <2>8
<1>7. CASE Configured(w, l) /\ UNCHANGED <<elem, cur>>
  <2>1. /\ todo' \in [Watcher -> [Lb -> Value \union {Absent}]]
        /\ todo'[w][l] = Absent
        /\ \A v \in Watcher, m \in Lb : v # w \/ m # l => todo'[v][m] = todo[v][m]
        /\ pc' = [pc EXCEPT ![w] = "config"]
    BY <1>7, ConfiguredTypes
  <2>2. TypeOK'
    BY <1>2, <1>3, <1>4, <1>7, <2>1 DEF TypeOK
  <2>3. ConsumerInv'
    BY <1>7, <2>1 DEF TypeOK, ConsumerInv
  <2>4. MakerInv'
    BY <1>2, <1>7 DEF MakerInv
  <2> QED
    BY <2>2, <2>3, <2>4
<1>8. CASE /\ checkValid(todo[w][l])
           /\ cur' = [cur EXCEPT ![w] = l]
           /\ pc' = [pc EXCEPT ![w] = "render"]
           /\ UNCHANGED <<elem, todo>>
  <2>1. todo[w][l] \in File
    BY <1>1, <1>8 DEF checkValid, Value, File
  <2>2. TypeOK'
    BY <1>2, <1>3, <1>4, <1>8 DEF TypeOK
  <2>3. ConsumerInv'
    BY <1>8, <2>1 DEF TypeOK, ConsumerInv
  <2>4. MakerInv'
    BY <1>2, <1>8 DEF MakerInv
  <2> QED
    BY <2>2, <2>3, <2>4
<1> QED
  BY <1>5, <1>6, <1>7, <1>8

LEMMA UpdateCore ==
    ASSUME CoreInv, NEW w \in Watcher, Update(w)
    PROVE  CoreInv'
<1> USE LbmAssumption DEF CoreInv, etcd, memory, disk, run, producer, consumer, counters
<1>1. cur[w] \in Lb /\ todo[w][cur[w]] \in File
  BY DEF Update, ConsumerInv
<1>2. todo[w][cur[w]] \in Value
  BY <1>1 DEF File, Value
<1>3. lbs' \in [Lb -> Value \union {Absent}] /\ backlog' \in [Watcher -> Nat]
  <2>1. CASE Store(cur[w], todo[w][cur[w]])
    BY <1>1, <1>2, <2>1, StoreTypes
  <2>2. CASE UNCHANGED <<lbs, backlog>>
    BY <2>2 DEF TypeOK
  <2> QED
    BY <2>1, <2>2 DEF Update
<1>4. faults' \in 0 .. MaxFaults
  BY DEF TypeOK, Update, StoreError
<1>5. UNCHANGED <<owner, memory, disk, run, at, listed, armed, event, cur, dels,
                  needReload, changes, peer, crashes>>
  BY DEF Update
<1>6. CASE pc' = [pc EXCEPT ![w] = "render"] /\ UNCHANGED todo
  BY <1>1, <1>3, <1>4, <1>5, <1>6 DEF TypeOK, ConsumerInv, MakerInv
<1>7. CASE Configured(w, cur[w])
  <2>1. /\ todo' \in [Watcher -> [Lb -> Value \union {Absent}]]
        /\ todo'[w][cur[w]] = Absent
        /\ \A v \in Watcher, m \in Lb :
              v # w \/ m # cur[w] => todo'[v][m] = todo[v][m]
        /\ pc' = [pc EXCEPT ![w] = "config"]
    BY <1>1, <1>7, ConfiguredTypes
  <2>2. TypeOK'
    BY <1>3, <1>4, <1>5, <2>1 DEF TypeOK
  <2>3. ConsumerInv'
    BY <1>5, <2>1 DEF TypeOK, ConsumerInv
  <2> QED
    BY <1>5, <2>2, <2>3 DEF MakerInv
<1> QED
  BY <1>6, <1>7 DEF Update

LEMMA RenderCore ==
    ASSUME CoreInv, NEW w \in Watcher, Render(w)
    PROVE  CoreInv'
<1> USE LbmAssumption DEF CoreInv, etcd, memory, disk, run, producer, consumer, counters
<1>1. TypeOK'
  <2>1. cur[w] \in Lb /\ todo[w][cur[w]] \in File
    BY DEF ConsumerInv, Render
  <2> QED
    BY <2>1 DEF TypeOK, Render, Collect, Configured
<1>2. ConsumerInv'
  BY DEF TypeOK, ConsumerInv, Render, Collect, Configured
<1>3. MakerInv'
  BY DEF TypeOK, MakerInv, Value, Render, Collect, Configured
<1> QED
  BY <1>1, <1>2, <1>3

LEMMA handlerDeleteCore ==
    ASSUME CoreInv, NEW w \in Watcher, handlerDelete(w)
    PROVE  CoreInv'
<1> USE LbmAssumption DEF CoreInv, etcd, memory, disk, run, producer, consumer, counters
<1>1. TypeOK'
  BY DEF TypeOK, handlerDelete
<1>2. ConsumerInv'
  BY ZenonT(60) DEF TypeOK, ConsumerInv, Value, File, handlerDelete
<1>3. MakerInv'
  BY DEF TypeOK, MakerInv, Value, handlerDelete
<1> QED
  BY <1>1, <1>2, <1>3

LEMMA DeleteServiceCore ==
    ASSUME CoreInv, NEW w \in Watcher, NEW l \in Lb, DeleteService(w, l)
    PROVE  CoreInv'
<1> USE LbmAssumption DEF CoreInv, etcd, memory, disk, run, producer, consumer, counters
<1>1. owner' \in [Addr -> Lb \union {Free}]
  BY DEF TypeOK, DeleteService
<1>2. cache' \subseteq Lb /\ faults' \in 0 .. MaxFaults
  BY DEF TypeOK, DeleteService, StoreError
<1>3. TypeOK'
  BY <1>1, <1>2 DEF TypeOK, DeleteService
<1>4. ConsumerInv' /\ MakerInv'
  BY DEF TypeOK, ConsumerInv, MakerInv, DeleteService
<1> QED
  BY <1>3, <1>4

LEMMA RemoveCore ==
    ASSUME CoreInv, NEW w \in Watcher, Remove(w)
    PROVE  CoreInv'
<1> USE LbmAssumption DEF CoreInv, etcd, memory, disk, run, producer, consumer, counters
<1>1. TypeOK'
  BY DEF TypeOK, Remove, Removed, Collect
<1>2. ConsumerInv'
  BY ZenonT(60) DEF TypeOK, ConsumerInv, Value, File, Remove, Removed, Collect
<1>3. MakerInv'
  BY DEF TypeOK, MakerInv, Value, Remove, Removed, Collect
<1> QED
  BY <1>1, <1>2, <1>3

LEMMA ReloadCore ==
    ASSUME CoreInv, NEW w \in Watcher, Reload(w)
    PROVE  CoreInv'
<1> USE LbmAssumption DEF CoreInv, etcd, memory, disk, run, producer, consumer, counters
<1>1. TypeOK'
  BY DEF TypeOK, Reload, Nothing
<1>2. ConsumerInv'
  BY ZenonT(60) DEF TypeOK, ConsumerInv, Value, File, Reload, Nothing
<1>3. MakerInv'
  BY DEF TypeOK, MakerInv, Value, Reload, Nothing
<1> QED
  BY <1>1, <1>2, <1>3

LEMMA reloadPeriodCore ==
    ASSUME CoreInv, reloadPeriod
    PROVE  CoreInv'
<1> USE LbmAssumption DEF CoreInv, etcd, memory, disk, run, producer, consumer, counters
<1>1. TypeOK'
  BY DEF TypeOK, reloadPeriod
<1>2. ConsumerInv'
  BY DEF TypeOK, ConsumerInv, Value, File, reloadPeriod
<1>3. MakerInv'
  BY DEF TypeOK, MakerInv, Value, reloadPeriod
<1> QED
  BY <1>1, <1>2, <1>3

LEMMA ReadFilesCore ==
    ASSUME CoreInv, ReadFiles
    PROVE  CoreInv'
<1> USE LbmAssumption DEF CoreInv, etcd, memory, disk, run, producer, consumer, counters
<1>1. TypeOK'
  BY DEF TypeOK, ReadFiles
<1>2. ConsumerInv'
  BY DEF TypeOK, ConsumerInv, Value, File, ReadFiles
<1>3. MakerInv'
  BY DEF TypeOK, MakerInv, Value, ReadFiles
<1> QED
  BY <1>1, <1>2, <1>3

-----------------------------------------------------------------------------
LEMMA CoreInit == Init => CoreInv
<1> SUFFICES ASSUME Init PROVE CoreInv
  OBVIOUS
<1> USE LbmAssumption DEF Init, Each
<1>1. /\ Nothing \in [Lb -> Value \union {Absent}]
      /\ Nothing \in [Lb -> Value \union {Stub, Absent}]
      /\ Nothing \in [Lb -> File \union {Absent}]
  BY DEF Nothing
<1>2. /\ listed \in [Watcher -> [Lb -> Value \union {Absent}]]
      /\ event \in [Watcher -> [Lb -> Value \union {Absent}]]
      /\ todo \in [Watcher -> [Lb -> Value \union {Absent}]]
  BY <1>1
<1>3. /\ cur \in [Watcher -> Lb \union {Absent}]
      /\ dels \in [Watcher -> SUBSET Lb]
      /\ cache \subseteq Lb
  OBVIOUS
<1>4. /\ maker \in [Lb -> Watcher \union {0}]
      /\ backlog \in [Watcher -> Nat]
      /\ changes \in 0 .. MaxChanges
      /\ peer \in 0 .. MaxPeer
      /\ faults \in 0 .. MaxFaults
      /\ crashes \in 0 .. MaxCrashes
  OBVIOUS
<1>5. /\ role \in [Watcher -> {"none", "follow", "lead"}]
      /\ at \in [Watcher -> {"off", "list", "send", "sent", "next", "closed"}]
      /\ pc \in [Watcher -> {"idle", "config", "put", "render", "delete", "remove"}]
  OBVIOUS
<1>6. /\ stop \in [Watcher -> BOOLEAN]
      /\ armed \in [Watcher -> BOOLEAN]
      /\ needReload \in [Watcher -> BOOLEAN]
  OBVIOUS
<1>7. TypeOK
  BY <1>1, <1>2, <1>3, <1>4, <1>5, <1>6 DEF TypeOK
<1>8. ConsumerInv /\ MakerInv
  BY DEF ConsumerInv, MakerInv, Nothing
<1> QED
  BY <1>7, <1>8 DEF CoreInv

LEMMA CoreNext == CoreInv /\ [Next]_vars => CoreInv'
<1> SUFFICES ASSUME CoreInv, [Next]_vars PROVE CoreInv'
  OBVIOUS
<1>1. CASE User
  BY <1>1, UserPutCore, UserDeleteCore DEF User
<1>2. CASE \E w \in Watcher : Lead(w) \/ Follow(w) \/ StopLeading(w)
  <2> PICK w \in Watcher : Lead(w) \/ Follow(w) \/ StopLeading(w)
    BY <1>2
  <2>1. stop' \in [Watcher -> BOOLEAN]
    <3>1. CASE Lead(w)
      BY <3>1, Zenon DEF Lead
    <3>2. CASE Follow(w)
      BY <3>2 DEF Follow, CoreInv, TypeOK
    <3>3. CASE StopLeading(w)
      BY <3>3, Zenon DEF StopLeading
    <3> QED
      BY <3>1, <3>2, <3>3
  <2>2. \E leads \in BOOLEAN : Run(w, leads)
    BY DEF Lead, Follow, StopLeading
  <2> QED
    BY <2>1, <2>2, RunCore
<1>3. CASE \E w \in Watcher : Step(w) \/ WatchError(w)
  BY <1>3, ListCore, WatchCore, NextEventCore, WatchErrorCore, ReceiveCore,
     ConfigServiceCore, UpdateCore, RenderCore, handlerDeleteCore,
     DeleteServiceCore, RemoveCore, ReloadCore DEF Step
<1>4. CASE UNCHANGED vars
  BY <1>4 DEF CoreInv, TypeOK, ConsumerInv, MakerInv, vars, etcd, memory, disk,
     run, producer, consumer, counters
<1> QED
  BY <1>1, <1>2, <1>3, <1>4, PeerStepCore, CrashCore, reloadPeriodCore,
     ReadFilesCore DEF Next

(***************************************************************************)
(* The variables of a process keep their types; in particular every file   *)
(* that is written is of a parsed load balancer with a VIP (Render), and   *)
(* no stub of Recover is given one (allocVIP changes the object in Elem).  *)
(***************************************************************************)
THEOREM TypeCorrect == Spec => []TypeOK
<1>1. CoreInv => TypeOK
  BY DEF CoreInv
<1> QED
  BY CoreInit, CoreNext, <1>1, PTL DEF Spec

-----------------------------------------------------------------------------
(***************************************************************************)
(* No change of the files is forgotten (handlerEvent, keepalived.Reload,   *)
(* reloadPeriod), however many watchers change files at the same time and  *)
(* whatever requests and signals fail.                                     *)
(***************************************************************************)
THEOREM ReloadIsOwed == Spec => []ReloadOwed
<1>1. Init => ReloadOwed
  BY DEF Init, ReloadOwed
<1>2. TypeOK /\ ReloadOwed /\ [Next]_vars => ReloadOwed'
  <2> SUFFICES ASSUME TypeOK, ReloadOwed, [Next]_vars PROVE ReloadOwed'
    OBVIOUS
  <2> USE LbmAssumption DEF ReloadOwed, etcd, memory, disk, run, producer, consumer,
                            counters
  <2>1. CASE UNCHANGED <<conf, loaded, toReload, hup, needReload, crashes>>
    BY <2>1
  <2>2. ASSUME NEW w \in Watcher, Render(w) \/ Remove(w)
        PROVE  ReloadOwed'
    <3>1. /\ needReload' = [needReload EXCEPT ![w] = needReload[w] \/ conf' # conf]
          /\ UNCHANGED <<toReload, hup, loaded, crashes>>
      BY <2>2 DEF Render, Remove, Collect
    <3>2. needReload \in [Watcher -> BOOLEAN]
      BY DEF TypeOK
    <3>3. CASE conf' = conf
      <4>1. \A v \in Watcher : needReload[v] => needReload'[v]
        BY <3>1, <3>2
      <4> QED
        BY <3>1, <3>3, <4>1
    <3>4. CASE conf' # conf
      <4>1. needReload'[w]
        BY <3>1, <3>2, <3>4
      <4> QED
        BY <4>1
    <3> QED
      BY <3>3, <3>4
  <2>3. ASSUME NEW w \in Watcher, Reload(w)
        PROVE  ReloadOwed'
    <3>1. /\ toReload' = (toReload \/ needReload[w])
          /\ needReload' = [needReload EXCEPT ![w] = FALSE]
          /\ UNCHANGED <<conf, hup, loaded, crashes>>
      BY <2>3 DEF Reload
    <3>2. \A v \in Watcher : v # w => needReload'[v] = needReload[v]
      BY <3>1 DEF TypeOK
    <3> QED
      BY <3>1, <3>2
  <2>4. ASSUME reloadPeriod PROVE ReloadOwed'
    BY <2>4 DEF reloadPeriod
  <2>5. ASSUME ReadFiles PROVE ReloadOwed'
    BY <2>5 DEF ReadFiles
  <2>6. ASSUME Crash PROVE ReloadOwed'
    BY <2>6 DEF Crash, TypeOK
  <2>7. ASSUME NEW w \in Watcher,
               \/ List(w) \/ Watch(w) \/ NextEvent(w) \/ WatchError(w)
               \/ Receive(w) \/ Update(w) \/ handlerDelete(w)
               \/ \E l \in Lb : ConfigService(w, l) \/ DeleteService(w, l)
        PROVE  UNCHANGED <<conf, loaded, toReload, hup, needReload, crashes>>
    BY <2>7 DEF List, Watch, NextEvent, WatchError, Receive, Update, handlerDelete,
                ConfigService, DeleteService
  <2>8. ASSUME NEW w \in Watcher, Lead(w) \/ Follow(w) \/ StopLeading(w)
        PROVE  UNCHANGED <<conf, loaded, toReload, hup, needReload, crashes>>
    BY <2>8 DEF Lead, Follow, StopLeading, Run
  <2>9. ASSUME User \/ PeerStep
        PROVE  UNCHANGED <<conf, loaded, toReload, hup, needReload, crashes>>
    BY <2>9 DEF User, UserPut, UserDelete, PeerStep
  <2>10. CASE UNCHANGED vars
    BY <2>1, <2>10 DEF vars
  <2> QED
    BY <2>1, <2>2, <2>3, <2>4, <2>5, <2>6, <2>7, <2>8, <2>9, <2>10 DEF Next, Step
<1> QED
  BY <1>1, <1>2, TypeCorrect, PTL DEF Spec

-----------------------------------------------------------------------------
(* Files are tracked by a process with one watcher.                        *)

\* A step that takes nothing out of Elem, adds nothing to todo and leaves the
\* deletions and the files alone keeps track of them.
LEMMA TrackKept ==
    ASSUME TrackInv, FilesTracked,
           \A l \in Lb : elem[l] # Absent => elem'[l] # Absent,
           \A w \in Watcher, l \in Lb : todo'[w][l] # Absent => todo[w][l] # Absent,
           \A w \in Watcher : pc[w] \in {"delete", "remove"} => pc'[w] \in {"delete", "remove"},
           UNCHANGED <<dels, conf, crashes>>
    PROVE  TrackInv' /\ FilesTracked'
  BY DEF TrackInv, FilesTracked

LEMMA TrackConfig ==
    ASSUME CoreInv, TrackInv, FilesTracked,
           NEW w \in Watcher, NEW l \in Lb, ConfigService(w, l)
    PROVE  TrackInv' /\ FilesTracked'
<1>1. /\ pc[w] = "config"
      /\ todo[w][l] # Absent
      /\ UNCHANGED <<dels, conf, crashes>>
  BY DEF ConfigService, disk
<1>2. /\ \/ \E x : todo' = [todo EXCEPT ![w] = [todo[w] EXCEPT ![l] = x]]
         \/ todo' = todo
      /\ \E q \in {"put", "render", "config"} : pc' = [pc EXCEPT ![w] = q]
  BY DEF ConfigService, RequireIP, Granted, Configured, Owned, CoreInv, TypeOK
<1>3. \A v \in Watcher, m \in Lb : todo'[v][m] # Absent => todo[v][m] # Absent
  <2>1. todo \in [Watcher -> [Lb -> Value \union {Absent}]]
    BY DEF CoreInv, TypeOK
  <2> QED
    BY <1>1, <1>2, <2>1
<1>4. \A v \in Watcher : pc[v] \in {"delete", "remove"} => pc'[v] \in {"delete", "remove"}
  BY <1>1, <1>2 DEF CoreInv, TypeOK
<1>5. \/ elem' = elem
      \/ \E ip \in Addr : maker[l] = w /\ elem[l] # Absent /\ elem' = [elem EXCEPT ![l] = Assigned(@, ip)]
  BY DEF ConfigService, RequireIP, Granted, Owned
<1>6. \A m \in Lb : elem[m] # Absent => elem'[m] # Absent
  <2>1. CASE elem' = elem
    BY <2>1
  <2>2. CASE \E ip \in Addr : maker[l] = w /\ elem[l] # Absent /\ elem' = [elem EXCEPT ![l] = Assigned(@, ip)]
    <3> PICK ip \in Addr : maker[l] = w /\ elem[l] # Absent /\ elem' = [elem EXCEPT ![l] = Assigned(@, ip)]
      BY <2>2
    <3>1. elem[l] \in Value
      BY DEF CoreInv, MakerInv, Watcher
    <3>2. Assigned(elem[l], ip) \in Value
      BY <3>1, AssignedTypes
    <3>3. Assigned(elem[l], ip) # Absent
      BY <3>2, LbmAssumption
    <3> QED
      BY <3>3 DEF CoreInv, TypeOK
  <2> QED
    BY <1>5, <2>1, <2>2
<1> QED
  BY <1>1, <1>3, <1>4, <1>6, TrackKept

LEMMA TrackUpdate ==
    ASSUME CoreInv, TrackInv, FilesTracked, NEW w \in Watcher, Update(w)
    PROVE  TrackInv' /\ FilesTracked'
<1>1. /\ pc[w] = "put"
      /\ cur[w] \in Lb
      /\ UNCHANGED <<elem, dels, conf, crashes>>
  BY DEF CoreInv, ConsumerInv, Update, memory, disk
<1>2. /\ todo' = todo \/ Configured(w, cur[w])
      /\ \E q \in {"render", "config"} : pc' = [pc EXCEPT ![w] = q]
  BY DEF Update, Configured
<1>3. \A v \in Watcher, m \in Lb : todo'[v][m] # Absent => todo[v][m] # Absent
  <2>1. CASE todo' = todo
    BY <2>1
  <2>2. CASE Configured(w, cur[w])
    BY <1>1, <2>2, ConfiguredTypes DEF CoreInv
  <2> QED
    BY <1>2, <2>1, <2>2
<1>4. \A v \in Watcher : pc[v] \in {"delete", "remove"} => pc'[v] \in {"delete", "remove"}
  BY <1>1, <1>2 DEF CoreInv, TypeOK
<1> QED
  BY <1>1, <1>3, <1>4, TrackKept

LEMMA TrackRender ==
    ASSUME CoreInv, TrackInv, FilesTracked, NEW w \in Watcher, Render(w)
    PROVE  TrackInv' /\ FilesTracked'
<1>1. /\ pc[w] = "render"
      /\ cur[w] \in Lb
      /\ todo[w][cur[w]] \in Value
      /\ UNCHANGED <<elem, dels, crashes>>
      /\ conf' = [conf EXCEPT ![cur[w]] = todo[w][cur[w]]]
      /\ Configured(w, cur[w])
  BY DEF CoreInv, ConsumerInv, File, Value, Render, memory, counters
<1>2. elem[cur[w]] # Absent
  BY <1>1, LbmAssumption DEF TrackInv
<1>3. FilesTracked'
  BY <1>1, <1>2 DEF FilesTracked, CoreInv, TypeOK
<1>4. /\ \A v \in Watcher, l \in Lb : todo'[v][l] # Absent => todo[v][l] # Absent
      /\ pc' = [pc EXCEPT ![w] = "config"]
  BY <1>1, ConfiguredTypes DEF CoreInv
<1>5. TrackInv'
  BY <1>1, <1>4 DEF TrackInv, CoreInv, TypeOK
<1> QED
  BY <1>3, <1>5

LEMMA TrackRemove ==
    ASSUME CoreInv, TrackInv, FilesTracked, NEW w \in Watcher, Remove(w)
    PROVE  TrackInv' /\ FilesTracked'
<1>1. /\ pc[w] = "remove"
      /\ cur[w] \in Lb
      /\ UNCHANGED <<elem, todo, crashes>>
      /\ conf' = [conf EXCEPT ![cur[w]] = Absent]
      /\ dels' = [dels EXCEPT ![w] = @ \ {cur[w]}]
      /\ pc' = [pc EXCEPT ![w] = "delete"]
  BY DEF CoreInv, ConsumerInv, Remove, Removed, memory, counters
<1>2. FilesTracked'
  BY <1>1 DEF FilesTracked, CoreInv, TypeOK
<1>3. TrackInv'
  BY <1>1 DEF TrackInv, CoreInv, TypeOK
<1> QED
  BY <1>2, <1>3

\* The only step that takes load balancers out of Elem; nobody else is about
\* to configure one, because there is one watcher.
LEMMA TrackDelete ==
    ASSUME MaxRuns = 1, CoreInv, TrackInv, FilesTracked,
           NEW w \in Watcher, handlerDelete(w)
    PROVE  TrackInv' /\ FilesTracked'
<1> DEFINE gone == {l \in Lb : elem[l] # Absent /\ event[w][l] = Absent}
<1>1. \A v \in Watcher : v = w
  BY DEF Watcher
<1>2. /\ pc[w] = "config"
      /\ todo[w] = Nothing
      /\ dels' = [dels EXCEPT ![w] = gone]
      /\ elem' = [l \in Lb |-> IF l \in gone THEN Absent ELSE elem[l]]
      /\ pc' = [pc EXCEPT ![w] = "delete"]
      /\ UNCHANGED <<todo, conf, crashes>>
  BY DEF handlerDelete, disk, counters
<1>3. dels[w] = {} /\ dels'[w] = gone /\ pc'[w] = "delete"
  BY <1>2 DEF TrackInv, CoreInv, TypeOK
<1>4. FilesTracked'
  BY <1>1, <1>2, <1>3 DEF FilesTracked
<1>5. TrackInv'
  BY <1>1, <1>2, <1>3 DEF TrackInv, Nothing
<1> QED
  BY <1>4, <1>5

LEMMA TrackNext ==
    ASSUME MaxRuns = 1, CoreInv, TrackInv, FilesTracked, [Next]_vars
    PROVE  TrackInv' /\ FilesTracked'
<1> USE DEF etcd, memory, disk, run, producer, consumer, counters
<1>1. ASSUME NEW w \in Watcher, Lead(w) \/ Follow(w) \/ StopLeading(w)
      PROVE  TrackInv' /\ FilesTracked'
  <2>1. \A l \in Lb : elem[l] # Absent => elem'[l] # Absent
    BY <1>1, LbmAssumption DEF Lead, Follow, StopLeading, Run, Recover
  <2>2. UNCHANGED <<todo, pc, dels, conf, crashes>>
    BY <1>1 DEF Lead, Follow, StopLeading, Run
  <2> QED
    BY <2>1, <2>2, TrackKept
<1>2. ASSUME NEW w \in Watcher, Receive(w)
      PROVE  TrackInv' /\ FilesTracked'
  <2>1. /\ pc[w] = "idle"
        /\ pc' = [pc EXCEPT ![w] = "config"]
        /\ todo' = [todo EXCEPT ![w] =
                       [l \in Lb |-> IF Changed(w, l) THEN listed[w][l] ELSE Absent]]
        /\ elem' = [l \in Lb |-> IF Changed(w, l) THEN listed[w][l] ELSE elem[l]]
        /\ UNCHANGED <<dels, conf, crashes>>
    BY <1>2 DEF Receive
  <2>2. \A l \in Lb : elem[l] # Absent => elem'[l] # Absent
    BY <2>1 DEF Changed
  <2>3. FilesTracked'
    BY <2>1, <2>2 DEF FilesTracked
  <2>4. \A v \in Watcher, l \in Lb : todo'[v][l] # Absent => elem'[l] # Absent
    BY <2>1, <2>2 DEF Changed, TrackInv, CoreInv, TypeOK
  <2>5. \A v \in Watcher : pc'[v] \notin {"delete", "remove"} => dels'[v] = {}
    BY <2>1 DEF TrackInv, CoreInv, TypeOK
  <2> QED
    BY <2>3, <2>4, <2>5 DEF TrackInv
<1>3. ASSUME NEW w \in Watcher, NEW l \in Lb, DeleteService(w, l)
      PROVE  TrackInv' /\ FilesTracked'
  <2>1. /\ UNCHANGED <<elem, todo, dels, conf, crashes>>
        /\ pc' = [pc EXCEPT ![w] = "remove"]
    BY <1>3 DEF DeleteService
  <2>2. \A v \in Watcher : pc[v] \in {"delete", "remove"} => pc'[v] \in {"delete", "remove"}
    BY <2>1 DEF CoreInv, TypeOK
  <2> QED
    BY <2>1, <2>2, TrackKept
<1>4. ASSUME NEW w \in Watcher, Reload(w)
      PROVE  TrackInv' /\ FilesTracked'
  BY <1>4 DEF Reload, TrackInv, FilesTracked, CoreInv, TypeOK
<1>5. ASSUME Crash
      PROVE  TrackInv' /\ FilesTracked'
  BY <1>5 DEF Crash, Each, Nothing, TrackInv, FilesTracked, CoreInv, TypeOK
<1>6. CASE UNCHANGED <<elem, todo, pc, dels, conf, crashes>>
  BY <1>6, TrackKept
<1>7. ASSUME NEW w \in Watcher, List(w) \/ Watch(w) \/ NextEvent(w) \/ WatchError(w)
      PROVE  UNCHANGED <<elem, todo, pc, dels, conf, crashes>>
  BY <1>7 DEF List, Watch, NextEvent, WatchError
<1>8. ASSUME User \/ PeerStep \/ reloadPeriod \/ ReadFiles \/ UNCHANGED vars
      PROVE  UNCHANGED <<elem, todo, pc, dels, conf, crashes>>
  BY <1>8 DEF User, UserPut, UserDelete, PeerStep, reloadPeriod, ReadFiles, vars
<1> QED
  BY <1>1, <1>2, <1>3, <1>4, <1>5, <1>6, <1>7, <1>8, TrackConfig, TrackUpdate,
     TrackRender, TrackRemove, TrackDelete DEF Next, Step

(***************************************************************************)
(* In a process with one watcher no file outlives the entry of Elem by     *)
(* which its deletion will be noticed (handlerAddOrUpdate, handlerDelete), *)
(* whatever requests fail and whatever VIPs are asked for.                 *)
(***************************************************************************)
THEOREM FilesAreTracked == ASSUME MaxRuns = 1 PROVE Spec => []FilesTracked
<1>1. Init => TrackInv /\ FilesTracked
  BY DEF Init, Each, Nothing, TrackInv, FilesTracked
<1>2. CoreInv /\ TrackInv /\ FilesTracked /\ [Next]_vars
        => CoreInv' /\ TrackInv' /\ FilesTracked'
  BY CoreNext, TrackNext
<1> QED
  BY CoreInit, <1>1, <1>2, PTL DEF Spec

-----------------------------------------------------------------------------
(* A leader serves what it owns.                                           *)

\* Value v, if there is one, asks for nothing but the addresses in S.
From(v, S) == v # Absent => v.vip \in S \union {NoIP}

\* Until the process has its role it does nothing and finds nothing.
IdleInv ==
    \A w \in Watcher : role[w] = "none" =>
        /\ at[w] = "off"
        /\ pc[w] = "idle"
        /\ todo[w] = Nothing
        /\ dels[w] = {}
        /\ conf = Nothing
        /\ \A ip \in Addr : owner[ip] = Free

\* Where the consumer is in handlerEvent, and what its listing said.
HandlerInv ==
    \A w \in Watcher :
        /\ pc[w] \in {"idle", "delete", "remove"} => todo[w] = Nothing
        /\ \A l \in Lb : todo[w][l] # Absent => event[w][l] # Absent
        /\ \A l \in dels[w] : event[w][l] = Absent /\ pc[w] \in {"delete", "remove"}
        /\ pc[w] = "remove" => cur[w] \in dels[w]
        /\ pc[w] \in {"put", "render"} => owner[todo[w][cur[w]].vip] = cur[w]

OneOwned == \A l \in Lb : \A a, b \in Owned(l) : a = b

\* Nobody asks for another VIP than the one the load balancer has: neither
\* the directory, nor the listing on its way, nor what is being configured.
OwnedFlow ==
    \A w \in Watcher, l \in Lb : \A ip \in Owned(l) :
        /\ From(lbs[l], {ip})
        /\ From(todo[w][l], {ip})
        /\ at[w] = "send" => From(listed[w][l], {ip})

\* Before it has one, what is written later asks for no other VIP than what
\* was written before.
FreshFlow ==
    \A w \in Watcher, l \in Lb : Owned(l) = {} =>
        /\ todo[w][l] # Absent =>
              /\ From(lbs[l], {todo[w][l].vip})
              /\ at[w] = "send" => From(listed[w][l], {todo[w][l].vip})
        /\ at[w] = "send" /\ listed[w][l] # Absent
              => From(lbs[l], {listed[w][l].vip})

\* The same while a deletion is handled: the consumer does not publish what
\* its listing does not have.
GoneFlow ==
    \A w \in Watcher, l \in Lb :
        /\ at[w] = "send" /\ listed[w][l] # Absent
        /\ pc[w] # "idle" /\ event[w][l] = Absent
        => From(lbs[l], {listed[w][l].vip})

\* The file of a load balancer has a VIP that it owns.
ServedInv ==
    \A l \in Lb :
        \/ conf[l] = Absent
        \/ owner[conf[l].vip] = l
        \/ \E w \in Watcher : l \in dels[w]

LeaderInv == HandlerInv /\ OneOwned /\ OwnedFlow /\ FreshFlow /\ GoneFlow /\ ServedInv

ServeInv == crashes = 0 => IdleInv /\ (isLeader => LeaderInv)

(***************************************************************************)
(* A change of the directory that asks for no other VIP than before.       *)
(***************************************************************************)
LEMMA FromKept ==
    ASSUME NEW u, NEW v,
           v # Absent => v.vip = NoIP \/ (u # Absent /\ v.vip = u.vip)
    PROVE  \A S : From(u, S) => From(v, S)
BY DEF From

(***************************************************************************)
(* A step that neither configures nor deletes, and lets nobody ask for     *)
(* another VIP.                                                            *)
(***************************************************************************)
LEMMA LeaderKept ==
    ASSUME LeaderInv, UNCHANGED <<owner, conf, pc, event, todo, cur, dels>>,
           \A l \in Lb : lbs'[l] # Absent =>
               lbs'[l].vip = NoIP \/ (lbs[l] # Absent /\ lbs'[l].vip = lbs[l].vip),
           \A w \in Watcher : at'[w] = "send" => at[w] = "send" /\ listed'[w] = listed[w]
    PROVE  LeaderInv'
<1>1. \A l \in Lb : Owned(l)' = Owned(l)
  BY DEF Owned
<1>2. \A l \in Lb : \A S : From(lbs[l], S) => From(lbs'[l], S)
  BY FromKept
<1>3. HandlerInv' /\ OneOwned' /\ ServedInv'
  BY <1>1 DEF LeaderInv, HandlerInv, OneOwned, ServedInv
<1>4. OwnedFlow'
  BY <1>1, <1>2 DEF LeaderInv, OwnedFlow
<1>5. FreshFlow'
  BY <1>1, <1>2 DEF LeaderInv, FreshFlow
<1>6. GoneFlow'
  BY <1>2 DEF LeaderInv, GoneFlow
<1> QED
  BY <1>3, <1>4, <1>5, <1>6 DEF LeaderInv

(***************************************************************************)
(* Users keep the VIP they find or leave the choice to the manager.        *)
(***************************************************************************)
LEMMA LeaderUser ==
    ASSUME Request = {}, CoreInv, LeaderInv, User
    PROVE  LeaderInv'
<1>1. lbs \in [Lb -> Value \union {Absent}]
  BY DEF CoreInv, TypeOK
<1>2. /\ UNCHANGED <<owner, conf, pc, event, todo, cur, dels, at, listed>>
      /\ \/ \E l \in Lb : \E v :
               /\ lbs' = [lbs EXCEPT ![l] = v]
               /\ v.vip = NoIP \/ (lbs[l] # Absent /\ v.vip = lbs[l].vip)
         \/ \E l \in Lb : lbs' = [lbs EXCEPT ![l] = Absent]
  BY DEF User, UserPut, UserDelete, Store, disk, consumer
<1>3. \A l \in Lb : lbs'[l] # Absent =>
          lbs'[l].vip = NoIP \/ (lbs[l] # Absent /\ lbs'[l].vip = lbs[l].vip)
  BY <1>1, <1>2
<1> QED
  BY <1>2, <1>3, LeaderKept

(***************************************************************************)
(* A listing is what the directory has.                                    *)
(***************************************************************************)
LEMMA LeaderList ==
    ASSUME CoreInv, LeaderInv, NEW w \in Watcher, List(w)
    PROVE  LeaderInv'
<1>1. /\ UNCHANGED <<lbs, owner, conf, pc, event, todo, cur, dels>>
      /\ \A v \in Watcher \ {w} : at'[v] = at[v] /\ listed'[v] = listed[v]
      /\ at'[w] = "send" /\ listed'[w] = lbs
  BY DEF List, etcd, disk, consumer, CoreInv, TypeOK
<1>2. \A l \in Lb : Owned(l)' = Owned(l)
  BY <1>1 DEF Owned
<1>3. HandlerInv' /\ OneOwned' /\ ServedInv'
  BY <1>1, <1>2 DEF LeaderInv, HandlerInv, OneOwned, ServedInv
<1>4. \A l \in Lb : From(lbs[l], {lbs[l].vip})
  BY DEF From
<1>5. OwnedFlow'
  BY <1>1, <1>2 DEF LeaderInv, OwnedFlow
<1>6. FreshFlow'
  BY <1>1, <1>2, <1>4 DEF LeaderInv, FreshFlow
<1>7. GoneFlow'
  BY <1>1, <1>4 DEF LeaderInv, GoneFlow
<1> QED
  BY <1>3, <1>5, <1>6, <1>7 DEF LeaderInv

(***************************************************************************)
(* What a listing asks for is asked for by handlerAddOrUpdate.             *)
(***************************************************************************)
LEMMA LeaderReceive ==
    ASSUME CoreInv, LeaderInv, NEW w \in Watcher, Receive(w)
    PROVE  LeaderInv'
<1>1. /\ UNCHANGED <<lbs, owner, conf, listed, cur, dels>>
      /\ pc[w] = "idle" /\ at[w] = "send"
      /\ \A v \in Watcher \ {w} : /\ at'[v] = at[v] /\ pc'[v] = pc[v]
                                  /\ event'[v] = event[v] /\ todo'[v] = todo[v]
      /\ at'[w] = "sent" /\ pc'[w] = "config" /\ event'[w] = listed[w]
      /\ \A l \in Lb : todo'[w][l] = Absent \/ todo'[w][l] = listed[w][l]
  BY DEF Receive, etcd, disk, CoreInv, TypeOK
<1>2. \A l \in Lb : Owned(l)' = Owned(l)
  BY <1>1 DEF Owned
<1>3. dels[w] = {}
  BY <1>1 DEF LeaderInv, HandlerInv
<1>4. HandlerInv' /\ OneOwned' /\ ServedInv'
  BY <1>1, <1>2, <1>3 DEF LeaderInv, HandlerInv, OneOwned, ServedInv
<1>5. \A S : From(Absent, S)
  BY DEF From
<1>6. OwnedFlow'
  BY <1>1, <1>2, <1>5, ZenonT(60) DEF LeaderInv, OwnedFlow
<1>7. FreshFlow'
  BY <1>1, <1>2, ZenonT(60) DEF LeaderInv, FreshFlow
<1>8. GoneFlow'
  BY <1>1 DEF LeaderInv, GoneFlow
<1> QED
  BY <1>4, <1>6, <1>7, <1>8 DEF LeaderInv

(***************************************************************************)
(* renderTemplate writes a file with a VIP the load balancer owns.         *)
(***************************************************************************)
LEMMA LeaderRender ==
    ASSUME CoreInv, LeaderInv, NEW w \in Watcher, Render(w)
    PROVE  LeaderInv'
<1>0. /\ pc[w] = "render" /\ cur[w] \in Lb
      /\ Configured(w, cur[w])
      /\ UNCHANGED <<lbs, owner, at, listed, event, cur, dels>>
      /\ \A l \in Lb \ {cur[w]} : conf'[l] = conf[l]
      /\ conf'[cur[w]] = todo[w][cur[w]]
  BY DEF Render, etcd, producer, CoreInv, ConsumerInv, TypeOK
<1>1. /\ \A v \in Watcher, m \in Lb : todo'[v][m] = todo[v][m] \/ todo'[v][m] = Absent
      /\ \A v \in Watcher \ {w} : pc'[v] = pc[v] /\ todo'[v] = todo[v]
      /\ pc'[w] = "config"
  BY <1>0 DEF Configured, CoreInv, TypeOK
<1>2. \A l \in Lb : Owned(l)' = Owned(l)
  BY <1>0 DEF Owned
<1>3. OneOwned' /\ ServedInv'
  BY <1>0, <1>2 DEF LeaderInv, HandlerInv, OneOwned, ServedInv
<1>4. HandlerInv'
  BY <1>0, <1>1 DEF LeaderInv, HandlerInv
<1>5. \A S : From(Absent, S)
  BY DEF From
<1>6. OwnedFlow'
  BY <1>0, <1>1, <1>2, <1>5 DEF LeaderInv, OwnedFlow
<1>7. FreshFlow'
  BY <1>0, <1>1, <1>2, ZenonT(60) DEF LeaderInv, FreshFlow
<1>8. GoneFlow'
  BY <1>0, <1>1 DEF LeaderInv, GoneFlow
<1> QED
  BY <1>3, <1>4, <1>6, <1>7, <1>8 DEF LeaderInv

(***************************************************************************)
(* handlerDelete turns to what its listing does not have.                  *)
(***************************************************************************)
LEMMA LeaderDeletes ==
    ASSUME MaxRuns = 1, CoreInv, LeaderInv, NEW w \in Watcher, handlerDelete(w)
    PROVE  LeaderInv'
<1>0. \A v \in Watcher : v = w
  BY DEF Watcher
<1>1. /\ UNCHANGED <<lbs, owner, conf, at, listed, event, todo, cur>>
      /\ pc[w] = "config" /\ pc'[w] = "delete" /\ todo[w] = Nothing
      /\ \A l \in dels'[w] : event[w][l] = Absent
  BY DEF handlerDelete, etcd, disk, producer, CoreInv, TypeOK
<1>2. \A l \in Lb : Owned(l)' = Owned(l)
  BY <1>1 DEF Owned
<1>3. dels[w] = {}
  BY <1>1 DEF LeaderInv, HandlerInv
<1>4. OneOwned' /\ ServedInv'
  BY <1>0, <1>1, <1>2, <1>3 DEF LeaderInv, OneOwned, ServedInv
<1>5. HandlerInv'
  BY <1>0, <1>1 DEF LeaderInv, HandlerInv
<1>6. OwnedFlow'
  BY <1>1, <1>2 DEF LeaderInv, OwnedFlow
<1>7. FreshFlow'
  BY <1>1, <1>2 DEF LeaderInv, FreshFlow
<1>8. GoneFlow'
  BY <1>0, <1>1 DEF LeaderInv, GoneFlow
<1> QED
  BY <1>4, <1>5, <1>6, <1>7, <1>8 DEF LeaderInv

(***************************************************************************)
(* DeleteService gives the address back before the file is removed; what   *)
(* is written or listed since asks for nothing it does not get.            *)
(***************************************************************************)
LEMMA LeaderDelete ==
    ASSUME MaxRuns = 1, CoreInv, LeaderInv, NEW w \in Watcher, NEW l \in Lb,
           DeleteService(w, l)
    PROVE  LeaderInv'
<1>0. \A v \in Watcher : v = w
  BY DEF Watcher
<1>1. /\ UNCHANGED <<lbs, conf, at, listed, event, todo, dels>>
      /\ pc[w] = "delete" /\ pc'[w] = "remove" /\ l \in dels[w] /\ cur'[w] = l
      /\ todo[w] = Nothing /\ event[w][l] = Absent
  BY DEF DeleteService, disk, producer, CoreInv, TypeOK, LeaderInv, HandlerInv
<1>2. \/ owner' = owner
      \/ \E ip \in Owned(l) : owner' = [owner EXCEPT ![ip] = Free]
  BY DEF DeleteService
<1>3. /\ \A m \in Lb \ {l} : Owned(m)' = Owned(m)
      /\ Owned(l)' = Owned(l) \/ Owned(l)' = {}
      /\ \A ip \in Addr : owner'[ip] = owner[ip] \/ owner[ip] = l
  <2>1. CASE owner' = owner
    BY <2>1 DEF Owned
  <2>2. ASSUME NEW ip \in Owned(l), owner' = [owner EXCEPT ![ip] = Free]
        PROVE  /\ \A m \in Lb \ {l} : Owned(m)' = Owned(m)
               /\ Owned(l)' = {}
               /\ \A a \in Addr : owner'[a] = owner[a] \/ owner[a] = l
    <3>1. /\ \A a \in Addr \ {ip} : owner'[a] = owner[a]
          /\ owner'[ip] = Free /\ owner[ip] = l /\ ip \in Addr
      BY <2>2 DEF Owned, CoreInv, TypeOK
    <3>2. Owned(l) = {ip}
      BY DEF LeaderInv, OneOwned
    <3>3. Owned(l)' = {}
      BY <3>1, <3>2, LbmAssumption DEF Owned
    <3>4. \A m \in Lb \ {l} : Owned(m)' = Owned(m)
      BY <3>1, LbmAssumption DEF Owned
    <3> QED
      BY <3>1, <3>3, <3>4
  <2> QED
    BY <1>2, <2>1, <2>2
<1>4. HandlerInv'
  BY <1>0, <1>1 DEF LeaderInv, HandlerInv
<1>5. OneOwned'
  BY <1>3 DEF LeaderInv, OneOwned
<1>6. ServedInv'
  <2> SUFFICES ASSUME NEW m \in Lb, conf[m] # Absent, m \notin dels[w]
               PROVE  owner'[conf[m].vip] = m
    BY <1>1 DEF ServedInv
  <2>1. owner[conf[m].vip] = m
    BY <1>0 DEF LeaderInv, ServedInv
  <2>2. conf[m] \in File
    BY DEF CoreInv, TypeOK
  <2>3. conf[m].vip \in Addr
    BY <2>2 DEF File
  <2>4. m # l
    BY <1>1
  <2> QED
    BY <1>3, <2>1, <2>3, <2>4
<1>7. OwnedFlow'
  <2> SUFFICES ASSUME NEW m \in Lb, NEW ip \in Owned(m)'
               PROVE  /\ From(lbs[m], {ip})
                      /\ From(todo[w][m], {ip})
                      /\ at[w] = "send" => From(listed[w][m], {ip})
    BY <1>0, <1>1 DEF OwnedFlow
  <2>1. ip \in Owned(m)
    BY <1>3
  <2> QED
    BY <2>1 DEF LeaderInv, OwnedFlow
<1>8. FreshFlow'
  <2> SUFFICES ASSUME NEW m \in Lb, Owned(m)' = {}
               PROVE  /\ todo[w][m] # Absent =>
                            /\ From(lbs[m], {todo[w][m].vip})
                            /\ at[w] = "send" => From(listed[w][m], {todo[w][m].vip})
                      /\ at[w] = "send" /\ listed[w][m] # Absent
                            => From(lbs[m], {listed[w][m].vip})
    BY <1>0, <1>1 DEF FreshFlow
  <2>1. todo[w][m] = Absent
    BY <1>1 DEF Nothing
  <2>2. CASE m = l
    BY <1>1, <2>1, <2>2 DEF LeaderInv, GoneFlow
  <2>3. CASE m # l
    BY <1>3, <2>1, <2>3 DEF LeaderInv, FreshFlow
  <2> QED
    BY <2>2, <2>3
<1>9. GoneFlow'
  BY <1>0, <1>1 DEF LeaderInv, GoneFlow
<1> QED
  BY <1>4, <1>5, <1>6, <1>7, <1>8, <1>9 DEF LeaderInv

(***************************************************************************)
(* The rest of DeleteService: no file, nothing to own.                     *)
(***************************************************************************)
LEMMA LeaderRemove ==
    ASSUME MaxRuns = 1, CoreInv, LeaderInv, NEW w \in Watcher, Remove(w)
    PROVE  LeaderInv'
<1>0. \A v \in Watcher : v = w
  BY DEF Watcher
<1>1. /\ UNCHANGED <<lbs, owner, at, listed, event, todo, cur>>
      /\ pc[w] = "remove" /\ pc'[w] = "delete" /\ cur[w] \in Lb
      /\ dels'[w] = dels[w] \ {cur[w]}
      /\ \A l \in Lb \ {cur[w]} : conf'[l] = conf[l]
      /\ conf'[cur[w]] = Absent
  BY DEF Remove, Removed, etcd, producer, CoreInv, ConsumerInv, TypeOK
<1>2. \A l \in Lb : Owned(l)' = Owned(l)
  BY <1>1 DEF Owned
<1>3. OneOwned' /\ ServedInv'
  BY <1>0, <1>1, <1>2 DEF LeaderInv, OneOwned, ServedInv
<1>4. HandlerInv'
  BY <1>0, <1>1 DEF LeaderInv, HandlerInv
<1>5. OwnedFlow'
  BY <1>1, <1>2 DEF LeaderInv, OwnedFlow
<1>6. FreshFlow'
  BY <1>1, <1>2 DEF LeaderInv, FreshFlow
<1>7. GoneFlow'
  BY <1>0, <1>1 DEF LeaderInv, GoneFlow
<1> QED
  BY <1>3, <1>4, <1>5, <1>6, <1>7 DEF LeaderInv

(***************************************************************************)
(* The end of handlerEvent forgets the listing.                            *)
(***************************************************************************)
LEMMA LeaderReload ==
    ASSUME MaxRuns = 1, CoreInv, LeaderInv, NEW w \in Watcher, Reload(w)
    PROVE  LeaderInv'
<1>0. \A v \in Watcher : v = w
  BY DEF Watcher
<1>1. /\ UNCHANGED <<lbs, owner, conf, at, listed, todo, dels>>
      /\ pc[w] = "delete" /\ pc'[w] = "idle" /\ dels[w] = {}
      /\ todo[w] = Nothing
  BY DEF Reload, etcd, producer, CoreInv, TypeOK, LeaderInv, HandlerInv
<1>2. \A l \in Lb : Owned(l)' = Owned(l)
  BY <1>1 DEF Owned
<1>3. OneOwned' /\ ServedInv'
  BY <1>1, <1>2 DEF LeaderInv, OneOwned, ServedInv
<1>4. HandlerInv'
  BY <1>0, <1>1 DEF HandlerInv, Nothing
<1>5. OwnedFlow'
  BY <1>1, <1>2 DEF LeaderInv, OwnedFlow
<1>6. FreshFlow'
  BY <1>1, <1>2 DEF LeaderInv, FreshFlow
<1>7. GoneFlow'
  BY <1>0, <1>1 DEF GoneFlow
<1> QED
  BY <1>3, <1>4, <1>5, <1>6, <1>7 DEF LeaderInv

(***************************************************************************)
(* RequireIP moves no load balancer that nobody asks to move: it keeps its *)
(* VIP, or has none and gets one nobody has.                               *)
(***************************************************************************)
LEMMA LeaderRequire ==
    ASSUME CoreInv, LeaderInv, isLeader, NEW w \in Watcher, NEW l \in Lb,
           ConfigService(w, l)
    PROVE  /\ \/ owner' = owner
              \/ \E ip \in Addr : /\ Owned(l) = {}
                                  /\ owner[ip] = Free
                                  /\ todo[w][l].vip \in {NoIP, ip}
                                  /\ owner' = [owner EXCEPT ![ip] = l]
           /\ \/ Configured(w, l) /\ UNCHANGED cur
              \/ \E ip \in Owned(l)' : Granted(w, l, ip)
<1> DEFINE vip == todo[w][l].vip
<1>1. RequireIP(w, l) /\ todo[w][l] # Absent
  BY DEF ConfigService
<1>2. \A ip \in Owned(l) : vip \in {NoIP, ip}
  BY <1>1 DEF LeaderInv, OwnedFlow, From
<1>3. /\ Other(l, vip) = {}
      /\ \A own \in GivenBack(l, vip) : own = owner /\ Owned(l) = {}
  BY <1>2 DEF GivenBack, Other
<1>4. CASE \E ip \in Owned(l) : /\ vip \in {NoIP, ip}
                                /\ Granted(w, l, ip)
                                /\ UNCHANGED <<owner, cache, faults>>
  <2>1. Owned(l)' = Owned(l)
    BY <1>4 DEF Owned
  <2> QED
    BY <1>4, <2>1
<1>5. CASE \E own \in GivenBack(l, vip), ip \in Addr :
              /\ ip \in Grantable(own, vip)
              /\ owner' = [own EXCEPT ![ip] = l]
              /\ Granted(w, l, ip)
  <2> PICK own \in GivenBack(l, vip), ip \in Addr :
              /\ ip \in Grantable(own, vip)
              /\ owner' = [own EXCEPT ![ip] = l]
              /\ Granted(w, l, ip)
    BY <1>5
  <2>1. own = owner /\ Owned(l) = {}
    BY <1>3
  <2>2. owner[ip] = Free /\ vip \in {NoIP, ip}
    BY <2>1 DEF Grantable
  <2>3. ip \in Owned(l)'
    BY <2>1 DEF Owned, CoreInv, TypeOK
  <2> QED
    BY <2>1, <2>2, <2>3
<1>6. CASE /\ \/ UNCHANGED owner
              \/ owner' \in GivenBack(l, vip)
              \/ \E own \in GivenBack(l, vip) : \E ip \in Grantable(own, vip) :
                    owner' = [own EXCEPT ![ip] = l]
           /\ Configured(w, l)
           /\ UNCHANGED cur
  BY <1>3, <1>6 DEF Grantable
<1> QED
  BY <1>1, <1>3, <1>4, <1>5, <1>6 DEF RequireIP

LEMMA LeaderConfig ==
    ASSUME MaxRuns = 1, CoreInv, LeaderInv, isLeader,
           NEW w \in Watcher, NEW l \in Lb, ConfigService(w, l)
    PROVE  LeaderInv'
<1>0. \A v \in Watcher : v = w
  BY DEF Watcher
<1>1. /\ UNCHANGED <<lbs, conf, at, listed, event, dels>>
      /\ pc[w] = "config" /\ todo[w][l] # Absent /\ event[w][l] # Absent
      /\ dels[w] = {}
  BY DEF ConfigService, disk, producer, LeaderInv, HandlerInv
<1>2. \/ owner' = owner
      \/ \E ip \in Addr : /\ Owned(l) = {}
                          /\ owner[ip] = Free
                          /\ todo[w][l].vip \in {NoIP, ip}
                          /\ owner' = [owner EXCEPT ![ip] = l]
  BY LeaderRequire
<1>3. /\ \A m \in Lb \ {l} : todo'[w][m] = todo[w][m]
      /\ \/ todo'[w][l] = Absent /\ pc'[w] = "config"
         \/ /\ todo'[w][l] # Absent /\ todo'[w][l].vip \in Owned(l)'
            /\ pc'[w] \in {"put", "render"} /\ cur'[w] = l
  <2>1. CASE Configured(w, l)
    BY <2>1 DEF Configured, CoreInv, TypeOK
  <2>2. ASSUME NEW ip \in Owned(l)', Granted(w, l, ip)
        PROVE  /\ \A m \in Lb \ {l} : todo'[w][m] = todo[w][m]
               /\ todo'[w][l] # Absent /\ todo'[w][l].vip = ip
               /\ pc'[w] \in {"put", "render"} /\ cur'[w] = l
    <3>1. todo[w][l] \in Value /\ ip \in Addr
      BY <1>1 DEF CoreInv, TypeOK, Owned
    <3>2. Assigned(todo[w][l], ip) \in Value
      BY <3>1, AssignedTypes
    <3>3. /\ \A m \in Lb \ {l} : todo'[w][m] = todo[w][m]
          /\ todo'[w][l] = Assigned(todo[w][l], ip)
          /\ pc'[w] \in {"put", "render"} /\ cur'[w] = l
      BY <2>2 DEF Granted, CoreInv, TypeOK
    <3>4. Assigned(todo[w][l], ip).vip = ip
      BY <3>1, AssignedTypes
    <3> QED
      BY <3>2, <3>3, <3>4, LbmAssumption
  <2> QED
    BY <2>1, <2>2, LeaderRequire
<1>4. /\ \A m \in Lb \ {l} : Owned(m)' = Owned(m)
      /\ \/ Owned(l)' = Owned(l)
         \/ \E ip \in Addr : /\ Owned(l) = {} /\ Owned(l)' = {ip}
                             /\ todo[w][l].vip \in {NoIP, ip}
      /\ \A ip \in Addr : owner[ip] # Free => owner'[ip] = owner[ip]
  <2>1. CASE owner' = owner
    BY <2>1 DEF Owned
  <2>2. ASSUME NEW ip \in Addr, Owned(l) = {}, owner[ip] = Free,
               owner' = [owner EXCEPT ![ip] = l]
        PROVE  /\ \A m \in Lb \ {l} : Owned(m)' = Owned(m)
               /\ Owned(l)' = {ip}
               /\ \A a \in Addr : owner[a] # Free => owner'[a] = owner[a]
    <3>1. \A a \in Addr : owner'[a] = IF a = ip THEN l ELSE owner[a]
      BY <2>2 DEF CoreInv, TypeOK
    <3>2. Owned(l)' = {ip}
      BY <2>2, <3>1 DEF Owned
    <3>3. \A m \in Lb \ {l} : Owned(m)' = Owned(m)
      BY <2>2, <3>1, LbmAssumption DEF Owned
    <3> QED
      BY <2>2, <3>1, <3>2, <3>3
  <2> QED
    BY <1>2, <2>1, <2>2
<1>5. HandlerInv'
  <2>1. pc'[w] \in {"put", "render"} => owner'[todo'[w][cur'[w]].vip] = cur'[w]
    BY <1>3 DEF Owned
  <2> QED
    BY <1>0, <1>1, <1>3, <2>1 DEF LeaderInv, HandlerInv
<1>6. OneOwned'
  BY <1>4 DEF LeaderInv, OneOwned
<1>7. ServedInv'
  <2> SUFFICES ASSUME NEW m \in Lb, conf[m] # Absent PROVE owner'[conf[m].vip] = m
    BY <1>1 DEF ServedInv
  <2>1. owner[conf[m].vip] = m
    BY <1>0, <1>1 DEF LeaderInv, ServedInv
  <2>2. conf[m].vip \in Addr
    BY DEF CoreInv, TypeOK, File
  <2> QED
    BY <1>4, <2>1, <2>2, LbmAssumption
<1>8. OwnedFlow'
  <2> SUFFICES ASSUME NEW m \in Lb, NEW ip \in Owned(m)'
               PROVE  /\ From(lbs[m], {ip})
                      /\ From(todo'[w][m], {ip})
                      /\ at[w] = "send" => From(listed[w][m], {ip})
    BY <1>0, <1>1 DEF OwnedFlow
  <2>1. CASE m # l
    BY <1>3, <1>4, <2>1 DEF LeaderInv, OwnedFlow
  <2>2. CASE m = l
    <3>1. From(todo'[w][l], {ip})
      BY <1>3, <1>6, <2>2 DEF OneOwned, From
    <3>2. CASE Owned(l)' = Owned(l)
      BY <2>2, <3>1, <3>2 DEF LeaderInv, OwnedFlow
    <3>3. CASE Owned(l) = {} /\ todo[w][l].vip \in {NoIP, ip}
      <4>1. /\ From(lbs[l], {todo[w][l].vip})
            /\ at[w] = "send" => From(listed[w][l], {todo[w][l].vip})
        BY <1>1, <3>3 DEF LeaderInv, FreshFlow
      <4> QED
        BY <2>2, <3>1, <3>3, <4>1 DEF From
    <3> QED
      BY <1>4, <2>2, <3>2, <3>3
  <2> QED
    BY <2>1, <2>2
<1>9. FreshFlow'
  <2> SUFFICES ASSUME NEW m \in Lb, Owned(m)' = {}
               PROVE  /\ todo'[w][m] # Absent =>
                            /\ From(lbs[m], {todo'[w][m].vip})
                            /\ at[w] = "send" => From(listed[w][m], {todo'[w][m].vip})
                      /\ at[w] = "send" /\ listed[w][m] # Absent
                            => From(lbs[m], {listed[w][m].vip})
    BY <1>0, <1>1 DEF FreshFlow
  <2>1. Owned(m) = {} /\ (m = l => todo'[w][m] = Absent)
    BY <1>3, <1>4
  <2> QED
    BY <1>3, <2>1 DEF LeaderInv, FreshFlow
<1>10. GoneFlow'
  BY <1>0, <1>1 DEF LeaderInv, GoneFlow
<1> QED
  BY <1>5, <1>6, <1>7, <1>8, <1>9, <1>10 DEF LeaderInv

(***************************************************************************)
(* LVS.Update publishes the VIP the load balancer owns, over whatever is   *)
(* in the directory.                                                       *)
(***************************************************************************)
LEMMA LeaderUpdate ==
    ASSUME MaxRuns = 1, CoreInv, LeaderInv, NEW w \in Watcher, Update(w)
    PROVE  LeaderInv'
<1> DEFINE l == cur[w]
<1>0. \A v \in Watcher : v = w
  BY DEF Watcher
<1>1. /\ UNCHANGED <<owner, conf, at, listed, event, cur, dels>>
      /\ pc[w] = "put" /\ l \in Lb
      /\ todo[w][l] \in File /\ todo[w][l] # Absent /\ event[w][l] # Absent
      /\ dels[w] = {} /\ owner[todo[w][l].vip] = l
  <2>1. todo[w][l] \in File /\ File \subseteq Value
    BY DEF Update, CoreInv, ConsumerInv, File, Value
  <2> QED
    BY <2>1, LbmAssumption
    DEF Update, disk, memory, CoreInv, ConsumerInv, LeaderInv, HandlerInv
<1>2. /\ \A m \in Lb \ {l} : lbs'[m] = lbs[m]
      /\ lbs'[l] \in {lbs[l], todo[w][l]}
  BY DEF Update, Store, CoreInv, TypeOK
<1>3. \/ pc'[w] = "render" /\ todo' = todo
      \/ /\ pc'[w] = "config"
         /\ todo'[w][l] = Absent
         /\ \A m \in Lb \ {l} : todo'[w][m] = todo[w][m]
  <2>1. CASE pc' = [pc EXCEPT ![w] = "render"] /\ UNCHANGED todo
    BY <2>1 DEF CoreInv, TypeOK
  <2>2. CASE Configured(w, l)
    BY <1>1, <2>2, ConfiguredTypes DEF CoreInv, TypeOK
  <2> QED
    BY <2>1, <2>2 DEF Update
<1>4. \A m \in Lb : Owned(m)' = Owned(m)
  BY <1>1 DEF Owned
<1>5. todo[w][l].vip \in Owned(l)
  BY <1>1 DEF Owned, File
<1>6. OneOwned' /\ ServedInv'
  BY <1>1, <1>4 DEF LeaderInv, OneOwned, ServedInv
<1>7. HandlerInv'
  BY <1>0, <1>1, <1>3 DEF LeaderInv, HandlerInv
<1>8. OwnedFlow'
  <2> SUFFICES ASSUME NEW m \in Lb, NEW ip \in Owned(m)
               PROVE  /\ From(lbs'[m], {ip})
                      /\ From(todo'[w][m], {ip})
                      /\ at[w] = "send" => From(listed[w][m], {ip})
    BY <1>0, <1>1, <1>4 DEF OwnedFlow
  <2>1. /\ From(lbs[m], {ip})
        /\ From(todo[w][m], {ip})
        /\ at[w] = "send" => From(listed[w][m], {ip})
    BY DEF LeaderInv, OwnedFlow
  <2> QED
    BY <1>2, <1>3, <2>1 DEF From
<1>9. FreshFlow'
  <2> SUFFICES ASSUME NEW m \in Lb, Owned(m) = {}
               PROVE  /\ todo'[w][m] # Absent =>
                            /\ From(lbs'[m], {todo'[w][m].vip})
                            /\ at[w] = "send" => From(listed[w][m], {todo'[w][m].vip})
                      /\ at[w] = "send" /\ listed[w][m] # Absent
                            => From(lbs'[m], {listed[w][m].vip})
    BY <1>0, <1>1, <1>4 DEF FreshFlow
  <2>1. m # l
    BY <1>5
  <2> QED
    BY <1>2, <1>3, <2>1 DEF LeaderInv, FreshFlow
<1>10. GoneFlow'
  BY <1>0, <1>1, <1>2 DEF LeaderInv, GoneFlow
<1> QED
  BY <1>6, <1>7, <1>8, <1>9, <1>10 DEF LeaderInv

(***************************************************************************)
(* The process gets its role: a leader starts with nothing to serve.       *)
(***************************************************************************)
LEMMA LeaderBegins ==
    ASSUME MaxRuns = 1, IdleInv, NEW w \in Watcher, Lead(w)
    PROVE  LeaderInv'
<1>0. \A v \in Watcher : v = w
  BY DEF Watcher
<1>1. /\ role[w] = "none" /\ at' = [at EXCEPT ![w] = "list"]
      /\ UNCHANGED <<lbs, owner, conf, listed, pc, event, todo, cur, dels>>
  BY DEF Lead, Run, etcd, disk, consumer
<1>2. /\ pc[w] = "idle" /\ todo[w] = Nothing /\ dels[w] = {} /\ at[w] = "off"
      /\ conf = Nothing /\ \A ip \in Addr : owner[ip] = Free
  BY <1>1 DEF IdleInv
<1>3. at'[w] # "send"
  BY <1>1, <1>2
<1>4. \A l \in Lb : Owned(l)' = {}
  BY <1>1, <1>2, LbmAssumption DEF Owned
<1>5. HandlerInv' /\ OneOwned' /\ ServedInv'
  BY <1>0, <1>1, <1>2, <1>4 DEF HandlerInv, OneOwned, ServedInv, Nothing
<1>6. OwnedFlow' /\ FreshFlow' /\ GoneFlow'
  BY <1>0, <1>1, <1>2, <1>3, <1>4 DEF OwnedFlow, FreshFlow, GoneFlow, Nothing
<1> QED
  BY <1>5, <1>6 DEF LeaderInv

(***************************************************************************)
(* A process without a role does nothing.                                  *)
(***************************************************************************)
LEMMA IdleNext ==
    ASSUME MaxRuns = 1, MaxPeer = 0, CoreInv, IdleInv, [Next]_vars, crashes' = 0
    PROVE  IdleInv'
<1> SUFFICES ASSUME NEW w \in Watcher, role'[w] = "none"
             PROVE  /\ at'[w] = "off"
                    /\ pc'[w] = "idle"
                    /\ todo'[w] = Nothing
                    /\ dels'[w] = {}
                    /\ conf' = Nothing
                    /\ \A ip \in Addr : owner'[ip] = Free
  BY DEF IdleInv
<1>0. \A v \in Watcher : v = w
  BY DEF Watcher
<1>1. ASSUME role[w] = "none",
             UNCHANGED <<at, pc, todo, dels, conf, owner>>
      PROVE  /\ at'[w] = "off"
             /\ pc'[w] = "idle"
             /\ todo'[w] = Nothing
             /\ dels'[w] = {}
             /\ conf' = Nothing
             /\ \A ip \in Addr : owner'[ip] = Free
  BY <1>1 DEF IdleInv
<1>2. CASE User \/ reloadPeriod \/ ReadFiles \/ UNCHANGED vars
  BY <1>1, <1>2 DEF User, UserPut, UserDelete, reloadPeriod, ReadFiles, vars, run,
                    consumer, disk, etcd, producer
<1>3. ASSUME PeerStep PROVE FALSE
  BY <1>3 DEF PeerStep, CoreInv, TypeOK
<1>4. ASSUME Crash PROVE FALSE
  BY <1>4 DEF Crash, CoreInv, TypeOK
<1>5. ASSUME NEW v \in Watcher, NEW leads, Run(v, leads) PROVE FALSE
  BY <1>0, <1>5 DEF Run, CoreInv, TypeOK
<1>6. ASSUME NEW v \in Watcher, Step(v) \/ WatchError(v) PROVE FALSE
  <2>1. role'[v] = role[v] /\ v = w
    BY <1>0, <1>6 DEF Step, List, Watch, NextEvent, Receive, Update, Render,
       handlerDelete, Remove, Reload, ConfigService, DeleteService, WatchError, run
  <2>2. at[v] = "off" /\ pc[v] = "idle"
    BY <2>1 DEF IdleInv
  <2> QED
    BY <1>6, <2>2 DEF Step, List, Watch, NextEvent, Receive, Update, Render,
       handlerDelete, Remove, Reload, ConfigService, DeleteService, WatchError
<1> QED
  BY <1>2, <1>3, <1>4, <1>5, <1>6 DEF Next, Lead, Follow, StopLeading

(***************************************************************************)
(* Every step of a leader.                                                 *)
(***************************************************************************)
LEMMA LeaderNext ==
    ASSUME MaxRuns = 1, Request = {}, CoreInv, IdleInv, isLeader => LeaderInv,
           [Next]_vars, crashes' = 0, isLeader'
    PROVE  LeaderInv'
<1>1. ASSUME NEW w \in Watcher, Lead(w) \/ Follow(w) \/ StopLeading(w)
      PROVE  LeaderInv'
  BY <1>1, LeaderBegins DEF Follow, StopLeading, Run
<1>2. ASSUME Crash PROVE FALSE
  BY <1>2 DEF Crash, CoreInv, TypeOK
<1>3. ASSUME User \/ PeerStep \/ reloadPeriod \/ ReadFiles \/ UNCHANGED vars \/
             \E w \in Watcher : Step(w) \/ WatchError(w)
      PROVE  isLeader
  BY <1>3, ZenonT(60) DEF User, UserPut, UserDelete, PeerStep, reloadPeriod, ReadFiles, vars,
       memory, Step, List, Watch, NextEvent, Receive, Update, Render, handlerDelete,
       Remove, Reload, ConfigService, DeleteService, WatchError
<1>4. ASSUME isLeader, PeerStep PROVE FALSE
  BY <1>4 DEF PeerStep
<1>5. ASSUME isLeader, reloadPeriod \/ ReadFiles \/ UNCHANGED vars PROVE LeaderInv'
  <2>1. UNCHANGED <<lbs, owner, conf, at, listed, pc, event, todo, cur, dels>>
    BY <1>5 DEF reloadPeriod, ReadFiles, vars, etcd, producer, consumer, disk
  <2> QED
    BY <1>5, <2>1, LeaderKept
<1>6. ASSUME isLeader, NEW w \in Watcher, Watch(w) \/ NextEvent(w) \/ WatchError(w)
      PROVE  LeaderInv'
  <2>1. /\ UNCHANGED <<lbs, owner, conf, listed, pc, event, todo, cur, dels>>
        /\ \A v \in Watcher : at'[v] = "send" => at[v] = "send"
    BY <1>6 DEF Watch, NextEvent, WatchError, etcd, consumer, disk, CoreInv, TypeOK
  <2> QED
    BY <1>6, <2>1, LeaderKept
<1>7. ASSUME isLeader, NEW w \in Watcher, Step(w) PROVE LeaderInv'
  BY <1>6, <1>7, LeaderList, LeaderReceive, LeaderUpdate, LeaderRender,
     LeaderDeletes, LeaderRemove, LeaderReload, LeaderConfig, LeaderDelete DEF Step
<1> QED
  BY <1>1, <1>2, <1>3, <1>4, <1>5, <1>6, <1>7, LeaderUser DEF Next

(***************************************************************************)
(* A leader that is alone, and whose users leave the choice of a VIP to    *)
(* it, has in the store every VIP it serves (allocVIP, DeleteService),     *)
(* for any number of load balancers and addresses, whatever requests fail  *)
(* and wherever users' writes fall between its own.                        *)
(***************************************************************************)
THEOREM ServesWhatItOwns ==
    ASSUME MaxRuns = 1, MaxPeer = 0, Request = {}
    PROVE  Spec => []ServesOwned
<1>1. Init => ServeInv
  BY DEF Init, Each, IdleInv, ServeInv
<1>2. CoreInv /\ ServeInv /\ [Next]_vars => ServeInv'
  <2> SUFFICES ASSUME CoreInv, ServeInv, [Next]_vars, crashes' = 0
               PROVE  IdleInv' /\ (isLeader' => LeaderInv')
    BY DEF ServeInv
  <2>1. crashes = 0
    <3>1. CASE Crash
      BY <3>1 DEF Crash, CoreInv, TypeOK
    <3>2. CASE UNCHANGED crashes
      BY <3>2
    <3>3. ASSUME NEW w \in Watcher, Step(w) \/ WatchError(w)
          PROVE  UNCHANGED crashes
      BY <3>3 DEF counters, Step, List, Watch, NextEvent, Receive, Update, Render,
         handlerDelete, Remove, Reload, ConfigService, DeleteService, WatchError
    <3>4. ASSUME NEW w \in Watcher, Lead(w) \/ Follow(w) \/ StopLeading(w)
          PROVE  UNCHANGED crashes
      BY <3>4 DEF counters, Lead, Follow, StopLeading, Run
    <3>5. CASE User \/ PeerStep \/ reloadPeriod \/ ReadFiles \/ UNCHANGED vars
      BY <3>5 DEF vars, counters, User, UserPut, UserDelete, PeerStep,
         reloadPeriod, ReadFiles
    <3> QED
      BY <3>1, <3>2, <3>3, <3>4, <3>5 DEF Next
  <2> QED
    BY <2>1, IdleNext, LeaderNext DEF ServeInv
<1>3. ServeInv => ServesOwned
  BY DEF ServeInv, LeaderInv, ServedInv, ServesOwned
<1> QED
  BY <1>1, <1>2, <1>3, CoreInit, CoreNext, PTL DEF Spec

=============================================================================
