-------------------------------- MODULE Lbm --------------------------------
(***************************************************************************)
(* One lbmanager process of type "l4": LBBase, LVSImpl and the keepalived  *)
(* reload thread (pkg/lbm, pkg/keepalived) between the load balancers      *)
(* users keep in etcd and the files keepalived has loaded.                 *)
(*                                                                         *)
(* Every call of LBBase.Run starts a watcher: a producer goroutine (libkv  *)
(* WatchTree) that lists the directory after every event of the watch, and *)
(* a consumer that applies one listing at a time.  The producer may list   *)
(* while the consumer works.  Watchers of earlier roles can be alive, and  *)
(* all share Elem and the files.  Each request to etcd and each file write *)
(* is a step; the address manager, serialised by ipam.lock, answers in one *)
(* step (Ipam implements AddressPool).                                     *)
(***************************************************************************)
EXTENDS Integers, FiniteSets

CONSTANTS
    Lb,          \* names of load balancers; the last part of their keys
    stem,        \* a name without the "l4-" in it, wherever they are
    Ver,         \* versions of the content users give one
    Invalid,     \* content that Parse or IsSameCluster refuses
    Addr,        \* the addresses of the VIP subnet
    Request,     \* the addresses users may ask for
    GivesPort,   \* whether users give a port: some or all of BOOLEAN
    NoIP,        \* no address
    Free,        \* no owner
    Absent,      \* no value
    MaxRuns,     \* bound: calls of Run in the life of a process
    MaxChanges,  \* bound: writes of users
    MaxPeer,     \* bound: steps of another leader
    MaxFaults,   \* bound: failing etcd requests
    MaxCrashes,  \* bound: crashes
    MaxFailures  \* bound: both together

\* A load balancer: its content, its VIP and whether it has a port.
Value == [ver : Ver \union {Invalid}, vip : Addr \union {NoIP}, port : BOOLEAN]

\* What Recover puts into Elem: a name and nothing else.
Stub == [ver |-> Absent, vip |-> NoIP, port |-> FALSE]

\* A configuration file of a load balancer.
File == [ver : Ver, vip : Addr, port : {TRUE}]

ASSUME LbmAssumption ==
    /\ stem \in [Lb -> Lb]
    /\ Absent \notin Lb \union Value \union {Stub}
    /\ Invalid \notin Ver
    /\ Request \subseteq Addr
    /\ GivesPort \subseteq BOOLEAN
    /\ NoIP \notin Addr
    /\ Free \notin Lb
    /\ {MaxRuns, MaxChanges, MaxPeer, MaxFaults, MaxCrashes, MaxFailures} \subseteq Nat

Watcher == 1 .. MaxRuns

VARIABLES
    lbs,         \* etcd: lb/<catalog>/l4/<name>
    owner,       \* etcd: the owner of an address
    cache,       \* ipamCache
    elem,        \* Elem
    maker,       \* the watcher whose object Elem holds, 0 for another
    isLeader,    \* IsLeader
    conf,        \* the files under ConfigPath
    toReload,    \* keepalived.toReload
    hup,         \* keepalived has been sent SIGHUP
    loaded,      \* the configuration keepalived runs
    role,        \* how the Run of a watcher was called
    stop,        \* its channel stop is closed
    at,          \* where its producer is
    listed,      \* the listing the producer holds
    armed,       \* the producer's watch has an index to wait from
    backlog,     \* events from that index on
    pc,          \* where its consumer is
    event,       \* the listing the consumer applies
    todo,        \* lbs of handlerAddOrUpdate, from the present one on
    cur,         \* the load balancer it is at
    dels,        \* lbs of handlerDelete
    needReload,  \* needReload of handlerEvent
    changes, peer, faults, crashes   \* counted against their bounds

etcd     == <<lbs, owner>>
memory   == <<cache, elem, maker, isLeader>>
disk     == <<conf, toReload, hup, loaded>>
run      == <<role, stop>>
producer == <<at, listed, armed, backlog>>
consumer == <<pc, event, todo, cur, dels, needReload>>
counters == <<changes, peer, faults, crashes>>
vars     == <<etcd, memory, disk, run, producer, consumer, counters>>

TypeOK ==
    /\ lbs \in [Lb -> Value \union {Absent}]
    /\ owner \in [Addr -> Lb \union {Free}]
    /\ cache \subseteq Lb
    /\ elem \in [Lb -> Value \union {Stub, Absent}]
    /\ maker \in [Lb -> Watcher \union {0}]
    /\ isLeader \in BOOLEAN
    /\ conf \in [Lb -> File \union {Absent}]
    /\ toReload \in BOOLEAN
    /\ hup \in BOOLEAN
    /\ loaded \in [Lb -> File \union {Absent}]
    /\ role \in [Watcher -> {"none", "follow", "lead"}]
    /\ stop \in [Watcher -> BOOLEAN]
    /\ at \in [Watcher -> {"off", "list", "send", "sent", "next", "closed"}]
    /\ listed \in [Watcher -> [Lb -> Value \union {Absent}]]
    /\ armed \in [Watcher -> BOOLEAN]
    /\ backlog \in [Watcher -> Nat]
    /\ pc \in [Watcher -> {"idle", "config", "put", "render", "delete", "remove"}]
    /\ event \in [Watcher -> [Lb -> Value \union {Absent}]]
    /\ todo \in [Watcher -> [Lb -> Value \union {Absent}]]
    /\ cur \in [Watcher -> Lb \union {Absent}]
    /\ dels \in [Watcher -> SUBSET Lb]
    /\ needReload \in [Watcher -> BOOLEAN]
    /\ changes \in 0 .. MaxChanges
    /\ peer \in 0 .. MaxPeer
    /\ faults \in 0 .. MaxFaults
    /\ crashes \in 0 .. MaxCrashes

Nothing == [l \in Lb |-> Absent]

Each(v) == [w \in Watcher |-> v]

Init ==
    /\ lbs = Nothing
    /\ owner = [ip \in Addr |-> Free]
    /\ conf = Nothing
    /\ hup = FALSE
    /\ loaded = Nothing
    /\ cache = {}
    /\ elem = Nothing
    /\ maker = [l \in Lb |-> 0]
    /\ isLeader = FALSE
    /\ toReload = FALSE
    /\ role = Each("none")
    /\ stop = Each(FALSE)
    /\ at = Each("off")
    /\ listed = Each(Nothing)
    /\ armed = Each(FALSE)
    /\ backlog = Each(0)
    /\ pc = Each("idle")
    /\ event = Each(Nothing)
    /\ todo = Each(Nothing)
    /\ cur = Each(Absent)
    /\ dels = Each({})
    /\ needReload = Each(FALSE)
    /\ changes = 0
    /\ peer = 0
    /\ faults = 0
    /\ crashes = 0

-----------------------------------------------------------------------------
(* etcd.                                                                   *)

\* A request fails.
StoreError ==
    /\ faults < MaxFaults
    /\ faults + crashes < MaxFailures
    /\ faults' = faults + 1

(***************************************************************************)
(* A key is set or deleted.  The first Next of a watch waits for an event  *)
(* from the time of the request on, every later one from an index.         *)
(***************************************************************************)
Store(l, v) ==
    /\ lbs' = [lbs EXCEPT ![l] = v]
    /\ backlog' = [w \in Watcher |-> IF armed[w] \/ at[w] = "next"
                                     THEN backlog[w] + 1 ELSE backlog[w]]

\* A user creates or updates a load balancer, keeping its VIP, asking for
\* one or leaving it to the manager, with a port or without.
UserPut(l, c, vip, port) ==
    /\ changes < MaxChanges
    /\ changes' = changes + 1
    /\ vip \in Request \union {NoIP} \/ (lbs[l] # Absent /\ vip = lbs[l].vip)
    /\ Store(l, [ver |-> c, vip |-> vip, port |-> port])
    /\ UNCHANGED <<owner, memory, disk, run, at, listed, armed, consumer, peer,
                   faults, crashes>>

UserDelete(l) ==
    /\ changes < MaxChanges
    /\ changes' = changes + 1
    /\ lbs[l] # Absent
    /\ Store(l, Absent)
    /\ UNCHANGED <<owner, memory, disk, run, at, listed, armed, consumer, peer,
                   faults, crashes>>

\* allocVIP sets the VIP, and the port if there is none.
Assigned(lvs, ip) == [lvs EXCEPT !.vip = ip, !.port = TRUE]

\* While this process follows, the leader assigns, publishes and frees.
AP == INSTANCE AddressPool WITH Pool <- Addr, Id <- Lb
PeerStep ==
    /\ ~ isLeader
    /\ peer < MaxPeer
    /\ peer' = peer + 1
    /\ \/ AP!Next /\ UNCHANGED <<lbs, backlog>>
       \/ \E ip \in Addr, l \in Lb :
             /\ owner[ip] = l
             /\ lbs[l] # Absent
             /\ Store(l, Assigned(lbs[l], ip))
             /\ UNCHANGED owner
    /\ UNCHANGED <<memory, disk, run, at, listed, armed, consumer, changes,
                   faults, crashes>>

-----------------------------------------------------------------------------
(* Roles: LBBase.Run, called by the callbacks of pkg/leader.               *)

\* The keys Recover writes: it removes every "l4-" of a name in ipamCache, not
\* only the prefix that was put before it.
Recovered == {stem[l] : l \in cache}

\* Seeded fault: Elem is not recovered.
Recover_Nothing == elem

\* LVSImpl.Recover: a stub under each of these keys, over what Elem has there.
Recover == [l \in Lb |-> IF l \in Recovered THEN Stub ELSE elem[l]]

\* Run recovers Elem and starts a watcher.
Run(w, leads) ==
    /\ role[w] = "none"
    /\ \A v \in Watcher : v < w => role[v] # "none"
    /\ elem' = Recover
    /\ maker' = [l \in Lb |-> IF l \in Recovered THEN 0 ELSE maker[l]]
    /\ isLeader' = leads
    /\ role' = [role EXCEPT ![w] = IF leads THEN "lead" ELSE "follow"]
    /\ at' = [at EXCEPT ![w] = "list"]
    /\ UNCHANGED <<etcd, cache, disk, listed, armed, backlog, consumer, counters>>

\* Stop is the channel of the last Change.
LastFollow(v) == role[v] = "follow" /\ \A u \in Watcher : u > v => role[u] # "follow"

\* OnStartedLeading, once in a process: the watcher of the last Change stops.
Lead(w) ==
    /\ \A v \in Watcher : role[v] # "lead"
    /\ stop' = [v \in Watcher |-> stop[v] \/ LastFollow(v)]
    /\ Run(w, TRUE)

\* OnNewLeader with another identity: Change.  No watcher stops.
Follow(w) ==
    /\ ~ isLeader
    /\ UNCHANGED stop
    /\ Run(w, FALSE)

\* renew ended: the leading Run's channel is closed, OnStoppedLeading runs.
StopLeading(w) ==
    /\ isLeader
    /\ stop' = [v \in Watcher |-> stop[v] \/ role[v] = "lead"]
    /\ Run(w, FALSE)

-----------------------------------------------------------------------------
(* The producer: WatchTree.                                                *)

List(w) ==
    /\ at[w] = "list"
    /\ at' = [at EXCEPT ![w] = "send"]
    /\ listed' = [listed EXCEPT ![w] = lbs]
    /\ UNCHANGED <<etcd, memory, disk, run, armed, backlog, consumer, counters>>

\* After a listing was taken: stop, or ask for the next event.
Watch(w) ==
    /\ at[w] = "sent"
    /\ at' = [at EXCEPT ![w] = IF stop[w] THEN "closed" ELSE "next"]
    /\ UNCHANGED <<etcd, memory, disk, run, listed, armed, backlog, consumer,
                   counters>>

NextEvent(w) ==
    /\ at[w] = "next"
    /\ backlog[w] > 0
    /\ backlog' = [backlog EXCEPT ![w] = @ - 1]
    /\ armed' = [armed EXCEPT ![w] = TRUE]
    /\ at' = [at EXCEPT ![w] = "list"]
    /\ UNCHANGED <<etcd, memory, disk, run, listed, consumer, counters>>

\* List or Next fails: the channel is closed and watch() waits for stop.
WatchError(w) ==
    /\ at[w] \in {"list", "next"}
    /\ StoreError
    /\ at' = [at EXCEPT ![w] = "closed"]
    /\ UNCHANGED <<etcd, memory, disk, run, listed, armed, backlog, consumer,
                   changes, peer, crashes>>

-----------------------------------------------------------------------------
(* The consumer: handlerEvent.                                             *)

\* Seeded fault: a key that Elem has is taken for unchanged.
Changed_KeyOnly(w, l) ==
    /\ listed[w][l] # Absent
    /\ listed[w][l].ver # Invalid
    /\ elem[l] = Absent

\* handlerAddOrUpdate: parsed, of this cluster and not what Elem has.
Changed(w, l) ==
    /\ listed[w][l] # Absent
    /\ listed[w][l].ver # Invalid
    /\ elem[l] # listed[w][l]

\* The first loop of handlerAddOrUpdate, on the listing just received.
Receive(w) ==
    /\ at[w] = "send"
    /\ pc[w] = "idle"
    /\ at' = [at EXCEPT ![w] = "sent"]
    /\ event' = [event EXCEPT ![w] = listed[w]]
    /\ todo' = [todo EXCEPT ![w] =
                   [l \in Lb |-> IF Changed(w, l) THEN listed[w][l] ELSE Absent]]
    /\ elem' = [l \in Lb |-> IF Changed(w, l) THEN listed[w][l] ELSE elem[l]]
    /\ maker' = [l \in Lb |-> IF Changed(w, l) THEN w ELSE maker[l]]
    /\ pc' = [pc EXCEPT ![w] = "config"]
    /\ UNCHANGED <<etcd, cache, isLeader, disk, run, listed, armed, backlog, cur,
                   dels, needReload, counters>>

\* ConfigService is done with load balancer l.
Configured(w, l) ==
    /\ todo' = [todo EXCEPT ![w][l] = Absent]
    /\ pc' = [pc EXCEPT ![w] = "config"]

Owned(l) == {ip \in Addr : owner[ip] = l}

\* The addresses l has that RequireIP gives back one of.
Other(l, vip) == {ip \in Owned(l) : vip \notin {NoIP, ip}}

\* The owners after RequireIP has given back another address l had, if any.
GivenBack(l, vip) ==
    IF Owned(l) = {} THEN {owner}
    ELSE {[owner EXCEPT ![ip] = Free] : ip \in Other(l, vip)}

\* Seeded fault: an address is granted that another load balancer has.
Grantable_Any(own, vip) == {ip \in Addr : vip \in {NoIP, ip}}

\* The addresses IPAllocator.Get may return.
Grantable(own, vip) == {ip \in Addr : own[ip] = Free /\ vip \in {NoIP, ip}}

(***************************************************************************)
(* allocVIP has an address.  lvs is the object in Elem, unless another     *)
(* goroutine has replaced that; if VIP or port is new it is published.     *)
(***************************************************************************)
Granted(w, l, ip) ==
    /\ todo' = [todo EXCEPT ![w][l] = Assigned(@, ip)]
    /\ elem' = IF elem[l] # Absent /\ maker[l] = w
               THEN [elem EXCEPT ![l] = Assigned(@, ip)] ELSE elem
    /\ cur' = [cur EXCEPT ![w] = l]
    /\ pc' = [pc EXCEPT ![w] = IF todo[w][l] = Assigned(todo[w][l], ip)
                              THEN "render" ELSE "put"]

(***************************************************************************)
(* RequireIP.  That the release of another address has failed is ignored:  *)
(* l may own both then.  Any other error ends ConfigService, whatever was  *)
(* given back.                                                             *)
(***************************************************************************)
RequireIP(w, l) ==
    LET vip == todo[w][l].vip IN
    \/ \E ip \in Owned(l) :
          /\ vip \in {NoIP, ip}
          /\ Granted(w, l, ip)
          /\ UNCHANGED <<owner, cache, faults>>
    \/ \E own \in GivenBack(l, vip) \union {owner}, ip \in Addr :
          /\ \/ own \in GivenBack(l, vip) /\ UNCHANGED faults
             \/ Other(l, vip) # {} /\ StoreError
          /\ ip \in Grantable(own, vip)
          /\ owner' = [own EXCEPT ![ip] = l]
          /\ cache' = cache \union {l}
          /\ Granted(w, l, ip)
    \/ /\ \/ \E own \in GivenBack(l, vip) :
                Grantable(own, vip) = {} /\ owner' = own /\ UNCHANGED faults
          \/ /\ StoreError
             /\ \/ UNCHANGED owner
                \/ owner' \in GivenBack(l, vip)
                \/ \E own \in GivenBack(l, vip) : \E ip \in Grantable(own, vip) :
                      owner' = [own EXCEPT ![ip] = l]
       /\ Configured(w, l)
       /\ UNCHANGED <<elem, cur, cache>>

\* Seeded fault: a follower configures a load balancer without a VIP.
checkValid_Always(lvs) == TRUE

checkValid(lvs) == lvs.vip # NoIP /\ lvs.port

\* ConfigService up to the VIP: allocated by a leader, required by a follower.
ConfigService(w, l) ==
    /\ pc[w] = "config"
    /\ todo[w][l] # Absent
    /\ \/ /\ isLeader
          /\ RequireIP(w, l)
       \/ /\ ~ isLeader
          /\ IF checkValid(todo[w][l])
             THEN /\ cur' = [cur EXCEPT ![w] = l]
                  /\ pc' = [pc EXCEPT ![w] = "render"]
                  /\ UNCHANGED todo
             ELSE Configured(w, l) /\ UNCHANGED cur
          /\ UNCHANGED <<owner, cache, elem, faults>>
    /\ UNCHANGED <<lbs, maker, isLeader, disk, run, producer, event, dels,
                   needReload, changes, peer, crashes>>

(***************************************************************************)
(* LVS.Update: a Put without a condition.  On an error ConfigService ends  *)
(* (the deferred ReleaseIP looks at an err that is nil), and whether the   *)
(* value was written is not known.                                         *)
(***************************************************************************)
Update(w) ==
    /\ pc[w] = "put"
    /\ \/ /\ Store(cur[w], todo[w][cur[w]])
          /\ pc' = [pc EXCEPT ![w] = "render"]
          /\ UNCHANGED <<todo, faults>>
       \/ /\ StoreError
          /\ \/ Store(cur[w], todo[w][cur[w]])
             \/ UNCHANGED <<lbs, backlog>>
          /\ Configured(w, cur[w])
    /\ UNCHANGED <<owner, memory, disk, run, at, listed, armed, event, cur, dels,
                   needReload, changes, peer, crashes>>

\* A reload is needed if any service has changed its file.
Collect(w) == needReload' = [needReload EXCEPT ![w] = @ \/ conf' # conf]

\* renderTemplate: the file is written if its content is another.
Render(w) ==
    /\ pc[w] = "render"
    /\ conf' = [conf EXCEPT ![cur[w]] = todo[w][cur[w]]]
    /\ Collect(w)
    /\ Configured(w, cur[w])
    /\ UNCHANGED <<etcd, memory, toReload, hup, loaded, run, producer, event, cur,
                   dels, counters>>

\* The first loop of handlerDelete: what Elem has and the listing has not.
handlerDelete(w) ==
    LET gone == {l \in Lb : elem[l] # Absent /\ event[w][l] = Absent} IN
    /\ pc[w] = "config"
    /\ todo[w] = Nothing
    /\ dels' = [dels EXCEPT ![w] = gone]
    /\ elem' = [l \in Lb |-> IF l \in gone THEN Absent ELSE elem[l]]
    /\ maker' = [l \in Lb |-> IF l \in gone THEN 0 ELSE maker[l]]
    /\ pc' = [pc EXCEPT ![w] = "delete"]
    /\ UNCHANGED <<etcd, cache, isLeader, disk, run, producer, event, todo, cur,
                   needReload, counters>>

\* DeleteService: a leader gives the address back; an error is only logged.
DeleteService(w, l) ==
    /\ pc[w] = "delete"
    /\ l \in dels[w]
    /\ \/ /\ isLeader
          /\ \/ /\ \/ Owned(l) = {} /\ UNCHANGED owner
                   \/ \E ip \in Owned(l) : owner' = [owner EXCEPT ![ip] = Free]
                /\ cache' = cache \ {l}
                /\ UNCHANGED faults
             \/ /\ StoreError
                /\ \/ UNCHANGED owner
                   \/ \E ip \in Owned(l) : owner' = [owner EXCEPT ![ip] = Free]
                /\ UNCHANGED cache
       \/ ~ isLeader /\ UNCHANGED <<owner, cache, faults>>
    /\ cur' = [cur EXCEPT ![w] = l]
    /\ pc' = [pc EXCEPT ![w] = "remove"]
    /\ UNCHANGED <<lbs, elem, maker, isLeader, disk, run, producer, event, todo,
                   dels, needReload, changes, peer, crashes>>

\* Seeded fault: the file of a deleted load balancer stays.
Removed_Kept(l) == conf

Removed(l) == [conf EXCEPT ![l] = Absent]

\* The rest of DeleteService: the file is removed if it is there.
Remove(w) ==
    /\ pc[w] = "remove"
    /\ conf' = Removed(cur[w])
    /\ Collect(w)
    /\ dels' = [dels EXCEPT ![w] = @ \ {cur[w]}]
    /\ pc' = [pc EXCEPT ![w] = "delete"]
    /\ UNCHANGED <<etcd, memory, toReload, hup, loaded, run, producer, event, todo,
                   cur, counters>>

\* The end of handlerEvent: keepalived.Reload, if a file has changed.
Reload(w) ==
    /\ pc[w] = "delete"
    /\ dels[w] = {}
    /\ toReload' = (toReload \/ needReload[w])
    /\ needReload' = [needReload EXCEPT ![w] = FALSE]
    /\ pc' = [pc EXCEPT ![w] = "idle"]
    /\ cur' = [cur EXCEPT ![w] = Absent]
    /\ event' = [event EXCEPT ![w] = Nothing]
    /\ UNCHANGED <<etcd, memory, conf, hup, loaded, run, producer, todo, dels,
                   counters>>

-----------------------------------------------------------------------------
(* keepalived.                                                             *)

\* Seeded fault: the flag is cleared though the signal was not sent.
reloadPeriod_Forgets ==
    /\ toReload
    /\ hup' \in {hup, TRUE}
    /\ toReload' = FALSE
    /\ UNCHANGED <<etcd, memory, conf, loaded, run, producer, consumer, counters>>

\* reloadPeriod: send the signal, and try again later if that fails.
reloadPeriod ==
    /\ toReload
    /\ \E ok \in BOOLEAN :
          /\ hup' = (hup \/ ok)
          /\ toReload' = ~ ok
    /\ UNCHANGED <<etcd, memory, conf, loaded, run, producer, consumer, counters>>

\* keepalived handles the signal and reads the files.
ReadFiles ==
    /\ hup
    /\ hup' = FALSE
    /\ loaded' = conf
    /\ UNCHANGED <<etcd, memory, conf, toReload, run, producer, consumer, counters>>

\* The process dies at any step; keepalived goes on.  It starts with what
\* ipam.Init finds in the store.
Crash ==
    /\ crashes < MaxCrashes
    /\ faults + crashes < MaxFailures
    /\ crashes' = crashes + 1
    /\ cache' = {l \in Lb : Owned(l) # {}}
    /\ elem' = Nothing
    /\ maker' = [l \in Lb |-> 0]
    /\ isLeader' = FALSE
    /\ toReload' = FALSE
    /\ role' = Each("none")
    /\ stop' = Each(FALSE)
    /\ at' = Each("off")
    /\ listed' = Each(Nothing)
    /\ armed' = Each(FALSE)
    /\ backlog' = Each(0)
    /\ pc' = Each("idle")
    /\ event' = Each(Nothing)
    /\ todo' = Each(Nothing)
    /\ cur' = Each(Absent)
    /\ dels' = Each({})
    /\ needReload' = Each(FALSE)
    /\ UNCHANGED <<etcd, conf, hup, loaded, changes, peer, faults>>

-----------------------------------------------------------------------------
User == \E l \in Lb :
    \/ \E c \in Ver \union {Invalid}, vip \in Addr \union {NoIP}, port \in GivesPort :
          UserPut(l, c, vip, port)
    \/ UserDelete(l)

Step(w) ==
    \/ List(w) \/ Watch(w) \/ NextEvent(w)
    \/ Receive(w) \/ Update(w) \/ Render(w) \/ handlerDelete(w) \/ Remove(w)
    \/ Reload(w)
    \/ \E l \in Lb : ConfigService(w, l) \/ DeleteService(w, l)

Next ==
    \/ User \/ PeerStep \/ Crash
    \/ \E w \in Watcher : Lead(w) \/ Follow(w) \/ StopLeading(w)
    \/ \E w \in Watcher : Step(w) \/ WatchError(w)
    \/ reloadPeriod \/ ReadFiles

Spec == Init /\ [][Next]_vars

(***************************************************************************)
(* The goroutines of the process and the keepalived daemon are scheduled,  *)
(* a signal can be sent at last, and the process is given a role.          *)
(***************************************************************************)
LiveSpec ==
    /\ Spec
    /\ \A w \in Watcher : WF_vars(Step(w))
    /\ WF_vars(reloadPeriod)
    /\ WF_vars(ReadFiles)
    /\ WF_vars(Lead(1))

-----------------------------------------------------------------------------
(* Properties.                                                             *)

(***************************************************************************)
(* As long as the process lives, no change of the files is forgotten: if   *)
(* keepalived runs another configuration, a consumer is going to ask for a *)
(* reload, the reload thread is going to send it, or it has been sent.     *)
(***************************************************************************)
ReloadOwed ==
    crashes = 0 /\ conf # loaded
        => toReload \/ hup \/ \E w \in Watcher : needReload[w]

(***************************************************************************)
(* What a leader serves it owns: the VIP in the file of a load balancer is *)
(* recorded for it, up to the steps in which a deletion is carried out.    *)
(* For a process with one watcher, while users leave the choice of the VIP *)
(* to the manager.                                                         *)
(***************************************************************************)
ServesOwned ==
    isLeader /\ crashes = 0 => \A l \in Lb :
        \/ conf[l] = Absent
        \/ owner[conf[l].vip] = l
        \/ \E w \in Watcher : l \in dels[w]

(***************************************************************************)
(* A process with one watcher keeps track of its files: Elem has the load  *)
(* balancer, so that its deletion is going to be seen, or the deletion is  *)
(* being carried out.                                                      *)
(***************************************************************************)
FilesTracked ==
    crashes = 0 => \A l \in Lb :
        conf[l] # Absent => elem[l] # Absent \/ \E w \in Watcher : l \in dels[w]

\* The watch has not had its first event and does not know of a change: one
\* between its first listing and its first request for an event.
Blind(w) ==
    /\ at[w] = "next"
    /\ ~ armed[w]
    /\ backlog[w] = 0
    /\ elem # lbs

\* A load balancer that cannot be served: its content is Invalid, or the VIP
\* it asks for belongs to another.
Refused(l) ==
    /\ lbs[l] # Absent
    /\ \/ lbs[l].ver = Invalid
       \/ lbs[l].vip # NoIP /\ owner[lbs[l].vip] \notin {Free, l}

\* keepalived runs what the directory says.
Settled == \A l \in Lb :
    \/ Refused(l)
    \/ conf[l] = lbs[l] /\ loaded[l] = lbs[l]

(***************************************************************************)
(* Once users are done, a leader that has not crashed ends up serving what *)
(* the directory says, with every VIP published in it, or its watch was    *)
(* blind to a change.                                                      *)
(***************************************************************************)
Converges ==
    <>[](isLeader /\ crashes = 0 /\ faults = 0 => Settled \/ \E w \in Watcher : Blind(w))

(***************************************************************************)
(* While etcd answers, a follower ends up serving every load balancer that *)
(* has a VIP and a port, published by the leader or given by a user, and   *)
(* none that is deleted, though it is told of each of them before it has   *)
(* both and refuses it then (checkValid).                                  *)
(***************************************************************************)
FollowerConverges ==
    <>[](~ isLeader /\ faults = 0 =>
                       \/ \E w \in Watcher : Blind(w)
                       \/ \A l \in Lb :
                             \/ conf[l] = lbs[l] /\ loaded[l] = lbs[l]
                             \/ lbs[l] # Absent /\ lbs[l].ver = Invalid
                             \/ lbs[l] # Absent /\ ~ checkValid(lbs[l]))

(***************************************************************************)
(* A leader gives back every address whose load balancer is deleted, in    *)
(* whatever step it has crashed before: Recover finds it in the store.     *)
(* This is for names without an "l4-": Recover takes any other for another *)
(* load balancer, and an address whose owner was deleted while no process  *)
(* ran stays taken.                                                        *)
(***************************************************************************)
NoLeak ==
    <>[](isLeader /\ faults = 0 =>
                     \/ \E w \in Watcher : Blind(w)
                     \/ \A ip \in Addr :
                           \/ owner[ip] = Free
                           \/ lbs[owner[ip]] # Absent
                           \/ stem[owner[ip]] # owner[ip])


(***************************************************************************)
(* README.md, "Create" and "Check": a load balancer made in etcd is among  *)
(* what ipvsadm lists on the leader, unless it is deleted or refused.      *)
(***************************************************************************)
CreatedIsServed ==
    \A l \in Lb :
        isLeader /\ lbs[l] # Absent
            ~> loaded[l] # Absent \/ lbs[l] = Absent \/ Refused(l) \/ ~ isLeader

=============================================================================
