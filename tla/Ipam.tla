-------------------------------- MODULE Ipam --------------------------------
(***************************************************************************)
(* The VIP address manager: ipam.RequireIP and ipam.ReleaseIP over the     *)
(* allocator and the etcd store (pkg/ipam).                                *)
(*                                                                         *)
(* Every etcd request is one step, so the check (IsExist) and the act      *)
(* (Write) of Store.Reserve are two.  Inside a process ipam.lock serialises *)
(* the calls; between processes nothing does, because Store.Lock and       *)
(* Store.Unlock are empty.  Callers are goroutines of the watch loop.  A   *)
(* request may fail, a failed write may or may not have been applied, and  *)
(* a process may die at any step and come back through ipam.Init.          *)
(***************************************************************************)
EXTENDS IPRange, FiniteSets

CONSTANTS
    Id,          \* "l4-" + name of a load balancer
    Thread,      \* the goroutines that call the package
    Proc,        \* the lbmanager processes
    procOf,      \* the process of a goroutine
    Request,     \* the addresses a load balancer may ask for
    Free,        \* no owner: the address has no key in etcd
    Nobody,      \* ipam.lock is not held
    MaxFaults    \* bound: failing etcd requests in a behaviour

ASSUME IpamAssumption ==
    /\ procOf \in [Thread -> Proc]
    /\ Request \subseteq Int
    /\ Free \notin Id
    /\ Nobody \notin Thread
    /\ NoIP \notin Id
    /\ MaxFaults \in Nat

VARIABLES
    owner,       \* etcd: ipam/<subnet>/<ip>, the id written there
    lastReserved,\* etcd: ipam/<subnet>/last_reserved_ip
    cache,       \* the keys of ipamCache, per process
    lock,        \* the goroutine that holds ipam.lock, per process
    pc,          \* the request a goroutine is about to send
    op,          \* the function it is in
    id,          \* its argument name
    reqIP,       \* its argument reqIP
    cur,         \* the address it probes, writes, deletes or returns
    endIP,       \* where its search ends
    status,      \* how the call ended
    faults       \* failed requests so far

store == <<owner, lastReserved>>
args  == <<op, id, reqIP>>
vars  == <<owner, lastReserved, cache, lock, pc, op, id, reqIP, cur, endIP,
           status, faults>>

Requests == {"exist", "relExist", "relDelete", "readLast", "check",
             "writeIP", "writeLast"}
Failures == {"error", "invalid", "taken", "full"}

TypeOK ==
    /\ owner \in [Addresses -> Id \union {Free}]
    /\ lastReserved \in Addresses \union {NoIP}
    /\ cache \in [Proc -> SUBSET (Id \union Addresses)]
    /\ lock \in [Proc -> Thread \union {Nobody}]
    /\ pc \in [Thread -> Requests \union {"idle", "done"}]
    /\ op \in [Thread -> {"none", "require", "release"}]
    /\ id \in [Thread -> Id \union {Free}]
    /\ \A t \in Thread : pc[t] # "idle" => id[t] \in Id
    /\ reqIP \in [Thread -> Request \union {NoIP}]
    /\ cur \in [Thread -> Addresses \union {NoIP}]
    /\ endIP \in [Thread -> Addresses \union {NoIP}]
    /\ status \in [Thread -> {"none", "ok"} \union Failures]
    /\ faults \in 0 .. MaxFaults

Init ==
    /\ owner = [ip \in Addresses |-> Free]
    /\ lastReserved = NoIP
    /\ cache = [p \in Proc |-> {}]
    /\ lock = [p \in Proc |-> Nobody]
    /\ pc = [t \in Thread |-> "idle"]
    /\ op = [t \in Thread |-> "none"]
    /\ id = [t \in Thread |-> Free]
    /\ reqIP = [t \in Thread |-> NoIP]
    /\ cur = [t \in Thread |-> NoIP]
    /\ endIP = [t \in Thread |-> NoIP]
    /\ status = [t \in Thread |-> "none"]
    /\ faults = 0

-----------------------------------------------------------------------------
(* Building blocks of the steps.                                           *)

Goto(t, label) == pc' = [pc EXCEPT ![t] = label]

\* The call returns to its caller; ipam.lock is released by the Return step.
Finish(t, s) ==
    /\ Goto(t, "done")
    /\ status' = [status EXCEPT ![t] = s]

\* A request fails: a timeout, a lost connection, an etcd error.
StoreError ==
    /\ faults < MaxFaults
    /\ faults' = faults + 1

\* Seeded fault: the first key of the listing is taken, whatever it holds.
Owned_Any(i) == {ip \in Addresses : owner[ip] # Free}

\* The keys that hold name i.  kvstore.Exist reports the first of the
\* listing; its order, that of the keys as strings, is left open.
Owned(i) == {ip \in Addresses : owner[ip] = i}

(***************************************************************************)
(* The head of IPAllocator.Get.  A requested address is validated and then *)
(* probed; without one the search range is read first.                     *)
(***************************************************************************)
StartGet(t) ==
    \/ /\ reqIP[t] = NoIP
       /\ Goto(t, "readLast")
       /\ UNCHANGED <<cur, status>>
    \/ /\ reqIP[t] # NoIP
       /\ validateRangeIP(reqIP[t])
       /\ Goto(t, "check")
       /\ cur' = [cur EXCEPT ![t] = reqIP[t]]
       /\ UNCHANGED status
    \/ /\ reqIP[t] # NoIP
       /\ ~ validateRangeIP(reqIP[t])
       /\ Finish(t, "invalid")
       /\ UNCHANGED cur

\* Seeded fault: the name keeps its old address when it asks for another.
Move_KeepOld(t) == StartGet(t)

\* RequireIP gives the old address back before it gets the requested one.
Move(t) == Goto(t, "relExist") /\ UNCHANGED <<cur, status>>

(***************************************************************************)
(* What follows IPAllocator.Release: ReleaseIP returns its error or drops  *)
(* the name from ipamCache, RequireIP goes on to Get whatever the error.   *)
(***************************************************************************)
AfterRelease(t, err) ==
    \/ /\ op[t] = "require"
       /\ StartGet(t)
       /\ UNCHANGED cache
    \/ /\ op[t] = "release"
       /\ Finish(t, IF err THEN "error" ELSE "ok")
       /\ cache' = IF err THEN cache
                   ELSE [cache EXCEPT ![procOf[t]] = @ \ {id[t]}]
       /\ UNCHANGED cur

-----------------------------------------------------------------------------
(* Calls.                                                                  *)

\* Seeded fault: the call does not wait for ipam.lock.
Lock_Unguarded(t) ==
    /\ pc[t] = "idle"
    /\ lock' = [lock EXCEPT ![procOf[t]] = t]

Lock(t) ==
    /\ pc[t] = "idle"
    /\ lock[procOf[t]] = Nobody
    /\ lock' = [lock EXCEPT ![procOf[t]] = t]

RequireIP(t, i, r) ==
    /\ Lock(t)
    /\ Goto(t, "exist")
    /\ op' = [op EXCEPT ![t] = "require"]
    /\ id' = [id EXCEPT ![t] = i]
    /\ reqIP' = [reqIP EXCEPT ![t] = r]
    /\ UNCHANGED <<store, cache, cur, endIP, status, faults>>

ReleaseIP(t, i) ==
    /\ Lock(t)
    /\ Goto(t, "relExist")
    /\ op' = [op EXCEPT ![t] = "release"]
    /\ id' = [id EXCEPT ![t] = i]
    /\ UNCHANGED <<store, cache, reqIP, cur, endIP, status, faults>>

Return(t) ==
    /\ pc[t] = "done"
    /\ Goto(t, "idle")
    /\ lock' = [lock EXCEPT ![procOf[t]] = Nobody]
    /\ op' = [op EXCEPT ![t] = "none"]
    /\ id' = [id EXCEPT ![t] = Free]
    /\ reqIP' = [reqIP EXCEPT ![t] = NoIP]
    /\ cur' = [cur EXCEPT ![t] = NoIP]
    /\ endIP' = [endIP EXCEPT ![t] = NoIP]
    /\ status' = [status EXCEPT ![t] = "none"]
    /\ UNCHANGED <<store, cache, faults>>

-----------------------------------------------------------------------------
(* The etcd requests, in the order a call sends them.                      *)

\* RequireIP looks the name up: keep its address, move it, or get one.
Exist(t) ==
    /\ pc[t] = "exist"
    /\ \/ \E ip \in Owned(id[t]) :
             /\ reqIP[t] \in {NoIP, ip}
             /\ cur' = [cur EXCEPT ![t] = ip]
             /\ Finish(t, "ok")
             /\ UNCHANGED faults
       \/ \E ip \in Owned(id[t]) :
             /\ reqIP[t] \notin {NoIP, ip}
             /\ Move(t)
             /\ UNCHANGED faults
       \/ /\ Owned(id[t]) = {}
          /\ StartGet(t)
          /\ UNCHANGED faults
       \/ /\ StoreError
          /\ Finish(t, "error")
          /\ UNCHANGED cur
    /\ UNCHANGED <<store, cache, lock, args, endIP>>

\* Store.ReleaseByID looks the name up again.
RelExist(t) ==
    /\ pc[t] = "relExist"
    /\ \/ \E ip \in Owned(id[t]) :
             /\ cur' = [cur EXCEPT ![t] = ip]
             /\ Goto(t, "relDelete")
             /\ UNCHANGED <<cache, status, faults>>
       \/ /\ Owned(id[t]) = {}
          /\ AfterRelease(t, FALSE)
          /\ UNCHANGED faults
       \/ /\ StoreError
          /\ AfterRelease(t, TRUE)
    /\ UNCHANGED <<store, lock, args, endIP>>

\* Store.Release deletes that one key, whoever owns it by now.
RelDelete(t) ==
    /\ pc[t] = "relDelete"
    /\ \/ /\ owner[cur[t]] # Free
          /\ owner' = [owner EXCEPT ![cur[t]] = Free]
          /\ AfterRelease(t, FALSE)
          /\ UNCHANGED faults
       \/ /\ owner[cur[t]] = Free           \* ErrKeyNotFound
          /\ AfterRelease(t, TRUE)
          /\ UNCHANGED <<owner, faults>>
       \/ /\ StoreError
          /\ owner' \in {owner, [owner EXCEPT ![cur[t]] = Free]}
          /\ AfterRelease(t, TRUE)
    /\ UNCHANGED <<lastReserved, lock, args, endIP>>

\* getSearchRange; an error other than "not found" means the whole range.
ReadLast(t) ==
    /\ pc[t] = "readLast"
    /\ \E last \in {lastReserved, NoIP} :
          /\ last # lastReserved => StoreError
          /\ last = lastReserved => UNCHANGED faults
          /\ cur' = [cur EXCEPT ![t] = getSearchRange(last).first]
          /\ endIP' = [endIP EXCEPT ![t] = getSearchRange(last).end]
    /\ Goto(t, "check")
    /\ UNCHANGED <<store, cache, lock, args, status>>

\* The test of Store.Reserve and the loop of IPAllocator.Get around it.
Check(t) ==
    /\ pc[t] = "check"
    /\ \/ /\ owner[cur[t]] = Free
          /\ Goto(t, "writeIP")
          /\ UNCHANGED <<cur, status, faults>>
       \/ /\ owner[cur[t]] # Free
          /\ reqIP[t] # NoIP
          /\ Finish(t, "taken")
          /\ UNCHANGED <<cur, faults>>
       \/ /\ owner[cur[t]] # Free
          /\ reqIP[t] = NoIP
          /\ cur[t] = endIP[t]
          /\ Finish(t, "full")
          /\ UNCHANGED <<cur, faults>>
       \/ /\ owner[cur[t]] # Free
          /\ reqIP[t] = NoIP
          /\ cur[t] # endIP[t]
          /\ cur' = [cur EXCEPT ![t] = nextIP(cur[t])]
          /\ UNCHANGED <<pc, status, faults>>
       \/ /\ StoreError
          /\ Finish(t, "error")
          /\ UNCHANGED cur
    /\ UNCHANGED <<store, cache, lock, args, endIP>>

\* The first write of Store.Reserve: an unconditional Put.
WriteIP(t) ==
    /\ pc[t] = "writeIP"
    /\ \/ /\ owner' = [owner EXCEPT ![cur[t]] = id[t]]
          /\ Goto(t, "writeLast")
          /\ UNCHANGED <<status, faults>>
       \/ /\ StoreError
          /\ owner' \in {owner, [owner EXCEPT ![cur[t]] = id[t]]}
          /\ Finish(t, "error")
    /\ UNCHANGED <<lastReserved, cache, lock, args, cur, endIP>>

\* The second write; on success RequireIP records the name in ipamCache.
WriteLast(t) ==
    /\ pc[t] = "writeLast"
    /\ \/ /\ lastReserved' = cur[t]
          /\ cache' = [cache EXCEPT ![procOf[t]] = @ \union {id[t]}]
          /\ Finish(t, "ok")
          /\ UNCHANGED faults
       \/ /\ StoreError
          /\ lastReserved' \in {lastReserved, cur[t]}
          /\ Finish(t, "error")
          /\ UNCHANGED cache
    /\ UNCHANGED <<owner, lock, args, cur, endIP>>

\* Seeded fault: the owners found in the store are not recovered.
Recover_LastOnly == {lastReserved} \ {NoIP}

(***************************************************************************)
(* Store.Recover: the values found under the subnet.  A listed key is a    *)
(* full path, so the comparison with "last_reserved_ip" never matches and  *)
(* the address stored there becomes a key of ipamCache as well.            *)
(***************************************************************************)
Recover ==
    {owner[ip] : ip \in {a \in Addresses : owner[a] # Free}}
        \union ({lastReserved} \ {NoIP})

\* The process dies, with its goroutines and its lock, and runs Init again.
Restart(p) ==
    /\ cache' = [cache EXCEPT ![p] = Recover]
    /\ lock' = [lock EXCEPT ![p] = Nobody]
    /\ LET Reset(f, v) == [t \in Thread |-> IF procOf[t] = p THEN v ELSE f[t]]
       IN  /\ pc' = Reset(pc, "idle")
           /\ op' = Reset(op, "none")
           /\ id' = Reset(id, Free)
           /\ reqIP' = Reset(reqIP, NoIP)
           /\ cur' = Reset(cur, NoIP)
           /\ endIP' = Reset(endIP, NoIP)
           /\ status' = Reset(status, "none")
    /\ UNCHANGED <<store, faults>>

-----------------------------------------------------------------------------
Call(t) == \E i \in Id :
    \/ \E r \in Request \union {NoIP} : RequireIP(t, i, r)
    \/ ReleaseIP(t, i)

Step(t) ==
    \/ Exist(t)    \/ RelExist(t)  \/ RelDelete(t)
    \/ ReadLast(t) \/ Check(t)     \/ WriteIP(t)    \/ WriteLast(t)
    \/ Return(t)

Next ==
    \/ \E t \in Thread : Call(t) \/ Step(t)
    \/ \E p \in Proc : Restart(p)

Spec == Init /\ [][Next]_vars

-----------------------------------------------------------------------------
(* Properties.  Most are about the goroutines of one process, whose lock   *)
(* makes the two-request Reserve safe; SearchAdvances and the two that     *)
(* quote the code's comments are about any number of processes.            *)

OneProcess == \E p : Proc = {p}

(***************************************************************************)
(* Every address RequireIP reports is, when the call returns, recorded in  *)
(* etcd for the name that asked: the check and the write of Store.Reserve  *)
(* were not separated by another goroutine's.                              *)
(***************************************************************************)
OwnedOnReturn ==
    \A t \in Thread :
        pc[t] = "done" /\ op[t] = "require" /\ status[t] = "ok"
            => owner[cur[t]] = id[t]

(***************************************************************************)
(* A step frees an address only on behalf of the name it belongs to: what  *)
(* Store.ReleaseByID deletes is still the caller's when the delete is sent. *)
(***************************************************************************)
FreesOwnAddress ==
    [][\A ip \in Addresses : owner[ip] # Free /\ owner'[ip] = Free =>
          \E t \in Thread : pc[t] = "relDelete" /\ id[t] = owner[ip]]_vars

(***************************************************************************)
(* A refusal is true.  "No IP addresses available" is only said when every *)
(* address has an owner (the wrap-around search of IPAllocator.Get missed  *)
(* none), and, as long as no request failed, "requested IP address is not  *)
(* available" only when another name has it.                               *)
(***************************************************************************)
RefusalsTrue ==
    \A t \in Thread : pc[t] = "done" =>
        /\ status[t] = "full" => \A ip \in Addresses : owner[ip] # Free
        /\ status[t] = "taken" /\ faults = 0
              => owner[reqIP[t]] \notin {Free, id[t]}

(***************************************************************************)
(* While etcd answers, a name has one address: RequireIP gives the old one *)
(* back before it takes the requested one, across crashes at any request.  *)
(***************************************************************************)
AtMostOneAddress ==
    faults = 0 => \A a, b \in Addresses :
        owner[a] = owner[b] /\ owner[a] # Free => a = b

(***************************************************************************)
(* While etcd answers, ipamCache names every owner whenever no call is in  *)
(* progress: LVSImpl.Recover finds in it all the addresses that deletions  *)
(* missed by the watch have to give back.                                  *)
(***************************************************************************)
CacheComplete ==
    faults = 0 => \A p \in Proc :
        lock[p] = Nobody => \A ip \in Addresses :
            owner[ip] # Free => owner[ip] \in cache[p]

(***************************************************************************)
(* Addresses are assigned and freed, never taken over: Ipam implements the *)
(* abstract pool.                                                          *)
(***************************************************************************)
AP == INSTANCE AddressPool WITH Pool <- Addresses
RefinesAddressPool == AP!Spec

(***************************************************************************)
(* A search ends, whatever the other goroutines and processes write to the *)
(* store while it runs: each further probe of IPAllocator.Get is nearer to *)
(* the end address getSearchRange gave it, around the wrap of nextIP, so   *)
(* the loop that only stops when cur equals that address stops.            *)
(***************************************************************************)
Distance(from, to) == (to - from) % (rangeEnd - rangeStart + 1)

SearchAdvances ==
    [][\A t \in Thread : pc[t] = "check" /\ pc'[t] = "check" /\ cur'[t] # cur[t] =>
          Distance(cur'[t], endIP'[t]) < Distance(cur[t], endIP[t])]_vars

(***************************************************************************)
(* allocator.go says of IPAllocator.Release that it "Releases all IPs      *)
(* allocated for the container with given ID".                             *)
(***************************************************************************)
ReleasesAll ==
    \A t \in Thread :
        pc[t] = "done" /\ op[t] = "release" /\ status[t] = "ok"
            => Owned(id[t]) = {}

(***************************************************************************)
(* allocator.go says of IPAllocator.Get that it "Returns newly allocated   *)
(* IP": no two names are given the same address at the same time.          *)
(***************************************************************************)
NewlyAllocated ==
    LET Granted(t) == pc[t] = "done" /\ op[t] = "require" /\ status[t] = "ok"
    IN  \A s, t \in Thread :
            Granted(s) /\ Granted(t) /\ cur[s] = cur[t] => id[s] = id[t]

=============================================================================
