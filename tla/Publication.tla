---------------------------- MODULE Publication ----------------------------
(***************************************************************************)
(* The content of one L4 load balancer on its way from the user to the     *)
(* files: parsed over the defaults, validated, given an address and a port *)
(* by the leader, written back to etcd, parsed again by every process and  *)
(* rendered.                                                               *)
(*                                                                         *)
(* In every process a producer lists the directory, ahead of the consumer  *)
(* that handles the listings: the one it handles may be older than what    *)
(* etcd has.  Lbm has the interleavings inside an event; here handling a   *)
(* listing is one step and the data is complete.  Every write of the key   *)
(* is an event for every process.                                          *)
(***************************************************************************)
EXTENDS Validation

CONSTANTS
    Proc,         \* the processes
    Configs,      \* the texts lb.conf may have
    Requests,     \* the objects users may write first, second and so on
    Key,          \* the last part of the key
    Highest,      \* the last address there is, 255.255.255.255
    Absent,       \* no value
    MaxChanges,   \* bound: writes of users
    MaxFailures   \* bound: failing requests, restarts and changes of role

\* The allocator's range in the configured subnet.
R(c) == INSTANCE IPRange WITH SubnetIP <- c.SubnetCIDR.ip,
                              SubnetSize <- c.SubnetCIDR.size,
                              NoIP <- Absent

\* NewIPAllocator: a /31 or a /32 is too small.
NewIPAllocator(c) == c.SubnetCIDR.size >= 4

\* The written address leaves one to hand out: it is neither the last host
\* nor the broadcast address.  The code does not test it.
HasRange(c) == R(c)!rangeStart <= R(c)!rangeEnd

\* What users write has the types json.Unmarshal asks for; no value is
\* neither an object nor its JSON text.
ASSUME PublicationAssumption ==
    /\ \A text \in Configs : Unmarshal(text, LBConf) \in LBConfs
    /\ DOMAIN Requests = 1 .. MaxChanges
    /\ \A n \in 1 .. MaxChanges : \A json \in Requests[n] :
          /\ Unmarshal(json, NewLVS) \in LVS
          /\ DOMAIN json \subseteq DOMAIN NewLVS
    /\ Absent \notin LVS
    /\ \A S \in SUBSET DOMAIN NewLVS :
          Absent \notin [S -> Names \union Int \union BOOLEAN \union Backends]
    /\ Absent \notin Proc
    /\ Highest \in Nat
    /\ {MaxChanges, MaxFailures} \subseteq Nat

VARIABLES
    conf,       \* conf.conf, the same on every host; Absent: not read yet
    stored,     \* etcd: the object under Key
    byManager,  \* the manager was the last to write it
    owned,      \* the addresses ipam has for the load balancer
    leader,     \* the process that leads; Absent: none
    event,      \* the processes with an event since their last listing
    listings,   \* the listings at the consumer and at the producer, per process
    elem,       \* Elem[Key], per process
    file,       \* the file of the load balancer, per process
    changes,    \* writes of users
    puts,       \* writes of the manager
    ipamFaults, putFaults,   \* failing requests: of ipam, writes of the object
    restarts, takeovers      \* of processes; changes of role without a restart

etcd     == <<stored, byManager>>
counters == <<changes, puts, ipamFaults, putFaults, restarts, takeovers>>
vars == <<conf, etcd, owned, leader, event, listings, elem, file, counters>>

Init ==
    /\ conf = Absent
    /\ stored = Absent
    /\ byManager = FALSE
    /\ owned = {}
    /\ leader \in Proc
    /\ event = Proc
    /\ listings = [p \in Proc |-> <<>>]
    /\ elem = [p \in Proc |-> Absent]
    /\ file = [p \in Proc |-> Absent]
    /\ changes = 0 /\ puts = 0
    /\ ipamFaults = 0 /\ putFaults = 0
    /\ restarts = 0 /\ takeovers = 0

\* conf.Init and ipam.Init; an error of either ends the process.  Only type
\* "l4" makes it an LVSImpl.
ReadConf(text) ==
    /\ conf = Absent
    /\ conf' = Unmarshal(text, LBConf)
    /\ LBConfCheckValid(conf')
    /\ conf'.Type = "l4"
    /\ NewIPAllocator(conf')
    /\ UNCHANGED <<etcd, owned, leader, event, listings, elem, file, counters>>

\* The bound on what goes wrong.
MayFail == ipamFaults + putFaults + restarts + takeovers < MaxFailures

UserPut(json) ==
    /\ conf # Absent
    /\ changes < MaxChanges
    /\ json \in Requests[changes + 1]
    /\ changes' = changes + 1
    /\ stored' = json
    /\ byManager' = FALSE
    /\ event' = Proc
    /\ UNCHANGED <<conf, owned, leader, listings, elem, file, puts, ipamFaults,
                   putFaults, restarts, takeovers>>

(***************************************************************************)
(* WatchTree lists the directory after every event in it, those of other   *)
(* keys too.  It may be one listing ahead of the one that is handled.      *)
(***************************************************************************)
List(p) ==
    /\ conf # Absent
    /\ Len(listings[p]) < 2
    /\ listings' = [listings EXCEPT ![p] = Append(@, stored)]
    /\ event' = event \ {p}
    /\ UNCHANGED <<conf, etcd, owned, leader, elem, file, counters>>

-----------------------------------------------------------------------------
(* Parse and the tests of handlerAddOrUpdate.                              *)

Parses(l, g) ==
    /\ Validate(l, g)
    /\ l.ClusterName = conf.ClusterName
    /\ l.Name = Key

\* What parsing a listed object may yield; Absent when it is skipped.
Parsed(json) ==
    IF json = Absent THEN {Absent}
    ELSE LET l == Unmarshal(json, NewLVS)
         IN  {IF Parses(l, g) THEN Validated(l) ELSE Absent :
                 g \in Lookups(conf, l.Servers)}

-----------------------------------------------------------------------------
(* ConfigService.                                                          *)

\* Text of a file that is no number.
Garbled == -1

(***************************************************************************)
(* renderTemplate and lvsTmpl: the values the file is made of.  In an HTTP *)
(* check the delay is not an action of the template ("{$monitor.Delay}}"), *)
(* so the file has that text.                                              *)
(***************************************************************************)
Rendered(l) ==
    {[LAddrGroup |-> g,
      lvs |-> [l EXCEPT !.Strategy = IF @ = "" THEN "rr" ELSE @,
                        !.Kind = IF @ = "" THEN "FNAT" ELSE @,
                        !.Delay = IF l.Check = "HTTP" /\ l.Servers # <<>>
                                  THEN Garbled ELSE @]] :
        g \in IF l.Servers = <<>> THEN {""}
              ELSE GetLAddrGroupName(conf, l.Servers[1].IP)}

(***************************************************************************)
(* The addresses IPAllocator.Get may reserve; any of them may belong to    *)
(* another load balancer.  In a range without addresses the search passes  *)
(* the end it never meets.                                                 *)
(***************************************************************************)
Gettable(vip) ==
    IF vip # NoIP THEN {ip \in {vip} : R(conf)!validateRangeIP(ip)}
    ELSE IF HasRange(conf) THEN R(conf)!Addresses
    ELSE R(conf)!rangeStart .. Highest

\* The addresses the load balancer has that RequireIP gives back one of.
Other(vip) == {ip \in owned : vip \notin {NoIP, ip}}

\* What it has after that, if it has any.
GivenBack(vip) == IF owned = {} THEN {owned} ELSE {owned \ {ip} : ip \in Other(vip)}

(***************************************************************************)
(* RequireIP answers with ip; NoIP is an error.  A lookup that fails       *)
(* leaves the address where it is, a release that fails is ignored, and a  *)
(* reservation that fails may have been made.                              *)
(***************************************************************************)
RequireIP(vip, ip) ==
    \/ /\ ip \in owned /\ vip \in {NoIP, ip}
       /\ UNCHANGED <<owned, ipamFaults>>
    \/ \E left \in GivenBack(vip) \union {owned} :
          /\ \/ left \in GivenBack(vip) /\ UNCHANGED ipamFaults
             \/ Other(vip) # {} /\ MayFail /\ ipamFaults' = ipamFaults + 1
          /\ \/ ip \in Gettable(vip) \ left /\ owned' = left \union {ip}
             \/ ip = NoIP /\ owned' = left
    \/ /\ ip = NoIP
       /\ MayFail /\ ipamFaults' = ipamFaults + 1
       /\ \/ UNCHANGED owned
          \/ owned' \in GivenBack(vip)
          \/ \E left \in GivenBack(vip) : \E a \in Gettable(vip) \ left :
                owned' = left \union {a}

\* Seeded fault: the port is taken from the whole address.
Allocated_WholeIP(l, ip) ==
    [l EXCEPT !.VIP = ip,
              !.Port = IF @ = 0 THEN conf.PortBase + ip ELSE @]

\* allocVIP: the object with its address and, if it has none, a port.
Allocated(l, ip) ==
    [l EXCEPT !.VIP = ip,
              !.Port = IF @ = 0 THEN conf.PortBase + (ip % 256) ELSE @]

\* Seeded fault: the object is written whether or not it has changed.
NeedsUpdate_Always(l, lvs) == TRUE

\* Seeded fault: a new port alone is not written.
NeedsUpdate_VIPOnly(l, lvs) == lvs.VIP # l.VIP

NeedsUpdate(l, lvs) == lvs.VIP # l.VIP \/ lvs.Port # l.Port

\* LVS.Update.
Put(lvs) ==
    /\ stored' = Marshal(lvs)
    /\ byManager' = TRUE
    /\ event' = Proc

\* The leader handles object l: Elem has it with what allocVIP has set.
Lead(p, l) == \E ip \in owned \union Gettable(l.VIP) \union {NoIP} :
    LET lvs == Allocated(l, ip)
        Renders == \E f \in Rendered(lvs) : file' = [file EXCEPT ![p] = f]
    IN
    /\ RequireIP(l.VIP, ip)
    /\ elem' = [elem EXCEPT ![p] = IF ip = NoIP THEN l ELSE lvs]
    /\ \/ /\ ip = NoIP
          /\ UNCHANGED <<etcd, event, file, puts, putFaults>>
       \/ /\ ip # NoIP /\ ~ NeedsUpdate(l, lvs)
          /\ Renders
          /\ UNCHANGED <<etcd, event, puts, putFaults>>
       \/ /\ ip # NoIP /\ NeedsUpdate(l, lvs)
          /\ puts' = puts + 1
          /\ Put(lvs)
          /\ Renders
          /\ UNCHANGED putFaults
       \/ /\ ip # NoIP /\ NeedsUpdate(l, lvs)
          /\ puts' = puts + 1
          /\ ipamFaults' + putFaults + restarts + takeovers < MaxFailures
          /\ putFaults' = putFaults + 1
          /\ Put(lvs) \/ UNCHANGED <<etcd, event>>
          /\ UNCHANGED file

\* Seeded fault: the port is not looked at.
checkValid_VIPOnly(l) == l.VIP # NoIP

\* A follower serves what has an address and a port.
checkValid(l) == l.VIP # NoIP /\ l.Port # 0

Follow(p, l) ==
    /\ elem' = [elem EXCEPT ![p] = l]
    /\ \/ ~ checkValid(l) /\ UNCHANGED file
       \/ /\ checkValid(l)
          /\ \E f \in Rendered(l) : file' = [file EXCEPT ![p] = f]
    /\ UNCHANGED <<etcd, owned, event, puts, ipamFaults, putFaults>>

Skip == UNCHANGED <<etcd, owned, event, elem, file, puts, ipamFaults, putFaults>>

\* handlerAddOrUpdate for the one key, of the listing the consumer is at.
Handle(p) ==
    /\ listings[p] # <<>>
    /\ listings' = [listings EXCEPT ![p] = Tail(@)]
    /\ \E l \in Parsed(Head(listings[p])) :
          \/ l \in {Absent, elem[p]} /\ Skip
          \/ l \notin {Absent, elem[p]} /\ p = leader /\ Lead(p, l)
          \/ l \notin {Absent, elem[p]} /\ p # leader /\ Follow(p, l)
    /\ UNCHANGED <<conf, leader, changes, restarts, takeovers>>

\* Who leads when p has been given a role.
Leaders(p) == {p, IF p = leader THEN Absent ELSE leader}

\* A process restarts and is given a role: a new watcher lists the directory.
Restart(p) ==
    /\ conf # Absent
    /\ MayFail
    /\ restarts' = restarts + 1
    /\ elem' = [elem EXCEPT ![p] = Absent]
    /\ listings' = [listings EXCEPT ![p] = <<>>]
    /\ leader' \in Leaders(p)
    /\ event' = event \union {p}
    /\ UNCHANGED <<conf, etcd, owned, file, changes, puts, ipamFaults, putFaults,
                   takeovers>>

\* A process is given another role: Recover overwrites what Elem has if
\* ipamCache has the name, and the watcher of the new role lists the
\* directory.  What the earlier one had listed is handled before that.
NewRole(p) ==
    /\ conf # Absent
    /\ MayFail
    /\ takeovers' = takeovers + 1
    /\ elem' \in {elem, [elem EXCEPT ![p] = Absent]}
    /\ leader' \in Leaders(p) \ (IF p = leader THEN {p} ELSE {})
    /\ event' = event \union {p}
    /\ UNCHANGED <<conf, etcd, owned, listings, file, changes, puts, ipamFaults,
                   putFaults, restarts>>

Next ==
    \/ \E text \in Configs : ReadConf(text)
    \/ \E n \in 1 .. MaxChanges : \E json \in Requests[n] : UserPut(json)
    \/ \E p \in Proc : List(p) \/ Handle(p) \/ Restart(p) \/ NewRole(p)

Spec == Init /\ [][Next]_vars

-----------------------------------------------------------------------------
(* Properties.                                                             *)

\* What a file is made of; its load balancer has an address and a port.
Files ==
    {f \in [LAddrGroup : STRING, lvs : LVS] : ParseIP(f.lvs.VIP) /\ f.lvs.Port > 0}

\* What may be under the key: nothing, or a text of the types json asks for.
Text(json) ==
    \/ json = Absent
    \/ /\ DOMAIN json \subseteq DOMAIN NewLVS
       /\ Unmarshal(json, NewLVS) \in LVS

TypeOK ==
    /\ conf \in LBConfs \union {Absent}
    /\ Text(stored)
    /\ byManager \in BOOLEAN
    /\ owned \subseteq Nat \ {NoIP}
    /\ leader \in Proc \union {Absent}
    /\ event \subseteq Proc
    /\ \A p \in Proc : \A i \in DOMAIN listings[p] : Text(listings[p][i])
    /\ elem \in [Proc -> LVS \union {Absent}]
    /\ file \in [Proc -> Files \union {Absent}]
    /\ {changes, puts, ipamFaults, putFaults, restarts, takeovers} \subseteq Nat

(***************************************************************************)
(* The addresses ipam has for the load balancer, and the one the manager   *)
(* publishes, are hosts of the configured subnet whether or not a user has *)
(* asked for them: not the network's, not the broadcast address, not the   *)
(* one the CIDR gives.  This is so unless the CIDR is written with its     *)
(* last host or broadcast address, which the allocator accepts and then    *)
(* hands out addresses outside the subnet.  It says nothing of an address  *)
(* that a user wrote and no leader has looked at: a follower serves that.  *)
(***************************************************************************)
Host(ip) ==
    LET cidr == conf.SubnetCIDR
        net  == cidr.ip - (cidr.ip % cidr.size)
    IN  net < ip /\ ip < net + cidr.size - 1 /\ ip # cidr.ip

HostVIP ==
    conf # Absent /\ HasRange(conf) =>
        /\ \A ip \in owned : Host(ip)
        /\ byManager => Host(Unmarshal(stored, NewLVS).VIP)

(***************************************************************************)
(* What the manager writes into etcd it accepts when it reads it: the      *)
(* port allocVIP has chosen passes LVS.CheckPort ("lb virtual port %d is   *)
(* invalid"), and no field is lost by "omitempty" that Validate asks for.  *)
(* It depends on a portBase that leaves room for the last byte of every    *)
(* address, which the code does not test, and on groups that do not        *)
(* overlap, or else one lookup may accept what another refuses.            *)
(***************************************************************************)
Disjoint ==
    \A g, h \in laddr(conf) : g # h => g.DestCIDR \intersect h.DestCIDR = {}

PublishedIsValid ==
    byManager /\ conf.PortBase + 255 <= 65535 /\ Disjoint => Absent \notin Parsed(stored)

(***************************************************************************)
(* The servers of a file are all in the destination network of the local   *)
(* address group the file names (Validate: "backend server is not in same  *)
(* cidr"), if no address is in two of them: Validate and the rendering     *)
(* look the group up separately.                                           *)
(***************************************************************************)
ServersInGroup ==
    \A p \in Proc : file[p] # Absent /\ Disjoint =>
        \A i \in DOMAIN file[p].lvs.Servers :
            \E g \in laddr(conf) :
                /\ g.Name = file[p].LAddrGroup
                /\ file[p].lvs.Servers[i].IP \in g.DestCIDR

(***************************************************************************)
(* The manager's writes are events of the directory it watches.  They do   *)
(* not feed on each other: a write of a user causes two of the manager at  *)
(* most, one for the listing its leader handles and one for an older one   *)
(* that the producer holds by then, and a failed write one more.  This is  *)
(* over restarts, which may give the role to another process; a process    *)
(* that changes its role while it runs has listings of its earlier watcher *)
(* besides.                                                                *)
(***************************************************************************)
PutsBounded == takeovers = 0 => puts <= 2 * changes + putFaults

(***************************************************************************)
(* When every process has handled its events, and no request has failed,   *)
(* all have the same file for an object the leader has given its address,  *)
(* the one rendered from what etcd has, whatever older listings they have  *)
(* handled before it: defaults, Marshal and Parse lose nothing on the way  *)
(* from the leader to the followers.  Within a term: a leader that was     *)
(* refused the address does not try again when, under its successor, the   *)
(* address is free.                                                        *)
(***************************************************************************)
Quiet ==
    /\ event = {} /\ \A p \in Proc : listings[p] = <<>>
    /\ ipamFaults = 0 /\ putFaults = 0
    /\ restarts = 0 /\ takeovers = 0

Agreement ==
    Quiet /\ stored # Absent /\ Absent \notin Parsed(stored)
        => \/ Unmarshal(stored, NewLVS).VIP \notin owned
           \/ \A p \in Proc : \E o \in Parsed(stored) : file[p] \in Rendered(o)

=============================================================================
