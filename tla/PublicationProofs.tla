------------------------- MODULE PublicationProofs -------------------------
(***************************************************************************)
(* Proofs about Publication, for any processes, configurations, objects    *)
(* and bounds: what json, the defaults and the checks do to the fields of  *)
(* an object, and the invariants that rest on it.                          *)
(***************************************************************************)
EXTENDS Publication, SequenceTheorems, TLAPS

\* The fields of an object.
Fields ==
    {"Type", "Name", "ClusterName", "Protocol", "VIP", "Port", "Strategy",
     "Kind", "PersistenceTimeout", "SynProxy", "BPSLimit", "CPSLimit", "Check",
     "URLPath", "StatusCode", "Interval", "Timeout", "MaxRetries", "Delay",
     "Servers"}

\* A text as json.Unmarshal gives it to Parse.
Read(json) == Unmarshal(json, NewLVS)

\* A configuration that has been read is one ipam and LVSImpl accept.
ConfInv ==
    conf # Absent =>
        /\ LBConfCheckValid(conf)
        /\ conf.Type = "l4"
        /\ NewIPAllocator(conf)

\* Before it is read nothing has happened.
EmptyInv ==
    conf = Absent =>
        /\ stored = Absent /\ ~ byManager /\ owned = {}
        /\ \A p \in Proc : /\ elem[p] = Absent /\ file[p] = Absent
                           /\ listings[p] = <<>>

\* What ipam has are addresses of the configured range, if there is one, and
\* so is what the manager has written.
OwnedInv ==
    HasRange(conf) =>
        /\ owned \subseteq R(conf)!Addresses
        /\ byManager => stored # Absent /\ Read(stored).VIP \in R(conf)!Addresses

\* The listings of a process: none, one at its consumer, one more at its
\* producer.
Short(s) == s = <<>> \/ (\E a : s = <<a>>) \/ (\E a, b : s = <<a, b>>)

ListInv ==
    /\ listings = [p \in Proc |-> listings[p]]
    /\ \A p \in Proc : Short(listings[p])

CoreInv == TypeOK /\ ConfInv /\ EmptyInv /\ OwnedInv /\ ListInv

\* The leader that handles this text writes the object: it has no address or
\* no port.
Unclean(json) == json # Absent /\ (Read(json).VIP = NoIP \/ Read(json).Port = 0)

One(json) == IF Unclean(json) THEN 1 ELSE 0

\* How many of some listings are such texts.
Due(s) == (IF 1 \in DOMAIN s THEN One(s[1]) ELSE 0)
          + (IF 2 \in DOMAIN s THEN One(s[2]) ELSE 0)

\* The writes still to come: two if etcd has such a text, else one for every
\* such listing the leader has.
Potential ==
    IF Unclean(stored) THEN 2
    ELSE IF leader \in Proc THEN Due(listings[leader]) ELSE 0

\* They are counted with those that have been made.
OnceInv == takeovers = 0 => puts + Potential <= 2 * changes + putFaults

\* The servers of a file have been found in one group, and the file names a
\* group the first of them is in.
FileInv ==
    \A p \in Proc : file[p] # Absent =>
        LET s == file[p].lvs.Servers
        IN  /\ s # <<>> => file[p].LAddrGroup \in GetLAddrGroupName(conf, s[1].IP)
            /\ \E g \in Lookups(conf, s) : SameGroup(g)

\* Nothing has failed, no process has restarted or changed its role.
Calm == ipamFaults = 0 /\ putFaults = 0 /\ restarts = 0 /\ takeovers = 0

\* A process without an event has what etcd has as its last listing, or, if
\* it has handled that, in Elem.
Current(p) ==
    /\ listings[p] = <<>> => elem[p] \in Parsed(stored)
    /\ listings[p] # <<>> => listings[p][Len(listings[p])] = stored

\* Then the file of a process is what Elem has.
FollowerInv(p) ==
    elem[p] # Absent /\ checkValid(elem[p]) => file[p] \in Rendered(elem[p])

LeaderInv ==
    /\ leader \in Proc
    /\ \A a, b \in owned : a = b
    /\ elem[leader] # Absent /\ owned # {} =>
          /\ elem[leader].VIP \in owned /\ elem[leader].Port # 0
          /\ file[leader] \in Rendered(elem[leader])

AgreeInv ==
    Calm =>
        /\ stored # Absent /\ Absent \notin Parsed(stored) =>
              \A p \in Proc \ event : Current(p)
        /\ LeaderInv
        /\ \A p \in Proc \ {leader} : FollowerInv(p)

-----------------------------------------------------------------------------
(* Objects and their fields.                                               *)

(***************************************************************************)
(* NewLVS gives every field a value of its type.                           *)
(***************************************************************************)
LEMMA Defaults ==
    /\ DOMAIN NewLVS = Fields
    /\ DOMAIN ZeroLVS = Fields
    /\ NewLVS \in LVS
<1>1. DOMAIN NewLVS = Fields
  BY DEF NewLVS, Fields
<1>2. DOMAIN ZeroLVS = Fields
  BY <1>1 DEF ZeroLVS
<1>3. <<>> \in Backends
  BY DEF Backends
<1>4. NewLVS \in LVS
  <2>1. NewLVS = [f \in Fields |-> NewLVS[f]]
    BY DEF NewLVS, Fields
  <2>2. /\ NewLVS.Type \in STRING /\ NewLVS.Protocol \in STRING
        /\ NewLVS.Name \in Names /\ NewLVS.ClusterName \in Names
        /\ NewLVS.Strategy \in STRING /\ NewLVS.Kind \in STRING
        /\ NewLVS.Check \in STRING /\ NewLVS.URLPath \in STRING
    BY ValidationAssumption DEF NewLVS, Names
  <2>3. /\ NewLVS.VIP \in Int /\ NewLVS.Port \in Int
        /\ NewLVS.PersistenceTimeout \in Nat
        /\ NewLVS.BPSLimit \in Nat /\ NewLVS.CPSLimit \in Nat
        /\ NewLVS.StatusCode \in Int /\ NewLVS.Interval \in Int
        /\ NewLVS.Timeout \in Int /\ NewLVS.MaxRetries \in Int
        /\ NewLVS.Delay \in Int
    BY DEF NewLVS, NoIP
  <2>4. NewLVS.SynProxy \in BOOLEAN
    BY DEF NewLVS
  <2>5. NewLVS.Servers \in Backends
    BY <1>3 DEF NewLVS
  <2> QED
    BY <2>1, <2>2, <2>3, <2>4, <2>5 DEF LVS, Fields
<1> QED
  BY <1>1, <1>2, <1>4

(***************************************************************************)
(* An object is the values of its fields.                                  *)
(***************************************************************************)
LEMMA FieldsOf ==
    ASSUME NEW l \in LVS
    PROVE  /\ DOMAIN l = Fields
           /\ l = [f \in Fields |-> l[f]]
           /\ l.VIP \in Int /\ l.Port \in Int
           /\ l.Servers \in Backends
BY DEF LVS, Fields

(***************************************************************************)
(* What the defaults and the zero values are.                              *)
(***************************************************************************)
LEMMA NewFields ==
    /\ NewLVS.Type = "l4" /\ NewLVS.Name = "" /\ NewLVS.ClusterName = ""
    /\ NewLVS.Protocol = "TCP" /\ NewLVS.VIP = NoIP /\ NewLVS.Port = 0
    /\ NewLVS.Strategy = "rr" /\ NewLVS.Check = "TCP" /\ NewLVS.URLPath = "/"
    /\ NewLVS.Servers = <<>>
BY DEF NewLVS

LEMMA ZeroFields ==
    /\ ZeroLVS.Type = "" /\ ZeroLVS.Name = "" /\ ZeroLVS.ClusterName = ""
    /\ ZeroLVS.Protocol = "" /\ ZeroLVS.VIP = NoIP /\ ZeroLVS.Port = 0
    /\ ZeroLVS.Strategy = "" /\ ZeroLVS.Check = "" /\ ZeroLVS.URLPath = ""
    /\ ZeroLVS.Interval = 0 /\ ZeroLVS.Timeout = 0
    /\ ZeroLVS.MaxRetries = 0 /\ ZeroLVS.Delay = 0
    /\ ZeroLVS.Servers = <<>>
<1>1. DOMAIN NewLVS = Fields
  BY Defaults
<1>2. ZeroLVS.Type = "" /\ ZeroLVS.Protocol = "" /\ ZeroLVS.Strategy = ""
  BY <1>1 DEF ZeroLVS, Fields
<1>3. ZeroLVS.Check = "" /\ ZeroLVS.URLPath = ""
  BY <1>1 DEF ZeroLVS, Fields
<1>4. /\ ZeroLVS.Interval = 0 /\ ZeroLVS.Timeout = 0
      /\ ZeroLVS.MaxRetries = 0 /\ ZeroLVS.Delay = 0
  BY <1>1 DEF ZeroLVS, Fields
<1>5. /\ ZeroLVS.Name = NewLVS.Name /\ ZeroLVS.ClusterName = NewLVS.ClusterName
      /\ ZeroLVS.VIP = NewLVS.VIP /\ ZeroLVS.Port = NewLVS.Port
      /\ ZeroLVS.Servers = NewLVS.Servers
  BY <1>1 DEF ZeroLVS, Fields
<1> QED
  BY <1>2, <1>3, <1>4, <1>5, NewFields

(***************************************************************************)
(* Two objects that agree on every field are one.                          *)
(***************************************************************************)
LEMMA SameObject ==
    ASSUME NEW l \in LVS, NEW m \in LVS, \A f \in Fields : l[f] = m[f]
    PROVE  l = m
<1>1. l = [f \in Fields |-> l[f]] /\ m = [f \in Fields |-> m[f]]
  BY FieldsOf
<1> QED
  BY <1>1

(***************************************************************************)
(* The servers of an object are a list of structures.                      *)
(***************************************************************************)
LEMMA ServersOf ==
    ASSUME NEW s \in Backends
    PROVE  /\ DOMAIN s = 1 .. Len(s) /\ Len(s) \in Nat
           /\ \A i \in DOMAIN s : s[i] \in Backend
           /\ s # <<>> => 1 \in DOMAIN s
BY DEF Backends

(***************************************************************************)
(* Backend.CheckValid gives a weight to a server that has none, and would  *)
(* accept it again.                                                        *)
(***************************************************************************)
LEMMA WeightedIs ==
    ASSUME NEW b \in Backend
    PROVE  /\ Weighted(b) \in Backend
           /\ Weighted(b).IP = b.IP
           /\ BackendCheckValid(b) => BackendCheckValid(Weighted(b))
BY DEF Weighted, Backend, BackendCheckValid

(***************************************************************************)
(* Validate changes the weights of the servers only.                       *)
(***************************************************************************)
LEMMA ValidatedIs ==
    ASSUME NEW l \in LVS
    PROVE  /\ Validated(l) \in LVS
           /\ \A f \in Fields \ {"Servers"} : Validated(l)[f] = l[f]
           /\ DOMAIN Validated(l).Servers = DOMAIN l.Servers
           /\ \A i \in DOMAIN l.Servers :
                 Validated(l).Servers[i] = Weighted(l.Servers[i])
<1> DEFINE s == [i \in DOMAIN l.Servers |-> Weighted(l.Servers[i])]
<1>1. l.Servers \in Backends
  BY FieldsOf
<1>2. s \in Backends
  <2>1. \A i \in DOMAIN l.Servers : Weighted(l.Servers[i]) \in Backend
    BY <1>1, ServersOf, WeightedIs
  <2> QED
    BY <1>1, <2>1, ServersOf DEF Backends
<1>3. Validated(l) = [l EXCEPT !.Servers = s]
  BY DEF Validated
<1>4. [l EXCEPT !.Servers = s] \in LVS
  BY <1>2 DEF LVS
<1>5. /\ \A f \in Fields \ {"Servers"} : [l EXCEPT !.Servers = s][f] = l[f]
      /\ [l EXCEPT !.Servers = s].Servers = s
  BY FieldsOf DEF Fields
<1> QED
  BY <1>3, <1>4, <1>5

(***************************************************************************)
(* allocVIP changes the address and the port only.                         *)
(***************************************************************************)
LEMMA AllocatedIs ==
    ASSUME NEW l \in LVS, NEW ip \in Int, conf \in LBConfs
    PROVE  /\ Allocated(l, ip) \in LVS
           /\ \A f \in Fields \ {"VIP", "Port"} : Allocated(l, ip)[f] = l[f]
           /\ Allocated(l, ip).VIP = ip
           /\ Allocated(l, ip).Port = IF l.Port = 0 THEN conf.PortBase + (ip % 256)
                                      ELSE l.Port
<1>1. ip % 256 \in Int /\ conf.PortBase \in Int
  BY DEF LBConfs
<1>2. (IF l.Port = 0 THEN conf.PortBase + (ip % 256) ELSE l.Port) \in Int
  BY <1>1, FieldsOf
<1>3. Allocated(l, ip) \in LVS
  BY <1>2, ZenonT(60) DEF LVS, Allocated
<1> QED
  BY <1>3, FieldsOf DEF Allocated, Fields

(***************************************************************************)
(* A field that is written and read back has its value, or the default in  *)
(* place of the zero value: "omitempty" leaves that out.                   *)
(***************************************************************************)
LEMMA ReadBack ==
    ASSUME NEW l \in LVS
    PROVE  LET m == Unmarshal(Marshal(l), NewLVS)
           IN  /\ DOMAIN Marshal(l) \subseteq DOMAIN NewLVS
               /\ m \in LVS
               /\ \A f \in Fields :
                     m[f] = IF l[f] = ZeroLVS[f] THEN NewLVS[f] ELSE l[f]
<1> DEFINE m == Unmarshal(Marshal(l), NewLVS)
<1>1. DOMAIN l = Fields
  BY FieldsOf
<1>2. DOMAIN Marshal(l) \subseteq DOMAIN NewLVS
  BY <1>1, Defaults DEF Marshal
<1>3. m = [f \in Fields |-> IF l[f] = ZeroLVS[f] THEN NewLVS[f] ELSE l[f]]
  BY <1>1, Defaults DEF Unmarshal, Marshal
<1>4. m \in LVS
  BY <1>3, Defaults DEF LVS, Fields
<1> QED
  BY <1>2, <1>3, <1>4

(***************************************************************************)
(* What is written is a text.                                              *)
(***************************************************************************)
LEMMA MarshalIs ==
    ASSUME NEW l \in LVS
    PROVE  Marshal(l) # Absent
<1> DEFINE Values == Names \union Int \union BOOLEAN \union Backends
<1>1. \A f \in Fields : l[f] \in Values
  BY DEF LVS, Fields, Names
<1> HIDE DEF Values
<1>2. DOMAIN Marshal(l) \subseteq Fields /\ DOMAIN NewLVS = Fields
  BY ReadBack, Defaults
<1>3. \A f \in DOMAIN Marshal(l) : Marshal(l)[f] = l[f]
  BY DEF Marshal
<1>4. Marshal(l) \in [DOMAIN Marshal(l) -> Values]
  BY <1>1, <1>2, <1>3 DEF Marshal
<1> QED
  BY <1>2, <1>4, PublicationAssumption DEF Values

-----------------------------------------------------------------------------
(* Listings.                                                               *)

(***************************************************************************)
(* The producer adds a listing.                                            *)
(***************************************************************************)
LEMMA AppendIs ==
    ASSUME NEW s, Short(s), Len(s) < 2, NEW x
    PROVE  LET t == Append(s, x)
           IN  /\ Short(t) /\ t # <<>> /\ t[Len(t)] = x
               /\ \A i \in DOMAIN t : t[i] = x \/ \E j \in DOMAIN s : t[i] = s[j]
               /\ Due(t) = Due(s) + One(x)
<1>1. CASE s = <<>>
  <2>1. Append(s, x) = <<x>>
    BY <1>1
  <2> QED
    BY <1>1, <2>1 DEF Short, Due, One
<1>2. CASE \E a : s = <<a>>
  <2>1. PICK a : s = <<a>>
    BY <1>2
  <2> DEFINE t == Append(<<a>>, x)
             u == <<a, x>>
  <2>2. <<a>> \in Seq({a, x})
    OBVIOUS
  <2>3. /\ t \in Seq({a, x}) /\ Len(t) = 2
        /\ t[1] = a /\ t[2] = x
    BY <2>2
  <2>4. u \in Seq({a, x}) /\ Len(u) = 2
    OBVIOUS
  <2>5. \A i \in 1 .. 2 : t[i] = u[i]
    BY <2>3
  <2>6. t = u
    <3> HIDE DEF t, u
    <3> QED
      BY <2>3, <2>4, <2>5, SeqEqual
  <2> QED
    BY <2>1, <2>6 DEF Short, Due, One
<1>3. ASSUME NEW a, NEW b, s = <<a, b>>
      PROVE  FALSE
  BY <1>3
<1> QED
  BY <1>1, <1>2, <1>3 DEF Short

(***************************************************************************)
(* The consumer takes the first.                                           *)
(***************************************************************************)
LEMMA TailIs ==
    ASSUME NEW s, Short(s), s # <<>>
    PROVE  LET t == Tail(s)
           IN  /\ Short(t)
               /\ Head(s) = s[1] /\ 1 \in DOMAIN s
               /\ \A i \in DOMAIN t : \E j \in DOMAIN s : t[i] = s[j]
               /\ t = <<>> => s[Len(s)] = Head(s)
               /\ t # <<>> => t[Len(t)] = s[Len(s)]
               /\ Due(s) = Due(t) + One(Head(s))
<1>1. CASE \E a : s = <<a>>
  <2>1. PICK a : s = <<a>>
    BY <1>1
  <2>2. Tail(s) = <<>> /\ Head(s) = a /\ Len(s) = 1 /\ DOMAIN s = {1}
    BY <2>1
  <2> QED
    BY <2>1, <2>2 DEF Short, Due, One
<1>2. CASE \E a, b : s = <<a, b>>
  <2>1. PICK a, b : s = <<a, b>>
    BY <1>2
  <2>2. Tail(s) = <<b>> /\ Head(s) = a /\ Len(s) = 2 /\ DOMAIN s = {1, 2}
    BY <2>1
  <2> QED
    BY <2>1, <2>2 DEF Short, Due, One
<1> QED
  BY <1>1, <1>2 DEF Short

(***************************************************************************)
(* There are never more than two.                                          *)
(***************************************************************************)
LEMMA DueIs ==
    ASSUME NEW s
    PROVE  Due(s) \in 0 .. 2 /\ Due(<<>>) = 0
BY DEF Due, One

-----------------------------------------------------------------------------
(* Groups of local addresses.                                              *)

(***************************************************************************)
(* Whatever the order of the map, a lookup finds a group the address is    *)
(* in, or reports that there is none.                                      *)
(***************************************************************************)
LEMMA GroupNames ==
    ASSUME conf \in LBConfs, NEW ip
    PROVE  /\ GetLAddrGroupName(conf, ip) # {}
           /\ GetLAddrGroupName(conf, ip) \subseteq STRING
           /\ \A n \in GetLAddrGroupName(conf, ip) :
                 n # "" => \E g \in laddr(conf) : g.Name = n /\ ip \in g.DestCIDR
<1>1. laddr(conf) \subseteq LocalAddrConf
  <2>1. conf.LAddr \in LocalAddrConfs
    BY DEF LBConfs
  <2>2. \A i \in DOMAIN conf.LAddr : conf.LAddr[i] \in LocalAddrConf
    BY <2>1 DEF LocalAddrConfs
  <2> QED
    BY <2>2 DEF laddr
<1>2. \A g \in laddr(conf) : g.Name \in STRING
  BY <1>1 DEF LocalAddrConf
<1> DEFINE found == {g \in laddr(conf) : ip \in g.DestCIDR}
<1>3. CASE found = {}
  <2>1. GetLAddrGroupName(conf, ip) = {""}
    BY <1>3 DEF GetLAddrGroupName
  <2> QED
    BY <2>1, ValidationAssumption
<1>4. CASE found # {}
  <2>1. GetLAddrGroupName(conf, ip) = {g.Name : g \in found}
    BY <1>4 DEF GetLAddrGroupName
  <2> QED
    BY <1>2, <1>4, <2>1
<1> QED
  BY <1>3, <1>4

(***************************************************************************)
(* A list of servers can be looked up.                                     *)
(***************************************************************************)
LEMMA LookupsExist ==
    ASSUME conf \in LBConfs, NEW s
    PROVE  Lookups(conf, s) # {}
<1> DEFINE g == [i \in DOMAIN s |-> CHOOSE n : n \in GetLAddrGroupName(conf, s[i].IP)]
<1>1. \A i \in DOMAIN s : g[i] \in GetLAddrGroupName(conf, s[i].IP)
  <2> TAKE i \in DOMAIN s
  <2>1. \E n : n \in GetLAddrGroupName(conf, s[i].IP)
    BY GroupNames
  <2> QED
    BY <2>1
<1>2. g \in [DOMAIN s -> UNION {GetLAddrGroupName(conf, s[i].IP) : i \in DOMAIN s}]
  BY <1>1
<1>3. g \in Lookups(conf, s)
  BY <1>1, <1>2 DEF Lookups
<1> QED
  BY <1>3

(***************************************************************************)
(* If no address is in two groups a lookup has one answer.                 *)
(***************************************************************************)
LEMMA OneGroup ==
    ASSUME Disjoint, NEW ip,
           NEW a \in GetLAddrGroupName(conf, ip), NEW b \in GetLAddrGroupName(conf, ip)
    PROVE  a = b
BY DEF Disjoint, GetLAddrGroupName

(***************************************************************************)
(* So have the lookups for two lists with the same addresses.              *)
(***************************************************************************)
LEMMA OneLookup ==
    ASSUME Disjoint, NEW s, NEW r,
           DOMAIN s = DOMAIN r, \A i \in DOMAIN s : s[i].IP = r[i].IP,
           NEW g \in Lookups(conf, s), NEW h \in Lookups(conf, r)
    PROVE  g = h
<1>1. /\ g = [i \in DOMAIN s |-> g[i]] /\ h = [i \in DOMAIN s |-> h[i]]
      /\ \A i \in DOMAIN s : /\ g[i] \in GetLAddrGroupName(conf, s[i].IP)
                             /\ h[i] \in GetLAddrGroupName(conf, s[i].IP)
  BY DEF Lookups
<1>2. \A i \in DOMAIN s : g[i] = h[i]
  BY <1>1, OneGroup
<1> QED
  BY <1>1, <1>2

(***************************************************************************)
(* Servers that Validate has found in one group are in the group that the  *)
(* first of them is looked up in again.                                    *)
(***************************************************************************)
LEMMA SameGroupIs ==
    ASSUME conf \in LBConfs, Disjoint,
           NEW s \in Backends, NEW g \in Lookups(conf, s), SameGroup(g),
           NEW n \in GetLAddrGroupName(conf, s[1].IP), NEW i \in DOMAIN s
    PROVE  \E grp \in laddr(conf) : grp.Name = n /\ s[i].IP \in grp.DestCIDR
<1>1. 1 \in DOMAIN s
  BY ServersOf
<1>2. /\ g[1] \in GetLAddrGroupName(conf, s[1].IP)
      /\ g[i] \in GetLAddrGroupName(conf, s[i].IP)
      /\ g[i] # "" /\ g[i] = g[1]
  BY <1>1 DEF Lookups, SameGroup
<1>3. n = g[i]
  BY <1>2, OneGroup
<1> QED
  BY <1>2, <1>3, GroupNames

-----------------------------------------------------------------------------
(* Addresses and ports.                                                    *)

(***************************************************************************)
(* An address of the range is a host of the subnet: not the network's, not *)
(* the broadcast address, not the one the CIDR is written with.            *)
(***************************************************************************)
LEMMA HostAddress ==
    ASSUME conf \in LBConfs, NEW ip \in R(conf)!Addresses
    PROVE  LET cidr == conf.SubnetCIDR
               net  == cidr.ip - (cidr.ip % cidr.size)
           IN  /\ ip \in Nat /\ ip > 0
               /\ cidr.size >= 4 =>
                     net < ip /\ ip < net + cidr.size - 1 /\ ip # cidr.ip
<1> DEFINE cidr == conf.SubnetCIDR
           net  == cidr.ip - (cidr.ip % cidr.size)
<1>1. cidr.ip \in Nat /\ cidr.size \in Nat
  BY DEF LBConfs
<1>2. /\ ip \in (cidr.ip + 1) .. (net + cidr.size - 2)
  BY DEF R!Addresses, R!rangeStart, R!rangeEnd, R!network
<1>3. ip \in Int /\ ip >= cidr.ip + 1
  BY <1>1, <1>2
<1>4. ASSUME cidr.size >= 4
      PROVE  net < ip /\ ip < net + cidr.size - 1 /\ ip # cidr.ip
  <2>1. cidr.ip % cidr.size \in Nat
    BY <1>1, <1>4
  <2> HIDE DEF cidr
  <2> QED
    BY <1>1, <1>2, <1>4, <2>1
<1> QED
  BY <1>1, <1>3, <1>4

(***************************************************************************)
(* What IPAllocator.Get may reserve: the address that was asked for, or    *)
(* one of the range, if there is a range.                                  *)
(***************************************************************************)
LEMMA GettableIs ==
    ASSUME conf \in LBConfs, NewIPAllocator(conf), NEW vip \in Int,
           NEW ip \in Gettable(vip)
    PROVE  /\ ip \in Nat /\ ip > 0
           /\ vip # NoIP => ip = vip
           /\ HasRange(conf) => ip \in R(conf)!Addresses
<1>1. /\ conf.SubnetCIDR.ip \in Nat /\ conf.SubnetCIDR.size \in Nat
      /\ conf.SubnetCIDR.size >= 4
  BY DEF LBConfs, NewIPAllocator
<1>2. R(conf)!rangeStart = conf.SubnetCIDR.ip + 1
  BY DEF R!rangeStart
<1>3. CASE vip # NoIP
  <2>1. ip = vip /\ R(conf)!validateRangeIP(ip)
    BY <1>3 DEF Gettable
  <2>2. R(conf)!rangeStart <= ip /\ ip <= R(conf)!rangeEnd
    BY <2>1 DEF R!validateRangeIP
  <2>3. R(conf)!rangeEnd \in Int
    BY <1>1 DEF R!rangeEnd, R!network
  <2> QED
    BY <1>1, <1>2, <1>3, <2>1, <2>2, <2>3 DEF R!Addresses
<1>4. CASE vip = NoIP /\ HasRange(conf)
  <2>1. ip \in R(conf)!Addresses
    BY <1>4 DEF Gettable
  <2> QED
    BY <1>4, <2>1, HostAddress
<1>5. CASE vip = NoIP /\ ~ HasRange(conf)
  <2>1. ip \in (conf.SubnetCIDR.ip + 1) .. Highest
    BY <1>2, <1>5 DEF Gettable
  <2> QED
    BY <1>1, <1>5, <2>1, PublicationAssumption
<1> QED
  BY <1>3, <1>4, <1>5

(***************************************************************************)
(* RequireIP answers with an address the load balancer then has, the one   *)
(* that was asked for if any, or with an error.                            *)
(***************************************************************************)
LEMMA RequireIPIs ==
    ASSUME CoreInv, conf # Absent, NEW vip \in Int, NEW ip, RequireIP(vip, ip)
    PROVE  /\ ip # NoIP =>
                 /\ ip \in owned' /\ ip \in Nat /\ ip > 0
                 /\ vip # NoIP => ip = vip
           /\ owned' \subseteq Nat \ {NoIP}
           /\ HasRange(conf) => owned' \subseteq R(conf)!Addresses
           /\ ipamFaults' \in Nat
<1>1. /\ conf \in LBConfs /\ NewIPAllocator(conf)
      /\ owned \subseteq Nat \ {NoIP} /\ ipamFaults \in Nat
      /\ HasRange(conf) => owned \subseteq R(conf)!Addresses
  BY DEF CoreInv, TypeOK, ConfInv, OwnedInv
<1>2. \A left \in GivenBack(vip) \union {owned} : left \subseteq owned
  BY DEF GivenBack
<1>3. \A a \in Gettable(vip) :
         /\ a \in Nat /\ a > 0 /\ a # NoIP
         /\ vip # NoIP => a = vip
         /\ HasRange(conf) => a \in R(conf)!Addresses
  BY <1>1, GettableIs DEF NoIP
<1>4. CASE ip \in owned /\ vip \in {NoIP, ip} /\ UNCHANGED <<owned, ipamFaults>>
  <2>1. ip \in Nat /\ ip > 0
    BY <1>1, <1>4 DEF NoIP
  <2> QED
    BY <1>1, <1>4, <2>1
<1>5. ASSUME NEW left \in GivenBack(vip) \union {owned},
             \/ ip \in Gettable(vip) \ left /\ owned' = left \union {ip}
             \/ ip = NoIP /\ owned' = left,
             ipamFaults' \in {ipamFaults, ipamFaults + 1}
      PROVE  /\ ip # NoIP =>
                   /\ ip \in owned' /\ ip \in Nat /\ ip > 0
                   /\ vip # NoIP => ip = vip
             /\ owned' \subseteq Nat \ {NoIP}
             /\ HasRange(conf) => owned' \subseteq R(conf)!Addresses
             /\ ipamFaults' \in Nat
  <2>1. left \subseteq owned /\ ipamFaults' \in Nat
    BY <1>1, <1>2, <1>5
  <2>2. CASE ip = NoIP /\ owned' = left
    BY <1>1, <2>1, <2>2
  <2>3. CASE ip \in Gettable(vip) \ left /\ owned' = left \union {ip}
    BY <1>1, <1>3, <2>1, <2>3
  <2> QED
    BY <1>5, <2>2, <2>3
<1>6. ASSUME ip = NoIP, ipamFaults' = ipamFaults + 1,
             \/ UNCHANGED owned
             \/ owned' \in GivenBack(vip)
             \/ \E left \in GivenBack(vip) : \E a \in Gettable(vip) \ left :
                   owned' = left \union {a}
      PROVE  /\ owned' \subseteq Nat \ {NoIP}
             /\ HasRange(conf) => owned' \subseteq R(conf)!Addresses
             /\ ipamFaults' \in Nat
  <2>1. ipamFaults' \in Nat
    BY <1>1, <1>6
  <2>2. CASE owned' \in GivenBack(vip) \union {owned}
    BY <1>1, <1>2, <2>1, <2>2
  <2>3. CASE \E left \in GivenBack(vip) : \E a \in Gettable(vip) \ left :
                owned' = left \union {a}
    <3>1. PICK left \in GivenBack(vip), a \in Gettable(vip) : owned' = left \union {a}
      BY <2>3
    <3> QED
      BY <1>1, <1>2, <1>3, <2>1, <3>1
  <2> QED
    BY <1>6, <2>2, <2>3
<1> QED
  BY <1>4, <1>5, <1>6 DEF RequireIP

(***************************************************************************)
(* While nothing fails the load balancer has one address at most, the one  *)
(* RequireIP answers with.                                                 *)
(***************************************************************************)
LEMMA RequireIPCalm ==
    ASSUME CoreInv, conf # Absent, NEW vip \in Int, NEW ip, RequireIP(vip, ip),
           ipamFaults' = 0, \A a, b \in owned : a = b
    PROVE  /\ owned' = IF ip = NoIP THEN {} ELSE {ip}
           /\ ipamFaults = 0
<1>1. /\ conf \in LBConfs /\ NewIPAllocator(conf) /\ NoIP \notin owned
      /\ ipamFaults = 0 /\ ipamFaults' # ipamFaults + 1
  <2>1. /\ conf \in LBConfs /\ NewIPAllocator(conf) /\ NoIP \notin owned
        /\ ipamFaults \in Nat
    BY DEF CoreInv, TypeOK, ConfInv
  <2>2. ipamFaults' \in {ipamFaults, ipamFaults + 1}
    BY DEF RequireIP
  <2> QED
    BY <2>1, <2>2
<1>2. CASE ip \in owned /\ UNCHANGED owned
  BY <1>1, <1>2
<1>3. CASE ip \notin owned \/ ~ UNCHANGED owned
  <2>1. PICK left \in GivenBack(vip) :
          \/ ip \in Gettable(vip) \ left /\ owned' = left \union {ip}
          \/ ip = NoIP /\ owned' = left
    BY <1>1, <1>3 DEF RequireIP
  <2>2. left = {}
    BY DEF GivenBack, Other
  <2>3. NoIP \notin Gettable(vip)
    BY <1>1, GettableIs DEF NoIP
  <2> QED
    BY <1>1, <2>1, <2>2, <2>3
<1> QED
  BY <1>2, <1>3

(***************************************************************************)
(* The bounds L4Conf.CheckValid sets to portBase.                          *)
(***************************************************************************)
LEMMA PortBaseIs ==
    ASSUME CoreInv, conf # Absent
    PROVE  conf \in LBConfs /\ conf.PortBase \in Int /\ conf.PortBase >= 5000
<1>1. conf \in LBConfs
  BY DEF CoreInv, TypeOK
<1>2. LBConfCheckValid(conf) /\ conf.Type = "l4"
  BY DEF CoreInv, ConfInv
<1>3. L4ConfCheckValid(conf)
  BY <1>2 DEF LBConfCheckValid
<1>4. PortBaseCheckValid(conf)
  BY <1>3 DEF L4ConfCheckValid
<1> QED
  BY <1>1, <1>4 DEF PortBaseCheckValid, LBConfs

(***************************************************************************)
(* An object with an address has a port, which LVS.CheckPort accepts if    *)
(* portBase leaves room for the last byte of the address.                  *)
(***************************************************************************)
LEMMA AllocatedPort ==
    ASSUME CoreInv, conf # Absent, NEW l \in LVS, CheckPort(l), NEW ip \in Nat
    PROVE  /\ Allocated(l, ip).Port > 0
           /\ conf.PortBase + 255 <= 65535 => CheckPort(Allocated(l, ip))
<1>1. ip % 256 \in Int /\ 0 <= ip % 256 /\ ip % 256 <= 255
  OBVIOUS
<1>2. conf \in LBConfs /\ conf.PortBase \in Int /\ conf.PortBase >= 5000
  BY PortBaseIs
<1>3. Allocated(l, ip).Port = IF l.Port = 0 THEN conf.PortBase + (ip % 256)
                              ELSE l.Port
  BY <1>2, AllocatedIs
<1>4. l.Port \in Int /\ 0 <= l.Port /\ l.Port <= 65535
  BY FieldsOf DEF CheckPort
<1> QED
  BY <1>1, <1>2, <1>3, <1>4 DEF CheckPort

-----------------------------------------------------------------------------
(* What a handler parses and renders.                                      *)

(***************************************************************************)
(* What Parse accepts is the listed object, validated.                     *)
(***************************************************************************)
LEMMA ParsedIs ==
    ASSUME NEW json, Text(json), NEW o \in Parsed(json), o # Absent
    PROVE  /\ json # Absent /\ Read(json) \in LVS
           /\ o = Validated(Read(json)) /\ o \in LVS
           /\ o.VIP = Read(json).VIP /\ o.Port = Read(json).Port
           /\ \E g \in Lookups(conf, Read(json).Servers) : Parses(Read(json), g)
           /\ CheckPort(o) /\ CheckVIP(o)
<1>1. json # Absent
  BY DEF Parsed
<1>2. Read(json) \in LVS
  BY <1>1 DEF Text, Read
<1>3. PICK g \in Lookups(conf, Read(json).Servers) :
        o = IF Parses(Read(json), g) THEN Validated(Read(json)) ELSE Absent
  BY <1>1 DEF Parsed, Read
<1>4. Parses(Read(json), g) /\ o = Validated(Read(json))
  BY <1>3
<1>5. /\ Validated(Read(json)) \in LVS
      /\ Validated(Read(json)).Port = Read(json).Port
      /\ Validated(Read(json)).VIP = Read(json).VIP
  BY <1>2, ValidatedIs DEF Fields
<1>6. CheckPort(Read(json)) /\ CheckVIP(Read(json))
  BY <1>4 DEF Parses, Validate
<1>7. CheckPort(o) /\ CheckVIP(o)
  BY <1>4, <1>5, <1>6 DEF CheckPort, CheckVIP
<1> QED
  BY <1>1, <1>2, <1>4, <1>5, <1>7

(***************************************************************************)
(* Whatever it accepts of one text is the same object.                     *)
(***************************************************************************)
LEMMA ParsedSame ==
    ASSUME UNCHANGED conf, NEW json
    PROVE  Parsed(json)' = Parsed(json)
BY DEF Parsed, Parses

(***************************************************************************)
(* The template shows the address, the port and the servers as they are.   *)
(***************************************************************************)
LEMMA RenderedIs ==
    ASSUME conf \in LBConfs, NEW l \in LVS, NEW f \in Rendered(l)
    PROVE  /\ f \in [LAddrGroup : STRING, lvs : LVS]
           /\ f.lvs.VIP = l.VIP /\ f.lvs.Port = l.Port
           /\ f.lvs.Servers = l.Servers
           /\ l.Servers # <<>> =>
                 f.LAddrGroup \in GetLAddrGroupName(conf, l.Servers[1].IP)
<1> DEFINE s == IF l.Strategy = "" THEN "rr" ELSE l.Strategy
           k == IF l.Kind = "" THEN "FNAT" ELSE l.Kind
           d == IF l.Check = "HTTP" /\ l.Servers # <<>> THEN Garbled ELSE l.Delay
           m == [l EXCEPT !.Strategy = s, !.Kind = k, !.Delay = d]
<1>1. s \in STRING /\ k \in STRING /\ d \in Int
  <2>1. l.Strategy \in STRING /\ l.Kind \in STRING /\ l.Delay \in Int
    BY DEF LVS
  <2>2. "rr" \in STRING /\ "FNAT" \in STRING
    BY ValidationAssumption
  <2>3. Garbled \in Int
    BY DEF Garbled
  <2> QED
    BY <2>1, <2>2, <2>3
<1>2. /\ m \in LVS /\ m.VIP = l.VIP /\ m.Port = l.Port
      /\ m.Servers = l.Servers
  <2> HIDE DEF s, k, d
  <2> QED
    BY <1>1 DEF LVS
<1>3. PICK g \in IF l.Servers = <<>> THEN {""}
                 ELSE GetLAddrGroupName(conf, l.Servers[1].IP) :
        f = [LAddrGroup |-> g, lvs |-> m]
  BY DEF Rendered
<1>4. g \in STRING
  BY <1>3, GroupNames, ValidationAssumption
<1> HIDE DEF m
<1> QED
  BY <1>2, <1>3, <1>4

(***************************************************************************)
(* A file shows an address and a port if its object has them.              *)
(***************************************************************************)
LEMMA FilesOf ==
    ASSUME conf \in LBConfs, NEW l \in LVS, l.VIP > 0, l.Port > 0,
           NEW f \in Rendered(l)
    PROVE  f \in Files
BY RenderedIs DEF Files, ParseIP

(***************************************************************************)
(* The leader gives what it has parsed an address and a port.              *)
(***************************************************************************)
LEMMA LeadsWith ==
    ASSUME CoreInv, conf # Absent, NEW json, Text(json),
           NEW l \in Parsed(json), l # Absent,
           NEW ip, ip # NoIP, RequireIP(l.VIP, ip)
    PROVE  /\ ip \in Nat /\ ip > 0
           /\ l \in LVS /\ Allocated(l, ip) \in LVS
           /\ Allocated(l, ip).VIP = ip
           /\ Allocated(l, ip).Port > 0
<1>1. conf \in LBConfs
  BY PortBaseIs
<1>2. l \in LVS /\ CheckPort(l) /\ l.VIP \in Int
  BY ParsedIs, FieldsOf
<1>3. ip \in Nat /\ ip > 0
  BY <1>2, RequireIPIs
<1>4. Allocated(l, ip) \in LVS /\ Allocated(l, ip).VIP = ip
  BY <1>1, <1>2, <1>3, AllocatedIs
<1>5. Allocated(l, ip).Port > 0
  BY <1>2, <1>3, AllocatedPort
<1> QED
  BY <1>2, <1>3, <1>4, <1>5

(***************************************************************************)
(* What may become of an object the leader handles: it is refused an       *)
(* address; it has its address and port already; it is written to etcd,    *)
(* and the write may report an error all the same; the write fails.        *)
(***************************************************************************)
Refused(p, l, ip) ==
    /\ ip = NoIP
    /\ elem' = [elem EXCEPT ![p] = l]
    /\ UNCHANGED <<stored, byManager, event, puts, putFaults, file>>

Kept(p, l, ip) ==
    /\ ip # NoIP
    /\ elem' = [elem EXCEPT ![p] = Allocated(l, ip)]
    /\ ~ NeedsUpdate(l, Allocated(l, ip))
    /\ \E f \in Rendered(Allocated(l, ip)) : file' = [file EXCEPT ![p] = f]
    /\ UNCHANGED <<stored, byManager, event, puts, putFaults>>

Published(p, l, ip) ==
    /\ ip # NoIP
    /\ elem' = [elem EXCEPT ![p] = Allocated(l, ip)]
    /\ NeedsUpdate(l, Allocated(l, ip))
    /\ stored' = Marshal(Allocated(l, ip)) /\ byManager' = TRUE
    /\ event' = Proc
    /\ puts' = puts + 1
    /\ \/ /\ \E f \in Rendered(Allocated(l, ip)) : file' = [file EXCEPT ![p] = f]
          /\ UNCHANGED putFaults
       \/ putFaults' = putFaults + 1 /\ UNCHANGED file

Failed(p, l, ip) ==
    /\ ip # NoIP
    /\ elem' = [elem EXCEPT ![p] = Allocated(l, ip)]
    /\ NeedsUpdate(l, Allocated(l, ip))
    /\ puts' = puts + 1 /\ putFaults' = putFaults + 1
    /\ UNCHANGED <<stored, byManager, event, file>>

Leads(p, l, ip) ==
    \/ Refused(p, l, ip) \/ Kept(p, l, ip)
    \/ Published(p, l, ip) \/ Failed(p, l, ip)

(***************************************************************************)
(* There is nothing else.                                                  *)
(***************************************************************************)
LEMMA LeadIs ==
    ASSUME NEW p, NEW l, Lead(p, l)
    PROVE  \E ip : RequireIP(l.VIP, ip) /\ Leads(p, l, ip)
<1>1. PICK ip \in owned \union Gettable(l.VIP) \union {NoIP} : Lead(p, l)!(ip)
  BY DEF Lead
<1>2. RequireIP(l.VIP, ip)
  BY <1>1
<1>3. CASE ip = NoIP
  BY <1>1, <1>3 DEF Leads, Refused, etcd
<1>4. CASE ip # NoIP
  BY <1>1, <1>4 DEF Leads, Kept, Published, Failed, Put, etcd
<1> QED
  BY <1>2, <1>3, <1>4

(***************************************************************************)
(* What may become of the listing a process handles.                       *)
(***************************************************************************)
LEMMA HandleIs ==
    ASSUME CoreInv, NEW p \in Proc, Handle(p)
    PROVE  \E l \in Parsed(listings[p][1]) :
              /\ \/ l \in {Absent, elem[p]} /\ Skip
                 \/ l # Absent /\ p = leader /\ Lead(p, l)
                 \/ l # Absent /\ p # leader /\ Follow(p, l)
              /\ conf # Absent /\ UNCHANGED <<conf, leader, changes, restarts, takeovers>>
              /\ Text(listings[p][1])
              /\ listings[p] # <<>> /\ Short(listings[p])
              /\ listings' = [listings EXCEPT ![p] = Tail(@)]
<1>1. /\ listings[p] # <<>> /\ Short(listings[p])
      /\ \A i \in DOMAIN listings[p] : Text(listings[p][i])
  BY DEF Handle, CoreInv, ListInv, TypeOK
<1>2. Head(listings[p]) = listings[p][1] /\ 1 \in DOMAIN listings[p]
  BY <1>1, TailIs
<1>3. conf # Absent
  BY <1>1 DEF CoreInv, EmptyInv
<1> QED
  BY <1>1, <1>2, <1>3 DEF Handle

-----------------------------------------------------------------------------
(* Type correctness and the address.                                       *)

(***************************************************************************)
(* The core invariant holds before the configuration is read.              *)
(***************************************************************************)
LEMMA CoreInit == Init => CoreInv
<1> SUFFICES ASSUME Init PROVE CoreInv
  OBVIOUS
<1>1. {changes, puts, ipamFaults, putFaults, restarts, takeovers} \subseteq Nat
  BY DEF Init
<1>2. \A p \in Proc : listings[p] = <<>>
  BY DEF Init
<1>3. \A p \in Proc : \A i \in DOMAIN listings[p] : Text(listings[p][i])
  BY <1>2
<1>4. TypeOK
  BY <1>1, <1>3 DEF Init, TypeOK, Text
<1>5. ListInv
  BY <1>2 DEF Init, ListInv, Short
<1> QED
  BY <1>2, <1>4, <1>5 DEF Init, CoreInv, ConfInv, EmptyInv, OwnedInv

(***************************************************************************)
(* Reading it establishes what the checks and the allocator ask for.       *)
(***************************************************************************)
LEMMA ReadConfCore ==
    ASSUME CoreInv, NEW text \in Configs, ReadConf(text)
    PROVE  CoreInv'
<1>1. /\ conf' \in LBConfs /\ NewIPAllocator(conf')
      /\ LBConfCheckValid(conf') /\ conf'.Type = "l4"
  BY PublicationAssumption DEF ReadConf
<1>2. TypeOK'
  BY <1>1 DEF CoreInv, TypeOK, ReadConf, etcd, counters
<1>3. ConfInv'
  BY <1>1 DEF ConfInv
<1>4. conf = Absent
  BY DEF ReadConf
<1>5. EmptyInv' /\ OwnedInv' /\ ListInv'
  BY <1>4 DEF CoreInv, EmptyInv, OwnedInv, ListInv, ReadConf, etcd
<1> QED
  BY <1>2, <1>3, <1>5 DEF CoreInv

(***************************************************************************)
(* Steps that do not change the configuration.                             *)
(***************************************************************************)
LEMMA SameConf ==
    ASSUME CoreInv, conf # Absent, UNCHANGED conf, TypeOK', ListInv',
           HasRange(conf) =>
              /\ owned' \subseteq R(conf)!Addresses
              /\ byManager' => /\ stored' # Absent
                               /\ Read(stored').VIP \in R(conf)!Addresses
    PROVE  CoreInv'
<1>1. ConfInv' /\ EmptyInv'
  BY DEF CoreInv, ConfInv, EmptyInv
<1>2. OwnedInv'
  BY DEF OwnedInv, HasRange, Read
<1> QED
  BY <1>1, <1>2 DEF CoreInv

(***************************************************************************)
(* A user writes an object of the types json asks for.                     *)
(***************************************************************************)
LEMMA UserPutCore ==
    ASSUME CoreInv, NEW json, UserPut(json)
    PROVE  CoreInv'
<1>1. changes \in Nat /\ changes < MaxChanges /\ json \in Requests[changes + 1]
  BY DEF UserPut, CoreInv, TypeOK
<1>2. changes + 1 \in 1 .. MaxChanges
  BY <1>1, PublicationAssumption
<1>3. Text(stored') /\ byManager' = FALSE
  BY <1>1, <1>2, PublicationAssumption DEF UserPut, Text
<1>4. {changes, puts, ipamFaults, putFaults, restarts, takeovers}' \subseteq Nat
  BY DEF CoreInv, TypeOK, UserPut
<1>5. TypeOK'
  BY <1>3, <1>4 DEF CoreInv, TypeOK, UserPut
<1>6. ListInv'
  BY DEF CoreInv, ListInv, UserPut
<1> QED
  BY <1>3, <1>5, <1>6, SameConf DEF UserPut, CoreInv, OwnedInv

(***************************************************************************)
(* The producer lists what etcd has.                                       *)
(***************************************************************************)
LEMMA ListIs ==
    ASSUME CoreInv, NEW p \in Proc, List(p)
    PROVE  /\ Short(listings[p]) /\ Len(listings[p]) < 2
           /\ listings'[p] = Append(listings[p], stored)
           /\ \A q \in Proc \ {p} : listings'[q] = listings[q]
BY DEF List, CoreInv, ListInv

LEMMA ListCore ==
    ASSUME CoreInv, NEW p \in Proc, List(p)
    PROVE  CoreInv'
<1>1. /\ Short(listings'[p])
      /\ \A i \in DOMAIN listings'[p] :
            listings'[p][i] = stored \/ \E j \in DOMAIN listings[p] :
                                           listings'[p][i] = listings[p][j]
  <2> DEFINE s == listings[p]
             t == listings'[p]
  <2>1. Short(s) /\ Len(s) < 2 /\ t = Append(s, stored)
    BY ListIs
  <2> HIDE DEF s, t
  <2>2. /\ Short(t)
        /\ \A i \in DOMAIN t : t[i] = stored \/ \E j \in DOMAIN s : t[i] = s[j]
    BY <2>1, AppendIs
  <2> QED
    BY <2>2 DEF s, t
<1>2. \A q \in Proc : \A i \in DOMAIN listings'[q] : Text(listings'[q][i])
  <2> TAKE q \in Proc
  <2>1. Text(stored) /\ \A i \in DOMAIN listings[q] : Text(listings[q][i])
    BY DEF CoreInv, TypeOK
  <2>2. CASE q = p
    BY <1>1, <2>1, <2>2
  <2>3. CASE q # p
    BY <2>1, <2>3, ListIs
  <2> QED
    BY <2>2, <2>3
<1>3. ListInv'
  BY <1>1 DEF List, CoreInv, ListInv
<1>4. TypeOK'
  BY <1>2 DEF List, CoreInv, TypeOK, etcd, counters
<1>5. conf # Absent /\ UNCHANGED <<conf, owned, stored, byManager>>
  BY DEF List, etcd
<1> QED
  BY <1>3, <1>4, <1>5, SameConf DEF CoreInv, OwnedInv

(***************************************************************************)
(* The consumer takes a listing.                                           *)
(***************************************************************************)
LEMMA TakeCore ==
    ASSUME CoreInv, NEW p \in Proc, listings[p] # <<>>,
           listings' = [listings EXCEPT ![p] = Tail(@)]
    PROVE  /\ ListInv'
           /\ \A q \in Proc : \A i \in DOMAIN listings'[q] : Text(listings'[q][i])
           /\ listings'[p] = Tail(listings[p])
           /\ \A q \in Proc \ {p} : listings'[q] = listings[q]
<1>1. /\ listings'[p] = Tail(listings[p])
      /\ \A q \in Proc \ {p} : listings'[q] = listings[q]
  BY DEF CoreInv, ListInv
<1>2. /\ Short(listings'[p])
      /\ \A i \in DOMAIN listings'[p] : \E j \in DOMAIN listings[p] :
            listings'[p][i] = listings[p][j]
  BY <1>1, TailIs DEF CoreInv, ListInv
<1>3. \A q \in Proc : \A i \in DOMAIN listings'[q] : Text(listings'[q][i])
  <2> TAKE q \in Proc
  <2>1. \A i \in DOMAIN listings[q] : Text(listings[q][i])
    BY DEF CoreInv, TypeOK
  <2>2. CASE q = p
    BY <1>2, <2>1, <2>2
  <2>3. CASE q # p
    BY <1>1, <2>1, <2>3
  <2> QED
    BY <2>2, <2>3
<1>4. ListInv'
  BY <1>1, <1>2 DEF CoreInv, ListInv
<1> QED
  BY <1>1, <1>3, <1>4

(***************************************************************************)
(* The leader leaves in Elem, etcd and the file an object with an address. *)
(***************************************************************************)
LEMMA LeadCore ==
    ASSUME CoreInv, conf # Absent, NEW p \in Proc, listings[p] # <<>>,
           listings' = [listings EXCEPT ![p] = Tail(@)],
           NEW json, Text(json), NEW l \in Parsed(json), l # Absent, Lead(p, l),
           UNCHANGED <<conf, leader, changes, restarts, takeovers>>
    PROVE  CoreInv'
<1>1. PICK ip : RequireIP(l.VIP, ip) /\ Leads(p, l, ip)
  BY LeadIs
<1>2. conf \in LBConfs /\ l \in LVS /\ l.VIP \in Int
  BY PortBaseIs, ParsedIs, FieldsOf
<1>3. /\ owned' \subseteq Nat \ {NoIP} /\ ipamFaults' \in Nat
      /\ HasRange(conf) => owned' \subseteq R(conf)!Addresses
      /\ ip # NoIP => ip \in owned'
  BY <1>1, <1>2, RequireIPIs
<1>4. elem' \in [Proc -> LVS \union {Absent}]
  <2>1. ip # NoIP => Allocated(l, ip) \in LVS
    BY <1>1, LeadsWith
  <2>2. \/ elem' = [elem EXCEPT ![p] = l]
        \/ ip # NoIP /\ elem' = [elem EXCEPT ![p] = Allocated(l, ip)]
    BY <1>1 DEF Leads, Refused, Kept, Published, Failed
  <2> QED
    BY <1>2, <2>1, <2>2 DEF CoreInv, TypeOK
<1>5. file' \in [Proc -> Files \union {Absent}]
  <2>1. ip # NoIP => \A f \in Rendered(Allocated(l, ip)) : f \in Files
    <3> SUFFICES ASSUME ip # NoIP
                 PROVE  \A f \in Rendered(Allocated(l, ip)) : f \in Files
      OBVIOUS
    <3>1. /\ Allocated(l, ip) \in LVS /\ Allocated(l, ip).VIP > 0
          /\ Allocated(l, ip).Port > 0
      BY <1>1, LeadsWith
    <3> QED
      BY <1>2, <3>1, FilesOf
  <2>2. \/ UNCHANGED file
        \/ ip # NoIP /\ \E f \in Rendered(Allocated(l, ip)) : file' = [file EXCEPT ![p] = f]
    BY <1>1 DEF Leads, Refused, Kept, Published, Failed
  <2> QED
    BY <2>1, <2>2 DEF CoreInv, TypeOK
<1>6. \/ UNCHANGED <<stored, byManager>>
      \/ /\ stored' = Marshal(Allocated(l, ip)) /\ byManager' = TRUE
         /\ ip # NoIP
  BY <1>1 DEF Leads, Refused, Kept, Published, Failed
<1>7. ASSUME stored' = Marshal(Allocated(l, ip)), ip # NoIP
      PROVE  Text(stored') /\ stored' # Absent /\ Read(stored').VIP = ip
  <2>1. /\ Allocated(l, ip) \in LVS /\ Allocated(l, ip).VIP = ip
    BY <1>1, <1>7, LeadsWith
  <2>2. ZeroLVS.VIP = NoIP /\ "VIP" \in Fields
    BY ZeroFields DEF Fields
  <2> QED
    BY <1>7, <2>1, <2>2, ReadBack, MarshalIs DEF Text, Read
<1>8. Text(stored') /\ byManager' \in BOOLEAN /\ event' \subseteq Proc
  <2>1. byManager' \in BOOLEAN /\ event' \subseteq Proc
    BY <1>1 DEF Leads, Refused, Kept, Published, Failed, CoreInv, TypeOK
  <2>2. Text(stored')
    BY <1>6, <1>7 DEF CoreInv, TypeOK
  <2> QED
    BY <2>1, <2>2
<1>9. {changes, puts, ipamFaults, putFaults, restarts, takeovers}' \subseteq Nat
  <2>1. puts' \in Nat /\ putFaults' \in Nat
    BY <1>1 DEF Leads, Refused, Kept, Published, Failed, CoreInv, TypeOK
  <2> QED
    BY <1>3, <2>1 DEF CoreInv, TypeOK
<1>10. /\ ListInv'
       /\ \A q \in Proc : \A i \in DOMAIN listings'[q] : Text(listings'[q][i])
  BY TakeCore
<1>11. TypeOK'
  <2>1. conf' \in LBConfs \union {Absent} /\ leader' \in Proc \union {Absent}
    BY DEF CoreInv, TypeOK
  <2> QED
    BY <1>3, <1>4, <1>5, <1>8, <1>9, <1>10, <2>1 DEF TypeOK
<1>12. ASSUME HasRange(conf), byManager'
       PROVE  stored' # Absent /\ Read(stored').VIP \in R(conf)!Addresses
  <2>1. CASE UNCHANGED <<stored, byManager>>
    BY <1>12, <2>1 DEF CoreInv, OwnedInv
  <2>2. CASE stored' = Marshal(Allocated(l, ip)) /\ ip # NoIP
    BY <1>3, <1>7, <1>12, <2>2
  <2> QED
    BY <1>6, <2>1, <2>2
<1> QED
  BY <1>3, <1>10, <1>11, <1>12, SameConf

(***************************************************************************)
(* A follower renders what has an address and a port.                      *)
(***************************************************************************)
LEMMA FollowCore ==
    ASSUME CoreInv, conf # Absent, NEW p \in Proc, listings[p] # <<>>,
           listings' = [listings EXCEPT ![p] = Tail(@)],
           NEW json, Text(json), NEW l \in Parsed(json), l # Absent, Follow(p, l),
           UNCHANGED <<conf, leader, changes, restarts, takeovers>>
    PROVE  CoreInv'
<1>1. conf \in LBConfs /\ l \in LVS /\ CheckPort(l) /\ CheckVIP(l)
  BY PortBaseIs, ParsedIs
<1>2. elem' \in [Proc -> LVS \union {Absent}]
  BY <1>1 DEF Follow, CoreInv, TypeOK
<1>3. file' \in [Proc -> Files \union {Absent}]
  <2>1. CASE checkValid(l)
    <3>1. l.VIP > 0 /\ l.Port > 0
      BY <1>1, <2>1, FieldsOf DEF checkValid, CheckPort, CheckVIP, ParseIP
    <3>2. \A f \in Rendered(l) : f \in Files
      BY <1>1, <3>1, FilesOf
    <3> QED
      BY <2>1, <3>2 DEF Follow, CoreInv, TypeOK
  <2>2. CASE ~ checkValid(l)
    BY <2>2 DEF Follow, CoreInv, TypeOK
  <2> QED
    BY <2>1, <2>2
<1>4. /\ ListInv'
      /\ \A q \in Proc : \A i \in DOMAIN listings'[q] : Text(listings'[q][i])
  BY TakeCore
<1>5. UNCHANGED <<stored, byManager, owned, event, puts, ipamFaults, putFaults>>
  BY DEF Follow, etcd
<1>6. TypeOK'
  BY <1>2, <1>3, <1>4, <1>5 DEF CoreInv, TypeOK
<1> QED
  BY <1>4, <1>5, <1>6, SameConf DEF CoreInv, OwnedInv

(***************************************************************************)
(* Every step keeps the core invariant.                                    *)
(***************************************************************************)
LEMMA CoreStep ==
    ASSUME CoreInv, [Next]_vars
    PROVE  CoreInv'
<1>1. ASSUME NEW p \in Proc, Handle(p)
      PROVE  CoreInv'
  <2>1. PICK l \in Parsed(listings[p][1]) :
          /\ \/ l \in {Absent, elem[p]} /\ Skip
             \/ l # Absent /\ p = leader /\ Lead(p, l)
             \/ l # Absent /\ p # leader /\ Follow(p, l)
          /\ conf # Absent /\ UNCHANGED <<conf, leader, changes, restarts, takeovers>>
          /\ Text(listings[p][1])
          /\ listings[p] # <<>> /\ Short(listings[p])
          /\ listings' = [listings EXCEPT ![p] = Tail(@)]
    BY <1>1, HandleIs
  <2>2. CASE Skip
    <3>1. /\ ListInv'
          /\ \A q \in Proc : \A i \in DOMAIN listings'[q] : Text(listings'[q][i])
      BY <2>1, TakeCore
    <3>2. UNCHANGED <<stored, byManager, owned, event, elem, file, puts, ipamFaults, putFaults>>
      BY <2>2 DEF Skip, etcd
    <3>3. TypeOK'
      BY <2>1, <3>1, <3>2 DEF CoreInv, TypeOK
    <3> QED
      BY <2>1, <3>1, <3>2, <3>3, SameConf DEF CoreInv, OwnedInv
  <2>3. CASE l # Absent /\ Lead(p, l)
    BY <2>1, <2>3, LeadCore
  <2>4. CASE l # Absent /\ Follow(p, l)
    BY <2>1, <2>4, FollowCore
  <2> QED
    BY <2>1, <2>2, <2>3, <2>4
<1>2. ASSUME NEW p \in Proc, Restart(p)
      PROVE  CoreInv'
  <2>1. /\ UNCHANGED <<conf, stored, byManager, owned, file>> /\ conf # Absent
        /\ elem' = [elem EXCEPT ![p] = Absent]
        /\ listings' = [listings EXCEPT ![p] = <<>>]
    BY <1>2 DEF Restart, etcd
  <2>2. {changes, puts, ipamFaults, putFaults, restarts, takeovers}' \subseteq Nat
    BY <1>2 DEF Restart, CoreInv, TypeOK
  <2>3. elem' \in [Proc -> LVS \union {Absent}]
    BY <2>1 DEF CoreInv, TypeOK
  <2>4. event' \subseteq Proc /\ leader' \in Proc \union {Absent}
    BY <1>2 DEF Restart, Leaders, CoreInv, TypeOK
  <2>5. \A q \in Proc : listings'[q] = IF q = p THEN <<>> ELSE listings[q]
    BY <2>1 DEF CoreInv, ListInv
  <2>6. \A q \in Proc : \A i \in DOMAIN listings'[q] : Text(listings'[q][i])
    BY <2>5 DEF CoreInv, TypeOK
  <2>7. ListInv'
    BY <2>1, <2>5 DEF CoreInv, ListInv, Short
  <2>8. TypeOK'
    BY <2>1, <2>2, <2>3, <2>4, <2>6 DEF CoreInv, TypeOK
  <2> QED
    BY <2>1, <2>7, <2>8, SameConf DEF CoreInv, OwnedInv
<1>3. ASSUME NEW p \in Proc, NewRole(p)
      PROVE  CoreInv'
  <2>1. /\ UNCHANGED <<conf, stored, byManager, owned, file, listings>>
        /\ conf # Absent
        /\ elem' \in {elem, [elem EXCEPT ![p] = Absent]}
    BY <1>3 DEF NewRole, etcd
  <2>2. {changes, puts, ipamFaults, putFaults, restarts, takeovers}' \subseteq Nat
    BY <1>3 DEF NewRole, CoreInv, TypeOK
  <2>3. elem' \in [Proc -> LVS \union {Absent}]
    BY <2>1 DEF CoreInv, TypeOK
  <2>4. event' \subseteq Proc /\ leader' \in Proc \union {Absent}
    BY <1>3 DEF NewRole, Leaders, CoreInv, TypeOK
  <2>5. ListInv'
    BY <2>1 DEF CoreInv, ListInv
  <2>6. TypeOK'
    BY <2>1, <2>2, <2>3, <2>4 DEF CoreInv, TypeOK
  <2> QED
    BY <2>1, <2>5, <2>6, SameConf DEF CoreInv, OwnedInv
<1>4. CASE UNCHANGED vars
  <2>1. UNCHANGED <<conf, stored, byManager, owned, leader, event, listings,
                    elem, file, changes, puts, ipamFaults, putFaults,
                    restarts, takeovers>>
    BY <1>4 DEF vars, etcd, counters
  <2>2. TypeOK'
    BY <2>1 DEF CoreInv, TypeOK
  <2>3. ConfInv' /\ EmptyInv' /\ ListInv'
    BY <2>1 DEF CoreInv, ConfInv, EmptyInv, ListInv
  <2>4. OwnedInv'
    BY <2>1 DEF CoreInv, OwnedInv, HasRange, Read
  <2> QED
    BY <2>2, <2>3, <2>4 DEF CoreInv
<1> QED
  BY <1>1, <1>2, <1>3, <1>4, ReadConfCore, UserPutCore, ListCore DEF Next

(***************************************************************************)
(* The types of the state, and what is read, allocated and written has     *)
(* them.                                                                   *)
(***************************************************************************)
THEOREM TypeCorrect == Spec => []TypeOK
<1>1. Init => CoreInv
  BY CoreInit
<1>2. CoreInv /\ [Next]_vars => CoreInv'
  BY CoreStep
<1>3. CoreInv => TypeOK
  BY DEF CoreInv
<1> QED
  BY <1>1, <1>2, <1>3, PTL DEF Spec

(***************************************************************************)
(* The addresses a load balancer has and the one the manager publishes are *)
(* hosts of the configured subnet, for every CIDR that leaves an address   *)
(* to hand out; nothing is claimed for the others, which the allocator     *)
(* accepts as well.                                                        *)
(***************************************************************************)
THEOREM HostVIPHolds == Spec => []HostVIP
<1>1. Init => CoreInv
  BY CoreInit
<1>2. CoreInv /\ [Next]_vars => CoreInv'
  BY CoreStep
<1>3. CoreInv => HostVIP
  <2> SUFFICES ASSUME CoreInv, conf # Absent, HasRange(conf)
               PROVE  /\ \A ip \in owned : Host(ip)
                      /\ byManager => Host(Read(stored).VIP)
    BY DEF HostVIP, Read
  <2>1. conf \in LBConfs /\ conf.SubnetCIDR.size >= 4
    BY PortBaseIs DEF CoreInv, ConfInv, NewIPAllocator
  <2>2. \A ip \in R(conf)!Addresses : Host(ip)
    BY <2>1, HostAddress DEF Host
  <2> QED
    BY <2>2 DEF CoreInv, OwnedInv
<1> QED
  BY <1>1, <1>2, <1>3, PTL DEF Spec

-----------------------------------------------------------------------------
(* The writes of the manager.                                              *)

(***************************************************************************)
(* The leader writes an object only if its text had no address or no port, *)
(* and what it writes has both: they survive json and the defaults.        *)
(***************************************************************************)
LEMMA LeadCleans ==
    ASSUME CoreInv, conf # Absent, NEW json, Text(json),
           NEW l \in Parsed(json), l # Absent,
           NEW ip, ip # NoIP, RequireIP(l.VIP, ip)
    PROVE  /\ NeedsUpdate(l, Allocated(l, ip)) => Unclean(json)
           /\ ~ Unclean(Marshal(Allocated(l, ip)))
<1> DEFINE lvs == Allocated(l, ip)
           m   == Read(Marshal(lvs))
<1>1. /\ json # Absent /\ l \in LVS
      /\ l.VIP = Read(json).VIP /\ l.Port = Read(json).Port
  BY ParsedIs
<1>2. /\ lvs \in LVS /\ lvs.VIP = ip /\ lvs.Port > 0 /\ ip \in Int
      /\ lvs.Port = IF l.Port = 0 THEN conf.PortBase + (ip % 256) ELSE l.Port
  <2>1. lvs \in LVS /\ lvs.VIP = ip /\ lvs.Port > 0 /\ ip \in Int
    BY LeadsWith
  <2>2. conf \in LBConfs
    BY PortBaseIs
  <2> QED
    BY <1>1, <2>1, <2>2, AllocatedIs
<1>3. NeedsUpdate(l, lvs) => Unclean(json)
  <2> SUFFICES ASSUME l.VIP # NoIP, l.Port # 0 PROVE ~ NeedsUpdate(l, lvs)
    BY <1>1 DEF Unclean
  <2>1. l.VIP \in Int
    BY <1>1, FieldsOf
  <2>2. ip = l.VIP
    BY <2>1, RequireIPIs
  <2> QED
    BY <1>2, <2>2 DEF NeedsUpdate
<1>4. ~ Unclean(Marshal(lvs))
  <2>1. ZeroLVS.VIP = NoIP /\ ZeroLVS.Port = 0
    BY ZeroFields
  <2>2. m.VIP = ip /\ m.Port = lvs.Port
    <3>1. lvs.Port # 0
      BY <1>2, FieldsOf
    <3> QED
      BY <1>2, <2>1, <3>1, ReadBack DEF Fields, Read
  <2>3. lvs.Port # 0
    BY <1>2, FieldsOf
  <2> QED
    BY <2>2, <2>3 DEF Unclean
<1> QED
  BY <1>3, <1>4

(***************************************************************************)
(* The potential is two at most.                                           *)
(***************************************************************************)
LEMMA PotentialIs == Potential \in 0 .. 2
BY DueIs DEF Potential

(***************************************************************************)
(* Every step keeps the count.                                             *)
(***************************************************************************)
LEMMA OnceStep ==
    ASSUME CoreInv, CoreInv', OnceInv, [Next]_vars
    PROVE  OnceInv'
<1> SUFFICES ASSUME takeovers' = 0
             PROVE  puts' + Potential' <= 2 * changes' + putFaults'
  BY DEF OnceInv
<1>1. /\ puts \in Nat /\ changes \in Nat /\ putFaults \in Nat /\ takeovers \in Nat
      /\ puts' \in Nat /\ changes' \in Nat /\ putFaults' \in Nat
  BY DEF CoreInv, TypeOK
<1>2. PICK x \in 0 .. 2, y \in 0 .. 2 : Potential = x /\ Potential' = y
  <2>1. Potential' \in 0 .. 2
    BY DueIs DEF Potential
  <2> QED
    BY <2>1, PotentialIs
<1>3. takeovers = 0 => puts + Potential <= 2 * changes + putFaults
  BY DEF OnceInv
<1>4. ASSUME Potential' <= Potential,
             UNCHANGED <<puts, changes, putFaults, takeovers>>
      PROVE  puts' + Potential' <= 2 * changes' + putFaults'
  BY <1>1, <1>2, <1>3, <1>4
<1>5. ASSUME UNCHANGED <<stored, leader, listings, puts, changes, putFaults, takeovers>>
      PROVE  puts' + Potential' <= 2 * changes' + putFaults'
  <2>1. Potential' = Potential
    BY <1>5 DEF Potential
  <2> QED
    BY <1>1, <1>2, <1>3, <1>5, <2>1
<1>6. CASE UNCHANGED vars
  BY <1>5, <1>6 DEF vars, etcd, counters
<1>7. ASSUME NEW text \in Configs, ReadConf(text)
      PROVE  puts' + Potential' <= 2 * changes' + putFaults'
  BY <1>5, <1>7 DEF ReadConf, etcd, counters
<1>8. ASSUME NEW json, UserPut(json)
      PROVE  puts' + Potential' <= 2 * changes' + putFaults'
  <2>1. changes' = changes + 1 /\ UNCHANGED <<puts, putFaults, takeovers>>
    BY <1>8 DEF UserPut
  <2> QED
    BY <1>1, <1>2, <1>3, <2>1
<1>9. ASSUME NEW p \in Proc, List(p)
      PROVE  puts' + Potential' <= 2 * changes' + putFaults'
  <2>1. UNCHANGED <<stored, leader, puts, changes, putFaults, takeovers>>
    BY <1>9 DEF List, etcd, counters
  <2>2. Due(listings'[p]) = Due(listings[p]) + One(stored)
    <3>1. /\ Short(listings[p]) /\ Len(listings[p]) < 2
          /\ listings'[p] = Append(listings[p], stored)
      BY <1>9, ListIs
    <3> DEFINE s == listings[p]
    <3>2. Due(Append(s, stored)) = Due(s) + One(stored)
      <4>1. Short(s) /\ Len(s) < 2
        BY <3>1
      <4> HIDE DEF s
      <4> QED
        BY <4>1, AppendIs
    <3> QED
      BY <3>1, <3>2
  <2>3. ~ Unclean(stored) => Due(listings'[p]) = Due(listings[p])
    BY <2>2, DueIs DEF One
  <2>4. \A q \in Proc \ {p} : listings'[q] = listings[q]
    BY <1>9, ListIs
  <2>5. Potential' = Potential
    BY <2>1, <2>3, <2>4 DEF Potential
  <2> QED
    BY <1>1, <1>2, <1>4, <2>1, <2>5
<1>10. ASSUME NEW p \in Proc, Restart(p)
       PROVE  puts' + Potential' <= 2 * changes' + putFaults'
  <2>1. /\ UNCHANGED <<stored, puts, changes, putFaults, takeovers>>
        /\ leader' \in {p, leader, Absent}
        /\ leader' = leader \/ leader' \in {p, Absent}
    BY <1>10 DEF Restart, Leaders, etcd
  <2>2. \A q \in Proc : listings'[q] = IF q = p THEN <<>> ELSE listings[q]
    BY <1>10 DEF Restart, CoreInv, ListInv
  <2>3. Absent \notin Proc
    BY PublicationAssumption
  <2>4. Due(<<>>) = 0 /\ \A s : Due(s) \in 0 .. 2
    BY DueIs
  <2>5. Potential' <= Potential
    <3>1. CASE Unclean(stored)
      BY <2>1, <3>1 DEF Potential
    <3>2. CASE ~ Unclean(stored) /\ leader' \in {p, Absent}
      BY <1>2, <2>1, <2>2, <2>3, <2>4, <3>2 DEF Potential
    <3>3. CASE ~ Unclean(stored) /\ leader' \notin {p, Absent}
      <4>1. Potential' = Potential
        BY <2>1, <2>2, <3>3 DEF Potential
      <4> QED
        BY <1>2, <4>1
    <3> QED
      BY <3>1, <3>2, <3>3
  <2> QED
    BY <1>4, <2>1, <2>5
<1>11. ASSUME NEW p \in Proc, NewRole(p)
       PROVE  FALSE
  BY <1>1, <1>11 DEF NewRole
<1>12. ASSUME NEW p \in Proc, Handle(p)
       PROVE  puts' + Potential' <= 2 * changes' + putFaults'
  <2>1. PICK l \in Parsed(listings[p][1]) :
          /\ \/ l \in {Absent, elem[p]} /\ Skip
             \/ l # Absent /\ p = leader /\ Lead(p, l)
             \/ l # Absent /\ p # leader /\ Follow(p, l)
          /\ conf # Absent /\ UNCHANGED <<conf, leader, changes, restarts, takeovers>>
          /\ Text(listings[p][1])
          /\ listings[p] # <<>> /\ Short(listings[p])
          /\ listings' = [listings EXCEPT ![p] = Tail(@)]
    BY <1>12, HandleIs
  <2>2. /\ listings'[p] = Tail(listings[p])
        /\ \A q \in Proc \ {p} : listings'[q] = listings[q]
    BY <2>1, TakeCore
  <2>3. Due(listings[p]) = Due(listings'[p]) + One(listings[p][1])
    BY <2>1, <2>2, TailIs
  <2>4. /\ Due(listings[p]) \in 0 .. 2 /\ Due(listings'[p]) \in 0 .. 2
        /\ One(listings[p][1]) \in {0, 1}
    BY DueIs DEF One
  <2>5. ASSUME UNCHANGED stored
        PROVE  Potential' <= Potential
    <3>1. CASE leader = p
      BY <2>1, <2>3, <2>4, <2>5, <3>1 DEF Potential
    <3>2. CASE leader # p
      <4>1. Potential' = Potential
        BY <2>1, <2>2, <2>5, <3>2 DEF Potential
      <4> QED
        BY <1>2, <4>1
    <3> QED
      BY <3>1, <3>2
  <2>6. CASE Skip \/ Follow(p, l)
    BY <1>4, <2>1, <2>5, <2>6 DEF Skip, Follow, etcd
  <2>7. CASE l # Absent /\ p = leader /\ Lead(p, l)
    <3>1. PICK ip : RequireIP(l.VIP, ip) /\ Leads(p, l, ip)
      BY <2>7, LeadIs
    <3>2. ip # NoIP =>
            /\ NeedsUpdate(l, Allocated(l, ip)) => Unclean(listings[p][1])
            /\ ~ Unclean(Marshal(Allocated(l, ip)))
      BY <2>1, <2>7, <3>1, LeadCleans
    <3>3. CASE Refused(p, l, ip) \/ Kept(p, l, ip)
      BY <1>4, <2>1, <2>5, <3>3 DEF Refused, Kept
    <3>4. CASE Failed(p, l, ip)
      <4>1. /\ puts' = puts + 1 /\ putFaults' = putFaults + 1
            /\ UNCHANGED <<changes, takeovers>>
        BY <2>1, <3>4 DEF Failed
      <4>2. Potential' <= Potential
        BY <2>5, <3>4 DEF Failed
      <4> QED
        BY <1>1, <1>2, <1>3, <4>1, <4>2
    <3>5. CASE Published(p, l, ip)
      <4>1. /\ puts' = puts + 1 /\ putFaults' \in {putFaults, putFaults + 1}
            /\ UNCHANGED <<changes, takeovers>>
        BY <2>1, <3>5 DEF Published
      <4>2. Unclean(listings[p][1]) /\ ~ Unclean(stored')
        BY <3>2, <3>5 DEF Published
      <4>3. Due(listings[p]) = Due(listings'[p]) + 1
        BY <2>3, <4>2 DEF One
      <4>4. y + 1 <= x
        <5>1. Potential' = Due(listings'[p])
          BY <2>1, <2>7, <4>2 DEF Potential
        <5>2. Potential = IF Unclean(stored) THEN 2 ELSE Due(listings[p])
          BY <2>7 DEF Potential
        <5> QED
          BY <1>2, <2>4, <4>3, <5>1, <5>2
      <4>5. CASE putFaults' = putFaults
        BY <1>1, <1>2, <1>3, <4>1, <4>4, <4>5
      <4>6. CASE putFaults' = putFaults + 1
        BY <1>1, <1>2, <1>3, <4>1, <4>4, <4>6
      <4> QED
        BY <4>1, <4>5, <4>6
    <3> QED
      BY <3>1, <3>3, <3>4, <3>5 DEF Leads
  <2> QED
    BY <2>1, <2>6, <2>7
<1> QED
  BY <1>6, <1>7, <1>8, <1>9, <1>10, <1>11, <1>12 DEF Next

(***************************************************************************)
(* A write of a user causes two of the manager at most, a failed write one *)
(* more, however far the producers are ahead and however often processes   *)
(* restart.                                                                *)
(***************************************************************************)
THEOREM PutsBoundedHolds == Spec => []PutsBounded
<1>1. Init => CoreInv /\ OnceInv
  <2> SUFFICES ASSUME Init PROVE OnceInv
    BY CoreInit
  <2>1. /\ stored = Absent /\ puts = 0 /\ changes = 0 /\ putFaults = 0
        /\ leader \in Proc /\ listings[leader] = <<>>
    BY DEF Init
  <2>2. Potential = 0
    BY <2>1, DueIs DEF Potential, Unclean
  <2> QED
    BY <2>1, <2>2 DEF OnceInv
<1>2. CoreInv /\ OnceInv /\ [Next]_vars => CoreInv' /\ OnceInv'
  BY CoreStep, OnceStep
<1>3. CoreInv /\ OnceInv => PutsBounded
  <2> SUFFICES ASSUME CoreInv, OnceInv, takeovers = 0
               PROVE  puts <= 2 * changes + putFaults
    BY DEF PutsBounded
  <2>1. puts \in Nat /\ changes \in Nat /\ putFaults \in Nat
    BY DEF CoreInv, TypeOK
  <2>2. Potential \in 0 .. 2 /\ puts + Potential <= 2 * changes + putFaults
    BY PotentialIs DEF OnceInv
  <2> QED
    BY <2>1, <2>2
<1> QED
  BY <1>1, <1>2, <1>3, PTL DEF Spec

-----------------------------------------------------------------------------
(* The group of a file.                                                    *)

(***************************************************************************)
(* The lookups for two lists with the same addresses may return the same.  *)
(***************************************************************************)
LEMMA SameLookups ==
    ASSUME NEW s, NEW r, DOMAIN s = DOMAIN r, \A i \in DOMAIN s : s[i].IP = r[i].IP
    PROVE  Lookups(conf, s) = Lookups(conf, r)
<1>1. \A i \in DOMAIN s :
        GetLAddrGroupName(conf, s[i].IP) = GetLAddrGroupName(conf, r[i].IP)
  OBVIOUS
<1>2. UNION {GetLAddrGroupName(conf, s[i].IP) : i \in DOMAIN s}
      = UNION {GetLAddrGroupName(conf, r[i].IP) : i \in DOMAIN r}
  BY <1>1
<1> QED
  BY <1>1, <1>2 DEF Lookups

(***************************************************************************)
(* What Parse accepts has its servers in one group.                        *)
(***************************************************************************)
LEMMA ParsedServers ==
    ASSUME NEW json, Text(json), NEW o \in Parsed(json), o # Absent
    PROVE  \E g \in Lookups(conf, o.Servers) : SameGroup(g)
<1> DEFINE r == Read(json)
<1>1. r \in LVS /\ o = Validated(r)
  BY ParsedIs
<1>2. PICK g \in Lookups(conf, r.Servers) : Parses(r, g)
  BY ParsedIs
<1>3. SameGroup(g)
  BY <1>2 DEF Parses, Validate
<1> HIDE DEF r
<1>4. /\ DOMAIN o.Servers = DOMAIN r.Servers
      /\ \A i \in DOMAIN o.Servers : o.Servers[i].IP = r.Servers[i].IP
  <2>1. /\ DOMAIN o.Servers = DOMAIN r.Servers
        /\ \A i \in DOMAIN r.Servers :
              o.Servers[i] = Weighted(r.Servers[i]) /\ r.Servers[i] \in Backend
    BY <1>1, ValidatedIs, FieldsOf, ServersOf
  <2> QED
    BY <2>1, WeightedIs
<1>5. Lookups(conf, o.Servers) = Lookups(conf, r.Servers)
  BY <1>4, SameLookups
<1> QED
  BY <1>2, <1>3, <1>5

(***************************************************************************)
(* Every step keeps what is known of the files.                            *)
(***************************************************************************)
LEMMA FileStep ==
    ASSUME CoreInv, FileInv, [Next]_vars
    PROVE  FileInv'
<1>1. CASE UNCHANGED <<conf, file>>
  BY <1>1 DEF FileInv
<1>2. ASSUME NEW text \in Configs, ReadConf(text)
      PROVE  FileInv'
  BY <1>2 DEF ReadConf, CoreInv, EmptyInv, FileInv
<1>3. ASSUME NEW p \in Proc, NEW json, Text(json), NEW o \in Parsed(json),
             o # Absent, UNCHANGED conf,
             NEW l \in LVS, l.Servers = o.Servers,
             NEW f \in Rendered(l), file' = [file EXCEPT ![p] = f],
             conf # Absent
      PROVE  FileInv'
  <2>1. conf \in LBConfs /\ file \in [Proc -> Files \union {Absent}]
    BY <1>3, PortBaseIs DEF CoreInv, TypeOK
  <2>2. /\ f.lvs.Servers = o.Servers
        /\ o.Servers # <<>> =>
              f.LAddrGroup \in GetLAddrGroupName(conf, o.Servers[1].IP)
    BY <1>3, <2>1, RenderedIs
  <2>3. \E g \in Lookups(conf, o.Servers) : SameGroup(g)
    BY <1>3, ParsedServers
  <2> QED
    BY <1>3, <2>1, <2>2, <2>3 DEF FileInv
<1>4. ASSUME NEW p \in Proc, Handle(p)
      PROVE  FileInv'
  <2> DEFINE json == listings[p][1]
  <2>1. PICK l \in Parsed(json) :
          /\ \/ Skip
             \/ l # Absent /\ Lead(p, l)
             \/ l # Absent /\ Follow(p, l)
          /\ conf # Absent /\ UNCHANGED conf /\ Text(json)
    BY <1>4, HandleIs
  <2> HIDE DEF json
  <2>2. CASE UNCHANGED file
    BY <1>1, <2>1, <2>2
  <2>3. CASE l # Absent /\ Follow(p, l)
    <3>1. l \in LVS
      BY <2>1, <2>3, ParsedIs
    <3>2. UNCHANGED file \/ \E f \in Rendered(l) : file' = [file EXCEPT ![p] = f]
      BY <2>3 DEF Follow
    <3> QED
      BY <1>3, <2>1, <2>2, <2>3, <3>1, <3>2
  <2>4. CASE l # Absent /\ Lead(p, l)
    <3>1. PICK ip : RequireIP(l.VIP, ip) /\ Leads(p, l, ip)
      BY <2>4, LeadIs
    <3>2. \/ UNCHANGED file
          \/ /\ ip # NoIP
             /\ \E f \in Rendered(Allocated(l, ip)) : file' = [file EXCEPT ![p] = f]
      BY <3>1 DEF Leads, Refused, Kept, Published, Failed
    <3>3. ASSUME ip # NoIP
          PROVE  Allocated(l, ip) \in LVS /\ Allocated(l, ip).Servers = l.Servers
      <4>1. l \in LVS /\ ip \in Int /\ conf \in LBConfs
        BY <2>1, <2>4, <3>1, <3>3, LeadsWith, PortBaseIs
      <4> QED
        BY <4>1, AllocatedIs DEF Fields
    <3> QED
      BY <1>3, <2>1, <2>2, <2>4, <3>2, <3>3
  <2> QED
    BY <2>1, <2>2, <2>3, <2>4 DEF Skip
<1>5. ASSUME UNCHANGED vars \/ (\E json : UserPut(json))
             \/ (\E p \in Proc : List(p) \/ Restart(p) \/ NewRole(p))
      PROVE  UNCHANGED <<conf, file>>
  BY <1>5 DEF UserPut, List, Restart, NewRole, vars
<1> QED
  BY <1>1, <1>2, <1>4, <1>5 DEF Next

(***************************************************************************)
(* The servers of a file are in the network of the group it names.         *)
(***************************************************************************)
THEOREM ServersInGroupHolds == Spec => []ServersInGroup
<1>1. Init => CoreInv /\ FileInv
  BY CoreInit DEF Init, FileInv
<1>2. CoreInv /\ FileInv /\ [Next]_vars => CoreInv' /\ FileInv'
  BY CoreStep, FileStep
<1>3. CoreInv /\ FileInv => ServersInGroup
  <2> SUFFICES ASSUME CoreInv, FileInv, Disjoint,
                      NEW p \in Proc, file[p] # Absent,
                      NEW i \in DOMAIN file[p].lvs.Servers
               PROVE  \E grp \in laddr(conf) :
                         /\ grp.Name = file[p].LAddrGroup
                         /\ file[p].lvs.Servers[i].IP \in grp.DestCIDR
    BY DEF ServersInGroup
  <2> DEFINE s == file[p].lvs.Servers
  <2>1. conf # Absent
    BY DEF CoreInv, EmptyInv
  <2>2. conf \in LBConfs
    BY <2>1, PortBaseIs
  <2>3. s \in Backends
    <3>1. file[p].lvs \in LVS
      BY DEF CoreInv, TypeOK, Files
    <3> QED
      BY <3>1, FieldsOf
  <2>4. s # <<>>
    BY <2>3, ServersOf
  <2>5. /\ file[p].LAddrGroup \in GetLAddrGroupName(conf, s[1].IP)
        /\ \E g \in Lookups(conf, s) : SameGroup(g)
    BY <2>4 DEF FileInv
  <2> HIDE DEF s
  <2>6. \E grp \in laddr(conf) :
           grp.Name = file[p].LAddrGroup /\ s[i].IP \in grp.DestCIDR
    BY <2>2, <2>3, <2>5, SameGroupIs DEF s
  <2> QED
    BY <2>6 DEF s
<1> QED
  BY <1>1, <1>2, <1>3, PTL DEF Spec

-----------------------------------------------------------------------------
(* What is published is accepted.                                          *)

(***************************************************************************)
(* An object that Parse accepts is accepted with its address and port once *)
(* it has been written and read: no field is missing, and the default in   *)
(* place of a zero value is valid where the zero value was.                *)
(***************************************************************************)
LEMMA ReadsBackValid ==
    ASSUME conf \in LBConfs, NEW r \in LVS, NEW h, Parses(r, h),
           NEW l \in LVS, NEW ip \in Int,
           l = Validated(r), ip > 0, CheckPort(Allocated(l, ip))
    PROVE  LET m == Unmarshal(Marshal(Allocated(l, ip)), NewLVS)
           IN  /\ m \in LVS
               /\ DOMAIN m.Servers = DOMAIN r.Servers
               /\ \A i \in DOMAIN r.Servers : m.Servers[i] = Weighted(r.Servers[i])
               /\ Parses(m, h)
<1> DEFINE lvs == Allocated(l, ip)
           m   == Unmarshal(Marshal(lvs), NewLVS)
<1>1. /\ lvs \in LVS /\ lvs.VIP = ip
      /\ \A f \in Fields \ {"VIP", "Port"} : lvs[f] = l[f]
  BY AllocatedIs
<1>2. \A f \in Fields \ {"VIP", "Port", "Servers"} : lvs[f] = r[f]
  BY <1>1, ValidatedIs
<1>3. /\ m \in LVS
      /\ \A f \in Fields : m[f] = IF lvs[f] = ZeroLVS[f] THEN NewLVS[f] ELSE lvs[f]
  BY <1>1, ReadBack
<1> HIDE DEF m, lvs
<1> DEFINE Back(f) == IF r[f] = ZeroLVS[f] THEN NewLVS[f] ELSE r[f]
<1>4. \A f \in Fields \ {"VIP", "Port", "Servers"} : m[f] = Back(f)
  BY <1>2, <1>3
<1>5. /\ m.Type = Back("Type") /\ m.Name = Back("Name")
      /\ m.ClusterName = Back("ClusterName") /\ m.Protocol = Back("Protocol")
      /\ m.Strategy = Back("Strategy") /\ m.Check = Back("Check")
      /\ m.URLPath = Back("URLPath") /\ m.Interval = Back("Interval")
      /\ m.Timeout = Back("Timeout") /\ m.MaxRetries = Back("MaxRetries")
      /\ m.Delay = Back("Delay")
  <2> HIDE DEF Back
  <2> QED
    BY <1>4 DEF Fields
<1>6. /\ m.Type = IF r.Type = "" THEN "l4" ELSE r.Type
      /\ m.Name = r.Name /\ m.ClusterName = r.ClusterName
      /\ m.Protocol = IF r.Protocol = "" THEN "TCP" ELSE r.Protocol
  BY <1>5, ZeroFields, NewFields
<1>7. /\ m.Strategy = IF r.Strategy = "" THEN "rr" ELSE r.Strategy
      /\ m.Check = IF r.Check = "" THEN "TCP" ELSE r.Check
      /\ m.URLPath = IF r.URLPath = "" THEN "/" ELSE r.URLPath
  BY <1>5, ZeroFields, NewFields
<1>8. /\ r.Interval > 0 => m.Interval = r.Interval
      /\ r.Timeout > 0 => m.Timeout = r.Timeout
      /\ r.MaxRetries > 0 => m.MaxRetries = r.MaxRetries
      /\ r.Delay > 0 => m.Delay = r.Delay
  <2>1. \A x : x > 0 => x # 0
    OBVIOUS
  <2>2. /\ r.Interval # 0 => m.Interval = r.Interval
        /\ r.Timeout # 0 => m.Timeout = r.Timeout
        /\ r.MaxRetries # 0 => m.MaxRetries = r.MaxRetries
        /\ r.Delay # 0 => m.Delay = r.Delay
    BY <1>5, ZeroFields
  <2> QED
    BY <2>1, <2>2
<1>9. m.VIP = ip /\ m.Port = lvs.Port
  <2>1. /\ m.VIP = IF lvs.VIP = ZeroLVS.VIP THEN NewLVS.VIP ELSE lvs.VIP
        /\ m.Port = IF lvs.Port = ZeroLVS.Port THEN NewLVS.Port ELSE lvs.Port
    BY <1>3 DEF Fields
  <2> QED
    BY <1>1, <2>1, ZeroFields, NewFields
<1>10. m.Servers = lvs.Servers /\ lvs.Servers = l.Servers
  <2>1. m.Servers = IF lvs.Servers = ZeroLVS.Servers THEN NewLVS.Servers
                    ELSE lvs.Servers
    BY <1>3 DEF Fields
  <2>2. lvs.Servers = l.Servers
    BY <1>1 DEF Fields
  <2> QED
    BY <2>1, <2>2, ZeroFields, NewFields
<1>11. /\ DOMAIN m.Servers = DOMAIN r.Servers
      /\ \A i \in DOMAIN r.Servers : m.Servers[i] = Weighted(r.Servers[i])
  BY <1>10, ValidatedIs
<1>12. Validate(r, h) /\ r.ClusterName = conf.ClusterName /\ r.Name = Key
  BY DEF Parses
<1>13. LBCommonCheckValid(m) /\ m.Type = "l4"
  BY <1>6, <1>12 DEF Validate, LBCommonCheckValid
<1>14. CheckVIP(m) /\ CheckPort(m)
  BY <1>9 DEF CheckVIP, CheckPort, ParseIP, lvs
<1>15. CheckProtocol(m)
  BY <1>6, <1>7, <1>12 DEF Validate, CheckProtocol, CheckL4
<1>16. LVSConfCheckValid(m)
  BY <1>7, <1>12 DEF Validate, LVSConfCheckValid, strategyOpts
<1>17. CheckL4(m)
  BY <1>7, <1>8, <1>12, ValidationAssumption DEF Validate, CheckL4
<1>18. \A i \in DOMAIN m.Servers : BackendCheckValid(m.Servers[i])
  <2>1. \A i \in DOMAIN r.Servers : r.Servers[i] \in Backend
    BY FieldsOf, ServersOf
  <2> QED
    BY <1>11, <1>12, <2>1, WeightedIs DEF Validate
<1>19. SameGroup(h)
  BY <1>12 DEF Validate
<1>20. Parses(m, h)
  BY <1>6, <1>12, <1>13, <1>14, <1>15, <1>16, <1>17, <1>18, <1>19
     DEF Parses, Validate
<1> QED
  BY <1>3, <1>11, <1>20 DEF m, lvs

(***************************************************************************)
(* Every step keeps what the manager wrote last acceptable.                *)
(***************************************************************************)
LEMMA PublishedStep ==
    ASSUME CoreInv, PublishedIsValid, [Next]_vars
    PROVE  PublishedIsValid'
<1>1. CASE UNCHANGED <<conf, stored, byManager>>
  BY <1>1 DEF PublishedIsValid, Parsed, Parses, Disjoint
<1>2. CASE ~ byManager'
  BY <1>2 DEF PublishedIsValid
<1>3. ASSUME NEW p \in Proc, NEW json, Text(json), NEW l \in Parsed(json),
             l # Absent, Lead(p, l), conf # Absent, UNCHANGED conf
      PROVE  PublishedIsValid'
  <2>1. PICK ip : RequireIP(l.VIP, ip) /\ Leads(p, l, ip)
    BY <1>3, LeadIs
  <2>2. CASE Published(p, l, ip)
    <3> DEFINE r == Read(json)
    <3> SUFFICES ASSUME (conf.PortBase + 255 <= 65535)', Disjoint'
                 PROVE  (Absent \notin Parsed(stored))'
      BY DEF PublishedIsValid
    <3>1. conf.PortBase + 255 <= 65535 /\ Disjoint
      BY <1>3 DEF Disjoint
    <3>2. conf \in LBConfs /\ ip \in Int /\ ip > 0 /\ l \in LVS /\ ip # NoIP
      <4>1. ip # NoIP
        BY <2>2 DEF Published
      <4>2. ip \in Nat /\ ip > 0 /\ l \in LVS
        BY <1>3, <2>1, <4>1, LeadsWith
      <4> QED
        BY <1>3, <4>1, <4>2, PortBaseIs
    <3>3. /\ r \in LVS /\ l = Validated(r)
          /\ \E g \in Lookups(conf, r.Servers) : Parses(r, g)
      BY <1>3, ParsedIs
    <3> HIDE DEF r
    <3>4. PICK h \in Lookups(conf, r.Servers) : Parses(r, h)
      BY <3>3
    <3>5. CheckPort(Allocated(l, ip))
      <4>1. CheckPort(l) /\ ip \in Nat
        BY <1>3, <3>2, ParsedIs
      <4> QED
        BY <1>3, <3>1, <3>2, <4>1, AllocatedPort
    <3> DEFINE m == Unmarshal(Marshal(Allocated(l, ip)), NewLVS)
    <3>6. /\ m \in LVS
          /\ DOMAIN m.Servers = DOMAIN r.Servers
          /\ \A i \in DOMAIN r.Servers : m.Servers[i] = Weighted(r.Servers[i])
          /\ Parses(m, h)
      BY <3>2, <3>3, <3>4, <3>5, ReadsBackValid
    <3>7. Validated(m) # Absent
      BY <3>6, ValidatedIs, PublicationAssumption
    <3>8. ASSUME NEW g \in Lookups(conf, m.Servers)
          PROVE  g = h
      <4>1. \A i \in DOMAIN m.Servers : m.Servers[i].IP = r.Servers[i].IP
        BY <3>3, <3>6, FieldsOf, ServersOf, WeightedIs
      <4> QED
        BY <3>1, <3>4, <3>6, <3>8, <4>1, OneLookup
    <3>9. Absent \notin
            {IF Parses(m, g) THEN Validated(m) ELSE Absent :
                g \in Lookups(conf, m.Servers)}
      BY <3>6, <3>7, <3>8
    <3>10. stored' = Marshal(Allocated(l, ip)) /\ stored' # Absent
      <4>1. Allocated(l, ip) \in LVS
        BY <3>2, AllocatedIs
      <4> QED
        BY <2>2, <4>1, MarshalIs DEF Published
    <3> QED
      BY <1>3, <3>9, <3>10 DEF Parsed, Parses
  <2> QED
    BY <1>1, <1>3, <2>1, <2>2 DEF Leads, Refused, Kept, Failed
<1>4. ASSUME NEW p \in Proc, Handle(p)
      PROVE  PublishedIsValid'
  <2> DEFINE json == listings[p][1]
  <2>1. PICK l \in Parsed(json) :
          /\ \/ Skip
             \/ l # Absent /\ Lead(p, l)
             \/ Follow(p, l)
          /\ conf # Absent /\ UNCHANGED conf /\ Text(json)
    BY <1>4, HandleIs
  <2> HIDE DEF json
  <2> QED
    BY <1>1, <1>3, <2>1 DEF Skip, Follow, etcd
<1>5. ASSUME NEW text \in Configs, ReadConf(text)
      PROVE  PublishedIsValid'
  BY <1>2, <1>5 DEF ReadConf, CoreInv, EmptyInv, etcd
<1>6. ASSUME UNCHANGED vars \/ (\E p \in Proc : List(p) \/ Restart(p) \/ NewRole(p))
      PROVE  UNCHANGED <<conf, stored, byManager>>
  BY <1>6 DEF List, Restart, NewRole, vars, etcd
<1>7. ASSUME NEW json, UserPut(json)
      PROVE  ~ byManager'
  BY <1>7 DEF UserPut
<1> QED
  BY <1>1, <1>2, <1>4, <1>5, <1>6, <1>7 DEF Next

(***************************************************************************)
(* Every process accepts what the manager has written, if portBase leaves  *)
(* room for the last byte of an address and no groups overlap.             *)
(***************************************************************************)
THEOREM PublishedIsValidHolds == Spec => []PublishedIsValid
<1>1. Init => CoreInv /\ PublishedIsValid
  BY CoreInit DEF Init, PublishedIsValid
<1>2. CoreInv /\ PublishedIsValid /\ [Next]_vars => CoreInv' /\ PublishedIsValid'
  BY CoreStep, PublishedStep
<1> QED
  BY <1>1, <1>2, PTL DEF Spec

-----------------------------------------------------------------------------
(* The processes agree.                                                    *)

(***************************************************************************)
(* An object that needs no update is kept as it is.                        *)
(***************************************************************************)
LEMMA KeptIs ==
    ASSUME conf \in LBConfs, NEW l \in LVS, NEW ip \in Int,
           ~ NeedsUpdate(l, Allocated(l, ip))
    PROVE  Allocated(l, ip) = l
<1>1. /\ Allocated(l, ip) \in LVS
      /\ \A f \in Fields \ {"VIP", "Port"} : Allocated(l, ip)[f] = l[f]
  BY AllocatedIs
<1>2. Allocated(l, ip).VIP = l.VIP /\ Allocated(l, ip).Port = l.Port
  BY DEF NeedsUpdate
<1>3. \A f \in Fields : Allocated(l, ip)[f] = l[f]
  BY <1>1, <1>2
<1> QED
  BY <1>1, <1>3, SameObject

(***************************************************************************)
(* What handling a listing does to a process that has no event: if it was  *)
(* the last one it is what etcd has, and Elem has what was parsed of it.   *)
(***************************************************************************)
LEMMA HandledIsCurrent ==
    ASSUME CoreInv, NEW p \in Proc, listings[p] # <<>>,
           listings' = [listings EXCEPT ![p] = Tail(@)],
           UNCHANGED <<conf, stored>>, listings[p][Len(listings[p])] = stored,
           listings[p][1] = stored => elem'[p] \in Parsed(stored)
    PROVE  Current(p)'
<1> DEFINE s == listings[p]
           t == listings'[p]
<1>1. Short(s) /\ s # <<>> /\ t = Tail(s)
  BY TakeCore DEF CoreInv, ListInv
<1> HIDE DEF s, t
<1>2. /\ t = <<>> => s[Len(s)] = s[1]
      /\ t # <<>> => t[Len(t)] = s[Len(s)]
  BY <1>1, TailIs
<1>3. Parsed(stored)' = Parsed(stored)
  BY DEF Parsed, Parses
<1>4. t = <<>> => elem'[p] \in Parsed(stored)'
  BY <1>2, <1>3 DEF s
<1>5. t # <<>> => t[Len(t)] = stored'
  BY <1>2 DEF s
<1> QED
  BY <1>4, <1>5 DEF Current, t

(***************************************************************************)
(* A process that does nothing keeps its place.                            *)
(***************************************************************************)
LEMMA OthersAreCurrent ==
    ASSUME NEW q, Current(q), UNCHANGED <<conf, stored>>,
           listings'[q] = listings[q], elem'[q] = elem[q]
    PROVE  Current(q)'
<1>1. Parsed(stored)' = Parsed(stored)
  BY DEF Parsed, Parses
<1> QED
  BY <1>1 DEF Current

(***************************************************************************)
(* The files depend on the configuration.                                  *)
(***************************************************************************)
LEMMA RenderedSame ==
    ASSUME UNCHANGED conf, NEW l
    PROVE  Rendered(l)' = Rendered(l)
BY DEF Rendered

(***************************************************************************)
(* Handling a listing keeps the agreement of the processes without events: *)
(* the one that handles it has what it has parsed in Elem, unless it has   *)
(* written the object, which is an event for all.                          *)
(***************************************************************************)
LEMMA HandleCurrent ==
    ASSUME CoreInv, AgreeInv, Calm, NEW p \in Proc, listings[p] # <<>>,
           listings' = [listings EXCEPT ![p] = Tail(@)], UNCHANGED conf,
           NEW l \in Parsed(listings[p][1]),
           \/ event' = Proc
           \/ /\ UNCHANGED <<stored, event>>
              /\ l # Absent => elem'[p] = l
              /\ \A q \in Proc \ {p} : elem'[q] = elem[q]
    PROVE  (stored # Absent /\ Absent \notin Parsed(stored))'
              => \A q \in Proc \ event' : Current(q)'
<1> SUFFICES ASSUME UNCHANGED <<stored, event>>, l # Absent => elem'[p] = l,
                    \A q \in Proc \ {p} : elem'[q] = elem[q],
                    stored # Absent, (Absent \notin Parsed(stored))',
                    NEW q \in Proc \ event
             PROVE  Current(q)'
  OBVIOUS
<1>1. Parsed(stored)' = Parsed(stored)
  BY DEF Parsed, Parses
<1>2. Absent \notin Parsed(stored) /\ Current(q)
  BY <1>1 DEF AgreeInv
<1>3. CASE q = p
  <2>1. listings[p][Len(listings[p])] = stored
    BY <1>2, <1>3 DEF Current
  <2>2. listings[p][1] = stored => elem'[p] \in Parsed(stored)
    BY <1>2
  <2> QED
    BY <1>3, <2>1, <2>2, HandledIsCurrent
<1>4. CASE q # p
  <2>1. listings'[q] = listings[q] /\ elem'[q] = elem[q]
    BY <1>4, TakeCore
  <2> QED
    BY <1>2, <2>1, OthersAreCurrent
<1> QED
  BY <1>3, <1>4

(***************************************************************************)
(* A leader that nothing fails for takes what it has parsed, with the      *)
(* address ipam has for it then, and renders it; or it is refused and has  *)
(* no address.                                                             *)
(***************************************************************************)
LEMMA LeadAgrees ==
    ASSUME CoreInv, AgreeInv, conf # Absent, listings[leader] # <<>>,
           listings' = [listings EXCEPT ![leader] = Tail(@)],
           Text(listings[leader][1]), NEW l \in Parsed(listings[leader][1]),
           l # Absent, leader \in Proc, Lead(leader, l),
           UNCHANGED <<conf, leader, changes, restarts, takeovers>>, Calm'
    PROVE  AgreeInv'
<1>1. PICK ip : RequireIP(l.VIP, ip) /\ Leads(leader, l, ip)
  BY LeadIs
<1>2. /\ ipamFaults \in Nat /\ putFaults \in Nat /\ putFaults + 1 # 0
      /\ elem \in [Proc -> LVS \union {Absent}]
      /\ file \in [Proc -> Files \union {Absent}]
  BY DEF CoreInv, TypeOK
<1>3. putFaults = 0 /\ restarts = 0 /\ takeovers = 0
  BY <1>1, <1>2 DEF Calm, Leads, Refused, Kept, Published, Failed
<1>4. l \in LVS /\ l.VIP \in Int /\ conf \in LBConfs
  BY ParsedIs, FieldsOf, PortBaseIs
<1>5. ipamFaults = 0
  <2>1. ipamFaults' \in {ipamFaults, ipamFaults + 1}
    BY <1>1 DEF RequireIP
  <2> QED
    BY <1>2, <2>1 DEF Calm
<1>6. Calm
  BY <1>3, <1>5 DEF Calm
<1>7. \A a, b \in owned : a = b
  BY <1>6 DEF AgreeInv, LeaderInv
<1>8. owned' = IF ip = NoIP THEN {} ELSE {ip}
  BY <1>1, <1>4, <1>7, RequireIPCalm DEF Calm
<1>9. \A q \in Proc \ {leader} : elem'[q] = elem[q] /\ file'[q] = file[q]
  BY <1>1, <1>2 DEF Leads, Refused, Kept, Published, Failed
<1>10. \A q \in Proc \ {leader} : FollowerInv(q)'
  BY <1>6, <1>9, RenderedSame DEF AgreeInv, FollowerInv
<1>11. LeaderInv'
  <2> SUFFICES ASSUME ip # NoIP
               PROVE  /\ elem'[leader].VIP = ip /\ elem'[leader].Port # 0
                      /\ file'[leader] \in Rendered(elem'[leader])
    BY <1>8, RenderedSame DEF LeaderInv
  <2>1. /\ Allocated(l, ip) \in LVS
        /\ Allocated(l, ip).VIP = ip /\ Allocated(l, ip).Port > 0
    BY <1>1, LeadsWith
  <2>2. Allocated(l, ip).Port # 0
    BY <2>1, FieldsOf
  <2>3. /\ elem'[leader] = Allocated(l, ip)
        /\ \E f \in Rendered(Allocated(l, ip)) : file'[leader] = f
    BY <1>1, <1>2, <1>3 DEF Calm, Leads, Refused, Kept, Published, Failed
  <2> QED
    BY <2>1, <2>2, <2>3
<1>12. \/ event' = Proc
       \/ /\ UNCHANGED <<stored, event>>
          /\ elem'[leader] = l
  <2>1. CASE Refused(leader, l, ip)
    BY <1>2, <2>1 DEF Refused
  <2>2. CASE Kept(leader, l, ip)
    <3>1. ip \in Int
      BY <1>1, <2>2, LeadsWith DEF Kept
    <3>2. Allocated(l, ip) = l
      BY <1>4, <2>2, <3>1, KeptIs DEF Kept
    <3> QED
      BY <1>2, <2>2, <3>2 DEF Kept
  <2>3. CASE Published(leader, l, ip)
    BY <2>3 DEF Published
  <2>4. CASE Failed(leader, l, ip)
    BY <1>2, <1>3, <2>4 DEF Failed, Calm
  <2> QED
    BY <1>1, <2>1, <2>2, <2>3, <2>4 DEF Leads
<1>13. (stored # Absent /\ Absent \notin Parsed(stored))'
          => \A q \in Proc \ event' : Current(q)'
  BY <1>6, <1>9, <1>12, HandleCurrent
<1> QED
  BY <1>10, <1>11, <1>13 DEF AgreeInv

(***************************************************************************)
(* A follower takes what it has parsed and renders it if it has an address *)
(* and a port.                                                             *)
(***************************************************************************)
LEMMA FollowAgrees ==
    ASSUME CoreInv, AgreeInv, NEW p \in Proc, p # leader, listings[p] # <<>>,
           listings' = [listings EXCEPT ![p] = Tail(@)],
           NEW l \in Parsed(listings[p][1]), Follow(p, l),
           UNCHANGED <<conf, leader, changes, restarts, takeovers>>, Calm'
    PROVE  AgreeInv'
<1>1. /\ elem \in [Proc -> LVS \union {Absent}]
      /\ file \in [Proc -> Files \union {Absent}]
  BY DEF CoreInv, TypeOK
<1>2. /\ elem'[p] = l
      /\ UNCHANGED <<stored, owned, event, ipamFaults, putFaults>>
      /\ \A q \in Proc \ {p} : elem'[q] = elem[q] /\ file'[q] = file[q]
      /\ checkValid(l) => file'[p] \in Rendered(l)
  BY <1>1 DEF Follow, etcd
<1>3. Calm
  BY <1>2 DEF Calm
<1>4. \A q \in Proc \ {leader} : FollowerInv(q)'
  BY <1>2, <1>3, RenderedSame DEF AgreeInv, FollowerInv
<1>5. LeaderInv'
  BY <1>2, <1>3, RenderedSame DEF AgreeInv, LeaderInv
<1>6. (stored # Absent /\ Absent \notin Parsed(stored))'
         => \A q \in Proc \ event' : Current(q)'
  BY <1>2, <1>3, HandleCurrent
<1> QED
  BY <1>4, <1>5, <1>6 DEF AgreeInv

(***************************************************************************)
(* And every other step.                                                   *)
(***************************************************************************)
LEMMA AgreeStep ==
    ASSUME CoreInv, AgreeInv, [Next]_vars
    PROVE  AgreeInv'
<1> SUFFICES ASSUME Calm'
             PROVE  AgreeInv'
  BY DEF AgreeInv
<1>1. restarts \in Nat /\ takeovers \in Nat
  BY DEF CoreInv, TypeOK
<1>2. ASSUME UNCHANGED <<conf, leader, elem, file, owned, ipamFaults, putFaults,
                         restarts, takeovers>>,
             (stored # Absent /\ Absent \notin Parsed(stored))'
                => \A q \in Proc \ event' : Current(q)'
      PROVE  AgreeInv'
  <2>1. Calm
    BY <1>2 DEF Calm
  <2>2. \A q \in Proc \ {leader} : FollowerInv(q)'
    BY <1>2, <2>1, RenderedSame DEF AgreeInv, FollowerInv
  <2>3. LeaderInv'
    BY <1>2, <2>1, RenderedSame DEF AgreeInv, LeaderInv
  <2> QED
    BY <1>2, <2>2, <2>3 DEF AgreeInv
<1>3. CASE UNCHANGED vars
  <2>1. UNCHANGED <<conf, stored, leader, listings, event, elem, file, owned,
                    ipamFaults, putFaults, restarts, takeovers>>
    BY <1>3 DEF vars, etcd, counters
  <2>2. Calm /\ Parsed(stored)' = Parsed(stored)
    BY <2>1 DEF Calm, Parsed, Parses
  <2>3. (stored # Absent /\ Absent \notin Parsed(stored))'
           => \A q \in Proc \ event' : Current(q)'
    BY <2>1, <2>2, OthersAreCurrent DEF AgreeInv
  <2> QED
    BY <1>2, <2>1, <2>3
<1>4. ASSUME NEW text \in Configs, ReadConf(text)
      PROVE  AgreeInv'
  <2>1. /\ conf = Absent
        /\ UNCHANGED <<stored, leader, elem, file, owned, ipamFaults, putFaults,
                       restarts, takeovers>>
    BY <1>4 DEF ReadConf, etcd, counters
  <2>2. /\ stored = Absent /\ owned = {}
        /\ \A q \in Proc : elem[q] = Absent
    BY <2>1 DEF CoreInv, EmptyInv
  <2>3. leader \in Proc
    BY <2>1 DEF Calm, AgreeInv, LeaderInv
  <2>4. \A q \in Proc \ {leader} : FollowerInv(q)'
    BY <2>1, <2>2 DEF FollowerInv
  <2>5. LeaderInv'
    BY <2>1, <2>2, <2>3 DEF LeaderInv
  <2> QED
    BY <2>1, <2>2, <2>4, <2>5 DEF AgreeInv
<1>5. ASSUME NEW json, UserPut(json)
      PROVE  AgreeInv'
  BY <1>2, <1>5 DEF UserPut
<1>6. ASSUME NEW p \in Proc, List(p)
      PROVE  AgreeInv'
  <2>1. UNCHANGED <<conf, stored, leader, elem, file, owned, ipamFaults,
                    putFaults, restarts, takeovers>> /\ event' = event \ {p}
    BY <1>6 DEF List, etcd, counters
  <2>2. Calm /\ Parsed(stored)' = Parsed(stored)
    BY <2>1 DEF Calm, Parsed, Parses
  <2>3. Current(p)'
    <3> DEFINE s == listings[p]
               t == listings'[p]
    <3>1. Short(s) /\ Len(s) < 2 /\ t = Append(s, stored)
      BY <1>6, ListIs
    <3> HIDE DEF s, t
    <3>2. t # <<>> /\ t[Len(t)] = stored
      BY <3>1, AppendIs
    <3> QED
      BY <2>1, <3>2 DEF Current, t
  <2>4. ASSUME (stored # Absent /\ Absent \notin Parsed(stored))',
               NEW q \in Proc \ event', q # p
        PROVE  Current(q)'
    <3>1. Current(q)
      BY <2>1, <2>2, <2>4 DEF AgreeInv
    <3>2. listings'[q] = listings[q]
      BY <1>6, <2>4, ListIs
    <3> QED
      BY <2>1, <3>1, <3>2, OthersAreCurrent
  <2> QED
    BY <1>2, <2>1, <2>3, <2>4
<1>7. ASSUME NEW p \in Proc, Restart(p) \/ NewRole(p)
      PROVE  FALSE
  BY <1>1, <1>7 DEF Restart, NewRole, Calm
<1>8. ASSUME NEW p \in Proc, Handle(p)
      PROVE  AgreeInv'
  <2>1. PICK l \in Parsed(listings[p][1]) :
          /\ \/ l \in {Absent, elem[p]} /\ Skip
             \/ l # Absent /\ p = leader /\ Lead(p, l)
             \/ l # Absent /\ p # leader /\ Follow(p, l)
          /\ conf # Absent /\ UNCHANGED <<conf, leader, changes, restarts, takeovers>>
          /\ Text(listings[p][1])
          /\ listings[p] # <<>> /\ Short(listings[p])
          /\ listings' = [listings EXCEPT ![p] = Tail(@)]
    BY <1>8, HandleIs
  <2>2. CASE l \in {Absent, elem[p]} /\ Skip
    <3>1. UNCHANGED <<stored, event, elem, file, owned, ipamFaults, putFaults>>
      BY <2>2 DEF Skip, etcd
    <3>2. Calm
      BY <2>1, <3>1 DEF Calm
    <3>3. (stored # Absent /\ Absent \notin Parsed(stored))'
             => \A q \in Proc \ event' : Current(q)'
      BY <2>1, <2>2, <3>1, <3>2, HandleCurrent
    <3> QED
      BY <1>2, <2>1, <3>1, <3>3
  <2>3. CASE l # Absent /\ p = leader /\ Lead(p, l)
    BY <2>1, <2>3, LeadAgrees
  <2>4. CASE l # Absent /\ p # leader /\ Follow(p, l)
    BY <2>1, <2>4, FollowAgrees
  <2> QED
    BY <2>1, <2>2, <2>3, <2>4
<1> QED
  BY <1>3, <1>4, <1>5, <1>6, <1>7, <1>8 DEF Next

(***************************************************************************)
(* When all listings have been handled, every process has the file         *)
(* rendered from what etcd has, if the load balancer has the address etcd  *)
(* says and nothing has failed.                                            *)
(***************************************************************************)
THEOREM AgreementHolds == Spec => []Agreement
<1>1. Init => CoreInv /\ AgreeInv
  <2> SUFFICES ASSUME Init PROVE AgreeInv
    BY CoreInit
  <2>1. /\ leader \in Proc /\ stored = Absent /\ owned = {}
        /\ \A p \in Proc : elem[p] = Absent
    BY DEF Init
  <2> QED
    BY <2>1 DEF AgreeInv, LeaderInv, FollowerInv
<1>2. CoreInv /\ AgreeInv /\ [Next]_vars => CoreInv' /\ AgreeInv'
  BY CoreStep, AgreeStep
<1>3. CoreInv /\ AgreeInv => Agreement
  <2> SUFFICES ASSUME CoreInv, AgreeInv, Quiet,
                      stored # Absent, Absent \notin Parsed(stored),
                      Read(stored).VIP \in owned,
                      NEW p \in Proc
               PROVE  \E o \in Parsed(stored) : file[p] \in Rendered(o)
    BY DEF Agreement, Read
  <2>1. Calm /\ event = {} /\ \A q \in Proc : listings[q] = <<>>
    BY DEF Quiet, Calm
  <2>2. /\ LeaderInv /\ leader \in Proc
        /\ \A q \in Proc \ {leader} : FollowerInv(q)
        /\ \A q \in Proc : elem[q] \in Parsed(stored) /\ elem[q] # Absent
    BY <2>1 DEF AgreeInv, Current, LeaderInv
  <2>3. \A q \in Proc : elem[q] = Validated(Read(stored))
    BY <2>2, ParsedIs DEF CoreInv, TypeOK
  <2>4. elem[leader].VIP \in owned /\ elem[leader].Port # 0
    BY <2>2 DEF LeaderInv
  <2>5. elem[p] = elem[leader]
    BY <2>2, <2>3
  <2>6. checkValid(elem[p])
    BY <2>4, <2>5 DEF checkValid, CoreInv, TypeOK
  <2>7. file[p] \in Rendered(elem[p])
    BY <2>2, <2>6 DEF LeaderInv, FollowerInv
  <2> QED
    BY <2>2, <2>7
<1> QED
  BY <1>1, <1>2, <1>3, PTL DEF Spec

=============================================================================
