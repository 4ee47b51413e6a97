----------------------------- MODULE Validation -----------------------------
(***************************************************************************)
(* What the process accepts: the checks on its own configuration           *)
(* (pkg/conf) and on the load balancers users write (pkg/lbm types.go and  *)
(* lvsconf.go), with the defaults that fill in what is left out.           *)
(*                                                                         *)
(* A JSON object is a function from the fields it gives to their values,   *)
(* nested structures flattened.  A check is TRUE when the code returns no  *)
(* error; which error comes first makes no difference to the caller.       *)
(***************************************************************************)
EXTENDS Integers, Sequences

CONSTANTS
    TooLong,   \* a name of more than MaxLen characters
    Rooted     \* the strings that start with "/"

\* The second conjunct is a law of TLA+, said for the provers: the literals
\* below are strings.
ASSUME ValidationAssumption ==
    /\ "/" \in Rooted
    /\ {"", "/", "l4", "l7", "TCP", "HTTP", "rr", "FNAT"} \subseteq STRING

\* Addresses are positive numbers, their last byte is what % 256 leaves.
NoIP  == 0     \* the empty string
BadIP == -1    \* a string net.ParseIP refuses

ParseIP(ip) == ip > 0

CheckName(name) == name \notin {"", TooLong}

Port(p) == 1 <= p /\ p <= 65535

\* json.Unmarshal into an object that holds the defaults.
Unmarshal(json, new) ==
    [f \in DOMAIN new |-> IF f \in DOMAIN json THEN json[f] ELSE new[f]]

-----------------------------------------------------------------------------
(* pkg/conf.                                                               *)

\* A string net.ParseCIDR refuses.  A CIDR is the address it is written with
\* and its size.
NoCIDR == [ip |-> 0, size |-> 0]

LocalAddrConf == [Name : STRING, DestCIDR : SUBSET Nat]

LocalAddrConfs == Seq(LocalAddrConf)

\* The structures LBConf, L4Conf, Keepalived and LVSStats.
LBConfs ==
    [Type : STRING, StorePrefix : STRING, ClusterName : STRING,
     ConfDir : BOOLEAN, SubnetName : STRING,
     SubnetCIDR : [ip : Nat, size : Nat], PortBase : Int, ReloadTime : Int,
     MiscScript : BOOLEAN, ResultPath : STRING, StatsPort : Int,
     LAddr : LocalAddrConfs]

\* The literal in Init.  ConfDir and MiscScript say whether the file exists.
LBConf ==
    [Type |-> "", StorePrefix |-> "", ClusterName |-> "", ConfDir |-> FALSE,
     SubnetName |-> "", SubnetCIDR |-> NoCIDR, PortBase |-> 10000,
     ReloadTime |-> 5, MiscScript |-> FALSE,
     ResultPath |-> "/var/run/lvs_stats", StatsPort |-> 33611,
     LAddr |-> <<>>]

KeepalivedCheckValid(c) == c.ReloadTime > 0 /\ c.MiscScript

LVSStatsCheckValid(c) == c.ResultPath \in Rooted /\ Port(c.StatsPort)

\* DestCIDR is the set of its addresses; one that does not parse has none.
LocalAddrConfCheckValid(l) == l.Name # "" /\ l.DestCIDR # {}

PortBaseCheckValid(c) == 5000 <= c.PortBase /\ c.PortBase <= 65535

L4ConfCheckValid(c) ==
    /\ c.SubnetName # ""
    /\ c.SubnetCIDR # NoCIDR
    /\ PortBaseCheckValid(c)
    /\ KeepalivedCheckValid(c)
    /\ LVSStatsCheckValid(c)
    /\ Len(c.LAddr) > 0
    /\ \A i \in DOMAIN c.LAddr : LocalAddrConfCheckValid(c.LAddr[i])

LBConfCheckValid(c) ==
    /\ c.Type \in {"l4", "l7"}
    /\ c.StorePrefix \in Rooted
    /\ c.ClusterName # ""
    /\ c.ConfDir
    /\ c.Type = "l4" => L4ConfCheckValid(c)

\* The map laddr: of two groups with one name the later one stays.
laddr(c) ==
    LET Last(i) == \A j \in DOMAIN c.LAddr :
                      j > i => c.LAddr[j].Name # c.LAddr[i].Name
    IN  {c.LAddr[i] : i \in {j \in DOMAIN c.LAddr : Last(j)}}

(***************************************************************************)
(* GetLAddrGroupName ranges over a map, in an order that differs from call *)
(* to call: the names it may return.  The error is the empty name.         *)
(***************************************************************************)
GetLAddrGroupName(c, ip) ==
    LET found == {g \in laddr(c) : ip \in g.DestCIDR}
    IN  IF found = {} THEN {""} ELSE {g.Name : g \in found}

\* What the lookups for a list of servers may return.
Lookups(c, servers) ==
    {g \in [DOMAIN servers -> UNION {GetLAddrGroupName(c, servers[i].IP) :
                                        i \in DOMAIN servers}] :
        \A i \in DOMAIN servers : g[i] \in GetLAddrGroupName(c, servers[i].IP)}

-----------------------------------------------------------------------------
(* Load balancers of both types.                                           *)

Names == STRING \union {TooLong}

Backend == [IP : Int, Port : Int, Weight : Int]

Backends == Seq(Backend)

BackendCheckValid(b) == ParseIP(b.IP) /\ Port(b.Port) /\ b.Weight >= 0

\* The copy that CheckValid has completed.
Weighted(b) == IF b.Weight = 0 THEN [b EXCEPT !.Weight = 100] ELSE b

LBCommonCheckValid(l) ==
    l.Type \in {"l4", "l7"} /\ CheckName(l.Name) /\ CheckName(l.ClusterName)

CheckVIP(l) == l.VIP # NoIP => ParseIP(l.VIP)

-----------------------------------------------------------------------------
(* L4.                                                                     *)

\* The structures LVS, LBCommon, LVSConf and HealthCheck.
LVS ==
    [Type : STRING, Name : Names, ClusterName : Names, Protocol : STRING,
     VIP : Int, Port : Int,
     Strategy : STRING, Kind : STRING, PersistenceTimeout : Nat,
     SynProxy : BOOLEAN, BPSLimit : Nat, CPSLimit : Nat,
     Check : STRING, URLPath : STRING, StatusCode : Int, Interval : Int,
     Timeout : Int, MaxRetries : Int, Delay : Int,
     Servers : Backends]

NewLVS ==
    [Type |-> "l4", Name |-> "", ClusterName |-> "", Protocol |-> "TCP",
     VIP |-> NoIP, Port |-> 0,
     Strategy |-> "rr", Kind |-> "FNAT", PersistenceTimeout |-> 0,
     SynProxy |-> FALSE, BPSLimit |-> 0, CPSLimit |-> 0,
     Check |-> "TCP", URLPath |-> "/", StatusCode |-> 200, Interval |-> 7,
     Timeout |-> 10, MaxRetries |-> 2, Delay |-> 5,
     Servers |-> <<>>]

\* The zero values, which "omitempty" leaves out of the JSON text.
ZeroLVS ==
    [NewLVS EXCEPT !.Type = "", !.Protocol = "", !.Strategy = "", !.Kind = "",
                   !.Check = "", !.URLPath = "", !.StatusCode = 0,
                   !.Interval = 0, !.Timeout = 0, !.MaxRetries = 0, !.Delay = 0]

Marshal(l) == [f \in {g \in DOMAIN l : l[g] # ZeroLVS[g]} |-> l[f]]

strategyOpts == {"rr", "wrr", "dh", "sh", "sed", "nq", "lc", "wlc", "lblc", "lblcr"}

\* LVSConf.CheckValid: an algorithm, or else a kind, that is known ends it.
\* What follows the test of the algorithm:
LimitsCheckValid(l) ==
    /\ l.PersistenceTimeout <= 10000
    /\ \/ l.Kind = "FNAT"
       \/ l.Kind = "" /\ l.BPSLimit <= 10000 /\ l.CPSLimit <= 20000

LVSConfCheckValid(l) ==
    \/ l.Strategy \in strategyOpts
    \/ l.Strategy = "" /\ LimitsCheckValid(l)

CheckL4(l) ==
    /\ l.Check \in {"TCP", "HTTP", "MISC"}
    /\ l.Check = "HTTP" => l.URLPath \in Rooted
    /\ l.Interval > 0 /\ l.Timeout > 0 /\ l.MaxRetries > 0 /\ l.Delay > 0

CheckPort(l) == 0 <= l.Port /\ l.Port <= 65535

CheckProtocol(l) ==
    /\ l.Protocol \in {"TCP", "UDP"}
    /\ l.Protocol = "TCP" => l.Check # "MISC"
    /\ l.Protocol = "UDP" => l.Check = "MISC"

\* Seeded fault: every server is found in some group, not all in one.
SameGroup_Any(g) == \A i \in DOMAIN g : g[i] # ""

\* Every lookup succeeds and returns what the first has returned.
SameGroup(g) == \A i \in DOMAIN g : g[i] # "" /\ g[i] = g[1]

\* LVS.Validate, g being what its lookups return.
Validate(l, g) ==
    /\ LBCommonCheckValid(l)
    /\ l.Type = "l4"
    /\ CheckVIP(l)
    /\ CheckPort(l)
    /\ CheckProtocol(l)
    /\ LVSConfCheckValid(l)
    /\ CheckL4(l)
    /\ \A i \in DOMAIN l.Servers : BackendCheckValid(l.Servers[i])
    /\ SameGroup(g)

\* The object Validate leaves: its servers have a weight.
Validated(l) ==
    [l EXCEPT !.Servers = [i \in DOMAIN @ |-> Weighted(@[i])]]

-----------------------------------------------------------------------------
(* L7.                                                                     *)

\* The structures Pool, Location and Nginx.
Pool ==
    [Name : Names, Strategy : STRING, Enable : BOOLEAN, Cookie : Names,
     Servers : Backends]

Location == [URIPath : STRING, PoolName : Names]

Locations == Seq(Location)

Nginx ==
    [Type : STRING, Name : Names, ClusterName : Names, Protocol : STRING,
     VIP : Int, Port : Int, Timeout : Int, MaxRetries : Int,
     Pools : Seq(Pool), Locations : Locations]

NewNginx ==
    [Type |-> "l7", Name |-> "", ClusterName |-> "", Protocol |-> "HTTP",
     VIP |-> NoIP, Port |-> 0, Timeout |-> 10, MaxRetries |-> 2,
     Pools |-> <<>>, Locations |-> <<>>]

CheckL7(n) == n.Timeout >= 0 /\ n.MaxRetries >= 0

NginxStrategy == {"round_robin", "least_conn"}

SessionCheckValid(p) == p.Enable => CheckName(p.Cookie)

\* Pool.CheckValid: a session that is refused ends it without an error.
PoolCheckValid(p) ==
    /\ CheckName(p.Name)
    /\ p.Strategy \in NginxStrategy
    /\ SessionCheckValid(p) =>
          /\ Len(p.Servers) > 0
          /\ \A i \in DOMAIN p.Servers : BackendCheckValid(p.Servers[i])

LocationCheckValid(loc) == loc.URIPath \in Rooted \union {""}

HasPool(n, loc) == \E i \in DOMAIN n.Pools : n.Pools[i].Name = loc.PoolName

\* The locations the loop of Nginx.Validate comes to and accepts; at the
\* first one that CheckValid refuses it ends without an error.
Visited(n) ==
    {i \in DOMAIN n.Locations :
        \A j \in 1 .. i : LocationCheckValid(n.Locations[j])}

NginxValidate(n) ==
    /\ LBCommonCheckValid(n)
    /\ n.Type = "l7"
    /\ CheckVIP(n)
    /\ Port(n.Port)
    /\ n.Protocol \in {"HTTP", "TCP", "UDP"}
    /\ CheckL7(n)
    /\ \A i \in DOMAIN n.Pools : PoolCheckValid(n.Pools[i])
    /\ \A i \in Visited(n) : HasPool(n, n.Locations[i])

\* The object Nginx.Validate leaves: what it visited has a path.
NginxValidated(n) ==
    [n EXCEPT !.Locations =
        [i \in DOMAIN @ |->
            IF i \in Visited(n) /\ @[i].URIPath = ""
            THEN [@[i] EXCEPT !.URIPath = "/"] ELSE @[i]]]

=============================================================================
