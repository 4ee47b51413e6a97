---------------------------- MODULE MCPublication ----------------------------
(***************************************************************************)
(* Instances of Publication for TLC: the fields a configuration and an     *)
(* object give, varied around ones that are accepted.                      *)
(***************************************************************************)
EXTENDS Publication, TLC

CONSTANTS p1, p2

AbsolutePaths == {"/", "/etc/lb", "/var/run/lvs_stats"}

\* The address 10.11.a.b is 256 * a + b; 700 and 800 are servers of two
\* networks.
Group(name, cidr) == [Name |-> name, DestCIDR |-> cidr]

Groups == << Group("g1", 700 .. 701), Group("g2", 800 .. 801) >>

\* 10.11.1.252/30: the VIPs are 10.11.1.253 and 10.11.1.254.
Conf ==
    [Type |-> "l4", StorePrefix |-> "/etc/lb", ClusterName |-> "c",
     ConfDir |-> TRUE, SubnetName |-> "vip",
     SubnetCIDR |-> [ip |-> 508, size |-> 4], PortBase |-> 65280,
     MiscScript |-> TRUE, LAddr |-> Groups]

\* 10.11.1.254/30 leaves no address; the search passes on to 10.11.1.255.
\* The groups overlap too.
Careless ==
    [SubnetCIDR |-> [ip |-> 510, size |-> 4],
     LAddr |-> << Group("g1", 700 .. 701), Group("g2", 701 .. 800) >>] @@ Conf

Texts ==
    {Conf, Careless}
    \union {[PortBase |-> b] @@ Conf : b \in {4999, 65536}}
    \union { [SubnetCIDR |-> NoCIDR] @@ Conf,
             [SubnetCIDR |-> [ip |-> 508, size |-> 2]] @@ Conf,
             [Type |-> "l5"] @@ Conf, [Type |-> "l7"] @@ Conf, [StorePrefix |-> "lb"] @@ Conf,
             [ReloadTime |-> 0] @@ Conf, [LAddr |-> <<>>] @@ Conf,
             [StatsPort |-> 65536] @@ Conf, [ResultPath |-> "stats"] @@ Conf }

Server(ip, w) == [IP |-> ip, Port |-> 80, Weight |-> w]

Plain == [Name |-> "lb", ClusterName |-> "c", Servers |-> <<Server(700, 0)>>]

Variants ==
    { [Servers |-> <<Server(700, 0), Server(701, 7)>>,
       Strategy |-> "", Kind |-> "", SynProxy |-> TRUE] @@ Plain,
      [Servers |-> <<Server(701, 0), Server(800, 0)>>] @@ Plain,
      [Servers |-> <<Server(900, 0)>>] @@ Plain,
      [Servers |-> <<Server(BadIP, 0)>>] @@ Plain,
      [Servers |-> <<Server(700, -1)>>] @@ Plain,
      [Protocol |-> "UDP"] @@ Plain,
      [Check |-> "HTTP", URLPath |-> ""] @@ Plain,
      [Interval |-> 0] @@ Plain,
      [Strategy |-> "", PersistenceTimeout |-> 10001] @@ Plain,
      [Strategy |-> "fast"] @@ Plain,
      [Name |-> "other"] @@ Plain,
      [ClusterName |-> "d"] @@ Plain }

Bare == [Check |-> "HTTP", StatusCode |-> 0] @@ Plain

Objects ==
    Variants
    \union {[VIP |-> v] @@ Bare : v \in {508, BadIP}}
    \union {[VIP |-> 510, Protocol |-> "UDP", Check |-> "MISC", Servers |-> <<>>] @@ Bare}
    \union {[Port |-> 65536] @@ Bare}
    \union {[VIP |-> 510, Port |-> 80] @@ Bare}

\* The second write is one of a few.
Again == { [Check |-> "HTTP"] @@ Plain, [VIP |-> 510] @@ Plain }

Writes == <<Objects, Again>>

Symmetry == Permutations({p1, p2})

==============================================================================
