---------------------------- MODULE MCNginxFiles ----------------------------
(***************************************************************************)
(* Instances of NginxFiles for TLC.                                        *)
(***************************************************************************)
EXTENDS NginxFiles, TLC

CONSTANTS w1, w2

AbsolutePaths == {"/", "/a"}

PoolOf(name, algo) ==
    [Name |-> name, Strategy |-> algo, Enable |-> FALSE, Cookie |-> "",
     Servers |-> <<[IP |-> 1, Port |-> 80, Weight |-> 0]>>]

To(path, pool) == [URIPath |-> path, PoolName |-> pool]

\* An object for the load balancer n, with a pool of its own.
Plain(n, port) ==
    [Name |-> n, ClusterName |-> Cluster, Port |-> port,
     Pools |-> <<PoolOf(n, "round_robin")>>, Locations |-> <<To("", n)>>]

\* A load balancer that is served, moved to the other directory, refused,
\* and one on the port of the first, so that nginx does not load both.
Mixed ==
    { Plain("a", 80), [Protocol |-> "TCP"] @@ Plain("a", 80),
      [Timeout |-> -1] @@ Plain("a", 80), Plain("b", 80) }

Symmetry == Permutations({w1, w2})

==============================================================================
