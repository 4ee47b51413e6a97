---------------------------- MODULE AddressPool ----------------------------
(***************************************************************************)
(* What an address manager promises, whatever the steps it takes: an       *)
(* address goes from free to one owner and from that owner back to free.   *)
(* It never passes from an owner to another directly, and only addresses   *)
(* of the pool have owners.                                                *)
(***************************************************************************)
CONSTANTS
    Pool,    \* the addresses managed
    Id,      \* the identities that may own one
    Free     \* "no owner"

VARIABLE owner

Init == owner = [ip \in Pool |-> Free]

Assign(ip, i) ==
    /\ owner[ip] = Free
    /\ owner' = [owner EXCEPT ![ip] = i]

Unassign(ip) ==
    /\ owner[ip] # Free
    /\ owner' = [owner EXCEPT ![ip] = Free]

Next == \E ip \in Pool : Unassign(ip) \/ \E i \in Id : Assign(ip, i)

Spec == Init /\ [][Next]_owner

=============================================================================
