------------------------------ MODULE IPRange ------------------------------
(***************************************************************************)
(* The address arithmetic of the VIP allocator (pkg/ipam/backend/allocator *)
(* and pkg/ipam/ip): which addresses of the configured subnet may be       *)
(* handed out and in which order the allocator probes them.                *)
(*                                                                         *)
(* An IPv4 address is the natural number its four bytes spell.  The subnet *)
(* is the CIDR of the configuration: SubnetIP is the address as it is      *)
(* WRITTEN there (types.ParseCIDR keeps the host part, "10.2.3.1/24" gives *)
(* 10.2.3.1 and not 10.2.3.0) and SubnetSize = 2^(32 - prefix length).     *)
(***************************************************************************)
EXTENDS Integers

CONSTANTS
    SubnetIP,     \* the address part of subnetCIDR
    SubnetSize,   \* the number of addresses its mask spans
    NoIP          \* the nil net.IP

(***************************************************************************)
(* NewIPAllocator refuses a /31 or a /32, so a subnet has four addresses   *)
(* or more.  That the written address leaves one to hand out (it is        *)
(* neither the last host nor the broadcast address) is NOT checked by the  *)
(* code; every result about the allocator depends on it.                   *)
(***************************************************************************)
ASSUME SubnetAssumption ==
    /\ SubnetIP \in Nat
    /\ SubnetSize \in Nat
    /\ SubnetSize >= 4
    /\ NoIP \notin Int

\* net.IPNet.Contains compares the masked addresses.
network == SubnetIP - (SubnetIP % SubnetSize)

\* networkRange: every host bit set, less one for the broadcast address.
rangeEnd == network + SubnetSize - 2

\* Seeded fault: the first address is not skipped.
rangeStart_NoSkip == SubnetIP

\* networkRange returns the written address; NewIPAllocator skips it.
rangeStart == SubnetIP + 1

ASSUME RangeAssumption == rangeStart <= rangeEnd

\* The addresses the allocator may hand out.
Addresses == rangeStart .. rangeEnd

\* ip.NextIP on the whole address space.
NextIP(ip) == ip + 1

\* Seeded faults for nextIP: it runs past the end; it wraps to the address
\* the range started with before NewIPAllocator skipped it.
nextIP_NoWrap(ip)   == NextIP(ip)
nextIP_ToFirst(ip)  == IF ip = rangeEnd THEN SubnetIP ELSE NextIP(ip)

\* IPAllocator.nextIP: the successor, wrapping from the end to the start.
nextIP(ip) == IF ip = rangeEnd THEN rangeStart ELSE NextIP(ip)

\* validateRangeIP with the allocator's own bounds: the byte-wise comparison
\* of two addresses of equal length orders them as numbers.
validateRangeIP(ip) ==
    /\ ip - (ip % SubnetSize) = network
    /\ rangeStart <= ip
    /\ ip <= rangeEnd

\* Seeded fault: the search after the last address stops at the range's end.
getSearchRange_ToEnd(last) ==
    IF last # NoIP /\ validateRangeIP(last)
    THEN [first |-> nextIP(last), end |-> rangeEnd]
    ELSE [first |-> rangeStart,   end |-> rangeEnd]

(***************************************************************************)
(* getSearchRange: the first and the last address a search probes.  It     *)
(* starts after the last reserved address and ends with it, or spans the   *)
(* range when that address is unknown or lies outside.                     *)
(***************************************************************************)
getSearchRange(last) ==
    IF last # NoIP /\ validateRangeIP(last)
    THEN [first |-> nextIP(last), end |-> last]
    ELSE [first |-> rangeStart,   end |-> rangeEnd]

=============================================================================
