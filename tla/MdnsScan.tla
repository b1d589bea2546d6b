------------------------------- MODULE MdnsScan -------------------------------
(***************************************************************************)
(* scan_addresses of src/net/mdns.c: what the responder makes of the list  *)
(* of interface addresses getifaddrs returns.                              *)
(***************************************************************************)
EXTENDS Naturals, Sequences, SequencesExt

CONSTANT MaxAddresses   \* MDNS_MAX_ADDRESSES

Distinct(s) == SelectSeq([i \in 1..Len(s) |-> <<i, s[i]>>],
                         LAMBDA e : \A j \in 1..(e[1] - 1) : s[j] # e[2])

\* Each address once, in order, as many as found[] holds.
Found(s) ==
    LET d == Distinct(s)
        n == IF Len(d) < MaxAddresses THEN Len(d) ELSE MaxAddresses
    IN [i \in 1..n |-> d[i][2]]

\* Slip: only the number of addresses is compared.
MutChanged(addresses, found) == Len(found) # Len(addresses)
Changed(addresses, found) ==
    \/ Len(found) # Len(addresses)
    \/ \E i \in DOMAIN found : found[i] \notin ToSet(addresses)

\* The memberships the loop over the old addresses may drop.  It compares
\* found[i], not addresses[i], with every found[n]: below found_count it always
\* finds itself, above it reads an element that was never written, which may or
\* may not equal one.  With nothing found there is nothing to compare with.
Dropped(addresses, found) ==
    IF found = <<>> THEN {ToSet(addresses)}
    ELSE SUBSET {addresses[i] : i \in {j \in DOMAIN addresses : j > Len(found)}}

Joins(addresses, found) == ToSet(found) \ ToSet(addresses)
=============================================================================
