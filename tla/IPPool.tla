------------------------------- MODULE IPPool -------------------------------
(***************************************************************************)
(* What the Pod IP allocator promises its callers, with the search order   *)
(* left out: a pool of addresses, each held by at most one Pod key, handed *)
(* out on demand, bound on request, given back on release.  PodIPAM (the   *)
(* next-fit scan over a CIDR with its two maps and its cursor) implements  *)
(* this specification.                                                     *)
(***************************************************************************)
CONSTANTS Keys,     \* Pod keys, "namespace/name"
          Pool,     \* the addresses that may be handed out
          None      \* "holds no address"; not a member of Pool

VARIABLE held       \* held[k]: the address key k holds, or None

Free == {a \in Pool : \A k \in Keys : held[k] # a}

Init == held = [k \in Keys |-> None]

\* A key that holds nothing receives some free address.
Acquire(k) ==
  /\ held[k] = None
  /\ \E a \in Free : held' = [held EXCEPT ![k] = a]

\* A key gives its address back.
GiveBack(k) == held' = [held EXCEPT ![k] = None]

Next == \E k \in Keys : Acquire(k) \/ GiveBack(k)

Spec == Init /\ [][Next]_held
=============================================================================
