------------------------------ MODULE PodIPAM ------------------------------
(***************************************************************************)
(* pkg/network/ipam.go: the per-node Pod IP allocator.                     *)
(*                                                                         *)
(* An address is its offset from the CIDR's network address; offsetIP maps *)
(* offsets to strings one to one.  Offset 0 is the network address, which  *)
(* is never handed out, so it doubles as Go's "" (no address).  Each       *)
(* method holds a.mu from start to end, so each is one atomic action.      *)
(***************************************************************************)
EXTENDS Integers

CONSTANTS Keys,     \* Pod keys, "namespace/name"
          NoKey,    \* byIP's answer for an address nobody holds
          Size,     \* number of addresses in the CIDR, 2^hostBits
          IsIPv4    \* IPv4 CIDRs also lose their broadcast address

ASSUME IPAMAssumption ==
  /\ NoKey \notin Keys
  /\ Size \in Nat \ {0}
  /\ IsIPv4 \in BOOLEAN

VARIABLES byKey,    \* key -> offset, NoIP when absent
          byIP,     \* offset -> key, NoKey when absent
          cursor    \* next offset to try

ipamVars == <<byKey, byIP, cursor>>

NoIP    == 0
First   == 2              \* offset 1 is the gateway
Last    == IF IsIPv4 THEN Size - 2 ELSE Size - 1
Span    == Last - First + 1
Offsets == 0 .. Size - 1
Usable  == First .. Last

\* NewPodIPAM
IPAMInit ==
  /\ byKey = [k \in Keys |-> NoIP]
  /\ byIP = [a \in Offsets |-> NoKey]
  /\ cursor = First

\* Faulty: stops at the end of the range instead of wrapping.
ProbeNoWrap(i) == IF cursor + i <= Last THEN cursor + i ELSE Last

\* The offset the i-th round of Allocate's loop looks at (i from 0): the
\* scan wraps to First after Last.
Probe(i) == IF cursor + i <= Last THEN cursor + i ELSE cursor + i - Span

Taken(a) == byIP[a] # NoKey

\* Allocate's loop runs out of rounds, or the range is empty to begin with.
ScanFails == \A i \in 0 .. Span - 1 : Taken(Probe(i))

\* Faulty: leaves a gap.
NextCursorSkips(a) == a + 2

NextCursor(a) == a + 1

\* Faulty: forgets byIP.
BindByKeyOnly(k, a) == byKey' = [byKey EXCEPT ![k] = a] /\ UNCHANGED byIP

Bind(k, a) ==
  /\ byKey' = [byKey EXCEPT ![k] = a]
  /\ byIP' = [byIP EXCEPT ![a] = k]

(***************************************************************************)
(* Idempotent: a key that holds an address keeps it.  Otherwise the first  *)
(* free offset from the cursor on, wrapping, is bound and the cursor moves *)
(* past it.  ErrExhausted changes nothing; a caller sees it as byKey'[k]   *)
(* being NoIP.                                                             *)
(***************************************************************************)
Allocate(k) ==
  \/ byKey[k] # NoIP /\ UNCHANGED ipamVars
  \/ /\ byKey[k] = NoIP
     /\ \E i \in 0 .. Span - 1 :
          /\ ~Taken(Probe(i))
          /\ \A j \in 0 .. i - 1 : Taken(Probe(j))
          /\ Bind(k, Probe(i))
          /\ cursor' = NextCursor(Probe(i))
  \/ byKey[k] = NoIP /\ ScanFails /\ UNCHANGED ipamVars

\* Faulty: lets a reservation take another key's address.
CanReserveTaken(k, a) == a \in Usable /\ byKey[k] \in {NoIP, a}

(***************************************************************************)
(* Bind k to the given address.  An address outside the usable range, one  *)
(* that another key holds, and a key that holds another address are        *)
(* errors; a repeated reservation is a no-op.                              *)
(***************************************************************************)
CanReserve(k, a) ==
  /\ a \in Usable
  /\ ~Taken(a)
  /\ byKey[k] \in {NoIP, a}

Reserve(k, a) ==
  IF CanReserve(k, a)
    THEN Bind(k, a) /\ UNCHANGED cursor
    ELSE UNCHANGED ipamVars

\* Releasing a key that holds nothing is a no-op.
Release(k) ==
  IF byKey[k] # NoIP
    THEN /\ byKey' = [byKey EXCEPT ![k] = NoIP]
         /\ byIP' = [byIP EXCEPT ![byKey[k]] = NoKey]
         /\ UNCHANGED cursor
    ELSE UNCHANGED ipamVars

\* Reserve is asked for any address the API server may hold for a Pod: this
\* CIDR's, usable or not, or one of another CIDR (Size stands for those).
IPAMNext ==
  \E k \in Keys :
    \/ Allocate(k)
    \/ \E a \in 0 .. Size : Reserve(k, a)
    \/ Release(k)

IPAMSpec == IPAMInit /\ [][IPAMNext]_ipamVars

-----------------------------------------------------------------------------
\* The maps keep their types and the cursor stays in the range or one past it,
\* where the next scan wraps.
IPAMTypeOK ==
  /\ byKey \in [Keys -> Offsets]
  /\ byIP \in [Offsets -> Keys \cup {NoKey}]
  /\ cursor \in First .. (IF Last < First THEN First ELSE Last + 1)

(***************************************************************************)
(* No two Pods ever hold the same address, and byKey and byIP are inverse  *)
(* to each other after any mix of Allocate, Reserve and Release: an        *)
(* address marked taken has exactly the owner that will release it, so     *)
(* none is handed out twice and none is lost to the pool.                  *)
(***************************************************************************)
MapsInverse ==
  /\ \A k \in Keys : byKey[k] # NoIP => byIP[byKey[k]] = k
  /\ \A a \in Offsets : byIP[a] # NoKey => byKey[byIP[a]] = a

(***************************************************************************)
(* The network address, the gateway (the first host) and, for IPv4, the    *)
(* broadcast address are never held by a Pod, whatever the API server      *)
(* asks to reserve and however small the CIDR is.                          *)
(***************************************************************************)
OnlyUsableHeld == \A a \in Offsets : byIP[a] # NoKey => a \in Usable

(***************************************************************************)
(* Allocate reports ErrExhausted only when every usable address is really  *)
(* held: the wrapping scan from wherever the cursor stands misses none,    *)
(* also after reservations the cursor has not passed.                      *)
(***************************************************************************)
ExhaustedOnlyWhenFull == ScanFails => \A a \in Usable : byIP[a] # NoKey

(***************************************************************************)
(* The allocator implements the pool: every Allocate, Reserve and Release  *)
(* is an Acquire of a free address, a GiveBack, or changes nothing.        *)
(***************************************************************************)
Abstract == INSTANCE IPPool WITH Pool <- Usable, None <- NoIP, held <- byKey
ImplementsPool == Abstract!Spec
=============================================================================
