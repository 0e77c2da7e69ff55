------------------------- MODULE PodLifecycle_inv -------------------------
(***************************************************************************)
(* Every step of the Pod lifecycle keeps IInv and RestartInv               *)
(* (PodLifecycle_ind), for every number of Pods, incarnations, goroutines  *)
(* and failures, every CIDR and every set of restart policies: the lemmas  *)
(* the steps share, one lemma for every step, and NextIInv and NextRestart *)
(* that combine them.  The allocator comes first: what is proved of its    *)
(* calls holds of it on its own (its own specification, for every set of   *)
(* keys and every CIDR) and in the lifecycle that makes the calls.         *)
(***************************************************************************)
EXTENDS PodLifecycle_ind, TLAPS

-----------------------------------------------------------------------------
(* The allocator on its own.                                               *)
(*                                                                         *)
(* PoolInv is inductive for it.  None of its three parts is by itself:     *)
(* that byIP is updated where byKey is needs the types, that a released    *)
(* address is the one byIP has for the key needs the maps to be inverse,   *)
(* and that NoIP is never confused with a held address needs held          *)
(* addresses to be usable.                                                 *)

\* Where the cursor may stand: in the range or one past it.
CursorRange == First .. (IF Last < First THEN First ELSE Last + 1)

\* Last and Span are integers, and a usable offset is a proper one.
LEMMA PoolRanges ==
  /\ NoIP = 0
  /\ First = 2 /\ Last \in Int /\ Span \in Int /\ Span = Last - 1
  /\ Last \in {Size - 2, Size - 1}
  /\ Usable \subseteq Offsets
  /\ NoIP \notin Usable /\ NoIP \in Offsets
BY LifecycleAssumption DEF NoIP, First, Last, Span, Usable, Offsets

\* Every round of Allocate's scan looks at a usable offset.
LEMMA ProbeUsable ==
  ASSUME IPAMTypeOK, NEW i \in 0 .. Span - 1
  PROVE  Probe(i) \in Usable
BY PoolRanges, LifecycleAssumption
   DEF IPAMTypeOK, Probe, Usable, First, Last, Span

\* Every usable offset is looked at in some round, wherever the cursor is.
LEMMA ScanComplete ==
  ASSUME IPAMTypeOK, NEW a \in Usable
  PROVE  \E i \in 0 .. Span - 1 : Probe(i) = a
<1> DEFINE i == IF a >= cursor THEN a - cursor ELSE a - cursor + Span
<1>1. i \in 0 .. Span - 1
  BY PoolRanges, LifecycleAssumption
     DEF IPAMTypeOK, Usable, First, Last, Span
<1>2. Probe(i) = a
  BY PoolRanges, LifecycleAssumption
     DEF IPAMTypeOK, Usable, First, Last, Span, Probe
<1> QED BY <1>1, <1>2

\* NewPodIPAM establishes the invariant.
LEMMA PoolInit == IPAMInit => PoolInv
BY PoolRanges, LifecycleAssumption
   DEF IPAMInit, PoolInv, IPAMTypeOK, MapsInverse, OnlyUsableHeld,
       First, Last, Offsets

\* No key holds an offset that byIP does not know.
LEMMA FreeNotHeld ==
  ASSUME PoolInv, NEW k \in Keys, NEW a \in Usable, ~Taken(a)
  PROVE  byKey[k] # a
<1> SUFFICES ASSUME byKey[k] = a PROVE FALSE
  OBVIOUS
<1>1. byKey[k] # NoIP
  BY PoolRanges
<1>2. byIP[a] = k
  BY <1>1 DEF PoolInv, MapsInverse
<1> QED BY <1>2, LifecycleAssumption DEF Taken

\* Binding a key that holds nothing to a free usable offset.
LEMMA BindInv ==
  ASSUME PoolInv, NEW k \in Keys, NEW a \in Usable, byKey[k] = NoIP, ~Taken(a),
         Bind(k, a),
         cursor' \in CursorRange
  PROVE  PoolInv'
<1>1. IPAMTypeOK'
  BY PoolRanges, LifecycleAssumption
     DEF PoolInv, CursorRange, IPAMTypeOK, Bind, First, Last, Offsets
<1>2. MapsInverse'
  <2>1. ASSUME NEW j \in Keys, byKey'[j] # NoIP PROVE byIP'[byKey'[j]] = j
    <3>1. CASE j = k
      BY <3>1, PoolRanges DEF PoolInv, IPAMTypeOK, Bind
    <3>2. CASE j # k
      <4>1. byKey'[j] = byKey[j] /\ byKey[j] # a
        BY <3>2, FreeNotHeld DEF PoolInv, IPAMTypeOK, Bind
      <4> QED BY <2>1, <4>1 DEF PoolInv, IPAMTypeOK, MapsInverse, Bind
    <3> QED BY <3>1, <3>2
  <2>2. ASSUME NEW b \in Offsets, byIP'[b] # NoKey PROVE byKey'[byIP'[b]] = b
    <3>1. CASE b = a
      BY <3>1, PoolRanges DEF PoolInv, IPAMTypeOK, Bind
    <3>2. CASE b # a
      <4>1. byIP'[b] = byIP[b] /\ byIP[b] \in Keys /\ byKey[byIP[b]] = b
        BY <2>2, <3>2 DEF PoolInv, IPAMTypeOK, MapsInverse, Bind
      <4>2. CASE byIP[b] = k
        \* then b = NoIP, which nobody holds
        BY <4>1, <4>2, PoolRanges, LifecycleAssumption DEF PoolInv, OnlyUsableHeld
      <4>3. CASE byIP[b] # k
        BY <4>1, <4>3 DEF PoolInv, IPAMTypeOK, Bind
      <4> QED BY <4>2, <4>3
    <3> QED BY <3>1, <3>2
  <2>3. Offsets' = Offsets
    BY DEF Offsets
  <2> QED BY <2>1, <2>2, <2>3 DEF MapsInverse
<1>3. OnlyUsableHeld'
  BY PoolRanges, LifecycleAssumption
     DEF PoolInv, IPAMTypeOK, OnlyUsableHeld, Bind, Usable, First,
         Last, Offsets
<1> QED BY <1>1, <1>2, <1>3 DEF PoolInv

\* Calls that change nothing (errors, repeated calls) keep the invariant.
LEMMA PoolUnchanged == PoolInv /\ UNCHANGED ipamVars => PoolInv'
BY
   DEF PoolInv, IPAMTypeOK, MapsInverse, OnlyUsableHeld, ipamVars,
       Usable, First, Last, Offsets

\* Allocate keeps the invariant.
LEMMA AllocateInv ==
  ASSUME PoolInv, NEW k \in Keys, Allocate(k)
  PROVE  PoolInv'
<1>1. CASE UNCHANGED ipamVars
  BY <1>1, PoolUnchanged
<1>2. CASE /\ byKey[k] = NoIP
           /\ \E i \in 0 .. Span - 1 :
                /\ ~Taken(Probe(i))
                /\ \A j \in 0 .. i - 1 : Taken(Probe(j))
                /\ Bind(k, Probe(i))
                /\ cursor' = NextCursor(Probe(i))
  <2>1. PICK i \in 0 .. Span - 1 :
          /\ ~Taken(Probe(i)) /\ Bind(k, Probe(i))
          /\ cursor' = NextCursor(Probe(i))
    BY <1>2
  <2>2. Probe(i) \in Usable
    BY ProbeUsable DEF PoolInv
  <2>3. cursor' \in CursorRange
    BY <2>1, <2>2, PoolRanges DEF NextCursor, Usable, First, CursorRange
  <2> QED BY <1>2, <2>1, <2>2, <2>3, BindInv
<1> QED BY <1>1, <1>2 DEF Allocate

\* Reserve keeps the invariant, whatever address it is asked for.
LEMMA ReserveInv ==
  ASSUME PoolInv, NEW k \in Keys, NEW a \in 0 .. Size, Reserve(k, a)
  PROVE  PoolInv'
<1>1. CASE CanReserve(k, a)
  <2>1. /\ a \in Usable /\ ~Taken(a) /\ byKey[k] \in {NoIP, a}
        /\ Bind(k, a) /\ cursor' = cursor
    BY <1>1 DEF Reserve, CanReserve
  <2>2. byKey[k] = NoIP
    BY <2>1, FreeNotHeld
  <2> QED BY <2>1, <2>2, BindInv DEF PoolInv, IPAMTypeOK, CursorRange
<1>2. CASE ~CanReserve(k, a)
  BY <1>2, PoolUnchanged DEF Reserve
<1> QED BY <1>1, <1>2

\* Release keeps the invariant.
LEMMA ReleaseInv ==
  ASSUME PoolInv, NEW k \in Keys, Release(k)
  PROVE  PoolInv'
<1>1. CASE byKey[k] # NoIP
  <2>1. byKey' = [byKey EXCEPT ![k] = NoIP] /\ byIP' = [byIP EXCEPT ![byKey[k]] = NoKey]
        /\ cursor' = cursor
    BY <1>1 DEF Release
  <2>2. IPAMTypeOK'
    BY <2>1, PoolRanges DEF PoolInv, IPAMTypeOK, First, Last, Offsets
  <2>3. MapsInverse'
    BY <1>1, <2>1, PoolRanges, LifecycleAssumption
       DEF PoolInv, IPAMTypeOK, MapsInverse
  <2>4. OnlyUsableHeld'
    BY <2>1, PoolRanges
       DEF PoolInv, IPAMTypeOK, OnlyUsableHeld, Usable, First, Last,
           Offsets
  <2> QED BY <2>2, <2>3, <2>4 DEF PoolInv
<1>2. CASE byKey[k] = NoIP
  BY <1>2, PoolUnchanged DEF Release
<1> QED BY <1>1, <1>2

\* Every step keeps the invariant.
LEMMA PoolNext == PoolInv /\ [IPAMNext]_(ipamVars) => PoolInv'
<1> SUFFICES ASSUME PoolInv, [IPAMNext]_(ipamVars) PROVE PoolInv'
  OBVIOUS
<1>1. ASSUME NEW k \in Keys, Allocate(k) PROVE PoolInv'
  BY <1>1, AllocateInv
<1>2. ASSUME NEW k \in Keys, NEW a \in 0 .. Size, Reserve(k, a) PROVE PoolInv'
  BY <1>2, ReserveInv
<1>3. ASSUME NEW k \in Keys, Release(k) PROVE PoolInv'
  BY <1>3, ReleaseInv
<1>4. CASE UNCHANGED ipamVars
  BY <1>4, PoolUnchanged
<1> QED BY <1>1, <1>2, <1>3, <1>4 DEF IPAMNext

\* The inductive invariant holds in every reachable state of the allocator.
THEOREM PoolInductive == IPAMSpec => []PoolInv
BY PoolInit, PoolNext, PTL DEF IPAMSpec

\* The allocator's maps and cursor keep their types.
THEOREM PoolTypes == IPAMSpec => []IPAMTypeOK
BY PoolInductive, PTL DEF PoolInv

(***************************************************************************)
(* After any mix of Allocate, Reserve and Release, byKey and byIP are      *)
(* inverse: no address has two owners and none is lost.                    *)
(***************************************************************************)
THEOREM NeverShared == IPAMSpec => []MapsInverse
BY PoolInductive, PTL DEF PoolInv

\* The network, gateway and broadcast addresses are never given to a Pod.
THEOREM ReservedKept == IPAMSpec => []OnlyUsableHeld
BY PoolInductive, PTL DEF PoolInv

(***************************************************************************)
(* Allocate returns ErrExhausted only if every usable address is held.     *)
(***************************************************************************)
THEOREM ExhaustionHonest == IPAMSpec => []ExhaustedOnlyWhenFull
<1>1. PoolInv => ExhaustedOnlyWhenFull
  <2> SUFFICES ASSUME PoolInv, ScanFails, NEW a \in Usable PROVE byIP[a] # NoKey
    BY DEF ExhaustedOnlyWhenFull
  <2>1. PICK i \in 0 .. Span - 1 : Probe(i) = a
    BY ScanComplete DEF PoolInv
  <2> QED BY <2>1 DEF ScanFails, Taken
<1> QED BY <1>1, PoolInductive, PTL

-----------------------------------------------------------------------------
(* The allocator implements the pool.                                      *)

\* An address no key has in byIP is free in the pool's sense.
LEMMA FreeInPool ==
  ASSUME PoolInv, NEW a \in Usable, ~Taken(a)
  PROVE  a \in Abstract!Free
BY FreeNotHeld DEF Abstract!Free

\* Binding a free address is the pool's Acquire.
LEMMA BindAcquires ==
  ASSUME PoolInv, NEW k \in Keys, NEW a \in Usable,
         byKey[k] = NoIP, ~Taken(a), Bind(k, a)
  PROVE  Abstract!Acquire(k)
BY FreeInPool, Zenon DEF Bind, Abstract!Acquire

\* Every step of the allocator is a step of the pool, or changes nothing there.
LEMMA PoolStepRefines == PoolInv /\ [IPAMNext]_(ipamVars) => [Abstract!Next]_byKey
<1> SUFFICES ASSUME PoolInv, [IPAMNext]_(ipamVars) PROVE [Abstract!Next]_byKey
  OBVIOUS
<1>1. ASSUME NEW k \in Keys, Allocate(k) PROVE [Abstract!Next]_byKey
  <2>1. CASE UNCHANGED ipamVars
    BY <2>1 DEF ipamVars
  <2>2. CASE /\ byKey[k] = NoIP
             /\ \E i \in 0 .. Span - 1 :
                  ~Taken(Probe(i)) /\ Bind(k, Probe(i))
    <3>1. PICK i \in 0 .. Span - 1 :
            ~Taken(Probe(i)) /\ Bind(k, Probe(i))
      BY <2>2
    <3>2. Abstract!Acquire(k)
      BY <2>2, <3>1, ProbeUsable, BindAcquires DEF PoolInv
    <3> QED BY <3>2 DEF Abstract!Next
  <2> QED BY <1>1, <2>1, <2>2 DEF Allocate
<1>2. ASSUME NEW k \in Keys, NEW a \in 0 .. Size, Reserve(k, a)
      PROVE  [Abstract!Next]_byKey
  <2>1. CASE CanReserve(k, a)
    <3>1. /\ a \in Usable /\ ~Taken(a)
          /\ byKey[k] \in {NoIP, a} /\ Bind(k, a)
      BY <1>2, <2>1 DEF Reserve, CanReserve
    <3>2. byKey[k] = NoIP
      BY <3>1, FreeNotHeld
    <3>3. Abstract!Acquire(k)
      BY <3>1, <3>2, BindAcquires
    <3> QED BY <3>3 DEF Abstract!Next
  <2>2. CASE ~CanReserve(k, a)
    BY <1>2, <2>2 DEF Reserve, ipamVars
  <2> QED BY <2>1, <2>2
<1>3. ASSUME NEW k \in Keys, Release(k) PROVE [Abstract!Next]_byKey
  BY <1>3 DEF Release, ipamVars, Abstract!Next, Abstract!GiveBack
<1>4. CASE UNCHANGED ipamVars
  BY <1>4 DEF ipamVars
<1> QED BY <1>1, <1>2, <1>3, <1>4 DEF IPAMNext

(***************************************************************************)
(* The next-fit allocator with its two maps and its cursor implements a    *)
(* plain pool of addresses.                                                *)
(***************************************************************************)
THEOREM PoolRefinement == IPAMSpec => ImplementsPool
<1>1. IPAMInit => Abstract!Init
  BY DEF IPAMInit, Abstract!Init
<1> QED BY <1>1, PoolStepRefines, PoolInductive, PTL
   DEF IPAMSpec, ImplementsPool, Abstract!Spec

-----------------------------------------------------------------------------
(* The allocator in the lifecycle.                                         *)

\* What a key holds is a usable address or nothing.
AllHeldUsable == \A k \in Keys : byKey[k] \in IPs

\* So it is in every state of the allocator: both maps agree, and no other
\* address is ever held.
LEMMA HeldUsable == PoolInv => AllHeldUsable
<1> SUFFICES ASSUME PoolInv, NEW k \in Keys, byKey[k] # NoIP PROVE byKey[k] \in Usable
  BY Zenon DEF AllHeldUsable, IPs
<1>1. byKey[k] \in Offsets /\ byIP[byKey[k]] = k
  BY Zenon DEF PoolInv, IPAMTypeOK, MapsInverse
<1>2. k # NoKey
  BY LifecycleAssumption, Zenon
<1> QED BY <1>1, <1>2, Zenon DEF PoolInv, OnlyUsableHeld

\* Steps that leave the allocator alone keep its invariant.
LEMMA PoolFrame == PoolInv /\ UNCHANGED ipamVars => PoolInv'
BY Zenon DEF PoolInv, ipamVars, IPAMTypeOK, MapsInverse, OnlyUsableHeld, NoIP,
       Offsets, Usable, First, Last

\* Allocate gives k an address or nothing and leaves the other keys alone.
LEMMA PoolAllocate ==
  ASSUME PoolInv, NEW k \in Keys, Allocate(k)
  PROVE  /\ PoolInv'
         /\ \A j \in Keys \ {k} : byKey'[j] = byKey[j]
         /\ byKey[k] # NoIP => byKey'[k] = byKey[k]
<1>3. PoolInv'
  BY AllocateInv
<1>4. \/ UNCHANGED byKey
      \/ byKey[k] = NoIP /\ \E a : byKey' = [byKey EXCEPT ![k] = a]
  BY Zenon DEF Allocate, Bind, ipamVars, NoIP
<1> QED BY <1>3, <1>4, Zenon DEF PoolInv, IPAMTypeOK

\* Reserve binds a key that holds nothing, or does nothing.
LEMMA PoolReserve ==
  ASSUME PoolInv, NEW k \in Keys, NEW a \in IPs, Reserve(k, a)
  PROVE  /\ PoolInv'
         /\ \A j \in Keys \ {k} : byKey'[j] = byKey[j]
         /\ byKey[k] # NoIP => byKey'[k] = byKey[k]
<1>2. a \in 0 .. Size
  BY PoolRanges, LifecycleAssumption DEF IPs, Offsets
<1>4. PoolInv'
  BY <1>2, ReserveInv
<1>5. \/ UNCHANGED byKey
      \/ byKey[k] \in {NoIP, a} /\ byKey' = [byKey EXCEPT ![k] = a]
  BY Zenon DEF Reserve, CanReserve, Bind, ipamVars, NoIP
<1> QED BY <1>4, <1>5, Zenon DEF PoolInv, IPAMTypeOK

\* Release takes the address of k, and no other, back.
LEMMA PoolRelease ==
  ASSUME PoolInv, NEW k \in Keys, Release(k)
  PROVE  PoolInv' /\ byKey' = [byKey EXCEPT ![k] = NoIP]
<1>3. PoolInv'
  BY ReleaseInv
<1>4. byKey' = [byKey EXCEPT ![k] = NoIP]
  BY Zenon DEF Release, ipamVars, NoIP, PoolInv, IPAMTypeOK
<1> QED BY <1>3, <1>4, Zenon

\* The end of a failed CreatePod: only its own key can lose its address.
LEMMA PoolAbandon ==
  ASSUME PoolInv, create \in CallType, AbandonIP(create)
  PROVE  PoolInv' /\ \A j \in Keys \ {create.key} : byKey'[j] = byKey[j]
<1>1. create.key \in Keys
  BY Zenon DEF CallType
<1>2. CASE create.had
  BY <1>2, PoolFrame, Zenon DEF AbandonIP, ipamVars
<1>3. CASE ~create.had
  <2>1. PoolInv' /\ byKey' = [byKey EXCEPT ![create.key] = NoIP]
    BY <1>1, <1>3, PoolRelease, Zenon DEF AbandonIP
  <2> QED BY <2>1, Zenon DEF PoolInv, IPAMTypeOK
<1> QED BY <1>2, <1>3, Zenon

-----------------------------------------------------------------------------
(* What single steps leave alone.                                          *)

\* Each part of the invariant that is about one variable survives steps that
\* do not change it.
LEMMA Frames ==
  /\ ApiInv /\ UNCHANGED api => ApiInv'
  /\ PodsInv /\ UNCHANGED pods => PodsInv'
  /\ CreateInv /\ UNCHANGED create => CreateInv'
  /\ DelInv /\ UNCHANGED del => DelInv'
  /\ GosInv /\ UNCHANGED gos => GosInv'
  /\ FailersInv /\ UNCHANGED failers => FailersInv'
  /\ VMsInv /\ UNCHANGED vms => VMsInv'
  /\ EndpointsInv /\ UNCHANGED endpoints => EndpointsInv'
  /\ DirsInv /\ UNCHANGED dirs => DirsInv'
<1>1. ApiInv /\ UNCHANGED api => ApiInv'
  BY Zenon DEF ApiInv
<1>2. PodsInv /\ UNCHANGED pods => PodsInv'
  BY Zenon DEF PodsInv
<1>3. CreateInv /\ UNCHANGED create => CreateInv'
  BY Zenon DEF CreateInv
<1>4. DelInv /\ UNCHANGED del => DelInv'
  BY Zenon DEF DelInv
<1>5. GosInv /\ UNCHANGED gos => GosInv'
  BY Zenon DEF GosInv
<1>6. FailersInv /\ UNCHANGED failers => FailersInv'
  BY Zenon DEF FailersInv
<1>7. VMsInv /\ UNCHANGED vms => VMsInv'
  BY Zenon DEF VMsInv, VM!VMTypeOK
<1>8. EndpointsInv /\ UNCHANGED endpoints => EndpointsInv'
  BY Zenon DEF EndpointsInv
<1>9. DirsInv /\ UNCHANGED dirs => DirsInv'
  BY Zenon DEF DirsInv
<1> QED BY <1>1, <1>2, <1>3, <1>4, <1>5, <1>6, <1>7, <1>8, <1>9, Zenon

\* Steps that neither start nor stop probers.
LEMMA ProbersKept ==
  ASSUME ProbersInv, UNCHANGED probers,
         \A k \in Keys : Tracked(k)' /\ pods'[k].probes => Tracked(k) /\ pods[k].probes
  PROVE  ProbersInv'
BY Zenon DEF ProbersInv

\* Steps after which the same keys hold, are tracked, are created and deleted.
LEMMA OwnKept ==
  ASSUME OwnInv, NoIPLeak, CreateInv, DelInv, DelInv',
         UNCHANGED byKey,
         \A k \in Keys : Tracked(k)' <=> Tracked(k),
         \A k \in Keys : Tracked(k) => pods'[k].ip = pods[k].ip,
         create' = NoCall <=> create = NoCall,
         create'.key = create.key,
         create # NoCall => create'.ip = create.ip /\ create'.had = create.had,
         \A k \in Keys : del'[k] = NoDelete <=> del[k] = NoDelete,
         \A k \in Keys : del'[k].pc \in Freed => del[k].pc \in Freed,
         \A k \in Keys : excuse[k] \subseteq excuse'[k]
  PROVE  OwnInv' /\ NoIPLeak'
<1>1. \A k \in Keys : del[k].pc # "idle" => del[k] # NoDelete
  BY DEF NoDelete
<1>2. \A k \in Keys : del'[k] # NoDelete => del'[k].pc # "idle"
  BY Zenon DEF DelInv, DelType
<1>3. create # NoCall => create.key \in Keys
  BY Zenon DEF CreateInv, CallType
<1>4. OwnInv'
  BY <1>3, Zenon DEF OwnInv, NoIP
<1>5. NoIPLeak'
  BY <1>1, <1>2, Zenon DEF NoIPLeak, InCall, Had, NoIP
<1> QED BY <1>4, <1>5, Zenon

\* A step with at most one failure and at most one entry in the history.
LEMMA NodeKept ==
  ASSUME NodeInv, UNCHANGED <<kubelet, toRecover>>, Sound \/ Fault,
         UNCHANGED excuse \/ \E k \in Keys, why \in Reasons : Excuse(k, why)
  PROVE  NodeInv' /\ \A k \in Keys : excuse[k] \subseteq excuse'[k]
<1>1. faults' \in 0 .. MaxFaults
  BY LifecycleAssumption DEF NodeInv, Sound, Fault
<1>2. excuse' \in [Keys -> SUBSET Reasons] /\ \A k \in Keys : excuse[k] \subseteq excuse'[k]
  <2>1. CASE UNCHANGED excuse
    BY <2>1, Zenon DEF NodeInv
  <2>2. ASSUME NEW k \in Keys, NEW why \in Reasons, Excuse(k, why)
        PROVE  /\ excuse' \in [Keys -> SUBSET Reasons]
               /\ \A j \in Keys : excuse[j] \subseteq excuse'[j]
    <3>1. excuse' = [excuse EXCEPT ![k] = excuse[k] \cup {why}]
      BY <2>2, Zenon DEF Excuse
    <3>2. (excuse[k] \cup {why}) \in SUBSET Reasons
      BY Zenon DEF NodeInv
    <3> QED BY <3>1, <3>2, Zenon DEF NodeInv
  <2> QED BY <2>1, <2>2, Zenon
<1> QED BY <1>1, <1>2, Zenon DEF NodeInv

\* The runtime's commands keep the types of the VMs.
LEMMA VMsKept ==
  ASSUME VMsInv, NEW k \in Keys, NEW u \in Uids \cup {0},
         UNCHANGED vms \/ VM!Create(k, u) \/ VM!Start(k) \/ VM!Stop(k) \/ VM!Destroy(k)
           \/ VM!Exit(k)
  PROVE  VMsInv'
<1> USE LifecycleAssumption DEF VMsInv, VM!VMTypeOK, VM!Phases
<1>1. CASE UNCHANGED vms
  BY <1>1, Zenon
<1>2. CASE VM!Create(k, u)
  BY <1>2 DEF VM!Create
<1>3. CASE VM!Start(k)
  BY <1>3 DEF VM!Start
<1>4. ASSUME NEW ph \in {"stopped", "failed"}, VM!Halts(k, ph) PROVE VMsInv'
  <2>1. vms' = [vms EXCEPT ![k] = [vms[k] EXCEPT !.phase = ph, !.addr = 0]]
    BY <1>4, Zenon DEF VM!Halts
  <2>2. [vms[k] EXCEPT !.phase = ph, !.addr = 0]
          \in [phase : VM!Phases, addr : 0 .. NumAddrs - 1, spec : Uids \cup {0}]
    <3>1. 0 \in 0 .. NumAddrs - 1
      OBVIOUS
    <3>2. vms[k] \in [phase : VM!Phases, addr : 0 .. NumAddrs - 1, spec : Uids \cup {0}]
      BY Zenon
    <3> QED BY <3>1, <3>2, Zenon
  <2> QED BY <2>1, <2>2, Zenon
<1>5. CASE VM!Stop(k)
  BY <1>1, <1>4, <1>5, Zenon DEF VM!Stop
<1>6. CASE VM!Destroy(k)
  BY <1>6 DEF VM!Destroy, VM!Missing
<1>7. CASE VM!Exit(k)
  BY <1>4, <1>7, Zenon DEF VM!Exit
<1> QED BY <1>1, <1>2, <1>3, <1>5, <1>6, <1>7, Zenon

\* Attach and Detach keep the types of the endpoints.
LEMMA EndpointsKept ==
  ASSUME EndpointsInv, NEW k \in Keys, NEW ip \in IPs, NEW addr \in 0 .. NoAddr,
         NEW was \in BOOLEAN,
         \/ endpoints' = [endpoints EXCEPT ![k] = [ip |-> ip, addr |-> addr]]
         \/ endpoints' = Detached(k, was)
  PROVE  EndpointsInv'
BY LifecycleAssumption, PoolRanges DEF EndpointsInv, Detached, NoEndpoint, NoAddr, IPs

\* A reconcile keeps a Pod's record, its uid, address and probe state.
LEMMA ReconciledKept ==
  ASSUME NEW st \in PodType, NEW obs \in VM!Phases \cup {"error"}
  PROVE  /\ Reconciled(st, obs) \in PodType
         /\ Reconciled(st, obs).ip = st.ip
         /\ Reconciled(st, obs).probes = st.probes
<1>1. ContainerState(st, obs) \in CStates
  BY Zenon DEF ContainerState, CStates, PodType
<1>2. (st.restarting \/ WantsRestart(st, obs)) \in BOOLEAN
  BY Zenon DEF PodType, WantsRestart, ShouldRestart
<1> QED BY <1>1, <1>2, Zenon DEF Reconciled, PodType

\* Launching a goroutine keeps the types of the goroutines.
LEMMA SpawnKept ==
  ASSUME GosInv, NEW k \in Keys, NEW u \in Uids, NEW pc \in {"backoff", "killStop"},
         Spawn(k, u, pc) \/ UNCHANGED gos
  PROVE  GosInv'
<1>1. [pc |-> pc, key |-> k, uid |-> u, stale |-> FALSE, ip |-> NoIP, was |-> FALSE,
       addr |-> NoAddr, att |-> FALSE, new |-> FALSE] \in GoType
  BY LifecycleAssumption DEF GoType, GoPCs, IPs, NoAddr
<1> QED BY <1>1, Frames, Zenon DEF GosInv, Spawn

\* A step of one Pod that may cross a goroutine of an earlier incarnation.
LEMMA NoteKept ==
  ASSUME NodeInv, NEW k \in Keys, NoteIfInFlight(k, "crossed"), Sound,
         UNCHANGED <<kubelet, toRecover>>
  PROVE  NodeInv' /\ \A j \in Keys : excuse[j] \subseteq excuse'[j]
<1>1. UNCHANGED excuse \/ Excuse(k, "crossed")
  BY Zenon DEF NoteIfInFlight
<1>2. "crossed" \in Reasons
  BY Zenon DEF Reasons
<1> QED BY <1>1, <1>2, NodeKept, Zenon

\* The record of a Pod that can never run has no address and no probes.
LEMMA TerminalTyped ==
  ASSUME NEW u \in Uids
  PROVE  /\ TerminalPod(u) \in PodType
         /\ TerminalPod(u).ip = NoIP /\ TerminalPod(u).probes = FALSE
BY Zenon DEF TerminalPod, PodType, IPs, CStates

\* Starting probers leaves at least one set running, if there are probes.
LEMMA StartProbesKept ==
  ASSUME ProbersInv, FailersInv, NEW k \in Keys, StartProbes(k)
  PROVE  /\ FailersInv'
         /\ probers' \in [Keys -> 0 .. 2]
         /\ Probed => probers'[k] >= 1
         /\ \A j \in Keys : probers'[j] >= probers[j]
<1>1. FailersInv'
  <2> DEFINE new == IF Probed THEN failers[k] \cup {"armed"} ELSE failers[k]
  <2>1. new \in SUBSET {"armed", "late"}
    BY Zenon DEF FailersInv
  <2>2. failers' = [failers EXCEPT ![k] = new]
    BY Zenon DEF StartProbes, FailersAfterStart
  <2> HIDE DEF new
  <2> QED BY <2>1, <2>2, Zenon DEF FailersInv
<1> DEFINE n == IF Probed /\ probers[k] < 2 THEN probers[k] + 1 ELSE probers[k]
<1>2. n \in 0 .. 2 /\ n >= probers[k] /\ (Probed => n >= 1)
  BY DEF ProbersInv
<1>3. probers' = [probers EXCEPT ![k] = n]
  BY Zenon DEF StartProbes, ProbersAfterStart
<1> HIDE DEF n
<1> QED BY <1>1, <1>2, <1>3 DEF ProbersInv

\* What a cancelled prober may leave behind.
LEMMA CancelledKept ==
  ASSUME NEW k \in Keys, NEW left \in SUBSET {"armed", "late"}
  PROVE  Cancelled(k, left) \in SUBSET {"armed", "late"}
BY Zenon DEF Cancelled

\* Stopping the probers of a tracked Pod cancels a set that was running.
LEMMA StopKept ==
  ASSUME ProbersInv, PodsInv, NEW k \in Keys, Tracked(k), probers' = ProbersAfterStop(k)
  PROVE  probers' \in [Keys -> 0 .. 2] /\ \A j \in Keys \ {k} : probers'[j] = probers[j]
<1> DEFINE n == IF pods[k].probes THEN probers[k] - 1 ELSE probers[k]
<1>1. n \in 0 .. 2
  BY DEF ProbersInv
<1>2. probers' = [probers EXCEPT ![k] = n]
  BY Zenon DEF ProbersAfterStop
<1> HIDE DEF n
<1> QED BY <1>1, <1>2, Zenon DEF ProbersInv

\* Stopping probers keeps the types of the failers.
LEMMA StopFailersKept ==
  ASSUME FailersInv, NEW k \in Keys, failers' = FailersAfterStop(k)
  PROVE  FailersInv'
BY CancelledKept, Zenon DEF FailersInv, FailersAfterStop

\* A Destroy as the provider calls it.
LEMMA DestroysKept ==
  ASSUME IInv, NEW k \in Keys, NEW u \in Uids, Destroys(k)
  PROVE  /\ VMsInv' /\ (Sound \/ Fault)
         /\ UNCHANGED excuse \/ \E j \in Keys, why \in Reasons : Excuse(j, why)
<1>1. VMsInv'
  BY VMsKept, Zenon DEF Destroys, IInv
<1> QED BY <1>1, Zenon DEF Destroys, Reasons

\* Steps that leave the allocator and the calls alone, and every Pod's address.
LEMMA QuietStep ==
  ASSUME IInv, UNCHANGED <<create, del, byKey, byIP, cursor>>,
         ApiInv', PodsInv', GosInv', ProbersInv', FailersInv', VMsInv', EndpointsInv',
         DirsInv', NodeInv',
         \A k \in Keys : excuse[k] \subseteq excuse'[k],
         \A k \in Keys : Tracked(k)' <=> Tracked(k),
         \A k \in Keys : Tracked(k) => pods'[k].ip = pods[k].ip
  PROVE  IInv'
<1>1. DelInv' /\ CreateInv' /\ PoolInv'
  BY Frames, PoolFrame, Zenon DEF IInv, ipamVars
<1>2. OwnInv' /\ NoIPLeak'
  BY <1>1, OwnKept, Zenon DEF IInv
<1> QED BY <1>1, <1>2, Zenon DEF IInv

-----------------------------------------------------------------------------
(* CreatePod.                                                              *)

\* In the middle of a call, `create` is a proper record of an untracked key.
LEMMA InCreate ==
  ASSUME IInv, create.pc # "idle"
  PROVE  /\ create \in CallType /\ create # NoCall /\ create.key \in Keys
         /\ create.uid \in Uids /\ create.ip \in IPs
         /\ ~Tracked(create.key) /\ del[create.key] = NoDelete
BY DEF IInv, CreateInv, NoCall, CallType, OwnInv

\* A step of a call that goes on.
LEMMA CallMoves ==
  ASSUME IInv, create \in CallType, create # NoCall, create' \in CallType,
         create'.key = create.key, create'.ip = create.ip, create'.had = create.had,
         UNCHANGED <<pods, del, byKey, probers>>,
         \A k \in Keys : excuse[k] \subseteq excuse'[k]
  PROVE  CreateInv' /\ ProbersInv' /\ OwnInv' /\ NoIPLeak'
<1>1. create' # NoCall
  BY DEF CallType, CallPCs, NoCall
<1>2. CreateInv'
  BY Zenon DEF CreateInv
<1>3. DelInv'
  BY Frames, Zenon DEF IInv
<1>4. ProbersInv'
  BY ProbersKept, Zenon DEF IInv, Tracked
<1>5. \A k \in Keys : Tracked(k)' <=> Tracked(k)
  BY Zenon DEF Tracked
<1> HIDE DEF NoCall
<1>6. OwnInv' /\ NoIPLeak'
  BY <1>1, <1>3, <1>5, OwnKept, Zenon DEF IInv
<1> QED BY <1>2, <1>4, <1>6, Zenon

\* The end of a call that did not commit a Pod with an address.
LEMMA CallFails ==
  ASSUME IInv, create \in CallType, create # NoCall, Return, AbandonIP(create),
         UNCHANGED <<del, probers>>,
         \/ UNCHANGED pods
         \/ pods' = [pods EXCEPT ![create.key] = TerminalPod(create.uid)],
         \A k \in Keys : excuse[k] \subseteq excuse'[k]
  PROVE  PodsInv' /\ CreateInv' /\ ProbersInv' /\ PoolInv' /\ OwnInv' /\ NoIPLeak'
<1>0. create.key \in Keys /\ create.uid \in Uids
  BY Zenon DEF CallType
<1>1. create' = NoCall /\ CreateInv'
  BY Zenon DEF Return, CreateInv
<1>2. PoolInv' /\ \A j \in Keys \ {create.key} : byKey'[j] = byKey[j]
  BY PoolAbandon, Zenon DEF IInv
<1>3. TerminalPod(create.uid) \in PodType /\ TerminalPod(create.uid).ip = NoIP
      /\ TerminalPod(create.uid).probes = FALSE
  BY <1>0, Zenon DEF TerminalPod, PodType, IPs, CStates
<1>4. PodsInv'
  BY <1>0, <1>3, Zenon DEF IInv, PodsInv
<1>5. \A k \in Keys \ {create.key} : pods'[k] = pods[k]
  BY Zenon DEF IInv, PodsInv
<1>6. ASSUME NEW k \in Keys, k = create.key, Tracked(k)'
      PROVE  pods'[k].ip = NoIP /\ ~pods'[k].probes
  <2>1. pods[k] = NoPod
    BY <1>6, Zenon DEF IInv, OwnInv, Tracked
  <2> QED BY <1>3, <1>6, <2>1, Zenon DEF IInv, PodsInv, Tracked
<1>7. ProbersInv'
  BY <1>5, <1>6, Zenon DEF IInv, ProbersInv, Tracked
<1>8. OwnInv'
  <2>1. \A k \in Keys : Tracked(k)' => del'[k] = NoDelete
    BY <1>5, Zenon DEF IInv, OwnInv, Tracked
  <2>2. \A k \in Keys : Tracked(k)' /\ pods'[k].ip # NoIP => byKey'[k] = pods'[k].ip
    BY <1>2, <1>5, <1>6, Zenon DEF IInv, OwnInv, Tracked
  <2>3. \A k \in Keys : del'[k].pc \in Freed => byKey'[k] = NoIP \/ "crash" \in excuse'[k]
    <3>1. del[create.key].pc \notin Freed
      BY DEF IInv, OwnInv, NoDelete, Freed
    <3> QED BY <1>2, <3>1, Zenon DEF IInv, OwnInv
  <2> QED BY <1>1, <2>1, <2>2, <2>3, Zenon DEF OwnInv, NoIP
<1>9. NoIPLeak'
  <2> SUFFICES ASSUME NEW k \in Keys, byKey'[k] # NoIP
               PROVE  Tracked(k)' \/ InCall(k)' \/ Had(k, {"crash"})'
    BY Zenon DEF NoIPLeak, NoIP
  <2>1. CASE k = create.key
    <3>1. CASE create.had
      BY <2>1, <3>1, Zenon DEF IInv, OwnInv, Had
    <3>2. CASE ~create.had
      <4>1. byKey' = [byKey EXCEPT ![create.key] = NoIP]
        BY <1>0, <3>2, PoolRelease, Zenon DEF AbandonIP, IInv
      <4> QED BY <2>1, <4>1, Zenon DEF IInv, PoolInv, IPAMTypeOK
    <3> QED BY <3>1, <3>2, Zenon
  <2>2. CASE k # create.key
    <3>1. Tracked(k) \/ del[k].pc # "idle" \/ "crash" \in excuse[k]
      BY <1>2, <2>2, Zenon DEF IInv, NoIPLeak, InCall, Had, NoIP
    <3> QED BY <1>5, <2>2, <3>1, Zenon DEF Tracked, InCall, Had
  <2> QED BY <2>1, <2>2, Zenon
<1> QED BY <1>1, <1>2, <1>4, <1>7, <1>8, <1>9, Zenon

\* CreatePod on a Pod translatePod rejects: the new record has no address.
LEMMA CreateUnsupportedKeeps ==
  ASSUME IInv, NEW k \in Keys, CreateUnsupported(k) PROVE IInv'
<1>1. /\ create = NoCall /\ ~InCall(k) /\ api[k].state = "present"
      /\ pods' = [pods EXCEPT ![k] = TerminalPod(api[k].uid)]
      /\ NoteIfInFlight(k, "crossed") /\ Sound
      /\ UNCHANGED <<api, create, del, gos, probers, failers, vms, ipamVars, endpoints, dirs>>
      /\ UNCHANGED <<kubelet, toRecover>>
  BY Zenon DEF CreateUnsupported, callVars, probeVars, Sound
<1>2. api[k].uid \in Uids
  BY <1>1, Zenon DEF IInv, ApiInv
<1>3. NodeInv' /\ \A j \in Keys : excuse[j] \subseteq excuse'[j]
  BY <1>1, NoteKept, Zenon DEF IInv
<1>4. TerminalPod(api[k].uid) \in PodType /\ TerminalPod(api[k].uid).ip = NoIP
      /\ TerminalPod(api[k].uid).probes = FALSE
  BY <1>2, TerminalTyped, Zenon
<1>5. PodsInv' /\ pods'[k] = TerminalPod(api[k].uid)
      /\ \A j \in Keys \ {k} : pods'[j] = pods[j]
  BY <1>1, <1>4, Zenon DEF IInv, PodsInv
<1>6. ProbersInv'
  BY <1>1, <1>4, <1>5, Zenon DEF IInv, ProbersInv, Tracked
<1>7. del[k] = NoDelete /\ byKey' = byKey
  BY <1>1, Zenon DEF IInv, DelInv, DelType, InCall, ipamVars
<1>8. OwnInv'
  BY <1>1, <1>3, <1>4, <1>5, <1>7, ZenonT(30) DEF IInv, OwnInv, Tracked, NoIP
<1>9. NoIPLeak'
  <2>1. pods'[k] # NoPod
    BY <1>4, <1>5 DEF PodType, NoPod, Uids
  <2>2. ASSUME NEW j \in Keys, j # k, byKey'[j] # NoIP
        PROVE  Tracked(j)' \/ InCall(j)' \/ Had(j, {"crash"})'
    BY <1>1, <1>3, <1>5, <1>7, <2>2, Zenon DEF IInv, NoIPLeak, Tracked, InCall, Had
  <2> QED BY <2>1, <2>2, Zenon DEF NoIPLeak, Tracked, NoIP
<1> QED BY <1>1, <1>3, <1>5, <1>6, <1>8, <1>9, Frames, PoolFrame, Zenon DEF IInv

\* The call CreateBegin starts, if the pool has an address.
LEMMA CreateBegins ==
  ASSUME NEW k \in Keys, IInv, PoolInv', CreateBegin(k)
  PROVE  \/ create' = NoCall /\ byKey'[k] = NoIP
         \/ /\ create' \in CallType /\ create' # NoCall /\ create'.key = k
            /\ create'.ip = byKey'[k] /\ byKey'[k] # NoIP
            /\ create'.had = (byKey[k] # NoIP)
<1> DEFINE had == byKey[k] # NoIP
           call == [pc |-> "lookup", key |-> k, uid |-> api[k].uid, spec |-> api[k].spec,
                    cs |-> api[k].cs, ip |-> byKey'[k], had |-> had, adopted |-> FALSE,
                    addr |-> NoAddr]
<1>1. create' = IF byKey'[k] = NoIP THEN NoCall ELSE call
  BY Zenon DEF CreateBegin
<1>2. api[k].uid \in Uids /\ api[k].spec \in Specs /\ api[k].cs \in CStates
  BY Zenon DEF IInv, ApiInv, CreateBegin
<1>3. byKey'[k] \in IPs
  <2>1. AllHeldUsable'
    BY HeldUsable, PTL
  <2> QED BY <2>1, Zenon
            DEF AllHeldUsable, IPs, NoIP, Usable, First, Last
<1>4. NoAddr \in 0 .. NoAddr
  BY LifecycleAssumption DEF NoAddr
<1>5. had \in BOOLEAN
  BY Zenon
<1>6. call \in CallType /\ call.key = k /\ call.ip = byKey'[k] /\ call.had = had
  <2> HIDE DEF had
  <2> QED BY <1>2, <1>3, <1>4, <1>5, Zenon DEF CallType, CallPCs
<1>7. call # NoCall
  <2> HIDE DEF call
  <2> QED BY <1>6 DEF CallType, CallPCs, NoCall
<1> HIDE DEF call
<1> QED BY <1>1, <1>6, <1>7, Zenon

\* The start of CreatePod: the call knows the address its key holds now.
LEMMA CreateBeginKeeps ==
  ASSUME IInv, NEW k \in Keys, CreateBegin(k) PROVE IInv'
<1>1. /\ create = NoCall /\ ~InCall(k) /\ ~Tracked(k) /\ api[k].state = "present"
      /\ dirs' = dirs \cup {<<k, api[k].uid>>}
      /\ Allocate(k) /\ NoteIfInFlight(k, "crossed") /\ Sound
      /\ UNCHANGED <<api, pods, del, gos, probers, failers, vms, endpoints>>
      /\ UNCHANGED <<kubelet, toRecover>>
  BY Zenon DEF CreateBegin, probeVars, Sound
<1>2. NodeInv' /\ \A j \in Keys : excuse[j] \subseteq excuse'[j]
  BY <1>1, NoteKept, Zenon DEF IInv
<1>3. DirsInv'
  BY <1>1 DEF IInv, ApiInv, DirsInv
<1>4. /\ PoolInv'
      /\ \A j \in Keys \ {k} : byKey'[j] = byKey[j]
      /\ byKey[k] # NoIP => byKey'[k] = byKey[k]
  BY <1>1, PoolAllocate, Zenon DEF IInv
<1>5. \/ create' = NoCall /\ byKey'[k] = NoIP
      \/ /\ create' \in CallType /\ create' # NoCall /\ create'.key = k
         /\ create'.ip = byKey'[k] /\ byKey'[k] # NoIP
         /\ create'.had = (byKey[k] # NoIP)
  BY <1>4, CreateBegins, Zenon
<1>6. CreateInv'
  BY <1>5, Zenon DEF CreateInv
<1>7. del[k] = NoDelete /\ pods[k] = NoPod /\ del[k].pc \notin Freed
  BY <1>1, Zenon DEF IInv, DelInv, DelType, InCall, Tracked, NoDelete, Freed
<1>8. byKey[k] # NoIP => "crash" \in excuse[k]
  BY <1>1, Zenon DEF IInv, NoIPLeak, Had
<1>9. ProbersInv'
  BY <1>1, ProbersKept, Zenon DEF IInv, Tracked
<1>10. OwnInv'
  <2> HIDE DEF NoCall, NoDelete
  <2>1. create' # NoCall =>
          /\ byKey'[create'.key] = create'.ip /\ create'.ip # NoIP
          /\ del'[create'.key] = NoDelete /\ pods'[create'.key] = NoPod
          /\ create'.had => "crash" \in excuse'[create'.key]
    BY <1>1, <1>2, <1>5, <1>7, <1>8, Zenon
  <2>2. \A j \in Keys : Tracked(j) /\ pods[j].ip # NoIP => byKey'[j] = pods[j].ip
    BY <1>4, Zenon DEF IInv, OwnInv
  <2>3. \A j \in Keys : del'[j].pc \in Freed => byKey'[j] = NoIP \/ "crash" \in excuse'[j]
    BY <1>1, <1>2, <1>4, <1>7, Zenon DEF IInv, OwnInv
  <2>4. \A j \in Keys : Tracked(j)' => del'[j] = NoDelete
    BY <1>1, Zenon DEF IInv, OwnInv, Tracked
  <2> QED BY <1>1, <2>1, <2>2, <2>3, <2>4, Zenon DEF OwnInv, Tracked, NoIP
<1>11. NoIPLeak'
  <2>1. ASSUME NEW j \in Keys, j # k, byKey'[j] # NoIP
        PROVE  Tracked(j)' \/ InCall(j)' \/ Had(j, {"crash"})'
    <3>1. Tracked(j) \/ del[j].pc # "idle" \/ "crash" \in excuse[j]
      BY <1>1, <1>4, <2>1, LifecycleAssumption, Zenon
        DEF IInv, NoIPLeak, InCall, Had, NoIP, NoCall
    <3> QED BY <1>1, <1>2, <3>1, Zenon DEF Tracked, InCall, Had
  <2>2. byKey'[k] # NoIP => InCall(k)'
    BY <1>5, Zenon DEF InCall
  <2> QED BY <2>1, <2>2, Zenon DEF NoIPLeak, NoIP
<1> QED BY <1>1, <1>2, <1>3, <1>4, <1>6, <1>9, <1>10, <1>11, Frames, Zenon DEF IInv

\* `create` moves on within its call.
Moves(c) == c \in CallType /\ c.key = create.key /\ c.ip = create.ip /\ c.had = create.had

\* A call's program counter moves, and nothing else of the call.
LEMMA GotoMoves ==
  ASSUME create \in CallType, NEW pc \in CallPCs, Goto(pc) PROVE Moves(create')
BY Zenon DEF Moves, CallType, Goto

\* Any step in the middle of CreatePod but the commit: the call moves on, or
\* ends and gives its address back.
LEMMA CallStep ==
  ASSUME IInv, create \in CallType, create # NoCall,
         \/ Moves(create') /\ UNCHANGED <<pods, byKey, byIP, cursor>>
         \/ /\ Return /\ AbandonIP(create)
            /\ \/ UNCHANGED pods
               \/ pods' = [pods EXCEPT ![create.key] = TerminalPod(create.uid)],
         UNCHANGED <<api, del, gos, probers, failers, kubelet, toRecover>>,
         Sound \/ Fault,
         UNCHANGED excuse \/ \E k \in Keys, why \in Reasons : Excuse(k, why),
         VMsInv', EndpointsInv', DirsInv'
  PROVE  IInv'
<1>1. NodeInv' /\ \A k \in Keys : excuse[k] \subseteq excuse'[k]
  BY NodeKept, Zenon DEF IInv
<1>2. CASE Moves(create') /\ UNCHANGED <<pods, byKey, byIP, cursor>>
  <2>1. CreateInv' /\ ProbersInv' /\ OwnInv' /\ NoIPLeak'
    BY <1>1, <1>2, CallMoves, Zenon DEF Moves
  <2> QED BY <1>1, <1>2, <2>1, Frames, PoolFrame, Zenon DEF IInv, ipamVars
<1>3. CASE /\ Return /\ AbandonIP(create)
           /\ \/ UNCHANGED pods
              \/ pods' = [pods EXCEPT ![create.key] = TerminalPod(create.uid)]
  <2>1. PodsInv' /\ CreateInv' /\ ProbersInv' /\ PoolInv' /\ OwnInv' /\ NoIPLeak'
    BY <1>1, <1>3, CallFails, Zenon
  <2> QED BY <1>1, <2>1, Frames, Zenon DEF IInv
<1> QED BY <1>2, <1>3, Zenon

\* The steps of CreatePod between allocation and commit keep the invariant.
LEMMA CreateLookupKeeps == ASSUME IInv, CreateLookup PROVE IInv'
<1>1. create \in CallType /\ create # NoCall
  BY InCreate, Zenon DEF CreateLookup, At
<1>2. PICK obs \in VM!Phases \cup {"error"} :
        /\ Observes(create.key, obs)
        /\ create' = [create EXCEPT
             !.adopted = obs \notin {"none", "error"},
             !.pc = CASE obs \in {"none", "error"} -> "pull"
                      [] obs = "created"           -> "startAdopted"
                      [] OTHER                     -> "observe"]
  BY Zenon DEF CreateLookup
<1>3. Moves(create')
  BY <1>1, <1>2, Zenon DEF Moves, CallType, CallPCs
<1>4. Sound \/ Fault
  BY <1>2, Zenon DEF Observes
<1> QED BY <1>1, <1>3, <1>4, CallStep, Frames, Zenon
          DEF CreateLookup, IInv, ipamVars, probeVars

\* Starting an adopted VM.
LEMMA CreateStartAdoptedKeeps == ASSUME IInv, CreateStartAdopted PROVE IInv'
<1>1. create \in CallType /\ create # NoCall /\ create.key \in Keys /\ create.uid \in Uids
  BY InCreate, Zenon DEF CreateStartAdopted, At
<1>2. VMsInv'
  BY <1>1, VMsKept, Zenon DEF CreateStartAdopted, IInv
<1>3. Goto("observe") => Moves(create')
  BY <1>1, GotoMoves, Zenon DEF CallPCs
<1> QED BY <1>1, <1>2, <1>3, CallStep, Frames, Zenon
        DEF CreateStartAdopted, IInv, ipamVars, probeVars

\* Pulling the image.
LEMMA CreatePullKeeps == ASSUME IInv, CreatePull PROVE IInv'
<1>1. create \in CallType /\ create # NoCall
  BY InCreate, Zenon DEF CreatePull, At
<1>2. Goto("create") => Moves(create')
  BY <1>1, GotoMoves, Zenon DEF CallPCs
<1> QED BY <1>1, <1>2, CallStep, Frames, Zenon DEF CreatePull, IInv, ipamVars, probeVars

\* Creating the VM.
LEMMA CreateVMKeeps == ASSUME IInv, CreateVM PROVE IInv'
<1>1. create \in CallType /\ create # NoCall /\ create.key \in Keys /\ create.uid \in Uids
  BY InCreate, Zenon DEF CreateVM, At
<1>2. VMsInv'
  BY <1>1, VMsKept, Zenon DEF CreateVM, IInv
<1>3. Goto("start") => Moves(create')
  BY <1>1, GotoMoves, Zenon DEF CallPCs
<1>4. DirsInv'
  BY Zenon DEF CreateVM, IInv, DirsInv
<1> QED BY <1>1, <1>2, <1>3, <1>4, CallStep, Frames, Zenon
          DEF CreateVM, IInv, ipamVars, probeVars

\* Starting the VM.
LEMMA CreateStartKeeps == ASSUME IInv, CreateStart PROVE IInv'
<1>1. create \in CallType /\ create # NoCall /\ create.key \in Keys /\ create.uid \in Uids
  BY InCreate, Zenon DEF CreateStart, At
<1>2. VMsInv'
  BY <1>1, VMsKept, Zenon DEF CreateStart, IInv
<1>3. Goto("observe") \/ Goto("rollback") => Moves(create')
  BY <1>1, GotoMoves, Zenon DEF CallPCs
<1> QED BY <1>1, <1>2, <1>3, CallStep, Frames, Zenon
          DEF CreateStart, IInv, ipamVars, probeVars

\* Waiting for the VM's address.
LEMMA CreateObserveKeeps == ASSUME IInv, CreateObserve PROVE IInv'
<1>1. create \in CallType /\ create # NoCall /\ create.key \in Keys
  BY InCreate, Zenon DEF CreateObserve, At
<1>2. vms[create.key].addr \in 0 .. NoAddr
  <2>1. vms[create.key].addr \in 0 .. NumAddrs - 1
    BY <1>1, Zenon DEF IInv, VMsInv, VM!VMTypeOK
  <2> QED BY <2>1, LifecycleAssumption DEF NoAddr
<1>3. create' = [create EXCEPT !.addr = vms[create.key].addr, !.pc = "attach"]
        => Moves(create')
  BY <1>1, <1>2, Zenon DEF Moves, CallType, CallPCs
<1>4. Goto("rollback") => Moves(create')
  BY <1>1, GotoMoves, Zenon DEF CallPCs
<1> QED BY <1>1, <1>3, <1>4, CallStep, Frames, Zenon
        DEF CreateObserve, Unwind, IInv, ipamVars, probeVars

\* Wiring the VM into the Pod network.
LEMMA CreateAttachKeeps == ASSUME IInv, CreateAttach PROVE IInv'
<1>1. /\ create \in CallType /\ create # NoCall /\ create.key \in Keys
      /\ create.ip \in IPs /\ create.addr \in 0 .. NoAddr
  BY InCreate, Zenon DEF CreateAttach, At, CallType
<1>2. UNCHANGED endpoints
      \/ endpoints' = [endpoints EXCEPT ![create.key] =
                         [ip |-> create.ip, addr |-> create.addr]]
  BY Zenon DEF CreateAttach, AttachOK, AttachFails
<1>3. EndpointsInv'
  BY <1>1, <1>2, EndpointsKept, Frames, Zenon DEF IInv
<1>4. Goto("commit") \/ Goto("rollback") => Moves(create')
  BY <1>1, GotoMoves, Zenon DEF CallPCs
<1>5. Sound \/ Fault
  BY Zenon DEF CreateAttach, AttachOK, AttachFails
<1>6. UNCHANGED excuse \/ Excuse(create.key, "loadFailed")
  BY Zenon DEF CreateAttach, AttachOK, AttachFails
<1>7. UNCHANGED excuse \/ \E k \in Keys, why \in Reasons : Excuse(k, why)
  BY <1>1, <1>6, Zenon DEF Reasons
<1> QED BY <1>1, <1>3, <1>4, <1>5, <1>7, CallStep, Frames, Zenon
        DEF CreateAttach, Unwind, IInv, ipamVars, probeVars

\* Rolling a failed create back.
LEMMA CreateRollbackKeeps == ASSUME IInv, CreateRollback PROVE IInv'
<1>1. create \in CallType /\ create # NoCall /\ create.key \in Keys /\ create.uid \in Uids
  BY InCreate, Zenon DEF CreateRollback, At
<1>2. /\ VMsInv' /\ (Sound \/ Fault)
      /\ UNCHANGED excuse \/ \E j \in Keys, why \in Reasons : Excuse(j, why)
  BY <1>1, DestroysKept, Zenon DEF CreateRollback
<1>3. DirsInv'
  BY Zenon DEF CreateRollback, IInv, DirsInv
<1> QED BY <1>1, <1>2, <1>3, CallStep, Frames, Zenon
          DEF CreateRollback, IInv, ipamVars, probeVars

\* The commit: the Pod takes over the address of its call.
LEMMA CreateCommitKeeps == ASSUME IInv, CreateCommit PROVE IInv'
<1> DEFINE k  == create.key
           st == [uid |-> create.uid, policy |-> create.spec, terminal |-> FALSE,
                  wl |-> TRUE, ip |-> create.ip, attached |-> TRUE,
                  restarting |-> FALSE, probes |-> FALSE, cs |-> create.cs]
<1>1. /\ create \in CallType /\ create # NoCall /\ k \in Keys /\ create.uid \in Uids
      /\ ~Tracked(k) /\ del[k] = NoDelete
  BY InCreate, Zenon DEF CreateCommit, At
<1>2. st \in PodType /\ st.ip = create.ip /\ st.probes = FALSE /\ st.uid \in Uids
  BY <1>1, Zenon DEF PodType, CallType
<1>3. PICK obs \in VM!Phases \cup {"error"} :
        /\ Observes(k, obs)
        /\ IF Reconciled(st, obs).cs = "running"
             THEN /\ pods' = [pods EXCEPT ![k] = StartedProbes(Reconciled(st, obs))]
                  /\ StartProbes(k)
             ELSE pods' = [pods EXCEPT ![k] = Reconciled(st, obs)] /\ UNCHANGED probeVars
        /\ IF Launches(st, obs) THEN Spawn(k, st.uid, "backoff") ELSE UNCHANGED gos
  BY Zenon DEF CreateCommit
<1> HIDE DEF st, k
<1> DEFINE rs == Reconciled(st, obs)
<1>4. rs \in PodType /\ rs.ip = create.ip /\ rs.probes = FALSE
  BY <1>2, ReconciledKept, Zenon
<1>5. StartedProbes(rs) \in PodType /\ StartedProbes(rs).ip = create.ip
      /\ StartedProbes(rs).probes = Probed
  BY <1>4, LifecycleAssumption, Zenon DEF StartedProbes, PodType
<1>6. PICK new \in PodType :
        /\ pods' = [pods EXCEPT ![k] = new] /\ new.ip = create.ip
        /\ \/ StartProbes(k) /\ new.probes = Probed
           \/ UNCHANGED <<probers, failers>> /\ new.probes = FALSE
  BY <1>3, <1>4, <1>5, Zenon DEF probeVars
<1>7. PodsInv' /\ pods'[k] = new /\ \A j \in Keys \ {k} : pods'[j] = pods[j]
  BY <1>1, <1>6, Zenon DEF IInv, PodsInv
<1>8. ProbersInv' /\ FailersInv'
  <2>1. CASE StartProbes(k) /\ new.probes = Probed
    <3>1. /\ FailersInv' /\ probers' \in [Keys -> 0 .. 2]
          /\ Probed => probers'[k] >= 1
          /\ \A j \in Keys : probers'[j] >= probers[j]
      BY <1>1, <2>1, StartProbesKept, Zenon DEF IInv
    <3>2. \A j \in Keys : Tracked(j)' /\ pods'[j].probes => probers'[j] >= 1
      BY <1>7, <2>1, <3>1 DEF IInv, ProbersInv, Tracked
    <3> QED BY <3>1, <3>2, Zenon DEF ProbersInv
  <2>2. CASE UNCHANGED <<probers, failers>> /\ new.probes = FALSE
    BY <1>7, <2>2, Frames, Zenon DEF IInv, ProbersInv, Tracked
  <2> QED BY <1>6, <2>1, <2>2, Zenon
<1>9. GosInv'
  BY <1>1, <1>2, <1>3, SpawnKept, Zenon DEF IInv
<1>10. NodeInv' /\ \A j \in Keys : excuse[j] \subseteq excuse'[j]
  <2>1. Sound \/ Fault
    BY <1>3, Zenon DEF Observes
  <2> QED BY <2>1, NodeKept, Zenon DEF IInv, CreateCommit
<1>11. create' = NoCall /\ CreateInv' /\ UNCHANGED <<byKey, byIP, cursor, del>>
  BY Zenon DEF CreateCommit, Return, CreateInv, CommitIP, ipamVars
<1>12. byKey[k] = create.ip
  BY <1>1, Zenon DEF IInv, OwnInv, k
<1>13. OwnInv'
  BY <1>1, <1>6, <1>7, <1>10, <1>11, <1>12, Zenon DEF IInv, OwnInv, Tracked, NoIP
<1>14. NoIPLeak'
  <2>1. pods'[k] # NoPod
    BY <1>7, ZenonT(30) DEF PodType, NoPod
  <2>2. ASSUME NEW j \in Keys, j # k, byKey'[j] # NoIP
        PROVE  Tracked(j)' \/ InCall(j)' \/ Had(j, {"crash"})'
    <3>1. Tracked(j) \/ del[j].pc # "idle" \/ "crash" \in excuse[j]
      BY <1>11, <2>2, Zenon DEF IInv, NoIPLeak, InCall, Had, k
    <3> QED BY <1>7, <1>10, <1>11, <2>2, <3>1, Zenon DEF Tracked, InCall, Had
  <2> QED BY <2>1, <2>2, Zenon DEF NoIPLeak, Tracked, NoIP
<1> QED BY <1>7, <1>8, <1>9, <1>10, <1>11, <1>13, <1>14, Frames, PoolFrame, Zenon
        DEF IInv, CreateCommit, ipamVars

-----------------------------------------------------------------------------
(* DeletePod.                                                              *)

\* Steps in the middle of a DeletePod call that keep the address.
LEMMA DelStep ==
  ASSUME IInv, NEW k \in Keys, del[k] # NoDelete,
         NEW pc \in {"detach", "release", "stop", "destroy", "cleanup"},
         del' = [del EXCEPT ![k].pc = pc], pc \in Freed => del[k].pc \in Freed,
         UNCHANGED <<api, pods, create, gos, probers, failers, byKey, byIP, cursor,
                     kubelet, toRecover>>,
         Sound \/ Fault,
         UNCHANGED excuse \/ \E j \in Keys, why \in Reasons : Excuse(j, why),
         VMsInv', EndpointsInv', DirsInv'
  PROVE  IInv'
<1>1. NodeInv' /\ \A j \in Keys : excuse[j] \subseteq excuse'[j]
  BY NodeKept, Zenon DEF IInv
<1>2. del[k] \in DelType
  BY Zenon DEF IInv, DelInv
<1>3. [del[k] EXCEPT !.pc = pc] \in DelType
  BY <1>2, Zenon DEF DelType
<1>4. del' = [del EXCEPT ![k] = [del[k] EXCEPT !.pc = pc]]
  BY Zenon
<1>5. DelInv' /\ \A j \in Keys \ {k} : del'[j] = del[j]
  BY <1>3, <1>4, Zenon DEF IInv, DelInv
<1>6. del'[k] # NoDelete
  BY <1>3, <1>4 DEF IInv, DelInv, DelType, NoDelete
<1>7. ProbersInv'
  BY ProbersKept, Zenon DEF IInv, Tracked
<1>8. \A j \in Keys : Tracked(j)' <=> Tracked(j)
  BY Zenon DEF Tracked
<1>9. \A j \in Keys : del'[j] = NoDelete <=> del[j] = NoDelete
  BY <1>5, <1>6, Zenon
<1>10. \A j \in Keys : del'[j].pc \in Freed => del[j].pc \in Freed
  BY <1>3, <1>4, <1>5, ZenonT(30) DEF IInv, DelInv, DelType
<1>11. OwnInv' /\ NoIPLeak'
  BY <1>1, <1>5, <1>8, <1>9, <1>10, OwnKept, Zenon DEF IInv
<1> QED BY <1>1, <1>5, <1>7, <1>11, Frames, PoolFrame, Zenon DEF IInv, ipamVars

\* A key in the middle of a deletion has a record of it.
LEMMA InDelete ==
  ASSUME IInv, NEW k \in Keys, del[k].pc # "idle"
  PROVE  del[k] # NoDelete /\ del[k] \in DelType
BY DEF IInv, DelInv, NoDelete

\* The critical section of DeletePod: the Pod's address passes to the call.
LEMMA DeleteForgetKeeps ==
  ASSUME IInv, NEW k \in Keys, DeleteForget(k) PROVE IInv'
<1> USE DEF DeleteForget
<1>1. pods[k] \in PodType
  BY Zenon DEF IInv, PodsInv, Tracked
<1>2. NodeInv' /\ \A j \in Keys : excuse[j] \subseteq excuse'[j]
  <2>1. UNCHANGED excuse \/ Excuse(k, "outlived")
    BY Zenon DEF NoteIfInFlight
  <2>2. "outlived" \in Reasons
    BY Zenon DEF Reasons
  <2> QED BY <2>1, <2>2, NodeKept, Zenon DEF IInv, Sound
<1>3. PodsInv' /\ pods'[k] = NoPod /\ \A j \in Keys \ {k} : pods'[j] = pods[j]
  BY Zenon DEF IInv, PodsInv
<1> DEFINE d == [pc |-> "detach", uid |-> pods[k].uid, attached |-> pods[k].attached,
                 wl |-> pods[k].wl]
<1>4. d \in DelType /\ d.pc # "idle" /\ d.pc \notin Freed
  BY <1>1, Zenon DEF DelType, PodType, Freed
<1>5. del' = [del EXCEPT ![k] = d]
  BY Zenon
<1> HIDE DEF d
<1>6. DelInv' /\ del'[k] = d /\ \A j \in Keys \ {k} : del'[j] = del[j]
  BY <1>4, <1>5, Zenon DEF IInv, DelInv
<1>7. ProbersInv'
  <2>1. probers' \in [Keys -> 0 .. 2] /\ \A j \in Keys \ {k} : probers'[j] = probers[j]
    BY StopKept, Zenon DEF IInv, StopProbes
  <2> QED BY <1>3, <2>1, Zenon DEF IInv, ProbersInv, Tracked
<1>8. FailersInv'
  BY StopFailersKept, Zenon DEF IInv, StopProbes
<1>9. create # NoCall => create.key # k
  BY Zenon DEF InCall
<1>10. OwnInv'
  BY <1>2, <1>3, <1>4, <1>6, <1>9
     DEF IInv, OwnInv, Tracked, ipamVars, CreateInv, CallType, NoIP
<1>11. NoIPLeak'
  <2>1. ASSUME NEW j \in Keys, j # k, byKey'[j] # NoIP
        PROVE  Tracked(j)' \/ InCall(j)' \/ Had(j, {"crash"})'
    BY <1>2, <1>3, <1>6, <2>1, Zenon DEF IInv, NoIPLeak, Tracked, InCall, Had, ipamVars
  <2>2. InCall(k)'
    BY <1>4, <1>6, Zenon DEF InCall
  <2> QED BY <2>1, <2>2, Zenon DEF NoIPLeak, NoIP
<1> QED BY <1>2, <1>3, <1>6, <1>7, <1>8, <1>10, <1>11, Frames, PoolFrame, Zenon
          DEF IInv, ipamVars

\* What Virtual Kubelet leaves of a deleted Pod.
LEMMA GoneKept ==
  ASSUME ApiInv, NEW k \in Keys, Gone(k) PROVE ApiInv'
<1> DEFINE a == [api[k] EXCEPT !.state = "absent", !.spec = "none", !.ip = NoIP,
                               !.cs = "unset"]
<1>1. a \in [uid : Uids \cup {0}, state : {"absent", "present", "deleting"},
             spec : Specs \cup {"none"}, ip : IPs, cs : CStates] /\ a.state = "absent"
  BY Zenon DEF ApiInv, IPs, CStates
<1>2. api' = [api EXCEPT ![k] = a]
  BY Zenon DEF Gone, ApiInv
<1> HIDE DEF a
<1> QED BY <1>1, <1>2, Zenon DEF ApiInv

\* Deleting a Pod the provider does not track.
LEMMA DeleteUnknownKeeps ==
  ASSUME IInv, NEW k \in Keys, DeleteUnknown(k) PROVE IInv'
<1> USE DEF DeleteUnknown, callVars, probeVars, ipamVars, histVars
<1>1. ApiInv'
  BY GoneKept, Zenon DEF IInv
<1>2. NodeInv' /\ \A j \in Keys : excuse[j] \subseteq excuse'[j]
  BY NodeKept, Zenon DEF IInv, Sound
<1>3. ProbersInv'
  BY ProbersKept, Zenon DEF IInv, Tracked
<1>4. (\A j \in Keys : Tracked(j)' <=> Tracked(j))
      /\ \A j \in Keys : Tracked(j) => pods'[j].ip = pods[j].ip
  BY Zenon DEF Tracked
<1> QED BY <1>1, <1>2, <1>3, <1>4, QuietStep, Frames, Zenon DEF IInv

\* Taking the router's mapping down.
LEMMA DeleteDetachKeeps ==
  ASSUME IInv, NEW k \in Keys, DeleteDetach(k) PROVE IInv'
<1>1. del[k] # NoDelete /\ del[k] \in DelType
  BY InDelete, Zenon DEF DeleteDetach
<1>2. NoIP \in IPs /\ NoAddr \in 0 .. NoAddr
  BY LifecycleAssumption DEF IPs, NoAddr
<1>3. EndpointsInv'
  BY <1>1, <1>2, EndpointsKept, Zenon DEF DeleteDetach, IInv, DelType
<1> QED BY <1>1, <1>3, DelStep, Frames, Zenon
        DEF DeleteDetach, IInv, probeVars, ipamVars, histVars, Sound, Freed

\* Stopping and destroying the VM.
LEMMA DeleteStopKeeps ==
  ASSUME IInv, NEW k \in Keys, DeleteStop(k) PROVE IInv'
<1>1. del[k] # NoDelete /\ del[k].uid \in Uids
  BY InDelete, Zenon DEF DeleteStop, DelType
<1>2. VMsInv'
  BY <1>1, VMsKept, Zenon DEF DeleteStop, Stops, IInv
<1> QED BY <1>1, <1>2, DelStep, Frames, Zenon
          DEF DeleteStop, Stops, IInv, probeVars, ipamVars, Freed

\* Destroying it, with a failure only logged.
LEMMA DeleteDestroyKeeps ==
  ASSUME IInv, NEW k \in Keys, DeleteDestroy(k) PROVE IInv'
<1>1. del[k] # NoDelete /\ del[k].uid \in Uids
  BY InDelete, Zenon DEF DeleteDestroy, DelType
<1>2. /\ VMsInv' /\ (Sound \/ Fault)
      /\ UNCHANGED excuse \/ \E j \in Keys, why \in Reasons : Excuse(j, why)
  BY <1>1, DestroysKept, Zenon DEF DeleteDestroy
<1> QED BY <1>1, <1>2, DelStep, Frames, Zenon
          DEF DeleteDestroy, IInv, probeVars, ipamVars, Freed

\* Giving the address back: nobody else has it.
LEMMA DeleteReleaseKeeps ==
  ASSUME IInv, NEW k \in Keys, DeleteRelease(k) PROVE IInv'
<1> USE DEF DeleteRelease, probeVars, histVars
<1>1. del[k] # NoDelete /\ del[k] \in DelType
  BY InDelete, Zenon
<1>2. NodeInv' /\ \A j \in Keys : excuse[j] \subseteq excuse'[j]
  BY NodeKept, Zenon DEF IInv, Sound
<1>3. PoolInv' /\ byKey' = [byKey EXCEPT ![k] = NoIP]
  BY PoolRelease, Zenon DEF IInv
<1>4. byKey'[k] = NoIP /\ \A j \in Keys \ {k} : byKey'[j] = byKey[j]
  BY <1>3, Zenon DEF IInv, PoolInv, IPAMTypeOK
<1> DEFINE pc == IF del[k].wl THEN "stop" ELSE "cleanup"
<1>5. [del[k] EXCEPT !.pc = pc] \in DelType
  BY <1>1, Zenon DEF DelType
<1>6. del' = [del EXCEPT ![k] = [del[k] EXCEPT !.pc = pc]]
  BY Zenon
<1> HIDE DEF pc
<1>7. DelInv' /\ del'[k] # NoDelete /\ \A j \in Keys \ {k} : del'[j] = del[j]
  BY <1>5, <1>6 DEF IInv, DelInv, DelType, NoDelete
<1>8. ~Tracked(k) /\ (create # NoCall => create.key # k)
  BY <1>1, Zenon DEF IInv, OwnInv
<1>9. ProbersInv'
  BY ProbersKept, Zenon DEF IInv, Tracked
<1>10. create # NoCall => create.key \in Keys
  BY Zenon DEF IInv, CreateInv, CallType
<1>11. OwnInv'
  BY <1>4, <1>7, <1>8, <1>10, ZenonT(30) DEF IInv, OwnInv, Tracked, NoIP
<1>12. NoIPLeak'
  BY <1>2, <1>4, <1>7, Zenon DEF IInv, NoIPLeak, Tracked, InCall, Had, NoIP
<1> QED BY <1>2, <1>3, <1>7, <1>9, <1>11, <1>12, Frames, Zenon DEF IInv

\* The end of DeletePod: nothing is held for the key any more.
LEMMA DeleteCleanupKeeps ==
  ASSUME IInv, NEW k \in Keys, DeleteCleanup(k) PROVE IInv'
<1> USE DEF DeleteCleanup, probeVars, histVars, ipamVars
<1>1. del[k] # NoDelete /\ del[k] \in DelType /\ del[k].pc \in Freed
  BY InDelete, Zenon DEF Freed
<1>2. NodeInv' /\ \A j \in Keys : excuse[j] \subseteq excuse'[j]
  BY NodeKept, Zenon DEF IInv, Sound
<1>3. ApiInv'
  BY GoneKept, Zenon DEF IInv
<1>4. DirsInv'
  BY Zenon DEF IInv, DirsInv
<1>5. DelInv' /\ del'[k] = NoDelete /\ \A j \in Keys \ {k} : del'[j] = del[j]
  BY Zenon DEF IInv, DelInv
<1>6. ~Tracked(k) /\ (create # NoCall => create.key # k)
  BY <1>1, Zenon DEF IInv, OwnInv
<1>7. byKey[k] = NoIP \/ "crash" \in excuse[k]
  BY <1>1, Zenon DEF IInv, OwnInv
<1>8. ProbersInv'
  BY ProbersKept, Zenon DEF IInv, Tracked
<1>9. create # NoCall => create.key \in Keys
  BY Zenon DEF IInv, CreateInv, CallType
<1>10. OwnInv'
  BY <1>2, <1>5, <1>6, <1>9, Zenon
      DEF IInv, OwnInv, Tracked, NoDelete, Freed, NoIP
<1>11. NoIPLeak'
  BY <1>2, <1>5, <1>7, Zenon DEF IInv, NoIPLeak, Tracked, InCall, Had, NoIP
<1> QED BY <1>2, <1>3, <1>4, <1>5, <1>8, <1>10, <1>11, Frames, PoolFrame, Zenon DEF IInv

-----------------------------------------------------------------------------
(* Status reports, probes and the goroutines.                              *)

\* A tracked Pod's record changes, but not its address.
LEMMA PodStep ==
  ASSUME IInv, NEW k \in Keys, Tracked(k), NEW new \in PodType, new.ip = pods[k].ip,
         pods' = [pods EXCEPT ![k] = new]
  PROVE  /\ PodsInv' /\ pods'[k] = new
         /\ \A j \in Keys \ {k} : pods'[j] = pods[j]
         /\ \A j \in Keys : Tracked(j)' <=> Tracked(j)
         /\ \A j \in Keys : Tracked(j) => pods'[j].ip = pods[j].ip
<1>1. PodsInv' /\ pods'[k] = new /\ \A j \in Keys \ {k} : pods'[j] = pods[j]
  BY Zenon DEF IInv, PodsInv
<1>2. new # NoPod
  BY DEF PodType, NoPod
<1> QED BY <1>1, <1>2, Zenon DEF Tracked

\* A tracked Pod has a proper record.
LEMMA TrackedPod == ASSUME IInv, NEW k \in Keys, Tracked(k) PROVE pods[k] \in PodType
BY Zenon DEF IInv, PodsInv, Tracked

\* A status reconcile.
LEMMA SyncStatusKeeps == ASSUME IInv, NEW k \in Keys, SyncStatus(k) PROVE IInv'
<1>1. Tracked(k) /\ pods[k] \in PodType /\ pods[k].uid \in Uids
  BY TrackedPod, Zenon DEF SyncStatus, PodType
<1>2. PICK obs \in VM!Phases \cup {"error"} :
        /\ Observes(k, obs)
        /\ pods' = [pods EXCEPT ![k] = Reconciled(pods[k], obs)]
        /\ api' = [api EXCEPT ![k].ip = Reconciled(pods[k], obs).ip,
                              ![k].cs = Reconciled(pods[k], obs).cs]
        /\ IF Launches(pods[k], obs) THEN Spawn(k, pods[k].uid, "backoff")
                                     ELSE UNCHANGED gos
  BY Zenon DEF SyncStatus
<1> DEFINE rs == Reconciled(pods[k], obs)
<1>3. rs \in PodType /\ rs.ip = pods[k].ip /\ rs.probes = pods[k].probes
  BY <1>1, ReconciledKept, Zenon
<1>4. api' = [api EXCEPT ![k].ip = rs.ip, ![k].cs = rs.cs] /\ pods' = [pods EXCEPT ![k] = rs]
  BY <1>2, Zenon
<1> HIDE DEF rs
<1>5. ApiInv'
  <2> DEFINE a == [api[k] EXCEPT !.ip = rs.ip, !.cs = rs.cs]
  <2>1. /\ a \in [uid : Uids \cup {0}, state : {"absent", "present", "deleting"},
                  spec : Specs \cup {"none"}, ip : IPs, cs : CStates]
        /\ a.state # "absent" => a.uid \in Uids /\ a.spec \in Specs
    <3>1. rs.ip \in IPs /\ rs.cs \in CStates
      BY <1>3, Zenon DEF PodType
    <3>2. /\ api[k] \in [uid : Uids \cup {0}, state : {"absent", "present", "deleting"},
                          spec : Specs \cup {"none"}, ip : IPs, cs : CStates]
          /\ api[k].state # "absent" => api[k].uid \in Uids /\ api[k].spec \in Specs
      BY Zenon DEF IInv, ApiInv
    <3> QED BY <3>1, <3>2, Zenon
  <2>2. api' = [api EXCEPT ![k] = a]
    BY <1>4, Zenon
  <2> HIDE DEF a
  <2> QED BY <2>1, <2>2, Zenon DEF IInv, ApiInv
<1>6. /\ PodsInv' /\ pods'[k] = rs
      /\ \A j \in Keys \ {k} : pods'[j] = pods[j]
      /\ \A j \in Keys : Tracked(j)' <=> Tracked(j)
      /\ \A j \in Keys : Tracked(j) => pods'[j].ip = pods[j].ip
  BY <1>1, <1>3, <1>4, PodStep, Zenon
<1>7. ProbersInv'
  BY <1>1, <1>3, <1>6, ProbersKept, Zenon DEF IInv, SyncStatus, probeVars
<1>8. GosInv'
  BY <1>1, <1>2, SpawnKept, Zenon DEF IInv
<1>9. NodeInv' /\ \A j \in Keys : excuse[j] \subseteq excuse'[j]
  <2>1. Sound \/ Fault
    BY <1>2, Zenon DEF Observes
  <2> QED BY <2>1, NodeKept, Zenon DEF IInv, SyncStatus
<1> QED BY <1>5, <1>6, <1>7, <1>8, <1>9, QuietStep, Frames, Zenon
        DEF IInv, SyncStatus, callVars, probeVars, ipamVars

\* The prober that calls failProbe leaves a proper set behind.
LEMMA ExitedKept ==
  ASSUME FailersInv, NEW k \in Keys, NEW f
  PROVE  Exited(k, f) \in SUBSET {"armed", "late"}
BY Zenon DEF FailersInv, Exited

\* A probe failure nobody is interested in.
LEMMA FailProbeIgnoredKeeps ==
  ASSUME IInv, NEW k \in Keys, NEW f, FailProbeIgnored(k, f) PROVE IInv'
<1> USE DEF FailProbeIgnored, ProberExits, callVars, ipamVars, histVars
<1>1. FailersInv'
  BY ExitedKept, Zenon DEF IInv, FailersInv
<1>2. NodeInv' /\ \A j \in Keys : excuse[j] \subseteq excuse'[j]
  BY NodeKept, Zenon DEF IInv, Sound
<1>3. ProbersInv'
  BY ProbersKept, Zenon DEF IInv, Tracked
<1>4. (\A j \in Keys : Tracked(j)' <=> Tracked(j))
      /\ \A j \in Keys : Tracked(j) => pods'[j].ip = pods[j].ip
  BY Zenon DEF Tracked
<1> QED BY <1>1, <1>2, <1>3, <1>4, QuietStep, Frames, Zenon DEF IInv

\* A probe failure that launches a restart.
LEMMA FailProbeRestartKeeps ==
  ASSUME IInv, NEW k \in Keys, NEW f, FailProbeRestart(k, f) PROVE IInv'
<1> USE DEF FailProbeRestart, ProberExits, callVars, ipamVars, histVars
<1>1. Tracked(k) /\ pods[k] \in PodType /\ pods[k].uid \in Uids
  BY TrackedPod, Zenon DEF PodType
<1> DEFINE new == [pods[k] EXCEPT !.restarting = TRUE]
<1>2. new \in PodType /\ new.ip = pods[k].ip /\ new.probes = pods[k].probes
  BY <1>1, Zenon DEF PodType
<1>3. pods' = [pods EXCEPT ![k] = new]
  BY Zenon
<1> HIDE DEF new
<1>4. /\ PodsInv' /\ pods'[k] = new
      /\ \A j \in Keys \ {k} : pods'[j] = pods[j]
      /\ \A j \in Keys : Tracked(j)' <=> Tracked(j)
      /\ \A j \in Keys : Tracked(j) => pods'[j].ip = pods[j].ip
  BY <1>1, <1>2, <1>3, PodStep, Zenon
<1>5. FailersInv'
  BY ExitedKept, Zenon DEF IInv, FailersInv
<1>6. NodeInv' /\ \A j \in Keys : excuse[j] \subseteq excuse'[j]
  BY NodeKept, Zenon DEF IInv, Sound
<1>7. ProbersInv'
  BY <1>1, <1>2, <1>4, ProbersKept, Zenon DEF IInv
<1>8. GosInv'
  BY <1>1, SpawnKept, Zenon DEF IInv
<1> QED BY <1>4, <1>5, <1>6, <1>7, <1>8, QuietStep, Frames, Zenon DEF IInv

\* A probe failure that ends the Pod.
LEMMA FailProbeKillKeeps ==
  ASSUME IInv, NEW k \in Keys, NEW f, FailProbeKill(k, f) PROVE IInv'
<1> USE DEF FailProbeKill, callVars, ipamVars, histVars
<1>1. Tracked(k) /\ pods[k] \in PodType /\ pods[k].uid \in Uids
  BY TrackedPod, Zenon DEF PodType
<1> DEFINE new == [pods[k] EXCEPT !.terminal = TRUE, !.cs = "failed", !.probes = FALSE]
<1>2. new \in PodType /\ new.ip = pods[k].ip /\ new.probes = FALSE
  BY <1>1, Zenon DEF PodType, CStates
<1>3. pods' = [pods EXCEPT ![k] = new]
  BY Zenon
<1> HIDE DEF new
<1>4. /\ PodsInv' /\ pods'[k] = new
      /\ \A j \in Keys \ {k} : pods'[j] = pods[j]
      /\ \A j \in Keys : Tracked(j)' <=> Tracked(j)
      /\ \A j \in Keys : Tracked(j) => pods'[j].ip = pods[j].ip
  BY <1>1, <1>2, <1>3, PodStep, Zenon
<1>5. FailersInv'
  BY ExitedKept, CancelledKept, Zenon DEF IInv, FailersInv
<1>6. NodeInv' /\ \A j \in Keys : excuse[j] \subseteq excuse'[j]
  BY NodeKept, Zenon DEF IInv, Sound
<1>7. ProbersInv'
  <2>1. probers' \in [Keys -> 0 .. 2] /\ \A j \in Keys \ {k} : probers'[j] = probers[j]
    BY <1>1, StopKept, Zenon DEF IInv
  <2> QED BY <1>2, <1>4, <2>1, Zenon DEF IInv, ProbersInv
<1>8. GosInv'
  BY <1>1, SpawnKept, Zenon DEF IInv
<1> QED BY <1>4, <1>5, <1>6, <1>7, <1>8, QuietStep, Frames, Zenon DEF IInv

\* A goroutine's record changes, within its type.
LEMMA GoKept ==
  ASSUME GosInv, NEW g \in Slots, NEW new \in GoType \cup {NoGo},
         gos' = [gos EXCEPT ![g] = new]
  PROVE  GosInv'
BY Zenon DEF GosInv

\* A goroutine at work has a proper record.
LEMMA InGo ==
  ASSUME GosInv, NEW g \in Slots, gos[g].pc # "idle"
  PROVE  gos[g] \in GoType /\ gos[g].key \in Keys /\ gos[g].uid \in Uids
         /\ gos[g].ip \in IPs /\ gos[g].addr \in 0 .. NoAddr /\ gos[g].was \in BOOLEAN
         /\ gos[g].att \in BOOLEAN
BY DEF GosInv, GoType, NoGo

\* A goroutine's program counter moves, or the goroutine ends.
LEMMA GoMoves ==
  ASSUME GosInv, NEW g \in Slots, gos[g] \in GoType, NEW pc \in GoPCs,
         GoGoto(g, pc) \/ GoDone(g)
  PROVE  GosInv'
<1>1. [gos[g] EXCEPT !.pc = pc] \in GoType
  BY Zenon DEF GoType
<1>2. GoGoto(g, pc) => gos' = [gos EXCEPT ![g] = [gos[g] EXCEPT !.pc = pc]]
  BY Zenon DEF GoGoto
<1> QED BY <1>1, <1>2, GoKept, Zenon DEF GoDone

\* Steps of a goroutine that do not touch the provider's Pods.
LEMMA GoStepKeeps ==
  ASSUME IInv, GosInv', VMsInv', EndpointsInv', Sound \/ Fault,
         UNCHANGED excuse \/ \E j \in Keys, why \in Reasons : Excuse(j, why),
         UNCHANGED <<api, pods, create, del, probers, failers, byKey, byIP, cursor, dirs,
                     kubelet, toRecover>>
  PROVE  IInv'
<1>1. NodeInv' /\ \A j \in Keys : excuse[j] \subseteq excuse'[j]
  BY NodeKept, Zenon DEF IInv
<1>2. ProbersInv'
  BY ProbersKept, Zenon DEF IInv, Tracked
<1>3. (\A j \in Keys : Tracked(j)' <=> Tracked(j))
      /\ \A j \in Keys : Tracked(j) => pods'[j].ip = pods[j].ip
  BY Zenon DEF Tracked
<1> QED BY <1>1, <1>2, <1>3, QuietStep, Frames, Zenon DEF IInv

\* The end of a restart's backoff.
LEMMA RestartWakeKeeps == ASSUME IInv, NEW g \in Slots, RestartWake(g) PROVE IInv'
<1> DEFINE k == gos[g].key
<1>1. gos[g] \in GoType /\ k \in Keys
  BY InGo, Zenon DEF IInv, RestartWake, GoAt
<1>2. UNCHANGED <<api, create, del, vms, byKey, byIP, cursor, endpoints, dirs, kubelet,
                  toRecover, faults, excuse>>
  BY Zenon DEF RestartWake, callVars, ipamVars, histVars
<1>3. NodeInv' /\ \A j \in Keys : excuse[j] \subseteq excuse'[j]
  BY <1>2, NodeKept, Zenon DEF IInv, Sound
<1>4. CASE ~Tracked(k) /\ GoDone(g) /\ UNCHANGED <<pods, probers, failers>>
  <2>1. GosInv'
    BY <1>4, GoKept, Zenon DEF IInv, GoDone
  <2> QED BY <1>2, <1>4, <2>1, GoStepKeeps, Frames, Zenon DEF IInv, Sound
<1>5. CASE /\ Tracked(k) /\ pods[k].terminal
           /\ pods' = [pods EXCEPT ![k].restarting = FALSE]
           /\ GoDone(g) /\ UNCHANGED <<probers, failers>>
  <2>1. GosInv'
    BY <1>5, GoKept, Zenon DEF IInv, GoDone
  <2> DEFINE new == [pods[k] EXCEPT !.restarting = FALSE]
  <2>2. new \in PodType /\ new.ip = pods[k].ip /\ new.probes = pods[k].probes
    BY <1>1, <1>5, TrackedPod, ZenonT(30) DEF PodType
  <2>3. pods' = [pods EXCEPT ![k] = new]
    BY <1>5, Zenon
  <2> HIDE DEF new, k
  <2>4. /\ PodsInv' /\ pods'[k] = new
        /\ \A j \in Keys \ {k} : pods'[j] = pods[j]
        /\ \A j \in Keys : Tracked(j)' <=> Tracked(j)
        /\ \A j \in Keys : Tracked(j) => pods'[j].ip = pods[j].ip
    BY <1>1, <1>5, <2>2, <2>3, PodStep, Zenon
  <2>5. ProbersInv'
    BY <1>1, <1>5, <2>2, <2>4, ProbersKept, Zenon DEF IInv
  <2> QED BY <1>2, <1>3, <1>5, <2>1, <2>4, <2>5, QuietStep, Frames, Zenon DEF IInv
<1>6. CASE /\ Tracked(k) /\ ~pods[k].terminal
           /\ gos' = [gos EXCEPT ![g].pc = "detach", ![g].uid = pods[k].uid,
                                 ![g].stale = pods[k].uid # gos[g].uid,
                                 ![g].ip = pods[k].ip, ![g].was = pods[k].attached]
           /\ pods' = [pods EXCEPT ![k].probes = FALSE]
           /\ StopProbes(k)
  <2>0. pods[k] \in PodType
    BY <1>1, <1>6, TrackedPod, Zenon
  <2> DEFINE stale == pods[k].uid # gos[g].uid
             go == [gos[g] EXCEPT !.pc = "detach", !.uid = pods[k].uid, !.stale = stale,
                                  !.ip = pods[k].ip, !.was = pods[k].attached]
  <2>1. GosInv'
    <3>1. gos' = [gos EXCEPT ![g] = go]
      BY <1>6, Zenon DEF stale
    <3>2. stale \in BOOLEAN
      BY Zenon
    <3>3. go \in GoType
      <4> HIDE DEF stale
      <4> QED BY <1>1, <2>0, <3>2, Zenon DEF GoType, PodType, GoPCs
    <3> HIDE DEF go
    <3> QED BY <3>1, <3>3, GoKept, Zenon DEF IInv
  <2> DEFINE new == [pods[k] EXCEPT !.probes = FALSE]
  <2>2. new \in PodType /\ new.ip = pods[k].ip /\ new.probes = FALSE
    BY <2>0, Zenon DEF PodType
  <2>3. pods' = [pods EXCEPT ![k] = new]
    BY <1>6, Zenon
  <2> HIDE DEF new, k
  <2>4. /\ PodsInv' /\ pods'[k] = new
        /\ \A j \in Keys \ {k} : pods'[j] = pods[j]
        /\ \A j \in Keys : Tracked(j)' <=> Tracked(j)
        /\ \A j \in Keys : Tracked(j) => pods'[j].ip = pods[j].ip
    BY <1>1, <1>6, <2>2, <2>3, PodStep, Zenon
  <2>5. ProbersInv'
    <3>1. probers' \in [Keys -> 0 .. 2] /\ \A j \in Keys \ {k} : probers'[j] = probers[j]
      BY <1>1, <1>6, StopKept, Zenon DEF IInv, StopProbes
    <3> QED BY <2>2, <2>4, <3>1, Zenon DEF IInv, ProbersInv
  <2>6. FailersInv'
    BY <1>1, <1>6, StopFailersKept, Zenon DEF IInv, StopProbes
  <2> QED BY <1>2, <1>3, <2>1, <2>4, <2>5, <2>6, QuietStep, Frames, Zenon DEF IInv
<1> QED BY <1>4, <1>5, <1>6, Zenon DEF RestartWake, probeVars

\* The steps of a restart or a probe kill against the router and the runtime.
LEMMA RestartDetachKeeps == ASSUME IInv, NEW g \in Slots, RestartDetach(g) PROVE IInv'
<1>1. gos[g] \in GoType /\ gos[g].key \in Keys /\ gos[g].ip \in IPs
      /\ gos[g].addr \in 0 .. NoAddr /\ gos[g].was \in BOOLEAN
  BY InGo, Zenon DEF IInv, RestartDetach, GoAt
<1>2. EndpointsInv'
  BY <1>1, EndpointsKept, Zenon DEF IInv, RestartDetach
<1>3. GosInv'
  <2> DEFINE go == [gos[g] EXCEPT !.pc = "stop", !.was = FALSE]
  <2>1. go \in GoType
    BY <1>1, Zenon DEF GoType, GoPCs
  <2>2. gos' = [gos EXCEPT ![g] = go]
    BY Zenon DEF RestartDetach
  <2> HIDE DEF go
  <2> QED BY <2>1, <2>2, GoKept, Zenon DEF IInv
<1> QED BY <1>2, <1>3, GoStepKeeps, Frames, Zenon
        DEF IInv, RestartDetach, callVars, probeVars, ipamVars, histVars, Sound

\* Stop, in a restart or a probe kill.
LEMMA GoStopKeeps == ASSUME IInv, NEW g \in Slots, GoStop(g) PROVE IInv'
<1>1. gos[g] \in GoType /\ gos[g].key \in Keys /\ gos[g].uid \in Uids
  BY InGo, Zenon DEF IInv, GoStop
<1>2. VMsInv' /\ (Sound \/ Fault)
  BY <1>1, VMsKept, Zenon DEF IInv, GoStop, Stops
<1>3. GosInv'
  BY <1>1, GoMoves, Zenon DEF IInv, GoStop, GoPCs
<1> QED BY <1>2, <1>3, GoStepKeeps, Frames, Zenon
          DEF IInv, GoStop, callVars, probeVars, ipamVars

\* Destroy, wherever a goroutine calls it.
LEMMA GoDestroyKeeps == ASSUME IInv, NEW g \in Slots, GoDestroy(g) PROVE IInv'
<1>1. gos[g] \in GoType /\ gos[g].key \in Keys /\ gos[g].uid \in Uids
  BY InGo, Zenon DEF IInv, GoDestroy
<1>2. /\ VMsInv' /\ (Sound \/ Fault)
      /\ UNCHANGED excuse \/ \E j \in Keys, why \in Reasons : Excuse(j, why)
  BY <1>1, DestroysKept, Zenon DEF GoDestroy
<1>3. GoGoto(g, "create") \/ GoGoto(g, "finish") \/ GoDone(g)
  BY Zenon DEF GoDestroy
<1>4. GosInv'
  BY <1>1, <1>3, GoMoves, Zenon DEF IInv, GoPCs
<1> QED BY <1>2, <1>4, GoStepKeeps, Frames, Zenon
          DEF IInv, GoDestroy, callVars, probeVars, ipamVars

\* Create.
LEMMA RestartCreateKeeps == ASSUME IInv, NEW g \in Slots, RestartCreate(g) PROVE IInv'
<1>1. gos[g] \in GoType /\ gos[g].key \in Keys /\ gos[g].uid \in Uids
  BY InGo, Zenon DEF IInv, RestartCreate, GoAt
<1>2. VMsInv' /\ (Sound \/ Fault)
  BY <1>1, VMsKept, Zenon DEF IInv, RestartCreate
<1>3. GosInv'
  BY <1>1, GoMoves, Zenon DEF IInv, RestartCreate, GoPCs
<1> QED BY <1>2, <1>3, GoStepKeeps, Frames, Zenon
        DEF IInv, RestartCreate, callVars, probeVars, ipamVars

\* Start.
LEMMA RestartStartKeeps == ASSUME IInv, NEW g \in Slots, RestartStart(g) PROVE IInv'
<1>1. gos[g] \in GoType /\ gos[g].key \in Keys /\ gos[g].uid \in Uids
  BY InGo, Zenon DEF IInv, RestartStart, GoAt
<1>2. VMsInv' /\ (Sound \/ Fault)
  BY <1>1, VMsKept, Zenon DEF IInv, RestartStart
<1>3. GosInv'
  BY <1>1, GoMoves, Zenon DEF IInv, RestartStart, GoPCs
<1> QED BY <1>2, <1>3, GoStepKeeps, Frames, Zenon
        DEF IInv, RestartStart, callVars, probeVars, ipamVars

\* Waiting for the new VM's address.
LEMMA RestartObserveKeeps == ASSUME IInv, NEW g \in Slots, RestartObserve(g) PROVE IInv'
<1> DEFINE k == gos[g].key
<1>1. gos[g] \in GoType /\ k \in Keys
  BY InGo, Zenon DEF IInv, RestartObserve, GoAt
<1>2. vms[k].addr \in 0 .. NoAddr
  <2>1. vms[k].addr \in 0 .. NumAddrs - 1
    BY <1>1, Zenon DEF IInv, VMsInv, VM!VMTypeOK
  <2> QED BY <2>1, LifecycleAssumption DEF NoAddr
<1>3. GosInv' /\ (Sound \/ Fault)
  <2> DEFINE found == [gos[g] EXCEPT !.pc = "attach", !.new = TRUE, !.addr = vms[k].addr]
             none  == [gos[g] EXCEPT !.pc = "finish", !.new = TRUE]
  <2>1. found \in GoType /\ none \in GoType
    BY <1>1, <1>2, Zenon DEF GoType, GoPCs
  <2>2. gos' = [gos EXCEPT ![g] = found] \/ gos' = [gos EXCEPT ![g] = none]
    BY Zenon DEF RestartObserve
  <2>3. Sound \/ Fault
    BY Zenon DEF RestartObserve
  <2> HIDE DEF found, none
  <2> QED BY <2>1, <2>2, <2>3, GoKept, Zenon DEF IInv
<1> QED BY <1>3, GoStepKeeps, Frames, Zenon
          DEF IInv, RestartObserve, callVars, probeVars, ipamVars

\* Attach, for the new VM.
LEMMA RestartAttachKeeps == ASSUME IInv, NEW g \in Slots, RestartAttach(g) PROVE IInv'
<1> DEFINE k == gos[g].key
<1>1. gos[g] \in GoType /\ k \in Keys /\ gos[g].ip \in IPs /\ gos[g].addr \in 0 .. NoAddr
  BY InGo, Zenon DEF IInv, RestartAttach, GoAt
<1>2. UNCHANGED endpoints
      \/ endpoints' = [endpoints EXCEPT ![k] = [ip |-> gos[g].ip, addr |-> gos[g].addr]]
  BY Zenon DEF RestartAttach, AttachOK, AttachFails
<1>3. EndpointsInv'
  BY <1>1, <1>2, EndpointsKept, Frames, Zenon DEF IInv
<1>4. (Sound \/ Fault) /\ (UNCHANGED excuse \/ Excuse(k, "loadFailed"))
  BY Zenon DEF RestartAttach, AttachOK, AttachFails
<1>5. UNCHANGED excuse \/ \E j \in Keys, why \in Reasons : Excuse(j, why)
  BY <1>1, <1>4, Zenon DEF Reasons
<1>6. GosInv'
  <2> DEFINE ok   == [gos[g] EXCEPT !.pc = "finish", !.att = TRUE, !.ip = NoIP, !.addr = NoAddr]
             fail == [gos[g] EXCEPT !.pc = "finish", !.ip = NoIP, !.addr = NoAddr]
  <2>1. NoIP \in IPs /\ NoAddr \in 0 .. NoAddr
    BY LifecycleAssumption DEF IPs, NoAddr
  <2>2. ok \in GoType /\ fail \in GoType
    BY <1>1, <2>1, Zenon DEF GoType, GoPCs
  <2>3. gos' = [gos EXCEPT ![g] = ok] \/ gos' = [gos EXCEPT ![g] = fail]
    BY Zenon DEF RestartAttach
  <2> HIDE DEF ok, fail
  <2> QED BY <2>2, <2>3, GoKept, Zenon DEF IInv
<1> QED BY <1>3, <1>4, <1>5, <1>6, GoStepKeeps, Frames, Zenon
        DEF IInv, RestartAttach, callVars, probeVars, ipamVars

\* finishRestart.
LEMMA RestartFinishKeeps == ASSUME IInv, NEW g \in Slots, RestartFinish(g) PROVE IInv'
<1> DEFINE k == gos[g].key
<1>1. gos[g] \in GoType /\ k \in Keys /\ gos[g].att \in BOOLEAN
  BY InGo, Zenon DEF IInv, RestartFinish, GoAt
<1>2. UNCHANGED <<api, create, del, vms, byKey, byIP, cursor, endpoints, dirs, kubelet,
                  toRecover, faults, excuse>>
  BY Zenon DEF RestartFinish, callVars, ipamVars, histVars
<1>3. NodeInv' /\ \A j \in Keys : excuse[j] \subseteq excuse'[j]
  BY <1>2, NodeKept, Zenon DEF IInv, Sound
<1>4. CASE ~Tracked(k) /\ OrphanReaped(g) /\ UNCHANGED <<pods, probers, failers>>
  <2>1. GosInv'
    BY <1>1, <1>4, GoMoves, Zenon DEF IInv, OrphanReaped, GoPCs
  <2> QED BY <1>2, <1>4, <2>1, GoStepKeeps, Frames, Zenon DEF IInv, Sound
<1>5. CASE Tracked(k) /\ pods' = FlagCleared(k) /\ GoDone(g) /\ UNCHANGED <<probers, failers>>
  <2>0. pods[k] \in PodType
    BY <1>1, <1>5, TrackedPod, Zenon
  <2>1. GosInv'
    BY <1>5, GoKept, Zenon DEF IInv, GoDone
  <2> DEFINE new == [pods[k] EXCEPT !.restarting = FALSE]
  <2>2. new \in PodType /\ new.ip = pods[k].ip /\ new.probes = pods[k].probes
    BY <2>0, Zenon DEF PodType
  <2>3. pods' = [pods EXCEPT ![k] = new]
    BY <1>5, Zenon DEF FlagCleared
  <2> HIDE DEF new, k
  <2>4. /\ PodsInv' /\ pods'[k] = new
        /\ \A j \in Keys \ {k} : pods'[j] = pods[j]
        /\ \A j \in Keys : Tracked(j)' <=> Tracked(j)
        /\ \A j \in Keys : Tracked(j) => pods'[j].ip = pods[j].ip
    BY <1>1, <1>5, <2>2, <2>3, PodStep, Zenon
  <2>5. ProbersInv'
    BY <1>1, <1>5, <2>2, <2>4, ProbersKept, Zenon DEF IInv
  <2> QED BY <1>2, <1>3, <1>5, <2>1, <2>4, <2>5, QuietStep, Frames, Zenon DEF IInv
<1>6. CASE /\ Tracked(k)
           /\ pods' = [pods EXCEPT ![k] =
                StartedProbes([@ EXCEPT !.restarting = FALSE, !.attached = gos[g].att])]
           /\ StartProbes(k) /\ GoDone(g)
  <2>0. pods[k] \in PodType
    BY <1>1, <1>6, TrackedPod, Zenon
  <2>1. GosInv'
    BY <1>6, GoKept, Zenon DEF IInv, GoDone
  <2> DEFINE new == StartedProbes([pods[k] EXCEPT !.restarting = FALSE,
                                                  !.attached = gos[g].att])
  <2>2. new \in PodType /\ new.ip = pods[k].ip /\ new.probes = Probed
    BY <1>1, <2>0, LifecycleAssumption, Zenon DEF PodType, StartedProbes
  <2>3. pods' = [pods EXCEPT ![k] = new]
    BY <1>6, Zenon
  <2> HIDE DEF new, k
  <2>4. /\ PodsInv' /\ pods'[k] = new
        /\ \A j \in Keys \ {k} : pods'[j] = pods[j]
        /\ \A j \in Keys : Tracked(j)' <=> Tracked(j)
        /\ \A j \in Keys : Tracked(j) => pods'[j].ip = pods[j].ip
    BY <1>1, <1>6, <2>2, <2>3, PodStep, Zenon
  <2>5. /\ FailersInv' /\ probers' \in [Keys -> 0 .. 2]
        /\ Probed => probers'[k] >= 1
        /\ \A j \in Keys : probers'[j] >= probers[j]
    BY <1>1, <1>6, StartProbesKept, Zenon DEF IInv
  <2>6. ProbersInv'
    <3>1. \A j \in Keys : Tracked(j)' /\ pods'[j].probes => probers'[j] >= 1
      BY <2>2, <2>4, <2>5 DEF IInv, ProbersInv
    <3> QED BY <2>5, <3>1, Zenon DEF ProbersInv
  <2> QED BY <1>2, <1>3, <2>1, <2>4, <2>5, <2>6, QuietStep, Frames, Zenon DEF IInv
<1> QED BY <1>4, <1>5, <1>6, Zenon DEF RestartFinish, probeVars

-----------------------------------------------------------------------------
(* The API server, the guests, crashes and recovery.                       *)

\* Steps of the API server and of the guests.
LEMMA OutsideStep ==
  ASSUME IInv, ApiInv', VMsInv',
         UNCHANGED <<pods, create, del, gos, probers, failers, byKey, byIP, cursor,
                     endpoints, dirs, kubelet, toRecover, faults, excuse>>
  PROVE  IInv'
<1>1. NodeInv' /\ \A j \in Keys : excuse[j] \subseteq excuse'[j]
  BY NodeKept, Zenon DEF IInv, Sound
<1>2. ProbersInv'
  BY ProbersKept, Zenon DEF IInv, Tracked
<1>3. (\A j \in Keys : Tracked(j)' <=> Tracked(j))
      /\ \A j \in Keys : Tracked(j) => pods'[j].ip = pods[j].ip
  BY Zenon DEF Tracked
<1> QED BY <1>1, <1>2, <1>3, QuietStep, Frames, Zenon DEF IInv

\* A new Pod object.
LEMMA ScheduleKeeps == ASSUME IInv, NEW k \in Keys, Schedule(k) PROVE IInv'
<1>1. ApiInv'
  <2>1. PICK spec \in Specs :
          api' = [api EXCEPT ![k] = [uid |-> @.uid + 1, state |-> "present",
                                     spec |-> spec, ip |-> NoIP, cs |-> "unset"]]
    BY Zenon DEF Schedule
  <2>2. api[k].uid + 1 \in Uids
    BY LifecycleAssumption DEF Schedule, IInv, ApiInv, Uids
  <2> DEFINE a == [uid |-> api[k].uid + 1, state |-> "present", spec |-> spec,
                   ip |-> NoIP, cs |-> "unset"]
  <2>3. /\ a \in [uid : Uids \cup {0}, state : {"absent", "present", "deleting"},
                  spec : Specs \cup {"none"}, ip : IPs, cs : CStates]
        /\ a.uid \in Uids /\ a.spec \in Specs
    BY <2>2, Zenon DEF IPs, CStates
  <2>4. api' = [api EXCEPT ![k] = a]
    BY <2>1, Zenon
  <2> HIDE DEF a
  <2> QED BY <2>3, <2>4, Zenon DEF IInv, ApiInv
<1> QED BY <1>1, OutsideStep, Frames, Zenon
        DEF Schedule, IInv, callVars, probeVars, ipamVars, histVars

\* A deletion is asked for.
LEMMA RequestDeleteKeeps == ASSUME IInv, NEW k \in Keys, RequestDelete(k) PROVE IInv'
<1>1. ApiInv'
  <2> DEFINE a == [api[k] EXCEPT !.state = "deleting"]
  <2>1. /\ a \in [uid : Uids \cup {0}, state : {"absent", "present", "deleting"},
                  spec : Specs \cup {"none"}, ip : IPs, cs : CStates]
        /\ a.uid \in Uids /\ a.spec \in Specs
    <3>1. /\ api[k] \in [uid : Uids \cup {0}, state : {"absent", "present", "deleting"},
                         spec : Specs \cup {"none"}, ip : IPs, cs : CStates]
          /\ api[k].uid \in Uids /\ api[k].spec \in Specs
      BY Zenon DEF RequestDelete, IInv, ApiInv
    <3> QED BY <3>1, Zenon
  <2>2. api' = [api EXCEPT ![k] = a]
    BY Zenon DEF RequestDelete
  <2> HIDE DEF a
  <2> QED BY <2>1, <2>2, Zenon DEF IInv, ApiInv
<1> QED BY <1>1, OutsideStep, Frames, Zenon
        DEF RequestDelete, IInv, callVars, probeVars, ipamVars, histVars

\* A forced removal.
LEMMA ForceRemoveKeeps == ASSUME IInv, NEW k \in Keys, ForceRemove(k) PROVE IInv'
BY GoneKept, OutsideStep, Frames, Zenon
   DEF ForceRemove, IInv, callVars, probeVars, ipamVars, histVars

\* A guest exits; the VM record does not care about uids.
LEMMA GuestExitKeeps == ASSUME IInv, NEW k \in Keys, GuestExit(k) PROVE IInv'
<1>1. VMsInv'
  BY VMsKept, Zenon DEF GuestExit, IInv
<1> QED BY <1>1, OutsideStep, Frames, Zenon
        DEF GuestExit, IInv, callVars, probeVars, ipamVars, histVars

\* A crash empties the provider and marks every key.
LEMMA CrashKeeps == ASSUME IInv, Crash PROVE IInv'
<1> USE DEF Crash
<1>1. ApiInv' /\ VMsInv' /\ DirsInv'
  BY Frames, Zenon DEF IInv
<1>2. PodsInv' /\ CreateInv' /\ DelInv' /\ GosInv' /\ FailersInv'
  BY Zenon DEF PodsInv, CreateInv, DelInv, GosInv, FailersInv
<1>3. \A k \in Keys : ~Tracked(k)'
  BY Zenon DEF Tracked
<1>4. ProbersInv'
  BY <1>3 DEF ProbersInv
<1>5. EndpointsInv'
  BY LifecycleAssumption DEF EndpointsInv, NoEndpoint, NoAddr, IPs
<1>6. NodeInv'
  <2>1. faults' \in 0 .. MaxFaults
    BY LifecycleAssumption DEF IInv, NodeInv, Fault
  <2>2. \A k \in Keys : excuse[k] \cup {"crash"} \in SUBSET Reasons
    BY Zenon DEF IInv, NodeInv, Reasons
  <2> QED BY <2>1, <2>2, Zenon DEF NodeInv
<1>7. PoolInv'
  BY PoolRanges, LifecycleAssumption
     DEF IInv, PoolInv, IPAMTypeOK, MapsInverse, OnlyUsableHeld, First,
         Last, Usable, Offsets, NoIP
<1>8. \A k \in Keys : "crash" \in excuse'[k]
  BY Zenon
<1>9. OwnInv'
  BY <1>3, <1>8, Zenon DEF OwnInv
<1>10. NoIPLeak'
  BY <1>8, Zenon DEF NoIPLeak, Had
<1> QED BY <1>1, <1>2, <1>4, <1>5, <1>6, <1>7, <1>9, <1>10, Zenon DEF IInv

\* The list of the Pods to recover.
LEMMA BootKeeps == ASSUME IInv, Boot PROVE IInv'
<1> USE DEF Boot, callVars, probeVars, ipamVars
<1>1. \A k \in Keys : "crash" \in excuse[k]
  BY Zenon DEF IInv, NodeInv
<1>2. NodeInv' /\ \A k \in Keys : excuse[k] \subseteq excuse'[k]
  <2>1. faults' \in 0 .. MaxFaults
    BY LifecycleAssumption DEF IInv, NodeInv, Sound, Fault
  <2>2. \A k \in Keys : excuse[k] \cup {"listFailed"} \in SUBSET Reasons
    BY Zenon DEF IInv, NodeInv, Reasons
  <2>3. excuse' \in [Keys -> SUBSET Reasons] /\ \A k \in Keys : excuse[k] \subseteq excuse'[k]
    BY <2>2, Zenon DEF IInv, NodeInv
  <2> QED BY <1>1, <2>1, <2>3, Zenon DEF NodeInv
<1>3. ProbersInv'
  BY ProbersKept, Zenon DEF IInv, Tracked
<1>4. (\A j \in Keys : Tracked(j)' <=> Tracked(j))
      /\ \A j \in Keys : Tracked(j) => pods'[j].ip = pods[j].ip
  BY Zenon DEF Tracked
<1> QED BY <1>2, <1>3, <1>4, QuietStep, Frames, Zenon DEF IInv

\* Reserving the address of one Pod; what its key holds already is not lost.
LEMMA RecoverOneKeeps == ASSUME IInv, NEW k \in Keys, RecoverOne(k) PROVE IInv'
<1> USE DEF RecoverOne, callVars, probeVars
<1>1. api[k].ip \in IPs
  BY Zenon DEF IInv, ApiInv
<1>2. /\ PoolInv'
      /\ \A j \in Keys \ {k} : byKey'[j] = byKey[j]
      /\ byKey[k] # NoIP => byKey'[k] = byKey[k]
  BY <1>1, PoolReserve, Zenon DEF IInv
<1>3. NodeInv' /\ \A j \in Keys : "crash" \in excuse'[j]
  <2>1. UNCHANGED excuse \/ Excuse(k, "conflict")
    BY Zenon
  <2>2. excuse' \in [Keys -> SUBSET Reasons] /\ \A j \in Keys : excuse[j] \subseteq excuse'[j]
    <3>1. CASE UNCHANGED excuse
      BY <3>1, Zenon DEF IInv, NodeInv
    <3>2. CASE Excuse(k, "conflict")
      <4>1. excuse[k] \cup {"conflict"} \in SUBSET Reasons
        BY Zenon DEF IInv, NodeInv, Reasons
      <4> QED BY <3>2, <4>1, Zenon DEF IInv, NodeInv, Excuse
    <3> QED BY <2>1, <3>1, <3>2, Zenon
  <2>3. \A j \in Keys : "crash" \in excuse[j]
    BY Zenon DEF IInv, NodeInv
  <2> QED BY <2>2, <2>3, Zenon DEF IInv, NodeInv
<1>4. ProbersInv'
  BY ProbersKept, Zenon DEF IInv, Tracked
<1>5. NoIPLeak'
  BY <1>3, Zenon DEF NoIPLeak, Had
<1>6. OwnInv'
  <2>1. create # NoCall => create.key \in Keys /\ byKey'[create.key] = create.ip
    BY <1>2, Zenon DEF IInv, OwnInv, CreateInv, CallType
  <2> QED BY <1>2, <1>3, <2>1, Zenon DEF IInv, OwnInv, Tracked, NoIP
<1> QED BY <1>2, <1>3, <1>4, <1>5, <1>6, Frames, Zenon DEF IInv

-----------------------------------------------------------------------------
(* The invariant and what follows from it.                                 *)

\* The invariant holds at the start: nothing is tracked and nothing held.
LEMMA InitIInv == Init => IInv
<1> SUFFICES ASSUME Init PROVE IInv
  BY Zenon
<1> USE DEF Init
<1>1. NoIP \in IPs /\ NoAddr \in 0 .. NoAddr
  BY LifecycleAssumption DEF IPs, NoAddr
<1>2. ApiInv
  BY <1>1, Zenon DEF ApiInv, CStates
<1>3. PodsInv /\ CreateInv /\ DelInv /\ GosInv /\ FailersInv /\ DirsInv
  BY Zenon DEF PodsInv, CreateInv, DelInv, GosInv, FailersInv, DirsInv
<1>4. \A k \in Keys : ~Tracked(k)
  BY Zenon DEF Tracked
<1>5. ProbersInv
  BY <1>4 DEF ProbersInv
<1>6. VMsInv
  BY LifecycleAssumption DEF VMsInv, VM!VMTypeOK, VM!Init, VM!Missing, VM!Phases
<1>7. EndpointsInv
  BY <1>1, Zenon DEF EndpointsInv, NoEndpoint
<1>8. NodeInv
  BY LifecycleAssumption DEF NodeInv
<1>9. PoolInv
  BY PoolRanges, LifecycleAssumption
     DEF PoolInv, IPAMInit, IPAMTypeOK, MapsInverse, OnlyUsableHeld,
         First, Last, Usable, Offsets, NoIP
<1>10. OwnInv
  BY <1>4, Zenon DEF OwnInv, NoDelete, Freed
<1>11. NoIPLeak
  BY Zenon DEF NoIPLeak, IPAMInit, NoIP
<1> QED BY <1>2, <1>3, <1>5, <1>6, <1>7, <1>8, <1>9, <1>10, <1>11, Zenon DEF IInv

\* Every step of the provider, its environment, a crash or a recovery keeps
\* the invariant.
LEMMA NextIInv == IInv /\ [Next]_vars => IInv'
<1> SUFFICES ASSUME IInv, [Next]_vars PROVE IInv'
  BY Zenon
<1>1. CASE CreateStep
  BY Zenon, <1>1, CreateLookupKeeps, CreateStartAdoptedKeeps, CreatePullKeeps, CreateVMKeeps,
     CreateStartKeeps, CreateObserveKeeps, CreateAttachKeeps, CreateRollbackKeeps,
     CreateCommitKeeps DEF CreateStep
<1>2. ASSUME NEW k \in Keys, DeleteStep(k) PROVE IInv'
  BY Zenon, <1>2, DeleteForgetKeeps, DeleteUnknownKeeps, DeleteDetachKeeps, DeleteReleaseKeeps,
     DeleteStopKeeps, DeleteDestroyKeeps, DeleteCleanupKeeps DEF DeleteStep
<1>3. ASSUME NEW k \in Keys, NEW f \in {"armed", "late"},
             FailProbeIgnored(k, f) \/ FailProbeRestart(k, f) \/ FailProbeKill(k, f)
      PROVE  IInv'
  BY <1>3, FailProbeIgnoredKeeps, FailProbeRestartKeeps, FailProbeKillKeeps, Zenon
<1>4. ASSUME NEW k \in Keys,
             \/ CreateUnsupported(k) \/ CreateBegin(k) \/ SyncStatus(k) \/ Schedule(k)
             \/ RequestDelete(k) \/ ForceRemove(k) \/ GuestExit(k) \/ RecoverOne(k)
      PROVE  IInv'
  BY Zenon, <1>4, CreateUnsupportedKeeps, CreateBeginKeeps, SyncStatusKeeps, ScheduleKeeps,
     RequestDeleteKeeps, ForceRemoveKeeps, GuestExitKeeps, RecoverOneKeeps
<1>5. ASSUME NEW g \in Slots, GoStep(g) PROVE IInv'
  BY Zenon, <1>5, RestartWakeKeeps, RestartDetachKeeps, GoStopKeeps, GoDestroyKeeps,
     RestartCreateKeeps, RestartStartKeeps, RestartObserveKeeps, RestartAttachKeeps,
     RestartFinishKeeps DEF GoStep
<1>6. CASE UNCHANGED vars
  BY <1>6, OutsideStep, Frames, Zenon DEF vars, IInv
<1> QED BY <1>1, <1>2, <1>3, <1>4, <1>5, <1>6, CrashKeeps, BootKeeps, Zenon DEF Next

-----------------------------------------------------------------------------
(* Restart goroutines and probers.                                         *)

\* What key j sees of a step.
SamePod(j) == pods'[j] = pods[j] /\ probers'[j] = probers[j]
SameGos(j) == \A h \in Slots : /\ Works(h, j)' <=> Works(h, j)
                               /\ Works(h, j) => gos'[h].pc = gos[h].pc
Excused(j) == "outlived" \in excuse[j] => "outlived" \in excuse'[j]

\* A step of other keys.
LEMMA KeyFrame ==
  ASSUME NEW j \in Keys, KeyInv(j), Excused(j), SamePod(j), SameGos(j)
  PROVE  KeyInv(j)'
BY Zenon DEF KeyInv, Excused, SamePod, SameGos, Tracked

\* A restart goroutine moves on, past its backoff.
LEMMA KeyMoves ==
  ASSUME NEW j \in Keys, KeyInv(j), Excused(j), SamePod(j),
         \A h \in Slots : Works(h, j)' <=> Works(h, j),
         \A h \in Slots : Works(h, j) =>
           \/ gos'[h].pc = gos[h].pc
           \/ gos[h].pc # "backoff" /\ gos'[h].pc # "orphan"
  PROVE  KeyInv(j)'
BY Zenon DEF KeyInv, Excused, SamePod, Tracked

\* Launching a goroutine is that.
LEMMA Spawned ==
  ASSUME IInv, NEW k \in Keys, NEW u, NEW pc, Spawn(k, u, pc)
  PROVE  \E g \in Slots : NewGo(g, k, pc)
<1>1. FreeSlot \in FreeSlots
  BY Zenon DEF Spawn, FreeSlot
<1>2. FreeSlot \in Slots /\ gos[FreeSlot].pc = "idle"
  BY <1>1, Zenon DEF FreeSlots
<1>3. gos[FreeSlot] = NoGo
  BY <1>2 DEF IInv, GosInv, GoType, GoPCs
<1>4. gos'[FreeSlot].key = k /\ gos'[FreeSlot].pc = pc
      /\ \A h \in Slots \ {FreeSlot} : gos'[h] = gos[h]
  BY <1>2, Zenon DEF Spawn, IInv, GosInv
<1> QED BY <1>2, <1>3, <1>4, Zenon DEF NewGo

\* No other key has the new goroutine, and an idle slot is nobody's.
LEMMA IdleIsNobodys ==
  ASSUME NEW g, gos[g] = NoGo PROVE \A j \in Keys : ~Works(g, j)
BY LifecycleAssumption DEF Works, NoGo

LEMMA SpawnedElsewhere ==
  ASSUME IInv, NEW k \in Keys, NEW u, NEW pc, Spawn(k, u, pc) \/ UNCHANGED gos,
         NEW j \in Keys \ {k}
  PROVE  SameGos(j)
<1>1. CASE UNCHANGED gos
  BY <1>1, Zenon DEF SameGos, Works
<1>2. CASE Spawn(k, u, pc)
  <2>1. PICK g \in Slots : NewGo(g, k, pc)
    BY <1>2, Spawned, Zenon
  <2>2. ~Works(g, j) /\ ~Works(g, j)'
    BY <2>1, IdleIsNobodys, Zenon DEF Works, NewGo
  <2> QED BY <2>1, <2>2, Zenon DEF SameGos, Works, NewGo
<1> QED BY <1>1, <1>2, Zenon

\* A Pod that enters the map, is reconciled or told to restart: its flag is
\* set when and only when a goroutine is launched.
LEMMA KeyLaunches ==
  ASSUME IInv, NEW k \in Keys, KeyInv(k), Excused(k), NEW u, Tracked(k)',
         \/ /\ Spawn(k, u, "backoff") /\ pods'[k].restarting
            /\ ~(Tracked(k) /\ pods[k].restarting)
         \/ /\ UNCHANGED gos
            /\ pods'[k].restarting <=> (Tracked(k) /\ pods[k].restarting),
         pods'[k].probes => (Tracked(k) => pods[k].probes),
         "outlived" \notin excuse[k] => probers'[k] = IF pods'[k].probes THEN 1 ELSE 0
  PROVE  KeyInv(k)'
<1> SUFFICES ASSUME "outlived" \notin excuse'[k]
             PROVE  KeyInv(k)'
  BY Zenon DEF KeyInv
<1>1. "outlived" \notin excuse[k]
  BY Zenon DEF Excused
<1>2. CASE UNCHANGED gos /\ (pods'[k].restarting <=> (Tracked(k) /\ pods[k].restarting))
  <2>1. \A h \in Slots : gos'[h] = gos[h] /\ (Works(h, k)' <=> Works(h, k))
    BY <1>2, Zenon DEF Works
  <2>2. \A h \in Slots : Works(h, k) => Tracked(k)
    BY <1>1, Zenon DEF KeyInv
  <2> QED BY <1>1, <1>2, <2>1, <2>2, Zenon DEF KeyInv
<1>3. CASE /\ Spawn(k, u, "backoff") /\ pods'[k].restarting
           /\ ~(Tracked(k) /\ pods[k].restarting)
  <2>1. PICK g \in Slots : NewGo(g, k, "backoff")
    BY <1>3, Spawned, Zenon
  <2>2. \A h \in Slots : ~Works(h, k)
    BY <1>1, <1>3, Zenon DEF KeyInv
  <2>3. Works(g, k)' /\ \A h \in Slots \ {g} : ~Works(h, k)'
    BY <2>1, <2>2, Zenon DEF Works, NewGo
  <2> QED BY <1>1, <1>3, <2>1, <2>3, Zenon DEF KeyInv, NewGo
<1> QED BY <1>2, <1>3, Zenon

\* A reconcile sets the flag when it launches a goroutine, and only then.
LEMMA ReconciledFlag ==
  ASSUME NEW st \in PodType, NEW obs \in VM!Phases \cup {"error"}
  PROVE  /\ Launches(st, obs) => Reconciled(st, obs).restarting /\ ~st.restarting
         /\ ~Launches(st, obs) => (Reconciled(st, obs).restarting <=> st.restarting)
         /\ Reconciled(st, obs) # NoPod
<1>1. CASE st.terminal
  BY <1>1 DEF Reconciled, Launches, PodType, NoPod, Uids
<1>2. CASE ~st.terminal
  <2>1. Reconciled(st, obs).restarting = (st.restarting \/ WantsRestart(st, obs))
    BY <1>2, Zenon DEF Reconciled, PodType
  <2>2. Reconciled(st, obs).uid = st.uid
    BY <1>2, Zenon DEF Reconciled, PodType
  <2>3. Reconciled(st, obs) # NoPod
    BY <2>2 DEF PodType, NoPod, Uids
  <2> QED BY <1>2, <2>1, <2>3, Zenon DEF Launches
<1> QED BY <1>1, <1>2, Zenon

\* Stopping the probers of a Pod leaves none, starting them where none runs
\* leaves one set.
LEMMA StoppedNone ==
  ASSUME IInv, NEW k \in Keys, KeyInv(k), "outlived" \notin excuse[k], Tracked(k),
         probers' = ProbersAfterStop(k)
  PROVE  probers'[k] = 0 /\ \A j \in Keys \ {k} : probers'[j] = probers[j]
BY DEF IInv, ProbersInv, KeyInv, ProbersAfterStop

LEMMA StartedOne ==
  ASSUME IInv, NEW k \in Keys, probers[k] = 0, StartProbes(k)
  PROVE  probers'[k] = IF Probed THEN 1 ELSE 0
BY DEF IInv, ProbersInv, StartProbes, ProbersAfterStart

\* Either leaves the probers of other Pods alone.
LEMMA ProbersElsewhere ==
  ASSUME IInv, NEW k \in Keys, StartProbes(k) \/ probers' = ProbersAfterStop(k) \/ UNCHANGED probers
  PROVE  \A j \in Keys \ {k} : probers'[j] = probers[j]
BY DEF IInv, ProbersInv, StartProbes, ProbersAfterStart, ProbersAfterStop

\* The history only grows.
LEMMA ExcusedKept ==
  ASSUME IInv, UNCHANGED excuse \/ \E k \in Keys, why \in Reasons : Excuse(k, why)
  PROVE  \A j \in Keys : Excused(j)
<1>1. CASE UNCHANGED excuse
  BY <1>1, Zenon DEF Excused
<1>2. ASSUME NEW k \in Keys, NEW why \in Reasons, Excuse(k, why)
      PROVE  \A j \in Keys : Excused(j)
  BY <1>2, Zenon DEF Excused, Excuse, IInv, NodeInv
<1> QED BY <1>1, <1>2, Zenon

\* Steps that touch neither Pods nor goroutines nor probers.
LEMMA KeysUntouched ==
  ASSUME IInv, RestartInv, UNCHANGED <<pods, gos, probers>>,
         UNCHANGED excuse \/ \E k \in Keys, why \in Reasons : Excuse(k, why)
  PROVE  RestartInv'
<1>1. \A j \in Keys : Excused(j)
  BY ExcusedKept, Zenon
<1>2. \A j \in Keys : SamePod(j) /\ SameGos(j)
  BY Zenon DEF SamePod, SameGos, Works
<1> QED BY <1>1, <1>2, KeyFrame, Zenon DEF RestartInv

\* The steps of CreatePod but its two commits.
LEMMA CreateRestart ==
  ASSUME IInv, RestartInv,
         \/ CreateLookup \/ CreateStartAdopted \/ CreateVM \/ CreateStart
         \/ CreateObserve \/ CreateAttach \/ CreateRollback
  PROVE  RestartInv'
<1>1. create.pc # "idle" => create.key \in Keys
  BY DEF IInv, CreateInv, CallType, NoCall
<1>2. CASE CreateLookup \/ CreateStartAdopted \/ CreateVM \/ CreateStart \/ CreateObserve
  <2>1. UNCHANGED <<pods, gos, probers, excuse>>
    BY <1>2, Zenon DEF CreateLookup, CreateStartAdopted, CreateVM, CreateStart,
       CreateObserve, probeVars
  <2> QED BY <2>1, KeysUntouched, Zenon
<1>3. CASE CreateAttach
  <2>1. UNCHANGED <<pods, gos, probers>> /\ create.key \in Keys
    BY <1>1, <1>3 DEF CreateAttach, probeVars, At
  <2>2. UNCHANGED excuse \/ Excuse(create.key, "loadFailed")
    BY <1>3, Zenon DEF CreateAttach, AttachOK, AttachFails
  <2> QED BY <2>1, <2>2, KeysUntouched, Zenon DEF Reasons
<1>4. CASE CreateRollback
  <2>1. UNCHANGED <<pods, gos, probers>> /\ create.key \in Keys
    BY <1>1, <1>4 DEF CreateRollback, probeVars, At
  <2>2. UNCHANGED excuse \/ Excuse(create.key, "destroyFailed")
    BY <1>4, Zenon DEF CreateRollback, Destroys
  <2> QED BY <2>1, <2>2, KeysUntouched, Zenon DEF Reasons
<1> QED BY <1>2, <1>3, <1>4, Zenon

\* The other steps that leave Pods, goroutines and probers alone.
LEMMA OtherRestart ==
  ASSUME IInv, RestartInv, NEW k \in Keys, NEW f,
         \/ CreateBegin(k) \/ DeleteUnknown(k) \/ DeleteDetach(k) \/ DeleteRelease(k)
         \/ DeleteStop(k) \/ DeleteDestroy(k) \/ DeleteCleanup(k)
         \/ FailProbeIgnored(k, f) \/ Schedule(k) \/ RequestDelete(k) \/ ForceRemove(k)
         \/ GuestExit(k) \/ RecoverOne(k)
  PROVE  RestartInv'
<1>1. UNCHANGED <<pods, gos, probers>>
  BY Zenon DEF CreateBegin, DeleteUnknown, DeleteDetach, DeleteRelease, DeleteStop,
     DeleteDestroy, DeleteCleanup, FailProbeIgnored, Schedule, RequestDelete, ForceRemove,
     GuestExit, RecoverOne, probeVars
<1>2. \/ UNCHANGED excuse \/ Excuse(k, "crossed") \/ Excuse(k, "destroyFailed")
      \/ Excuse(k, "conflict")
  BY Zenon DEF CreateBegin, DeleteUnknown, DeleteDetach, DeleteRelease, DeleteStop,
     DeleteDestroy, DeleteCleanup, FailProbeIgnored, Schedule, RequestDelete, ForceRemove,
     GuestExit, RecoverOne, histVars, NoteIfInFlight, Destroys
<1> QED BY <1>1, <1>2, KeysUntouched, Zenon DEF Reasons

\* The process dies with all of them, or boots.
LEMMA ProcessRestart ==
  ASSUME IInv, RestartInv, Crash \/ Boot PROVE RestartInv'
<1>1. CASE Crash
  <2> SUFFICES ASSUME NEW j \in Keys PROVE KeyInv(j)'
    BY Zenon DEF RestartInv
  <2>1. \A g \in Slots : ~Works(g, j)'
    BY <1>1, LifecycleAssumption DEF Crash, Works, NoGo
  <2>2. ~Tracked(j)' /\ probers'[j] = 0
    BY <1>1, Zenon DEF Crash, Tracked
  <2> QED BY <2>1, <2>2, Zenon DEF KeyInv
<1>2. CASE Boot
  <2>1. \A j \in Keys : Excused(j)
    BY <1>2, Zenon DEF Boot, Excused, IInv, NodeInv
  <2>2. \A j \in Keys : SamePod(j) /\ SameGos(j)
    BY <1>2, Zenon DEF SamePod, SameGos, Works, Boot, probeVars
  <2> QED BY <2>1, <2>2, KeyFrame, Zenon DEF RestartInv
<1> QED BY <1>1, <1>2, Zenon

\* A Pod without a workload enters the map.
LEMMA TerminalRestart ==
  ASSUME IInv, RestartInv, NEW k \in Keys, ~Tracked(k), NEW u,
         pods' = [pods EXCEPT ![k] = TerminalPod(u)], UNCHANGED <<gos, probers>>,
         UNCHANGED excuse \/ Excuse(k, "crossed")
  PROVE  RestartInv'
<1>1. \A j \in Keys : Excused(j)
  BY ExcusedKept, Zenon DEF Reasons
<1>2. \A j \in Keys \ {k} : SamePod(j) /\ SameGos(j)
  BY Zenon DEF SamePod, SameGos, Works, IInv, PodsInv
<1>3. pods'[k] = TerminalPod(u)
  BY Zenon DEF IInv, PodsInv
<1>4. Tracked(k)' /\ ~pods'[k].restarting /\ ~pods'[k].probes
  BY <1>3 DEF TerminalPod, Tracked, NoPod
<1>5. KeyInv(k)'
  <2>1. \A h \in Slots : Works(h, k)' <=> Works(h, k)
    BY Zenon DEF Works
  <2>2. KeyInv(k) /\ Excused(k)
    BY <1>1, Zenon DEF RestartInv
  <2> QED BY <1>4, <2>1, <2>2, Zenon DEF KeyInv, Excused
<1> QED BY <1>1, <1>2, <1>5, KeyFrame, Zenon DEF RestartInv

\* translatePod rejects a Pod, or its image has the wrong architecture.
LEMMA UnsupportedRestart ==
  ASSUME IInv, RestartInv, NEW k \in Keys, CreateUnsupported(k) PROVE RestartInv'
<1>1. UNCHANGED excuse \/ Excuse(k, "crossed")
  BY Zenon DEF CreateUnsupported, NoteIfInFlight
<1> QED BY <1>1, TerminalRestart, Zenon DEF CreateUnsupported, probeVars

LEMMA PullRestart == ASSUME IInv, RestartInv, CreatePull PROVE RestartInv'
<1>1. create.key \in Keys /\ ~Tracked(create.key)
  BY InCreate, Zenon DEF CreatePull, At
<1>2. UNCHANGED <<gos, probers, excuse>>
  BY Zenon DEF CreatePull, probeVars
<1>3. UNCHANGED pods \/ pods' = [pods EXCEPT ![create.key] = TerminalPod(create.uid)]
  BY Zenon DEF CreatePull
<1> QED BY <1>1, <1>2, <1>3, TerminalRestart, KeysUntouched, Zenon

\* The commit of CreatePod: no restart of this key is in flight, because the
\* key was not tracked.
LEMMA CommitRestart == ASSUME IInv, RestartInv, CreateCommit PROVE RestartInv'
<1>0. PICK k \in Keys : k = create.key
  BY InCreate, Zenon DEF CreateCommit, At
<1> DEFINE st == [uid |-> create.uid, policy |-> create.spec, terminal |-> FALSE,
                  wl |-> TRUE, ip |-> create.ip, attached |-> TRUE,
                  restarting |-> FALSE, probes |-> FALSE, cs |-> create.cs]
<1>1. create \in CallType /\ k \in Keys /\ ~Tracked(k)
  BY <1>0, InCreate, Zenon DEF CreateCommit, At
<1>2. st \in PodType /\ st.probes = FALSE /\ st.restarting = FALSE /\ st.uid \in Uids
  BY <1>1, Zenon DEF PodType, CallType
<1>3. PICK obs \in VM!Phases \cup {"error"} :
        /\ IF Reconciled(st, obs).cs = "running"
             THEN /\ pods' = [pods EXCEPT ![k] = StartedProbes(Reconciled(st, obs))]
                  /\ StartProbes(k)
             ELSE pods' = [pods EXCEPT ![k] = Reconciled(st, obs)] /\ UNCHANGED probeVars
        /\ IF Launches(st, obs) THEN Spawn(k, st.uid, "backoff") ELSE UNCHANGED gos
  BY <1>0, Zenon DEF CreateCommit
<1>4. UNCHANGED excuse
  BY Zenon DEF CreateCommit
<1> HIDE DEF st
<1> DEFINE rs == Reconciled(st, obs)
<1>5. /\ rs \in PodType /\ rs.probes = FALSE /\ rs # NoPod
      /\ rs.restarting <=> Launches(st, obs)
  BY <1>2, ReconciledKept, ReconciledFlag, Zenon
<1>6. /\ StartedProbes(rs) \in PodType /\ StartedProbes(rs).probes = Probed
      /\ StartedProbes(rs).restarting = rs.restarting
  BY <1>5, LifecycleAssumption, Zenon DEF StartedProbes, PodType
<1> HIDE DEF rs
<1>7. StartedProbes(rs) # NoPod
  BY <1>6 DEF PodType, NoPod, Uids
<1>8. PICK new \in PodType :
        /\ pods' = [pods EXCEPT ![k] = new] /\ new # NoPod
        /\ new.restarting = rs.restarting
        /\ \/ StartProbes(k) /\ new.probes = Probed
           \/ UNCHANGED probers /\ new.probes = FALSE
  BY <1>3, <1>5, <1>6, <1>7, Zenon DEF probeVars, rs
<1>9. pods'[k] = new /\ \A j \in Keys \ {k} : pods'[j] = pods[j]
  BY <1>1, <1>8, Zenon DEF IInv, PodsInv
<1>10. ASSUME NEW j \in Keys \ {k} PROVE KeyInv(j)'
  <2>1. SameGos(j)
    BY <1>1, <1>3, SpawnedElsewhere, Zenon
  <2>2. SamePod(j)
    BY <1>1, <1>8, <1>9, ProbersElsewhere, Zenon DEF SamePod
  <2> QED BY <1>4, <2>1, <2>2, KeyFrame, Zenon DEF RestartInv, Excused
<1>11. KeyInv(k)'
  <2>1. Tracked(k)'
    BY <1>8, <1>9, Zenon DEF Tracked
  <2>2. ASSUME "outlived" \notin excuse[k]
        PROVE  probers'[k] = IF pods'[k].probes THEN 1 ELSE 0
    <3>1. probers[k] = 0
      BY <1>1, <2>2, Zenon DEF RestartInv, KeyInv
    <3> QED BY <1>1, <1>8, <1>9, <3>1, StartedOne, Zenon
  <2>3. KeyInv(k) /\ Excused(k)
    BY <1>1, <1>4, Zenon DEF RestartInv, Excused
  <2>4. \/ Spawn(k, st.uid, "backoff") /\ pods'[k].restarting
        \/ UNCHANGED gos /\ ~pods'[k].restarting
    BY <1>3, <1>5, <1>8, <1>9, Zenon DEF rs
  <2> QED BY <1>1, <2>1, <2>2, <2>3, <2>4, KeyLaunches, Zenon
<1> QED BY <1>1, <1>10, <1>11, Zenon DEF RestartInv

\* DeletePod forgets the Pod: either none of its goroutines is in flight, or
\* the history records that one outlives it.
LEMMA ForgetRestart ==
  ASSUME IInv, RestartInv, NEW k \in Keys, DeleteForget(k) PROVE RestartInv'
<1>1. /\ Tracked(k) /\ pods' = [pods EXCEPT ![k] = NoPod] /\ UNCHANGED gos
      /\ probers' = ProbersAfterStop(k)
      /\ IF InFlight(k) # {} THEN Excuse(k, "outlived") ELSE UNCHANGED excuse
  BY Zenon DEF DeleteForget, StopProbes, NoteIfInFlight
<1>2. \A j \in Keys : Excused(j)
  BY <1>1, ExcusedKept, Zenon DEF Reasons
<1>3. pods'[k] = NoPod /\ \A j \in Keys \ {k} : SamePod(j) /\ SameGos(j)
  <2>1. pods'[k] = NoPod /\ \A j \in Keys \ {k} : pods'[j] = pods[j]
    BY <1>1, Zenon DEF IInv, PodsInv
  <2> QED BY <1>1, <2>1, ProbersElsewhere, Zenon DEF SamePod, SameGos, Works
<1>4. KeyInv(k)'
  <2> SUFFICES ASSUME "outlived" \notin excuse'[k]
               PROVE  KeyInv(k)'
    BY Zenon DEF KeyInv
  <2>1. InFlight(k) = {}
    BY <1>1, Zenon DEF Excuse, IInv, NodeInv
  <2>2. \A h \in Slots : ~Works(h, k)'
    BY <1>1, <2>1, Zenon DEF InFlight, Works
  <2>3. KeyInv(k) /\ "outlived" \notin excuse[k]
    BY <1>2, Zenon DEF RestartInv, Excused
  <2>4. probers'[k] = 0
    BY <1>1, <2>3, StoppedNone, Zenon
  <2> QED BY <1>3, <2>2, <2>4, Zenon DEF KeyInv, Tracked
<1> QED BY <1>2, <1>3, <1>4, KeyFrame, Zenon DEF RestartInv

\* A status reconcile.
LEMMA SyncRestart ==
  ASSUME IInv, RestartInv, NEW k \in Keys, SyncStatus(k) PROVE RestartInv'
<1>1. Tracked(k) /\ pods[k] \in PodType /\ pods[k].uid \in Uids
  BY TrackedPod, Zenon DEF SyncStatus, PodType
<1>2. PICK obs \in VM!Phases \cup {"error"} :
        /\ pods' = [pods EXCEPT ![k] = Reconciled(pods[k], obs)]
        /\ IF Launches(pods[k], obs) THEN Spawn(k, pods[k].uid, "backoff")
                                     ELSE UNCHANGED gos
  BY Zenon DEF SyncStatus
<1>3. UNCHANGED <<probers, excuse>>
  BY Zenon DEF SyncStatus, probeVars
<1> DEFINE rs == Reconciled(pods[k], obs)
<1>4. /\ rs.probes = pods[k].probes /\ rs # NoPod
      /\ Launches(pods[k], obs) => rs.restarting /\ ~pods[k].restarting
      /\ ~Launches(pods[k], obs) => (rs.restarting <=> pods[k].restarting)
  BY <1>1, ReconciledKept, ReconciledFlag, Zenon
<1>5. pods'[k] = rs /\ \A j \in Keys \ {k} : pods'[j] = pods[j]
  BY <1>2, Zenon DEF IInv, PodsInv
<1> HIDE DEF rs
<1>6. ASSUME NEW j \in Keys \ {k} PROVE KeyInv(j)'
  <2>1. SameGos(j)
    BY <1>1, <1>2, SpawnedElsewhere, Zenon
  <2> QED BY <1>3, <1>5, <2>1, KeyFrame, Zenon DEF RestartInv, Excused, SamePod
<1>7. KeyInv(k)'
  <2>1. Tracked(k)' /\ KeyInv(k) /\ Excused(k)
    BY <1>3, <1>4, <1>5, Zenon DEF Tracked, RestartInv, Excused
  <2>2. "outlived" \notin excuse[k] => probers'[k] = IF pods'[k].probes THEN 1 ELSE 0
    BY <1>1, <1>3, <1>4, <1>5, <2>1, Zenon DEF KeyInv
  <2>3. \/ Spawn(k, pods[k].uid, "backoff") /\ pods'[k].restarting /\ ~pods[k].restarting
        \/ UNCHANGED gos /\ (pods'[k].restarting <=> pods[k].restarting)
    BY <1>2, <1>4, <1>5, Zenon
  <2> QED BY <1>1, <1>4, <1>5, <2>1, <2>2, <2>3, KeyLaunches, Zenon
<1> QED BY <1>6, <1>7, Zenon DEF RestartInv

\* A probe failure that restarts the workload.
LEMMA FailRestart ==
  ASSUME IInv, RestartInv, NEW k \in Keys, NEW f, FailProbeRestart(k, f) PROVE RestartInv'
<1>1. Tracked(k) /\ pods[k] \in PodType /\ ~pods[k].restarting
  BY TrackedPod, Zenon DEF FailProbeRestart
<1>2. UNCHANGED <<probers, excuse>> /\ Spawn(k, pods[k].uid, "backoff")
  BY Zenon DEF FailProbeRestart, histVars
<1> DEFINE new == [pods[k] EXCEPT !.restarting = TRUE]
<1>3. new \in PodType /\ new.probes = pods[k].probes /\ new.restarting
  BY <1>1, Zenon DEF PodType
<1>4. pods' = [pods EXCEPT ![k] = new]
  BY Zenon DEF FailProbeRestart
<1> HIDE DEF new
<1>5. pods'[k] = new /\ \A j \in Keys \ {k} : pods'[j] = pods[j]
  BY <1>4, Zenon DEF IInv, PodsInv
<1>6. ASSUME NEW j \in Keys \ {k} PROVE KeyInv(j)'
  <2>1. SameGos(j)
    BY <1>2, SpawnedElsewhere, Zenon
  <2> QED BY <1>2, <1>5, <2>1, KeyFrame, Zenon DEF RestartInv, Excused, SamePod
<1>7. KeyInv(k)'
  <2>1. Tracked(k)'
    BY <1>3, <1>5 DEF Tracked, PodType, NoPod, Uids
  <2>2. KeyInv(k) /\ Excused(k)
    BY <1>2, Zenon DEF RestartInv, Excused
  <2>3. "outlived" \notin excuse[k] => probers'[k] = IF pods'[k].probes THEN 1 ELSE 0
    BY <1>1, <1>2, <1>3, <1>5, <2>2, Zenon DEF KeyInv
  <2> QED BY <1>1, <1>2, <1>3, <1>5, <2>1, <2>2, <2>3, KeyLaunches, Zenon
<1> QED BY <1>6, <1>7, Zenon DEF RestartInv

\* A probe failure that kills the workload stops the probers and launches no
\* restart.
LEMMA KillRestart ==
  ASSUME IInv, RestartInv, NEW k \in Keys, NEW f, FailProbeKill(k, f) PROVE RestartInv'
<1>1. Tracked(k) /\ pods[k] \in PodType
  BY TrackedPod, Zenon DEF FailProbeKill
<1>2. /\ UNCHANGED excuse /\ Spawn(k, pods[k].uid, "killStop")
      /\ probers' = ProbersAfterStop(k)
  BY Zenon DEF FailProbeKill, histVars
<1> DEFINE new == [pods[k] EXCEPT !.terminal = TRUE, !.cs = "failed", !.probes = FALSE]
<1>3. new \in PodType /\ ~new.probes /\ new.restarting = pods[k].restarting
  BY <1>1, Zenon DEF PodType, CStates
<1>4. pods' = [pods EXCEPT ![k] = new]
  BY Zenon DEF FailProbeKill
<1> HIDE DEF new
<1>5. pods'[k] = new /\ \A j \in Keys \ {k} : pods'[j] = pods[j]
  BY <1>4, Zenon DEF IInv, PodsInv
<1>6. ASSUME NEW j \in Keys \ {k} PROVE KeyInv(j)'
  <2>1. SameGos(j)
    BY <1>2, SpawnedElsewhere, Zenon
  <2>2. SamePod(j)
    BY <1>2, <1>5, ProbersElsewhere, Zenon DEF SamePod
  <2> QED BY <1>2, <2>1, <2>2, KeyFrame, Zenon DEF RestartInv, Excused
<1>7. KeyInv(k)'
  <2> SUFFICES ASSUME "outlived" \notin excuse'[k]
               PROVE  KeyInv(k)'
    BY Zenon DEF KeyInv
  <2>1. Tracked(k)'
    BY <1>3, <1>5 DEF Tracked, PodType, NoPod, Uids
  <2>2. KeyInv(k) /\ "outlived" \notin excuse[k]
    BY <1>2, Zenon DEF RestartInv
  <2>3. probers'[k] = 0
    BY <1>1, <1>2, <2>2, StoppedNone, Zenon
  <2>4. PICK g \in Slots : NewGo(g, k, "killStop")
    BY <1>2, Spawned, Zenon
  <2>5. ~Works(g, k) /\ ~Works(g, k)'
    BY <2>4, IdleIsNobodys, Zenon DEF NewGo, Works
  <2>6. \A h \in Slots : (Works(h, k)' <=> Works(h, k)) /\ (Works(h, k) => gos'[h] = gos[h])
    BY <2>4, <2>5, Zenon DEF NewGo, Works
  <2> QED BY <1>1, <1>3, <1>5, <2>1, <2>2, <2>3, <2>6, Zenon DEF KeyInv
<1> QED BY <1>6, <1>7, Zenon DEF RestartInv

\* A goroutine of k that moves or ends is nothing to the other keys.
LEMMA GoElsewhere ==
  ASSUME NEW g \in Slots, NEW k \in Keys, gos[g].key = k, OnlyGo(g),
         gos'[g].key = k \/ gos'[g] = NoGo, NEW j \in Keys \ {k}
  PROVE  SameGos(j)
<1>1. ~Works(g, j)
  BY Zenon DEF Works
<1>2. ~Works(g, j)'
  BY LifecycleAssumption DEF Works, NoGo
<1> QED BY <1>1, <1>2, Zenon DEF SameGos, OnlyGo, Works

\* A goroutine past its backoff moves on, or a kill or the destruction of an
\* orphan ends.  Of the keys the invariant is about none has an orphan.
LEMMA MoveRestart ==
  ASSUME IInv, RestartInv, NEW g \in Slots, gos[g].pc \notin {"idle", "backoff"}, OnlyGo(g),
         \/ /\ gos'[g].key = gos[g].key /\ gos'[g].pc # "orphan"
            /\ gos'[g].pc \in {"killStop", "killDestroy"}
                 <=> gos[g].pc \in {"killStop", "killDestroy"}
         \/ gos'[g] = NoGo /\ gos[g].pc \in {"orphan", "killStop", "killDestroy"},
         UNCHANGED <<pods, probers>>,
         UNCHANGED excuse \/ \E k \in Keys, why \in Reasons : Excuse(k, why)
  PROVE  RestartInv'
<1>1. PICK k \in Keys : k = gos[g].key
  BY InGo, Zenon DEF IInv
<1>2. \A j \in Keys : Excused(j) /\ SamePod(j) /\ KeyInv(j)
  BY ExcusedKept, Zenon DEF SamePod, RestartInv
<1>3. ASSUME NEW j \in Keys \ {k} PROVE KeyInv(j)'
  BY <1>1, <1>2, GoElsewhere, KeyFrame, Zenon
<1>4. KeyInv(k)'
  <2> SUFFICES ASSUME "outlived" \notin excuse'[k]
               PROVE  KeyInv(k)'
    BY Zenon DEF KeyInv
  <2>1. "outlived" \notin excuse[k]
    BY <1>2, Zenon DEF Excused
  <2>2. gos[g].pc # "orphan"
    BY <1>1, <1>2, <2>1 DEF KeyInv, Works
  <2>3. ~Works(g, k)' <=> ~Works(g, k)
    <3>1. CASE gos'[g] = NoGo /\ gos[g].pc \in {"orphan", "killStop", "killDestroy"}
      BY <1>1, <2>2, <3>1, LifecycleAssumption DEF Works, NoGo
    <3>2. CASE /\ gos'[g].key = gos[g].key
               /\ gos'[g].pc \in {"killStop", "killDestroy"}
                    <=> gos[g].pc \in {"killStop", "killDestroy"}
      BY <1>1, <3>2, Zenon DEF Works
    <3> QED BY <3>1, <3>2, Zenon
  <2>4. Works(g, k) => gos'[g].pc # "orphan"
    BY <2>2, Zenon DEF Works
  <2> QED BY <1>2, <2>3, <2>4, KeyMoves, Zenon DEF OnlyGo, Works
<1> QED BY <1>3, <1>4, Zenon DEF RestartInv

\* A restart goroutine ends and clears the flag of its Pod.
LEMMA EndRestart ==
  ASSUME IInv, RestartInv, NEW g \in Slots, NEW k \in Keys, Works(g, k), Tracked(k),
         OnlyGo(g), gos'[g] = NoGo, UNCHANGED excuse,
         NEW new \in PodType, pods' = [pods EXCEPT ![k] = new], ~new.restarting,
         \A j \in Keys \ {k} : probers'[j] = probers[j],
         "outlived" \notin excuse[k] => probers'[k] = IF new.probes THEN 1 ELSE 0
  PROVE  RestartInv'
<1>1. pods'[k] = new /\ \A j \in Keys \ {k} : pods'[j] = pods[j]
  BY Zenon DEF IInv, PodsInv
<1>2. gos[g].key = k
  BY Zenon DEF Works
<1>3. ASSUME NEW j \in Keys \ {k} PROVE KeyInv(j)'
  <2>1. SameGos(j)
    BY <1>2, GoElsewhere, Zenon
  <2> QED BY <1>1, <2>1, KeyFrame, Zenon DEF RestartInv, Excused, SamePod
<1>4. KeyInv(k)'
  <2> SUFFICES ASSUME "outlived" \notin excuse[k]
               PROVE  KeyInv(k)'
    BY Zenon DEF KeyInv
  <2>1. Tracked(k)'
    BY <1>1 DEF Tracked, PodType, NoPod, Uids
  <2>2. KeyInv(k)
    BY Zenon DEF RestartInv
  <2>3. ~Works(g, k)'
    BY LifecycleAssumption DEF Works, NoGo
  <2>4. \A h \in Slots : ~Works(h, k)'
    BY <2>2, <2>3, Zenon DEF KeyInv, OnlyGo, Works
  <2> QED BY <1>1, <2>1, <2>4, Zenon DEF KeyInv
<1> QED BY <1>3, <1>4, Zenon DEF RestartInv

\* A restart goroutine whose Pod is gone: its key is not one the invariant is
\* about.
LEMMA LostRestart ==
  ASSUME IInv, RestartInv, NEW g \in Slots, NEW k \in Keys, Works(g, k), ~Tracked(k),
         OnlyGo(g), gos'[g] = NoGo \/ gos'[g].key = k,
         UNCHANGED <<pods, probers, excuse>>
  PROVE  RestartInv'
<1>1. "outlived" \in excuse'[k]
  BY Zenon DEF RestartInv, KeyInv
<1>2. gos[g].key = k
  BY Zenon DEF Works
<1>3. ASSUME NEW j \in Keys \ {k} PROVE KeyInv(j)'
  <2>1. SameGos(j)
    BY <1>2, GoElsewhere, Zenon
  <2> QED BY <2>1, KeyFrame, Zenon DEF RestartInv, Excused, SamePod
<1> QED BY <1>1, <1>3, Zenon DEF RestartInv, KeyInv

\* The backoff of a restart is over.
LEMMA WakeRestart == ASSUME IInv, RestartInv, NEW g \in Slots, RestartWake(g) PROVE RestartInv'
<1>1. gos[g] \in GoType /\ gos[g].key \in Keys /\ gos[g].pc = "backoff"
  BY InGo, Zenon DEF IInv, RestartWake, GoAt
<1>2. PICK k \in Keys : k = gos[g].key
  BY <1>1, Zenon
<1>3. Works(g, k) /\ UNCHANGED excuse
  <2>1. Works(g, k)
    BY <1>1, <1>2 DEF Works
  <2> QED BY <2>1, Zenon DEF RestartWake, histVars
<1>4. GoDone(g) => OnlyGo(g) /\ gos'[g] = NoGo
  BY Zenon DEF GoDone, OnlyGo, IInv, GosInv
<1>5. CASE ~Tracked(k)
  <2>1. GoDone(g) /\ UNCHANGED <<pods, probers>>
    BY <1>2, <1>5, Zenon DEF RestartWake, probeVars
  <2> QED BY <1>3, <1>4, <1>5, <2>1, LostRestart, Zenon
<1>6. CASE Tracked(k) /\ pods[k].terminal
  <2> DEFINE new == [pods[k] EXCEPT !.restarting = FALSE]
  <2>1. GoDone(g) /\ UNCHANGED probers /\ pods' = [pods EXCEPT ![k] = new]
    BY <1>2, <1>6, Zenon DEF RestartWake, probeVars
  <2>2. new \in PodType /\ ~new.restarting /\ new.probes = pods[k].probes
    BY <1>6, TrackedPod, Zenon DEF PodType
  <2>3. "outlived" \notin excuse[k] => probers'[k] = IF new.probes THEN 1 ELSE 0
    BY <1>6, <2>1, <2>2, Zenon DEF RestartInv, KeyInv
  <2> HIDE DEF new
  <2> QED BY <1>3, <1>4, <1>6, <2>1, <2>2, <2>3, EndRestart, Zenon
<1>7. CASE Tracked(k) /\ ~pods[k].terminal
  <2> DEFINE new == [pods[k] EXCEPT !.probes = FALSE]
             go  == [gos[g] EXCEPT !.pc = "detach", !.uid = pods[k].uid,
                       !.stale = pods[k].uid # gos[g].uid,
                       !.ip = pods[k].ip, !.was = pods[k].attached]
  <2>1. /\ probers' = ProbersAfterStop(k) /\ pods' = [pods EXCEPT ![k] = new]
        /\ gos' = [gos EXCEPT ![g] = go]
    BY <1>2, <1>7, Zenon DEF RestartWake, StopProbes
  <2>2. new \in PodType /\ ~new.probes /\ new.restarting = pods[k].restarting
    BY <1>7, TrackedPod, Zenon DEF PodType
  <2>3. go.pc = "detach" /\ go.key = k
    BY <1>1, <1>2, Zenon DEF GoType
  <2> HIDE DEF new, go
  <2>4. OnlyGo(g) /\ gos'[g] = go
    BY <2>1, Zenon DEF OnlyGo, IInv, GosInv
  <2>5. pods'[k] = new /\ \A j \in Keys \ {k} : pods'[j] = pods[j]
    BY <2>1, Zenon DEF IInv, PodsInv
  <2>6. ASSUME NEW j \in Keys \ {k} PROVE KeyInv(j)'
    <3>1. SameGos(j)
      BY <1>2, <2>3, <2>4, GoElsewhere, Zenon
    <3>2. SamePod(j)
      BY <2>1, <2>5, ProbersElsewhere, Zenon DEF SamePod
    <3> QED BY <1>3, <3>1, <3>2, KeyFrame, Zenon DEF RestartInv, Excused
  <2>7. KeyInv(k)'
    <3> SUFFICES ASSUME "outlived" \notin excuse[k]
                 PROVE  KeyInv(k)'
      BY <1>3, Zenon DEF KeyInv
    <3>1. Tracked(k)' /\ KeyInv(k)
      BY <2>2, <2>5 DEF Tracked, PodType, NoPod, Uids, RestartInv
    <3>2. probers'[k] = 0
      BY <1>7, <2>1, <3>1, StoppedNone, Zenon
    <3>3. Works(g, k)' /\ gos'[g].pc = "detach"
      BY <2>3, <2>4 DEF Works
    <3>4. \A h \in Slots : Works(h, k)' => h = g
      BY <1>3, <2>4, <3>1, Zenon DEF KeyInv, OnlyGo, Works
    <3>5. pods'[k].restarting
      BY <1>3, <2>2, <2>5, <3>1, Zenon DEF KeyInv
    <3> QED BY <2>2, <2>5, <3>1, <3>2, <3>3, <3>4, <3>5 DEF KeyInv
  <2> QED BY <2>6, <2>7, Zenon DEF RestartInv
<1> QED BY <1>5, <1>6, <1>7, Zenon

\* finishRestart: the commit, the cleared flag, or the orphan.
LEMMA FinishRestart == ASSUME IInv, RestartInv, NEW g \in Slots, RestartFinish(g) PROVE RestartInv'
<1>1. /\ gos[g] \in GoType /\ gos[g].key \in Keys /\ gos[g].pc = "finish"
      /\ gos[g].att \in BOOLEAN
  BY InGo, Zenon DEF IInv, RestartFinish, GoAt
<1>2. PICK k \in Keys : k = gos[g].key
  BY <1>1, Zenon
<1>3. Works(g, k) /\ UNCHANGED excuse
  BY <1>1, <1>2 DEF Works, RestartFinish, histVars
<1>4. GoDone(g) => OnlyGo(g) /\ gos'[g] = NoGo
  BY Zenon DEF GoDone, OnlyGo, IInv, GosInv
<1>5. CASE ~Tracked(k)
  <2>1. OrphanReaped(g) /\ UNCHANGED <<pods, probers>>
    BY <1>2, <1>5, Zenon DEF RestartFinish, probeVars
  <2>2. OnlyGo(g) /\ (gos'[g] = NoGo \/ gos'[g].key = k)
    <3>1. CASE GoGoto(g, "orphan")
      <4>1. gos' = [gos EXCEPT ![g] = [gos[g] EXCEPT !.pc = "orphan"]]
        BY <3>1, Zenon DEF GoGoto
      <4>2. [gos[g] EXCEPT !.pc = "orphan"].key = k
        BY <1>1, <1>2, Zenon DEF GoType
      <4> QED BY <4>1, <4>2, Zenon DEF OnlyGo, IInv, GosInv
    <3> QED BY <1>4, <2>1, <3>1, Zenon DEF OrphanReaped
  <2> QED BY <1>3, <1>5, <2>1, <2>2, LostRestart, Zenon
<1>6. CASE Tracked(k) /\ ~gos[g].new
  <2> DEFINE new == [pods[k] EXCEPT !.restarting = FALSE]
  <2>1. GoDone(g) /\ UNCHANGED probers /\ pods' = [pods EXCEPT ![k] = new]
    BY <1>2, <1>6, Zenon DEF RestartFinish, FlagCleared, probeVars
  <2>2. new \in PodType /\ ~new.restarting /\ new.probes = pods[k].probes
    BY <1>6, TrackedPod, Zenon DEF PodType
  <2>3. "outlived" \notin excuse[k] => probers'[k] = IF new.probes THEN 1 ELSE 0
    BY <1>6, <2>1, <2>2, Zenon DEF RestartInv, KeyInv
  <2> HIDE DEF new
  <2> QED BY <1>3, <1>4, <1>6, <2>1, <2>2, <2>3, EndRestart, Zenon
<1>7. CASE Tracked(k) /\ gos[g].new
  <2> DEFINE st  == [pods[k] EXCEPT !.restarting = FALSE, !.attached = gos[g].att]
             new == StartedProbes(st)
  <2>1. GoDone(g) /\ StartProbes(k) /\ pods' = [pods EXCEPT ![k] = new]
    BY <1>2, <1>7, Zenon DEF RestartFinish
  <2>2. st \in PodType /\ ~st.restarting
    BY <1>1, <1>7, TrackedPod, Zenon DEF PodType
  <2> HIDE DEF st
  <2>3. new \in PodType /\ ~new.restarting /\ new.probes = Probed
    BY <2>2, LifecycleAssumption, Zenon DEF StartedProbes, PodType
  <2> HIDE DEF new
  <2>4. ASSUME "outlived" \notin excuse[k]
        PROVE  probers'[k] = IF new.probes THEN 1 ELSE 0
    <3>1. KeyInv(k)
      BY Zenon DEF RestartInv
    <3>2. ~pods[k].probes
      BY <1>1, <1>3, <2>4, <3>1 DEF KeyInv
    <3>3. probers[k] = 0
      BY <2>4, <3>1, <3>2, Zenon DEF KeyInv
    <3> QED BY <2>1, <2>3, <3>3, StartedOne, Zenon
  <2>5. \A j \in Keys \ {k} : probers'[j] = probers[j]
    BY <2>1, ProbersElsewhere, Zenon
  <2> QED BY <1>3, <1>4, <1>7, <2>1, <2>3, <2>4, <2>5, EndRestart, Zenon
<1> QED BY <1>5, <1>6, <1>7, Zenon

\* A goroutine's program counter moves.
LEMMA GoGotoOnly ==
  ASSUME IInv, NEW g \in Slots, gos[g] \in GoType, NEW pc, GoGoto(g, pc)
  PROVE  OnlyGo(g) /\ gos'[g].key = gos[g].key /\ gos'[g].pc = pc
<1>1. gos' = [gos EXCEPT ![g] = [gos[g] EXCEPT !.pc = pc]]
  BY Zenon DEF GoGoto
<1>2. [gos[g] EXCEPT !.pc = pc].key = gos[g].key /\ [gos[g] EXCEPT !.pc = pc].pc = pc
  BY Zenon DEF GoType
<1> QED BY <1>1, <1>2, Zenon DEF OnlyGo, IInv, GosInv

\* The steps of a restart between its two critical sections, and the kill.
LEMMA BetweenRestart ==
  ASSUME IInv, RestartInv, NEW g \in Slots,
         \/ RestartDetach(g) \/ GoStop(g) \/ GoDestroy(g) \/ RestartCreate(g)
         \/ RestartStart(g) \/ RestartObserve(g) \/ RestartAttach(g)
  PROVE  RestartInv'
<1>1. gos[g].pc \notin {"idle", "backoff"} /\ UNCHANGED <<pods, probers>>
  <2>1. gos[g].pc \in {"detach", "stop", "killStop", "destroy", "undo", "orphan",
                       "killDestroy", "create", "start", "observe", "attach"}
    BY Zenon DEF RestartDetach, GoStop, GoDestroy, RestartCreate, RestartStart,
       RestartObserve, RestartAttach, GoAt
  <2>2. UNCHANGED <<pods, probers>>
    BY Zenon DEF RestartDetach, GoStop, GoDestroy, RestartCreate, RestartStart,
       RestartObserve, RestartAttach, probeVars
  <2> QED BY <2>1, <2>2
<1>2. gos[g] \in GoType /\ gos[g].key \in Keys
  BY <1>1, InGo, Zenon DEF IInv
<1>3. UNCHANGED excuse \/ \E k \in Keys, why \in Reasons : Excuse(k, why)
  <2>1. UNCHANGED excuse \/ Excuse(gos[g].key, "destroyFailed")
          \/ Excuse(gos[g].key, "loadFailed")
    BY Zenon DEF RestartDetach, GoStop, GoDestroy, RestartCreate, RestartStart,
       RestartObserve, RestartAttach, histVars, Destroys, AttachOK, AttachFails
  <2> QED BY <1>2, <2>1, Zenon DEF Reasons
<1> DEFINE MovesOn ==
      \/ /\ gos'[g].key = gos[g].key /\ gos'[g].pc # "orphan"
         /\ gos'[g].pc \in {"killStop", "killDestroy"}
              <=> gos[g].pc \in {"killStop", "killDestroy"}
      \/ gos'[g] = NoGo /\ gos[g].pc \in {"orphan", "killStop", "killDestroy"}
<1> SUFFICES OnlyGo(g) /\ MovesOn
  BY <1>1, <1>3, MoveRestart, Zenon
<1>4. ASSUME NEW r, gos' = [gos EXCEPT ![g] = r], r.key = gos[g].key,
             r.pc \in {"stop", "attach", "finish"},
             gos[g].pc \in {"detach", "observe", "attach"}
      PROVE  OnlyGo(g) /\ MovesOn
  <2>1. OnlyGo(g) /\ gos'[g] = r
    BY <1>4, Zenon DEF OnlyGo, IInv, GosInv
  <2> QED BY <1>4, <2>1
<1>5. CASE RestartDetach(g)
  <2> DEFINE r == [gos[g] EXCEPT !.pc = "stop", !.was = FALSE]
  <2>1. gos' = [gos EXCEPT ![g] = r] /\ gos[g].pc = "detach"
    BY <1>5, Zenon DEF RestartDetach, GoAt
  <2>2. r.key = gos[g].key /\ r.pc = "stop"
    BY <1>2, Zenon DEF GoType
  <2> HIDE DEF r
  <2> QED BY <1>4, <2>1, <2>2, Zenon
<1>6. CASE RestartObserve(g)
  <2> DEFINE r == [gos[g] EXCEPT !.pc = "attach", !.new = TRUE, !.addr = vms[gos[g].key].addr]
             q == [gos[g] EXCEPT !.pc = "finish", !.new = TRUE]
  <2>1. /\ gos' = [gos EXCEPT ![g] = r] \/ gos' = [gos EXCEPT ![g] = q]
        /\ gos[g].pc = "observe"
    BY <1>6, Zenon DEF RestartObserve, GoAt
  <2>2. r.key = gos[g].key /\ r.pc = "attach" /\ q.key = gos[g].key /\ q.pc = "finish"
    BY <1>2, Zenon DEF GoType
  <2> HIDE DEF r, q
  <2> QED BY <1>4, <2>1, <2>2, Zenon
<1>7. CASE RestartAttach(g)
  <2> DEFINE r == [gos[g] EXCEPT !.pc = "finish", !.att = TRUE, !.ip = NoIP, !.addr = NoAddr]
             q == [gos[g] EXCEPT !.pc = "finish", !.ip = NoIP, !.addr = NoAddr]
  <2>1. /\ gos' = [gos EXCEPT ![g] = r] \/ gos' = [gos EXCEPT ![g] = q]
        /\ gos[g].pc = "attach"
    BY <1>7, Zenon DEF RestartAttach, GoAt
  <2>2. r.key = gos[g].key /\ r.pc = "finish" /\ q.key = gos[g].key /\ q.pc = "finish"
    BY <1>2, Zenon DEF GoType
  <2> HIDE DEF r, q
  <2> QED BY <1>4, <2>1, <2>2, Zenon
<1>8. CASE GoStop(g)
  <2>1. \/ gos[g].pc = "stop" /\ GoGoto(g, "destroy")
        \/ gos[g].pc = "killStop" /\ GoGoto(g, "killDestroy")
    BY <1>8 DEF GoStop
  <2> QED BY <1>2, <2>1, GoGotoOnly
<1>9. CASE GoDestroy(g)
  <2>1. \/ gos[g].pc = "destroy" /\ GoGoto(g, "create")
        \/ gos[g].pc = "undo" /\ GoGoto(g, "finish")
        \/ gos[g].pc \in {"orphan", "killDestroy"} /\ GoDone(g)
    BY <1>9 DEF GoDestroy
  <2>2. GoDone(g) => OnlyGo(g) /\ gos'[g] = NoGo
    BY Zenon DEF GoDone, OnlyGo, IInv, GosInv
  <2> QED BY <1>2, <2>1, <2>2, GoGotoOnly
<1>10. CASE RestartCreate(g) \/ RestartStart(g)
  <2>1. /\ gos[g].pc \in {"create", "start"}
        /\ \E pc \in {"start", "finish", "observe", "undo"} : GoGoto(g, pc)
    BY <1>10, Zenon DEF RestartCreate, RestartStart, GoAt
  <2> QED BY <1>2, <2>1, GoGotoOnly
<1> QED BY <1>5, <1>6, <1>7, <1>8, <1>9, <1>10, Zenon

LEMMA NextRestart == IInv /\ RestartInv /\ [Next]_vars => RestartInv'
<1> SUFFICES ASSUME IInv, RestartInv, [Next]_vars PROVE RestartInv'
  OBVIOUS
<1>1. CASE CreateStep
  BY <1>1, CreateRestart, PullRestart, CommitRestart, Zenon DEF CreateStep
<1>2. ASSUME NEW k \in Keys, DeleteStep(k) PROVE RestartInv'
  BY <1>2, ForgetRestart, OtherRestart, Zenon DEF DeleteStep
<1>3. ASSUME NEW k \in Keys, NEW f \in {"armed", "late"},
             FailProbeIgnored(k, f) \/ FailProbeRestart(k, f) \/ FailProbeKill(k, f)
      PROVE  RestartInv'
  BY <1>3, OtherRestart, FailRestart, KillRestart, Zenon
<1>4. ASSUME NEW k \in Keys,
             \/ CreateUnsupported(k) \/ CreateBegin(k) \/ SyncStatus(k) \/ Schedule(k)
             \/ RequestDelete(k) \/ ForceRemove(k) \/ GuestExit(k) \/ RecoverOne(k)
      PROVE  RestartInv'
  BY Zenon, <1>4, UnsupportedRestart, SyncRestart, OtherRestart
<1>5. ASSUME NEW g \in Slots, GoStep(g) PROVE RestartInv'
  BY Zenon, <1>5, WakeRestart, BetweenRestart, FinishRestart DEF GoStep
<1>6. CASE UNCHANGED vars
  BY <1>6, KeysUntouched, Zenon DEF vars
<1> QED BY <1>1, <1>2, <1>3, <1>4, <1>5, <1>6, ProcessRestart, Zenon DEF Next
=============================================================================
