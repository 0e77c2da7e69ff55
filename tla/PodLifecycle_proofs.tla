------------------------ MODULE PodLifecycle_proofs ------------------------
(***************************************************************************)
(* The theorems about the Pod lifecycle, for any set of Pod names, any     *)
(* CIDR and any number of Pods, goroutines and failures.                   *)
(*                                                                         *)
(* They rest on three invariants: IInv and RestartInv (PodLifecycle_ind;   *)
(* that each step keeps them is PodLifecycle_inv) and EInv, which relates  *)
(* VMs, router mappings and shown addresses to them (PodLifecycle_effects, *)
(* for the calls and probers, and PodLifecycle_outcomes, for the           *)
(* goroutines, crashes and recovery).                                      *)
(***************************************************************************)
EXTENDS PodLifecycle_inv, PodLifecycle_outcomes, FiniteSetTheorems

\* The invariant in every reachable state.
THEOREM Inductive == Spec => []IInv
BY InitIInv, NextIInv, PTL DEF Spec

\* Every variable of the lifecycle keeps its type through every interleaving
\* of calls, restarts, probe failures, crashes and recoveries; in particular
\* stopProbes never cancels a set of probers that is not running.
THEOREM TypeCorrect == Spec => []TypeOK
<1>1. IInv => TypeOK
  BY Zenon DEF IInv, TypeOK, ApiInv, PodsInv, CreateInv, DelInv, GosInv, ProbersInv, FailersInv,
         VMsInv, PoolInv, EndpointsInv, DirsInv, NodeInv
<1> QED BY <1>1, Inductive, PTL

\* A tracked Pod holds the allocator's reservation for the address in its
\* status, and shares that address with no other tracked Pod, however many
\* creates fail, restarts run and crashes are recovered from.
THEOREM PodsOwnTheirIPs == Spec => []PodOwnsIP
<1>1. IInv => PodOwnsIP
  <2> SUFFICES ASSUME IInv, NEW k \in Keys, Tracked(k), pods[k].ip # NoIP
               PROVE  /\ byKey[k] = pods[k].ip
                      /\ \A j \in Keys \ {k} : Tracked(j) => pods[j].ip # pods[k].ip
    BY Zenon DEF PodOwnsIP
  <2>1. byKey[k] = pods[k].ip
    BY Zenon DEF IInv, OwnInv
  <2>2. ASSUME NEW j \in Keys \ {k}, Tracked(j), pods[j].ip = pods[k].ip PROVE FALSE
    <3>1. byKey[j] = byKey[k] /\ byKey[k] # NoIP
      BY <2>1, <2>2, Zenon DEF IInv, OwnInv
    <3>2. byKey[j] \in Offsets /\ byKey[k] \in Offsets
      BY Zenon DEF IInv, PoolInv, IPAMTypeOK
    <3>3. byIP[byKey[j]] = j /\ byIP[byKey[k]] = k
      BY <3>1, <3>2, Zenon DEF IInv, PoolInv, MapsInverse, NoIP
    <3> QED BY <3>1, <3>3, Zenon
  <2> QED BY <2>1, <2>2, Zenon
<1> QED BY <1>1, Inductive, PTL

\* No address is leaked: whichever step of CreatePod or DeletePod fails, what
\* the allocator holds belongs to a tracked Pod, to a call still at work, or
\* to a key whose reservation came from crash recovery.
THEOREM NoAddressLeaked == Spec => []NoIPLeak
<1>1. IInv => NoIPLeak
  BY Zenon DEF IInv
<1> QED BY <1>1, Inductive, PTL

\* The invariant of restarts and probers in every reachable state.
THEOREM RestartsInductive == Spec => []RestartInv
<1>1. Init => RestartInv
  <2> SUFFICES ASSUME Init, NEW k \in Keys PROVE KeyInv(k)
    BY Zenon DEF RestartInv
  <2>1. \A g \in Slots : ~Works(g, k)
    BY LifecycleAssumption DEF Init, Works, NoGo
  <2>2. ~Tracked(k) /\ probers[k] = 0
    BY Zenon DEF Init, Tracked
  <2> QED BY <2>1, <2>2, Zenon DEF KeyInv
<1> QED BY <1>1, NextRestart, Inductive, PTL DEF Spec

\* Exactly one set of probers runs for a Pod that has probe state and none for
\* any other, through every interleaving of restarts, probe failures, deletions
\* and crashes, but for keys with a restart that outlived its Pod.
THEOREM OneSetOfProbers == Spec => []ProbersOwned
<1>1. RestartInv => ProbersOwned
  BY Zenon DEF RestartInv, KeyInv, ProbersOwned, Had
<1> QED BY <1>1, RestartsInductive, PTL

\* A Pod's restarting flag is set when exactly one restart goroutine works for
\* it and clear when none does, with the same exception: no two restarts ever
\* work on one micro-VM, and no Pod waits for a restart nobody makes.
THEOREM RestartFlagIsHonest == Spec => []RestartFlagHonest
<1>1. RestartInv => RestartFlagHonest
  <2> SUFFICES ASSUME RestartInv, NEW k \in Keys, ~Had(k, {"outlived"})
               PROVE  Cardinality({g \in InFlight(k) :
                                     gos[g].pc \notin {"killStop", "killDestroy"}})
                        = IF Tracked(k) /\ pods[k].restarting THEN 1 ELSE 0
    BY Zenon DEF RestartFlagHonest
  <2> DEFINE W == {g \in InFlight(k) : gos[g].pc \notin {"killStop", "killDestroy"}}
  <2>1. \A g : g \in W <=> g \in Slots /\ Works(g, k)
    BY Zenon DEF InFlight, Works
  <2> HIDE DEF W
  <2>2. /\ \A g, h \in Slots : Works(g, k) /\ Works(h, k) => g = h
        /\ (\E g \in Slots : Works(g, k)) <=> (Tracked(k) /\ pods[k].restarting)
    BY Zenon DEF RestartInv, KeyInv, Had
  <2>3. CASE Tracked(k) /\ pods[k].restarting
    <3>1. PICK g \in Slots : Works(g, k)
      BY <2>2, <2>3, Zenon
    <3>2. W = {g}
      BY <2>1, <2>2, <3>1, Zenon
    <3> QED BY <2>3, <3>2, FS_Singleton, Zenon DEF W
  <2>4. CASE ~(Tracked(k) /\ pods[k].restarting)
    <3>1. W = {}
      BY <2>1, <2>2, <2>4, Zenon
    <3> QED BY <2>4, <3>1, FS_EmptySet, Zenon DEF W
  <2> QED BY <2>3, <2>4, Zenon
<1> QED BY <1>1, RestartsInductive, PTL

\* The invariant of VMs, mappings and shown addresses in every reachable state.
THEOREM EffectsInductive == Spec => []EInv
BY InitEInv, NextEInv, Inductive, RestartsInductive, PTL DEF Spec

\* A Pod name that nothing of the provider works on and that is not tracked
\* has no VM, whichever step of its creation, deletion or restarts failed, but
\* for a Destroy that failed, a crash, and a Pod created under the name while
\* an old restart was in flight.
THEOREM NoVMLeaked == Spec => []NoVMLeak
BY NothingLeft, Inductive, EffectsInductive, PTL

\* Nor does the router have an endpoint for it, but for a pf load that failed
\* and a restart that outlived its Pod.
THEOREM NoEndpointLeaked == Spec => []NoEndpointLeak
BY NothingLeft, Inductive, EffectsInductive, PTL

\* The mapping of a Pod nothing works on leads to the VM that runs now, through
\* any number of restarts, and there is none for a Pod that is not attached.
THEOREM MappingsCurrent == Spec => []MappingCurrent
BY MappedToRunning, Inductive, EffectsInductive, PTL

\* Two Pods never have mappings for one address, also while one of them is
\* being deleted and the other created with the address it gave back.
THEOREM MappingsUnshared == Spec => []NoSharedMapping
BY MappingsApart, Inductive, RestartsInductive, EffectsInductive, PTL

\* A Pod keeps the address the API server shows for it, through crashes and
\* repeated adoptions, unless the recovery list failed or recovery had given
\* the address away.
THEOREM AddressesStable == Spec => []StablePodIP
BY ShownStable, EffectsInductive, PTL

\* A Pod of policy Always never gets to a final phase, in the provider or at
\* the API server.
THEOREM AlwaysRestarts == Spec => []AlwaysNeverFinal
BY ShownStable, EffectsInductive, PTL

\* No step of anyone takes away a VM that a call of CreatePod has adopted, but
\* for keys with a restart that outlived its Pod.
THEOREM AdoptedIsKept == Spec => AdoptedSurvives
<1>1. IInv /\ EInv /\ [Next]_vars =>
        [\A k \in Keys :
           create.key = k /\ create.pc # "lookup" /\ create.adopted /\ VM!Exists(k)
             /\ ~Had(k, {"outlived"}) =>
               vms'[k].phase # "none"]_vars
  BY NextSurvives, Zenon
<1> QED BY <1>1, Inductive, EffectsInductive, PTL DEF Spec, AdoptedSurvives
=============================================================================
