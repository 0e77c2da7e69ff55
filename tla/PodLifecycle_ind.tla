------------------------- MODULE PodLifecycle_ind -------------------------
(***************************************************************************)
(* The inductive invariants of the Pod lifecycle that the proofs build on. *)
(*                                                                         *)
(* IInv, beside the types, says who may hold an address: a call of         *)
(* CreatePod holds the one it allocated, a tracked Pod the one in its      *)
(* status, and the two never coincide because no key is tracked, being     *)
(* created and being deleted at the same time.  RestartInv says which      *)
(* goroutines and probers a Pod has.                                       *)
(***************************************************************************)
EXTENDS PodLifecycle

PoolInv == IPAMTypeOK /\ MapsInverse /\ OnlyUsableHeld

ApiInv ==
  /\ api \in [Keys -> [uid : Uids \cup {0}, state : {"absent", "present", "deleting"},
                       spec : Specs \cup {"none"}, ip : IPs, cs : CStates]]
  /\ \A k \in Keys : api[k].state # "absent" => api[k].uid \in Uids /\ api[k].spec \in Specs

PodsInv == pods \in [Keys -> PodType \cup {NoPod}]

CreateInv == create \in CallType \cup {NoCall}

DelInv == del \in [Keys -> DelType \cup {NoDelete}]

GosInv == gos \in [Slots -> GoType \cup {NoGo}]

ProbersInv ==
  /\ probers \in [Keys -> 0 .. 2]
  /\ \A k \in Keys : Tracked(k) /\ pods[k].probes => probers[k] >= 1

FailersInv == failers \in [Keys -> SUBSET {"armed", "late"}]

VMsInv == VM!VMTypeOK(Uids)

EndpointsInv == endpoints \in [Keys -> [ip : IPs, addr : 0 .. NoAddr]]

DirsInv == dirs \subseteq Keys \X Uids

NodeInv ==
  /\ kubelet \in {"up", "down"}
  /\ toRecover \subseteq Keys
  /\ faults \in 0 .. MaxFaults
  /\ excuse \in [Keys -> SUBSET Reasons]
  /\ kubelet = "down" \/ toRecover # {} => \A k \in Keys : "crash" \in excuse[k]

\* DeletePod is past its release of the address.
Freed == {"stop", "destroy", "cleanup"}

\* A key is tracked, being created or being deleted, never two at a time; who
\* is tracked or being created holds the address it knows.  A call that found
\* an address reserved has it from recovery, and past its release a deletion
\* holds none that is not.
OwnInv ==
  /\ create # NoCall =>
       /\ byKey[create.key] = create.ip /\ create.ip # NoIP
       /\ del[create.key] = NoDelete
       /\ ~Tracked(create.key)
       /\ create.had => "crash" \in excuse[create.key]
  /\ \A k \in Keys : Tracked(k) => del[k] = NoDelete
  /\ \A k \in Keys : Tracked(k) /\ pods[k].ip # NoIP => byKey[k] = pods[k].ip
  /\ \A k \in Keys : del[k].pc \in Freed => byKey[k] = NoIP \/ "crash" \in excuse[k]

IInv ==
  /\ ApiInv /\ PodsInv /\ CreateInv /\ DelInv /\ GosInv /\ ProbersInv /\ FailersInv
  /\ VMsInv /\ PoolInv /\ EndpointsInv /\ DirsInv /\ NodeInv /\ OwnInv /\ NoIPLeak

-----------------------------------------------------------------------------
(* Restart goroutines and probers.                                         *)

\* g is a restart goroutine of key k, at work or in its backoff.
Works(g, k) == gos[g].key = k /\ gos[g].pc \notin {"killStop", "killDestroy"}

\* What holds of a key none of whose goroutines has outlived its Pod: it has
\* a restart goroutine iff the flag is set, and one at most; past its backoff
\* that goroutine has stopped the probers; the probers are those of the
\* Pod's record.
KeyInv(k) ==
  "outlived" \notin excuse[k] =>
    /\ \A g, h \in Slots : Works(g, k) /\ Works(h, k) => g = h
    /\ (\E g \in Slots : Works(g, k)) <=> (Tracked(k) /\ pods[k].restarting)
    /\ \A g \in Slots : Works(g, k) =>
         gos[g].pc # "orphan" /\ (gos[g].pc = "backoff" \/ ~pods[k].probes)
    /\ probers[k] = IF Tracked(k) /\ pods[k].probes THEN 1 ELSE 0

RestartInv == \A k \in Keys : KeyInv(k)

-----------------------------------------------------------------------------
(* Steps of goroutines.                                                    *)

\* Slot g, idle before, has a goroutine for k at pc; the others are as before.
NewGo(g, k, pc) ==
  /\ gos[g] = NoGo /\ gos'[g].key = k /\ gos'[g].pc = pc
  /\ \A h \in Slots \ {g} : gos'[h] = gos[h]

\* Only goroutine g changes.
OnlyGo(g) == \A h \in Slots \ {g} : gos'[h] = gos[h]
=============================================================================
