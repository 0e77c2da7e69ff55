------------------------ MODULE PodLifecycle_effects ------------------------
(***************************************************************************)
(* What the provider leaves behind outside its own memory: the status the  *)
(* API server shows, the micro-VMs of the host and the router's mappings,  *)
(* for every number of Pods, goroutines and failures.                      *)
(*                                                                         *)
(* EInv is the invariant, inductive on top of IInv and RestartInv.  Most   *)
(* of it (PodInv) speaks of one key at a time, and every step but a crash  *)
(* is a step of one key: each lemma says what a step does to its key, and  *)
(* that it does nothing to the others (Touches).  This module has PodInv   *)
(* through the steps of calls, statuses and probers and the first ones of  *)
(* a restart, and what is not about one key (IdleInv, AdoptInv, FlagsInv   *)
(* and the first steps of ShownInv); PodLifecycle_outcomes has the rest.   *)
(***************************************************************************)
EXTENDS PodLifecycle_ind, TLAPS

(***************************************************************************)
(* Nothing is tracked, being created or being deleted while the process is *)
(* down or recovers its allocator.                                         *)
(***************************************************************************)
IdleInv ==
  kubelet = "down" \/ toRecover # {} =>
    create = NoCall /\ \A k \in Keys : ~Tracked(k) /\ del[k] = NoDelete

\* A restart or kill goroutine without a Pod has outlived it.
OutInv(k) ==
  ~Tracked(k) /\ "outlived" \notin excuse[k] => \A g \in Slots : gos[g].key # k

(***************************************************************************)
(* What the provider knows of a Pod is what the API server has.            *)
(***************************************************************************)
SpecInv(k) ==
  /\ Tracked(k) =>
       /\ api[k].state # "absent"
       /\ pods[k].policy = "Always" => ~FinalState(pods[k].cs)
       /\ \/ pods[k].policy = api[k].spec
          \/ pods[k].policy = "none" /\ api[k].spec \in {"Unsupported", "WrongArch"}
  /\ create.key = k =>
       /\ api[k].state # "absent" /\ create.spec = api[k].spec
       /\ create.spec = "Always" => ~FinalState(create.cs)
  /\ del[k].pc # "idle" => api[k].state = "deleting"
  /\ api[k].state = "absent" => api[k].ip = NoIP
  /\ api[k].spec = "Always" => ~FinalState(api[k].cs)

(***************************************************************************)
(* A call that adopted a VM never gets to the steps that build a new one   *)
(* or take it down.                                                        *)
(***************************************************************************)
AdoptInv ==
  create.pc \in {"lookup", "pull", "create", "start", "rollback"} => ~create.adopted

(***************************************************************************)
(* The address the API server shows, for a Pod recovery did not fail.      *)
(***************************************************************************)
Shows(k) == api[k].ip # NoIP /\ ~Had(k, {"listFailed", "conflict"})

\* It is the one the Pod has, the one a call of CreatePod found reserved, and
\* the one that is reserved once recovery is past the Pod.
ShownAt(k) ==
  Shows(k) =>
    /\ Tracked(k) /\ pods[k].wl => pods[k].ip = api[k].ip
    /\ create.key = k => create.ip = api[k].ip /\ create.had
    /\ api[k].state = "present" /\ kubelet = "up" /\ k \notin toRecover =>
         byKey[k] = api[k].ip

\* No two Pods are shown with one address.
ShownApart ==
  \A j, k \in Keys :
    j # k /\ Shows(j) /\ Shows(k) /\ api[j].state = "present" /\ api[k].state = "present" =>
      api[j].ip # api[k].ip

\* Until recovery is over, nothing but what the API server shows is reserved.
Recovering ==
  /\ kubelet = "down" => \A k \in Keys : byKey[k] = NoIP
  /\ toRecover # {} => \A k \in Keys : byKey[k] \in {NoIP, api[k].ip}
  /\ \A k \in toRecover : byKey[k] = NoIP

\* A failed list fails for all Pods.
ListInv == \A j, k \in Keys : "listFailed" \in excuse[j] => "listFailed" \in excuse[k]

ShownInv == (\A k \in Keys : ShownAt(k)) /\ ShownApart /\ Recovering /\ ListInv

(***************************************************************************)
(* finishRestart's newID and attached are set by the steps that get them.  *)
(***************************************************************************)
FlagsInv ==
  \A g \in Slots :
    /\ gos[g].pc \in {"backoff", "detach", "stop", "destroy", "create", "start", "undo",
                      "observe"} => ~gos[g].att /\ ~gos[g].new
    /\ gos[g].pc = "attach" => ~gos[g].att /\ gos[g].new
    /\ gos[g].pc = "finish" /\ gos[g].att => gos[g].new

(***************************************************************************)
(* VMs.  A goroutine that will destroy the VM of a key nobody tracks.      *)
(***************************************************************************)
Reaps(g) ==
  \/ gos[g].pc \in {"detach", "stop", "destroy", "start", "undo", "observe", "orphan",
                    "killStop", "killDestroy"}
  \/ gos[g].pc \in {"attach", "finish"} /\ gos[g].new

\* What excuses a VM that is left, a mapping that is left or wrong.
VMReasons   == {"destroyFailed", "crash", "crossed"}
MapReasons  == {"outlived", "loadFailed"}
AddrReasons == {"outlived", "loadFailed", "destroyFailed"}

\* DeletePod has the VM still to destroy.
DeleteReaps(k) == del[k].pc \in {"detach", "release", "stop", "destroy"} /\ del[k].wl

VMInv(k) ==
  ~Had(k, VMReasons) =>
    /\ create.key = k =>
         /\ \A g \in Slots : gos[g].key # k
         /\ ~create.adopted /\ create.pc # "startAdopted"
         /\ create.pc \in {"lookup", "pull", "create"} => ~VM!Exists(k)
    /\ Tracked(k) /\ ~pods[k].wl =>
         pods[k].terminal /\ ~VM!Exists(k) /\ \A g \in Slots : gos[g].key # k
    /\ ~Tracked(k) /\ create.key # k /\ ~DeleteReaps(k) /\ VM!Exists(k) =>
         \E g \in Slots : gos[g].key = k /\ Reaps(g)

(***************************************************************************)
(* Router mappings.                                                        *)
(***************************************************************************)
\* The record says whether there is a mapping; after a restart that failed it
\* may say so though there is none.
Mapped(k) ==
  /\ pods[k].attached => endpoints[k] = NoEndpoint \/ endpoints[k].ip = pods[k].ip
  /\ ~pods[k].attached => endpoints[k] = NoEndpoint

\* No restart goroutine is past its Detach.
Calm(k) == \A g \in Slots : Works(g, k) => gos[g].pc \in {"backoff", "detach"}

\* Between Detach and Attach.
Between == {"stop", "destroy", "create", "start", "undo", "observe", "attach"}

GoMaps(g, k) ==
  /\ gos[g].pc = "detach" => gos[g].was = pods[k].attached
  /\ gos[g].pc \in Between => endpoints[k] = NoEndpoint
  /\ gos[g].pc \in Between \cup {"detach"} => gos[g].ip = pods[k].ip
  /\ gos[g].pc = "finish" =>
       IF gos[g].att THEN endpoints[k].ip = pods[k].ip ELSE endpoints[k] = NoEndpoint

MapInv(k) ==
  ~Had(k, MapReasons) =>
    /\ ~Tracked(k) /\ del[k].pc # "detach" /\ ~(create.key = k /\ create.pc = "commit") =>
         endpoints[k] = NoEndpoint
    /\ create.key = k /\ create.pc = "commit" =>
         endpoints[k] = [ip |-> create.ip, addr |-> create.addr]
    /\ del[k].pc = "detach" =>
         /\ endpoints[k].ip # NoIP => byKey[k] = endpoints[k].ip
         /\ ~del[k].attached => endpoints[k] = NoEndpoint
    /\ Tracked(k) =>
         /\ Calm(k) => Mapped(k)
         /\ \A g \in Slots : Works(g, k) => GoMaps(g, k)

(***************************************************************************)
(* The VM address recorded for a VM that runs is that VM's.                *)
(***************************************************************************)
Current(k, addr) == vms[k].phase = "running" => addr = vms[k].addr

Reached(k) ==
  pods[k].attached /\ vms[k].phase = "running" =>
    endpoints[k] = [ip |-> pods[k].ip, addr |-> vms[k].addr]

GoReaches(g, k) ==
  /\ gos[g].pc = "attach" => Current(k, gos[g].addr)
  /\ gos[g].pc = "create" \/ (gos[g].pc = "finish" /\ ~gos[g].new) => vms[k].phase # "running"
  /\ gos[g].pc = "finish" /\ gos[g].att => Current(k, endpoints[k].addr)

AddrInv(k) ==
  ~Had(k, AddrReasons) =>
    /\ create.key = k /\ create.pc \in {"attach", "commit"} => Current(k, create.addr)
    /\ Tracked(k) =>
         /\ Calm(k) => Reached(k)
         /\ \A g \in Slots : Works(g, k) => GoReaches(g, k)

PodInv(k) == OutInv(k) /\ SpecInv(k) /\ VMInv(k) /\ MapInv(k) /\ AddrInv(k)

EInv == IdleInv /\ AdoptInv /\ ShownInv /\ FlagsInv /\ \A k \in Keys : PodInv(k)

-----------------------------------------------------------------------------
(* What a step does to the keys it is not about.                           *)

\* The goroutines of key j are as before.
SameWork(j) == \A g \in Slots : gos[g].key = j \/ gos'[g].key = j => gos'[g] = gos[g]

\* Nothing of key j changes.
Same(j) ==
  /\ api'[j] = api[j] /\ pods'[j] = pods[j] /\ del'[j] = del[j] /\ vms'[j] = vms[j]
  /\ endpoints'[j] = endpoints[j] /\ excuse'[j] = excuse[j] /\ byKey'[j] = byKey[j]
  /\ create.key = j \/ create'.key = j => create' = create
  /\ SameWork(j)

Touches(k) == \A j \in Keys \ {k} : Same(j)

\* The invariant of a key survives the steps of others.
LEMMA PodFrame == ASSUME NEW j \in Keys, PodInv(j), Same(j) PROVE PodInv(j)'
<1>1. \A g \in Slots : /\ (gos'[g].key = j) <=> (gos[g].key = j)
                       /\ gos[g].key = j => gos'[g] = gos[g]
                       /\ Works(g, j)' <=> Works(g, j)
  BY Zenon DEF Same, SameWork, Works
<1>2. /\ (create'.key = j) <=> (create.key = j)
      /\ create.key = j => create' = create
  BY Zenon DEF Same
<1>3. Tracked(j)' <=> Tracked(j)
  BY Zenon DEF Same, Tracked
<1>4. \A R : Had(j, R)' <=> Had(j, R)
  BY Zenon DEF Same, Had
<1>5. OutInv(j)'
  BY <1>1, <1>3, Zenon DEF PodInv, OutInv, Same
<1>6. SpecInv(j)'
  BY <1>2, <1>3, Zenon DEF PodInv, SpecInv, Same
<1>7. VMInv(j)'
  <2>1. VM!Exists(j)' <=> VM!Exists(j)
    BY Zenon DEF Same, VM!Exists
  <2>2. DeleteReaps(j)' <=> DeleteReaps(j)
    BY Zenon DEF Same, DeleteReaps
  <2>3. \A g \in Slots : gos[g].key = j => (Reaps(g)' <=> Reaps(g))
    BY <1>1, Zenon DEF Reaps
  <2> QED BY <1>1, <1>2, <1>3, <1>4, <2>1, <2>2, <2>3, Zenon DEF PodInv, VMInv, Same
<1>8. MapInv(j)'
  <2>1. \A g \in Slots : Works(g, j) => (GoMaps(g, j)' <=> GoMaps(g, j))
    BY <1>1, Zenon DEF Same, GoMaps, Works, Between, NoEndpoint, NoIP, NoAddr
  <2>2. Mapped(j)' <=> Mapped(j)
    BY Zenon DEF Same, Mapped, NoEndpoint, NoIP, NoAddr
  <2>3. Calm(j)' <=> Calm(j)
    BY <1>1, Zenon DEF Calm, Works
  <2> QED BY <1>1, <1>2, <1>3, <1>4, <2>1, <2>2, <2>3, Zenon
          DEF PodInv, MapInv, Same, NoEndpoint, NoIP, NoAddr
<1>9. AddrInv(j)'
  <2>1. Had(j, AddrReasons)' <=> Had(j, AddrReasons)
    BY Zenon DEF Same, Had, AddrReasons
  <2>2. Calm(j)' <=> Calm(j)
    BY <1>1, Zenon DEF Calm, Works
  <2>3. Reached(j)' <=> Reached(j)
    BY Zenon DEF Same, Reached
  <2>4. \A g \in Slots : Works(g, j) => (GoReaches(g, j)' <=> GoReaches(g, j))
    BY <1>1, Zenon DEF Same, GoReaches, Works, Current
  <2>5. create.key = j => (Current(j, create.addr)' <=> Current(j, create.addr))
    BY <1>2, Zenon DEF Same, Current
  <2> QED BY <1>1, <1>2, <1>3, <2>1, <2>2, <2>3, <2>4, <2>5, Zenon DEF PodInv, AddrInv
<1> QED BY <1>5, <1>6, <1>7, <1>8, <1>9, Zenon DEF PodInv

\* What a failure or a note in the history does.
LEMMA ExcuseAt ==
  ASSUME IInv, NEW k \in Keys, NEW why, UNCHANGED excuse \/ Excuse(k, why)
  PROVE  /\ \A j \in Keys \ {k} : excuse'[j] = excuse[j]
         /\ excuse[k] \subseteq excuse'[k]
         /\ Excuse(k, why) => why \in excuse'[k]
BY Zenon DEF Excuse, IInv, NodeInv

\* An excuse is for good.
LEMMA HadGrows ==
  ASSUME NEW k, excuse[k] \subseteq excuse'[k] PROVE \A R : Had(k, R) => Had(k, R)'
BY Zenon DEF Had

\* The runtime's commands change the VM they name.
LEMMA VMsElsewhere ==
  ASSUME IInv, NEW k \in Keys, NEW u,
         UNCHANGED vms \/ VM!Create(k, u) \/ VM!Start(k) \/ VM!Stop(k) \/ VM!Destroy(k)
           \/ VM!Exit(k)
  PROVE  \A j \in Keys \ {k} : vms'[j] = vms[j]
BY Zenon DEF IInv, VMsInv, VM!VMTypeOK, VM!Create, VM!Start, VM!Stop, VM!Destroy, VM!Exit,
   VM!Halts

\* What each of them leaves.
LEMMA VMCreated ==
  ASSUME IInv, NEW k \in Keys, NEW u, VM!Create(k, u)
  PROVE  vms'[k].phase = "running" => vms'[k] = vms[k]
BY DEF IInv, VMsInv, VM!VMTypeOK, VM!Create, VM!Exists

LEMMA VMStopped ==
  ASSUME IInv, NEW k \in Keys, VM!Stop(k) \/ VM!Exit(k) \/ UNCHANGED vms
  PROVE  /\ VM!Exists(k)' <=> VM!Exists(k)
         /\ vms'[k].phase = "running" => vms'[k] = vms[k]
BY DEF IInv, VMsInv, VM!VMTypeOK, VM!Stop, VM!Exit, VM!Halts, VM!Exists, VM!Phases

LEMMA VMDestroyed ==
  ASSUME IInv, NEW k \in Keys, VM!Destroy(k)
  PROVE  ~VM!Exists(k)' /\ vms'[k].phase = "none"
BY Zenon DEF IInv, VMsInv, VM!VMTypeOK, VM!Destroy, VM!Missing, VM!Exists

-----------------------------------------------------------------------------
(* CreatePod.                                                              *)

\* A call of CreatePod touches its own key only.
LEMMA CallTouches ==
  ASSUME IInv, NEW k \in Keys, k = create.key, create'.key = k \/ create' = NoCall,
         UNCHANGED <<api, del>>,
         \A j \in Keys \ {k} :
           /\ pods'[j] = pods[j] /\ vms'[j] = vms[j] /\ endpoints'[j] = endpoints[j]
           /\ excuse'[j] = excuse[j] /\ byKey'[j] = byKey[j] /\ SameWork(j)
  PROVE  Touches(k)
<1>1. \A j \in Keys \ {k} : create.key # j /\ create'.key # j
  BY LifecycleAssumption DEF NoCall
<1> QED BY <1>1, Zenon DEF Touches, Same

\* Goroutines that no step moves.
LEMMA SameWorkAll == UNCHANGED gos => \A j \in Keys : SameWork(j)
BY Zenon DEF SameWork

\* A call goes on.
LEMMA CallGoesOn ==
  ASSUME NEW k \in Keys, k = create.key, PodInv(k),
         UNCHANGED <<api, pods, del, gos>>, excuse[k] \subseteq excuse'[k],
         create'.key = k, create'.spec = create.spec, create'.cs = create.cs,
         ~Had(k, VMReasons)' =>
           /\ ~create'.adopted /\ create'.pc # "startAdopted"
           /\ create'.pc \in {"lookup", "pull", "create"} => ~VM!Exists(k)',
         ~Had(k, MapReasons)' =>
           /\ create'.pc # "commit" => endpoints'[k] = NoEndpoint
           /\ create'.pc = "commit" =>
                endpoints'[k] = [ip |-> create'.ip, addr |-> create'.addr],
         ~Had(k, AddrReasons)' /\ create'.pc \in {"attach", "commit"} => Current(k, create.addr)',
         ~Tracked(k), del[k] = NoDelete
  PROVE  PodInv(k)'
<1>1. \A R : Had(k, R) => Had(k, R)'
  BY HadGrows, Zenon
<1>2. ~Tracked(k)' /\ del'[k].pc = "idle"
  BY DEF Tracked, NoDelete
<1>3. OutInv(k)' /\ SpecInv(k)'
  BY <1>2, Zenon DEF PodInv, OutInv, SpecInv
<1>4. VMInv(k)'
  BY <1>1, <1>2, Zenon DEF PodInv, VMInv
<1>5. MapInv(k)'
  BY <1>2 DEF MapInv, NoEndpoint
<1>6. AddrInv(k)'
  BY <1>2, Zenon DEF AddrInv
<1> QED BY <1>3, <1>4, <1>5, <1>6, Zenon DEF PodInv

\* A call gives up, before its commit.
LEMMA CallGivesUp ==
  ASSUME NEW k \in Keys, k = create.key, PodInv(k), Return,
         UNCHANGED <<api, pods, del, gos>>, excuse[k] \subseteq excuse'[k],
         ~Had(k, VMReasons)' => ~VM!Exists(k)',
         ~Had(k, MapReasons)' => endpoints'[k] = NoEndpoint,
         ~Tracked(k), del[k] = NoDelete
  PROVE  PodInv(k)'
<1>1. \A R : Had(k, R) => Had(k, R)'
  BY HadGrows, Zenon
<1>2. ~Tracked(k)' /\ del'[k].pc = "idle" /\ create'.key # k
  BY LifecycleAssumption DEF Tracked, NoDelete, Return, NoCall
<1>3. OutInv(k)' /\ SpecInv(k)'
  BY <1>2, Zenon DEF PodInv, OutInv, SpecInv
<1>4. VMInv(k)'
  BY <1>2, Zenon DEF VMInv
<1>5. MapInv(k)'
  BY <1>2 DEF MapInv
<1>6. AddrInv(k)'
  BY <1>2, Zenon DEF AddrInv
<1> QED BY <1>3, <1>4, <1>5, <1>6, Zenon DEF PodInv

\* What the invariant says of the key a call works on, before its commit.
AtWork(k) ==
  /\ k = create.key /\ create \in CallType /\ PodInv(k)
  /\ ~Tracked(k) /\ del[k] = NoDelete
  /\ ~Had(k, VMReasons) =>
       /\ ~create.adopted /\ create.pc # "startAdopted"
       /\ create.pc \in {"lookup", "pull", "create"} => ~VM!Exists(k)
  /\ ~Had(k, MapReasons) => endpoints[k] = NoEndpoint

LEMMA CallKey ==
  ASSUME IInv, EInv, create.pc # "idle", create.pc # "commit"
  PROVE  \E k \in Keys : AtWork(k)
<1>1. create \in CallType /\ create.key \in Keys /\ ~Tracked(create.key)
      /\ del[create.key] = NoDelete
  BY DEF IInv, CreateInv, NoCall, CallType, OwnInv
<1>2. PICK k \in Keys : k = create.key
  BY <1>1, Zenon
<1>3. PodInv(k)
  BY Zenon DEF EInv
<1>4. del[k].pc # "detach"
  BY <1>1, <1>2 DEF NoDelete
<1>5. ~Had(k, MapReasons) => endpoints[k] = NoEndpoint
  BY <1>1, <1>2, <1>3, <1>4, Zenon DEF PodInv, MapInv
<1> QED BY <1>1, <1>2, <1>3, <1>5, Zenon DEF PodInv, VMInv, AtWork

\* The invariant of the keys.
PodsEInv == \A k \in Keys : PodInv(k)

\* It is enough to look at the key a step is about.
LEMMA OneKey ==
  ASSUME EInv, NEW k \in Keys, Touches(k), PodInv(k)' PROVE PodsEInv'
BY PodFrame, Zenon DEF EInv, PodsEInv, Touches

\* The address of another key is not affected by the end of a call.
LEMMA AbandonElsewhere ==
  ASSUME IInv, create \in CallType, AbandonIP(create) \/ UNCHANGED ipamVars
  PROVE  \A j \in Keys \ {create.key} : byKey'[j] = byKey[j]
BY Zenon DEF IInv, PoolInv, IPAMTypeOK, ipamVars, AbandonIP, Release

\* A call moves its program counter.
LEMMA GotoIs ==
  ASSUME create \in CallType, NEW pc, Goto(pc)
  PROVE  /\ create'.pc = pc /\ create'.key = create.key /\ create'.spec = create.spec
         /\ create'.cs = create.cs /\ create'.adopted = create.adopted
         /\ create'.ip = create.ip /\ create'.addr = create.addr /\ create'.had = create.had
BY Zenon DEF Goto, CallType

-----------------------------------------------------------------------------
(* The parts of the invariant that are not about one key.                  *)

\* Every step but a boot and a recovery is one of the provider while it is up,
\* or of the world around a process whose memory does not change.
InProcess == Up /\ UNCHANGED <<kubelet, toRecover>>
Around == UNCHANGED <<pods, create, del, gos, byKey, kubelet, toRecover, excuse>>

LEMMA StepKinds ==
  ASSUME [Next]_vars
  PROVE  InProcess \/ Around \/ Crash \/ Boot \/ \E k \in Keys : RecoverOne(k)
<1>1. CASE CreateStep
  BY <1>1, Zenon DEF CreateStep, CreateLookup, CreateStartAdopted, CreatePull, CreateVM,
     CreateStart, CreateObserve, CreateAttach, CreateRollback, CreateCommit, At, InProcess
<1>2. ASSUME NEW k \in Keys, CreateUnsupported(k) \/ CreateBegin(k) \/ SyncStatus(k)
      PROVE  InProcess
  BY <1>2, Zenon DEF CreateUnsupported, CreateBegin, SyncStatus, InProcess
<1>3. ASSUME NEW k \in Keys, DeleteStep(k) PROVE InProcess
  BY <1>3, Zenon DEF DeleteStep, DeleteForget, DeleteUnknown, DeleteDetach, DeleteRelease,
     DeleteStop, DeleteDestroy, DeleteCleanup, InProcess
<1>4. ASSUME NEW k \in Keys, NEW f \in {"armed", "late"},
             FailProbeIgnored(k, f) \/ FailProbeRestart(k, f) \/ FailProbeKill(k, f)
      PROVE  InProcess
  BY <1>4, Zenon DEF FailProbeIgnored, FailProbeRestart, FailProbeKill, ProberExits, InProcess
<1>5. ASSUME NEW g \in Slots, GoStep(g) PROVE InProcess
  BY <1>5, Zenon DEF GoStep, RestartWake, RestartDetach, GoStop, GoDestroy, RestartCreate,
     RestartStart, RestartObserve, RestartAttach, RestartFinish, GoAt, InProcess
<1>6. ASSUME NEW k \in Keys,
             Schedule(k) \/ RequestDelete(k) \/ ForceRemove(k) \/ GuestExit(k)
      PROVE  Around
  BY <1>6, Zenon DEF Schedule, RequestDelete, ForceRemove, GuestExit, Around, callVars,
     ipamVars, histVars
<1>7. CASE UNCHANGED vars
  BY <1>7, Zenon DEF vars, Around
<1> QED BY <1>1, <1>2, <1>3, <1>4, <1>5, <1>6, <1>7, Zenon DEF Next

LEMMA NextIdle == ASSUME IInv, EInv, [Next]_vars PROVE IdleInv'
<1>1. CASE InProcess
  BY <1>1 DEF InProcess, Up, IdleInv
<1>2. CASE Around
  BY <1>2, Zenon DEF Around, EInv, IdleInv, Tracked
<1>3. CASE Crash
  BY <1>3, Zenon DEF Crash, IdleInv, Tracked
<1>4. CASE Boot
  BY <1>4, Zenon DEF Boot, callVars, EInv, IdleInv, Tracked
<1>5. ASSUME NEW k \in Keys, RecoverOne(k) PROVE IdleInv'
  BY <1>5, Zenon DEF RecoverOne, callVars, EInv, IdleInv, Tracked
<1> QED BY <1>1, <1>2, <1>3, <1>4, <1>5, StepKinds, Zenon

\* A call that adopted a VM never builds one.
LEMMA NextAdopt == ASSUME IInv, EInv, [Next]_vars PROVE AdoptInv'
<1>1. CASE UNCHANGED create
  BY <1>1, Zenon DEF EInv, AdoptInv
<1>2. CASE create' = NoCall
  BY <1>2 DEF NoCall, AdoptInv
<1>3. ASSUME NEW pc, Goto(pc), create \in CallType, create.adopted => pc = "observe" \/ pc = "commit"
      PROVE  AdoptInv'
  <2>1. create'.pc = pc /\ create'.adopted = create.adopted
    BY <1>3, Zenon DEF Goto, CallType
  <2> QED BY <1>3, <2>1 DEF AdoptInv
<1>4. create.pc # "idle" => create \in CallType
  BY DEF IInv, CreateInv, NoCall
<1>5. CASE CreateStep
  <2>1. ASSUME CreateLookup PROVE AdoptInv'
    <3>1. PICK c \in CallType : c = create
      BY <1>4, <2>1 DEF CreateLookup, At
    <3>2. PICK obs \in VM!Phases \cup {"error"} :
            create' = [c EXCEPT !.adopted = obs \notin {"none", "error"},
                                !.pc = CASE obs \in {"none", "error"} -> "pull"
                                         [] obs = "created"           -> "startAdopted"
                                         [] OTHER                     -> "observe"]
      BY <2>1, <3>1, Zenon DEF CreateLookup
    <3>3. create'.adopted = (obs \notin {"none", "error"})
          /\ create'.pc = CASE obs \in {"none", "error"} -> "pull"
                            [] obs = "created"           -> "startAdopted"
                            [] OTHER                     -> "observe"
      BY <3>2, Zenon DEF CallType
    <3>4. CASE obs \in {"none", "error"}
      BY <3>3, <3>4, Zenon DEF AdoptInv
    <3>5. CASE obs \notin {"none", "error"}
      <4>1. create'.pc \in {"startAdopted", "observe"}
        BY <3>3, <3>5
      <4> QED BY <4>1 DEF AdoptInv
    <3> QED BY <3>4, <3>5, Zenon
  <2>2. CASE CreateStartAdopted
    BY <1>2, <1>3, <1>4, <2>2 DEF CreateStartAdopted, At, Return
  <2>3. CASE CreatePull \/ CreateVM \/ CreateStart \/ CreateRollback
    <3>1. ~create.adopted
      BY <2>3 DEF EInv, AdoptInv, CreatePull, CreateVM, CreateStart, CreateRollback, At
    <3> QED BY <1>2, <1>3, <1>4, <2>3, <3>1
            DEF CreatePull, CreateVM, CreateStart, CreateRollback, At, Return
  <2>4. CASE CreateObserve
    <3>1. PICK c \in CallType : c = create
      BY <1>4, <2>4 DEF CreateObserve, At
    <3>2. CASE create' = [create EXCEPT !.addr = vms[create.key].addr, !.pc = "attach"]
      <4>1. create'.pc = "attach"
        BY <3>1, <3>2, Zenon DEF CallType
      <4> QED BY <4>1 DEF AdoptInv
    <3> QED BY <1>2, <1>3, <1>4, <2>4, <3>1, <3>2 DEF CreateObserve, Unwind, Return
  <2>5. CASE CreateAttach
    BY <1>2, <1>3, <1>4, <2>5 DEF CreateAttach, At, Unwind, Return
  <2>6. CASE CreateCommit
    BY <1>2, <2>6, Zenon DEF CreateCommit, Return
  <2> QED BY <1>5, <2>1, <2>2, <2>3, <2>4, <2>5, <2>6, Zenon DEF CreateStep
<1>6. ASSUME NEW k \in Keys, CreateBegin(k) PROVE AdoptInv'
  <2>1. create' = NoCall \/ ~create'.adopted
    BY <1>6 DEF CreateBegin
  <2> QED BY <1>2, <2>1, Zenon DEF AdoptInv
<1>7. ASSUME NEW k \in Keys, CreateUnsupported(k) \/ DeleteStep(k) \/ SyncStatus(k) PROVE UNCHANGED create
  BY <1>7, Zenon DEF CreateUnsupported, SyncStatus, DeleteStep, DeleteForget, DeleteUnknown,
     DeleteDetach, DeleteRelease, DeleteStop, DeleteDestroy, DeleteCleanup, callVars
<1>8. ASSUME NEW k \in Keys, NEW f \in {"armed", "late"},
             FailProbeIgnored(k, f) \/ FailProbeRestart(k, f) \/ FailProbeKill(k, f)
      PROVE  UNCHANGED create
  BY <1>8, Zenon DEF FailProbeIgnored, FailProbeRestart, FailProbeKill, callVars
<1>9. ASSUME NEW k \in Keys, \/ Schedule(k) \/ RequestDelete(k) \/ ForceRemove(k) \/ GuestExit(k)
                             \/ RecoverOne(k)
      PROVE  UNCHANGED create
  BY <1>9, Zenon DEF Schedule, RequestDelete, ForceRemove, GuestExit, RecoverOne, callVars
<1>10. ASSUME NEW g \in Slots, GoStep(g) PROVE UNCHANGED create
  BY <1>10, Zenon DEF GoStep, RestartWake, RestartDetach, GoStop, GoDestroy, RestartCreate,
     RestartStart, RestartObserve, RestartAttach, RestartFinish, callVars
<1>11. CASE Crash
  BY <1>2, <1>11, Zenon DEF Crash
<1>12. CASE Boot \/ UNCHANGED vars
  BY <1>1, <1>12, Zenon DEF Boot, callVars, vars
<1> QED BY <1>1, <1>5, <1>6, <1>7, <1>8, <1>9, <1>10, <1>11, <1>12, Zenon DEF Next


\* att and new are set by the steps that attach and observe the new VM.
LEMMA NextFlags == ASSUME IInv, EInv, [Next]_vars PROVE FlagsInv'
<1> DEFINE Flags(x) ==
      /\ x.pc \in {"backoff", "detach", "stop", "destroy", "create", "start", "undo",
                   "observe"} => ~x.att /\ ~x.new
      /\ x.pc = "attach" => ~x.att /\ x.new
      /\ x.pc = "finish" /\ x.att => x.new
<1>1. \A g \in Slots : Flags(gos[g])
  BY Zenon DEF EInv, FlagsInv
<1>2. SUFFICES \A g \in Slots : Flags(gos'[g])
  BY Zenon DEF FlagsInv
<1> HIDE DEF Flags
<1>3. Flags(NoGo)
  BY DEF Flags, NoGo
<1>4. CASE UNCHANGED gos
  BY <1>1, <1>4, Zenon
<1>5. ASSUME NEW g, NEW x, gos' = [gos EXCEPT ![g] = x], Flags(x)
      PROVE  \A h \in Slots : Flags(gos'[h])
  BY <1>1, <1>5, Zenon DEF IInv, GosInv
<1>6. ASSUME NEW k, NEW u, NEW pc \in {"backoff", "killStop"}, Spawn(k, u, pc)
      PROVE  \A h \in Slots : Flags(gos'[h])
  <2>1. Flags([pc |-> pc, key |-> k, uid |-> u, stale |-> FALSE, ip |-> NoIP,
               was |-> FALSE, addr |-> NoAddr, att |-> FALSE, new |-> FALSE])
    BY DEF Flags
  <2> QED BY <1>5, <1>6, <2>1, Zenon DEF Spawn
<1>7. ASSUME NEW g \in Slots, GoStep(g) PROVE \A h \in Slots : Flags(gos'[h])
  <2>1. PICK x \in GoType : x = gos[g]
    <3>1. gos[g].pc # "idle"
      BY <1>7 DEF GoStep, RestartWake, RestartDetach, GoStop, GoDestroy, RestartCreate,
         RestartStart, RestartObserve, RestartAttach, RestartFinish, GoAt
    <3> QED BY <3>1 DEF IInv, GosInv, NoGo
  <2>2. Flags(x)
    BY <1>1, <2>1
  <2>3. CASE GoDone(g)
    BY <1>3, <1>5, <2>3, Zenon DEF GoDone
  <2>4. ASSUME NEW pc, GoGoto(g, pc),
               Flags(x) => Flags([x EXCEPT !.pc = pc])
        PROVE  \A h \in Slots : Flags(gos'[h])
    BY <1>5, <2>1, <2>2, <2>4, Zenon DEF GoGoto
  <2>5. ASSUME NEW pc, pc \notin {"attach", "finish"},
               x.pc \in {"backoff", "detach", "stop", "destroy", "create", "start", "undo",
                         "observe"} \/ pc \in {"orphan", "killDestroy"}
        PROVE  Flags([x EXCEPT !.pc = pc])
    <3>1. /\ [x EXCEPT !.pc = pc].pc = pc /\ [x EXCEPT !.pc = pc].att = x.att
          /\ [x EXCEPT !.pc = pc].new = x.new
      BY Zenon DEF GoType
    <3>2. CASE pc \in {"orphan", "killDestroy"}
      BY <3>1, <3>2 DEF Flags
    <3>3. CASE pc \notin {"orphan", "killDestroy"}
      <4>1. ~x.att /\ ~x.new
        BY <2>2, <2>5, <3>3, Zenon DEF Flags
      <4> QED BY <2>5, <3>1, <4>1 DEF Flags
    <3> QED BY <3>2, <3>3, Zenon
  <2>6. CASE RestartWake(g)
    <3>1. ASSUME gos' = [gos EXCEPT ![g].pc = "detach", ![g].uid = pods[gos[g].key].uid,
                            ![g].stale = pods[gos[g].key].uid # gos[g].uid,
                            ![g].ip = pods[gos[g].key].ip, ![g].was = pods[gos[g].key].attached],
                 x.pc = "backoff"
          PROVE  \A h \in Slots : Flags(gos'[h])
      <4>1. PICK y : y = [x EXCEPT !.pc = "detach", !.uid = pods[gos[g].key].uid,
                            !.stale = pods[gos[g].key].uid # gos[g].uid,
                            !.ip = pods[gos[g].key].ip, !.was = pods[gos[g].key].attached]
        BY Zenon
      <4>2. y.pc = "detach" /\ y.att = x.att /\ y.new = x.new
        BY <4>1, Zenon DEF GoType
      <4>3. ~x.att /\ ~x.new
        BY <2>2, <3>1, Zenon DEF Flags
      <4>4. Flags(y)
        BY <4>2, <4>3 DEF Flags
      <4>5. gos' = [gos EXCEPT ![g] = y]
        BY <2>1, <3>1, <4>1, Zenon DEF IInv, GosInv
      <4> QED BY <1>5, <4>4, <4>5, Zenon
    <3> QED BY <2>1, <2>3, <2>6, <3>1, Zenon DEF RestartWake, GoAt
  <2>7. CASE RestartDetach(g)
    <3>1. PICK y : y = [x EXCEPT !.pc = "stop", !.was = FALSE]
      BY Zenon
    <3>2. y.pc = "stop" /\ y.att = x.att /\ y.new = x.new /\ x.pc = "detach"
      BY <2>1, <2>7, <3>1, Zenon DEF GoType, RestartDetach, GoAt
    <3>3. ~x.att /\ ~x.new
      BY <2>2, <3>2, Zenon DEF Flags
    <3>4. Flags(y)
      BY <3>2, <3>3 DEF Flags
    <3>5. gos' = [gos EXCEPT ![g] = y]
      BY <2>1, <2>7, <3>1, Zenon DEF RestartDetach, IInv, GosInv
    <3> QED BY <1>5, <3>4, <3>5, Zenon
  <2>8. CASE GoStop(g)
    <3>1. \/ x.pc = "stop" /\ GoGoto(g, "destroy")
          \/ x.pc = "killStop" /\ GoGoto(g, "killDestroy")
      BY <2>1, <2>8 DEF GoStop
    <3>2. \/ x.pc = "stop" /\ Flags([x EXCEPT !.pc = "destroy"])
          \/ x.pc = "killStop" /\ Flags([x EXCEPT !.pc = "killDestroy"])
      BY <2>5, <3>1
    <3> QED BY <2>4, <3>1, <3>2
  <2>9. ASSUME GoGoto(g, "finish"),
               x.pc \in {"create", "undo"}
        PROVE  \A h \in Slots : Flags(gos'[h])
    <3>1. /\ [x EXCEPT !.pc = "finish"].pc = "finish" /\ [x EXCEPT !.pc = "finish"].att = x.att
      BY Zenon DEF GoType
    <3>2. ~x.att
      BY <2>2, <2>9, Zenon DEF Flags
    <3>3. Flags([x EXCEPT !.pc = "finish"])
      BY <3>1, <3>2 DEF Flags
    <3> QED BY <2>4, <2>9, <3>3, Zenon
  <2>10. CASE GoDestroy(g)
    <3>1. \/ x.pc = "destroy" /\ GoGoto(g, "create")
          \/ x.pc = "undo" /\ GoGoto(g, "finish")
          \/ GoDone(g)
      BY <2>1, <2>10 DEF GoDestroy
    <3>2. x.pc = "destroy" => Flags([x EXCEPT !.pc = "create"])
      BY <2>5
    <3> QED BY <2>3, <2>4, <2>9, <3>1, <3>2
  <2>11. CASE RestartCreate(g)
    <3>1. x.pc = "create" /\ (GoGoto(g, "start") \/ GoGoto(g, "finish"))
      BY <2>1, <2>11, Zenon DEF RestartCreate, GoAt
    <3>2. Flags([x EXCEPT !.pc = "start"])
      BY <2>5, <3>1
    <3> QED BY <2>4, <2>9, <3>1, <3>2
  <2>12. CASE RestartStart(g)
    <3>1. x.pc = "start" /\ (GoGoto(g, "observe") \/ GoGoto(g, "undo"))
      BY <2>1, <2>12, Zenon DEF RestartStart, GoAt
    <3>2. Flags([x EXCEPT !.pc = "observe"]) /\ Flags([x EXCEPT !.pc = "undo"])
      BY <2>5, <3>1
    <3> QED BY <2>4, <3>1, <3>2
  <2>13. CASE RestartObserve(g)
    <3>1. PICK a : \/ gos' = [gos EXCEPT ![g].pc = "attach", ![g].new = TRUE, ![g].addr = a]
                   \/ gos' = [gos EXCEPT ![g].pc = "finish", ![g].new = TRUE]
      BY <2>13, Zenon DEF RestartObserve
    <3>2. PICK y : /\ gos' = [gos EXCEPT ![g] = y]
                   /\ \/ y = [x EXCEPT !.pc = "attach", !.new = TRUE, !.addr = a]
                      \/ y = [x EXCEPT !.pc = "finish", !.new = TRUE]
      BY <2>1, <3>1, Zenon DEF IInv, GosInv
    <3>3. y.pc \in {"attach", "finish"} /\ y.att = x.att /\ y.new = TRUE
      BY <3>2, Zenon DEF GoType
    <3>4. ~x.att
      BY <2>1, <2>2, <2>13, Zenon DEF Flags, RestartObserve, GoAt
    <3>5. Flags(y)
      BY <3>3, <3>4 DEF Flags
    <3> QED BY <1>5, <3>2, <3>5, Zenon
  <2>14. CASE RestartAttach(g)
    <3>1. PICK y : /\ gos' = [gos EXCEPT ![g] = y]
                   /\ \/ y = [x EXCEPT !.pc = "finish", !.att = TRUE, !.ip = NoIP, !.addr = NoAddr]
                      \/ y = [x EXCEPT !.pc = "finish", !.ip = NoIP, !.addr = NoAddr]
      BY <2>1, <2>14, Zenon DEF RestartAttach, IInv, GosInv
    <3>2. y.pc = "finish" /\ y.new = x.new
      BY <3>1, Zenon DEF GoType
    <3>3. x.new
      BY <2>1, <2>2, <2>14, Zenon DEF Flags, RestartAttach, GoAt
    <3>4. Flags(y)
      BY <3>2, <3>3 DEF Flags
    <3> QED BY <1>5, <3>1, <3>4, Zenon
  <2>15. CASE RestartFinish(g)
    <3>1. GoDone(g) \/ GoGoto(g, "orphan")
      BY <2>15, Zenon DEF RestartFinish, OrphanReaped
    <3>2. Flags([x EXCEPT !.pc = "orphan"])
      BY <2>5
    <3> QED BY <2>3, <2>4, <3>1, <3>2
  <2> QED BY <1>7, <2>6, <2>7, <2>8, <2>10, <2>11, <2>12, <2>13, <2>14, <2>15, Zenon DEF GoStep
<1>8. CASE CreateStep
  <2>1. UNCHANGED gos \/ \E k, u : Spawn(k, u, "backoff")
    BY <1>8, Zenon DEF CreateStep, CreateLookup, CreateStartAdopted, CreatePull, CreateVM,
       CreateStart, CreateObserve, CreateAttach, CreateRollback, CreateCommit
  <2> QED BY <1>4, <1>6, <2>1
<1>9. ASSUME NEW k \in Keys, CreateUnsupported(k) \/ CreateBegin(k) \/ DeleteStep(k) PROVE UNCHANGED gos
  BY <1>9, Zenon DEF CreateUnsupported, CreateBegin, DeleteStep, DeleteForget, DeleteUnknown,
     DeleteDetach, DeleteRelease, DeleteStop, DeleteDestroy, DeleteCleanup
<1>10. ASSUME NEW k \in Keys, SyncStatus(k) PROVE \A h \in Slots : Flags(gos'[h])
  <2>1. UNCHANGED gos \/ \E u : Spawn(k, u, "backoff")
    BY <1>10, Zenon DEF SyncStatus
  <2> QED BY <1>4, <1>6, <2>1
<1>11. ASSUME NEW k \in Keys, NEW f \in {"armed", "late"},
              FailProbeIgnored(k, f) \/ FailProbeRestart(k, f) \/ FailProbeKill(k, f)
       PROVE  \A h \in Slots : Flags(gos'[h])
  <2>1. UNCHANGED gos \/ \E u : Spawn(k, u, "backoff") \/ Spawn(k, u, "killStop")
    BY <1>11, Zenon DEF FailProbeIgnored, FailProbeRestart, FailProbeKill
  <2> QED BY <1>4, <1>6, <2>1
<1>12. ASSUME NEW k \in Keys, \/ Schedule(k) \/ RequestDelete(k) \/ ForceRemove(k) \/ GuestExit(k)
                              \/ RecoverOne(k)
       PROVE  UNCHANGED gos
  BY <1>12, Zenon DEF Schedule, RequestDelete, ForceRemove, GuestExit, RecoverOne
<1>13. CASE Crash
  BY <1>3, <1>13, Zenon DEF Crash
<1>14. CASE Boot \/ UNCHANGED vars
  BY <1>4, <1>14, Zenon DEF Boot, vars
<1> QED BY <1>4, <1>7, <1>8, <1>9, <1>10, <1>11, <1>12, <1>13, <1>14, Zenon DEF Next

-----------------------------------------------------------------------------
(* The address the API server shows.                                       *)

\* A step of the provider in which only the API server's record of k changes,
\* and only reasons that do not concern recovery are added.
Unlisted(k) ==
  /\ excuse[k] \subseteq excuse'[k]
  /\ "listFailed" \in excuse'[k] => "listFailed" \in excuse[k]

ApiKept == UNCHANGED api /\ \A k \in Keys : Unlisted(k)

\* What k is shown with stays what it has and holds.
KeepsShown(k) ==
  /\ \/ Tracked(k)' /\ pods'[k].wl => Tracked(k) /\ pods[k].wl /\ pods'[k].ip = pods[k].ip
     \/ pods'[k].ip = api[k].ip
  /\ create'.key = k => create'.ip = api[k].ip /\ create'.had
  /\ byKey'[k] = byKey[k] \/ api[k].state # "present"

LEMMA ShownKept ==
  ASSUME EInv, InProcess, ApiKept, \A k \in Keys : ShownAt(k) /\ Shows(k) => KeepsShown(k)
  PROVE  ShownInv'
<1>1. \A k \in Keys : Shows(k)' => Shows(k)
  BY Zenon DEF ApiKept, Unlisted, Shows, Had
<1>2. ShownInv /\ kubelet' = "up" /\ toRecover' = {} /\ Up
  BY Zenon DEF EInv, InProcess, Up
<1>3. ASSUME NEW k \in Keys, Shows(k)' PROVE ShownAt(k)'
  <2>1. Shows(k) /\ ShownAt(k)
    BY <1>1, <1>2, <1>3, Zenon DEF ShownInv
  <2>2. KeepsShown(k) /\ api'[k] = api[k]
    BY <2>1, Zenon DEF ApiKept
  <2>3. Tracked(k)' /\ pods'[k].wl => pods'[k].ip = api'[k].ip
    BY <2>1, <2>2, Zenon DEF KeepsShown, ShownAt
  <2>4. create'.key = k => create'.ip = api'[k].ip /\ create'.had
    BY <2>2, Zenon DEF KeepsShown
  <2>5. api'[k].state = "present" => byKey'[k] = api'[k].ip
    BY <1>2, <2>1, <2>2, Zenon DEF KeepsShown, ShownAt, Up
  <2> QED BY <2>3, <2>4, <2>5, Zenon DEF ShownAt
<1>4. \A k \in Keys : ShownAt(k)'
  BY <1>3, Zenon DEF ShownAt
<1>5. ShownApart'
  BY <1>1, <1>2, Zenon DEF ShownInv, ShownApart, ApiKept
<1>6. Recovering'
  BY <1>2 DEF Recovering
<1>7. ListInv'
  BY <1>2, Zenon DEF ShownInv, ListInv, ApiKept, Unlisted
<1> QED BY <1>4, <1>5, <1>6, <1>7, Zenon DEF ShownInv

\* The reasons a provider's step may add.
LEMMA Unlists ==
  ASSUME IInv, NEW k \in Keys, NEW why, why # "listFailed", UNCHANGED excuse \/ Excuse(k, why)
  PROVE  \A j \in Keys : Unlisted(j)
<1>1. \A j \in Keys \ {k} : excuse'[j] = excuse[j]
  BY ExcuseAt, Zenon
<1>2. excuse'[k] = excuse[k] \/ excuse'[k] = excuse[k] \cup {why}
  BY Zenon DEF Excuse, IInv, NodeInv
<1> QED BY <1>1, <1>2, Zenon DEF Unlisted

\* Nothing that concerns addresses changes.
LEMMA SameShown ==
  ASSUME NEW k \in Keys, create'.key = k => create' = create, byKey'[k] = byKey[k],
         Tracked(k)' /\ pods'[k].wl => Tracked(k) /\ pods[k].wl /\ pods'[k].ip = pods[k].ip
  PROVE  ShownAt(k) /\ Shows(k) => KeepsShown(k)
BY Zenon DEF ShownAt, KeepsShown

\* The pods map after a change of one record.
LEMMA PodsShown ==
  ASSUME IInv, NEW k \in Keys, NEW x, UNCHANGED pods \/ pods' = [pods EXCEPT ![k] = x],
         pods' # pods => x = NoPod \/ ~x.wl \/ (Tracked(k) /\ x.wl = pods[k].wl /\ x.ip = pods[k].ip)
  PROVE  \A j \in Keys :
           Tracked(j)' /\ pods'[j].wl => Tracked(j) /\ pods[j].wl /\ pods'[j].ip = pods[j].ip
<1>1. CASE UNCHANGED pods
  BY <1>1, Zenon DEF Tracked
<1>2. ASSUME pods' # pods PROVE pods'[k] = x /\ \A j \in Keys \ {k} : pods'[j] = pods[j]
  BY <1>2, Zenon DEF IInv, PodsInv
<1> QED BY <1>1, <1>2, Zenon DEF Tracked


\* A call that goes on, or gives up: what it found reserved stays.
LEMMA CallShown ==
  ASSUME IInv, EInv, InProcess, ApiKept, create \in CallType,
         create' = NoCall \/ (create'.key = create.key /\ create'.ip = create.ip
                                /\ create'.had = create.had),
         AbandonIP(create) \/ UNCHANGED ipamVars,
         \A j \in Keys :
           Tracked(j)' /\ pods'[j].wl => Tracked(j) /\ pods[j].wl /\ pods'[j].ip = pods[j].ip
  PROVE  ShownInv'
<1>1. \A j \in Keys \ {create.key} : byKey'[j] = byKey[j]
  BY AbandonElsewhere, Zenon
<1>2. create.had => UNCHANGED byKey
  BY Zenon DEF AbandonIP, ipamVars
<1>3. \A j \in Keys : NoCall.key # j
  BY LifecycleAssumption DEF NoCall
<1>4. ASSUME NEW k \in Keys, ShownAt(k), Shows(k) PROVE KeepsShown(k)
  <2>1. create.key = k => create.ip = api[k].ip /\ create.had
    BY <1>4, Zenon DEF ShownAt
  <2>2. create'.key = k => create.key = k /\ create'.ip = create.ip /\ create'.had = create.had
    BY <1>3, Zenon
  <2>3. byKey'[k] = byKey[k]
    BY <1>1, <1>2, <2>1, Zenon
  <2> QED BY <2>1, <2>2, <2>3, Zenon DEF KeepsShown
<1> QED BY <1>4, ShownKept, Zenon

LEMMA CreateShown ==
  ASSUME IInv, EInv, CreateStep, ~CreateCommit PROVE ShownInv'
<1> USE DEF At
<1>1. InProcess /\ UNCHANGED api
  BY Zenon DEF CreateStep, CreateLookup, CreateStartAdopted, CreatePull, CreateVM,
     CreateStart, CreateObserve, CreateAttach, CreateRollback, InProcess
<1>2. create.pc # "idle"
  BY DEF CreateStep, CreateLookup, CreateStartAdopted, CreatePull, CreateVM,
     CreateStart, CreateObserve, CreateAttach, CreateRollback
<1>3. create \in CallType
  BY <1>2 DEF IInv, CreateInv, NoCall
<1>4. PICK c \in CallType : c = create
  BY <1>3, Zenon
<1>5. PICK k \in Keys : k = create.key
  BY <1>3, Zenon DEF CallType
<1>6. \E why : why # "listFailed" /\ (UNCHANGED excuse \/ Excuse(k, why))
  <2>1. UNCHANGED excuse \/ Excuse(k, "loadFailed") \/ Excuse(k, "destroyFailed")
    BY <1>5, Zenon DEF CreateStep, CreateLookup, CreateStartAdopted, CreatePull, CreateVM,
       CreateStart, CreateObserve, CreateAttach, CreateRollback, AttachOK, AttachFails, Destroys
  <2> QED BY <2>1
<1>7. ApiKept
  BY <1>1, <1>6, Unlists, Zenon DEF ApiKept
<1>8. \A pc : Goto(pc) => create'.key = create.key /\ create'.ip = create.ip /\ create'.had = create.had
  BY <1>3, GotoIs, Zenon
<1>9. create' = NoCall \/ (create'.key = create.key /\ create'.ip = create.ip
                             /\ create'.had = create.had)
  <2>1. CASE CreateLookup
    <3>1. PICK b, pc : create' = [c EXCEPT !.adopted = b, !.pc = pc]
      BY <1>4, <2>1, Zenon DEF CreateLookup
    <3> QED BY <1>4, <3>1, Zenon DEF CallType
  <2>2. CASE CreateObserve
    <3>1. ASSUME NEW a, create' = [c EXCEPT !.addr = a, !.pc = "attach"]
          PROVE  create'.key = c.key /\ create'.ip = c.ip /\ create'.had = c.had
      BY <3>1, Zenon DEF CallType
    <3> QED BY <1>4, <1>8, <2>2, <3>1, Zenon DEF CreateObserve, Unwind, Return
  <2> QED BY <1>8, <2>1, <2>2, Zenon DEF CreateStep, CreateStartAdopted, CreatePull, CreateVM,
          CreateStart, CreateAttach, CreateRollback, Unwind, Return
<1>10. AbandonIP(create) \/ UNCHANGED ipamVars
  BY Zenon DEF CreateStep, CreateLookup, CreateStartAdopted, CreatePull, CreateVM,
     CreateStart, CreateObserve, CreateAttach, CreateRollback, Unwind
<1>11. \E x : /\ UNCHANGED pods \/ pods' = [pods EXCEPT ![k] = x]
              /\ pods' # pods => ~x.wl
  <2>1. UNCHANGED pods \/ pods' = [pods EXCEPT ![k] = TerminalPod(create.uid)]
    BY <1>5, Zenon DEF CreateStep, CreateLookup, CreateStartAdopted, CreatePull, CreateVM,
       CreateStart, CreateObserve, CreateAttach, CreateRollback
  <2>2. ~TerminalPod(create.uid).wl
    BY DEF TerminalPod
  <2> QED BY <2>1, <2>2, Zenon
<1>12. \A j \in Keys :
         Tracked(j)' /\ pods'[j].wl => Tracked(j) /\ pods[j].wl /\ pods'[j].ip = pods[j].ip
  BY <1>11, PodsShown, Zenon
<1> QED BY <1>1, <1>3, <1>7, <1>9, <1>10, <1>12, CallShown, Zenon

-----------------------------------------------------------------------------
(* The invariant of one key: calls, statuses and probers.                 *)

\* lookupWorkload.
LEMMA LookupPods == ASSUME IInv, EInv, CreateLookup PROVE PodsEInv'
<1>1. create.pc = "lookup"
  BY Zenon DEF CreateLookup, At
<1>2. PICK k \in Keys : AtWork(k)
  BY <1>1, CallKey
<1> USE DEF AtWork
<1>3. PICK obs \in VM!Phases \cup {"error"} :
        /\ Observes(k, obs)
        /\ create' = [create EXCEPT
             !.adopted = obs \notin {"none", "error"},
             !.pc = CASE obs \in {"none", "error"} -> "pull"
                      [] obs = "created"           -> "startAdopted"
                      [] OTHER                     -> "observe"]
  BY <1>2, Zenon DEF CreateLookup
<1>4. UNCHANGED <<api, pods, del, gos, vms, endpoints, excuse, byKey>>
  BY Zenon DEF CreateLookup, ipamVars
<1>5. /\ create'.key = k /\ create'.spec = create.spec /\ create'.cs = create.cs
      /\ create'.pc \in {"pull", "startAdopted", "observe"}
      /\ create'.adopted <=> obs \notin {"none", "error"}
      /\ obs \in {"none", "error"} => create'.pc = "pull"
  <2> DEFINE pc == CASE obs \in {"none", "error"} -> "pull"
                     [] obs = "created"           -> "startAdopted"
                     [] OTHER                     -> "observe"
             ad == obs \notin {"none", "error"}
  <2>1. pc \in {"pull", "startAdopted", "observe"} /\ (obs \in {"none", "error"} => pc = "pull")
    BY Zenon
  <2>2. create' = [create EXCEPT !.adopted = ad, !.pc = pc]
    BY <1>3, Zenon
  <2> HIDE DEF pc
  <2> QED BY <1>2, <2>1, <2>2, Zenon DEF CallType
<1>6. ~Had(k, VMReasons) => obs \in {"none", "error"}
  BY <1>1, <1>2, <1>3 DEF Observes, VM!Exists
<1>7. PodInv(k)'
  <2>1. \A R : Had(k, R)' <=> Had(k, R)
    BY <1>4, Zenon DEF Had
  <2>2. VM!Exists(k)' <=> VM!Exists(k)
    BY <1>4, Zenon DEF VM!Exists
  <2>3. endpoints'[k] = endpoints[k] /\ excuse[k] \subseteq excuse'[k]
    BY <1>4, Zenon
  <2>4. create'.pc \notin {"attach", "commit"}
    BY <1>5
  <2>5. ~Had(k, VMReasons)' =>
           /\ ~create'.adopted /\ create'.pc # "startAdopted"
           /\ create'.pc \in {"lookup", "pull", "create"} => ~VM!Exists(k)'
    BY <1>1, <1>2, <1>5, <1>6, <2>1, <2>2
  <2> QED BY <1>2, <1>4, <1>5, <2>1, <2>3, <2>4, <2>5, CallGoesOn, Zenon
<1>8. Touches(k)
  BY <1>2, <1>4, <1>5, CallTouches, SameWorkAll, Zenon
<1> QED BY <1>7, <1>8, OneKey, Zenon

\* Steps of a call in which nothing but the VM, the router and the address
\* changes: the call goes on or gives up.
LEMMA CallPods ==
  ASSUME IInv, EInv, NEW k \in Keys, AtWork(k), NEW u, NEW why,
         UNCHANGED <<api, pods, del, gos>>,
         UNCHANGED vms \/ VM!Create(k, u) \/ VM!Start(k) \/ VM!Destroy(k),
         \A j \in Keys \ {k} : endpoints'[j] = endpoints[j],
         UNCHANGED excuse \/ Excuse(k, why),
         AbandonIP(create) \/ UNCHANGED ipamVars,
         \/ /\ Return
            /\ ~Had(k, VMReasons)' => ~VM!Exists(k)'
            /\ ~Had(k, MapReasons)' => endpoints'[k] = NoEndpoint
         \/ /\ create'.key = k /\ create'.spec = create.spec /\ create'.cs = create.cs
            /\ ~Had(k, VMReasons)' =>
                 /\ ~create'.adopted /\ create'.pc # "startAdopted"
                 /\ create'.pc \in {"lookup", "pull", "create"} => ~VM!Exists(k)'
            /\ ~Had(k, MapReasons)' =>
                 /\ create'.pc # "commit" => endpoints'[k] = NoEndpoint
                 /\ create'.pc = "commit" =>
                      endpoints'[k] = [ip |-> create'.ip, addr |-> create'.addr]
            /\ ~Had(k, AddrReasons)' /\ create'.pc \in {"attach", "commit"} =>
                 Current(k, create.addr)'
  PROVE  PodsEInv'
<1>1. excuse[k] \subseteq excuse'[k] /\ \A j \in Keys \ {k} : excuse'[j] = excuse[j]
  BY ExcuseAt, Zenon
<1>2. PodInv(k)'
  BY <1>1, CallGoesOn, CallGivesUp, Zenon DEF AtWork
<1>3. create'.key = k \/ create' = NoCall
  BY Zenon DEF Return
<1>4. \A j \in Keys \ {k} : vms'[j] = vms[j] /\ byKey'[j] = byKey[j] /\ pods'[j] = pods[j]
                            /\ SameWork(j)
  BY VMsElsewhere, AbandonElsewhere, SameWorkAll, Zenon DEF AtWork
<1>5. Touches(k)
  BY <1>1, <1>3, <1>4, CallTouches, Zenon DEF AtWork
<1> QED BY <1>2, <1>5, OneKey, Zenon

\* Starting an adopted VM.
LEMMA StartAdoptedPods == ASSUME IInv, EInv, CreateStartAdopted PROVE PodsEInv'
<1>1. create.pc = "startAdopted"
  BY Zenon DEF CreateStartAdopted, At
<1>2. PICK k \in Keys : AtWork(k)
  BY <1>1, CallKey
<1>3. UNCHANGED <<api, pods, del, gos, endpoints, excuse>>
  BY Zenon DEF CreateStartAdopted
<1>4. Had(k, VMReasons) /\ Had(k, VMReasons)'
  BY <1>1, <1>2, <1>3, Zenon DEF AtWork, Had, VMReasons
<1>5. ~Had(k, MapReasons)' => endpoints'[k] = NoEndpoint
  BY <1>2, <1>3, Zenon DEF AtWork, Had, MapReasons, NoEndpoint, NoIP, NoAddr
<1>6. \/ Goto("observe") /\ VM!Start(k) /\ UNCHANGED ipamVars
      \/ Return /\ AbandonIP(create) /\ UNCHANGED vms
  BY <1>2, Zenon DEF CreateStartAdopted, AtWork
<1>7. Goto("observe") =>
        create'.pc = "observe" /\ create'.key = k /\ create'.spec = create.spec
        /\ create'.cs = create.cs
  BY <1>2, GotoIs, Zenon DEF AtWork
<1> QED BY <1>2, <1>3, <1>4, <1>5, <1>6, <1>7, CallPods

\* A Pod that can never run enters the map.
LEMMA TerminalEnters ==
  ASSUME NEW k \in Keys, PodInv(k), NEW u, pods'[k] = TerminalPod(u), ~Tracked(k),
         del[k] = NoDelete, create'.key # k,
         api[k].state # "absent", api[k].spec \in {"Unsupported", "WrongArch"},
         UNCHANGED <<api, del, gos, vms, endpoints>>, excuse[k] \subseteq excuse'[k],
         ~Had(k, VMReasons)' => ~VM!Exists(k) /\ \A g \in Slots : gos[g].key # k,
         ~Had(k, MapReasons) => endpoints[k] = NoEndpoint
  PROVE  PodInv(k)'
<1>1. \A R : Had(k, R) => Had(k, R)'
  BY HadGrows, Zenon
<1>2. /\ Tracked(k)' /\ pods'[k].policy = "none" /\ pods'[k].terminal /\ ~pods'[k].wl
      /\ ~pods'[k].attached
  BY DEF TerminalPod, Tracked, NoPod
<1>3. del'[k].pc = "idle"
  BY DEF NoDelete
<1>4. OutInv(k)'
  BY <1>2, Zenon DEF OutInv
<1>5. SpecInv(k)'
  BY <1>2, <1>3 DEF PodInv, SpecInv
<1>6. VMInv(k)'
  BY <1>2, Zenon DEF VMInv, VM!Exists
<1>7. ~Had(k, MapReasons)' => \A g \in Slots : ~Works(g, k) /\ ~Works(g, k)'
  BY <1>1, Zenon DEF PodInv, OutInv, Works, Had, MapReasons
<1>8. MapInv(k)'
  <2> SUFFICES ASSUME ~Had(k, MapReasons)' PROVE MapInv(k)'
    BY Zenon DEF MapInv
  <2>1. endpoints'[k] = NoEndpoint
    BY <1>1, Zenon
  <2>2. Mapped(k)'
    BY <1>2, <2>1 DEF Mapped, NoEndpoint
  <2> QED BY <1>2, <1>3, <1>7, <2>2, Zenon DEF MapInv
<1>9. AddrInv(k)'
  <2> SUFFICES ASSUME ~Had(k, AddrReasons)'
               PROVE  AddrInv(k)'
    BY Zenon DEF AddrInv
  <2>1. ~Had(k, MapReasons)'
    BY Zenon DEF Had, MapReasons, AddrReasons
  <2> QED BY <1>2, <1>7, <2>1, Zenon DEF AddrInv, Reached
<1> QED BY <1>4, <1>5, <1>6, <1>8, <1>9, Zenon DEF PodInv

\* Pull: on to Create, an error, or an image of another architecture.
LEMMA PullPods == ASSUME IInv, EInv, CreatePull PROVE PodsEInv'
<1>1. create.pc = "pull"
  BY Zenon DEF CreatePull, At
<1>2. PICK k \in Keys : AtWork(k)
  BY <1>1, CallKey
<1>3. UNCHANGED <<api, del, gos, vms, endpoints, excuse>>
  BY Zenon DEF CreatePull
<1>4. /\ ~Had(k, VMReasons) => ~VM!Exists(k) /\ ~create.adopted
      /\ Had(k, VMReasons)' <=> Had(k, VMReasons)
      /\ Had(k, MapReasons)' <=> Had(k, MapReasons)
      /\ VM!Exists(k)' <=> VM!Exists(k)
  BY <1>1, <1>2, <1>3, Zenon DEF AtWork, Had, VMReasons, MapReasons, VM!Exists
<1>5. ~Had(k, MapReasons)' => endpoints'[k] = NoEndpoint
  BY <1>2, <1>3, <1>4, Zenon DEF AtWork, NoEndpoint, NoIP, NoAddr
<1>6. CASE Goto("create") /\ UNCHANGED <<pods, ipamVars>>
  <2>1. /\ create'.pc = "create" /\ create'.key = k /\ create'.spec = create.spec
        /\ create'.cs = create.cs /\ create'.adopted = create.adopted
    BY <1>2, <1>6, GotoIs, Zenon DEF AtWork
  <2> QED BY <1>2, <1>3, <1>4, <1>5, <1>6, <2>1, CallPods
<1>7. CASE AbandonIP(create) /\ Return /\ UNCHANGED pods
  BY <1>2, <1>3, <1>4, <1>5, <1>7, CallPods
<1>8. CASE /\ create.spec = "WrongArch" /\ AbandonIP(create) /\ Return
           /\ pods' = [pods EXCEPT ![create.key] = TerminalPod(create.uid)]
  <2>1. pods'[k] = TerminalPod(create.uid) /\ \A j \in Keys \ {k} : pods'[j] = pods[j]
    BY <1>2, <1>8, Zenon DEF AtWork, IInv, PodsInv
  <2>2. create'.key # k /\ create' = NoCall
    BY <1>8, LifecycleAssumption DEF Return, NoCall
  <2>3. api[k].state # "absent" /\ api[k].spec = "WrongArch"
    BY <1>2, <1>8, Zenon DEF AtWork, PodInv, SpecInv
  <2>4. ~Had(k, VMReasons)' => ~VM!Exists(k) /\ \A g \in Slots : gos[g].key # k
    BY <1>2, <1>4, Zenon DEF AtWork, PodInv, VMInv
  <2>5. PodInv(k)'
    BY <1>2, <1>3, <2>1, <2>2, <2>3, <2>4, TerminalEnters, Zenon DEF AtWork
  <2>6. Touches(k)
    BY <1>2, <1>3, <1>8, <2>1, <2>2, CallTouches, SameWorkAll, AbandonElsewhere, Zenon
       DEF AtWork
  <2> QED BY <2>5, <2>6, OneKey, Zenon
<1> QED BY <1>6, <1>7, <1>8, Zenon DEF CreatePull

\* Create and Start.
LEMMA BuildPods == ASSUME IInv, EInv, CreateVM \/ CreateStart PROVE PodsEInv'
<1>1. create.pc \in {"create", "start"}
  BY Zenon DEF CreateVM, CreateStart, At
<1>2. PICK k \in Keys : AtWork(k)
  BY <1>1, CallKey
<1>3. UNCHANGED <<api, pods, del, gos, endpoints, excuse>>
  BY Zenon DEF CreateVM, CreateStart
<1>4. /\ ~Had(k, VMReasons)' => ~create.adopted /\ (create.pc = "create" => ~VM!Exists(k))
      /\ ~Had(k, MapReasons)' => endpoints'[k] = NoEndpoint
  BY <1>2, <1>3, Zenon
     DEF AtWork, Had, VMReasons, MapReasons, VM!Exists, NoEndpoint, NoIP, NoAddr
<1>5. \/ VM!Create(k, create.uid) /\ Goto("start") /\ UNCHANGED ipamVars
      \/ create.pc = "create" /\ AbandonIP(create) /\ Return /\ UNCHANGED vms
      \/ VM!Start(k) /\ Goto("observe") /\ UNCHANGED ipamVars
      \/ Goto("rollback") /\ UNCHANGED <<ipamVars, vms>>
  BY <1>2, Zenon DEF AtWork, CreateVM, CreateStart, At
<1>6. UNCHANGED vms => (VM!Exists(k)' <=> VM!Exists(k))
  BY Zenon DEF VM!Exists
<1>7. ASSUME NEW pc \in {"start", "observe", "rollback"}, Goto(pc)
      PROVE  /\ create'.pc = pc /\ create'.key = k /\ create'.spec = create.spec
             /\ create'.cs = create.cs /\ create'.adopted = create.adopted
  BY <1>2, <1>7, GotoIs, Zenon DEF AtWork
<1> QED BY <1>2, <1>3, <1>4, <1>5, <1>6, <1>7, CallPods

\* Unwinding a call: an adopted VM is in nobody's way, a new one is rolled
\* back.
LEMMA UnwindPods ==
  ASSUME IInv, EInv, NEW k \in Keys, AtWork(k), NEW why, Unwind,
         UNCHANGED <<api, pods, del, gos, vms>>, UNCHANGED excuse \/ Excuse(k, why),
         \A j \in Keys \ {k} : endpoints'[j] = endpoints[j],
         ~Had(k, MapReasons)' => endpoints'[k] = NoEndpoint
  PROVE  PodsEInv'
<1>1. \A R : Had(k, R) => Had(k, R)'
  BY ExcuseAt, HadGrows, Zenon
<1>2. CASE create.adopted
  BY <1>1, <1>2, CallPods, Zenon DEF Unwind, AtWork
<1>3. CASE ~create.adopted
  <2>1. Goto("rollback") /\ UNCHANGED ipamVars
    BY <1>3, Zenon DEF Unwind
  <2>2. /\ create'.pc = "rollback" /\ create'.key = k /\ create'.spec = create.spec
        /\ create'.cs = create.cs /\ create'.adopted = create.adopted
    BY <2>1, GotoIs, Zenon DEF AtWork
  <2> QED BY <1>3, <2>1, <2>2, CallPods
<1> QED BY <1>2, <1>3, Zenon

\* observeVMIP.
LEMMA ObservePods == ASSUME IInv, EInv, CreateObserve PROVE PodsEInv'
<1>1. create.pc = "observe"
  BY Zenon DEF CreateObserve, At
<1>2. PICK k \in Keys : AtWork(k)
  BY <1>1, CallKey
<1>3. UNCHANGED <<api, pods, del, gos, vms, endpoints, excuse>>
  BY Zenon DEF CreateObserve
<1>4. /\ ~Had(k, VMReasons)' => ~create.adopted
      /\ ~Had(k, MapReasons)' => endpoints'[k] = NoEndpoint
  BY <1>2, <1>3, Zenon
     DEF AtWork, Had, VMReasons, MapReasons, NoEndpoint, NoIP, NoAddr
<1>5. CASE Unwind
  BY <1>2, <1>3, <1>4, <1>5, UnwindPods, Zenon
<1>6. CASE /\ create' = [create EXCEPT !.addr = vms[create.key].addr, !.pc = "attach"]
           /\ UNCHANGED ipamVars
  <2>1. /\ create'.pc = "attach" /\ create'.key = k /\ create'.spec = create.spec
        /\ create'.cs = create.cs /\ create'.adopted = create.adopted
        /\ create'.addr = vms[k].addr
    BY <1>2, <1>6, Zenon DEF AtWork, CallType
  <2>2. Current(k, create.addr)'
    BY <1>3, <2>1, Zenon DEF Current
  <2> QED BY <1>2, <1>3, <1>4, <1>6, <2>1, <2>2, CallPods
<1> QED BY <1>5, <1>6, Zenon DEF CreateObserve

\* Attach changes the mapping of one Pod.
LEMMA AttachAt ==
  ASSUME IInv, NEW k \in Keys, NEW ip, NEW addr, AttachOK(k, ip, addr) \/ AttachFails(k, ip, addr)
  PROVE  /\ \A j \in Keys \ {k} : endpoints'[j] = endpoints[j]
         /\ AttachOK(k, ip, addr) =>
              endpoints'[k] = [ip |-> ip, addr |-> addr] /\ UNCHANGED excuse
         /\ AttachFails(k, ip, addr) =>
              \/ endpoints'[k] = endpoints[k] /\ UNCHANGED excuse
              \/ Excuse(k, "loadFailed") /\ "loadFailed" \in excuse'[k]
<1>1. Excuse(k, "loadFailed") => "loadFailed" \in excuse'[k]
  BY ExcuseAt, Zenon
<1> QED BY <1>1, Zenon DEF AttachOK, AttachFails, IInv, EndpointsInv

\* Attach, before the commit.
LEMMA AttachPods == ASSUME IInv, EInv, CreateAttach PROVE PodsEInv'
<1>1. create.pc = "attach"
  BY Zenon DEF CreateAttach, At
<1>2. PICK k \in Keys : AtWork(k)
  BY <1>1, CallKey
<1>3. UNCHANGED <<api, pods, del, gos, vms>>
  BY Zenon DEF CreateAttach
<1>4. CASE AttachFails(k, create.ip, create.addr) /\ Unwind
  <2>1. UNCHANGED excuse \/ Excuse(k, "loadFailed")
    BY <1>4, AttachAt, Zenon
  <2>2. ~Had(k, MapReasons)' => endpoints'[k] = NoEndpoint
    <3>1. CASE endpoints'[k] = endpoints[k] /\ UNCHANGED excuse
      BY <1>2, <3>1, Zenon DEF AtWork, Had
    <3>2. CASE "loadFailed" \in excuse'[k]
      BY <3>2, Zenon DEF Had, MapReasons
    <3> QED BY <1>4, <3>1, <3>2, AttachAt, Zenon
  <2>3. \A j \in Keys \ {k} : endpoints'[j] = endpoints[j]
    BY <1>4, AttachAt, Zenon
  <2> QED BY <1>2, <1>3, <1>4, <2>1, <2>2, <2>3, UnwindPods, Zenon
<1>5. CASE AttachOK(k, create.ip, create.addr) /\ Goto("commit") /\ UNCHANGED ipamVars
  <2>1. /\ create'.pc = "commit" /\ create'.key = k /\ create'.spec = create.spec
        /\ create'.cs = create.cs /\ create'.adopted = create.adopted
        /\ create'.ip = create.ip /\ create'.addr = create.addr
    BY <1>2, <1>5, GotoIs, Zenon DEF AtWork
  <2>2. /\ \A j \in Keys \ {k} : endpoints'[j] = endpoints[j]
        /\ endpoints'[k] = [ip |-> create'.ip, addr |-> create'.addr] /\ UNCHANGED excuse
    <3>1. endpoints'[k] = [ip |-> create.ip, addr |-> create.addr]
      BY <1>5 DEF AttachOK, IInv, EndpointsInv
    <3>2. /\ \A j \in Keys \ {k} : endpoints'[j] = endpoints[j]
          /\ UNCHANGED excuse
      BY <1>5, AttachAt, Zenon
    <3> QED BY <2>1, <3>1, <3>2
  <2>3. ~Had(k, VMReasons)' => ~create'.adopted
    BY <1>2, <2>1, <2>2, Zenon DEF AtWork, Had
  <2>4. ~Had(k, AddrReasons)' => Current(k, create.addr)'
    BY <1>1, <1>2, <1>3, <2>1, <2>2, Zenon DEF AtWork, PodInv, AddrInv, Had, Current
  <2> HIDE DEF Current
  <2> QED BY <1>2, <1>3, <1>5, <2>1, <2>2, <2>3, <2>4, CallPods
<1> QED BY <1>2, <1>4, <1>5, Zenon DEF CreateAttach, AtWork

\* A Destroy that only logs its failure.
LEMMA DestroysAt ==
  ASSUME IInv, NEW k \in Keys, Destroys(k)
  PROVE  /\ VM!Destroy(k) \/ UNCHANGED vms
         /\ UNCHANGED excuse \/ Excuse(k, "destroyFailed")
         /\ \/ ~VM!Exists(k)' /\ vms'[k].phase = "none"
            \/ "destroyFailed" \in excuse'[k] /\ Had(k, VMReasons)' /\ Had(k, AddrReasons)'
<1>1. Excuse(k, "destroyFailed") => "destroyFailed" \in excuse'[k]
  BY ExcuseAt, Zenon
<1>2. "destroyFailed" \in excuse'[k] => Had(k, VMReasons)' /\ Had(k, AddrReasons)'
  BY Zenon DEF Had, VMReasons, AddrReasons
<1> QED BY <1>1, <1>2, VMDestroyed, Zenon DEF Destroys

\* The rollback of a new VM.
LEMMA RollbackPods == ASSUME IInv, EInv, CreateRollback PROVE PodsEInv'
<1>1. create.pc = "rollback"
  BY Zenon DEF CreateRollback, At
<1>2. PICK k \in Keys : AtWork(k)
  BY <1>1, CallKey
<1>3. UNCHANGED <<api, pods, del, gos, endpoints>> /\ Destroys(k) /\ AbandonIP(create) /\ Return
  BY <1>2, Zenon DEF CreateRollback, AtWork
<1>4. /\ VM!Destroy(k) \/ UNCHANGED vms
      /\ UNCHANGED excuse \/ Excuse(k, "destroyFailed")
      /\ ~Had(k, VMReasons)' => ~VM!Exists(k)'
  BY <1>3, DestroysAt, Zenon
<1>5. ~Had(k, MapReasons)' => endpoints'[k] = NoEndpoint
  <2>1. Had(k, MapReasons) => Had(k, MapReasons)'
    BY <1>4, ExcuseAt, HadGrows, Zenon
  <2> QED BY <1>2, <1>3, <2>1, Zenon DEF AtWork
<1> QED BY <1>2, <1>3, <1>4, <1>5, CallPods, Zenon

\* A goroutine is launched for k, or none is.
Launched(k) == (\E g \in Slots, pc \in {"backoff", "killStop"} : NewGo(g, k, pc)) \/ UNCHANGED gos

\* The goroutines of other keys stay as they are; the new one, if it is a
\* restart, is in its backoff.
LEMMA LaunchedWork ==
  ASSUME IInv, NEW k \in Keys, Launched(k)
  PROVE  /\ \A j \in Keys \ {k} : SameWork(j)
         /\ \A g \in Slots : gos[g].key = k => gos'[g] = gos[g]
         /\ \A g \in Slots : gos[g].key = k => gos'[g].key = k
         /\ \A g \in Slots : Works(g, k) => Works(g, k)'
         /\ \A g \in Slots : Works(g, k)' => Works(g, k) \/ gos'[g].pc = "backoff"
<1>1. NoKey \notin Keys
  BY LifecycleAssumption
<1>2. CASE UNCHANGED gos
  BY <1>2, Zenon DEF SameWork, Works
<1>3. ASSUME NEW g \in Slots, NEW pc \in {"backoff", "killStop"}, NewGo(g, k, pc)
      PROVE  /\ \A j \in Keys \ {k} : SameWork(j)
             /\ \A h \in Slots : gos[h].key = k => gos'[h] = gos[h]
             /\ \A h \in Slots : Works(h, k)' => Works(h, k) \/ gos'[h].pc = "backoff"
  <2>1. gos[g].key = NoKey /\ gos'[g].key = k /\ gos'[g].pc = pc
    BY <1>3 DEF NewGo, NoGo
  <2>2. \A h \in Slots \ {g} : gos'[h] = gos[h]
    BY <1>3, Zenon DEF NewGo
  <2> QED BY <1>1, <2>1, <2>2, Zenon DEF SameWork, Works
<1> QED BY <1>2, <1>3, Zenon DEF Launched, Works

LEMMA SpawnLaunches ==
  ASSUME IInv, NEW k \in Keys, NEW u, NEW pc \in {"backoff", "killStop"},
         Spawn(k, u, pc) \/ UNCHANGED gos
  PROVE  Launched(k)
<1>1. ASSUME Spawn(k, u, pc) PROVE NewGo(FreeSlot, k, pc) /\ FreeSlot \in Slots
  <2>1. FreeSlot \in FreeSlots
    BY <1>1, Zenon DEF Spawn, FreeSlot
  <2>2. FreeSlot \in Slots /\ gos[FreeSlot].pc = "idle"
    BY <2>1, Zenon DEF FreeSlots
  <2>3. gos[FreeSlot] = NoGo
    BY <2>2 DEF IInv, GosInv, GoType, GoPCs
  <2> QED BY <1>1, <2>2, <2>3, Zenon DEF Spawn, NewGo, IInv, GosInv
<1> QED BY <1>1, Zenon DEF Launched

\* A reconcile under policy Always never ends in a final state.
LEMMA AlwaysGoesOn ==
  ASSUME NEW st, NEW obs \in VM!Phases \cup {"error"}, st.policy = "Always", ~FinalState(st.cs)
  PROVE  ~FinalState(ContainerState(st, obs))
<1>1. obs \in {"none", "stopped", "failed"} => WantsRestart(st, obs)
  BY Zenon DEF WantsRestart, ShouldRestart
<1>2. CASE WantsRestart(st, obs)
  BY <1>2 DEF ContainerState, FinalState
<1>3. CASE ~WantsRestart(st, obs) /\ obs \in {"created", "running", "error"}
  BY <1>3 DEF ContainerState, FinalState
<1> QED BY <1>1, <1>2, <1>3 DEF VM!Phases

\* What a reconcile keeps of a Pod's record.
LEMMA ReconciledRest ==
  ASSUME NEW st \in PodType, NEW obs \in VM!Phases \cup {"error"}
  PROVE  LET rs == Reconciled(st, obs) IN
         /\ rs \in PodType /\ rs.policy = st.policy /\ rs.wl = st.wl /\ rs.ip = st.ip
         /\ rs.attached = st.attached /\ rs.terminal = st.terminal /\ rs.uid = st.uid
         /\ rs.cs = IF st.terminal THEN st.cs ELSE ContainerState(st, obs)
<1>1. ContainerState(st, obs) \in CStates
  BY Zenon DEF ContainerState, CStates, PodType
<1>2. (st.restarting \/ WantsRestart(st, obs)) \in BOOLEAN
  BY Zenon DEF PodType, WantsRestart, ShouldRestart
<1>3. Reconciled(st, obs) \in PodType
  BY <1>1, <1>2, Zenon DEF Reconciled, PodType
<1> QED BY <1>3, Zenon DEF Reconciled, PodType

\* A step at key k: what it does to nobody else.
LEMMA TouchesOne ==
  ASSUME NEW k \in Keys, create.key = k \/ create = NoCall \/ create' = create,
         create'.key = k \/ create' = NoCall \/ create' = create,
         \A j \in Keys \ {k} :
           /\ api'[j] = api[j] /\ del'[j] = del[j]
           /\ pods'[j] = pods[j] /\ vms'[j] = vms[j] /\ endpoints'[j] = endpoints[j]
           /\ excuse'[j] = excuse[j] /\ byKey'[j] = byKey[j] /\ SameWork(j)
  PROVE  Touches(k)
<1>1. \A j \in Keys \ {k} : create.key = j \/ create'.key = j => create' = create
  BY LifecycleAssumption DEF NoCall
<1> QED BY <1>1, Zenon DEF Touches, Same

\* A Pod enters the map with its workload.
LEMMA CommitEnters ==
  ASSUME IInv, NEW k \in Keys, PodInv(k), k = create.key, create.pc = "commit", create' = NoCall,
         ~Tracked(k), del[k].pc = "idle", UNCHANGED <<api, del, vms, endpoints, excuse>>,
         Tracked(k)', pods'[k].policy = create.spec, pods'[k].wl, pods'[k].attached,
         pods'[k].ip = create.ip, create.spec = "Always" => ~FinalState(pods'[k].cs),
         Launched(k)
  PROVE  PodInv(k)'
<1>1. create'.key # k
  BY LifecycleAssumption DEF NoCall
<1>2. \A R : Had(k, R)' <=> Had(k, R)
  BY Zenon DEF Had
<1>3. OutInv(k)'
  BY Zenon DEF OutInv
<1>4. SpecInv(k)'
  BY <1>1, Zenon DEF PodInv, SpecInv
<1>5. VMInv(k)'
  BY <1>1, Zenon DEF VMInv
<1>6. "outlived" \notin excuse[k] => \A g \in Slots : Works(g, k)' => gos'[g].pc = "backoff"
  BY LaunchedWork, Zenon DEF PodInv, OutInv, Works
<1>7. MapInv(k)'
  <2> SUFFICES ASSUME ~Had(k, MapReasons)' PROVE MapInv(k)'
    BY Zenon DEF MapInv
  <2>1. "outlived" \notin excuse[k] /\ ~Had(k, MapReasons)
    BY <1>2, Zenon DEF Had, MapReasons
  <2>2. endpoints'[k].ip = pods'[k].ip
    BY <2>1 DEF PodInv, MapInv
  <2>3. \A g \in Slots : Works(g, k)' => GoMaps(g, k)'
    BY <1>6, <2>1 DEF GoMaps, Between
  <2>4. del'[k].pc # "detach"
    OBVIOUS
  <2> QED BY <1>1, <2>2, <2>3, <2>4, Zenon DEF MapInv, Mapped
<1>8. AddrInv(k)'
  <2> SUFFICES ASSUME ~Had(k, AddrReasons)' PROVE AddrInv(k)'
    BY Zenon DEF AddrInv
  <2>1. "outlived" \notin excuse[k] /\ ~Had(k, AddrReasons) /\ ~Had(k, MapReasons)
    BY <1>2, Zenon DEF Had, AddrReasons, MapReasons
  <2>2. endpoints'[k] = [ip |-> pods'[k].ip, addr |-> create.addr]
    BY <2>1 DEF PodInv, MapInv
  <2>3. vms'[k].phase = "running" => create.addr = vms'[k].addr
    BY <2>1, Zenon DEF PodInv, AddrInv, Current
  <2>4. Reached(k)'
    BY <2>2, <2>3 DEF Reached
  <2>5. \A g \in Slots : Works(g, k)' => GoReaches(g, k)'
    BY <1>6, <2>1 DEF GoReaches
  <2> QED BY <1>1, <2>4, <2>5, Zenon DEF AddrInv
<1> QED BY <1>3, <1>4, <1>5, <1>7, <1>8, Zenon DEF PodInv

LEMMA CommitPods == ASSUME IInv, EInv, CreateCommit PROVE PodsEInv'
<1>1. create.pc = "commit" /\ create # NoCall
  BY DEF CreateCommit, At, NoCall
<1>2. create \in CallType
  BY <1>1, Zenon DEF IInv, CreateInv
<1>3. PICK k \in Keys : k = create.key
  BY <1>2, Zenon DEF CallType
<1>4. PodInv(k) /\ ~Tracked(k) /\ del[k].pc = "idle"
  <2>1. ~Tracked(k) /\ del[k] = NoDelete
    BY <1>1, <1>3, Zenon DEF IInv, OwnInv
  <2>2. PodInv(k)
    BY Zenon DEF EInv
  <2> QED BY <2>1, <2>2 DEF NoDelete
<1>5. UNCHANGED <<api, del, vms, endpoints, excuse, byKey>> /\ create' = NoCall
  BY Zenon DEF CreateCommit, CommitIP, Return, ipamVars
<1> DEFINE st == [uid |-> create.uid, policy |-> create.spec, terminal |-> FALSE,
                  wl |-> TRUE, ip |-> create.ip, attached |-> TRUE,
                  restarting |-> FALSE, probes |-> FALSE,
                  cs |-> create.cs]
<1>6. PICK obs \in VM!Phases \cup {"error"} :
        /\ \/ pods' = [pods EXCEPT ![k] = StartedProbes(Reconciled(st, obs))]
           \/ pods' = [pods EXCEPT ![k] = Reconciled(st, obs)]
        /\ Spawn(k, st.uid, "backoff") \/ UNCHANGED gos
  BY <1>3, Zenon DEF CreateCommit
<1>7. /\ st.policy = create.spec /\ st.wl /\ ~st.terminal /\ st.attached /\ st.ip = create.ip
      /\ st.cs = create.cs /\ st \in PodType /\ st.uid = create.uid
  BY <1>2, Zenon DEF CallType, PodType
<1> HIDE DEF st
<1>8. /\ Reconciled(st, obs).policy = create.spec /\ Reconciled(st, obs).wl
      /\ Reconciled(st, obs).attached /\ Reconciled(st, obs).ip = create.ip
      /\ Reconciled(st, obs).cs = ContainerState(st, obs)
      /\ Reconciled(st, obs) \in PodType
  BY <1>7, ReconciledRest, Zenon
<1>9. \A x \in PodType : /\ StartedProbes(x).policy = x.policy /\ StartedProbes(x).wl = x.wl
                         /\ StartedProbes(x).attached = x.attached /\ StartedProbes(x).ip = x.ip
                         /\ StartedProbes(x).cs = x.cs /\ StartedProbes(x).uid = x.uid
  BY Zenon DEF StartedProbes, PodType
<1>10. \A x : x.uid \in Uids => x # NoPod
  BY DEF Uids, NoPod
<1>11. create.spec = "Always" => ~FinalState(ContainerState(st, obs))
  BY <1>3, <1>4, <1>7, AlwaysGoesOn, Zenon DEF PodInv, SpecInv
<1>12. /\ Tracked(k)' /\ pods'[k].policy = create.spec /\ pods'[k].wl /\ pods'[k].attached
       /\ pods'[k].ip = create.ip /\ pods'[k].cs = ContainerState(st, obs)
       /\ \A j \in Keys \ {k} : pods'[j] = pods[j]
  <2>1. pods'[k] \in {StartedProbes(Reconciled(st, obs)), Reconciled(st, obs)}
        /\ \A j \in Keys \ {k} : pods'[j] = pods[j]
    BY <1>6, Zenon DEF IInv, PodsInv
  <2>2. PICK rs \in PodType : rs = Reconciled(st, obs)
    BY <1>8, Zenon
  <2>3. rs.uid \in Uids /\ StartedProbes(rs).uid \in Uids
    BY <1>9, Zenon DEF PodType
  <2>4. pods'[k] \in {StartedProbes(rs), rs} /\ pods'[k].uid \in Uids
    BY <2>1, <2>2, <2>3, Zenon
  <2>5. /\ pods'[k].policy = rs.policy /\ pods'[k].wl = rs.wl /\ pods'[k].ip = rs.ip
        /\ pods'[k].attached = rs.attached /\ pods'[k].cs = rs.cs
    BY <1>9, <2>4, Zenon
  <2>6. Tracked(k)'
    BY <1>10, <2>4, Zenon DEF Tracked
  <2> QED BY <1>8, <2>1, <2>2, <2>5, <2>6
<1>13. Launched(k)
  BY <1>6, SpawnLaunches, Zenon
<1>14. PodInv(k)'
  BY <1>1, <1>3, <1>4, <1>5, <1>11, <1>12, <1>13, CommitEnters, Zenon
<1>15. Touches(k)
  BY <1>3, <1>5, <1>12, <1>13, LaunchedWork, TouchesOne, Zenon
<1> QED BY <1>14, <1>15, OneKey, Zenon

\* A new Pod of a name nobody is working on: if no old restart is in flight,
\* there is no VM either.
LEMMA FreshKey ==
  ASSUME IInv, EInv, NEW k \in Keys, create = NoCall, ~InCall(k), ~Tracked(k),
         NoteIfInFlight(k, "crossed")
  PROVE  /\ PodInv(k) /\ del[k] = NoDelete /\ create.key # k
         /\ excuse[k] \subseteq excuse'[k] /\ \A j \in Keys \ {k} : excuse'[j] = excuse[j]
         /\ ~Had(k, VMReasons)' => ~VM!Exists(k) /\ \A g \in Slots : gos[g].key # k
         /\ ~Had(k, MapReasons) => endpoints[k] = NoEndpoint
<1>1. del[k].pc = "idle" /\ create.key # k
  BY Zenon DEF InCall
<1>2. del[k] = NoDelete
  BY <1>1 DEF IInv, DelInv, DelType
<1>3. PodInv(k)
  BY Zenon DEF EInv
<1>4. UNCHANGED excuse \/ Excuse(k, "crossed")
  BY Zenon DEF NoteIfInFlight
<1>5. excuse[k] \subseteq excuse'[k] /\ \A j \in Keys \ {k} : excuse'[j] = excuse[j]
  BY <1>4, ExcuseAt, Zenon
<1>6. Excuse(k, "crossed") => Had(k, VMReasons)'
  BY ExcuseAt, Zenon DEF Had, VMReasons
<1>7. ~Had(k, VMReasons)' => \A g \in Slots : gos[g].key # k
  BY <1>6, Zenon DEF NoteIfInFlight, InFlight
<1>8. ~Had(k, VMReasons)' => ~Had(k, VMReasons)
  BY <1>5, HadGrows, Zenon
<1>9. ~DeleteReaps(k) /\ del[k].pc # "detach"
  BY <1>1 DEF DeleteReaps
<1>10. ~Had(k, VMReasons)' => ~VM!Exists(k)
  BY <1>1, <1>3, <1>7, <1>8, <1>9, Zenon DEF PodInv, VMInv
<1>11. ~Had(k, MapReasons) => endpoints[k] = NoEndpoint
  BY <1>1, <1>3, <1>9, Zenon DEF PodInv, MapInv
<1> QED BY <1>1, <1>2, <1>3, <1>5, <1>7, <1>10, <1>11, Zenon

\* translatePod rejects the Pod.
LEMMA UnsupportedPods ==
  ASSUME IInv, EInv, NEW k \in Keys, CreateUnsupported(k) PROVE PodsEInv'
<1>1. /\ create = NoCall /\ ~InCall(k) /\ ~Tracked(k) /\ NoteIfInFlight(k, "crossed")
      /\ api[k].state = "present" /\ api[k].spec = "Unsupported"
      /\ UNCHANGED <<api, create, del, gos, vms, endpoints, byKey>>
  BY Zenon DEF CreateUnsupported, callVars, ipamVars
<1>2. pods'[k] = TerminalPod(api[k].uid) /\ \A j \in Keys \ {k} : pods'[j] = pods[j]
  BY Zenon DEF CreateUnsupported, IInv, PodsInv
<1>3. api[k].state # "absent" /\ api[k].spec \in {"Unsupported", "WrongArch"}
  BY <1>1
<1>4. create'.key # k
  BY <1>1, FreshKey, Zenon
<1>5. PodInv(k)'
  BY <1>1, <1>2, <1>3, <1>4, FreshKey, TerminalEnters, Zenon
<1>6. Touches(k)
  BY <1>1, <1>2, FreshKey, TouchesOne, SameWorkAll, Zenon
<1> QED BY <1>5, <1>6, OneKey, Zenon

\* Up to the allocation.
LEMMA BeginPods == ASSUME IInv, EInv, NEW k \in Keys, CreateBegin(k) PROVE PodsEInv'
<1>1. /\ create = NoCall /\ ~InCall(k) /\ ~Tracked(k) /\ NoteIfInFlight(k, "crossed")
      /\ api[k].state = "present" /\ Allocate(k)
      /\ UNCHANGED <<api, pods, del, gos, vms, endpoints>>
  BY Zenon DEF CreateBegin
<1>2. \/ create' = NoCall
      \/ /\ create'.key = k /\ create'.pc = "lookup" /\ create'.spec = api[k].spec
         /\ create'.cs = api[k].cs /\ ~create'.adopted
  BY DEF CreateBegin
<1>3. \A j \in Keys \ {k} : byKey'[j] = byKey[j]
  BY <1>1, Zenon DEF IInv, PoolInv, IPAMTypeOK, Allocate, Bind, ipamVars
<1>4. Touches(k)
  BY <1>1, <1>2, <1>3, FreshKey, TouchesOne, SameWorkAll, Zenon
<1>5. PodInv(k) /\ del'[k].pc = "idle" /\ ~Tracked(k)'
  BY <1>1, FreshKey DEF NoDelete, Tracked
<1>6. \A R : Had(k, R) => Had(k, R)'
  BY <1>1, FreshKey, HadGrows, Zenon
<1>7. create'.key = k =>
        /\ create'.pc = "lookup" /\ create'.spec = api[k].spec
        /\ create'.cs = api[k].cs /\ ~create'.adopted
  BY <1>2, LifecycleAssumption DEF NoCall
<1>8. OutInv(k)'
  BY <1>1, <1>5, FreshKey, Zenon DEF PodInv, OutInv
<1>9. SpecInv(k)'
  BY <1>1, <1>5, <1>7 DEF PodInv, SpecInv
<1>10. VMInv(k)'
  <2>1. ~Had(k, VMReasons)' => ~VM!Exists(k)' /\ \A g \in Slots : gos'[g].key # k
    BY <1>1, FreshKey, Zenon DEF VM!Exists
  <2>2. create'.key = k => create'.pc # "startAdopted" /\ ~create'.adopted
    BY <1>7
  <2> QED BY <1>5, <2>1, <2>2, Zenon DEF VMInv
<1>11. MapInv(k)'
  <2>1. ~Had(k, MapReasons)' => endpoints'[k] = NoEndpoint
    BY <1>1, <1>6, FreshKey, Zenon
  <2>2. create'.key = k => create'.pc # "commit"
    BY <1>7
  <2> QED BY <1>5, <2>1, <2>2 DEF MapInv, NoEndpoint
<1>12. AddrInv(k)'
  BY <1>5, <1>7 DEF AddrInv
<1> QED BY <1>4, <1>8, <1>9, <1>10, <1>11, <1>12, OneKey, Zenon DEF PodInv

-----------------------------------------------------------------------------
(* Tracked Pods.                                                           *)

\* No call works on a tracked Pod.
LEMMA NotInCall ==
  ASSUME IInv, NEW k \in Keys, Tracked(k)
  PROVE  create.key # k /\ del[k] = NoDelete /\ del[k].pc = "idle"
<1>1. create = NoCall => create.key # k
  BY LifecycleAssumption DEF NoCall
<1>2. create.key # k /\ del[k] = NoDelete
  BY <1>1, Zenon DEF IInv, OwnInv
<1> QED BY <1>2 DEF NoDelete

\* A Pod's record is reconciled, or told to restart or to end; a goroutine
\* may be launched for it.
LEMMA RecordChanges ==
  ASSUME IInv, NEW k \in Keys, PodInv(k), Tracked(k), Tracked(k)',
         pods'[k].policy = pods[k].policy, pods'[k].wl = pods[k].wl, pods'[k].ip = pods[k].ip,
         pods'[k].attached = pods[k].attached, pods[k].terminal => pods'[k].terminal,
         pods[k].policy = "Always" => ~FinalState(pods'[k].cs),
         api'[k].state = api[k].state, api'[k].spec = api[k].spec,
         api[k].spec = "Always" => ~FinalState(api'[k].cs),
         UNCHANGED <<create, del, vms, endpoints, excuse, byKey>>,
         Launched(k), pods[k].terminal => UNCHANGED gos
  PROVE  PodInv(k)'
<1>1. \A R : Had(k, R)' <=> Had(k, R)
  BY Zenon DEF Had
<1>2. OutInv(k)'
  BY Zenon DEF OutInv
<1>3. SpecInv(k)'
  BY Zenon DEF PodInv, SpecInv
<1>4. VMInv(k)'
  <2> SUFFICES ASSUME ~Had(k, VMReasons)' PROVE VMInv(k)'
    BY Zenon DEF VMInv
  <2>1. create.key # k
    BY NotInCall, Zenon
  <2> QED BY <1>1, <2>1, Zenon DEF PodInv, VMInv, VM!Exists
<1>5. Calm(k)' => Calm(k)
  <2>1. \A g \in Slots : Works(g, k) => Works(g, k)' /\ gos'[g] = gos[g]
    BY LaunchedWork, Zenon DEF Works
  <2> QED BY <2>1, Zenon DEF Calm
<1>6. ASSUME NEW g \in Slots, Works(g, k)'
      PROVE  (Works(g, k) /\ gos'[g] = gos[g]) \/ gos'[g].pc = "backoff"
  BY <1>6, LaunchedWork, Zenon DEF Works
<1>7. MapInv(k)'
  <2> SUFFICES ASSUME ~Had(k, MapReasons)' PROVE MapInv(k)'
    BY Zenon DEF MapInv
  <2>1. ~Had(k, MapReasons)
    BY <1>1, Zenon
  <2>2. Mapped(k) => Mapped(k)'
    BY Zenon DEF Mapped, NoEndpoint, NoIP, NoAddr
  <2>3. ASSUME NEW g \in Slots, Works(g, k)' PROVE GoMaps(g, k)'
    <3>1. CASE gos'[g].pc = "backoff"
      BY <3>1 DEF GoMaps, Between
    <3>2. CASE Works(g, k) /\ gos'[g] = gos[g]
      <4>1. GoMaps(g, k)
        BY <2>1, <3>2, Zenon DEF PodInv, MapInv
      <4> QED BY <3>2, <4>1, Zenon DEF GoMaps, Between, NoEndpoint, NoIP, NoAddr
    <3> QED BY <1>6, <2>3, <3>1, <3>2, Zenon
  <2> QED BY <1>5, <2>1, <2>2, <2>3, Zenon
          DEF PodInv, MapInv, NoEndpoint, NoIP, NoAddr
<1>8. AddrInv(k)'
  <2> SUFFICES ASSUME ~Had(k, AddrReasons)' PROVE AddrInv(k)'
    BY Zenon DEF AddrInv
  <2>1. ~Had(k, AddrReasons)
    BY <1>1, Zenon
  <2>2. Reached(k) => Reached(k)'
    BY Zenon DEF Reached
  <2>3. ASSUME NEW g \in Slots, Works(g, k)' PROVE GoReaches(g, k)'
    <3>1. CASE gos'[g].pc = "backoff"
      BY <3>1 DEF GoReaches
    <3>2. CASE Works(g, k) /\ gos'[g] = gos[g]
      <4>1. GoReaches(g, k)
        BY <2>1, <3>2, Zenon DEF PodInv, AddrInv
      <4> QED BY <3>2, <4>1, Zenon DEF GoReaches, Current
    <3> QED BY <1>6, <2>3, <3>1, <3>2, Zenon
  <2>4. Current(k, create.addr)' <=> Current(k, create.addr)
    BY Zenon DEF Current
  <2> QED BY <1>5, <2>1, <2>2, <2>3, <2>4, Zenon DEF PodInv, AddrInv
<1> QED BY <1>2, <1>3, <1>4, <1>7, <1>8, Zenon DEF PodInv

\* A status reconcile.
LEMMA SyncPods == ASSUME IInv, EInv, NEW k \in Keys, SyncStatus(k) PROVE PodsEInv'
<1>1. /\ Tracked(k) /\ UNCHANGED <<create, del, vms, endpoints, excuse, byKey>>
  BY Zenon DEF SyncStatus, callVars, ipamVars
<1>2. PICK obs \in VM!Phases \cup {"error"} :
        /\ pods' = [pods EXCEPT ![k] = Reconciled(pods[k], obs)]
        /\ api' = [api EXCEPT ![k].ip = Reconciled(pods[k], obs).ip,
                              ![k].cs = Reconciled(pods[k], obs).cs]
        /\ IF Launches(pods[k], obs) THEN Spawn(k, pods[k].uid, "backoff") ELSE UNCHANGED gos
  BY Zenon DEF SyncStatus
<1>3. PICK st \in PodType : st = pods[k]
  BY <1>1, Zenon DEF IInv, PodsInv, Tracked
<1>4. PICK rs \in PodType : rs = Reconciled(st, obs)
  BY ReconciledRest, Zenon
<1>5. /\ rs.policy = st.policy /\ rs.wl = st.wl /\ rs.ip = st.ip
      /\ rs.attached = st.attached /\ rs.terminal = st.terminal
      /\ rs.cs = IF st.terminal THEN st.cs ELSE ContainerState(st, obs)
  BY <1>4, ReconciledRest, Zenon
<1>6. /\ pods'[k] = rs /\ \A j \in Keys \ {k} : pods'[j] = pods[j]
  BY <1>2, <1>3, <1>4, Zenon DEF IInv, PodsInv
<1>7. /\ api'[k].state = api[k].state /\ api'[k].spec = api[k].spec /\ api'[k].cs = rs.cs
      /\ \A j \in Keys \ {k} : api'[j] = api[j]
  BY <1>2, <1>3, <1>4, Zenon DEF IInv, ApiInv
<1>8. Tracked(k)'
  <2>1. rs # NoPod
    BY DEF PodType, NoPod, Uids
  <2> QED BY <1>6, <2>1, Zenon DEF Tracked
<1>9. PodInv(k) /\ (st.policy = "Always" => ~FinalState(rs.cs))
      /\ (api[k].spec = "Always" => st.policy = "Always")
  <2>1. PodInv(k)
    BY Zenon DEF EInv
  <2>2. st.policy = "Always" => ~FinalState(st.cs)
    BY <1>1, <1>3, <2>1, Zenon DEF PodInv, SpecInv
  <2>3. st.policy = "Always" => ~FinalState(ContainerState(st, obs))
    BY <2>2, AlwaysGoesOn, Zenon
  <2>4. api[k].spec = "Always" => st.policy = "Always"
    BY <1>1, <1>3, <2>1 DEF PodInv, SpecInv
  <2> QED BY <1>5, <2>1, <2>2, <2>3, <2>4, Zenon
<1>10. Launched(k) /\ (st.terminal => UNCHANGED gos)
  BY <1>2, <1>3, SpawnLaunches, Zenon DEF Launches
<1>11. PodInv(k)'
  BY <1>1, <1>3, <1>5, <1>6, <1>7, <1>8, <1>9, <1>10, RecordChanges, Zenon
<1>12. Touches(k)
  BY <1>1, <1>6, <1>7, <1>10, LaunchedWork, TouchesOne, Zenon
<1> QED BY <1>11, <1>12, OneKey, Zenon

\* A probe fails.
LEMMA ProbePods ==
  ASSUME IInv, EInv, NEW k \in Keys, NEW f, FailProbeRestart(k, f) \/ FailProbeKill(k, f)
  PROVE  PodsEInv'
<1>1. /\ Tracked(k) /\ ~pods[k].terminal
      /\ UNCHANGED <<api, create, del, vms, endpoints, excuse, byKey>>
  BY Zenon DEF FailProbeRestart, FailProbeKill, callVars, ipamVars, histVars
<1>2. PICK st \in PodType : st = pods[k]
  BY <1>1, Zenon DEF IInv, PodsInv, Tracked
<1>3. /\ pods'[k].policy = st.policy /\ pods'[k].wl = st.wl /\ pods'[k].ip = st.ip
      /\ pods'[k].attached = st.attached /\ pods'[k].uid = st.uid
      /\ pods'[k].cs = st.cs \/ st.policy # "Always"
      /\ \A j \in Keys \ {k} : pods'[j] = pods[j]
  <2>1. CASE FailProbeRestart(k, f)
    <3>1. pods' = [pods EXCEPT ![k] = [st EXCEPT !.restarting = TRUE]]
      BY <1>2, <2>1, Zenon DEF FailProbeRestart
    <3> QED BY <3>1, Zenon DEF IInv, PodsInv, PodType
  <2>2. CASE FailProbeKill(k, f)
    <3>1. pods' = [pods EXCEPT ![k] = [st EXCEPT !.terminal = TRUE, !.cs = "failed",
                                                 !.probes = FALSE]]
      BY <1>2, <2>2, Zenon DEF FailProbeKill
    <3>2. st.policy # "Always"
      BY <1>2, <2>2, Zenon DEF FailProbeKill, ShouldRestart
    <3> QED BY <3>1, <3>2, Zenon DEF IInv, PodsInv, PodType
  <2> QED BY <2>1, <2>2, Zenon
<1>4. Tracked(k)'
  <2>1. pods'[k] # NoPod
    BY <1>3 DEF PodType, NoPod, Uids
  <2> QED BY <2>1, Zenon DEF Tracked
<1>5. PodInv(k)
  BY Zenon DEF EInv
<1>6. (st.policy = "Always" => ~FinalState(pods'[k].cs))
      /\ (api[k].spec = "Always" => ~FinalState(api[k].cs))
  BY <1>1, <1>2, <1>3, <1>5, Zenon DEF PodInv, SpecInv
<1>7. Launched(k)
  <2>1. Spawn(k, pods[k].uid, "backoff") \/ Spawn(k, pods[k].uid, "killStop")
    BY Zenon DEF FailProbeRestart, FailProbeKill
  <2> QED BY <2>1, SpawnLaunches, Zenon
<1>8. PodInv(k)'
  BY <1>1, <1>2, <1>3, <1>4, <1>5, <1>6, <1>7, RecordChanges, Zenon
<1>9. Touches(k)
  BY <1>1, <1>3, <1>7, LaunchedWork, TouchesOne, Zenon
<1> QED BY <1>8, <1>9, OneKey, Zenon

-----------------------------------------------------------------------------
(* DeletePod.                                                              *)

\* The critical section.
LEMMA ForgetPods == ASSUME IInv, EInv, NEW k \in Keys, DeleteForget(k) PROVE PodsEInv'
<1>1. /\ Tracked(k) /\ api[k].state = "deleting" /\ NoteIfInFlight(k, "outlived")
      /\ UNCHANGED <<api, create, gos, vms, endpoints, byKey>>
  BY Zenon DEF DeleteForget, ipamVars
<1>2. /\ pods'[k] = NoPod /\ \A j \in Keys \ {k} : pods'[j] = pods[j] /\ del'[j] = del[j]
      /\ del'[k] = [pc |-> "detach", uid |-> pods[k].uid, attached |-> pods[k].attached,
                    wl |-> pods[k].wl]
  BY Zenon DEF DeleteForget, IInv, PodsInv, DelInv
<1>3. del'[k].pc = "detach" /\ del'[k].attached = pods[k].attached /\ del'[k].wl = pods[k].wl
  BY <1>2
<1>4. UNCHANGED excuse \/ Excuse(k, "outlived")
  BY <1>1, Zenon DEF NoteIfInFlight
<1>5. excuse[k] \subseteq excuse'[k] /\ \A j \in Keys \ {k} : excuse'[j] = excuse[j]
  BY <1>4, ExcuseAt, Zenon
<1>6. "outlived" \notin excuse'[k] => \A g \in Slots : gos[g].key # k
  BY <1>1, ExcuseAt, Zenon DEF NoteIfInFlight, InFlight
<1>7. PodInv(k) /\ create.key # k /\ create'.key # k /\ ~Tracked(k)'
  BY <1>1, <1>2, NotInCall, Zenon DEF EInv, Tracked
<1>8. \A R : Had(k, R) => Had(k, R)'
  BY <1>5, HadGrows, Zenon
<1>9. OutInv(k)'
  BY <1>1, <1>6, Zenon DEF OutInv
<1>10. SpecInv(k)'
  BY <1>1, <1>7 DEF PodInv, SpecInv
<1>11. VMInv(k)'
  <2>1. ~DeleteReaps(k)' => ~pods[k].wl
    BY <1>3, Zenon DEF DeleteReaps
  <2>2. ~Had(k, VMReasons)' /\ ~pods[k].wl => ~VM!Exists(k)
    BY <1>1, <1>7, <1>8, Zenon DEF PodInv, VMInv
  <2>3. VM!Exists(k)' <=> VM!Exists(k)
    BY <1>1, Zenon DEF VM!Exists
  <2> QED BY <1>7, <2>1, <2>2, <2>3, Zenon DEF VMInv
<1>12. MapInv(k)'
  <2> SUFFICES ASSUME ~Had(k, MapReasons)' PROVE MapInv(k)'
    BY Zenon DEF MapInv
  <2>1. ~Had(k, MapReasons) /\ "outlived" \notin excuse'[k]
    BY <1>8, Zenon DEF Had, MapReasons
  <2>2. Calm(k)
    BY <1>6, <2>1, Zenon DEF Calm, Works
  <2>3. Mapped(k)
    BY <1>1, <1>7, <2>1, <2>2, Zenon DEF PodInv, MapInv
  <2>4. endpoints[k].ip # NoIP => byKey[k] = endpoints[k].ip
    <3>1. NoEndpoint.ip = NoIP
      BY DEF NoEndpoint
    <3>2. pods[k].ip # NoIP => byKey[k] = pods[k].ip
      BY <1>1, Zenon DEF IInv, OwnInv
    <3> QED BY <2>3, <3>1, <3>2, Zenon DEF Mapped
  <2>5. ~pods[k].attached => endpoints[k] = NoEndpoint
    BY <2>3, Zenon DEF Mapped
  <2> QED BY <1>1, <1>3, <1>7, <2>4, <2>5, Zenon DEF MapInv, NoEndpoint, NoIP, NoAddr
<1>13. AddrInv(k)'
  BY <1>7, Zenon DEF AddrInv
<1>14. Touches(k)
  BY <1>1, <1>2, <1>5, TouchesOne, SameWorkAll, Zenon
<1> QED BY <1>9, <1>10, <1>11, <1>12, <1>13, <1>14, OneKey, Zenon DEF PodInv

\* The other steps: nobody tracks the key, the VM goes or is still DeletePod's
\* to destroy, and the mapping is gone.
LEMMA DeletionGoesOn ==
  ASSUME NEW k \in Keys, PodInv(k), ~Tracked(k), create.key # k,
         UNCHANGED <<pods, create, gos>>, excuse[k] \subseteq excuse'[k],
         \/ api'[k] = api[k] /\ (del'[k].pc # "idle" => api[k].state = "deleting")
         \/ api'[k].ip = NoIP /\ api'[k].cs = "unset" /\ del'[k].pc = "idle",
         ~Had(k, VMReasons)' /\ ~DeleteReaps(k)' /\ VM!Exists(k)' =>
           VM!Exists(k) /\ ~DeleteReaps(k),
         ~Had(k, MapReasons)' => endpoints'[k] = NoEndpoint, del'[k].pc # "detach"
  PROVE  PodInv(k)'
<1>1. \A R : Had(k, R) => Had(k, R)'
  BY HadGrows, Zenon
<1>2. ~Tracked(k)' /\ create'.key # k
  BY Zenon DEF Tracked
<1>3. OutInv(k)'
  BY Zenon DEF PodInv, OutInv
<1>4. SpecInv(k)'
  BY <1>2 DEF PodInv, SpecInv, FinalState
<1>5. VMInv(k)'
  <2> SUFFICES ASSUME ~Had(k, VMReasons)', ~DeleteReaps(k)', VM!Exists(k)'
               PROVE  \E g \in Slots : gos'[g].key = k /\ Reaps(g)'
    BY <1>2, Zenon DEF VMInv
  <2>1. PICK g \in Slots : gos[g].key = k /\ Reaps(g)
    BY <1>1, Zenon DEF PodInv, VMInv
  <2> QED BY <2>1, Zenon DEF Reaps
<1>6. MapInv(k)'
  BY <1>2, Zenon DEF MapInv
<1>7. AddrInv(k)'
  BY <1>2, Zenon DEF AddrInv
<1> QED BY <1>3, <1>4, <1>5, <1>6, <1>7, Zenon DEF PodInv

\* A deletion under way.
LEMMA Deleting ==
  ASSUME IInv, EInv, NEW k \in Keys, del[k].pc # "idle"
  PROVE  /\ del[k] \in DelType /\ ~Tracked(k) /\ create.key # k /\ PodInv(k)
         /\ api[k].state = "deleting"
<1>1. del[k] # NoDelete
  BY DEF NoDelete
<1>2. create.key # k
  <2>1. create = NoCall => create.key # k
    BY LifecycleAssumption DEF NoCall
  <2> QED BY <1>1, <2>1, Zenon DEF IInv, OwnInv
<1>3. del[k] \in DelType /\ ~Tracked(k)
  BY <1>1, Zenon DEF IInv, DelInv, OwnInv
<1> QED BY <1>2, <1>3, Zenon DEF EInv, PodInv, SpecInv

\* The API object is gone.
LEMMA GoneAt ==
  ASSUME IInv, NEW k \in Keys, Gone(k)
  PROVE  /\ api'[k].state = "absent" /\ api'[k].ip = NoIP /\ api'[k].cs = "unset"
         /\ api'[k].spec = "none" /\ \A j \in Keys \ {k} : api'[j] = api[j]
BY Zenon DEF Gone, IInv, ApiInv

\* An unknown Pod, or one removed by force.
LEMMA UnknownPods ==
  ASSUME IInv, EInv, NEW k \in Keys, DeleteUnknown(k) \/ ForceRemove(k) PROVE PodsEInv'
<1>1. /\ Gone(k) /\ UNCHANGED <<pods, create, del, gos, vms, endpoints, excuse, byKey>>
      /\ ~Tracked(k) /\ create.key # k /\ del[k].pc = "idle"
  <2>1. CASE DeleteUnknown(k)
    BY <2>1, Zenon DEF DeleteUnknown, InCall, callVars, ipamVars, histVars
  <2>2. CASE ForceRemove(k)
    <3>1. create = NoCall /\ ~Tracked(k) /\ del[k] = NoDelete
      BY <2>2, Zenon DEF ForceRemove, EInv, IdleInv
    <3>2. create.key # k /\ del[k].pc = "idle"
      BY <3>1, LifecycleAssumption DEF NoCall, NoDelete
    <3> QED BY <2>2, <3>1, <3>2, Zenon DEF ForceRemove, callVars, ipamVars, histVars
  <2> QED BY <2>1, <2>2, Zenon
<1>2. PodInv(k)
  BY Zenon DEF EInv
<1>3. del'[k].pc # "detach" /\ del[k].pc # "detach"
  BY <1>1
<1>4. /\ DeleteReaps(k)' <=> DeleteReaps(k)
      /\ VM!Exists(k)' <=> VM!Exists(k)
      /\ Had(k, MapReasons)' <=> Had(k, MapReasons)
  BY <1>1, Zenon DEF DeleteReaps, VM!Exists, Had
<1>5. ~Had(k, MapReasons)' => endpoints'[k] = NoEndpoint
  BY <1>1, <1>2, <1>3, <1>4, Zenon DEF PodInv, MapInv
<1>6. PodInv(k)'
  BY <1>1, <1>2, <1>3, <1>4, <1>5, GoneAt, DeletionGoesOn, Zenon
<1>7. Touches(k)
  BY <1>1, GoneAt, TouchesOne, SameWorkAll, Zenon
<1> QED BY <1>6, <1>7, OneKey, Zenon

\* Detach, Release, Stop, Destroy and the cleanup.
LEMMA DeletePods ==
  ASSUME IInv, EInv, NEW k \in Keys,
         \/ DeleteDetach(k) \/ DeleteRelease(k) \/ DeleteStop(k) \/ DeleteDestroy(k)
         \/ DeleteCleanup(k)
  PROVE  PodsEInv'
<1>1. del[k].pc # "idle" /\ UNCHANGED <<pods, create, gos>>
  BY DEF DeleteDetach, DeleteRelease, DeleteStop, DeleteDestroy, DeleteCleanup
<1>2. /\ del[k] \in DelType /\ ~Tracked(k) /\ create.key # k /\ PodInv(k)
      /\ api[k].state = "deleting"
  BY <1>1, Deleting, Zenon
<1>3. /\ \A j \in Keys \ {k} : del'[j] = del[j] /\ SameWork(j)
  BY <1>1, SameWorkAll, Zenon
     DEF DeleteDetach, DeleteRelease, DeleteStop, DeleteDestroy, DeleteCleanup, IInv, DelInv
<1>4. \A pc : del' = [del EXCEPT ![k].pc = pc] =>
        del'[k].pc = pc /\ del'[k].wl = del[k].wl /\ del'[k].attached = del[k].attached
  <2>1. PICK d \in DelType : d = del[k]
    BY <1>2, Zenon
  <2>2. SUFFICES ASSUME NEW pc, del' = [del EXCEPT ![k].pc = pc]
                 PROVE  del'[k].pc = pc /\ del'[k].wl = d.wl /\ del'[k].attached = d.attached
    BY <2>1, Zenon
  <2>3. del'[k] = [d EXCEPT !.pc = pc]
    BY <2>1, <2>2, Zenon DEF IInv, DelInv
  <2> QED BY <2>3, Zenon DEF DelType
<1>5. ~Had(k, MapReasons) /\ del[k].pc # "detach" => endpoints[k] = NoEndpoint
  BY <1>2, Zenon DEF PodInv, MapInv
<1>6. CASE DeleteDetach(k)
  <2>1. /\ UNCHANGED <<api, vms, excuse, byKey>> /\ endpoints' = Detached(k, del[k].attached)
        /\ del[k].pc = "detach" /\ del'[k].pc = "release" /\ del'[k].wl = del[k].wl
    BY <1>4, <1>6, Zenon DEF DeleteDetach, ipamVars, histVars
  <2>2. \A j \in Keys \ {k} : endpoints'[j] = endpoints[j]
    BY <2>1, Zenon DEF Detached, IInv, EndpointsInv
  <2>3. ~Had(k, MapReasons)' => endpoints'[k] = NoEndpoint
    <3>1. ~Had(k, MapReasons)' /\ ~del[k].attached => endpoints[k] = NoEndpoint
      BY <1>2, <2>1, Zenon DEF PodInv, MapInv, Had
    <3>2. del[k].attached => endpoints'[k] = NoEndpoint
      BY <2>1, Zenon DEF Detached, IInv, EndpointsInv
    <3> QED BY <2>1, <3>1, <3>2, Zenon DEF Detached
  <2>4. DeleteReaps(k)' <=> DeleteReaps(k)
    BY <2>1 DEF DeleteReaps
  <2>5. VM!Exists(k)' <=> VM!Exists(k)
    BY <2>1, Zenon DEF VM!Exists
  <2>6. del'[k].pc # "detach"
    BY <2>1
  <2>7. PodInv(k)'
    BY <1>1, <1>2, <2>1, <2>3, <2>4, <2>5, <2>6, DeletionGoesOn, Zenon
  <2>8. Touches(k)
    BY <1>1, <1>3, <2>1, <2>2, TouchesOne, Zenon
  <2> QED BY <2>7, <2>8, OneKey, Zenon
<1>7. CASE DeleteRelease(k)
  <2>1. /\ UNCHANGED <<api, vms, excuse, endpoints>> /\ Release(k)
        /\ del[k].pc = "release" /\ del'[k].wl = del[k].wl
        /\ del'[k].pc = IF del[k].wl THEN "stop" ELSE "cleanup"
    BY <1>4, <1>7, Zenon DEF DeleteRelease, histVars
  <2>2. \A j \in Keys \ {k} : byKey'[j] = byKey[j]
    BY <2>1, Zenon DEF IInv, PoolInv, IPAMTypeOK, Release, ipamVars
  <2>3. del[k].pc # "detach" /\ del'[k].pc # "detach"
    BY <2>1
  <2>4. DeleteReaps(k)' <=> DeleteReaps(k)
    BY <2>1 DEF DeleteReaps
  <2>5. /\ VM!Exists(k)' <=> VM!Exists(k)
        /\ ~Had(k, MapReasons)' => endpoints'[k] = NoEndpoint
    BY <1>5, <2>1, <2>3, Zenon DEF VM!Exists, Had
  <2>6. PodInv(k)'
    BY <1>1, <1>2, <2>1, <2>3, <2>4, <2>5, DeletionGoesOn, Zenon
  <2>7. Touches(k)
    BY <1>1, <1>3, <2>1, <2>2, TouchesOne, Zenon
  <2> QED BY <2>6, <2>7, OneKey, Zenon
<1>8. CASE DeleteStop(k)
  <2>1. /\ UNCHANGED <<api, excuse, endpoints, byKey>> /\ (VM!Stop(k) \/ UNCHANGED vms)
        /\ del[k].pc = "stop" /\ del'[k].wl = del[k].wl /\ del'[k].pc = "destroy"
    BY <1>4, <1>8, Zenon DEF DeleteStop, Stops, ipamVars
  <2>2. \A j \in Keys \ {k} : vms'[j] = vms[j]
    BY <2>1, VMsElsewhere, Zenon
  <2>3. del[k].pc # "detach" /\ del'[k].pc # "detach"
    BY <2>1
  <2>4. DeleteReaps(k)' <=> DeleteReaps(k)
    BY <2>1 DEF DeleteReaps
  <2>5. /\ VM!Exists(k)' <=> VM!Exists(k)
        /\ ~Had(k, MapReasons)' => endpoints'[k] = NoEndpoint
    BY <1>5, <2>1, <2>3, VMStopped, Zenon DEF Had
  <2>6. PodInv(k)'
    BY <1>1, <1>2, <2>1, <2>3, <2>4, <2>5, DeletionGoesOn, Zenon
  <2>7. Touches(k)
    BY <1>1, <1>3, <2>1, <2>2, TouchesOne, Zenon
  <2> QED BY <2>6, <2>7, OneKey, Zenon
<1>9. CASE DeleteDestroy(k)
  <2>1. /\ UNCHANGED <<api, endpoints, byKey>> /\ Destroys(k)
        /\ del[k].pc = "destroy" /\ del'[k].pc = "cleanup"
    BY <1>4, <1>9, Zenon DEF DeleteDestroy, ipamVars
  <2>2. /\ \A j \in Keys \ {k} : vms'[j] = vms[j] /\ excuse'[j] = excuse[j]
        /\ excuse[k] \subseteq excuse'[k]
        /\ ~Had(k, VMReasons)' => ~VM!Exists(k)'
    BY <2>1, DestroysAt, VMsElsewhere, ExcuseAt, Zenon
  <2>3. del[k].pc # "detach" /\ del'[k].pc # "detach"
    BY <2>1
  <2>4. ~Had(k, MapReasons)' => endpoints'[k] = NoEndpoint
    BY <1>5, <2>1, <2>2, <2>3, HadGrows, Zenon
  <2>5. PodInv(k)'
    BY <1>1, <1>2, <2>1, <2>2, <2>3, <2>4, DeletionGoesOn, Zenon
  <2>6. Touches(k)
    BY <1>1, <1>3, <2>1, <2>2, TouchesOne, Zenon
  <2> QED BY <2>5, <2>6, OneKey, Zenon
<1>10. CASE DeleteCleanup(k)
  <2>1. /\ UNCHANGED <<vms, endpoints, excuse, byKey>> /\ Gone(k) /\ del[k].pc = "cleanup"
        /\ del'[k] = NoDelete
    BY <1>10, Zenon DEF DeleteCleanup, ipamVars, histVars, IInv, DelInv
  <2>2. del[k].pc # "detach" /\ del'[k].pc # "detach" /\ del'[k].pc = "idle"
    BY <2>1 DEF NoDelete
  <2>3. ~DeleteReaps(k)
    BY <2>1 DEF DeleteReaps
  <2>4. /\ VM!Exists(k)' <=> VM!Exists(k)
        /\ ~Had(k, MapReasons)' => endpoints'[k] = NoEndpoint
    BY <1>5, <2>1, <2>2, Zenon DEF VM!Exists, Had
  <2>5. PodInv(k)'
    BY <1>1, <1>2, <2>1, <2>2, <2>3, <2>4, GoneAt, DeletionGoesOn, Zenon
  <2>6. Touches(k)
    BY <1>1, <1>3, <2>1, GoneAt, TouchesOne, Zenon
  <2> QED BY <2>5, <2>6, OneKey, Zenon
<1> QED BY <1>6, <1>7, <1>8, <1>9, <1>10, Zenon

-----------------------------------------------------------------------------
(* The goroutines.                                                         *)

\* g is a goroutine of k.
AtRun(g, k) ==
  k = gos[g].key /\ gos[g] \in GoType /\ PodInv(k) /\ KeyInv(k) /\ gos[g].key # NoKey

LEMMA GoKey ==
  ASSUME IInv, RestartInv, EInv, NEW g \in Slots, gos[g].pc # "idle"
  PROVE  \E k \in Keys : AtRun(g, k)
<1>1. gos[g] \in GoType /\ gos[g].key \in Keys
  BY DEF IInv, GosInv, GoType, NoGo
<1> QED BY <1>1, LifecycleAssumption, Zenon DEF RestartInv, EInv, AtRun

\* What a step of it does.
GoActs(g, k) ==
  /\ OnlyGo(g) /\ (gos'[g].key = k \/ gos'[g] = NoGo)
  /\ UNCHANGED <<api, create, del, byKey>>
  /\ \A j \in Keys \ {k} : /\ pods'[j] = pods[j] /\ vms'[j] = vms[j]
                           /\ endpoints'[j] = endpoints[j] /\ excuse'[j] = excuse[j]
  /\ excuse[k] \subseteq excuse'[k]
  /\ Tracked(k)' <=> Tracked(k)
  /\ Tracked(k) => /\ pods'[k].policy = pods[k].policy /\ pods'[k].cs = pods[k].cs
                   /\ pods'[k].wl = pods[k].wl /\ pods'[k].ip = pods[k].ip

LEMMA GoTouches ==
  ASSUME NEW g \in Slots, NEW k \in Keys, AtRun(g, k), GoActs(g, k) PROVE Touches(k)
<1>1. NoGo.key = NoKey /\ NoKey \notin Keys
  BY LifecycleAssumption DEF NoGo
<1>2. \A j \in Keys \ {k} : SameWork(j)
  BY <1>1, Zenon DEF AtRun, GoActs, OnlyGo, SameWork
<1> QED BY <1>2, TouchesOne, Zenon DEF GoActs

\* The parts of the invariant that hardly look at the goroutine: it keeps the
\* VM of a key nobody tracks only as long as it is going to destroy it.
LEMMA GoRest ==
  ASSUME NEW g \in Slots, NEW k \in Keys, AtRun(g, k), GoActs(g, k),
         ~Had(k, VMReasons)' /\ ~Tracked(k) /\ VM!Exists(k)' =>
           \/ gos'[g].key = k /\ Reaps(g)'
           \/ VM!Exists(k) /\ ~Reaps(g)
  PROVE  OutInv(k)' /\ SpecInv(k)' /\ VMInv(k)'
<1>1. \A R : Had(k, R) => Had(k, R)'
  BY HadGrows, Zenon DEF GoActs
<1>2. OutInv(k)'
  BY Zenon DEF AtRun, GoActs, PodInv, OutInv
<1>3. SpecInv(k)'
  BY Zenon DEF AtRun, GoActs, PodInv, SpecInv
<1>4. VMInv(k)'
  <2> SUFFICES ASSUME ~Had(k, VMReasons)' PROVE VMInv(k)'
    BY Zenon DEF VMInv
  <2>1. ~Had(k, VMReasons) /\ create.key # k /\ create'.key # k
    BY <1>1, Zenon DEF AtRun, GoActs, PodInv, VMInv
  <2>2. Tracked(k) => pods'[k].wl
    BY <2>1, Zenon DEF AtRun, GoActs, PodInv, VMInv
  <2>3. ASSUME ~Tracked(k), ~DeleteReaps(k), VM!Exists(k)'
        PROVE  \E h \in Slots : gos'[h].key = k /\ Reaps(h)'
    <3>1. CASE gos'[g].key = k /\ Reaps(g)'
      BY <3>1, Zenon
    <3>2. CASE VM!Exists(k) /\ ~Reaps(g)
      <4>1. PICK h \in Slots : gos[h].key = k /\ Reaps(h)
        BY <2>1, <2>3, <3>2, Zenon DEF AtRun, PodInv, VMInv
      <4>2. gos'[h] = gos[h]
        BY <3>2, <4>1, Zenon DEF GoActs, OnlyGo
      <4> QED BY <4>1, <4>2, Zenon DEF Reaps
    <3> QED BY <2>3, <3>1, <3>2, Zenon
  <2>4. DeleteReaps(k)' <=> DeleteReaps(k)
    BY Zenon DEF GoActs, DeleteReaps
  <2> QED BY <2>1, <2>2, <2>3, <2>4, Zenon DEF VMInv, GoActs
<1> QED BY <1>2, <1>3, <1>4, Zenon

\* A restart goroutine is the only one of its key, unless it has outlived a
\* Pod.
Alone(g, k) == Tracked(k) /\ \A h \in Slots : Works(h, k) => h = g

LEMMA GoAlone ==
  ASSUME NEW g \in Slots, NEW k \in Keys, AtRun(g, k), Works(g, k), "outlived" \notin excuse[k]
  PROVE  Alone(g, k) /\ gos[g].pc # "orphan"
         /\ (gos[g].pc \in {"backoff", "detach"} => Calm(k))
BY Zenon DEF AtRun, PodInv, OutInv, KeyInv, Alone, Calm

\* What is left to show about a step of a restart goroutine.
MapsNext(g, k) ==
  /\ Works(g, k)' => GoMaps(g, k)'
  /\ gos'[g] = NoGo \/ gos'[g].pc \in {"backoff", "detach"} => Mapped(k)'

ReachesNext(g, k) ==
  /\ Works(g, k)' => GoReaches(g, k)'
  /\ gos'[g] = NoGo \/ gos'[g].pc \in {"backoff", "detach"} => Reached(k)'

LEMMA GoWorks ==
  ASSUME IInv, NEW g \in Slots, NEW k \in Keys, AtRun(g, k), GoActs(g, k), Works(g, k),
         Works(g, k)' \/ gos'[g] = NoGo,
         ~Had(k, MapReasons)' /\ Alone(g, k) => MapsNext(g, k),
         ~Had(k, AddrReasons)' /\ Alone(g, k) => ReachesNext(g, k)
  PROVE  MapInv(k)' /\ AddrInv(k)'
<1>1. "outlived" \notin excuse'[k] => Alone(g, k)
  BY GoAlone, Zenon DEF GoActs
<1>2. Tracked(k) => create'.key # k /\ del'[k].pc # "detach"
  <2>1. Tracked(k) => create.key # k /\ del[k].pc = "idle"
    BY NotInCall, Zenon
  <2> QED BY <2>1 DEF GoActs
<1>3. Alone(g, k) => \A h \in Slots : Works(h, k)' => h = g
  BY Zenon DEF Alone, GoActs, OnlyGo, Works
<1>4. Alone(g, k) => (Calm(k)' => gos'[g] = NoGo \/ gos'[g].pc \in {"backoff", "detach"})
  BY Zenon DEF Calm
<1>5. MapInv(k)'
  <2> SUFFICES ASSUME ~Had(k, MapReasons)' PROVE MapInv(k)'
    BY Zenon DEF MapInv
  <2>1. Alone(g, k)
    BY <1>1, Zenon DEF Had, MapReasons
  <2>2. MapsNext(g, k) /\ Tracked(k) /\ Tracked(k)'
    BY <2>1, Zenon DEF Alone, GoActs
  <2>3. Calm(k)' => Mapped(k)'
    BY <1>4, <2>1, <2>2, Zenon DEF MapsNext
  <2>4. \A h \in Slots : Works(h, k)' => GoMaps(h, k)'
    BY <1>3, <2>1, <2>2, Zenon DEF MapsNext
  <2> QED BY <1>2, <2>2, <2>3, <2>4, Zenon DEF MapInv
<1>6. AddrInv(k)'
  <2> SUFFICES ASSUME ~Had(k, AddrReasons)' PROVE AddrInv(k)'
    BY Zenon DEF AddrInv
  <2>1. Alone(g, k)
    BY <1>1, Zenon DEF Had, AddrReasons
  <2>2. ReachesNext(g, k) /\ Tracked(k) /\ Tracked(k)'
    BY <2>1, Zenon DEF Alone, GoActs
  <2>3. Calm(k)' => Reached(k)'
    BY <1>4, <2>1, <2>2, Zenon DEF ReachesNext
  <2>4. \A h \in Slots : Works(h, k)' => GoReaches(h, k)'
    BY <1>3, <2>1, <2>2, Zenon DEF ReachesNext
  <2> QED BY <1>2, <2>2, <2>3, <2>4, Zenon DEF AddrInv
<1> QED BY <1>5, <1>6, Zenon

\* The kill a failed probe ends in: it stops and destroys the VM.
LEMMA GoKills ==
  ASSUME NEW g \in Slots, NEW k \in Keys, AtRun(g, k), GoActs(g, k), ~Works(g, k), ~Works(g, k)',
         pods'[k] = pods[k], endpoints'[k] = endpoints[k],
         vms'[k].phase = "running" => vms'[k] = vms[k]
  PROVE  MapInv(k)' /\ AddrInv(k)'
<1>1. \A R : Had(k, R) => Had(k, R)'
  BY HadGrows, Zenon DEF GoActs
<1>2. \A h \in Slots : /\ Works(h, k)' <=> Works(h, k)
                       /\ Works(h, k) => gos'[h] = gos[h]
  BY Zenon DEF GoActs, OnlyGo, Works
<1>3. Calm(k)' <=> Calm(k)
  BY <1>2, Zenon DEF Calm
<1>4. MapInv(k)'
  <2>1. \A h \in Slots : Works(h, k) => (GoMaps(h, k)' <=> GoMaps(h, k))
    BY <1>2, Zenon DEF GoMaps, Between, NoEndpoint, NoIP, NoAddr
  <2>2. Mapped(k)' <=> Mapped(k)
    BY Zenon DEF Mapped, NoEndpoint, NoIP, NoAddr
  <2>3. Had(k, MapReasons) => Had(k, MapReasons)'
    BY <1>1, Zenon
  <2> QED BY <1>2, <1>3, <2>1, <2>2, <2>3, Zenon
          DEF AtRun, PodInv, MapInv, GoActs, NoEndpoint, NoIP, NoAddr
<1>5. AddrInv(k)'
  <2>1. \A h \in Slots : Works(h, k) /\ GoReaches(h, k) => GoReaches(h, k)'
    BY <1>2, Zenon DEF GoReaches, Current
  <2>2. Reached(k) => Reached(k)'
    BY Zenon DEF Reached
  <2>3. Had(k, AddrReasons) => Had(k, AddrReasons)'
    BY <1>1, Zenon
  <2>4. Current(k, create.addr) => Current(k, create.addr)'
    BY Zenon DEF Current, GoActs
  <2> QED BY <1>2, <1>3, <2>1, <2>2, <2>3, <2>4, Zenon DEF AtRun, PodInv, AddrInv, GoActs
<1> QED BY <1>4, <1>5, Zenon

LEMMA GoPods ==
  ASSUME EInv, NEW g \in Slots, NEW k \in Keys, AtRun(g, k), GoActs(g, k),
         ~Had(k, VMReasons)' /\ ~Tracked(k) /\ VM!Exists(k)' =>
           \/ gos'[g].key = k /\ Reaps(g)'
           \/ VM!Exists(k) /\ ~Reaps(g),
         MapInv(k)' /\ AddrInv(k)'
  PROVE  PodsEInv'
BY GoRest, GoTouches, OneKey, Zenon DEF PodInv

\* A goroutine's program counter moves and nothing else of it, or it ends.
LEMMA GoGotoIs ==
  ASSUME IInv, NEW g \in Slots, gos[g] \in GoType, NEW pc, GoGoto(g, pc)
  PROVE  /\ OnlyGo(g) /\ gos'[g].pc = pc /\ gos'[g].key = gos[g].key /\ gos'[g].ip = gos[g].ip
         /\ gos'[g].was = gos[g].was /\ gos'[g].addr = gos[g].addr /\ gos'[g].att = gos[g].att
         /\ gos'[g].new = gos[g].new
<1>1. gos' = [gos EXCEPT ![g] = [gos[g] EXCEPT !.pc = pc]]
  BY Zenon DEF GoGoto
<1>2. PICK x \in GoType : x = gos[g]
  BY Zenon
<1>3. gos'[g] = [x EXCEPT !.pc = pc] /\ OnlyGo(g)
  BY <1>1, <1>2, Zenon DEF OnlyGo, IInv, GosInv
<1> QED BY <1>2, <1>3, Zenon DEF GoType

LEMMA GoDoneIs ==
  ASSUME IInv, NEW g \in Slots, GoDone(g)
  PROVE  /\ OnlyGo(g) /\ gos'[g] = NoGo /\ gos'[g].pc = "idle" /\ gos'[g].key = NoKey
         /\ \A k \in Keys : ~Works(g, k)'
<1>1. OnlyGo(g) /\ gos'[g] = NoGo
  BY Zenon DEF GoDone, OnlyGo, IInv, GosInv
<1>2. gos'[g].pc = "idle" /\ gos'[g].key = NoKey
  BY <1>1 DEF NoGo
<1>3. \A k \in Keys : ~Works(g, k)'
  BY <1>2, LifecycleAssumption, Zenon DEF Works
<1> QED BY <1>1, <1>2, <1>3, Zenon

\* A Pod's record is replaced.
LEMMA RecordSet ==
  ASSUME IInv, NEW k \in Keys, NEW st \in PodType, pods' = [pods EXCEPT ![k] = st]
  PROVE  Tracked(k)' /\ pods'[k] = st /\ \A j \in Keys \ {k} : pods'[j] = pods[j]
<1>1. st # NoPod
  BY DEF PodType, NoPod
<1> QED BY <1>1, Zenon DEF IInv, PodsInv, Tracked

\* The backoff is over.
LEMMA WakePods ==
  ASSUME IInv, RestartInv, EInv, NEW g \in Slots, RestartWake(g) PROVE PodsEInv'
<1>1. gos[g].pc = "backoff" /\ UNCHANGED <<api, create, del, vms, endpoints, excuse, byKey>>
  BY Zenon DEF RestartWake, GoAt, callVars, ipamVars, histVars
<1>2. PICK k \in Keys : AtRun(g, k)
  BY <1>1, GoKey
<1>3. /\ Works(g, k) /\ ~Reaps(g)
  BY <1>1, <1>2 DEF AtRun, Works, Reaps
<1>4. /\ VM!Exists(k)' <=> VM!Exists(k)
      /\ \A R : Had(k, R)' <=> Had(k, R)
  BY <1>1, Zenon DEF VM!Exists, Had
<1>5. ASSUME OnlyGo(g), gos'[g].key = k \/ gos'[g] = NoGo,
             \A j \in Keys \ {k} : pods'[j] = pods[j], Tracked(k)' <=> Tracked(k),
             Tracked(k) => /\ pods'[k].policy = pods[k].policy /\ pods'[k].cs = pods[k].cs
                           /\ pods'[k].wl = pods[k].wl /\ pods'[k].ip = pods[k].ip
                           /\ pods'[k].attached = pods[k].attached,
             \/ gos'[g] = NoGo
             \/ /\ gos'[g].pc = "detach" /\ gos'[g].key = k /\ gos'[g].was = pods[k].attached
                /\ gos'[g].ip = pods[k].ip
      PROVE  PodsEInv'
  <2>1. GoActs(g, k)
    BY <1>1, <1>5, Zenon DEF GoActs
  <2>2. Works(g, k)' \/ gos'[g] = NoGo
    BY <1>5 DEF Works
  <2>3. ASSUME ~Had(k, MapReasons)', Alone(g, k) PROVE MapsNext(g, k)
    <3>1. Mapped(k)
      <4>1. "outlived" \notin excuse[k] /\ ~Had(k, MapReasons)
        BY <1>4, <2>3, Zenon DEF Had, MapReasons
      <4> QED BY <1>1, <1>2, <1>3, <2>3, <4>1, GoAlone, Zenon DEF Alone, AtRun, PodInv, MapInv
    <3>2. Mapped(k)'
      BY <1>1, <1>5, <2>3, <3>1, Zenon DEF Mapped, Alone, NoEndpoint, NoIP, NoAddr
    <3>3. Works(g, k)' => gos'[g].pc = "detach" /\ gos'[g].was = pods'[k].attached
                          /\ gos'[g].ip = pods'[k].ip
      <4>1. ~(gos'[g] = NoGo /\ Works(g, k)')
        BY LifecycleAssumption DEF Works, NoGo
      <4> QED BY <1>5, <2>3, <4>1, Zenon DEF Alone
    <3> HIDE DEF Mapped
    <3>4. Works(g, k)' => GoMaps(g, k)'
      BY <3>3 DEF GoMaps, Between
    <3> QED BY <3>2, <3>4, Zenon DEF MapsNext
  <2>4. ASSUME ~Had(k, AddrReasons)', Alone(g, k) PROVE ReachesNext(g, k)
    <3>1. Reached(k)
      <4>1. "outlived" \notin excuse[k] /\ ~Had(k, AddrReasons)
        BY <1>4, <2>4, Zenon DEF Had, AddrReasons
      <4> QED BY <1>1, <1>2, <1>3, <2>4, <4>1, GoAlone, Zenon DEF Alone, AtRun, PodInv, AddrInv
    <3>2. Reached(k)'
      BY <1>1, <1>5, <2>4, <3>1, Zenon DEF Reached, Alone
    <3>3. Works(g, k)' => gos'[g].pc = "detach"
      <4>1. ~(gos'[g] = NoGo /\ Works(g, k)')
        BY LifecycleAssumption DEF Works, NoGo
      <4> QED BY <1>5, <4>1, Zenon
    <3>4. Works(g, k)' => GoReaches(g, k)'
      BY <3>3 DEF GoReaches
    <3> QED BY <3>2, <3>4, Zenon DEF ReachesNext
  <2>5. MapInv(k)' /\ AddrInv(k)'
    BY <1>2, <1>3, <2>1, <2>2, <2>3, <2>4, GoWorks, Zenon
  <2> QED BY <1>2, <1>3, <1>4, <2>1, <2>5, GoPods, Zenon
<1>6. CASE ~Tracked(k) /\ GoDone(g) /\ UNCHANGED pods
  BY <1>5, <1>6, GoDoneIs, Zenon DEF Tracked
<1>7. CASE Tracked(k) /\ GoDone(g) /\ pods' = [pods EXCEPT ![k].restarting = FALSE]
  <2>1. PICK st \in PodType : st = pods[k]
    BY <1>7, Zenon DEF IInv, PodsInv, Tracked
  <2>2. pods' = [pods EXCEPT ![k] = [st EXCEPT !.restarting = FALSE]]
    BY <1>7, <2>1, Zenon
  <2>3. [st EXCEPT !.restarting = FALSE] \in PodType /\ [st EXCEPT !.restarting = FALSE].ip = pods[k].ip
    BY <2>1, Zenon DEF PodType
  <2>4. Tracked(k)' /\ pods'[k] = [st EXCEPT !.restarting = FALSE]
        /\ \A j \in Keys \ {k} : pods'[j] = pods[j]
    BY <2>2, <2>3, RecordSet, Zenon
  <2>5. /\ pods'[k].policy = st.policy /\ pods'[k].cs = st.cs /\ pods'[k].wl = st.wl
        /\ pods'[k].ip = st.ip /\ pods'[k].attached = st.attached
    BY <2>4, Zenon DEF PodType
  <2> QED BY <1>5, <1>7, <2>1, <2>4, <2>5, GoDoneIs, Zenon
<1>8. CASE /\ Tracked(k) /\ pods' = [pods EXCEPT ![k].probes = FALSE]
           /\ gos' = [gos EXCEPT ![g].pc = "detach", ![g].uid = pods[k].uid,
                                 ![g].stale = pods[k].uid # gos[g].uid,
                                 ![g].ip = pods[k].ip, ![g].was = pods[k].attached]
  <2>1. PICK st \in PodType : st = pods[k]
    BY <1>8, Zenon DEF IInv, PodsInv, Tracked
  <2>2. pods' = [pods EXCEPT ![k] = [st EXCEPT !.probes = FALSE]]
    BY <1>8, <2>1, Zenon
  <2>3. [st EXCEPT !.probes = FALSE] \in PodType /\ [st EXCEPT !.probes = FALSE].ip = pods[k].ip
    BY <2>1, Zenon DEF PodType
  <2>4. Tracked(k)' /\ pods'[k] = [st EXCEPT !.probes = FALSE]
        /\ \A j \in Keys \ {k} : pods'[j] = pods[j]
    BY <2>2, <2>3, RecordSet, Zenon
  <2>5. /\ pods'[k].policy = st.policy /\ pods'[k].cs = st.cs /\ pods'[k].wl = st.wl
        /\ pods'[k].ip = st.ip /\ pods'[k].attached = st.attached
    BY <2>4, Zenon DEF PodType
  <2>6. OnlyGo(g) /\ gos'[g].pc = "detach" /\ gos'[g].key = k /\ gos'[g].was = pods[k].attached
        /\ gos'[g].ip = pods[k].ip
    <3>1. PICK x \in GoType : x = gos[g]
      BY <1>2, Zenon DEF AtRun
    <3>2. PICK ip, was, u, s : ip = pods[k].ip /\ was = pods[k].attached /\ u = pods[k].uid
                              /\ s = (pods[k].uid # gos[g].uid)
      BY Zenon
    <3>3. OnlyGo(g) /\ gos'[g] = [x EXCEPT !.pc = "detach", !.uid = u, !.stale = s, !.ip = ip,
                                         !.was = was]
      BY <1>8, <3>1, <3>2, Zenon DEF OnlyGo, IInv, GosInv
    <3>4. gos'[g].pc = "detach" /\ gos'[g].key = x.key /\ gos'[g].ip = ip /\ gos'[g].was = was
      BY <3>3, Zenon DEF GoType
    <3> QED BY <1>2, <3>1, <3>2, <3>3, <3>4, Zenon DEF AtRun
  <2> QED BY <1>5, <1>8, <2>1, <2>4, <2>5, <2>6, Zenon
<1> QED BY <1>2, <1>6, <1>7, <1>8, Zenon DEF RestartWake, AtRun

\* A step outside the critical sections.
LEMMA GoActsAway ==
  ASSUME IInv, NEW g \in Slots, NEW k \in Keys, AtRun(g, k), NEW u, NEW why, OnlyGo(g),
         gos'[g].key = k \/ gos'[g] = NoGo, UNCHANGED <<api, pods, create, del, byKey>>,
         UNCHANGED vms \/ VM!Create(k, u) \/ VM!Start(k) \/ VM!Stop(k) \/ VM!Destroy(k),
         UNCHANGED excuse \/ Excuse(k, why),
         \A j \in Keys \ {k} : endpoints'[j] = endpoints[j]
  PROVE  /\ GoActs(g, k)
         /\ \A R : Had(k, R) => Had(k, R)'
         /\ Mapped(k) /\ endpoints'[k] = endpoints[k] => Mapped(k)'
<1>1. /\ \A j \in Keys \ {k} : vms'[j] = vms[j] /\ excuse'[j] = excuse[j]
      /\ excuse[k] \subseteq excuse'[k]
  BY VMsElsewhere, ExcuseAt, Zenon
<1>2. GoActs(g, k)
  BY <1>1, Zenon DEF GoActs, Tracked
<1>3. \A R : Had(k, R) => Had(k, R)'
  BY <1>1, HadGrows, Zenon
<1>4. Mapped(k) /\ endpoints'[k] = endpoints[k] => Mapped(k)'
  BY Zenon DEF Mapped, NoEndpoint, NoIP, NoAddr
<1> QED BY <1>2, <1>3, <1>4, Zenon

\* What the invariant says of a restart goroutine that has outlived no Pod.
LEMMA GoKnows ==
  ASSUME NEW g \in Slots, NEW k \in Keys, AtRun(g, k), Alone(g, k), Works(g, k)
  PROVE  /\ ~Had(k, MapReasons) => GoMaps(g, k)
         /\ ~Had(k, AddrReasons) => GoReaches(g, k) /\ ~Had(k, MapReasons)
         /\ gos[g].pc \in {"backoff", "detach"} =>
              /\ ~Had(k, MapReasons) => Mapped(k)
              /\ ~Had(k, AddrReasons) => Reached(k)
<1>1. ~Had(k, AddrReasons) => ~Had(k, MapReasons)
  BY Zenon DEF Had, AddrReasons, MapReasons
<1>2. gos[g].pc \in {"backoff", "detach"} => Calm(k)
  BY Zenon DEF Alone, Calm
<1> QED BY <1>1, <1>2, Zenon DEF Alone, AtRun, PodInv, MapInv, AddrInv

\* Detach.
LEMMA RestartDetachPods ==
  ASSUME IInv, RestartInv, EInv, NEW g \in Slots, RestartDetach(g) PROVE PodsEInv'
<1>1. gos[g].pc = "detach" /\ UNCHANGED <<api, pods, create, del, vms, excuse, byKey>>
  BY Zenon DEF RestartDetach, GoAt, callVars, ipamVars, histVars
<1>2. PICK k \in Keys : AtRun(g, k)
  BY <1>1, GoKey
<1>3. Works(g, k)
  BY <1>1, <1>2 DEF AtRun, Works
<1>4. OnlyGo(g) /\ gos'[g].pc = "stop" /\ gos'[g].key = k /\ gos'[g].ip = gos[g].ip
  <2>1. PICK x \in GoType : x = gos[g]
    BY <1>2, Zenon DEF AtRun
  <2>2. OnlyGo(g) /\ gos'[g] = [x EXCEPT !.pc = "stop", !.was = FALSE]
    BY <2>1, Zenon DEF RestartDetach, OnlyGo, IInv, GosInv
  <2> QED BY <1>2, <2>1, <2>2, Zenon DEF GoType, AtRun
<1>5. /\ \A j \in Keys \ {k} : endpoints'[j] = endpoints[j]
      /\ gos[g].was => endpoints'[k] = NoEndpoint
      /\ ~gos[g].was => endpoints'[k] = endpoints[k]
  BY <1>2, Zenon DEF RestartDetach, Detached, AtRun, IInv, EndpointsInv
<1>6. GoActs(g, k) /\ \A R : Had(k, R) => Had(k, R)'
  BY <1>1, <1>2, <1>4, <1>5, GoActsAway, Zenon
<1>7. Works(g, k)' /\ Reaps(g)' /\ gos'[g] # NoGo /\ gos'[g].pc \notin {"backoff", "detach"}
  BY <1>4 DEF Works, Reaps, NoGo
<1>8. ASSUME ~Had(k, MapReasons)', Alone(g, k) PROVE MapsNext(g, k)
  <2>1. GoMaps(g, k) /\ Mapped(k)
    BY <1>1, <1>2, <1>3, <1>6, <1>8, GoKnows
  <2>2. gos[g].ip = pods[k].ip /\ gos[g].was = pods[k].attached
    BY <1>1, <2>1 DEF GoMaps
  <2>3. endpoints'[k] = NoEndpoint
    BY <1>5, <2>1, <2>2, Zenon DEF Mapped
  <2>4. GoMaps(g, k)'
    BY <1>1, <1>4, <2>2, <2>3 DEF GoMaps, Between, NoEndpoint
  <2> QED BY <1>7, <2>4, Zenon DEF MapsNext
<1>9. GoReaches(g, k)'
  BY <1>4 DEF GoReaches
<1>10. MapInv(k)' /\ AddrInv(k)'
  BY <1>2, <1>3, <1>6, <1>7, <1>8, <1>9, GoWorks, Zenon DEF ReachesNext
<1> QED BY <1>2, <1>4, <1>6, <1>7, <1>10, GoPods, Zenon

LEMMA BetweenPCs ==
  ASSUME NEW pc \in Between \cup {"finish"}
  PROVE  pc \notin {"backoff", "detach", "idle", "killStop", "killDestroy"}
         /\ (pc \in Between => pc # "finish")
         /\ (pc \in Between \ {"attach"} =>
               pc \in {"stop", "destroy", "create", "start", "undo", "observe"})
BY DEF Between

\* A goroutine moves on between its Detach and its Attach, and the mapping
\* stays away.
LEMMA BetweenPods ==
  ASSUME IInv, RestartInv, EInv, NEW g \in Slots, NEW k \in Keys, AtRun(g, k), NEW u, NEW why,
         NEW pc \in Between \cup {"finish"}, GoGoto(g, pc), gos[g].pc \in Between \ {"attach"},
         UNCHANGED <<api, pods, create, del, endpoints, byKey>>,
         UNCHANGED vms \/ VM!Create(k, u) \/ VM!Start(k) \/ VM!Stop(k) \/ VM!Destroy(k),
         UNCHANGED excuse \/ Excuse(k, why),
         ~Had(k, VMReasons)' /\ VM!Exists(k)' =>
           Reaps(g)' \/ (VM!Exists(k) /\ ~Reaps(g)),
         pc # "attach",
         pc \in {"create", "finish"} /\ ~Had(k, AddrReasons)' /\ Alone(g, k) =>
           vms'[k].phase # "running"
  PROVE  PodsEInv'
<1>1. /\ OnlyGo(g) /\ gos'[g].pc = pc /\ gos'[g].key = k /\ gos'[g].ip = gos[g].ip
      /\ gos'[g].att = gos[g].att
  BY GoGotoIs, Zenon DEF AtRun
<1>2. GoActs(g, k) /\ \A R : Had(k, R) => Had(k, R)'
  BY <1>1, GoActsAway, Zenon
<1>3. Works(g, k) /\ Works(g, k)' /\ gos'[g] # NoGo /\ gos'[g].pc \notin {"backoff", "detach"}
  <2>1. gos[g].pc \in Between \cup {"finish"}
    BY Zenon
  <2>2. NoGo.pc = "idle"
    BY Zenon DEF NoGo
  <2>3. gos'[g] # NoGo /\ gos'[g].pc \notin {"backoff", "detach"}
    BY <1>1, <2>2, BetweenPCs, Zenon
  <2> QED BY <1>1, <2>1, <2>3, BetweenPCs, Zenon DEF AtRun, Works
<1>4. ~gos[g].att
  BY BetweenPCs, Zenon DEF EInv, FlagsInv
<1>5. ASSUME ~Had(k, MapReasons)', Alone(g, k) PROVE MapsNext(g, k)
  <2>1. GoMaps(g, k)
    BY <1>2, <1>3, <1>5, GoKnows, Zenon
  <2>2. gos[g].ip = pods[k].ip /\ endpoints[k] = NoEndpoint
    BY <2>1, Zenon DEF GoMaps
  <2>3. GoMaps(g, k)'
    BY <1>1, <1>3, <1>4, <2>2, Zenon DEF GoMaps, Between, NoEndpoint, NoIP, NoAddr
  <2> QED BY <1>3, <2>3, Zenon DEF MapsNext
<1>6. ASSUME ~Had(k, AddrReasons)', Alone(g, k) PROVE ReachesNext(g, k)
  <2>1. GoReaches(g, k)'
    BY <1>1, <1>4, <1>6, Zenon DEF GoReaches
  <2> QED BY <1>3, <2>1, Zenon DEF ReachesNext
<1>7. MapInv(k)' /\ AddrInv(k)'
  BY <1>2, <1>3, <1>5, <1>6, GoWorks, Zenon
<1> QED BY <1>1, <1>2, <1>7, GoPods, Zenon

=============================================================================
