---------------------------- MODULE PodLifecycle ----------------------------
(***************************************************************************)
(* pkg/provider: Pods realised as micro-VMs.  CreatePod, DeletePod, the    *)
(* status reconcile, the restart goroutines and the probe failures of the  *)
(* provider run concurrently over four stores: the provider's Pod map, the *)
(* runtime's VMs (MicroVMs), the IP allocator (PodIPAM) and the Pod        *)
(* router's endpoint map.  The process may crash and come back.            *)
(*                                                                         *)
(* A Pod has one container (translatePod rejects others) and its workload  *)
(* ID is a function of its key, so VMs are indexed by key.  Deleting a Pod *)
(* and creating one of the same name gives the key a new uid.  Steps are   *)
(* cut where the code calls the runtime or the router, or lets go of       *)
(* Provider.mu; createMu is held by the call `create` records.             *)
(*                                                                         *)
(* Virtual Kubelet and the API server are external.  Virtual Kubelet       *)
(* handles one call per Pod key at a time (its work queue is keyed by Pod),*)
(* retries a CreatePod that failed, and leaves Pods in a final phase       *)
(* alone.  A call that fails before it changed anything is no step.        *)
(***************************************************************************)
EXTENDS PodIPAM, FiniteSets

CONSTANTS NumAddrs,   \* as in MicroVMs
          MaxUid,     \* incarnations of a Pod key
          MaxGos,     \* goroutines in flight (restarts and probe kills)
          MaxFaults,  \* failures of external commands, and crashes, in a behaviour
          Specs,      \* restart policies, "Unsupported" and "WrongArch" Pods
          Probed,     \* whether containers declare probes
          CanCrash

ASSUME LifecycleAssumption ==
  /\ NoKey \notin Keys
  /\ Size \in Nat \ {0}
  /\ IsIPv4 \in BOOLEAN
  /\ NumAddrs \in Nat \ {0}
  /\ {MaxUid, MaxGos, MaxFaults} \subseteq Nat
  /\ Specs \subseteq {"Always", "OnFailure", "Never", "Unsupported", "WrongArch"}
  /\ {Probed, CanCrash} \subseteq BOOLEAN

VARIABLES
  api,        \* what the API server holds for each key
  pods,       \* Provider.pods
  create,     \* the CreatePod call holding createMu
  del,        \* del[k]: the DeletePod call for key k past its critical section
  gos,        \* goroutines of restartWorkload and failProbe
  probers,    \* probers[k]: sets of prober goroutines not cancelled
  failers,    \* failers[k]: startup and liveness probers that may still call failProbe
  vms,        \* the runtime's VMs
  endpoints,  \* Router.endpoints
  dirs,       \* <<key, uid>> with ephemeral volume directories on disk
  kubelet,    \* "up", "down", or recovering the allocator
  toRecover,  \* API Pods RecoverAllocations has still to reserve
  faults,     \* failures left
  excuse      \* history: what has happened to a key (see Reasons)

callVars == <<create, del>>
probeVars == <<probers, failers>>
histVars == <<faults, excuse>>
vars == <<api, pods, create, del, gos, probers, failers, vms, byKey, byIP, cursor,
          endpoints, dirs, kubelet, toRecover, faults, excuse>>

VM == INSTANCE MicroVMs WITH IDs <- Keys

NoAddr == NumAddrs           \* st.vmIP = ""
Slots  == 1 .. MaxGos
Uids   == 1 .. MaxUid

NoPod      == [uid |-> 0]
NoEndpoint == [ip |-> NoIP, addr |-> NoAddr]
NoCall     == [pc |-> "idle", key |-> NoKey]
NoDelete   == [pc |-> "idle"]
NoGo       == [pc |-> "idle", key |-> NoKey]

\* A restart or probe kill outlived the Pod that launched it, and is still at
\* it when a new Pod of that name is created; a pf load, a Destroy, the
\* recovery list failed; recovery found the address taken; the process crashed.
Reasons == {"outlived", "crossed", "loadFailed", "destroyFailed", "listFailed",
            "conflict", "crash"}

Init ==
  /\ api = [k \in Keys |-> [uid |-> 0, state |-> "absent", spec |-> "none",
                            ip |-> NoIP, cs |-> "unset"]]
  /\ pods = [k \in Keys |-> NoPod]
  /\ create = NoCall
  /\ del = [k \in Keys |-> NoDelete]
  /\ gos = [g \in Slots |-> NoGo]
  /\ probers = [k \in Keys |-> 0]
  /\ failers = [k \in Keys |-> {}]
  /\ VM!Init
  /\ IPAMInit
  /\ endpoints = [k \in Keys |-> NoEndpoint]
  /\ dirs = {}
  /\ kubelet = "up"
  /\ toRecover = {}
  /\ faults = MaxFaults
  /\ excuse = [k \in Keys |-> {}]

-----------------------------------------------------------------------------
(* Helpers.                                                                *)

\* The Pod controller starts once the allocator is recovered.
Up == kubelet = "up" /\ toRecover = {}
Tracked(k) == pods[k] # NoPod
InCall(k) == create.key = k \/ del[k].pc # "idle"

\* An external command fails.
Fault == faults > 0 /\ faults' = faults - 1
Sound == UNCHANGED faults
Excuse(k, why) == excuse' = [excuse EXCEPT ![k] = @ \cup {why}]

InFlight(k) == {g \in Slots : gos[g].key = k}
NoteIfInFlight(k, why) ==
  IF InFlight(k) # {} THEN Excuse(k, why) ELSE UNCHANGED excuse

\* shouldRestart, with exit code 1 for any that is not zero
ShouldRestart(policy, exit) ==
  policy = "Always" \/ (policy = "OnFailure" /\ exit # 0)

\* The exit code reconcileStatus derives from what the runtime says.  A VM
\* the runtime lost counts as a failure.
ExitCode(obs) == IF obs = "stopped" THEN 0 ELSE 1

\* Faulty: a VM the runtime lost is not restarted.
WantsRestartUnlessLost(st, obs) ==
  obs \in {"stopped", "failed"} /\ ShouldRestart(st.policy, ExitCode(obs))

WantsRestart(st, obs) ==
  /\ obs \in {"none", "stopped", "failed"}
  /\ ShouldRestart(st.policy, ExitCode(obs))

(***************************************************************************)
(* reconcileStatus for the one container: its state, from which the phase  *)
(* follows (waiting: Pending, running: Running, the others as named).  An  *)
(* inspect error ("error") keeps the previous state.                       *)
(***************************************************************************)
ContainerState(st, obs) ==
  IF WantsRestart(st, obs) THEN "waiting"
  ELSE CASE obs = "error"   -> IF st.cs = "unset" THEN "waiting" ELSE st.cs
         [] obs = "created" -> "waiting"
         [] obs = "running" -> "running"
         [] obs = "failed"  -> "failed"
         [] OTHER           -> "succeeded"   \* stopped, or lost

FinalState(cs) == cs \in {"succeeded", "failed"}

\* st after a reconcile; terminalStatus is sticky.
Reconciled(st, obs) ==
  IF st.terminal THEN st
  ELSE [st EXCEPT !.cs = ContainerState(st, obs),
                  !.restarting = @ \/ WantsRestart(st, obs)]

\* Faulty: ignores a restart in flight.
LaunchesTwice(st, obs) == ~st.terminal /\ WantsRestart(st, obs)

\* maybeTriggerRestart launches a goroutine unless one is in flight.
Launches(st, obs) == ~st.terminal /\ WantsRestart(st, obs) /\ ~st.restarting

\* The runtime's answer to Status, or an error that is not ErrNotFound.
Observes(k, obs) ==
  \/ obs = vms[k].phase /\ Sound
  \/ obs = "error" /\ Fault

FreeSlots == {g \in Slots : gos[g].pc = "idle"}
FreeSlot == CHOOSE g \in FreeSlots : TRUE

(***************************************************************************)
(* go p.restartWorkload(...), from "backoff"; the tail of failProbe, from  *)
(* "killStop".  uid: the Pod that launched it, from the snapshot on the    *)
(* Pod whose spec it rebuilds; stale: the two differed.  ip, was, addr:    *)
(* podIP, wasAttached, vmIP; att, new: finishRestart's attached and        *)
(* newID # "".  Variables the code is done with are reset.                 *)
(***************************************************************************)
Spawn(k, uid, pc) ==
  /\ FreeSlots # {}
  /\ gos' = [gos EXCEPT ![FreeSlot] =
               [pc |-> pc, key |-> k, uid |-> uid, stale |-> FALSE, ip |-> NoIP,
                was |-> FALSE, addr |-> NoAddr, att |-> FALSE, new |-> FALSE]]

\* Faulty: never removes the endpoint.
DetachedNever(k, was) == endpoints

\* Router.Detach on the endpoint map, if the caller recorded a mapping.
Detached(k, was) ==
  IF was THEN [endpoints EXCEPT ![k] = NoEndpoint] ELSE endpoints

\* startProbes overwrites st.probes and st.probesCancel; stopProbes cancels
\* the set it finds there.  A count of 2 stands for "more than one".
StartedProbes(st) == [st EXCEPT !.probes = Probed]
ProbersAfterStart(k) ==
  [probers EXCEPT ![k] = IF Probed /\ @ < 2 THEN @ + 1 ELSE @]
\* Faulty: does not cancel; cancels what is cancelled already.
ProbersLeftRunning(k) == probers
ProbersStoppedTwice(k) == [probers EXCEPT ![k] = @ - 1]

ProbersAfterStop(k) ==
  [probers EXCEPT ![k] = IF pods[k].probes THEN @ - 1 ELSE @]

\* A prober cancelled in the middle of an attempt sees the attempt fail, and
\* may reach its threshold by it: it is "late", and calls failProbe once more.
FailersAfterStart(k) ==
  [failers EXCEPT ![k] = IF Probed THEN @ \cup {"armed"} ELSE @]

Cancelled(k, left) ==
  IF pods[k].probes /\ "armed" \in left
    THEN {"late"} \cup {f \in left : probers[k] > 1}
    ELSE left
FailersAfterStop(k) == [failers EXCEPT ![k] = Cancelled(k, @)]

StartProbes(k) == probers' = ProbersAfterStart(k) /\ failers' = FailersAfterStart(k)
StopProbes(k)  == probers' = ProbersAfterStop(k) /\ failers' = FailersAfterStop(k)

-----------------------------------------------------------------------------
(* CreatePod.                                                              *)

\* Faulty: drops a recovered reservation; leaks the new one.
ReleasesAlways(c) == Release(c.key)
ReleasesNever(c) == UNCHANGED ipamVars

\* The deferred release: an address this call allocated goes back unless the
\* Pod was committed; one that recovery had reserved stays.
AbandonIP(c) ==
  IF c.had THEN UNCHANGED ipamVars ELSE Release(c.key)

\* Faulty: `committed` is never set.
ReleasesCommitted(c) == AbandonIP(c)

\* A committed call keeps its address.
CommitIP(c) == UNCHANGED ipamVars

Return == create' = NoCall

At(pc) == Up /\ create.pc = pc
Goto(pc) == create' = [create EXCEPT !.pc = pc]

\* markTerminalFailure: a sticky Failed status without workload or address.
TerminalPod(uid) ==
  [uid |-> uid, policy |-> "none", terminal |-> TRUE, wl |-> FALSE, ip |-> NoIP,
   attached |-> FALSE, restarting |-> FALSE,
   probes |-> FALSE, cs |-> "failed"]

\* translatePod rejects the Pod.
CreateUnsupported(k) ==
  /\ Up /\ create = NoCall /\ ~InCall(k) /\ ~Tracked(k)
  /\ api[k].state = "present" /\ api[k].spec = "Unsupported"
  /\ ~FinalState(api[k].cs)
  /\ pods' = [pods EXCEPT ![k] = TerminalPod(api[k].uid)]
  /\ NoteIfInFlight(k, "crossed")
  /\ UNCHANGED <<api, callVars, gos, probeVars, vms, ipamVars, endpoints, dirs,
                 kubelet, toRecover, faults>>

(***************************************************************************)
(* Up to the allocation.  Volume directories are made before the address   *)
(* is allocated and stay when the CIDR is exhausted.                       *)
(***************************************************************************)
CreateBegin(k) ==
  /\ Up /\ create = NoCall /\ ~InCall(k) /\ ~Tracked(k)
  /\ api[k].state = "present" /\ api[k].spec # "Unsupported"
  /\ ~FinalState(api[k].cs)
  /\ dirs' = dirs \cup {<<k, api[k].uid>>}
  /\ Allocate(k)
  /\ create' = IF byKey'[k] = NoIP
                 THEN NoCall
                 ELSE [pc |-> "lookup", key |-> k, uid |-> api[k].uid,
                       spec |-> api[k].spec, cs |-> api[k].cs, ip |-> byKey'[k],
                       had |-> byKey[k] # NoIP, adopted |-> FALSE, addr |-> NoAddr]
  /\ NoteIfInFlight(k, "crossed")
  /\ UNCHANGED <<api, pods, del, gos, probeVars, vms, endpoints, kubelet,
                 toRecover, faults>>

\* lookupWorkload: adopt a VM the runtime still has.  An error counts as
\* not found.
CreateLookup ==
  /\ At("lookup")
  /\ \E obs \in VM!Phases \cup {"error"} :
       /\ Observes(create.key, obs)
       /\ create' = [create EXCEPT
            !.adopted = obs \notin {"none", "error"},
            !.pc = CASE obs \in {"none", "error"} -> "pull"
                     [] obs = "created"           -> "startAdopted"
                     [] OTHER                     -> "observe"]
  /\ UNCHANGED <<api, pods, del, gos, probeVars, vms, ipamVars, endpoints, dirs,
                 kubelet, toRecover, excuse>>

\* A VM left in Created is started; a failure returns at once.
CreateStartAdopted ==
  /\ At("startAdopted")
  /\ \/ /\ VM!CanStart(create.key) /\ Sound
        /\ VM!Start(create.key)
        /\ Goto("observe")
        /\ UNCHANGED ipamVars
     \/ /\ IF VM!CanStart(create.key) THEN Fault ELSE Sound
        /\ AbandonIP(create) /\ Return
        /\ UNCHANGED vms
  /\ UNCHANGED <<api, pods, del, gos, probeVars, endpoints, dirs, kubelet,
                 toRecover, excuse>>

\* resolvePullAuth and Pull.  An image without an arm64 variant is terminal.
CreatePull ==
  /\ At("pull")
  /\ \/ /\ create.spec # "WrongArch" /\ Sound
        /\ Goto("create")
        /\ UNCHANGED <<pods, ipamVars>>
     \/ /\ create.spec = "WrongArch" /\ Sound
        /\ pods' = [pods EXCEPT ![create.key] = TerminalPod(create.uid)]
        /\ AbandonIP(create) /\ Return
     \/ /\ Fault
        /\ AbandonIP(create) /\ Return
        /\ UNCHANGED pods
  /\ UNCHANGED <<api, del, gos, probeVars, vms, endpoints, dirs, kubelet,
                 toRecover, excuse>>

\* Create; on failure rollback has no workload to destroy yet.
CreateVM ==
  /\ At("create")
  /\ \/ /\ Sound
        /\ VM!Create(create.key, create.uid)
        /\ Goto("start")
        /\ UNCHANGED <<ipamVars, dirs>>
     \/ /\ Fault
        /\ dirs' = dirs \ {<<create.key, create.uid>>}
        /\ AbandonIP(create) /\ Return
        /\ UNCHANGED vms
  /\ UNCHANGED <<api, pods, del, gos, probeVars, endpoints, kubelet, toRecover,
                 excuse>>

CreateStart ==
  /\ At("start")
  /\ \/ /\ VM!CanStart(create.key) /\ Sound
        /\ VM!Start(create.key)
        /\ Goto("observe")
     \/ /\ IF VM!CanStart(create.key) THEN Fault ELSE Sound
        /\ Goto("rollback")
        /\ UNCHANGED vms
  /\ UNCHANGED <<api, pods, del, gos, probeVars, ipamVars, endpoints, dirs,
                 kubelet, toRecover, excuse>>

\* Router.Attach: the endpoint is stored after the route commands and before
\* the pf load, so a failed load leaves it in the map.
AttachOK(k, ip, addr) ==
  /\ endpoints' = [endpoints EXCEPT ![k] = [ip |-> ip, addr |-> addr]]
  /\ Sound /\ UNCHANGED excuse

AttachFails(k, ip, addr) ==
  /\ Fault
  /\ \/ UNCHANGED <<endpoints, excuse>>
     \/ /\ endpoints' = [endpoints EXCEPT ![k] = [ip |-> ip, addr |-> addr]]
        /\ Excuse(k, "loadFailed")

\* Faulty: rolls an adopted VM back too.
UnwindAll == Goto("rollback") /\ UNCHANGED ipamVars

\* unwindCreate: an adopted VM is left alone, a new one is rolled back.
Unwind ==
  IF create.adopted
    THEN AbandonIP(create) /\ Return
    ELSE Goto("rollback") /\ UNCHANGED ipamVars

\* observeVMIP polls until the VM has an address or the budget is spent.
CreateObserve ==
  /\ At("observe")
  /\ \/ /\ VM!HasAddr(create.key) /\ Sound
        /\ create' = [create EXCEPT !.addr = vms[create.key].addr, !.pc = "attach"]
        /\ UNCHANGED ipamVars
     \/ /\ IF VM!HasAddr(create.key) THEN Fault ELSE Sound
        /\ Unwind
  /\ UNCHANGED <<api, pods, del, gos, probeVars, vms, endpoints, dirs, kubelet,
                 toRecover, excuse>>

CreateAttach ==
  /\ At("attach")
  /\ \/ /\ AttachOK(create.key, create.ip, create.addr)
        /\ Goto("commit")
        /\ UNCHANGED ipamVars
     \/ /\ AttachFails(create.key, create.ip, create.addr)
        /\ Unwind
  /\ UNCHANGED <<api, pods, del, gos, probeVars, vms, dirs, kubelet, toRecover>>

\* A runtime call that destroys a VM and only logs a failure.
Destroys(k) ==
  \/ VM!Destroy(k) /\ Sound /\ UNCHANGED excuse
  \/ UNCHANGED vms /\ Fault /\ Excuse(k, "destroyFailed")

\* A runtime call that stops a VM and only logs a failure.
Stops(k) ==
  \/ VM!Stop(k) /\ Sound
  \/ UNCHANGED vms /\ Fault

CreateRollback ==
  /\ At("rollback")
  /\ Destroys(create.key)
  /\ dirs' = dirs \ {<<create.key, create.uid>>}
  /\ AbandonIP(create) /\ Return
  /\ UNCHANGED <<api, pods, del, gos, probeVars, endpoints, kubelet, toRecover>>

\* The Pod enters the map, its status is reconciled and, if it is running,
\* its probers start.
CreateCommit ==
  /\ At("commit")
  /\ \E obs \in VM!Phases \cup {"error"} :
       LET k  == create.key
           st == [uid |-> create.uid, policy |-> create.spec, terminal |-> FALSE,
                  wl |-> TRUE, ip |-> create.ip, attached |-> TRUE,
                  restarting |-> FALSE, probes |-> FALSE,
                  cs |-> create.cs]
           rs == Reconciled(st, obs)
       IN  /\ Observes(k, obs)
           /\ IF rs.cs = "running"
                THEN /\ pods' = [pods EXCEPT ![k] = StartedProbes(rs)]
                     /\ StartProbes(k)
                ELSE pods' = [pods EXCEPT ![k] = rs] /\ UNCHANGED probeVars
           /\ IF Launches(st, obs) THEN Spawn(k, st.uid, "backoff") ELSE UNCHANGED gos
  /\ CommitIP(create) /\ Return
  /\ UNCHANGED <<api, del, vms, endpoints, dirs, kubelet, toRecover, excuse>>

CreateStep ==
  \/ CreateLookup \/ CreateStartAdopted \/ CreatePull \/ CreateVM \/ CreateStart
  \/ CreateObserve \/ CreateAttach \/ CreateRollback \/ CreateCommit

-----------------------------------------------------------------------------
(* DeletePod.                                                              *)

Gone(k) ==
  api' = [api EXCEPT ![k].state = "absent", ![k].spec = "none", ![k].ip = NoIP,
                     ![k].cs = "unset"]

\* The critical section: the probers stop and the Pod leaves the map.
DeleteForget(k) ==
  /\ Up /\ api[k].state = "deleting" /\ ~InCall(k) /\ Tracked(k)
  /\ pods' = [pods EXCEPT ![k] = NoPod]
  /\ StopProbes(k)
  /\ del' = [del EXCEPT ![k] = [pc |-> "detach", uid |-> pods[k].uid,
                                attached |-> pods[k].attached, wl |-> pods[k].wl]]
  /\ NoteIfInFlight(k, "outlived")
  /\ UNCHANGED <<api, create, gos, vms, ipamVars, endpoints, dirs, kubelet,
                 toRecover, faults>>

\* Faulty: an unknown Pod is an error, retried for ever.
DeleteUnknownFails(k) == FALSE /\ UNCHANGED vars

\* An unknown Pod is NotFound, which Virtual Kubelet takes as deleted.
DeleteUnknown(k) ==
  /\ Up /\ api[k].state = "deleting" /\ ~InCall(k) /\ ~Tracked(k)
  /\ Gone(k)
  /\ UNCHANGED <<pods, callVars, gos, probeVars, vms, ipamVars, endpoints, dirs,
                 kubelet, toRecover, histVars>>

DeleteDetach(k) ==
  /\ Up /\ del[k].pc = "detach"
  /\ endpoints' = Detached(k, del[k].attached)
  /\ del' = [del EXCEPT ![k].pc = "release"]
  /\ UNCHANGED <<api, pods, create, gos, probeVars, vms, ipamVars, dirs, kubelet,
                 toRecover, histVars>>

DeleteRelease(k) ==
  /\ Up /\ del[k].pc = "release"
  /\ Release(k)
  /\ del' = [del EXCEPT ![k].pc = IF del[k].wl THEN "stop" ELSE "cleanup"]
  /\ UNCHANGED <<api, pods, create, gos, probeVars, vms, endpoints, dirs, kubelet,
                 toRecover, histVars>>

DeleteStop(k) ==
  /\ Up /\ del[k].pc = "stop"
  /\ Stops(k)
  /\ del' = [del EXCEPT ![k].pc = "destroy"]
  /\ UNCHANGED <<api, pods, create, gos, probeVars, ipamVars, endpoints, dirs,
                 kubelet, toRecover, excuse>>

DeleteDestroy(k) ==
  /\ Up /\ del[k].pc = "destroy"
  /\ Destroys(k)
  /\ del' = [del EXCEPT ![k].pc = "cleanup"]
  /\ UNCHANGED <<api, pods, create, gos, probeVars, ipamVars, endpoints, dirs,
                 kubelet, toRecover>>

\* cleanupVolumeDirs; Virtual Kubelet then removes the API object.
DeleteCleanup(k) ==
  /\ Up /\ del[k].pc = "cleanup"
  /\ dirs' = dirs \ {<<k, del[k].uid>>}
  /\ del' = [del EXCEPT ![k] = NoDelete]
  /\ Gone(k)
  /\ UNCHANGED <<pods, create, gos, probeVars, vms, ipamVars, endpoints, kubelet,
                 toRecover, histVars>>

DeleteStep(k) ==
  \/ DeleteForget(k) \/ DeleteUnknown(k) \/ DeleteDetach(k) \/ DeleteRelease(k)
  \/ DeleteStop(k) \/ DeleteDestroy(k) \/ DeleteCleanup(k)

-----------------------------------------------------------------------------
(* Status and probes.                                                      *)

\* GetPodStatus and GetPods: reconcile under Provider.mu; Virtual Kubelet
\* writes the result to the API server.
SyncStatus(k) ==
  /\ Up /\ Tracked(k)
  /\ \E obs \in VM!Phases \cup {"error"} :
       LET st == pods[k]
           rs == Reconciled(st, obs)
       IN  /\ Observes(k, obs)
           /\ st.terminal => obs # "error"
           /\ pods' = [pods EXCEPT ![k] = rs]
           /\ api' = [api EXCEPT ![k].ip = rs.ip, ![k].cs = rs.cs]
           /\ IF Launches(st, obs) THEN Spawn(k, st.uid, "backoff") ELSE UNCHANGED gos
  /\ UNCHANGED <<callVars, probeVars, vms, ipamVars, endpoints, dirs, kubelet,
                 toRecover, excuse>>

\* runProbe calls failProbe and returns.  With two sets of probers running,
\* one of them is left.
Exited(k, f) ==
  IF f = "armed" /\ probers[k] > 1 THEN failers[k] ELSE failers[k] \ {f}

ProberExits(k, f) ==
  /\ Up /\ f \in failers[k]
  /\ failers' = [failers EXCEPT ![k] = Exited(k, f)]

\* The Pod is gone or terminal, or restarting already.
FailProbeIgnored(k, f) ==
  /\ ProberExits(k, f)
  /\ Tracked(k) => pods[k].terminal \/ pods[k].restarting
  /\ UNCHANGED <<api, pods, callVars, gos, probers, vms, ipamVars, endpoints, dirs,
                 kubelet, toRecover, histVars>>

\* failProbe under a policy that restarts.
FailProbeRestart(k, f) ==
  /\ ProberExits(k, f) /\ Tracked(k) /\ ~pods[k].terminal
  /\ ShouldRestart(pods[k].policy, 1) /\ ~pods[k].restarting
  /\ pods' = [pods EXCEPT ![k].restarting = TRUE]
  /\ Spawn(k, pods[k].uid, "backoff")
  /\ UNCHANGED <<api, callVars, probers, vms, ipamVars, endpoints, dirs, kubelet,
                 toRecover, histVars>>

\* failProbe under Never: a sticky Failed status, then the VM is killed.
FailProbeKill(k, f) ==
  /\ Up /\ f \in failers[k] /\ Tracked(k) /\ ~pods[k].terminal
  /\ ~ShouldRestart(pods[k].policy, 1)
  /\ pods' = [pods EXCEPT ![k].terminal = TRUE, ![k].cs = "failed",
                          ![k].probes = FALSE]
  /\ probers' = ProbersAfterStop(k)
  /\ failers' = [failers EXCEPT ![k] = Cancelled(k, Exited(k, f))]
  /\ Spawn(k, pods[k].uid, "killStop")
  /\ UNCHANGED <<api, callVars, vms, ipamVars, endpoints, dirs, kubelet,
                 toRecover, histVars>>

-----------------------------------------------------------------------------
(* restartWorkload and finishRestart, in goroutine g.                      *)

GoAt(g, pc) == Up /\ gos[g].pc = pc
GoGoto(g, pc) == gos' = [gos EXCEPT ![g].pc = pc]
GoDone(g) == gos' = [gos EXCEPT ![g] = NoGo]

\* The backoff is over; snapshot under Provider.mu.
RestartWake(g) ==
  LET k == gos[g].key IN
  /\ GoAt(g, "backoff")
  /\ \/ /\ ~Tracked(k)
        /\ GoDone(g)
        /\ UNCHANGED <<pods, probeVars>>
     \/ /\ Tracked(k) /\ pods[k].terminal
        /\ pods' = [pods EXCEPT ![k].restarting = FALSE]
        /\ GoDone(g)
        /\ UNCHANGED probeVars
     \/ /\ Tracked(k) /\ ~pods[k].terminal
        /\ gos' = [gos EXCEPT ![g].pc = "detach", ![g].uid = pods[k].uid,
                              ![g].stale = pods[k].uid # gos[g].uid,
                              ![g].ip = pods[k].ip, ![g].was = pods[k].attached]
        /\ pods' = [pods EXCEPT ![k].probes = FALSE]
        /\ StopProbes(k)
  /\ UNCHANGED <<api, callVars, vms, ipamVars, endpoints, dirs, kubelet,
                 toRecover, histVars>>

RestartDetach(g) ==
  /\ GoAt(g, "detach")
  /\ endpoints' = Detached(gos[g].key, gos[g].was)
  /\ gos' = [gos EXCEPT ![g].pc = "stop", ![g].was = FALSE]
  /\ UNCHANGED <<api, pods, callVars, probeVars, vms, ipamVars, dirs, kubelet,
                 toRecover, histVars>>

\* Also the end of failProbe's kill.
GoStop(g) ==
  /\ gos[g].pc \in {"stop", "killStop"} /\ Up
  /\ Stops(gos[g].key)
  /\ GoGoto(g, IF gos[g].pc = "stop" THEN "destroy" ELSE "killDestroy")
  /\ UNCHANGED <<api, pods, callVars, probeVars, ipamVars, endpoints, dirs, kubelet,
                 toRecover, excuse>>

\* Destroy the exited VM, a half-started one, the orphan of a deleted Pod, or
\* the VM a probe killed.
GoDestroy(g) ==
  /\ gos[g].pc \in {"destroy", "undo", "orphan", "killDestroy"} /\ Up
  /\ Destroys(gos[g].key)
  /\ CASE gos[g].pc = "destroy" -> GoGoto(g, "create")
       [] gos[g].pc = "undo"    -> GoGoto(g, "finish")
       [] OTHER                 -> GoDone(g)
  /\ UNCHANGED <<api, pods, callVars, probeVars, ipamVars, endpoints, dirs, kubelet,
                 toRecover>>

RestartCreate(g) ==
  /\ GoAt(g, "create")
  /\ \/ VM!Create(gos[g].key, gos[g].uid) /\ Sound /\ GoGoto(g, "start")
     \/ UNCHANGED vms /\ Fault /\ GoGoto(g, "finish")
  /\ UNCHANGED <<api, pods, callVars, probeVars, ipamVars, endpoints, dirs, kubelet,
                 toRecover, excuse>>

RestartStart(g) ==
  LET k == gos[g].key IN
  /\ GoAt(g, "start")
  /\ \/ VM!CanStart(k) /\ Sound /\ VM!Start(k) /\ GoGoto(g, "observe")
     \/ /\ IF VM!CanStart(k) THEN Fault ELSE Sound
        /\ UNCHANGED vms
        /\ GoGoto(g, "undo")
  /\ UNCHANGED <<api, pods, callVars, probeVars, ipamVars, endpoints, dirs, kubelet,
                 toRecover, excuse>>

\* Without an address the Pod runs on, unattached.
RestartObserve(g) ==
  LET k == gos[g].key IN
  /\ GoAt(g, "observe")
  /\ \/ /\ VM!HasAddr(k) /\ Sound
        /\ gos' = [gos EXCEPT ![g].pc = "attach", ![g].new = TRUE,
                              ![g].addr = vms[k].addr]
     \/ /\ IF VM!HasAddr(k) THEN Fault ELSE Sound
        /\ gos' = [gos EXCEPT ![g].pc = "finish", ![g].new = TRUE]
  /\ UNCHANGED <<api, pods, callVars, probeVars, vms, ipamVars, endpoints, dirs,
                 kubelet, toRecover, excuse>>

RestartAttach(g) ==
  LET k == gos[g].key IN
  /\ GoAt(g, "attach")
  /\ \/ /\ AttachOK(k, gos[g].ip, gos[g].addr)
        /\ gos' = [gos EXCEPT ![g].pc = "finish", ![g].att = TRUE, ![g].ip = NoIP,
                              ![g].addr = NoAddr]
     \/ /\ AttachFails(k, gos[g].ip, gos[g].addr)
        /\ gos' = [gos EXCEPT ![g].pc = "finish", ![g].ip = NoIP, ![g].addr = NoAddr]
  /\ UNCHANGED <<api, pods, callVars, probeVars, vms, ipamVars, dirs, kubelet,
                 toRecover>>

\* Faulty: a failed restart leaves the flag set.
FlagLeftSet(k) == pods

\* finishRestart without a new workload clears the flag, for a retry.
FlagCleared(k) == [pods EXCEPT ![k].restarting = FALSE]

\* Faulty: forgets the new VM of a deleted Pod.
OrphanLeft(g) == GoDone(g)

\* finishRestart finds the Pod gone: the new VM is an orphan.
OrphanReaped(g) == IF gos[g].new THEN GoGoto(g, "orphan") ELSE GoDone(g)

\* finishRestart: commit under Provider.mu, or destroy the orphan.
RestartFinish(g) ==
  LET k == gos[g].key IN
  /\ GoAt(g, "finish")
  /\ \/ /\ ~Tracked(k)
        /\ OrphanReaped(g)
        /\ UNCHANGED <<pods, probeVars>>
     \/ /\ Tracked(k) /\ ~gos[g].new
        /\ pods' = FlagCleared(k)
        /\ GoDone(g)
        /\ UNCHANGED probeVars
     \/ /\ Tracked(k) /\ gos[g].new
        /\ pods' = [pods EXCEPT ![k] =
                      StartedProbes([@ EXCEPT !.restarting = FALSE, !.attached = gos[g].att])]
        /\ StartProbes(k)
        /\ GoDone(g)
  /\ UNCHANGED <<api, callVars, vms, ipamVars, endpoints, dirs, kubelet,
                 toRecover, histVars>>

GoStep(g) ==
  \/ RestartWake(g) \/ RestartDetach(g) \/ GoStop(g) \/ GoDestroy(g)
  \/ RestartCreate(g) \/ RestartStart(g) \/ RestartObserve(g)
  \/ RestartAttach(g) \/ RestartFinish(g)

-----------------------------------------------------------------------------
(* The API server, the guests, crashes and recovery.                       *)

Schedule(k) ==
  /\ api[k].state = "absent" /\ api[k].uid < MaxUid
  /\ \E spec \in Specs :
       api' = [api EXCEPT ![k] = [uid |-> @.uid + 1, state |-> "present",
                                  spec |-> spec, ip |-> NoIP, cs |-> "unset"]]
  /\ UNCHANGED <<pods, callVars, gos, probeVars, vms, ipamVars, endpoints, dirs,
                 kubelet, toRecover, histVars>>

RequestDelete(k) ==
  /\ api[k].state = "present"
  /\ api' = [api EXCEPT ![k].state = "deleting"]
  /\ UNCHANGED <<pods, callVars, gos, probeVars, vms, ipamVars, endpoints, dirs,
                 kubelet, toRecover, histVars>>

\* A Pod object removed by force while the node is away.
ForceRemove(k) ==
  /\ kubelet = "down" /\ api[k].state # "absent"
  /\ Gone(k)
  /\ UNCHANGED <<pods, callVars, gos, probeVars, vms, ipamVars, endpoints, dirs,
                 kubelet, toRecover, histVars>>

GuestExit(k) ==
  /\ VM!Exit(k)
  /\ UNCHANGED <<api, pods, callVars, gos, probeVars, ipamVars, endpoints, dirs,
                 kubelet, toRecover, histVars>>

\* The process dies: its memory is lost, VMs and directories stay.
Crash ==
  /\ CanCrash /\ kubelet = "up" /\ Fault
  /\ pods' = [k \in Keys |-> NoPod]
  /\ create' = NoCall
  /\ del' = [k \in Keys |-> NoDelete]
  /\ gos' = [g \in Slots |-> NoGo]
  /\ probers' = [k \in Keys |-> 0]
  /\ failers' = [k \in Keys |-> {}]
  /\ byKey' = [k \in Keys |-> NoIP]
  /\ byIP' = [a \in DOMAIN byIP |-> NoKey]
  /\ cursor' = First
  /\ endpoints' = [k \in Keys |-> NoEndpoint]
  /\ toRecover' = {}
  /\ kubelet' = "down"
  /\ excuse' = [k \in Keys |-> excuse[k] \cup {"crash"}]
  /\ UNCHANGED <<api, vms, dirs>>

\* setupIPAM's list of the node's Pods; a failed list recovers nothing.
Boot ==
  /\ kubelet = "down"
  /\ kubelet' = "up"
  /\ \/ toRecover' = {k \in Keys : api[k].ip # NoIP} /\ Sound /\ UNCHANGED excuse
     \/ /\ toRecover' = {} /\ Fault
        /\ excuse' = [k \in Keys |-> excuse[k] \cup {"listFailed"}]
  /\ UNCHANGED <<api, pods, callVars, gos, probeVars, vms, ipamVars, endpoints, dirs>>

\* Another Pod of the list has taken the address of k already: one whose
\* deletion had given the address back, or one that lost its own that way.
TakenBefore(k) ==
  \E j \in Keys \ {k} :
    /\ byKey[j] = api[k].ip
    /\ api[j].state = "deleting" \/ "conflict" \in excuse[j]

\* RecoverAllocations, one Pod; a Reserve that fails is skipped.
RecoverOne(k) ==
  /\ kubelet = "up" /\ k \in toRecover
  /\ Reserve(k, api[k].ip)
  /\ toRecover' = toRecover \ {k}
  /\ IF TakenBefore(k) THEN Excuse(k, "conflict") ELSE UNCHANGED excuse
  /\ UNCHANGED <<api, pods, callVars, gos, probeVars, vms, endpoints, dirs, kubelet,
                 faults>>

-----------------------------------------------------------------------------
Next ==
  \/ CreateStep
  \/ \E k \in Keys :
       \/ CreateUnsupported(k) \/ CreateBegin(k) \/ DeleteStep(k)
       \/ SyncStatus(k)
       \/ \E f \in {"armed", "late"} :
            FailProbeIgnored(k, f) \/ FailProbeRestart(k, f) \/ FailProbeKill(k, f)
       \/ Schedule(k) \/ RequestDelete(k) \/ ForceRemove(k) \/ GuestExit(k)
       \/ RecoverOne(k)
  \/ \E g \in Slots : GoStep(g)
  \/ Crash
  \/ Boot

Spec == Init /\ [][Next]_vars

(***************************************************************************)
(* Virtual Kubelet retries CreatePod and DeletePod and polls the status;   *)
(* calls and goroutines run to their end.  Nothing obliges users, guests,  *)
(* probes or failures to act.                                              *)
(***************************************************************************)
Fairness ==
  /\ WF_vars(CreateStep)
  /\ WF_vars(Boot)
  /\ \A k \in Keys :
       /\ WF_vars(CreateUnsupported(k) \/ CreateBegin(k))
       /\ WF_vars(DeleteStep(k))
       /\ WF_vars(SyncStatus(k))
       /\ WF_vars(RecoverOne(k))
  /\ \A g \in Slots : WF_vars(GoStep(g))

FairSpec == Spec /\ Fairness

-----------------------------------------------------------------------------
CallPCs == {"lookup", "startAdopted", "pull", "create", "start", "observe",
            "attach", "rollback", "commit"}
GoPCs == {"backoff", "detach", "stop", "destroy", "create", "start", "undo",
          "observe", "attach", "finish", "orphan", "killStop", "killDestroy"}
CStates == {"unset", "waiting", "running", "succeeded", "failed"}
IPs == {NoIP} \cup Usable

PodType ==
  [uid : Uids, policy : Specs \cup {"none"}, terminal : BOOLEAN, wl : BOOLEAN,
   ip : IPs, attached : BOOLEAN, restarting : BOOLEAN,
   probes : BOOLEAN, cs : CStates]

CallType ==
  [pc : CallPCs, key : Keys, uid : Uids, spec : Specs, cs : CStates, ip : IPs,
   had : BOOLEAN, adopted : BOOLEAN, addr : 0 .. NoAddr]

GoType ==
  [pc : GoPCs, key : Keys, uid : Uids, stale : BOOLEAN, ip : IPs, was : BOOLEAN,
   addr : 0 .. NoAddr, att : BOOLEAN, new : BOOLEAN]

DelType ==
  [pc : {"detach", "release", "stop", "destroy", "cleanup"}, uid : Uids,
   attached : BOOLEAN, wl : BOOLEAN]

\* Every variable keeps its type; in particular no set of probers is cancelled
\* twice.
TypeOK ==
  /\ api \in [Keys -> [uid : Uids \cup {0}, state : {"absent", "present", "deleting"},
                       spec : Specs \cup {"none"}, ip : IPs, cs : CStates]]
  /\ pods \in [Keys -> PodType \cup {NoPod}]
  /\ create \in CallType \cup {NoCall}
  /\ del \in [Keys -> DelType \cup {NoDelete}]
  /\ gos \in [Slots -> GoType \cup {NoGo}]
  /\ probers \in [Keys -> 0 .. 2]
  /\ failers \in [Keys -> SUBSET {"armed", "late"}]
  /\ VM!VMTypeOK(Uids)
  /\ IPAMTypeOK
  /\ endpoints \in [Keys -> [ip : IPs, addr : 0 .. NoAddr]]
  /\ dirs \subseteq Keys \X Uids
  /\ kubelet \in {"up", "down"}
  /\ toRecover \subseteq Keys
  /\ faults \in 0 .. MaxFaults
  /\ excuse \in [Keys -> SUBSET Reasons]

Had(k, reasons) == excuse[k] \cap reasons # {}

\* Nothing of the provider is working on the key.
Quiet(k) == Up /\ ~InCall(k) /\ InFlight(k) = {}

(***************************************************************************)
(* A tracked Pod holds the allocator's reservation for the address in its  *)
(* status, and no other tracked Pod has that address, through retries,     *)
(* failed creates, deletions and crash recovery (allocateIP, releaseIP,    *)
(* the `committed` defer of CreatePod, RecoverAllocations).                *)
(***************************************************************************)
PodOwnsIP ==
  \A k \in Keys : Tracked(k) /\ pods[k].ip # NoIP =>
    /\ byKey[k] = pods[k].ip
    /\ \A j \in Keys \ {k} : Tracked(j) => pods[j].ip # pods[k].ip

(***************************************************************************)
(* An address is held only for a tracked Pod or a call that will commit or *)
(* release it, whichever step of CreatePod failed.  What recovery reserved *)
(* after a crash is excused (see RecoveredIPFreed).                        *)
(***************************************************************************)
NoIPLeak ==
  \A k \in Keys : byKey[k] # NoIP =>
    Tracked(k) \/ InCall(k) \/ Had(k, {"crash"})

(***************************************************************************)
(* A Pod keeps the address the API server shows for it, also when the      *)
(* kubelet crashed and needed several attempts to adopt its VM             *)
(* (hadPodIP).  Excused: the recovery list failed, or recovery gave the    *)
(* address to a Pod that was being deleted (see LiveIPKept).               *)
(***************************************************************************)
StablePodIP ==
  \A k \in Keys :
    Tracked(k) /\ pods[k].wl /\ api[k].ip # NoIP
      /\ ~Had(k, {"listFailed", "conflict"}) =>
        pods[k].ip = api[k].ip

(***************************************************************************)
(* When the provider is done with a key and does not track it, no VM of    *)
(* that key is left, whichever step of a create, delete or restart failed  *)
(* and also when the Pod was deleted in the middle of a restart.  Excused: *)
(* a Destroy failed, a crash, a new Pod of that name created while an old  *)
(* restart was still in flight.                                            *)
(***************************************************************************)
NoVMLeak ==
  \A k \in Keys :
    Quiet(k) /\ ~Tracked(k) /\ ~Had(k, {"destroyFailed", "crash", "crossed"}) =>
      vms[k].phase = "none"

(***************************************************************************)
(* When the provider is done with a key and does not track it, the router  *)
(* has no endpoint for it.  Excused: a pf load failed, or a restart        *)
(* outlived its Pod (see NoEndpointLeft).                                  *)
(***************************************************************************)
NoEndpointLeak ==
  \A k \in Keys :
    Quiet(k) /\ ~Tracked(k) /\ ~Had(k, {"outlived", "loadFailed"}) =>
      endpoints[k] = NoEndpoint

(***************************************************************************)
(* The router maps a Pod's address to the VM that runs now, not to one an  *)
(* earlier restart replaced, and has no mapping for a Pod that is not      *)
(* attached.  Excused: a pf load failed, a restart outlived its Pod, or a  *)
(* Destroy failed (the restart then gives up on a VM it has detached and   *)
(* that may still run).                                                    *)
(***************************************************************************)
MappingCurrent ==
  \A k \in Keys :
    Quiet(k) /\ Tracked(k) /\ ~Had(k, {"outlived", "loadFailed", "destroyFailed"}) =>
      IF pods[k].attached
        THEN vms[k].phase = "running" =>
               endpoints[k] = [ip |-> pods[k].ip, addr |-> vms[k].addr]
        ELSE endpoints[k] = NoEndpoint

(***************************************************************************)
(* st.restarting says the truth: while it is set exactly one restart       *)
(* goroutine works for the Pod, and none does otherwise.  Set with nobody  *)
(* behind it, it would keep the Pod in CrashLoopBackOff for good; unset    *)
(* too early, two restarts would destroy each other's VMs.  Excused: keys  *)
(* with a restart that outlived its Pod.                                   *)
(***************************************************************************)
RestartFlagHonest ==
  \A k \in Keys : ~Had(k, {"outlived"}) =>
    LET n == Cardinality({g \in InFlight(k) : gos[g].pc \notin {"killStop", "killDestroy"}})
    IN  n = IF Tracked(k) /\ pods[k].restarting THEN 1 ELSE 0

(***************************************************************************)
(* Exactly one set of probers runs for a Pod that has probe state and none *)
(* for any other: restarts and deletions cancel the set they replace.      *)
(***************************************************************************)
ProbersOwned ==
  \A k \in Keys : ~Had(k, {"outlived"}) =>
    probers[k] = IF Tracked(k) /\ pods[k].probes THEN 1 ELSE 0

(***************************************************************************)
(* A Pod that must be restarted after any exit is never reported in a      *)
(* final phase, not even when its VM vanished or its status could not be   *)
(* read: Virtual Kubelet would give up on it for good.                     *)
(***************************************************************************)
AlwaysNeverFinal ==
  \A k \in Keys :
    /\ Tracked(k) /\ pods[k].policy = "Always" => ~FinalState(pods[k].cs)
    /\ api[k].spec = "Always" => ~FinalState(api[k].cs)

(***************************************************************************)
(* A CreatePod call that adopted a VM which survived a crash does not      *)
(* destroy it, whatever fails afterwards (unwindCreate).                   *)
(***************************************************************************)
AdoptedSurvives ==
  [][\A k \in Keys :
       create.key = k /\ create.pc # "lookup" /\ create.adopted /\ VM!Exists(k)
         /\ ~Had(k, {"outlived"}) =>
           vms'[k].phase # "none"]_vars

(***************************************************************************)
(* Two Pods never have router mappings for the same Pod address: DeletePod *)
(* takes the mapping down before it gives the address back.                *)
(***************************************************************************)
NoSharedMapping ==
  \A j, k \in Keys :
    j # k /\ endpoints[j].ip # NoIP /\ ~Had(j, {"outlived", "loadFailed"})
          /\ ~Had(k, {"outlived", "loadFailed"}) =>
      endpoints[j].ip # endpoints[k].ip

(***************************************************************************)
(* An exited workload of a Pod with policy Always is running again, unless *)
(* the Pod is deleted: whichever step of a restart fails, a later status   *)
(* reconcile starts another.                                               *)
(***************************************************************************)
ExitAnswered ==
  \A k \in Keys :
    Tracked(k) /\ pods[k].policy = "Always" /\ vms[k].phase # "running" ~>
      ~Tracked(k) \/ vms[k].phase = "running"

(***************************************************************************)
(* Every deletion completes, also of Pods the provider does not know and   *)
(* with runtime commands failing on the way.                               *)
(***************************************************************************)
DeleteCompletes ==
  \A k \in Keys : api[k].state = "deleting" ~> api[k].state = "absent"

-----------------------------------------------------------------------------
(* Statements of the repository's comments and documents that the code     *)
(* does not live up to.                                                    *)

(***************************************************************************)
(* restart.go: a restart goroutine bails if its Pod was deleted during the *)
(* backoff, rather than rebuilding the VM of a new Pod of the same name.   *)
(***************************************************************************)
BailsIfDeleted == \A g \in Slots : gos[g].pc # "idle" => ~gos[g].stale

(***************************************************************************)
(* docs/NODE_DRAIN.md: once a Pod is deleted no pf rule of it remains,     *)
(* also when the deletion comes in the middle of a restart.                *)
(***************************************************************************)
NoEndpointLeft ==
  \A k \in Keys : Quiet(k) /\ ~Tracked(k) => endpoints[k] = NoEndpoint

(***************************************************************************)
(* docs/WORKLOADS.md: a workload of policy Never that exits makes its Pod  *)
(* Succeeded or Failed, also when it exits before its address was seen.    *)
(***************************************************************************)
ExitReported ==
  \A k \in Keys :
    /\ api[k].state = "present" /\ api[k].spec = "Never"
    /\ vms[k].phase \in {"stopped", "failed"} /\ vms[k].spec = api[k].uid
    ~> FinalState(api[k].cs) \/ api[k].state # "present"

\* What reconcileStatus would report now, for a container without probes.
Ready(k) ==
  Tracked(k) /\ ~pods[k].terminal /\ pods[k].ip # NoIP
    /\ Reconciled(pods[k], vms[k].phase).cs = "running"

(***************************************************************************)
(* status.go: endpoints never point at an unreachable Pod, so a Pod that   *)
(* no restart is working on is Ready only with its network attached.       *)
(***************************************************************************)
ReadyImpliesAttached ==
  \A k \in Keys : Quiet(k) /\ Ready(k) => pods[k].attached

(***************************************************************************)
(* ipam.go: recovery leaks no addresses: once the API server has no Pod of *)
(* a name, the allocator holds nothing for it.                             *)
(***************************************************************************)
RecoveredIPFreed ==
  \A k \in Keys : Quiet(k) /\ api[k].state = "absent" => byKey[k] = NoIP

(***************************************************************************)
(* ipam.go: a restarted provider does not reassign a live Pod's IP, when   *)
(* the recovery list succeeded.                                            *)
(***************************************************************************)
LiveIPKept ==
  \A k \in Keys :
    Tracked(k) /\ pods[k].wl /\ api[k].state = "present" /\ api[k].ip # NoIP
      /\ ~Had(k, {"listFailed"}) => pods[k].ip = api[k].ip

(***************************************************************************)
(* docs/ORPHAN_CLEANUP.md: recovery adopts VMs whose Pod still exists, so  *)
(* a Pod's container is one built from its own spec, never the VM of an    *)
(* earlier Pod of the same name.                                           *)
(***************************************************************************)
RunsOwnSpec ==
  \A k \in Keys :
    Tracked(k) /\ pods[k].wl /\ VM!Exists(k) => vms[k].spec = pods[k].uid
=============================================================================
