------------------------------ MODULE Workload ------------------------------
(***************************************************************************)
(* One Pod of the node from its API object to the guest: CreatePod reads   *)
(* the ConfigMap and Secret caches once, in translatePod, puts the         *)
(* volumes' directories and files on disk one at a time, finds a micro-VM  *)
(* of an earlier kubelet or pulls and launches one, and arms the probers,  *)
(* whose verdicts restart it.  Virtual Kubelet retries what fails.         *)
(*                                                                         *)
(* Addresses, the Pod-network and the deletion of a Pod in the middle of a *)
(* restart are PodLifecycle's; here the restart is between its snapshot    *)
(* and its end while no other call runs.                                   *)
(***************************************************************************)
EXTENDS PodSpecs, PodProbes

CONSTANTS
  PodSet,             \* the Pod specs of the instance; a behaviour is about one
  Objects(_),         \* what the ConfigMap "cm" and the Secret "sec" of a Pod may be
  Limits(_),          \* for a Pod, bounds on "edits" of its objects and of the token service,
                      \* "faults" (failed calls, kubelet crashes, guests that exit or hang)
                      \* and "flakes", failed probes of a healthy guest, and on its "uids",
                      \* the times it is created anew in the API
  MaxUid              \* no bound on "uids" exceeds it

EntryKinds == {"value", "field", "resource", "configMap", "secret"}

ASSUME WorkloadAssumption ==
  /\ MaxUid \in Nat /\ MaxGen \in Nat
  /\ \A p \in PodSet :
       /\ Limits(p) \in [uids : 0..MaxUid, edits : Nat, faults : Nat, flakes : Nat]
       /\ Len(p.envFrom) \in Nat /\ DOMAIN p.envFrom = 1..Len(p.envFrom)
       /\ Len(p.env) \in Nat /\ DOMAIN p.env = 1..Len(p.env)
       /\ DOMAIN p.mounts \subseteq Nat
       /\ \A i \in 1..Len(p.envFrom) : p.envFrom[i].kind \in {"configMap", "secret"}
       /\ \A i \in 1..Len(p.env) : p.env[i].kind \in EntryKinds

VARIABLES
  spec,       \* the Pod's spec
  api,        \* the Pod in the API: its UID (0: none) and whether it is being deleted
  objs,       \* the caches: [cms, secs, token]
  call,       \* the CreatePod or DeletePod in progress
  disk,       \* UID -> its volume tree: the directories, and the files' contents and modes
  pod,        \* p.pods[key], or NoPod
  vm,         \* the micro-VM under the Pod's workload ID, or NoVM
  restart,    \* the restart goroutine: "none", "backoff" or "working"
  up,         \* the kubelet runs
  budget      \* what is left of the Limits

vars == <<spec, api, objs, call, disk, pod, vm, restart, up, budget, probeVars>>

Uids   == 1..MaxUid
NoRun  == [env |-> << >>, mounts |-> << >>]
NoSeen == [cms |-> << >>, secs |-> << >>, token |-> FALSE]
NoTree == [dirs |-> {}, files |-> << >>]
NoPod  == [uid |-> 0, st |-> "none", restarting |-> FALSE, run |-> NoRun, seen |-> NoSeen]
NoVM   == [uid |-> 0, run |-> NoRun, seen |-> NoSeen, guest |-> "none"]
Idle   == [pc |-> "idle", uid |-> 0, run |-> NoRun, seen |-> NoSeen, todo |-> {}]

Spend(b)  == budget[b] > 0 /\ budget' = [budget EXCEPT ![b] = @ - 1]
May(ok)   == IF ok THEN UNCHANGED budget ELSE Spend("faults")

-----------------------------------------------------------------------------
(* The API, the caches and the guest.                                      *)

Apply ==
  /\ api.uid < budget.uids /\ api.phase = "none"
  /\ api' = [uid |-> api.uid + 1, phase |-> "wanted"]
  /\ UNCHANGED <<spec, objs, call, disk, pod, vm, restart, up, budget, probeVars>>

RequestDelete ==
  /\ api.phase = "wanted"
  /\ api' = [api EXCEPT !.phase = "deleting"]
  /\ UNCHANGED <<spec, objs, call, disk, pod, vm, restart, up, budget, probeVars>>

EditObject ==
  /\ Spend("edits")
  /\ \/ \E n \in DOMAIN objs.cms : \E o \in Objects(spec)[n] \ {objs.cms[n]} :
          objs' = [objs EXCEPT !.cms[n] = o]
     \/ \E n \in DOMAIN objs.secs : \E o \in Objects(spec)[n] \ {objs.secs[n]} :
          objs' = [objs EXCEPT !.secs[n] = o]
     \/ objs' = [objs EXCEPT !.token = ~@]
  /\ UNCHANGED <<spec, api, call, disk, pod, vm, restart, up, probeVars>>

\* The guest comes up, hangs (it runs and answers no probe) or exits.
GuestReady ==
  /\ vm.guest = "booting"
  /\ vm' = [vm EXCEPT !.guest = "healthy"]
  /\ UNCHANGED <<spec, api, objs, call, disk, pod, restart, up, budget, probeVars>>

GuestFails ==
  /\ vm.guest \in {"booting", "healthy"}
  /\ Spend("faults")
  /\ \E g \in {"hung", "exited"} : vm' = [vm EXCEPT !.guest = g]
  /\ UNCHANGED <<spec, api, objs, call, disk, pod, restart, up, probeVars>>

Runs == vm.guest \in {"booting", "healthy", "hung"}

-----------------------------------------------------------------------------
(* CreatePod.                                                              *)

Return == call' = Idle
GoTo(pc) == call' = [call EXCEPT !.pc = pc]

markTerminalFailure(uid) ==
  pod' = [NoPod EXCEPT !.uid = uid, !.st = "terminal"]

\* The files of the mounts, each by its mount and its place in it: they are
\* written in that order.
Positions(mounts) == UNION {{i} \X DOMAIN mounts[i].files : i \in DOMAIN mounts}
Before(x, y) == x[1] < y[1] \/ (x[1] = y[1] /\ x[2] < y[2])

\* translatePod reads the caches.  A Pod that is not ready is tried again, and
\* nothing has changed; one that cannot run is terminal.
Translated(t) ==
  CASE t.err = "ok" ->
         /\ call' = [pc |-> "dirs", uid |-> api.uid, run |-> t.val, seen |-> objs,
                     todo |-> Positions(t.val.mounts)]
         /\ UNCHANGED pod
    [] t.err = "pending" -> UNCHANGED <<call, pod>>
    [] OTHER -> markTerminalFailure(api.uid) /\ UNCHANGED call

Translate ==
  /\ up /\ call = Idle /\ api.phase = "wanted" /\ pod = NoPod
  /\ \E t \in {translatePod(spec, api.uid, objs)} : Translated(t)
  /\ UNCHANGED <<spec, api, objs, disk, vm, restart, up, budget, probeVars>>

\* ensureVolumeDirs.
EnsureDirs(ok) ==
  /\ call.pc = "dirs"
  /\ May(ok)
  /\ IF ok
       THEN /\ disk' = [disk EXCEPT ![call.uid].dirs =
                          @ \cup ({call.run.mounts[i].dir : i \in DOMAIN call.run.mounts} \ {""})]
            /\ GoTo("files")
       ELSE UNCHANGED disk /\ Return
  /\ UNCHANGED <<spec, api, objs, pod, vm, restart, up, probeVars>>

\* A file that is there opens for writing only if its mode lets its owner write
\* (the kubelet does not run as root).
Opens(files, at) == at \in DOMAIN files => files[at].mode # "0400"

\* The file at a position, where it goes and what is put there.
FileAt(x)  == call.run.mounts[x[1]].files[x[2]]
PathOf(x)  == <<call.run.mounts[x[1]].dir, FileAt(x).path>>
Written(x) == [data |-> FileAt(x).data, mode |-> FileAt(x).mode]

\* Faulty: logs the error and goes on with the next file.
WriteFileGoesOn(ok) ==
  /\ call.pc = "files"
  /\ May(ok)
  /\ \E x \in call.todo :
       /\ \A y \in call.todo : ~Before(y, x)
       /\ IF ok /\ Opens(disk[call.uid].files, PathOf(x))
            THEN disk' = [disk EXCEPT ![call.uid].files = Assign(@, PathOf(x), Written(x))]
            ELSE UNCHANGED disk
       /\ call' = [call EXCEPT !.todo = @ \ {x}]
  /\ UNCHANGED <<spec, api, objs, pod, vm, restart, up, probeVars>>

\* One turn of writeConfigFiles: the file is written and gets its mode.
WriteFile(ok) ==
  /\ call.pc = "files"
  /\ May(ok)
  /\ \E x \in call.todo :
       /\ \A y \in call.todo : ~Before(y, x)
       /\ IF ok /\ Opens(disk[call.uid].files, PathOf(x))
            THEN /\ disk' = [disk EXCEPT ![call.uid].files = Assign(@, PathOf(x), Written(x))]
                 /\ call' = [call EXCEPT !.todo = @ \ {x}]
            ELSE UNCHANGED disk /\ Return
  /\ UNCHANGED <<spec, api, objs, pod, vm, restart, up, probeVars>>

\* lookupWorkload: a runtime error is taken for a miss.
Lookup(ok) ==
  /\ call.pc = "files" /\ call.todo = {}
  /\ (ok \/ vm # NoVM) /\ May(ok)
  /\ GoTo(IF ok /\ vm # NoVM THEN "adopt" ELSE "pull")
  /\ UNCHANGED <<spec, api, objs, disk, pod, vm, restart, up, probeVars>>

\* resolvePullAuth and rt.Pull.  An error keeps what is on disk.
Pull(ok) ==
  /\ call.pc = "pull"
  /\ May(ok)
  /\ \E auth \in resolvePullAuth(spec, objs) :
       CASE auth.err # "ok" \/ ~ok -> Return /\ UNCHANGED pod
         [] auth.err = "ok" /\ ok /\ ~spec.arm64 -> Return /\ markTerminalFailure(call.uid)
         [] OTHER -> GoTo("launch") /\ UNCHANGED pod
  /\ UNCHANGED <<spec, api, objs, disk, vm, restart, up, probeVars>>

Launched == [uid |-> call.uid, run |-> call.run, seen |-> call.seen, guest |-> "booting"]

\* rt.Create and rt.Start of a micro-VM that is there: it is not made anew, and
\* boots if it does not run.
Booted(v) == IF v.guest = "exited" THEN [v EXCEPT !.guest = "booting"] ELSE v

\* The commit: reconcileStatus, then the probers if the phase it finds is
\* Running (its query of the runtime may fail), or the restart of a micro-VM
\* that has exited.
Commit(guest, ok) ==
  LET again == ok /\ guest = "exited" /\ spec.policy # "Never" IN
  /\ pod' = [uid |-> call.uid, st |-> "running", restarting |-> again, run |-> call.run, seen |-> call.seen]
  /\ restart' = IF again THEN "backoff" ELSE restart
  /\ IF ok /\ guest # "exited" THEN startProbes(spec.probes) ELSE UNCHANGED probeVars
  /\ Return

\* rt.Create and rt.Start, the attachment and the commit.
Launch(ok) ==
  LET made == IF vm = NoVM THEN Launched ELSE Booted(vm) IN
  /\ call.pc = "launch"
  /\ May(ok)
  /\ vm' = made /\ Commit(made.guest, ok)
  /\ UNCHANGED <<spec, api, objs, disk, up>>

\* Create failed: rollback removes the Pod's tree; or a later step did: it
\* destroys the micro-VM too, or fails to.
LaunchFails ==
  /\ call.pc = "launch"
  /\ Spend("faults")
  /\ vm' \in {vm, NoVM, IF vm = NoVM THEN Launched ELSE vm}
  /\ disk' = [disk EXCEPT ![call.uid] = NoTree]
  /\ Return
  /\ UNCHANGED <<spec, api, objs, pod, restart, up, probeVars>>

\* The adopted micro-VM is attached and committed as it is.
Adopt(ok) ==
  /\ call.pc = "adopt" /\ vm # NoVM
  /\ May(ok)
  /\ Commit(vm.guest, ok)
  /\ UNCHANGED <<spec, api, objs, disk, vm, up>>

\* unwindCreate leaves an adopted micro-VM, and its files, alone.
AdoptFails ==
  /\ call.pc = "adopt"
  /\ Spend("faults")
  /\ Return
  /\ UNCHANGED <<spec, api, objs, disk, pod, vm, restart, up, probeVars>>

-----------------------------------------------------------------------------
(* Restarts.                                                               *)

\* reconcileStatus of a tracked Pod whose micro-VM is gone or has exited.
Reconcile ==
  /\ up /\ pod.st = "running" /\ ~pod.restarting /\ restart = "none"
  /\ ~Runs /\ spec.policy # "Never"
  /\ pod' = [pod EXCEPT !.restarting = TRUE]
  /\ restart' = "backoff"
  /\ UNCHANGED <<spec, api, objs, call, disk, vm, up, budget, probeVars>>

\* restartWorkload's snapshot.  (It bails out of a Pod that was deleted in the
\* backoff; PodLifecycle has that race.)
RestartBegin ==
  /\ restart = "backoff"
  /\ restart' = "working"
  /\ stopProbes
  /\ UNCHANGED <<spec, api, objs, call, disk, pod, vm, up, budget>>

Rebuilt == [uid |-> pod.uid, run |-> pod.run, seen |-> pod.seen, guest |-> "booting"]

\* The old micro-VM goes and one of the retained spec starts; an old one that
\* could not be destroyed starts again, or runs on if not even Stop worked.
RestartEnd(destroyed) ==
  /\ restart = "working"
  /\ May(destroyed)
  /\ vm' \in IF destroyed \/ vm = NoVM THEN {Rebuilt} ELSE {Booted(vm), [vm EXCEPT !.guest = "booting"]}
  /\ restart' = "none"
  /\ pod' = [pod EXCEPT !.restarting = FALSE]
  /\ startProbes(spec.probes)
  /\ UNCHANGED <<spec, api, objs, call, disk, up>>

\* Create or Start failed, and maybe the Destroy before it: only the flag is reset.
RestartFails ==
  /\ restart = "working"
  /\ Spend("faults")
  /\ vm' \in {vm, NoVM}
  /\ restart' = "none"
  /\ pod' = [pod EXCEPT !.restarting = FALSE]
  /\ UNCHANGED <<spec, api, objs, call, disk, up, probeVars>>

-----------------------------------------------------------------------------
(* Probes.                                                                 *)

Probe(g, k, ok) ==
  /\ Attempt(g, k, ok)
  /\ ok => vm.guest = "healthy"
  /\ IF ~ok /\ vm.guest = "healthy" THEN Spend("flakes") ELSE UNCHANGED budget
  /\ UNCHANGED <<spec, api, objs, call, disk, pod, vm, restart, up>>

ProbeActs(g, k) ==
  /\ \E ok \in Answers(g, k) : Act(g, k, ok)
  /\ UNCHANGED <<spec, api, objs, call, disk, pod, vm, restart, up, budget>>

\* failProbe finds the Pod by its key: gone or terminal, nothing; to be
\* restarted, once; otherwise it fails for good and the micro-VM is destroyed.
failProbe(ok) ==
  CASE pod.st # "running" -> ok /\ UNCHANGED <<pod, vm, restart, probes, passed, late>>
    [] pod.st = "running" /\ spec.policy # "Never" ->
         /\ pod' = [pod EXCEPT !.restarting = TRUE]
         /\ restart' = IF pod.restarting THEN restart ELSE "backoff"
         /\ ok /\ UNCHANGED <<vm, probes, passed, late>>
    [] OTHER ->
         /\ pod' = [pod EXCEPT !.st = "terminal"]
         /\ probes' = NoProbes /\ passed' = {} /\ late' = FALSE
         /\ vm' = IF ok THEN NoVM ELSE vm
         /\ UNCHANGED restart

ProbeCondemns(g, k) ==
  /\ \E ok \in Answers(g, k) : Condemns(g, k, ok)
  /\ \E destroyed \in BOOLEAN : May(destroyed) /\ failProbe(destroyed)
  /\ probers' = Without(probers, <<g, k>>)
  /\ UNCHANGED <<spec, api, objs, call, disk, up>>

ProberLeaves(g, k) ==
  /\ Leave(g, k)
  /\ UNCHANGED <<spec, api, objs, call, disk, pod, vm, restart, up, budget>>

-----------------------------------------------------------------------------
(* DeletePod, and the kubelet's own end.                                   *)

Gone == api' = [api EXCEPT !.phase = "none"]

\* The Pod is forgotten first; one that is not known has nothing to delete.
Forget ==
  /\ up /\ call = Idle /\ api.phase = "deleting" /\ restart = "none"
  /\ IF pod = NoPod
       THEN Gone /\ UNCHANGED <<call, pod, probeVars>>
       ELSE /\ call' = [Idle EXCEPT !.pc = "delete", !.uid = pod.uid]
            /\ pod' = NoPod /\ stopProbes /\ UNCHANGED api
  /\ UNCHANGED <<spec, objs, disk, vm, restart, up, budget>>

\* Detach, Stop, Destroy and cleanupVolumeDirs; errors are logged.
Delete(ok) ==
  /\ call.pc = "delete"
  /\ May(ok)
  /\ \E v \in {vm, NoVM}, t \in {disk[call.uid], NoTree} :
       /\ ok => v = NoVM /\ t = NoTree
       /\ vm' = v /\ disk' = [disk EXCEPT ![call.uid] = t]
  /\ Return /\ Gone
  /\ UNCHANGED <<spec, objs, pod, restart, up, probeVars>>

\* The kubelet dies; a micro-VM it was creating may be left, one it was
\* destroying may be gone.
Crash ==
  /\ up /\ Spend("faults")
  /\ up' = FALSE
  /\ Return /\ pod' = NoPod /\ restart' = "none"
  /\ vm' \in {vm} \cup (IF call.pc = "launch" /\ vm = NoVM THEN {Launched} ELSE {})
                   \cup (IF call.pc = "delete" THEN {NoVM} ELSE {})
                   \cup (IF restart = "working" THEN {NoVM, Rebuilt} ELSE {})
  /\ probes' = NoProbes /\ probers' = [x \in {} |-> Fresh]
  /\ passed' = {} /\ late' = FALSE
  /\ UNCHANGED <<spec, api, objs, disk>>

Start ==
  /\ ~up /\ up' = TRUE
  /\ UNCHANGED <<spec, api, objs, call, disk, pod, vm, restart, budget, probeVars>>

-----------------------------------------------------------------------------
Init ==
  /\ spec \in PodSet
  /\ api = [uid |-> 0, phase |-> "none"]
  /\ objs \in [cms  : {[n \in {"cm"} |-> o] : o \in Objects(spec)["cm"]},
               secs : {[n \in {"sec"} |-> o] : o \in Objects(spec)["sec"]}, token : {TRUE}]
  /\ call = Idle /\ disk = [u \in Uids |-> NoTree]
  /\ pod = NoPod /\ vm = NoVM /\ restart = "none" /\ up = TRUE
  /\ budget = Limits(spec)
  /\ probeInit

CreateSteps ==
  \/ Translate
  \/ \E ok \in BOOLEAN : EnsureDirs(ok) \/ WriteFile(ok) \/ Lookup(ok) \/ Pull(ok) \/ Launch(ok) \/ Adopt(ok)
  \/ LaunchFails \/ AdoptFails

Prober(g, k) ==
  \/ \E ok \in BOOLEAN : Probe(g, k, ok)
  \/ ProbeActs(g, k) \/ ProbeCondemns(g, k) \/ ProberLeaves(g, k)

Next ==
  \/ Apply \/ RequestDelete \/ EditObject \/ GuestReady \/ GuestFails
  \/ CreateSteps
  \/ Reconcile \/ RestartBegin \/ (\E ok \in BOOLEAN : RestartEnd(ok)) \/ RestartFails
  \/ \E g \in 1..MaxGen, k \in Kinds : Prober(g, k)
  \/ Forget \/ (\E ok \in BOOLEAN : Delete(ok))
  \/ Crash \/ Start

Spec == Init /\ [][Next]_vars

\* Virtual Kubelet retries a Pod that is not there and polls its status, a
\* timer wakes every prober, and the goroutines of a live kubelet are scheduled.
FairSpec ==
  /\ Spec
  /\ WF_vars(CreateSteps) /\ WF_vars(\E ok \in BOOLEAN : Delete(ok))
  /\ WF_vars(Reconcile) /\ WF_vars(RestartBegin) /\ WF_vars((\E ok \in BOOLEAN : RestartEnd(ok)) \/ RestartFails)
  /\ WF_vars(Start)
  /\ \A g \in 1..MaxGen, k \in Kinds : WF_vars(Prober(g, k))

-----------------------------------------------------------------------------
(* Properties.                                                             *)

\* What variable n is worth just before the i-th entry of the Pod's env: the
\* last entry above it that sets it, or else the last envFrom source that has
\* it.  Nothing of it depends on the order of the rest.
Sets(e, s) == e.kind \notin {"configMap", "secret"}
                \/ e.key \in DOMAIN (IF e.kind = "secret" THEN s.secs ELSE s.cms)[e.obj].data
FromSource(ef, n, s) ==
  LET d == (IF ef.kind = "secret" THEN s.secs ELSE s.cms)[ef.obj].data IN
  IF n \in ValidNames /\ n \in {<<ef.prefix, k>> : k \in DOMAIN d} THEN {Text(d[n[2]])} ELSE {}
EntriesFor(p, s, n, i) == {j \in 1..(i - 1) : p.env[j].name = n /\ Sets(p.env[j], s)}
SourcesFor(p, s, n)    == {j \in DOMAIN p.envFrom : FromSource(p.envFrom[j], n, s) # {}}
Known(p, s, n, i)      == EntriesFor(p, s, n, i) # {} \/ SourcesFor(p, s, n) # {}

AnyOf(S) == CHOOSE v \in S : TRUE
Inherited(p, s, n) == AnyOf(FromSource(p.envFrom[Max(SourcesFor(p, s, n))], n, s))

\* What an entry that is no literal says, and what every entry is worth.
Plain(p, uid, s, e) ==
  CASE e.kind = "field"     -> Text(resolveFieldRef(uid, e.key).val)
    [] e.kind = "resource"  -> resolveResourceFieldRef(p, e).val
    [] e.kind = "configMap" -> Text(s.cms[e.obj].data[e.key])
    [] e.kind = "secret"    -> Text(s.secs[e.obj].data[e.key])
Worth(p, uid, s) ==
  LET worth[j \in 1..Len(p.env)] ==
        IF p.env[j].kind # "value" THEN Plain(p, uid, s, p.env[j])
        ELSE Concat(Each(p.env[j].value, LAMBDA t :
               IF t[1] = "esc" THEN Text(<<"$">>)
               ELSE IF t[1] # "ref" \/ ~Known(p, s, t[2], j) THEN <<t>>
               ELSE IF EntriesFor(p, s, t[2], j) # {} THEN worth[Max(EntriesFor(p, s, t[2], j))]
               ELSE Inherited(p, s, t[2])))
  IN worth

\* The variables known above the i-th entry, each with what it is worth there.
NamesOf(p) == ValidNames \cup {p.env[j].name : j \in 1..Len(p.env)}
DeclaredAbove(p, uid, s, i) ==
  LET worth == Worth(p, uid, s) IN
  [n \in {n \in NamesOf(p) : Known(p, s, n, i)} |->
     IF EntriesFor(p, s, n, i) # {} THEN worth[Max(EntriesFor(p, s, n, i))] ELSE Inherited(p, s, n)]
DeclaredEnv(p, uid, s) == DeclaredAbove(p, uid, s, Len(p.env) + 1)

\* The environment a micro-VM runs with, restarts and adoptions included, is
\* the one its Pod declares, for the UID and the objects of the attempt that
\* built its spec: a later entry wins over an earlier one and over envFrom, a
\* reference sees what is above it (resolveEnv, expandEnv, st.spec).
RunsAsDeclared ==
  vm # NoVM => vm.run.env = DeclaredEnv(spec, vm.uid, vm.seen)

\* Mount m is backed by tree t: its directory is there, and every path of its
\* files has what one of them says (the last one, where two are written there).
Backed(t, m) ==
  m.dir # "" =>
    /\ m.dir \in t.dirs
    /\ \A f \in {m.files[j] : j \in DOMAIN m.files} :
         /\ <<m.dir, f.path>> \in DOMAIN t.files
         /\ \E g \in {m.files[j] : j \in DOMAIN m.files} :
              g.path = f.path /\ g.data = t.files[<<m.dir, f.path>>].data

\* While a Pod is tracked, the directories of its mounts are there and every
\* file its spec promises holds what was resolved for it, whatever failed, was
\* retried, rolled back or adopted before (ensureVolumeDirs, writeConfigFiles,
\* cleanupVolumeDirs).
TreeComplete ==
  pod.st = "running" => \A i \in DOMAIN pod.run.mounts : Backed(disk[pod.uid], pod.run.mounts[i])

\* Everything the Pod needs, wherever it refers to it, is in the caches.
Named(r) == IF r.kind = "secret" THEN objs.secs[r.obj] ELSE objs.cms[r.obj]
Has(r, key) == r.optional \/ key \in DOMAIN Named(r).data
Provided(r) ==
  CASE r.kind \in {"configMap", "secret"} ->
         /\ r.optional \/ Named(r).found
         /\ \A i \in DOMAIN r.items : Has(r, r.items[i].key)
    [] r.kind = "token" -> objs.token
    [] OTHER -> TRUE
Startable ==
  /\ api.phase = "wanted"
  /\ \A i \in DOMAIN spec.envFrom : spec.envFrom[i].optional \/ Named(spec.envFrom[i]).found
  /\ \A i \in DOMAIN spec.env : spec.env[i].kind \in {"configMap", "secret"} => Has(spec.env[i], spec.env[i].key)
  /\ \A i \in DOMAIN spec.volumes : LET v == spec.volumes[i] IN
       Provided(v) /\ \A j \in DOMAIN v.sources : Provided(v.sources[j])
  /\ \A i \in DOMAIN spec.pullSecrets : LET s == objs.secs[spec.pullSecrets[i]] IN
       s.found /\ s.auths # {}

Readonly == \E u \in Uids : \E at \in DOMAIN disk[u].files : disk[u].files[at].mode = "0400"

\* A Pod whose ConfigMaps, Secrets and token are there to stay ends up tracked,
\* running or failed for good, after any of the transient failures, unless it
\* has put a file on disk that it cannot open again (CreatePod's retries).
StartsWhenReady == <>[](Startable /\ ~Readonly) => <>[](pod # NoPod)

\* The same without the exception: "the Pod self-heals once the dependency
\* appears".
SelfHeals == <>[]Startable => <>[](pod # NoPod)

ReportedReady == pod.st = "running" /\ Runs /\ probeReadiness

Gates == {k \in {"startup", "readiness"} : spec.probes[k] = "ok"}

\* A Pod that has probers is reported Ready only when the last verdicts of this
\* generation's own startup and readiness probers are good, unless the verdict
\* of a cancelled prober came in late (probeReadiness, setReady).
ReadyIsProbed ==
  ReportedReady /\ probes # NoProbes /\ ~late => Gates \subseteq passed

\* The same of every Pod: "a Pod is Ready only when it is running, has an
\* address, and (when configured) has passed its startup and readiness probes".
ReadyOnlyWhenProbed == ReportedReady => Gates \subseteq passed

\* A guest that hangs while its liveness prober watches it does not stay: it
\* is restarted, fails or goes, or a failed restart leaves it without probers
\* (runProbe, failProbe, restartWorkload).
Watched == probes # NoProbes \/ pod.restarting
Stuck   == vm.guest = "hung" /\ pod.st = "running" /\ Watched /\ spec.probes["liveness"] = "ok"
HangAnswered == Stuck ~> ~Stuck
=============================================================================
