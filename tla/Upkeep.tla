------------------------------- MODULE Upkeep -------------------------------
(***************************************************************************)
(* What keeps a node in order beside the Pod controller, over the          *)
(* micro-VMs, the Pods and the Node object they share: the orphan reaper   *)
(* of the kubelet, the watch that reports the runtime's readiness, and the *)
(* operator's "cleanup" and "remove" commands, which are processes of      *)
(* their own.  A micro-VM has the name of its Pod; the kubelet's creation  *)
(* and deletion of Pods is one step each (PodLifecycle has them).          *)
(***************************************************************************)
EXTENDS Integers, FiniteSets, Sequences, SequencesExt

CONSTANTS
  Ours,          \* workload IDs with MacVz's prefix, one per Pod name
  Foreign,       \* other workloads of the host
  GracePeriod,   \* of the reaper, in ticks; ages count no further
  Budgets        \* bounds, any of which a behaviour may have: on the "pods" created in the
                 \* API, on "faults" (runtime outages, failed calls), on the kubelet's
                 \* "stops" and on the operator's "commands"

ASSUME UpkeepAssumption ==
  IsFiniteSet(Ours) /\ Ours \cap Foreign = {} /\ GracePeriod \in Nat

VARIABLES
  pods,      \* the API: name -> "none", "live" or "deleting"
  cache,     \* what the kubelet's Pod lister has of it
  vms,       \* the workloads on the host
  rules,     \* the Pods whose pf rules are in the anchor
  mesh,      \* the WireGuard interface exists
  rt,        \* the container runtime answers
  up,        \* the kubelet runs
  node,      \* the Node object: "absent", "ready" or "notReady"
  watch,     \* the readiness watch: where it is, and its "last"
  firstSeen, \* the reaper's grace clock: how long ago, or -1
  pass,      \* the reaper's pass
  cmd,       \* the operator's command
  budget,    \* what is left of the behaviour's bounds
  safe,      \* ghost: ticks since a pass last found a workload not to be an orphan
  young      \* ghost: Pods that came to life since the pass took its expected set

vars == <<pods, cache, vms, rules, mesh, rt, up, node, watch, firstSeen, pass, cmd, budget, safe, young>>
host == <<rules, mesh, node>>

Older(n) == IF n < 0 \/ n = GracePeriod THEN n ELSE n + 1
Spend(b) == budget[b] > 0 /\ budget' = [budget EXCEPT ![b] = @ - 1]
May(ok)  == IF ok THEN rt /\ UNCHANGED budget ELSE (IF rt THEN Spend("faults") ELSE UNCHANGED budget)

NoPass == [at |-> "idle", expected |-> {}, ages |-> << >>, todo |-> << >>, reaped |-> {}, lag |-> 0]
NoCmd  == [kind |-> "none", at |-> "idle", expected |-> {}, todo |-> << >>, failed |-> FALSE, keepNode |-> FALSE]

-----------------------------------------------------------------------------
(* The API, the kubelet's Pods, the runtime, the clock.                    *)

ApplyPod(p) ==
  /\ pods[p] = "none" /\ Spend("pods")
  /\ pods' = [pods EXCEPT ![p] = "live"]
  /\ young' = IF pass.at = "idle" THEN {} ELSE young \cup {p}
  /\ UNCHANGED <<cache, vms, host, rt, up, watch, firstSeen, pass, cmd, safe>>

RequestDelete(p) ==
  /\ pods[p] = "live"
  /\ pods' = [pods EXCEPT ![p] = "deleting"]
  /\ UNCHANGED <<cache, vms, host, rt, up, watch, firstSeen, pass, cmd, budget, safe, young>>

\* Forced: the object goes without the kubelet.
ForceDelete(p) ==
  /\ pods[p] = "deleting"
  /\ pods' = [pods EXCEPT ![p] = "none"]
  /\ UNCHANGED <<cache, vms, host, rt, up, watch, firstSeen, pass, cmd, budget, safe, young>>

CacheSync(p) ==
  /\ up /\ cache[p] # pods[p]
  /\ cache' = [cache EXCEPT ![p] = pods[p]]
  /\ UNCHANGED <<pods, vms, host, rt, up, watch, firstSeen, pass, cmd, budget, safe, young>>

CreatePod(p) ==
  /\ up /\ rt /\ cache[p] = "live" /\ p \notin vms
  /\ vms' = vms \cup {p} /\ rules' = rules \cup {p}
  /\ UNCHANGED <<pods, cache, mesh, node, rt, up, watch, firstSeen, pass, cmd, budget, safe, young>>

\* DeletePod reports success even when the micro-VM could not be destroyed.
DeletePod(p, ok) ==
  /\ up /\ cache[p] = "deleting" /\ pods[p] = "deleting" /\ May(ok)
  /\ vms' = IF ok THEN vms \ {p} ELSE vms
  /\ rules' = rules \ {p}
  /\ pods' = [pods EXCEPT ![p] = "none"]
  /\ UNCHANGED <<cache, mesh, node, rt, up, watch, firstSeen, pass, cmd, safe, young>>

RuntimeFails ==
  /\ rt /\ Spend("faults") /\ rt' = FALSE
  /\ UNCHANGED <<pods, cache, vms, host, up, watch, firstSeen, pass, cmd, safe, young>>

RuntimeRecovers ==
  /\ ~rt /\ rt' = TRUE
  /\ UNCHANGED <<pods, cache, vms, host, up, watch, firstSeen, pass, cmd, budget, safe, young>>

Tick ==
  /\ firstSeen' = [p \in Ours |-> Older(firstSeen[p])]
  /\ safe' = [p \in Ours |-> Older(safe[p])]
  /\ pass' = [pass EXCEPT !.lag = IF pass.at = "scan" THEN Older(@) ELSE 0]
  /\ UNCHANGED <<pods, cache, vms, host, rt, up, watch, cmd, budget, young>>

-----------------------------------------------------------------------------
(* Cleaner.Scan and Cleaner.Reap, which the reaper and both commands use.  *)

IsMacVzVM(w) == w \in Ours
Scan(expected) == {w \in vms : IsMacVzVM(w) /\ w \notin expected}

\* One Stop and Destroy; an error leaves the workload and goes on with the next.
DestroyNext(todo, ok) ==
  /\ todo # << >> /\ May(ok)
  /\ vms' = IF ok THEN vms \ {Head(todo)} ELSE vms

\* expectedWorkloadIDs: a Pod that is being deleted protects nothing.
expectedWorkloadIDs(view) == {p \in Ours : view[p] = "live"}

-----------------------------------------------------------------------------
(* orphan.Reaper.reapOnce.                                                 *)

PassBegins ==
  /\ up /\ pass.at = "idle"
  /\ pass' = [NoPass EXCEPT !.at = "scan", !.expected = expectedWorkloadIDs(cache), !.ages = firstSeen]
  /\ young' = {p \in Ours : pods[p] = "live" /\ cache[p] # "live"}
  /\ UNCHANGED <<pods, cache, vms, host, rt, up, watch, firstSeen, cmd, budget, safe>>

\* Faulty: keeps the clock of a workload that has its Pod again.
ClockKeeps(orphans) == [p \in Ours |-> IF p \in orphans /\ firstSeen[p] = -1 THEN pass.lag ELSE firstSeen[p]]

\* Faulty: every scan starts the grace anew.
ClockRestarts(orphans) == [p \in Ours |-> IF p \in orphans THEN pass.lag ELSE -1]

\* A workload no longer an orphan is forgotten, a new one's grace began when
\* the pass did; "now" is that time too for the ones whose grace is over.
Clock(orphans)   == [p \in Ours |-> IF p \notin orphans THEN -1
                                    ELSE IF firstSeen[p] = -1 THEN pass.lag ELSE firstSeen[p]]
Matured(orphans) == {p \in orphans : GracePeriod <= (IF pass.ages[p] = -1 THEN 0 ELSE pass.ages[p])}

PassScans ==
  LET orphans == Scan(pass.expected)
      matured == Matured(orphans)
  IN /\ pass.at = "scan" /\ rt
     /\ firstSeen' = Clock(orphans)
     /\ pass' = IF matured = {} THEN NoPass
                ELSE [pass EXCEPT !.at = "reap", !.ages = << >>, !.todo = SetToSeq(matured)]
     /\ young' = IF matured = {} THEN {} ELSE young
     /\ safe' = [p \in Ours |-> IF p \in orphans THEN safe[p] ELSE 0]
     /\ UNCHANGED <<pods, cache, vms, host, rt, up, watch, cmd, budget>>

\* The list of the workloads cannot be had: the pass is skipped, the clocks stay.
PassSkips ==
  /\ pass.at = "scan" /\ May(FALSE)
  /\ pass' = NoPass /\ young' = {}
  /\ UNCHANGED <<pods, cache, vms, host, rt, up, watch, firstSeen, cmd, safe>>

PassDestroys(ok) ==
  /\ pass.at = "reap" /\ DestroyNext(pass.todo, ok)
  /\ pass' = [pass EXCEPT !.todo = Tail(@), !.reaped = IF ok THEN @ \cup {Head(pass.todo)} ELSE @]
  /\ UNCHANGED <<pods, cache, host, rt, up, watch, firstSeen, cmd, safe, young>>

PassEnds ==
  /\ pass.at = "reap" /\ pass.todo = << >>
  /\ firstSeen' = [p \in Ours |-> IF p \in pass.reaped THEN -1 ELSE firstSeen[p]]
  /\ pass' = NoPass /\ young' = {}
  /\ UNCHANGED <<pods, cache, vms, host, rt, up, watch, cmd, budget, safe>>

-----------------------------------------------------------------------------
(* NodeStatusProvider.watch, and the kubelet's life.                       *)

BuildNode == IF rt THEN "ready" ELSE "notReady"

\* The Node is built, and registered, before the watch takes its own first look.
KubeletStarts ==
  /\ ~up /\ up' = TRUE /\ cmd.kind # "remove" /\ mesh' = TRUE
  /\ node' = BuildNode /\ watch' = [at |-> "registered", last |-> "none"]
  /\ cache' = pods /\ firstSeen' = [p \in Ours |-> -1] /\ pass' = NoPass
  /\ safe' = [p \in Ours |-> 0]
  /\ UNCHANGED <<pods, vms, rules, rt, cmd, budget, young>>

WatchStarts ==
  /\ watch.at = "registered"
  /\ watch' = [at |-> "watching", last |-> BuildNode]
  /\ UNCHANGED <<pods, cache, vms, host, rt, up, firstSeen, pass, cmd, budget, safe, young>>

\* Faulty: reports only that the runtime is gone.
WatchTicksDown ==
  /\ watch.at = "watching" /\ watch.last # BuildNode /\ ~rt
  /\ watch' = [watch EXCEPT !.last = BuildNode] /\ node' = BuildNode
  /\ UNCHANGED <<pods, cache, vms, rules, mesh, rt, up, firstSeen, pass, cmd, budget, safe, young>>

WatchTicks ==
  /\ watch.at = "watching" /\ watch.last # BuildNode
  /\ watch' = [watch EXCEPT !.last = BuildNode] /\ node' = BuildNode
  /\ UNCHANGED <<pods, cache, vms, rules, mesh, rt, up, firstSeen, pass, cmd, budget, safe, young>>

\* It stops, or dies: nothing on the host changes here (NodeNetwork has the
\* orderly end of the data plane).
KubeletStops ==
  /\ up /\ Spend("stops") /\ up' = FALSE
  /\ watch' = [at |-> "off", last |-> "none"] /\ pass' = NoPass
  /\ cache' = [p \in Ours |-> "none"] /\ safe' = [p \in Ours |-> 0] /\ young' = {}
  /\ firstSeen' = [p \in Ours |-> -1]
  /\ UNCHANGED <<pods, vms, host, rt, cmd>>

-----------------------------------------------------------------------------
(* The commands.                                                           *)

\* runCleanup asks the API which Pods the node has, or with --all nothing.
CleanupStarts(all) ==
  /\ cmd.at = "idle" /\ Spend("commands")
  /\ cmd' = [NoCmd EXCEPT !.kind = "cleanup", !.at = "scan",
                          !.expected = IF all THEN {} ELSE expectedWorkloadIDs(pods)]
  /\ UNCHANGED <<pods, cache, vms, host, rt, up, watch, firstSeen, pass, safe, young>>

\* noderemove.Run, with the kubelet stopped: first the Node object.
RemoveStarts(keep, ok) ==
  /\ cmd.at = "idle" /\ ~up
  /\ budget.commands > 0 /\ (ok \/ budget.faults > 0)
  /\ budget' = [budget EXCEPT !.commands = @ - 1, !.faults = IF ok THEN @ ELSE @ - 1]
  /\ node' = IF keep \/ ~ok THEN node ELSE "absent"
  /\ cmd' = [NoCmd EXCEPT !.kind = "remove", !.at = "scan", !.keepNode = keep, !.failed = ~keep /\ ~ok]
  /\ UNCHANGED <<pods, cache, vms, rules, mesh, rt, up, watch, firstSeen, pass, safe, young>>

\* Scan; when it fails "cleanup" ends and "remove" goes on to the next step.
CommandScans(ok) ==
  /\ cmd.at = "scan" /\ May(ok)
  /\ cmd' = CASE ok -> [cmd EXCEPT !.at = "reap", !.todo = SetToSeq(Scan(cmd.expected))]
              [] ~ok /\ cmd.kind = "cleanup" -> NoCmd
              [] OTHER -> [cmd EXCEPT !.at = "reap", !.failed = TRUE]
  /\ UNCHANGED <<pods, cache, vms, host, rt, up, watch, firstSeen, pass, safe, young>>

\* Faulty: a micro-VM that could not be destroyed is no failure.
CommandDestroysQuietly(ok) ==
  /\ cmd.at = "reap" /\ DestroyNext(cmd.todo, ok)
  /\ cmd' = [cmd EXCEPT !.todo = Tail(@)]
  /\ UNCHANGED <<pods, cache, host, rt, up, watch, firstSeen, pass, safe, young>>

CommandDestroys(ok) ==
  /\ cmd.at = "reap" /\ DestroyNext(cmd.todo, ok)
  /\ cmd' = [cmd EXCEPT !.todo = Tail(@), !.failed = @ \/ ~ok]
  /\ UNCHANGED <<pods, cache, host, rt, up, watch, firstSeen, pass, safe, young>>

\* The anchor is flushed, whoever's rules are in it.
FlushAnchor(ok) ==
  /\ cmd.at = "reap" /\ cmd.todo = << >>
  /\ IF ok THEN UNCHANGED budget ELSE Spend("faults")
  /\ rules' = IF ok THEN {} ELSE rules
  /\ cmd' = IF cmd.kind = "cleanup" THEN NoCmd
            ELSE [cmd EXCEPT !.at = "mesh", !.failed = @ \/ ~ok]
  /\ UNCHANGED <<pods, cache, vms, mesh, node, rt, up, watch, firstSeen, pass, safe, young>>

MeshRemove(ok) ==
  /\ cmd.at = "mesh"
  /\ IF ok THEN UNCHANGED budget ELSE Spend("faults")
  /\ mesh' = (mesh /\ ~ok)
  /\ cmd' = [cmd EXCEPT !.at = "done", !.failed = @ \/ ~ok]
  /\ UNCHANGED <<pods, cache, vms, rules, node, rt, up, watch, firstSeen, pass, safe, young>>

\* The command's result has been read.
CommandEnds ==
  /\ cmd.at = "done" /\ cmd' = NoCmd
  /\ UNCHANGED <<pods, cache, vms, host, rt, up, watch, firstSeen, pass, budget, safe, young>>

-----------------------------------------------------------------------------
Init ==
  /\ pods = [p \in Ours |-> "none"] /\ cache = pods
  /\ vms = Foreign /\ rules = {} /\ mesh = FALSE /\ rt = TRUE
  /\ up = FALSE /\ node = "absent" /\ watch = [at |-> "off", last |-> "none"]
  /\ firstSeen = [p \in Ours |-> -1] /\ pass = NoPass /\ cmd = NoCmd
  /\ budget \in Budgets
  /\ safe = [p \in Ours |-> 0] /\ young = {}

Pass    == PassBegins \/ PassScans \/ PassSkips \/ (\E ok \in BOOLEAN : PassDestroys(ok)) \/ PassEnds
Cleanup == \E all \in BOOLEAN : CleanupStarts(all)
Removal == \E keep, ok \in BOOLEAN : RemoveStarts(keep, ok)
Command == \/ \E ok \in BOOLEAN : CommandScans(ok) \/ CommandDestroys(ok) \/ FlushAnchor(ok) \/ MeshRemove(ok)
           \/ CommandEnds

Next ==
  \/ \E p \in Ours : ApplyPod(p) \/ RequestDelete(p) \/ ForceDelete(p) \/ CacheSync(p) \/ CreatePod(p)
  \/ \E p \in Ours, ok \in BOOLEAN : DeletePod(p, ok)
  \/ RuntimeFails \/ RuntimeRecovers \/ Tick
  \/ Pass
  \/ KubeletStarts \/ WatchStarts \/ WatchTicks \/ KubeletStops
  \/ Cleanup \/ Removal \/ Command

Spec == Init /\ [][Next]_vars

\* Time passes, the tickers fire, the informer delivers, launchd starts the
\* kubelet again, an outage ends and a command runs to its end.
FairSpec ==
  /\ Spec
  /\ WF_vars(Tick) /\ WF_vars(Pass) /\ WF_vars(WatchStarts) /\ WF_vars(WatchTicks)
  /\ WF_vars(\E p \in Ours : CacheSync(p))
  /\ WF_vars(KubeletStarts) /\ WF_vars(RuntimeRecovers) /\ WF_vars(Command)

-----------------------------------------------------------------------------
(* Properties.                                                             *)

\* The reaper destroys only MacVz's own micro-VMs, only when every scan of the
\* last GracePeriod found them without a Pod, and never the one of a Pod that
\* was already live when the pass asked which are (reapOnce, firstSeen, Scan).
ReapsPastGrace ==
  [][\A w \in vms \ vms' : pass.at = "reap" /\ pass' # pass =>
       /\ w \in Ours /\ safe[w] >= GracePeriod
       /\ pods[w] = "live" => w \in young]_vars

\* A micro-VM without a Pod does not stay: after its grace a pass, or a later
\* one if the runtime fails it, destroys it (Run, reapOnce).
Orphan(w) == w \in vms /\ pods[w] = "none"
OrphansGo == \A w \in Ours : Orphan(w) ~> ~Orphan(w)

\* A removal that reports no failed step has left nothing: no Node (unless it
\* was to be kept), no micro-VM of MacVz, no rule, no interface, and every
\* other workload of the host (noderemove.Run, Result.OK).
RemovalClean ==
  cmd.kind = "remove" /\ cmd.at = "done" /\ ~cmd.failed =>
    /\ node = "absent" \/ cmd.keepNode
    /\ vms = Foreign /\ rules = {} /\ ~mesh

\* The Node object comes to say what the runtime's state is, unless that
\* changed between the registration and the watch's first look (watch).
ReadinessReported == <>[](node # "absent" /\ node = watch.last => node = BuildNode)

\* The same without the exception: "The node registered by the controller
\* already reflects the readiness observed at startup".
ReadinessAlwaysReported == <>[](node # "absent" /\ up => node = BuildNode)
=============================================================================
