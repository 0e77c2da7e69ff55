---------------------------- MODULE NodeNetwork ----------------------------
(***************************************************************************)
(* The data plane of one node put together: macvz-kubelet's run (main.go)  *)
(* brings up the mesh, the router and the service controller in order and  *)
(* unwinds them in reverse; SIGHUP makes the helper reload its policy and  *)
(* the mesh its peers; Pods come and go; Services change; and every        *)
(* command is a request to macvz-netd, which refuses what its policy does  *)
(* not cover.  The kubelet or the helper may die and be started again.     *)
(***************************************************************************)
EXTENDS ServiceRoutes, Mesh

CONSTANTS Configs,                        \* what the config file may say
          MaxFaults, MaxEdits, MaxChurn   \* bounds: failures, edits, changes of Services

\* The sets the other components range over cover what configs, Services and
\* slices can give rise to.
ASSUME CoverAssumption ==
  /\ \A c \in Configs : c.mesh => c.peers \in PeerSets
  /\ \A c \in Configs, svc \in Objects, slices \in SliceLists :
       filterRoutable(RoutableServiceCIDRs(c), BuildServiceRules(svc, slices)) \subseteq ServiceRules

\* The node's network is the one its config describes: the interfaces have
\* names, VMs get their addresses from the vmnet, and the protocol of a
\* Service's port is one of Kubernetes's.
ASSUME NetworkAssumption ==
  /\ VMNetIf # NoName /\ MeshIf # NoName
  /\ \A c \in Configs : c.podNetwork => \A vm \in VMIPs : ipInSet(vm, VMNetCIDRs(c))
  /\ \A svc \in Objects : \A sp \in svc.ports : sp.proto \in DOMAIN Lower

BadFile   == [bad |-> TRUE]    \* a file that does not read or parse
NoConfig  == [none |-> TRUE]

\* config.Load
Loads(f) == f # BadFile /\ ConfigValid(f)

VARIABLES file,     \* the config file
          cfg,      \* the kubelet's copy, loaded once
          policy,   \* the helper's policy
          pc,       \* where main.run is
          ctxDone,  \* the root context is cancelled (SIGTERM)
          hup,      \* a SIGHUP is pending (the channel holds one)
          watch,    \* watchMeshReload: "wait" or "sync"
          clean,    \* history: no command of this kubelet failed, and it unwound
          faults, edits, churn

nodeVars == <<file, cfg, policy, pc, ctxDone, hup, watch, clean, faults, edits, churn>>
vars == <<routerVars, ctrlVars, meshVars, nodeVars>>

\* Steps of main.run leave these to others.
World == <<file, policy, ctxDone, hup, watch, edits, churn>>

Stages == {"off", "mesh", "router", "api", "node", "ipam", "services", "pods", "server",
           "running", "stop_services", "stop_router", "stop_mesh", "exit"}
HasRouter == {"pods", "server", "running", "stop_services", "stop_router", "stop_mesh", "exit"}

TypeOK ==
  /\ RouterTypeOK /\ MeshTypeOK
  /\ file \in Configs \cup {BadFile} /\ cfg \in Configs \cup {NoConfig}
  /\ pc \in Stages /\ watch \in {"wait", "sync"}
  /\ {ctxDone, hup, clean} \subseteq BOOLEAN
  /\ ctrl \in {"off", "on", "down"} /\ dirty \cup delayed \subseteq Services

-----------------------------------------------------------------------------
(* Requests, and what may come of them.                                    *)

Route(op, t)  == [name |-> "route", op |-> op, iface |-> MeshIf, cidr |-> t]
NoDefault(i)  == [name |-> "route", op |-> "deleteDefault", iface |-> i]
WG(op, ps)    == [name |-> "wg", op |-> op, iface |-> MeshIf, peers |-> ps]
Tunnel(name)  == [name |-> name, iface |-> MeshIf]
LoadAnchor    == [name |-> "pfctl", op |-> "load", anchor |-> Anchor,
                  rules |-> Render(endpoints', services')]
FlushAnchor   == [name |-> "pfctl", op |-> "flush", anchor |-> Anchor]
Prepare       == {[name |-> "sysctl", op |-> "forwarding"], [name |-> "pfctl", op |-> "enable"],
                  NoDefault(VMNetIf)}
Link          == {[name |-> "ifconfig", op |-> "alias", iface |-> MeshIf, addr |-> MeshAddr],
                  [name |-> "ifconfig", op |-> "up", iface |-> MeshIf]}
                 \cup (IF cfg.mtu > 0
                       THEN {[name |-> "ifconfig", op |-> "mtu", iface |-> MeshIf, mtu |-> cfg.mtu]}
                       ELSE {})

\* Commands run one after the other under a context: one may be refused by
\* the helper, cut short by the context, or fail.
Outcome(reqs, done, ok) ==
  LET able == ~done /\ \A r \in reqs : Permits(policy, r)
  IN  /\ ok => able
      /\ faults' = IF able /\ ~ok THEN faults + 1 ELSE faults
      /\ faults' <= MaxFaults
      /\ clean' = (clean /\ ok)

-----------------------------------------------------------------------------
(* main.run.                                                               *)

\* The config loads, and the helper answers and enforces a policy; setupMesh
\* follows, unless the mesh is disabled.
Boot ==
  /\ pc = "off" /\ Loads(file) /\ policy # NoPolicy
  /\ cfg' = file /\ clean' = (file.mesh /\ file.podNetwork)
  /\ IF file.mesh THEN pc' = "mesh" /\ UpBegin(file.peers)
                  ELSE pc' = "router" /\ UNCHANGED meshVars
  /\ UNCHANGED <<routerVars, ctrlVars, World, faults>>

\* The kubelet's process is gone; what it told the kernel stays.
Gone ==
  /\ pc' = "off" /\ cfg' = NoConfig /\ watch' = "wait" /\ hup' = FALSE /\ ctxDone' = FALSE
  /\ RouterDies /\ ControllerDies /\ MeshDies
  /\ UNCHANGED <<file, policy, edits, churn>>

\* A command of mesh.Up.
MeshUp(ok) ==
  /\ pc = "mesh"
  /\ \/ UpCreate(ok) /\ Outcome({Tunnel("wireguard-go")}, ctxDone, ok)
     \/ UpConf(ok) /\ Outcome({WG("setconf", peers)}, ctxDone, ok)
     \/ UpLink(ok) /\ Outcome(Link, ctxDone, ok)
     \/ \E t \in Want : AddRoute(t, ok) /\ Outcome({Route("add", t)}, ctxDone, ok)
  /\ UNCHANGED <<routerVars, ctrlVars, World, cfg, pc>>

MeshIsUp ==
  /\ pc = "mesh" /\ RoutesDone
  /\ pc' = "router"
  /\ UNCHANGED <<routerVars, ctrlVars, World, cfg, clean, faults>>

\* Up failed: run returns, and stopMesh has not been deferred yet.
MeshFailed ==
  /\ pc = "mesh" /\ call = Idle
  /\ Gone
  /\ UNCHANGED <<clean, faults>>

\* setupPodNetwork
StartRouter(ok) ==
  /\ pc = "router"
  /\ pc' = IF ok THEN "api" ELSE "stop_mesh"
  /\ IF cfg.podNetwork
     THEN \/ Start(ok) /\ Outcome(Prepare \cup {LoadAnchor}, ctxDone, ok)
          \/ ~ok /\ Outcome(Prepare, ctxDone, ok) /\ UNCHANGED routerVars
     ELSE ok /\ UNCHANGED <<routerVars, clean, faults>>
  /\ UNCHANGED <<ctrlVars, meshVars, World, cfg>>

\* A stage that leaves the data plane alone; when it fails (or is told to
\* stop), what has been deferred so far unwinds.
Stage(at, next, back, ok) ==
  /\ pc = at /\ pc' = IF ok THEN next ELSE back
  /\ UNCHANGED <<routerVars, ctrlVars, meshVars, World, cfg, clean, faults>>

waitForAPIServer(ok)   == Stage("api", "node", "stop_router", ok)
RegisterNode(ok)       == Stage("node", "ipam", "stop_router", ok)
setupIPAM(ok)          == Stage("ipam", "services", "stop_router", ok)
startPodController(ok) == Stage("pods", "server", "stop_services", ok)
startKubeletServer(ok) == Stage("server", "running", "stop_services", ok)

\* startServiceController; its workers never start under a cancelled context.
StartServices ==
  /\ pc = "services" /\ pc' = "pods"
  /\ IF cfg.podNetwork /\ ~ctxDone THEN RunController(RoutableServiceCIDRs(cfg))
                                    ELSE UNCHANGED ctrlVars
  /\ UNCHANGED <<routerVars, meshVars, World, cfg, clean, faults>>

\* SIGTERM, at any time; run looks at it where it waits.
Terminate ==
  /\ pc # "off" /\ ~ctxDone /\ ctxDone' = TRUE
  /\ UNCHANGED <<routerVars, ctrlVars, meshVars, file, cfg, policy, pc, hup, watch, clean,
                 faults, edits, churn>>

Unwind ==
  /\ pc = "running" /\ ctxDone /\ pc' = "stop_services"
  /\ UNCHANGED <<routerVars, ctrlVars, meshVars, World, cfg, clean, faults>>

StopServices ==
  /\ pc = "stop_services" /\ pc' = "stop_router"
  /\ IF ctrl = "on" THEN StopController ELSE UNCHANGED ctrlVars
  /\ UNCHANGED <<routerVars, meshVars, World, cfg, clean, faults>>

\* Faulty: flushes the anchor without Router.Stop, and the maps stay.
StopRouterKeepsMaps(ok) ==
  /\ pc = "stop_router" /\ pc' = "stop_mesh"
  /\ IF started THEN /\ started' = FALSE /\ anchor' = IF ok THEN {} ELSE anchor
                     /\ synced' = FALSE /\ UNCHANGED <<endpoints, services>>
                     /\ Outcome({FlushAnchor}, FALSE, ok)
                ELSE ok /\ UNCHANGED <<routerVars, clean, faults>>
  /\ UNCHANGED <<ctrlVars, meshVars, World, cfg>>

\* stopPodNet and stopMesh use a context of their own.
StopRouter(ok) ==
  /\ pc = "stop_router" /\ pc' = "stop_mesh"
  /\ IF started THEN Stop(ok) /\ Outcome({FlushAnchor}, FALSE, ok)
                ELSE ok /\ UNCHANGED <<routerVars, clean, faults>>
  /\ UNCHANGED <<ctrlVars, meshVars, World, cfg>>

\* Faulty: tears the mesh down under a Sync that still runs.
StopMeshUnlocked(failed, destroyed) ==
  /\ pc = "stop_mesh" /\ pc' = "exit" /\ cfg.mesh /\ failed = {} /\ destroyed
  /\ up' = FALSE /\ routes' = {} /\ routed' = FALSE /\ iface' = FALSE /\ wg' = {} /\ kroutes' = {}
  /\ UNCHANGED <<peers, call, faults, clean, routerVars, ctrlVars, World, cfg>>

\* mesh.Down: what the helper refuses, and at most one command more, fails.
StopMesh(failed, destroyed) ==
  LET refused == {t \in routes : ~Permits(policy, Route("delete", t))}
      able    == Permits(policy, Tunnel("pkill"))
  IN  /\ pc = "stop_mesh" /\ pc' = "exit"
      /\ refused \subseteq failed /\ (destroyed => able)
      /\ IF cfg.mesh
         THEN /\ Down(failed, destroyed)
              /\ faults' = IF failed = refused /\ destroyed = able THEN faults ELSE faults + 1
              /\ clean' = (clean /\ failed = {} /\ destroyed)
         ELSE failed = {} /\ ~destroyed /\ UNCHANGED <<meshVars, faults, clean>>
      /\ faults' <= MaxFaults
      /\ UNCHANGED <<routerVars, ctrlVars, World, cfg>>

Exit ==
  /\ pc = "exit" /\ Gone
  /\ UNCHANGED <<clean, faults>>

Crash ==
  /\ pc # "off" /\ faults < MaxFaults
  /\ faults' = faults + 1 /\ clean' = FALSE
  /\ Gone

-----------------------------------------------------------------------------
(* The operator, SIGHUP and the helper.                                    *)

\* The file is edited, and the kubelet is signalled or not.
Edit(c, signal) ==
  /\ edits < MaxEdits /\ c # file
  /\ file' = c /\ edits' = edits + 1
  /\ signal => pc \notin {"off", "mesh"} /\ cfg.mesh
  /\ hup' = (hup \/ signal)
  /\ UNCHANGED <<routerVars, ctrlVars, meshVars, cfg, policy, pc, ctxDone, watch, clean, faults, churn>>

\* watchMeshReload: the helper first, with its own copy of the file ...
Reload ==
  /\ hup /\ watch = "wait" /\ call = Idle /\ ~ctxDone
  /\ hup' = FALSE
  /\ IF Loads(file) THEN policy' = PrivilegedHelperPolicy(file) /\ watch' = "sync"
                    ELSE UNCHANGED <<policy, watch>>
  /\ UNCHANGED <<routerVars, ctrlVars, meshVars, file, cfg, pc, ctxDone, clean, faults, edits, churn>>

\* ... then reconcileMeshPeers, which reads the file again.
Reconcile ==
  /\ watch = "sync" /\ call = Idle /\ watch' = "wait"
  /\ IF Loads(file) /\ file.mesh /\ PeersValid(file.peers) /\ up
     THEN SyncBegin(file.peers) ELSE UNCHANGED meshVars
  /\ UNCHANGED <<routerVars, ctrlVars, file, cfg, policy, pc, ctxDone, hup, clean, faults, edits, churn>>

\* A command of mesh.Sync.
MeshSync(ok) ==
  /\ pc # "mesh"
  /\ \/ SyncConf(ok) /\ Outcome({WG("syncconf", call.next)}, ctxDone, ok)
     \/ \E t \in routes : DeleteRoute(t, ok) /\ Outcome({Route("delete", t)}, ctxDone, ok)
     \/ \E t \in Want : AddRoute(t, ok) /\ Outcome({Route("add", t)}, ctxDone, ok)
  /\ UNCHANGED <<routerVars, ctrlVars, World, cfg, pc>>

MeshIsSynced ==
  /\ pc # "mesh" /\ RoutesDone
  /\ UNCHANGED <<routerVars, ctrlVars, nodeVars>>

\* macvz-netd is started again (launchd keeps it running).
HelperRestart ==
  /\ Loads(file) /\ policy # PrivilegedHelperPolicy(file)
  /\ policy' = PrivilegedHelperPolicy(file)
  /\ UNCHANGED <<routerVars, ctrlVars, meshVars, file, cfg, pc, ctxDone, hup, watch, clean,
                 faults, edits, churn>>

-----------------------------------------------------------------------------
(* The provider's calls of the router, and the service controller.         *)

Quiet == UNCHANGED <<meshVars, World, cfg, pc>>

\* The Pod's address is one IPAM took from the node's Pod CIDR.
PodAttach(p, ip, vm, i, ok) ==
  /\ pc \in HasRouter /\ ip \in cfg.podCIDR
  /\ Attach(p, ip, vm, i, ok)
  /\ Outcome({NoDefault(VMNetIf), NoDefault(i), LoadAnchor}, FALSE, ok)
  /\ UNCHANGED ctrlVars /\ Quiet

PodDetach(p, ok) ==
  /\ pc \in HasRouter
  /\ Detach(p, ok)
  /\ IF started THEN Outcome({LoadAnchor}, FALSE, ok) ELSE ok /\ UNCHANGED <<clean, faults>>
  /\ UNCHANGED ctrlVars /\ Quiet

ServiceApply(k, ok) ==
  /\ Apply(k, ok)
  /\ IF started THEN Outcome({LoadAnchor}, ctxDone \/ ctrl = "down", ok)
                ELSE ok /\ UNCHANGED <<clean, faults>>
  /\ Quiet

ServiceWork(k) ==
  /\ Get(k) \/ ReadSlices(k) \/ Retry(k)
  /\ UNCHANGED <<routerVars, clean, faults>> /\ Quiet

ServiceSkip(k) ==
  /\ ApplyNothing(k)
  /\ UNCHANGED <<clean, faults>> /\ Quiet

Churn(k) ==
  /\ churn < MaxChurn /\ churn' = churn + 1
  /\ \/ \E svc \in Objects \cup {NoService} : ServiceEvent(k, svc)
     \/ \E slices \in SliceLists : SliceEvent(k, slices)
  /\ UNCHANGED <<routerVars, meshVars, file, cfg, policy, pc, ctxDone, hup, watch, clean, faults, edits>>

-----------------------------------------------------------------------------
Init ==
  /\ RouterInit /\ MeshInit /\ ControllerInit
  /\ file \in Configs /\ Loads(file) /\ policy = PrivilegedHelperPolicy(file)
  /\ pc = "off" /\ cfg = NoConfig /\ watch = "wait"
  /\ hup = FALSE /\ ctxDone = FALSE /\ clean = FALSE
  /\ faults = 0 /\ edits = 0 /\ churn = 0

Next ==
  \/ Boot \/ MeshIsUp \/ MeshFailed \/ StartServices \/ Terminate \/ Unwind \/ StopServices
  \/ Exit \/ Crash
  \/ \E ok \in BOOLEAN :
       \/ MeshUp(ok) \/ StartRouter(ok) \/ StopRouter(ok) \/ MeshSync(ok)
       \/ waitForAPIServer(ok) \/ RegisterNode(ok) \/ setupIPAM(ok)
       \/ startPodController(ok) \/ startKubeletServer(ok)
  \/ \E failed \in SUBSET routes, destroyed \in BOOLEAN : StopMesh(failed, destroyed)
  \/ \E c \in Configs \cup {BadFile}, signal \in BOOLEAN : Edit(c, signal)
  \/ Reload \/ Reconcile \/ MeshIsSynced \/ HelperRestart
  \/ \E p \in Pods, ok \in BOOLEAN :
       \/ PodDetach(p, ok)
       \/ \E ip \in PodIPs, vm \in VMIPs, i \in {VMNetIf} \cup Bridges : PodAttach(p, ip, vm, i, ok)
  \/ \E k \in Services : ServiceWork(k) \/ ServiceSkip(k) \/ Churn(k)
                         \/ \E ok \in BOOLEAN : ServiceApply(k, ok)

Spec == Init /\ [][Next]_vars

\* The controller's workers and its rate limiter run for as long as it does.
FairSpec == Spec /\ \A k \in Services :
  /\ WF_vars(ServiceWork(k)) /\ WF_vars(ServiceSkip(k))
  /\ WF_vars(\E ok \in BOOLEAN : ServiceApply(k, ok))

-----------------------------------------------------------------------------
(* The composed system uses the router only as RouterSpec allows, and the  *)
(* mesh only as MeshSpec does, so that what is proved of each alone holds  *)
(* here (main.go and serve.go: who calls what, and when).                  *)
UsesRouter == RouterSpec
UsesMesh   == MeshSpec

(* No Service, and no Pod, can make the helper refuse the shared anchor: as*)
(* long as the helper enforces the policy of the config the kubelet runs   *)
(* with, it accepts what the router would load, whatever endpoints the     *)
(* cluster's Services have (RoutableServiceCIDRs against lintRDRRule; the  *)
(* claim of the comments on filterRoutable and startServiceController).    *)
NothingPoisons ==
  started /\ cfg.mesh /\ policy = PrivilegedHelperPolicy(cfg)
    => lintAnchorRuleset(policy, Render(endpoints, services))

(* A kubelet that had no command fail and unwound by itself leaves nothing *)
(* in the host: no rule in the anchor and no mesh interface, although      *)
(* workers, Pod operations and a SIGHUP may still be at work while it      *)
(* unwinds, and whatever an earlier kubelet that crashed left behind       *)
(* (main.go, the deferred stops; Router.Stop, Mesh.Down).                  *)
StoppedClean == pc = "off" /\ clean => anchor = {} /\ ~iface /\ kroutes = {}

(* Removing a peer from the config and signalling the kubelet removes its  *)
(* route: with no fault, once a reload is over and the mesh runs with the  *)
(* file's peers, the kernel routes what is behind them and nothing else    *)
(* (docs/NETWORKING.md).                                                   *)
PeerRouteRemoved ==
  pc = "running" /\ ~ctxDone /\ faults = 0 /\ ~hup /\ watch = "wait" /\ call = Idle
     /\ file # BadFile /\ cfg.mesh /\ peers = file.peers
    => kroutes = Want

(* Every Service is brought to where the caches say it should be, again    *)
(* and again, for as long as the controller runs (processNext).            *)
ServicesConverge ==
  \A k \in Services : []<>(ctrl # "on" \/ services[k] = Desired(k))

(* A Service without ready backends, or gone, ends up with no redirect in  *)
(* the kernel (service.go, controller.go: "A deleted/headless/backend-less *)
(* Service detaches its rules").                                           *)
RedirectsGo ==
  \A k \in Services :
    []<>(ctrl # "on" \/ ctxDone \/ Desired(k) # {} \/ ~\E r \in anchor : r.kind = "rdr")
=============================================================================
