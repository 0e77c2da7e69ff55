------------------------- MODULE DataPlane_proofs -------------------------
(***************************************************************************)
(* The router and the mesh, each on its own, and the node composed of them *)
(* and the Service controller, for every set of Pods, Services, addresses, *)
(* rules, configs and peers: the node is a router and a mesh (refinement), *)
(* inherits what is proved of them, never has the helper refuse the anchor *)
(* it would load, and leaves nothing behind when it unwinds.               *)
(***************************************************************************)
EXTENDS NodeNetwork, TLAPS

\* A router that is not started has forgotten everything: with it, a flush
\* leaves the anchor as the maps say, and no late Detach finds an entry.
StoppedIsEmpty == ~started => endpoints = NoEndpoints /\ services = NoServices

RouterInv == AnchorCurrent /\ StoppedIsEmpty

(* Empty maps render to an empty anchor (renderAnchor, renderServiceRules).*)
LEMMA EmptyRender == Render(NoEndpoints, NoServices) = {}
<1>1. Attached(NoEndpoints) = {}
  BY Zenon DEF Attached, NoEndpoints
<1>2. renderAnchor(NoEndpoints) = {}
  BY <1>1, Zenon DEF renderAnchor
<1>3. UNION {NoServices[k] : k \in Services} = {}
  BY Zenon DEF NoServices
<1>4. renderServiceRules(NoEndpoints, NoServices) = {}
  <2>1. ASSUME NEW x \in renderServiceRules(NoEndpoints, NoServices) PROVE FALSE
    <3>1. PICK i \in vmnetInterfaces(NoEndpoints), r \in UNION {NoServices[k] : k \in Services} : TRUE
      BY <2>1, SMT DEF renderServiceRules
    <3> QED BY <3>1, <1>3
  <2> QED BY <2>1, Zenon
<1> QED
  BY <1>2, <1>4, Zenon DEF Render

(* A load leaves the anchor as the new maps say, or leaves it not synced   *)
(* (loadAnchorLocked).                                                     *)
LEMMA LoadCurrent == ASSUME NEW ok \in BOOLEAN, Load(ok) PROVE AnchorCurrent'
<1>1. CASE ok
  BY <1>1, Zenon DEF Load, AnchorCurrent
<1>2. CASE ~ok
  BY <1>2, Zenon DEF Load, AnchorCurrent
<1> QED BY <1>1, <1>2

(* The initial state satisfies the invariant (New).                        *)
LEMMA RouterInitInv == RouterInit => RouterInv
  BY Zenon DEF RouterInit, RouterInv, AnchorCurrent, StoppedIsEmpty

(* Every method, with either outcome of its command, and the end of the    *)
(* process preserve the invariant.                                         *)
LEMMA RouterNextInv == RouterInv /\ [RouterNext]_routerVars => RouterInv'
<1> SUFFICES ASSUME RouterInv, [RouterNext]_routerVars PROVE RouterInv'
  OBVIOUS
<1> USE DEF RouterInv, StoppedIsEmpty
<1>1. ASSUME NEW ok \in BOOLEAN, Start(ok) PROVE RouterInv'
  BY <1>1, LoadCurrent, Zenon DEF Start
<1>2. ASSUME NEW ok \in BOOLEAN, Stop(ok) PROVE RouterInv'
  <2>1. CASE ok
    BY <1>2, <2>1, EmptyRender, Zenon DEF Stop, AnchorCurrent
  <2>2. CASE ~ok
    BY <1>2, <2>2, Zenon DEF Stop, AnchorCurrent
  <2> QED BY <2>1, <2>2
<1>3. ASSUME NEW ok \in BOOLEAN, NEW p \in Pods, Detach(p, ok) PROVE RouterInv'
  <2>1. started
    BY <1>3, Zenon DEF Detach, NoEndpoints
  <2> QED BY <1>3, <2>1, LoadCurrent, Zenon DEF Detach
<1>4. ASSUME NEW ok \in BOOLEAN, NEW p \in Pods, NEW ip \in PodIPs, NEW vm \in VMIPs,
             NEW i \in {VMNetIf} \cup Bridges, Attach(p, ip, vm, i, ok)
      PROVE  RouterInv'
  BY <1>4, LoadCurrent, Zenon DEF Attach
<1>5. ASSUME NEW ok \in BOOLEAN, NEW k \in Services, DetachService(k, ok) PROVE RouterInv'
  <2>1. started
    BY <1>5, Zenon DEF DetachService, NoServices
  <2> QED BY <1>5, <2>1, LoadCurrent, Zenon DEF DetachService
<1>6. ASSUME NEW ok \in BOOLEAN, NEW k \in Services, NEW rules \in SUBSET ServiceRules,
             AttachService(k, rules, ok)
      PROVE  RouterInv'
  BY <1>6, LoadCurrent, Zenon DEF AttachService
<1>7. CASE RouterDies
  BY <1>7, Zenon DEF RouterDies, AnchorCurrent
<1>8. CASE UNCHANGED routerVars
  BY <1>8, Zenon DEF routerVars, AnchorCurrent
<1> QED
  BY <1>1, <1>2, <1>3, <1>4, <1>5, <1>6, <1>7, <1>8, Zenon DEF RouterNext

(* Whatever is called, in whatever order and with whatever outcome, a      *)
(* router whose last command succeeded has the anchor its maps describe.   *)
THEOREM RouterAnchorCurrent == RouterSpec => []AnchorCurrent
<1>1. RouterInv => AnchorCurrent
  BY DEF RouterInv
<1> QED
  BY RouterInitInv, RouterNextInv, <1>1, PTL DEF RouterSpec

(* The maps stay maps of Pods and of Services (Attach, AttachService, ...).*)
LEMMA RouterTyped ==
  /\ RouterInit => RouterTypeOK
  /\ RouterTypeOK /\ [RouterNext]_routerVars => RouterTypeOK'
<1>1. NoEndpoints \in [Pods -> Endpoint \cup {NoEndpoint}] /\ NoServices \in [Services -> SUBSET ServiceRules]
  BY Zenon DEF NoEndpoints, NoServices
<1>2. RouterInit => RouterTypeOK
  BY <1>1, Zenon DEF RouterInit, RouterTypeOK
<1>3. ASSUME RouterTypeOK, [RouterNext]_routerVars PROVE RouterTypeOK'
  <2> USE <1>1, <1>3 DEF RouterTypeOK
  <2>1. ASSUME NEW ok \in BOOLEAN, Start(ok) \/ Stop(ok) PROVE RouterTypeOK'
    BY <2>1, Zenon DEF Start, Stop, Load
  <2>2. ASSUME NEW ok \in BOOLEAN, NEW p \in Pods, Detach(p, ok) PROVE RouterTypeOK'
    BY <2>2, SMT DEF Detach, Load
  <2>3. ASSUME NEW ok \in BOOLEAN, NEW p \in Pods, NEW ip \in PodIPs, NEW vm \in VMIPs,
               NEW i \in {VMNetIf} \cup Bridges, Attach(p, ip, vm, i, ok)
        PROVE  RouterTypeOK'
    BY <2>3, SMT DEF Attach, Load, Endpoint
  <2>4. ASSUME NEW ok \in BOOLEAN, NEW k \in Services, DetachService(k, ok) PROVE RouterTypeOK'
    BY <2>4, SMT DEF DetachService, Load
  <2>5. ASSUME NEW ok \in BOOLEAN, NEW k \in Services, NEW rules \in SUBSET ServiceRules,
               AttachService(k, rules, ok)
        PROVE  RouterTypeOK'
    <3>1. {r \in rules : r.backends # {}} \in SUBSET ServiceRules
      BY Zenon
    <3> QED BY <2>5, <3>1, SMT DEF AttachService, Load
  <2>6. CASE RouterDies
    BY <2>6, Zenon DEF RouterDies
  <2>7. CASE UNCHANGED routerVars
    BY <2>7, Zenon DEF routerVars
  <2> QED BY <2>1, <2>2, <2>3, <2>4, <2>5, <2>6, <2>7, Zenon DEF RouterNext
<1> QED BY <1>2, <1>3, Zenon

-----------------------------------------------------------------------------
(* The mesh.  While Up is at work, nothing is routed and each command      *)
(* builds on the ones before; the other calls only work on a mesh that is  *)
(* up.                                                                     *)
CallInv ==
  /\ call.at \in {"create", "conf", "link"} => ~up /\ routes = {}
  /\ call.at \in {"conf", "link"} => iface
  /\ call.at = "link" => wg = peers
  /\ call.at \in {"sync", "routes"} => up

MeshInv == MeshHonest /\ RoutedIsRouted /\ CallInv

(* A call that returns an error leaves what the mesh believes true         *)
(* (every error return of Up, Sync and reconcileRoutesLocked).             *)
LEMMA FailKeeps == MeshInv /\ CallFails => MeshInv'
<1> SUFFICES ASSUME MeshInv, CallFails PROVE MeshInv'
  OBVIOUS
<1>1. MeshHonest'
  BY Zenon DEF MeshInv, MeshHonest, CallFails
<1>2. RoutedIsRouted'
  BY Zenon DEF RoutedIsRouted, CallFails
<1>3. CallInv'
  BY SMT DEF CallInv, CallFails, Idle
<1> QED BY <1>1, <1>2, <1>3 DEF MeshInv

(* The steps of Up preserve the invariant.                                 *)
LEMMA UpKeeps ==
  ASSUME MeshInv, NEW ok \in BOOLEAN,
         \/ \E ps \in PeerSets : UpBegin(ps)
         \/ UpCreate(ok) \/ UpConf(ok) \/ UpLink(ok)
  PROVE  MeshInv'
<1>1. ASSUME NEW ps \in PeerSets, UpBegin(ps) PROVE MeshInv'
  BY <1>1, SMT DEF UpBegin, MeshInv, MeshHonest, RoutedIsRouted, CallInv, Do, Idle
<1>2. CASE UpCreate(ok) /\ ok
  BY <1>2, SMT DEF UpCreate, MeshInv, MeshHonest, RoutedIsRouted, CallInv, Do, Idle
<1>3. CASE UpConf(ok) /\ ok
  BY <1>3, SMT DEF UpConf, MeshInv, MeshHonest, RoutedIsRouted, CallInv, Do, Idle
<1>4. CASE UpLink(ok) /\ ok
  BY <1>4, SMT DEF UpLink, MeshInv, MeshHonest, RoutedIsRouted, CallInv, Do, Idle
<1>5. CASE (UpCreate(ok) \/ UpConf(ok) \/ UpLink(ok)) /\ ~ok
  BY <1>5, FailKeeps, Zenon DEF UpCreate, UpConf, UpLink
<1> QED BY <1>1, <1>2, <1>3, <1>4, <1>5

(* The steps of Sync and of reconcileRoutesLocked preserve it.             *)
LEMMA SyncKeeps ==
  ASSUME MeshInv, NEW ok \in BOOLEAN,
         \/ \E ps \in PeerSets : SyncBegin(ps)
         \/ SyncConf(ok) \/ RoutesDone
         \/ \E t \in routes \cup Want : DeleteRoute(t, ok) \/ AddRoute(t, ok)
  PROVE  MeshInv'
<1>1. ASSUME NEW ps \in PeerSets, SyncBegin(ps) PROVE MeshInv'
  BY <1>1, SMT DEF SyncBegin, MeshInv, MeshHonest, RoutedIsRouted, CallInv, Idle
<1>2. CASE SyncConf(ok) /\ ok
  BY <1>2, SMT DEF SyncConf, MeshInv, MeshHonest, RoutedIsRouted, CallInv, Do, Idle
<1>3. ASSUME NEW t \in routes \cup Want, DeleteRoute(t, ok), ok PROVE MeshInv'
  BY <1>3, SMT DEF DeleteRoute, MeshInv, MeshHonest, RoutedIsRouted, CallInv, Idle
<1>4. ASSUME NEW t \in routes \cup Want, AddRoute(t, ok), ok PROVE MeshInv'
  BY <1>4, SMT DEF AddRoute, MeshInv, MeshHonest, RoutedIsRouted, CallInv, Idle
<1>5. CASE RoutesDone
  <2>1. Want' = Want
    BY <1>5, Zenon DEF RoutesDone, Want
  <2> QED BY <1>5, <2>1, SMT DEF RoutesDone, MeshInv, MeshHonest, RoutedIsRouted, CallInv, Idle
<1>6. ASSUME NEW t \in routes \cup Want, ~ok,
             SyncConf(ok) \/ DeleteRoute(t, ok) \/ AddRoute(t, ok)
      PROVE  MeshInv'
  BY <1>6, FailKeeps, Zenon DEF SyncConf, DeleteRoute, AddRoute
<1>7. CASE SyncConf(ok) /\ ~ok
  BY <1>7, FailKeeps, Zenon DEF SyncConf
<1> QED BY <1>1, <1>2, <1>3, <1>4, <1>5, <1>6, <1>7

(* A teardown, whatever fails in it, and the end of the process preserve it.*)
LEMMA TeardownKeeps ==
  ASSUME MeshInv,
         \/ \E known, failed \in SUBSET (routes \cup Want), destroyed \in BOOLEAN :
              Teardown(known, failed, destroyed)
         \/ MeshDies
  PROVE  MeshInv'
  BY SMT DEF Teardown, MeshDies, MeshInv, MeshHonest, RoutedIsRouted, CallInv, Idle

(* A new Mesh, whatever an earlier process left in the kernel (New).       *)
LEMMA MeshInitInv == MeshInit => MeshInv
  BY SMT DEF MeshInit, MeshInv, MeshHonest, RoutedIsRouted, CallInv, Idle

(* Every step of a call of Up, Sync, Down or Remove, with either outcome,  *)
(* and the end of the process preserve the invariant.                      *)
LEMMA MeshNextInv == MeshInv /\ [MeshNext]_meshVars => MeshInv'
<1> SUFFICES ASSUME MeshInv, [MeshNext]_meshVars PROVE MeshInv'
  OBVIOUS
<1>1. ASSUME NEW failed \in SUBSET (routes \cup Want), NEW destroyed \in BOOLEAN,
             Down(failed, destroyed) \/ Remove(failed, destroyed)
      PROVE  MeshInv'
  <2>1. \E known \in SUBSET (routes \cup Want) : Teardown(known, failed, destroyed)
    BY <1>1, Zenon DEF Down, Remove
  <2> QED BY <2>1, TeardownKeeps
<1>2. CASE UNCHANGED meshVars
  BY <1>2, SMT DEF meshVars, MeshInv, MeshHonest, RoutedIsRouted, CallInv, Want
<1>3. ASSUME NEW ok \in BOOLEAN, UpCreate(ok) \/ UpConf(ok) \/ UpLink(ok) PROVE MeshInv'
  BY <1>3, UpKeeps
<1>4. ASSUME NEW ok \in BOOLEAN,
             SyncConf(ok) \/ \E t \in routes \cup Want : DeleteRoute(t, ok) \/ AddRoute(t, ok)
      PROVE  MeshInv'
  BY <1>4, SyncKeeps
<1>5. ASSUME NEW ps \in PeerSets, UpBegin(ps) \/ SyncBegin(ps) PROVE MeshInv'
  BY <1>5, UpKeeps, SyncKeeps
<1>6. CASE RoutesDone
  BY <1>6, SyncKeeps
<1>7. CASE MeshDies
  BY <1>7, TeardownKeeps
<1> QED
  BY <1>1, <1>2, <1>3, <1>4, <1>5, <1>6, <1>7, Zenon DEF MeshNext

(* What the mesh believes of the kernel is so, for every peer list, after  *)
(* every failure of Up, Sync, Down or Remove.                              *)
THEOREM MeshIsHonest == MeshSpec => []MeshHonest
<1>1. MeshInv => MeshHonest
  BY DEF MeshInv
<1> QED
  BY MeshInitInv, MeshNextInv, <1>1, PTL DEF MeshSpec

(* Up and Sync return nil only with exactly the peers' networks routed.    *)
THEOREM MeshRouted == MeshSpec => []RoutedIsRouted
<1>1. MeshInv => RoutedIsRouted
  BY DEF MeshInv
<1> QED
  BY MeshInitInv, MeshNextInv, <1>1, PTL DEF MeshSpec

-----------------------------------------------------------------------------
\* The endpoints and the rules the router has on a node with config c: a VM is in
\* the vmnet, a Pod in the node's Pod CIDR, and every rule went through the
\* controller's filter.
EndpointsOf(c, eps) ==
  \A p \in Attached(eps) : /\ ipInSet(eps[p].vm, VMNetCIDRs(c)) /\ eps[p].ip \in c.podCIDR
                           /\ eps[p].iface \in {VMNetIf} \cup Bridges
RulesOf(c, svcs) ==
  \A k \in Services : \E svc, slices :
    /\ \A sp \in svc.ports : sp.proto \in DOMAIN Lower
    /\ svcs[k] \subseteq filterRoutable(RoutableServiceCIDRs(c), BuildServiceRules(svc, slices))

(* The controller's filter and the helper's policy, which are derived from *)
(* the config in different places, agree: for every config with Pod network*)
(* and mesh, every Service and every list of slices, the helper accepts the*)
(* ruleset the router renders, so that no Service can keep the anchor from *)
(* being loaded (RoutableServiceCIDRs, filterRoutable, Target;             *)
(* PrivilegedHelperPolicy, lintAnchorRuleset).                             *)
THEOREM FilteredIsAccepted ==
  ASSUME NEW c, c.podNetwork, c.mesh, c.podCIDR # NoCIDR,
         VMNetIf # NoName, MeshIf # NoName,
         NEW eps, NEW svcs, EndpointsOf(c, eps), RulesOf(c, svcs)
  PROVE  lintAnchorRuleset(PrivilegedHelperPolicy(c), Render(eps, svcs))
<1> DEFINE P == PrivilegedHelperPolicy(c)
<1>1. /\ P.vmnetIf = VMNetIf /\ P.meshIf = MeshIf /\ P.vmnetCIDRs = VMNetCIDRs(c)
      /\ P.podCIDRs = ({c.podCIDR} \ {NoCIDR}) \cup PeerPodCIDRs(c)
  BY DEF PrivilegedHelperPolicy
<1>2. RoutableServiceCIDRs(c) = P.podCIDRs \cup P.vmnetCIDRs
  BY <1>1 DEF RoutableServiceCIDRs
<1>3. c.podCIDR \in P.podCIDRs
  BY <1>1
<1>4. RoutableServiceCIDRs(c) # {}
  BY <1>2, <1>3
<1> HIDE DEF P
<1>5. ASSUME NEW r \in renderAnchor(eps)
      PROVE  r.kind = "binat" /\ checkPodNATInterface(P, r.iface) /\ lintBinatRule(P, r)
  <2>0. PICK p \in Attached(eps) :
          r \in {[kind |-> "binat", iface |-> i, vm |-> eps[p].vm, pod |-> eps[p].ip] :
                   i \in endpointBinatInterfaces(eps[p])}
    BY <1>5, Zenon DEF renderAnchor
  <2>1. PICK i \in endpointBinatInterfaces(eps[p]) :
          r = [kind |-> "binat", iface |-> i, vm |-> eps[p].vm, pod |-> eps[p].ip]
    BY <2>0, Zenon
  <2>2. i \in {VMNetIf, MeshIf} \cup Bridges
    BY DEF EndpointsOf, endpointBinatInterfaces
  <2>3. ipInSet(eps[p].vm, P.vmnetCIDRs) /\ ipInSet(eps[p].ip, P.podCIDRs)
    BY <1>1, <1>3 DEF EndpointsOf, ipInSet
  <2>4. checkPodNATInterface(P, i)
    BY <1>1, <2>2 DEF checkPodNATInterface, checkVMNetInterface, checkMeshInterface
  <2> QED BY <2>1, <2>3, <2>4 DEF lintBinatRule
<1>6. ASSUME NEW k \in Services, NEW r \in svcs[k]
      PROVE  /\ r.backends # {} /\ \A b \in r.backends : ipInSet(b, RoutableServiceCIDRs(c))
             /\ r.proto \in {"tcp", "udp"}
  <2>1. PICK svc, slices :
          /\ \A sp \in svc.ports : sp.proto \in DOMAIN Lower
          /\ svcs[k] \subseteq filterRoutable(RoutableServiceCIDRs(c), BuildServiceRules(svc, slices))
    BY Zenon DEF RulesOf
  <2> DEFINE kept(q) == {ip \in q.backends : routable(RoutableServiceCIDRs(c), ip)}
             built   == BuildServiceRules(svc, slices)
  <2>2. PICK q \in built : kept(q) # {} /\ r = [q EXCEPT !.backends = kept(q)]
    BY <1>6, <2>1 DEF filterRoutable
  <2>3. PICK sp \in svc.ports : /\ sp.proto # "SCTP"
                                /\ q = [vip |-> svc.ip, proto |-> Lower[sp.proto], port |-> sp.port,
                                        tport |-> TargetPort(slices, sp.name),
                                        backends |-> readyEndpointIPs(slices)]
    BY <2>2 DEF BuildServiceRules
  <2>4. r.backends = kept(q) /\ r.proto = Lower[sp.proto]
    BY <2>2, <2>3
  <2>5. Lower[sp.proto] \in {"tcp", "udp"}
    BY <2>1, <2>3 DEF Lower
  <2> QED BY <1>4, <2>2, <2>4, <2>5 DEF routable
<1>7. ASSUME NEW b, ipInSet(b, RoutableServiceCIDRs(c))
      PROVE  ipInSet(Target(eps, b), P.podCIDRs) \/ ipInSet(Target(eps, b), P.vmnetCIDRs)
  <2> DEFINE here == {p \in Attached(eps) : eps[p].ip = b}
  <2>1. CASE here = {}
    BY <1>2, <1>7, <2>1 DEF Target, ipInSet
  <2>2. CASE here # {}
    <3>1. (CHOOSE p \in here : TRUE) \in here
      BY <2>2
    <3>2. PICK p \in here : Target(eps, b) = eps[p].vm
      BY <2>2, <3>1 DEF Target
    <3> QED BY <1>1, <3>2 DEF EndpointsOf
  <2> QED BY <2>1, <2>2
<1>8. ASSUME NEW r \in renderServiceRules(eps, svcs)
      PROVE  r.kind = "rdr" /\ checkVMNetInterface(P, r.iface) /\ lintRDRRule(P, r)
  <2>1. PICK i \in vmnetInterfaces(eps), s \in UNION {svcs[k] : k \in Services} :
          r = [kind |-> "rdr", iface |-> i, proto |-> s.proto, vip |-> s.vip, port |-> s.port,
               tport |-> s.tport, targets |-> {Target(eps, b) : b \in s.backends}]
    BY <1>8, SMT DEF renderServiceRules
  <2>2. PICK k \in Services : s \in svcs[k]
    OBVIOUS
  <2>3. s.backends # {} /\ \A b \in s.backends : ipInSet(b, RoutableServiceCIDRs(c))
    BY <1>6, <2>2
  <2>4. s.proto \in {"tcp", "udp"}
    BY <1>6, <2>2
  <2>5. i \in {VMNetIf} \cup Bridges
    BY DEF vmnetInterfaces, EndpointsOf
  <2>6. checkVMNetInterface(P, i)
    BY <1>1, <2>5 DEF checkVMNetInterface
  <2>7. r.targets # {} /\ \A t \in r.targets : ipInSet(t, P.podCIDRs) \/ ipInSet(t, P.vmnetCIDRs)
    BY <1>7, <2>1, <2>3
  <2> QED BY <2>1, <2>4, <2>6, <2>7 DEF lintRDRRule
<1>9. P.vmnetIf # NoName
  BY <1>1
<1> QED BY <1>5, <1>8, <1>9 DEF lintAnchorRuleset, Render, P

-----------------------------------------------------------------------------
(* The Service controller within the node.                                 *)

IsMap(f) == f = [k \in Services |-> f[k]]

\* A worker that was not overtaken by an event has read what the caches hold,
\* and has computed what they ask for.
UpToDate(k) ==
  /\ work[k] = NoWork => k \in delayed \/ services[k] = Desired(k)
  /\ work[k].at = "slices" => work[k].svc = svcCache[k]
  /\ work[k].at = "apply" => work[k].rules = Desired(k)

SettleInv ==
  /\ IsMap(svcCache) /\ IsMap(sliceCache) /\ IsMap(work) /\ IsMap(services)
  /\ \A k \in Services : work[k] = NoWork \/ work[k].at \in {"slices", "apply"}
  /\ ctrl = "off" => services = NoServices /\ delayed = {} /\ \A k \in Services : work[k] = NoWork
  /\ ctrl = "on" => pc \in {"pods", "server", "running", "stop_services"}
  /\ ctrl = "on" => \A k \in Services \ dirty : UpToDate(k)

(* A worker that has read something is not at rest.                        *)
LEMMA AtRest == NoWork.at = "idle"
  BY DEF NoWork

(* A Service that is gone asks for no rule (BuildServiceRules).            *)
LEMMA GoneAsksNothing ==
  \A cidrs, slices : filterRoutable(cidrs, BuildServiceRules(NoService, slices)) = {}
BY DEF filterRoutable, BuildServiceRules, Programmable

(* What the controller asks for has backends, so that AttachService drops  *)
(* none of it (BuildServiceRules, filterRoutable).                         *)
LEMMA AskedHasBackends ==
  ASSUME NEW cidrs, NEW svc, NEW slices,
         NEW r \in filterRoutable(cidrs, BuildServiceRules(svc, slices))
  PROVE  r.backends # {}
<1> DEFINE kept(q) == {ip \in q.backends : routable(cidrs, ip)}
<1>1. PICK q \in BuildServiceRules(svc, slices) : kept(q) # {} /\ r = [q EXCEPT !.backends = kept(q)]
  BY DEF filterRoutable
<1>2. \E v, p, n, t, b : q = [vip |-> v, proto |-> p, port |-> n, tport |-> t, backends |-> b]
  BY <1>1 DEF BuildServiceRules
<1> QED BY <1>1, <1>2

(* Steps of the rest of the node.                                          *)
LEMMA SettledElsewhere ==
  ASSUME SettleInv, UNCHANGED <<ctrlVars, services>>,
         ctrl = "on" => pc' \in {"pods", "server", "running", "stop_services"}
  PROVE  SettleInv'
BY DEF SettleInv, UpToDate, ctrlVars, IsMap, Desired

(* A step of the worker on key k, or of an event for it, leaves the other  *)
(* Services as they are.                                                   *)
LEMMA SettledOthers ==
  ASSUME SettleInv, NEW k \in Services, ctrl # "off", UNCHANGED <<ctrl, filter, pc>>,
         IsMap(svcCache'), IsMap(sliceCache'), IsMap(work'), IsMap(services'),
         \A j \in Services \ {k} :
           /\ svcCache'[j] = svcCache[j] /\ sliceCache'[j] = sliceCache[j]
           /\ work'[j] = work[j] /\ services'[j] = services[j]
           /\ (j \in dirty' <=> j \in dirty) /\ (j \in delayed' <=> j \in delayed),
         work'[k] = NoWork \/ work'[k].at \in {"slices", "apply"},
         ctrl = "on" /\ k \notin dirty' => UpToDate(k)'
  PROVE  SettleInv'
<1>1. ASSUME ctrl = "on", NEW j \in Services \ dirty' PROVE UpToDate(j)'
  <2>1. CASE j = k
    BY <1>1, <2>1
  <2>2. CASE j # k
    <3>1. UpToDate(j)
      BY <1>1, <2>2 DEF SettleInv
    <3>2. Desired(j)' = Desired(j)
      BY <1>1, <2>2 DEF Desired
    <3> QED BY <1>1, <2>2, <3>1, <3>2 DEF UpToDate
  <2> QED BY <2>1, <2>2
<1>2. \A j \in Services : work'[j] = NoWork \/ work'[j].at \in {"slices", "apply"}
  BY DEF SettleInv
<1> QED BY <1>1, <1>2 DEF SettleInv

(* An event leaves its Service to be looked at again (enqueueService,      *)
(* enqueueSlice).                                                          *)
LEMMA SettledEvent ==
  ASSUME SettleInv, NEW k \in Services, UNCHANGED <<services, pc>>,
         (\E svc : ServiceEvent(k, svc)) \/ (\E slices : SliceEvent(k, slices))
  PROVE  SettleInv'
<1>1. UNCHANGED <<delayed, work, ctrl, filter>> /\ Enqueue(k)
  BY DEF ServiceEvent, SliceEvent
<1>2. /\ IsMap(svcCache') /\ IsMap(sliceCache')
      /\ \A j \in Services \ {k} : svcCache'[j] = svcCache[j] /\ sliceCache'[j] = sliceCache[j]
  BY DEF ServiceEvent, SliceEvent, SettleInv, IsMap
<1>3. IsMap(work') /\ IsMap(services')
  BY <1>1 DEF SettleInv, IsMap
<1>4. CASE ctrl = "off"
  BY <1>1, <1>2, <1>3, <1>4 DEF SettleInv
<1>5. CASE ctrl # "off"
  <2>1. \A j \in Services \ {k} : j \in dirty' <=> j \in dirty
    BY <1>1 DEF Enqueue
  <2>2. ctrl = "on" => k \in dirty'
    BY <1>1 DEF Enqueue
  <2>3. work'[k] = NoWork \/ work'[k].at \in {"slices", "apply"}
    BY <1>1 DEF SettleInv
  <2> QED BY <1>1, <1>2, <1>3, <1>5, <2>1, <2>2, <2>3, SettledOthers
<1> QED BY <1>4, <1>5

(* The reads of a reconcile, and the rate limiter (processNext, reconcile).*)
LEMMA SettledWork ==
  ASSUME SettleInv, NEW k \in Services, UNCHANGED <<services, pc>>,
         Get(k) \/ ReadSlices(k) \/ Retry(k)
  PROVE  SettleInv'
<1>1. UNCHANGED <<svcCache, sliceCache, ctrl, filter>>
  BY DEF Get, ReadSlices, Retry
<1>2. IsMap(svcCache') /\ IsMap(sliceCache') /\ IsMap(services')
  BY <1>1 DEF SettleInv, IsMap
<1>3. Desired(k)' = Desired(k)
  BY <1>1 DEF Desired
<1>4. NoWork.at = "idle"
  BY DEF NoWork
<1>5. CASE Get(k)
  <2>1. ctrl # "off" /\ dirty' = dirty \ {k} /\ delayed' = delayed
    BY <1>5 DEF Get
  <2>2. IsMap(work') /\ \A j \in Services \ {k} : work'[j] = work[j]
    BY <1>5 DEF Get, SettleInv, IsMap
  <2>3. work'[k] = IF svcCache[k] = NoService THEN [at |-> "apply", rules |-> {}]
                                              ELSE [at |-> "slices", svc |-> svcCache[k]]
    BY <1>5 DEF Get, SettleInv, IsMap
  <2>4. CASE svcCache[k] = NoService
    <3>1. Desired(k) = {}
      BY <2>4, GoneAsksNothing DEF Desired
    <3>2. work'[k].at = "apply" /\ work'[k].rules = {}
      BY <2>3, <2>4
    <3>3. UpToDate(k)'
      BY <1>3, <1>4, <3>1, <3>2 DEF UpToDate
    <3> QED BY <1>1, <1>2, <2>1, <2>2, <3>2, <3>3, SettledOthers
  <2>5. CASE svcCache[k] # NoService
    <3>1. work'[k].at = "slices" /\ work'[k].svc = svcCache[k]
      BY <2>3, <2>5
    <3>2. UpToDate(k)'
      BY <1>1, <1>4, <3>1 DEF UpToDate
    <3> QED BY <1>1, <1>2, <2>1, <2>2, <3>1, <3>2, SettledOthers
  <2> QED BY <2>4, <2>5
<1>6. CASE ReadSlices(k)
  <2>1. work[k].at = "slices" /\ dirty' = dirty /\ delayed' = delayed
    BY <1>6 DEF ReadSlices
  <2>2. ctrl # "off"
    BY <1>4, <2>1 DEF SettleInv
  <2>3. IsMap(work') /\ \A j \in Services \ {k} : work'[j] = work[j]
    BY <1>6 DEF ReadSlices, SettleInv, IsMap
  <2>4. work'[k] = [at |-> "apply",
                    rules |-> filterRoutable(filter, BuildServiceRules(work[k].svc, sliceCache[k]))]
    BY <1>6 DEF ReadSlices, SettleInv, IsMap
  <2>5. work'[k].at = "apply"
        /\ work'[k].rules = filterRoutable(filter, BuildServiceRules(work[k].svc, sliceCache[k]))
    BY <2>4
  <2>6. ASSUME ctrl = "on", k \notin dirty PROVE UpToDate(k)'
    <3>1. work[k].svc = svcCache[k]
      BY <2>1, <2>6 DEF SettleInv, UpToDate
    <3>2. work'[k].rules = Desired(k)
      BY <2>5, <3>1 DEF Desired
    <3> QED BY <1>3, <1>4, <2>5, <3>2 DEF UpToDate
  <2> QED BY <1>1, <1>2, <2>1, <2>2, <2>3, <2>5, <2>6, SettledOthers
<1>7. CASE Retry(k)
  <2>1. /\ ctrl # "off" /\ work' = work /\ dirty' = dirty \cup {k} /\ delayed' = delayed \ {k}
    BY <1>7 DEF Retry, SettleInv
  <2>2. IsMap(work') /\ (work'[k] = NoWork \/ work'[k].at \in {"slices", "apply"})
    BY <2>1 DEF SettleInv
  <2> QED BY <1>1, <1>2, <2>1, <2>2, SettledOthers
<1> QED BY <1>5, <1>6, <1>7

(* The end of a reconcile: the router has what was asked for, or the key is*)
(* held back (processNext, AttachService, DetachService).                  *)
LEMMA SettledApply ==
  ASSUME SettleInv, NEW k \in Services, pc' = pc,
         ApplyNothing(k) \/ (\E ok \in BOOLEAN : Apply(k, ok))
  PROVE  SettleInv'
<1>1. PICK err \in BOOLEAN :
        /\ work[k].at = "apply" /\ Requeued(k, err)
        /\ services' = services \/ (\E s : services' = [services EXCEPT ![k] = s])
        /\ ~err => services'[k] = {r \in work[k].rules : r.backends # {}}
  <2>1. CASE ApplyNothing(k)
    <3>1. work[k].at = "apply" /\ UNCHANGED services
      BY <2>1 DEF ApplyNothing, routerVars
    <3>2. CASE work[k].rules = {} /\ services[k] = {} /\ Requeued(k, FALSE)
      BY <3>1, <3>2
    <3>3. CASE Requeued(k, TRUE)
      BY <3>1, <3>3
    <3> QED BY <2>1, <3>2, <3>3 DEF ApplyNothing
  <2>2. ASSUME NEW ok \in BOOLEAN, Apply(k, ok)
        PROVE  /\ work[k].at = "apply" /\ Requeued(k, ~ok)
               /\ services' = [services EXCEPT ![k] = {r \in work[k].rules : r.backends # {}}]
    BY <2>2, Zenon DEF Apply, DetachService, AttachService
  <2>3. IsMap(services)
    BY DEF SettleInv
  <2>4. ASSUME NEW ok \in BOOLEAN, Apply(k, ok)
        PROVE  services'[k] = {r \in work[k].rules : r.backends # {}}
    BY <2>2, <2>3, <2>4 DEF IsMap
  <2> QED BY <2>1, <2>2, <2>4
<1>2. UNCHANGED <<svcCache, sliceCache, dirty, ctrl, filter>>
  BY <1>1 DEF Requeued
<1>3. /\ IsMap(svcCache') /\ IsMap(sliceCache') /\ IsMap(services')
      /\ \A j \in Services \ {k} : services'[j] = services[j]
  BY <1>1, <1>2 DEF SettleInv, IsMap
<1>4. IsMap(work') /\ work'[k] = NoWork /\ \A j \in Services \ {k} : work'[j] = work[j]
  BY <1>1 DEF Requeued, SettleInv, IsMap
<1>5. NoWork.at = "idle"
  BY DEF NoWork
<1>6. ctrl # "off"
  BY <1>1, <1>5 DEF SettleInv
<1>7. \A j \in Services \ {k} : j \in delayed' <=> j \in delayed
  BY <1>1 DEF Requeued
<1>8. ASSUME ctrl = "on", k \notin dirty PROVE UpToDate(k)'
  <2>1. work[k].rules = Desired(k)
    BY <1>1, <1>8 DEF SettleInv, UpToDate
  <2>2. Desired(k)' = Desired(k)
    BY <1>2 DEF Desired
  <2>3. CASE err
    <3>1. k \in delayed'
      BY <1>1, <1>8, <2>3 DEF Requeued
    <3> QED BY <1>4, <1>5, <3>1 DEF UpToDate
  <2>4. CASE ~err
    <3>1. \A r \in Desired(k) : r.backends # {}
      BY AskedHasBackends DEF Desired
    <3>2. services'[k] = {r \in Desired(k) : r.backends # {}}
      BY <1>1, <2>1, <2>4, Zenon
    <3>3. services'[k] = Desired(k)
      BY <3>1, <3>2, Zenon
    <3> QED BY <1>4, <1>5, <2>2, <3>3 DEF UpToDate
  <2> QED BY <2>3, <2>4
<1> QED BY <1>2, <1>3, <1>4, <1>6, <1>7, <1>8, SettledOthers

(* A process that is gone has nothing that could be out of date            *)
(* (ControllerDies, RouterDies).                                           *)
LEMMA SettledGone == SettleInv /\ Gone => SettleInv'
<1> SUFFICES ASSUME SettleInv, Gone PROVE SettleInv'
  OBVIOUS
<1>1. ctrl' = "off" /\ services' = NoServices /\ delayed' = {} /\ work' = [k \in Services |-> NoWork]
  BY DEF Gone, RouterDies, ControllerDies
<1>2. UNCHANGED <<svcCache, sliceCache>>
  BY DEF Gone, ControllerDies
<1>3. IsMap(svcCache') /\ IsMap(sliceCache') /\ IsMap(work') /\ IsMap(services')
  BY <1>1, <1>2 DEF SettleInv, IsMap, NoServices
<1> QED BY <1>1, <1>3 DEF SettleInv

(* A controller that starts queues every Service it has heard of; of the   *)
(* others the router has no rule (startServiceController, Run).            *)
LEMMA SettledStart == SettleInv /\ StartServices => SettleInv'
<1> SUFFICES ASSUME SettleInv, StartServices PROVE SettleInv'
  OBVIOUS
<1>1. pc' = "pods" /\ UNCHANGED services
  BY DEF StartServices, routerVars
<1>2. CASE UNCHANGED ctrlVars
  BY <1>1, <1>2, SettledElsewhere
<1>3. ASSUME NEW cidrs, RunController(cidrs) PROVE SettleInv'
  <2>1. /\ ctrl = "off" /\ ctrl' = "on" /\ UNCHANGED <<svcCache, sliceCache, delayed, work>>
        /\ dirty' = {k \in Services : svcCache[k] # NoService \/ sliceCache[k] # << >>}
    BY <1>3 DEF RunController
  <2>2. services = NoServices /\ \A k \in Services : work[k] = NoWork
    BY <2>1 DEF SettleInv
  <2>3. ASSUME NEW k \in Services \ dirty' PROVE UpToDate(k)'
    <3>1. svcCache'[k] = NoService
      BY <2>1
    <3>2. Desired(k)' = {}
      BY <3>1, GoneAsksNothing DEF Desired
    <3>3. services'[k] = {}
      BY <1>1, <2>2 DEF NoServices
    <3>4. work'[k] = NoWork
      BY <2>1, <2>2, Zenon
    <3> QED BY <3>2, <3>3, <3>4, AtRest, Zenon DEF UpToDate
  <2>4. IsMap(svcCache') /\ IsMap(sliceCache') /\ IsMap(work') /\ IsMap(services')
    BY <1>1, <2>1 DEF SettleInv, IsMap
  <2> QED BY <1>1, <2>1, <2>2, <2>3, <2>4 DEF SettleInv
<1> QED BY <1>2, <1>3 DEF StartServices

(* The router forgets the Services only after the controller was stopped   *)
(* (main.run's deferred calls).                                            *)
LEMMA SettledStop ==
  ASSUME SettleInv, StopServices \/ (\E ok \in BOOLEAN : StopRouter(ok))
  PROVE  SettleInv'
<1>1. CASE StopServices
  <2>1. UNCHANGED services
    BY <1>1 DEF StopServices, routerVars
  <2>2. CASE ctrl = "on"
    <3>1. ctrl' = "down" /\ UNCHANGED <<svcCache, sliceCache, work>>
      BY <1>1, <2>2 DEF StopServices, StopController
    <3> QED BY <2>1, <3>1 DEF SettleInv, IsMap
  <2>3. CASE ctrl # "on"
    BY <1>1, <2>1, <2>3, SettledElsewhere DEF StopServices
  <2> QED BY <2>2, <2>3
<1>2. ASSUME NEW ok \in BOOLEAN, StopRouter(ok) PROVE SettleInv'
  <2>1. ctrl # "on"
    BY <1>2 DEF StopRouter, SettleInv
  <2>2. UNCHANGED ctrlVars /\ (services' = services \/ services' = NoServices)
    BY <1>2 DEF StopRouter, Stop, routerVars
  <2>3. IsMap(services')
    BY <2>2 DEF SettleInv, IsMap, NoServices
  <2> QED BY <2>1, <2>2, <2>3 DEF ctrlVars, SettleInv, IsMap
<1> QED BY <1>1, <1>2

(* Steps that leave the controller and the Services alone.                 *)
LEMMA SettledRest ==
  ASSUME SettleInv,
         \/ Boot \/ MeshIsUp \/ Terminate \/ Unwind \/ Reload \/ Reconcile
         \/ MeshIsSynced \/ HelperRestart
         \/ \E ok \in BOOLEAN :
              \/ MeshUp(ok) \/ StartRouter(ok) \/ MeshSync(ok)
              \/ waitForAPIServer(ok) \/ RegisterNode(ok) \/ setupIPAM(ok)
              \/ startPodController(ok) \/ startKubeletServer(ok)
         \/ \E failed \in SUBSET routes, destroyed \in BOOLEAN : StopMesh(failed, destroyed)
         \/ \E c \in Configs \cup {BadFile}, signal \in BOOLEAN : Edit(c, signal)
         \/ \E p \in Pods, ok \in BOOLEAN :
              \/ PodDetach(p, ok)
              \/ \E ip \in PodIPs, vm \in VMIPs, i \in {VMNetIf} \cup Bridges :
                   PodAttach(p, ip, vm, i, ok)
  PROVE  SettleInv'
<1> DEFINE On == {"pods", "server", "running", "stop_services"}
<1> SUFFICES UNCHANGED ctrlVars /\ services' = services /\ (pc \in On => pc' \in On)
  BY SettledElsewhere DEF SettleInv
<1>1. CASE Boot \/ MeshIsUp \/ Terminate \/ Unwind
  BY <1>1 DEF Boot, MeshIsUp, Terminate, Unwind, routerVars
<1>2. CASE Reload \/ Reconcile \/ MeshIsSynced \/ HelperRestart
  BY <1>2 DEF Reload, Reconcile, MeshIsSynced, HelperRestart, routerVars, nodeVars
<1>3. ASSUME NEW ok \in BOOLEAN, MeshUp(ok) \/ MeshSync(ok)
      PROVE  UNCHANGED ctrlVars /\ services' = services /\ pc' = pc
  BY <1>3, Zenon DEF MeshUp, MeshSync, routerVars
<1>4. ASSUME NEW ok \in BOOLEAN, StartRouter(ok)
      PROVE  UNCHANGED ctrlVars /\ services' = services /\ pc \notin On
  BY <1>4 DEF StartRouter, Start, routerVars
<1>5. ASSUME NEW ok \in BOOLEAN,
             waitForAPIServer(ok) \/ RegisterNode(ok) \/ setupIPAM(ok)
               \/ startPodController(ok) \/ startKubeletServer(ok)
      PROVE  UNCHANGED ctrlVars /\ services' = services /\ (pc \in On => pc' \in On)
  BY <1>5 DEF waitForAPIServer, RegisterNode, setupIPAM, startPodController, startKubeletServer,
              Stage, routerVars
<1>6. ASSUME NEW failed, NEW destroyed, StopMesh(failed, destroyed)
      PROVE  UNCHANGED ctrlVars /\ services' = services /\ pc \notin On
  BY <1>6 DEF StopMesh, routerVars
<1>7. ASSUME NEW c, NEW signal, Edit(c, signal)
      PROVE  UNCHANGED ctrlVars /\ services' = services /\ pc' = pc
  BY <1>7 DEF Edit, routerVars
<1>8. ASSUME NEW p, NEW ok, PodDetach(p, ok)
      PROVE  UNCHANGED ctrlVars /\ services' = services /\ pc' = pc
  BY <1>8, Zenon DEF PodDetach, Detach, Quiet
<1>9. ASSUME NEW p, NEW ok, NEW ip, NEW vm, NEW i, PodAttach(p, ip, vm, i, ok)
      PROVE  UNCHANGED ctrlVars /\ services' = services /\ pc' = pc
  BY <1>9, Zenon DEF PodAttach, Attach, Quiet
<1> QED BY <1>1, <1>2, <1>3, <1>4, <1>5, <1>6, <1>7, <1>8, <1>9, Zenon

(* A node that has not started, and every step of it.                      *)
LEMMA SettledInit == Init => SettleInv
  BY DEF Init, ControllerInit, RouterInit, SettleInv, IsMap, NoServices

LEMMA SettledNext == SettleInv /\ [Next]_vars => SettleInv'
<1> SUFFICES ASSUME SettleInv, [Next]_vars PROVE SettleInv'
  OBVIOUS
<1>1. CASE MeshFailed \/ Exit \/ Crash
  BY <1>1, SettledGone DEF MeshFailed, Exit, Crash
<1>2. ASSUME NEW k \in Services, ServiceWork(k) PROVE SettleInv'
  BY <1>2, SettledWork DEF ServiceWork, Quiet, routerVars
<1>3. ASSUME NEW k \in Services, ServiceSkip(k) \/ \E ok \in BOOLEAN : ServiceApply(k, ok)
      PROVE  SettleInv'
  BY <1>3, SettledApply DEF ServiceSkip, ServiceApply, Quiet
<1>4. ASSUME NEW k \in Services, Churn(k) PROVE SettleInv'
  <2>1. UNCHANGED <<services, pc>>
    BY <1>4 DEF Churn, routerVars
  <2>2. (\E svc : ServiceEvent(k, svc)) \/ (\E slices : SliceEvent(k, slices))
    BY <1>4, Zenon DEF Churn
  <2> QED BY <2>1, <2>2, SettledEvent
<1>5. CASE UNCHANGED vars
  <2>1. UNCHANGED <<ctrlVars, services, pc>>
    BY <1>5 DEF vars, routerVars, nodeVars
  <2> QED BY <2>1, SettledElsewhere DEF SettleInv
<1> QED
  BY <1>1, <1>2, <1>3, <1>4, <1>5, SettledStart, SettledStop, SettledRest, Zenon DEF Next

(* For every set of Services, objects and slices, every number of workers, *)
(* failures and edits: no event is lost between the two reads of a         *)
(* reconcile, a failed call of the router or a restart of the kubelet; a   *)
(* Service nobody has on a queue is in the router's map as the caches ask  *)
(* (controller.go).                                                        *)
THEOREM NoServiceForgotten == Spec => []ServicesSettled
<1>1. SettleInv => ServicesSettled
  BY DEF SettleInv, UpToDate, ServicesSettled, Busy
<1> QED BY SettledInit, SettledNext, <1>1, PTL DEF Spec

-----------------------------------------------------------------------------
(* The node as a whole.                                                    *)

\* What the router may be asked to load for a Service: nothing, or what the
\* controller computes from a Service and its slices under this node's config.
Asked(c, rules) ==
  \/ rules = {}
  \/ \E svc \in Objects, slices \in SliceLists :
       rules \subseteq filterRoutable(RoutableServiceCIDRs(c), BuildServiceRules(svc, slices))

WorkOf(c, w) ==
  \/ w = NoWork
  \/ w.at = "slices" /\ w.svc \in Objects
  \/ w.at = "apply" /\ Asked(c, w.rules)

\* Everything the node works with comes from the config its kubelet loaded, and
\* none of it outlives that kubelet.
Booted ==
  /\ file \in Configs \cup {BadFile}
  /\ pc # "off" => cfg \in Configs /\ ConfigValid(cfg)
  /\ pc = "off" => ~up /\ call = Idle /\ ctrl = "off"
  /\ pc \in {"off", "mesh", "router"} => ~started
  /\ started => cfg.podNetwork

ControlledBy(c) ==
  /\ svcCache \in [Services -> Objects \cup {NoService}] /\ sliceCache \in [Services -> SliceLists]
  /\ ctrl # "off" => filter = RoutableServiceCIDRs(c)
  /\ \A k \in Services : WorkOf(c, work[k])

MapsOf(c) == EndpointsOf(c, endpoints) /\ \A k \in Services : Asked(c, services[k])

RunsOnConfig == Booted /\ ControlledBy(cfg) /\ MapsOf(cfg)

\* How far a kubelet that had no failure has come: what main.run has set up, and
\* what its deferred calls have taken down again.
Unwinds ==
  clean =>
    /\ pc # "off" => cfg.mesh /\ cfg.podNetwork
    /\ pc = "mesh" => call # Idle
    /\ pc \in Stages \ {"off", "mesh", "router", "stop_mesh", "exit"} => started
    /\ pc \in {"stop_mesh", "exit", "off"} => ~started /\ anchor = {}
    /\ pc \in {"exit", "off"} => ~iface /\ kroutes = {} /\ ~up /\ call = Idle

NodeInv == RouterTypeOK /\ RouterInv /\ SettleInv /\ RunsOnConfig /\ Unwinds
(* A kubelet that has just started, or is gone, has nothing that another   *)
(* config could contradict.                                                *)
LEMMA EmptyOf ==
  ASSUME NEW c
  PROVE  /\ EndpointsOf(c, NoEndpoints)
         /\ \A k \in Services : Asked(c, NoServices[k])
         /\ WorkOf(c, NoWork)
<1>1. Attached(NoEndpoints) = {}
  BY Zenon DEF Attached, NoEndpoints
<1> QED BY <1>1, Zenon DEF EndpointsOf, Asked, NoServices, WorkOf

(* Every step of the node is a step of the mesh or leaves it alone         *)
(* (setupMesh, watchMeshReload, the deferred Down).                        *)
LEMMA MeshStep ==
  ASSUME file \in Configs \cup {BadFile}, [Next]_vars
  PROVE  [MeshNext]_meshVars
<1>1. CASE Boot
  <2>1. CASE file.mesh
    <3>1. file.peers \in PeerSets
      BY <1>1, <2>1, CoverAssumption, Zenon DEF Boot, Loads
    <3> QED BY <1>1, <2>1, <3>1, Zenon DEF Boot, MeshNext
  <2>2. CASE ~file.mesh
    BY <1>1, <2>2, Zenon DEF Boot
  <2> QED BY <2>1, <2>2
<1>2. CASE Reconcile
  <2>1. CASE Loads(file) /\ file.mesh /\ PeersValid(file.peers) /\ up
    <3>1. file.peers \in PeerSets
      BY <2>1, CoverAssumption, Zenon DEF Loads
    <3> QED BY <1>2, <2>1, <3>1, Zenon DEF Reconcile, MeshNext
  <2>2. CASE ~(Loads(file) /\ file.mesh /\ PeersValid(file.peers) /\ up)
    BY <1>2, <2>2, Zenon DEF Reconcile
  <2> QED BY <2>1, <2>2
<1>3. CASE MeshFailed \/ Exit \/ Crash
  BY <1>3, Zenon DEF MeshFailed, Exit, Crash, Gone, MeshNext
<1>4. CASE MeshIsUp \/ MeshIsSynced
  BY <1>4, Zenon DEF MeshIsUp, MeshIsSynced, MeshNext
<1>5. ASSUME NEW ok \in BOOLEAN, MeshUp(ok) PROVE [MeshNext]_meshVars
  BY <1>5, Zenon DEF MeshUp, MeshNext
<1>6. ASSUME NEW ok \in BOOLEAN, MeshSync(ok) PROVE [MeshNext]_meshVars
  BY <1>6, Zenon DEF MeshSync, MeshNext
<1>7. ASSUME NEW failed \in SUBSET routes, NEW destroyed \in BOOLEAN, StopMesh(failed, destroyed)
      PROVE  [MeshNext]_meshVars
  <2>1. failed \in SUBSET (routes \cup Want)
    BY Zenon
  <2>2. Down(failed, destroyed) \/ UNCHANGED meshVars
    BY <1>7, Zenon DEF StopMesh
  <2> QED BY <2>1, <2>2, Zenon DEF MeshNext
<1>8. CASE StartServices \/ Terminate \/ Unwind \/ StopServices \/ Reload \/ HelperRestart
  BY <1>8, Zenon DEF StartServices, Terminate, Unwind, StopServices, Reload, HelperRestart
<1>9. ASSUME NEW ok \in BOOLEAN,
             \/ StartRouter(ok) \/ StopRouter(ok) \/ waitForAPIServer(ok) \/ RegisterNode(ok)
             \/ setupIPAM(ok) \/ startPodController(ok) \/ startKubeletServer(ok)
      PROVE  UNCHANGED meshVars
  BY <1>9, Zenon DEF StartRouter, StopRouter, waitForAPIServer, RegisterNode, setupIPAM,
                     startPodController, startKubeletServer, Stage
<1>10. ASSUME NEW c, NEW signal, Edit(c, signal) PROVE UNCHANGED meshVars
  BY <1>10, Zenon DEF Edit
<1>11. ASSUME NEW p, NEW ok, NEW ip, NEW vm, NEW i, PodAttach(p, ip, vm, i, ok)
       PROVE  UNCHANGED meshVars
  BY <1>11, Zenon DEF PodAttach, Quiet
<1>12. ASSUME NEW k, NEW ok, ServiceApply(k, ok) PROVE UNCHANGED meshVars
  BY <1>12, Zenon DEF ServiceApply, Quiet
<1>13. ASSUME NEW p, NEW ok, PodDetach(p, ok) PROVE UNCHANGED meshVars
  BY <1>13, Zenon DEF PodDetach, Quiet
<1>14. ASSUME NEW k, ServiceWork(k) \/ ServiceSkip(k) \/ Churn(k) PROVE UNCHANGED meshVars
  BY <1>14, Zenon DEF ServiceWork, ServiceSkip, Churn, Quiet
<1>15. CASE UNCHANGED vars
  BY <1>15, Zenon DEF vars
<1> QED
  BY <1>1, <1>2, <1>3, <1>4, <1>5, <1>6, <1>7, <1>8, <1>9, <1>10, <1>11, <1>12, <1>13, <1>14, <1>15,
     Zenon DEF Next

(* Every step of the node is a step of the router or leaves it alone       *)
(* (setupPodNetwork, the provider's Attach and Detach, the controller).    *)
LEMMA RouterStep ==
  ASSUME SettleInv, RunsOnConfig, [Next]_vars
  PROVE  [RouterNext]_routerVars
<1>1. ASSUME NEW ok \in BOOLEAN, StartRouter(ok) \/ StopRouter(ok) PROVE [RouterNext]_routerVars
  BY <1>1, Zenon DEF StartRouter, StopRouter, RouterNext
<1>2. CASE MeshFailed \/ Exit \/ Crash
  BY <1>2, Zenon DEF MeshFailed, Exit, Crash, Gone, RouterNext
<1>3. ASSUME NEW p \in Pods, NEW ok \in BOOLEAN, PodDetach(p, ok) PROVE [RouterNext]_routerVars
  BY <1>3, Zenon DEF PodDetach, RouterNext
<1>4. ASSUME NEW p \in Pods, NEW ok \in BOOLEAN, NEW ip \in PodIPs, NEW vm \in VMIPs,
             NEW i \in {VMNetIf} \cup Bridges, PodAttach(p, ip, vm, i, ok)
      PROVE  [RouterNext]_routerVars
  BY <1>4, Zenon DEF PodAttach, RouterNext
<1>5. ASSUME NEW k \in Services, NEW ok \in BOOLEAN, ServiceApply(k, ok) PROVE [RouterNext]_routerVars
  <2>1. CASE work[k].rules = {}
    BY <1>5, <2>1, Zenon DEF ServiceApply, Apply, RouterNext
  <2>2. CASE work[k].rules # {}
    <3>1. work[k].at = "apply"
      BY <1>5, Zenon DEF ServiceApply, Apply
    <3>2. Asked(cfg, work[k].rules)
      <4>1. WorkOf(cfg, work[k])
        BY Zenon DEF RunsOnConfig, ControlledBy
      <4>2. work[k] # NoWork /\ work[k].at # "slices"
        BY <3>1, AtRest, Zenon
      <4> QED BY <4>1, <4>2, Zenon DEF WorkOf
    <3>3. cfg \in Configs
      <4>1. work[k] # NoWork
        BY <3>1, AtRest, Zenon
      <4>2. ctrl # "off"
        BY <4>1, Zenon DEF SettleInv
      <4>3. pc # "off"
        BY <4>2, Zenon DEF RunsOnConfig, Booted
      <4> QED BY <4>3, Zenon DEF RunsOnConfig, Booted
    <3>4. work[k].rules \in SUBSET ServiceRules
      BY <2>2, <3>2, <3>3, CoverAssumption, Zenon DEF Asked
    <3> QED BY <1>5, <2>2, <3>4, Zenon DEF ServiceApply, Apply, RouterNext
  <2> QED BY <2>1, <2>2
<1>6. ASSUME NEW k, ServiceWork(k) \/ ServiceSkip(k) \/ Churn(k) PROVE UNCHANGED routerVars
  BY <1>6, Zenon DEF ServiceWork, ServiceSkip, ApplyNothing, Churn
<1>7. CASE Boot \/ MeshIsUp \/ StartServices \/ Terminate \/ Unwind \/ StopServices
  BY <1>7, Zenon DEF Boot, MeshIsUp, StartServices, Terminate, Unwind, StopServices
<1>8. CASE Reload \/ Reconcile \/ MeshIsSynced \/ HelperRestart
  BY <1>8, Zenon DEF Reload, Reconcile, MeshIsSynced, HelperRestart
<1>9. ASSUME NEW ok \in BOOLEAN,
             \/ MeshUp(ok) \/ MeshSync(ok) \/ waitForAPIServer(ok) \/ RegisterNode(ok)
             \/ setupIPAM(ok) \/ startPodController(ok) \/ startKubeletServer(ok)
      PROVE  UNCHANGED routerVars
  BY <1>9, Zenon DEF MeshUp, MeshSync, waitForAPIServer, RegisterNode, setupIPAM,
                     startPodController, startKubeletServer, Stage
<1>10. ASSUME NEW failed, NEW destroyed, StopMesh(failed, destroyed) PROVE UNCHANGED routerVars
  BY <1>10, Zenon DEF StopMesh
<1>11. ASSUME NEW c, NEW signal, Edit(c, signal) PROVE UNCHANGED routerVars
  BY <1>11, Zenon DEF Edit
<1>12. CASE UNCHANGED vars
  BY <1>12, Zenon DEF vars
<1> QED
  BY <1>1, <1>2, <1>3, <1>4, <1>5, <1>6, <1>7, <1>8, <1>9, <1>10, <1>11, <1>12, Zenon DEF Next
(* main.run's steps: what is up at which stage (Boot, Gone and the stages).*)
LEMMA BootedNext == NodeInv /\ [Next]_vars => Booted'
<1> SUFFICES ASSUME NodeInv, [Next]_vars PROVE Booted'
  OBVIOUS
<1>0. Booted
  BY DEF NodeInv, RunsOnConfig
<1> USE DEF Booted
<1>1. CASE Boot
  <2>1. /\ pc = "off" /\ pc' \in {"mesh", "router"} /\ file \in Configs /\ ConfigValid(file)
        /\ cfg' = file /\ UNCHANGED <<file, started>>
    BY <1>0, <1>1, Zenon DEF Boot, Loads, routerVars, World
  <2> QED BY <1>0, <2>1, SMT
<1>2. CASE MeshFailed \/ Exit \/ Crash
  <2>1. Gone
    BY <1>2, Zenon DEF MeshFailed, Exit, Crash
  <2>2. pc' = "off" /\ ~started' /\ ~up' /\ call' = Idle /\ ctrl' = "off" /\ UNCHANGED file
    BY <2>1, Zenon DEF Gone, RouterDies, ControllerDies, MeshDies
  <2> QED BY <1>0, <2>2, SMT
<1>3. ASSUME NEW ok \in BOOLEAN, StartRouter(ok) PROVE Booted'
  <2>1. pc = "router" /\ pc' \in {"api", "stop_mesh"} /\ UNCHANGED <<file, cfg, up, call, ctrl>>
    BY <1>3, Zenon DEF StartRouter, World, ctrlVars, meshVars
  <2>2. started' => cfg.podNetwork
    <3>1. CASE cfg.podNetwork
      BY <3>1
    <3>2. CASE ~cfg.podNetwork
      <4>1. UNCHANGED started
        BY <1>3, <3>2, Zenon DEF StartRouter, routerVars
      <4> QED BY <1>0, <2>1, <4>1, SMT
    <3> QED BY <3>1, <3>2
  <2> QED BY <1>0, <2>1, <2>2, SMT
<1>4. ASSUME NEW ok \in BOOLEAN, MeshUp(ok) PROVE Booted'
  BY <1>0, <1>4, SMT DEF MeshUp, World, routerVars, ctrlVars
<1>5. ASSUME NEW ok \in BOOLEAN, MeshSync(ok) PROVE Booted'
  <2>1. UNCHANGED <<file, cfg, pc, started, ctrl>>
    BY <1>5, Zenon DEF MeshSync, World, routerVars, ctrlVars
  <2>2. call.at \in {"sync", "routes"}
    BY <1>5, Zenon DEF MeshSync, SyncConf, DeleteRoute, AddRoute
  <2>3. pc # "off"
    BY <1>0, <2>2, SMT DEF Idle
  <2> QED BY <1>0, <2>1, <2>3, SMT
<1>6. CASE Reconcile
  <2>1. UNCHANGED <<file, cfg, pc, started, ctrl>>
    BY <1>6, Zenon DEF Reconcile, routerVars, ctrlVars
  <2>2. pc = "off" => UNCHANGED <<up, call>>
    BY <1>0, <1>6, Zenon DEF Reconcile, meshVars
  <2> QED BY <1>0, <2>1, <2>2, SMT
<1>7. CASE MeshIsUp
  BY <1>0, <1>7, SMT DEF MeshIsUp, RoutesDone, World, routerVars, ctrlVars
<1>8. CASE MeshIsSynced
  <2>1. call.at = "routes" /\ UNCHANGED <<file, cfg, pc, started, ctrl>>
    BY <1>8, Zenon DEF MeshIsSynced, RoutesDone, nodeVars, routerVars, ctrlVars
  <2>2. pc # "off"
    BY <1>0, <2>1, SMT DEF Idle
  <2> QED BY <1>0, <2>1, <2>2, SMT
<1>9. CASE StartServices
  <2>1. pc = "services" /\ pc' = "pods" /\ UNCHANGED <<file, cfg, up, call, started>>
    BY <1>9, Zenon DEF StartServices, World, routerVars, meshVars
  <2> QED BY <1>0, <2>1, SMT
<1>10. CASE StopServices
  <2>1. pc = "stop_services" /\ pc' = "stop_router" /\ UNCHANGED <<file, cfg, up, call, started>>
    BY <1>10, Zenon DEF StopServices, World, routerVars, meshVars
  <2> QED BY <1>0, <2>1, SMT
<1>11. ASSUME NEW ok \in BOOLEAN, StopRouter(ok) PROVE Booted'
  <2>1. pc = "stop_router" /\ pc' = "stop_mesh" /\ UNCHANGED <<file, cfg, up, call, ctrl>>
    BY <1>11, Zenon DEF StopRouter, ctrlVars, World, meshVars
  <2>2. started' = FALSE \/ UNCHANGED started
    BY <1>11, Zenon DEF StopRouter, Stop, routerVars
  <2> QED BY <1>0, <2>1, <2>2, SMT
<1>12. ASSUME NEW failed \in SUBSET routes, NEW destroyed \in BOOLEAN, StopMesh(failed, destroyed)
       PROVE  Booted'
  <2>1. pc = "stop_mesh" /\ pc' = "exit" /\ UNCHANGED <<file, cfg, started, ctrl>>
    BY <1>12, Zenon DEF StopMesh, routerVars, ctrlVars, World
  <2> QED BY <1>0, <2>1, SMT
<1>13. ASSUME NEW c \in Configs \cup {BadFile}, NEW signal \in BOOLEAN, Edit(c, signal) PROVE Booted'
  <2>1. file' = c /\ UNCHANGED <<cfg, pc, up, call, ctrl, started>>
    BY <1>13, Zenon DEF Edit, routerVars, ctrlVars, meshVars
  <2> QED BY <1>0, <1>13, <2>1, Zenon
<1>14. CASE Terminate \/ Unwind \/ Reload \/ HelperRestart
  <2>1. CASE Unwind
    <3>1. pc = "running" /\ pc' = "stop_services" /\ UNCHANGED <<file, cfg, up, call, ctrl, started>>
      BY <2>1, Zenon DEF Unwind, World, routerVars, ctrlVars, meshVars
    <3> QED BY <1>0, <3>1, SMT
  <2>2. CASE Terminate \/ Reload \/ HelperRestart
    <3>1. UNCHANGED <<file, cfg, pc, up, call, ctrl, started>>
      BY <2>2, Zenon DEF Terminate, Reload, HelperRestart, routerVars, ctrlVars, meshVars
    <3> QED BY <1>0, <3>1, Zenon
  <2> QED BY <1>14, <2>1, <2>2
<1>15. ASSUME NEW ok \in BOOLEAN,
              \/ waitForAPIServer(ok) \/ RegisterNode(ok) \/ setupIPAM(ok)
              \/ startPodController(ok) \/ startKubeletServer(ok)
       PROVE  Booted'
  <2>1. PICK at, next, back : /\ Stage(at, next, back, ok)
                              /\ at \in {"api", "node", "ipam", "pods", "server"}
                              /\ next \in {"node", "ipam", "services", "server", "running"}
                              /\ back \in {"stop_router", "stop_services"}
    BY <1>15, Zenon DEF waitForAPIServer, RegisterNode, setupIPAM, startPodController,
                        startKubeletServer
  <2>2. pc = at /\ pc' \in {next, back} /\ UNCHANGED <<file, cfg, up, call, ctrl, started>>
    BY <2>1, Zenon DEF Stage, World, routerVars, ctrlVars, meshVars
  <2> QED BY <1>0, <2>1, <2>2, SMT
<1>16. ASSUME UNCHANGED <<file, cfg, pc, up, call, ctrl, started>> PROVE Booted'
  BY <1>0, <1>16, Zenon
<1>17. ASSUME NEW p, NEW ok, NEW ip, NEW vm, NEW i, PodAttach(p, ip, vm, i, ok)
       PROVE  UNCHANGED <<file, cfg, pc, up, call, ctrl, started>>
  BY <1>17, Zenon DEF PodAttach, Attach, Quiet, World, meshVars, ctrlVars
<1>18. ASSUME NEW p, NEW ok, PodDetach(p, ok)
       PROVE  UNCHANGED <<file, cfg, pc, up, call, ctrl, started>>
  BY <1>18, Zenon DEF PodDetach, Detach, Quiet, World, meshVars, ctrlVars
<1>19. ASSUME NEW k, NEW ok, ServiceApply(k, ok)
       PROVE  UNCHANGED <<file, cfg, pc, up, call, ctrl, started>>
  BY <1>19, Zenon DEF ServiceApply, Apply, Requeued, AttachService, DetachService, Quiet, World, meshVars
<1>20. ASSUME NEW k, ServiceWork(k) \/ ServiceSkip(k)
       PROVE  UNCHANGED <<file, cfg, pc, up, call, ctrl, started>>
  BY <1>20, Zenon DEF ServiceWork, ServiceSkip, Get, ReadSlices, Retry, ApplyNothing, Requeued,
                      Quiet, World, meshVars, routerVars
<1>21. ASSUME NEW k, Churn(k) PROVE UNCHANGED <<file, cfg, pc, up, call, ctrl, started>>
  BY <1>21, Zenon DEF Churn, ServiceEvent, SliceEvent, meshVars, routerVars
<1>22. CASE UNCHANGED vars
  BY <1>16, <1>22, Zenon DEF vars, nodeVars, meshVars, routerVars, ctrlVars
<1>23. ASSUME NEW p \in Pods, NEW ok \in BOOLEAN,
              \/ PodDetach(p, ok)
              \/ \E ip \in PodIPs, vm \in VMIPs, i \in {VMNetIf} \cup Bridges : PodAttach(p, ip, vm, i, ok)
       PROVE  Booted'
  BY <1>16, <1>17, <1>18, <1>23, Zenon
<1>24. ASSUME NEW k \in Services,
              \/ ServiceWork(k) \/ ServiceSkip(k) \/ Churn(k)
              \/ \E ok \in BOOLEAN : ServiceApply(k, ok)
       PROVE  Booted'
  BY <1>16, <1>19, <1>20, <1>21, <1>24, Zenon
<1> HIDE DEF Booted
<1> QED
  BY <1>1, <1>2, <1>3, <1>4, <1>5, <1>6, <1>7, <1>8, <1>9, <1>10, <1>11, <1>12, <1>13, <1>14, <1>15,
     <1>22, <1>23, <1>24, Zenon DEF Next
(* The reads and events of the controller keep to the node's config        *)
(* (WithRoutableCIDRs, reconcile).                                         *)
LEMMA ControlWork ==
  ASSUME NEW c, ControlledBy(c), SettleInv, NEW k \in Services,
         Get(k) \/ ReadSlices(k) \/ Retry(k) \/ (\E err : Requeued(k, err))
  PROVE  ControlledBy(c)'
<1> DEFINE Caches == UNCHANGED <<svcCache, sliceCache, ctrl, filter>>
<1>1. Caches
  BY Zenon DEF Get, ReadSlices, Retry, Requeued
<1>2. work = [j \in Services |-> work[j]]
  BY Zenon DEF SettleInv, IsMap
<1>3. ASSUME NEW w, WorkOf(c, w), work' = [work EXCEPT ![k] = w] PROVE ControlledBy(c)'
  <2>1. \A j \in Services : work'[j] = IF j = k THEN w ELSE work[j]
    BY <1>2, <1>3, Zenon
  <2>2. \A j \in Services : WorkOf(c, work'[j])
    BY <1>3, <2>1, Zenon DEF ControlledBy
  <2> QED BY <1>1, <2>2, Zenon DEF ControlledBy
<1>4. CASE Get(k)
  <2>1. CASE svcCache[k] = NoService
    <3>1. work' = [work EXCEPT ![k] = [at |-> "apply", rules |-> {}]]
      BY <1>4, <2>1, Zenon DEF Get
    <3>2. WorkOf(c, [at |-> "apply", rules |-> {}])
      BY SMT DEF WorkOf, Asked
    <3> QED BY <1>3, <3>1, <3>2, Zenon
  <2>2. CASE svcCache[k] # NoService
    <3>1. work' = [work EXCEPT ![k] = [at |-> "slices", svc |-> svcCache[k]]]
      BY <1>4, <2>2, Zenon DEF Get
    <3>2. svcCache[k] \in Objects
      BY <2>2, SMT DEF ControlledBy
    <3>3. WorkOf(c, [at |-> "slices", svc |-> svcCache[k]])
      BY <3>2, SMT DEF WorkOf
    <3> QED BY <1>3, <3>1, <3>3, Zenon
  <2> QED BY <2>1, <2>2
<1>5. CASE ReadSlices(k)
  <2> DEFINE asks == filterRoutable(filter, BuildServiceRules(work[k].svc, sliceCache[k]))
  <2>1. work[k].at = "slices" /\ work' = [work EXCEPT ![k] = [at |-> "apply", rules |-> asks]]
    BY <1>5, Zenon DEF ReadSlices
  <2>2. work[k].svc \in Objects
    <3>1. WorkOf(c, work[k])
      BY Zenon DEF ControlledBy
    <3>2. work[k] # NoWork
      BY <2>1, AtRest, Zenon
    <3> QED BY <2>1, <3>1, <3>2, Zenon DEF WorkOf
  <2>3. filter = RoutableServiceCIDRs(c)
    <3>1. work[k] # NoWork
      BY <2>1, AtRest, Zenon
    <3>2. ctrl # "off"
      BY <3>1, Zenon DEF SettleInv
    <3> QED BY <3>2, Zenon DEF ControlledBy
  <2>4. sliceCache[k] \in SliceLists
    BY Zenon DEF ControlledBy
  <2>5. Asked(c, asks)
    BY <2>2, <2>3, <2>4, Zenon DEF Asked
  <2> HIDE DEF asks
  <2>6. WorkOf(c, [at |-> "apply", rules |-> asks])
    BY <2>5, SMT DEF WorkOf
  <2> QED BY <1>3, <2>1, <2>6, Zenon
<1>6. CASE Retry(k)
  BY <1>1, <1>6, Zenon DEF Retry, ControlledBy
<1>7. ASSUME NEW err, Requeued(k, err) PROVE ControlledBy(c)'
  BY <1>3, <1>7, EmptyOf, Zenon DEF Requeued
<1> QED BY <1>4, <1>5, <1>6, <1>7, Zenon

LEMMA ControlEvent ==
  ASSUME NEW c, ControlledBy(c), NEW k \in Services,
         \/ \E svc \in Objects \cup {NoService} : ServiceEvent(k, svc)
         \/ \E slices \in SliceLists : SliceEvent(k, slices)
  PROVE  ControlledBy(c)'
<1>1. UNCHANGED <<work, ctrl, filter>>
  BY Zenon DEF ServiceEvent, SliceEvent
<1>2. svcCache' \in [Services -> Objects \cup {NoService}] /\ sliceCache' \in [Services -> SliceLists]
  BY SMT DEF ServiceEvent, SliceEvent, ControlledBy
<1> QED BY <1>1, <1>2, Zenon DEF ControlledBy

(* A Pod's endpoint, and a Service's rules, keep to the config: VM and Pod *)
(* addresses are of the node's networks, and what a worker hands over went *)
(* through the filter (CreatePod, reconcile).                              *)
LEMMA MapsAttach ==
  ASSUME NodeInv, NEW p \in Pods, NEW ok \in BOOLEAN, NEW ip \in PodIPs, NEW vm \in VMIPs,
         NEW i \in {VMNetIf} \cup Bridges, PodAttach(p, ip, vm, i, ok)
  PROVE  MapsOf(cfg)'
<1>1. /\ pc \in HasRouter /\ ip \in cfg.podCIDR /\ started /\ UNCHANGED <<services, cfg>>
      /\ endpoints' = [endpoints EXCEPT ![p] = [ip |-> ip, vm |-> vm, iface |-> i]]
  BY Zenon DEF PodAttach, Attach, Quiet
<1>2. cfg \in Configs /\ cfg.podNetwork
  <2>1. Booted
    BY DEF NodeInv, RunsOnConfig
  <2>2. pc # "off"
    BY <1>1, Zenon DEF HasRouter
  <2> QED BY <1>1, <2>1, <2>2, Zenon DEF Booted
<1>3. ipInSet(vm, VMNetCIDRs(cfg))
  BY <1>2, NetworkAssumption, Zenon
<1>4. endpoints'[p] = [ip |-> ip, vm |-> vm, iface |-> i] /\ \A q \in Pods \ {p} : endpoints'[q] = endpoints[q]
  <2>1. DOMAIN endpoints = Pods
    BY Zenon DEF NodeInv, RouterTypeOK
  <2> QED BY <1>1, <2>1, Zenon
<1>5. EndpointsOf(cfg, endpoints)
  BY DEF NodeInv, RunsOnConfig, MapsOf
<1>6. ASSUME NEW q \in Attached(endpoints')
      PROVE  /\ ipInSet(endpoints'[q].vm, VMNetCIDRs(cfg)) /\ endpoints'[q].ip \in cfg.podCIDR
             /\ endpoints'[q].iface \in {VMNetIf} \cup Bridges
  <2>1. CASE q = p
    <3>1. endpoints'[q].vm = vm /\ endpoints'[q].ip = ip /\ endpoints'[q].iface = i
      BY <1>4, <2>1, SMT
    <3> QED BY <1>1, <1>3, <3>1, Zenon
  <2>2. CASE q # p
    <3>1. q \in Attached(endpoints) /\ endpoints'[q] = endpoints[q]
      BY <1>4, <2>2, Zenon DEF Attached
    <3> QED BY <1>5, <3>1, Zenon DEF EndpointsOf
  <2> QED BY <2>1, <2>2
<1>7. EndpointsOf(cfg', endpoints')
  BY <1>1, <1>6, Zenon DEF EndpointsOf
<1> QED BY <1>1, <1>7, Zenon DEF NodeInv, RunsOnConfig, MapsOf

LEMMA MapsDetach ==
  ASSUME NodeInv, NEW p \in Pods, NEW ok \in BOOLEAN, PodDetach(p, ok)
  PROVE  MapsOf(cfg)'
<1>1. UNCHANGED <<services, cfg>> /\ endpoints' = [endpoints EXCEPT ![p] = NoEndpoint]
  BY Zenon DEF PodDetach, Detach, Quiet
<1>2. endpoints'[p] = NoEndpoint /\ \A q \in Pods \ {p} : endpoints'[q] = endpoints[q]
  <2>1. DOMAIN endpoints = Pods
    BY Zenon DEF NodeInv, RouterTypeOK
  <2> QED BY <1>1, <2>1, Zenon
<1>3. EndpointsOf(cfg, endpoints)
  BY DEF NodeInv, RunsOnConfig, MapsOf
<1>4. \A q \in Attached(endpoints') : q \in Attached(endpoints) /\ endpoints'[q] = endpoints[q]
  BY <1>2, Zenon DEF Attached
<1>5. EndpointsOf(cfg', endpoints')
  BY <1>1, <1>3, <1>4, Zenon DEF EndpointsOf
<1> QED BY <1>1, <1>5, Zenon DEF NodeInv, RunsOnConfig, MapsOf

LEMMA MapsApply ==
  ASSUME NodeInv, NEW k \in Services, NEW ok \in BOOLEAN, ServiceApply(k, ok)
  PROVE  MapsOf(cfg)'
<1> DEFINE had == {r \in work[k].rules : r.backends # {}}
<1>1. /\ work[k].at = "apply" /\ UNCHANGED <<endpoints, cfg>>
      /\ services' = [services EXCEPT ![k] = {}] \/ services' = [services EXCEPT ![k] = had]
  BY Zenon DEF ServiceApply, Apply, AttachService, DetachService, Quiet
<1>2. Asked(cfg, work[k].rules)
  <2>1. WorkOf(cfg, work[k])
    BY Zenon DEF NodeInv, RunsOnConfig, ControlledBy
  <2>2. work[k] # NoWork
    BY <1>1, AtRest, Zenon
  <2> QED BY <1>1, <2>1, <2>2, Zenon DEF WorkOf
<1>3. Asked(cfg, had) /\ Asked(cfg, {})
  BY <1>2, Zenon DEF Asked
<1> HIDE DEF had
<1>4. PICK rules \in {{}, had} : services' = [services EXCEPT ![k] = rules]
  BY <1>1, Zenon
<1>5. \A j \in Services : services'[j] = IF j = k THEN rules ELSE services[j]
  <2>1. DOMAIN services = Services
    BY Zenon DEF NodeInv, RouterTypeOK
  <2> QED BY <1>4, <2>1, Zenon
<1>6. Asked(cfg, rules)
  BY <1>3, <1>4, Zenon
<1>7. \A j \in Services : Asked(cfg', services'[j])
  BY <1>1, <1>5, <1>6, Zenon DEF NodeInv, RunsOnConfig, MapsOf
<1> QED BY <1>1, <1>7, Zenon DEF NodeInv, RunsOnConfig, MapsOf

(* All of it: a config is replaced only when nothing of the old one is left.*)
LEMMA RunsNext == NodeInv /\ [Next]_vars => RunsOnConfig'
<1> SUFFICES ASSUME NodeInv, [Next]_vars PROVE ControlledBy(cfg)' /\ MapsOf(cfg)'
  BY BootedNext DEF RunsOnConfig
<1>0. /\ RouterTypeOK /\ SettleInv /\ Booted /\ ControlledBy(cfg) /\ MapsOf(cfg)
      /\ RouterInv
  BY DEF NodeInv, RunsOnConfig
<1>1. ASSUME UNCHANGED <<cfg, ctrlVars>> PROVE ControlledBy(cfg)'
  BY <1>0, <1>1, Zenon DEF ControlledBy, ctrlVars
<1>2. ASSUME UNCHANGED <<cfg, routerVars>> PROVE MapsOf(cfg)'
  BY <1>0, <1>2, Zenon DEF MapsOf, routerVars
<1>3. CASE Boot
  <2>1. pc = "off" /\ UNCHANGED <<routerVars, ctrlVars>>
    BY <1>3, Zenon DEF Boot
  <2>2. ctrl = "off" /\ ~started
    BY <1>0, <2>1, SMT DEF Booted
  <2>3. endpoints' = NoEndpoints /\ services' = NoServices
    BY <1>0, <2>1, <2>2, Zenon DEF RouterInv, StoppedIsEmpty, routerVars
  <2>4. ctrl' = "off" /\ UNCHANGED <<svcCache, sliceCache>> /\ \A k \in Services : work'[k] = NoWork
    BY <1>0, <2>1, <2>2, Zenon DEF SettleInv, ctrlVars
  <2>5. ControlledBy(cfg)'
    BY <1>0, <2>4, EmptyOf, Zenon DEF ControlledBy
  <2> QED BY <2>3, <2>5, EmptyOf, Zenon DEF MapsOf
<1>4. CASE MeshFailed \/ Exit \/ Crash
  <2>1. Gone
    BY <1>4, Zenon DEF MeshFailed, Exit, Crash
  <2>2. /\ endpoints' = NoEndpoints /\ services' = NoServices /\ ctrl' = "off"
        /\ UNCHANGED <<svcCache, sliceCache>> /\ \A k \in Services : work'[k] = NoWork
    BY <2>1, Zenon DEF Gone, RouterDies, ControllerDies
  <2>3. ControlledBy(cfg)'
    BY <1>0, <2>2, EmptyOf, Zenon DEF ControlledBy
  <2> QED BY <2>2, <2>3, EmptyOf, Zenon DEF MapsOf
<1>5. CASE StartServices
  <2>1. UNCHANGED <<cfg, routerVars>>
    BY <1>5, Zenon DEF StartServices
  <2>2. CASE UNCHANGED ctrlVars
    BY <1>1, <1>2, <2>1, <2>2
  <2>3. CASE RunController(RoutableServiceCIDRs(cfg))
    BY <1>0, <1>2, <2>1, <2>3, Zenon DEF RunController, ControlledBy
  <2> QED BY <1>5, <2>2, <2>3, Zenon DEF StartServices
<1>6. CASE StopServices
  <2>1. UNCHANGED <<cfg, routerVars>>
    BY <1>6, Zenon DEF StopServices
  <2>2. CASE UNCHANGED ctrlVars
    BY <1>1, <1>2, <2>1, <2>2
  <2>3. CASE StopController
    <3>1. ctrl = "on" /\ UNCHANGED <<svcCache, sliceCache, work, filter>>
      BY <2>3, Zenon DEF StopController
    <3>2. ControlledBy(cfg)'
      BY <1>0, <2>1, <3>1, Zenon DEF ControlledBy
    <3> QED BY <1>2, <2>1, <3>2
  <2> QED BY <1>6, <2>2, <2>3, Zenon DEF StopServices
<1>7. ASSUME NEW ok \in BOOLEAN, StartRouter(ok) PROVE ControlledBy(cfg)' /\ MapsOf(cfg)'
  <2>1. UNCHANGED <<cfg, ctrlVars, endpoints, services>>
    BY <1>7, Zenon DEF StartRouter, Start, routerVars
  <2> QED BY <1>0, <1>1, <2>1, Zenon DEF MapsOf
<1>8. ASSUME NEW ok \in BOOLEAN, StopRouter(ok) PROVE ControlledBy(cfg)' /\ MapsOf(cfg)'
  <2>1. UNCHANGED <<cfg, ctrlVars>>
    BY <1>8, Zenon DEF StopRouter
  <2>2. CASE UNCHANGED routerVars
    BY <1>1, <1>2, <2>1, <2>2
  <2>3. CASE endpoints' = NoEndpoints /\ services' = NoServices
    BY <1>1, <2>1, <2>3, EmptyOf, Zenon DEF MapsOf
  <2> QED BY <1>8, <2>2, <2>3, Zenon DEF StopRouter, Stop
<1>9. ASSUME NEW p \in Pods, NEW ok \in BOOLEAN,
             \/ PodDetach(p, ok)
             \/ \E ip \in PodIPs, vm \in VMIPs, i \in {VMNetIf} \cup Bridges : PodAttach(p, ip, vm, i, ok)
      PROVE  ControlledBy(cfg)' /\ MapsOf(cfg)'
  <2>1. MapsOf(cfg)'
    BY <1>9, MapsAttach, MapsDetach, Zenon
  <2>2. UNCHANGED <<cfg, ctrlVars>>
    BY <1>9, Zenon DEF PodDetach, PodAttach, Quiet
  <2> QED BY <1>1, <2>1, <2>2
<1>10. ASSUME NEW k \in Services, NEW ok \in BOOLEAN, ServiceApply(k, ok)
       PROVE  ControlledBy(cfg)' /\ MapsOf(cfg)'
  <2>1. cfg' = cfg /\ Requeued(k, ~ok)
    BY <1>10, Zenon DEF ServiceApply, Apply, Quiet
  <2>2. \A c : ControlledBy(c) => ControlledBy(c)'
    BY <1>0, <2>1, ControlWork, Zenon
  <2> QED BY <1>0, <1>10, <2>1, <2>2, MapsApply, Zenon DEF ControlledBy
<1>11. ASSUME NEW k \in Services, ServiceWork(k) \/ ServiceSkip(k)
       PROVE  ControlledBy(cfg)' /\ MapsOf(cfg)'
  <2>1. UNCHANGED <<cfg, routerVars>>
    BY <1>11, Zenon DEF ServiceWork, ServiceSkip, ApplyNothing, Quiet
  <2>2. Get(k) \/ ReadSlices(k) \/ Retry(k) \/ (\E err : Requeued(k, err))
    BY <1>11, Zenon DEF ServiceWork, ServiceSkip, ApplyNothing
  <2>3. \A c : ControlledBy(c) => ControlledBy(c)'
    BY <1>0, <2>2, ControlWork, Zenon
  <2> QED BY <1>0, <1>2, <2>1, <2>3, Zenon DEF ControlledBy
<1>12. ASSUME NEW k \in Services, Churn(k) PROVE ControlledBy(cfg)' /\ MapsOf(cfg)'
  <2>1. UNCHANGED <<cfg, routerVars>>
    BY <1>12, Zenon DEF Churn
  <2>2. \A c : ControlledBy(c) => ControlledBy(c)'
    BY <1>12, ControlEvent, Zenon DEF Churn
  <2> QED BY <1>0, <1>2, <2>1, <2>2, Zenon DEF ControlledBy
<1>13. ASSUME UNCHANGED <<cfg, ctrlVars, routerVars>> PROVE ControlledBy(cfg)' /\ MapsOf(cfg)'
  BY <1>1, <1>2, <1>13
<1>14. CASE MeshIsUp \/ Terminate \/ Unwind \/ Reload \/ Reconcile \/ MeshIsSynced \/ HelperRestart
  BY <1>13, <1>14, Zenon DEF MeshIsUp, Terminate, Unwind, Reload, Reconcile, MeshIsSynced,
                             HelperRestart, nodeVars
<1>15. ASSUME NEW ok \in BOOLEAN,
              \/ MeshUp(ok) \/ MeshSync(ok) \/ waitForAPIServer(ok) \/ RegisterNode(ok)
              \/ setupIPAM(ok) \/ startPodController(ok) \/ startKubeletServer(ok)
       PROVE  ControlledBy(cfg)' /\ MapsOf(cfg)'
  BY <1>13, <1>15, Zenon DEF MeshUp, MeshSync, waitForAPIServer, RegisterNode, setupIPAM,
                             startPodController, startKubeletServer, Stage
<1>16. ASSUME NEW failed, NEW destroyed, StopMesh(failed, destroyed)
       PROVE  ControlledBy(cfg)' /\ MapsOf(cfg)'
  BY <1>13, <1>16, Zenon DEF StopMesh
<1>17. ASSUME NEW c, NEW signal, Edit(c, signal) PROVE ControlledBy(cfg)' /\ MapsOf(cfg)'
  BY <1>13, <1>17, Zenon DEF Edit
<1>18. CASE UNCHANGED vars
  BY <1>13, <1>18, Zenon DEF vars, nodeVars
<1> QED
  BY <1>3, <1>4, <1>5, <1>6, <1>7, <1>8, <1>9, <1>10, <1>11, <1>12, <1>14, <1>15, <1>16, <1>17, <1>18,
     Zenon DEF Next
(* A command of the node that fails, or is refused, ends the claim (Outcome);*)
(* so a kubelet that is still clean had this one succeed.                  *)
LEMMA CleanOutcome ==
  ASSUME NEW reqs, NEW done, NEW ok, Outcome(reqs, done, ok), clean' PROVE clean /\ ok
BY Zenon DEF Outcome

(* Every step keeps what a kubelet without failure has set up and taken    *)
(* down in order (main.run and its deferred calls).                        *)
LEMMA UnwindsNext == NodeInv /\ [Next]_vars => Unwinds'
<1> SUFFICES ASSUME NodeInv, [Next]_vars, clean' PROVE Unwinds'
  BY Zenon DEF Unwinds
<1>0. Booted /\ Unwinds /\ StoppedIsEmpty
  BY DEF NodeInv, RunsOnConfig, RouterInv
<1>1. ASSUME clean, UNCHANGED <<cfg, pc, started, anchor, iface, kroutes, up, call>> PROVE Unwinds'
  BY <1>0, <1>1, Zenon DEF Unwinds
<1>2. CASE Boot
  <2>1. file.mesh /\ file.podNetwork /\ cfg' = file /\ pc' = "mesh" /\ call' = Do("create")
    BY <1>2, Zenon DEF Boot, UpBegin
  <2>2. Do("create") # Idle
    BY SMT DEF Do, Idle
  <2> QED BY <2>1, <2>2, SMT DEF Unwinds
<1>3. ASSUME NEW ok \in BOOLEAN, MeshUp(ok) PROVE Unwinds'
  <2>1. pc = "mesh" /\ UNCHANGED <<cfg, pc>>
    BY <1>3, Zenon DEF MeshUp
  <2>2. clean /\ ok
    BY <1>3, CleanOutcome, Zenon DEF MeshUp
  <2>3. call' \in {Do("conf"), Do("link"), Do("routes"), call}
    BY <1>3, <2>2, Zenon DEF MeshUp, UpCreate, UpConf, UpLink, AddRoute
  <2>4. call # Idle
    BY <1>0, <2>1, <2>2, Zenon DEF Unwinds
  <2>5. call' # Idle
    BY <2>3, <2>4, SMT DEF Do, Idle
  <2> QED BY <1>0, <2>1, <2>2, <2>5, SMT DEF Unwinds
<1>4. CASE MeshIsUp
  <2>1. clean /\ pc = "mesh" /\ pc' = "router" /\ UNCHANGED cfg
    BY <1>4, Zenon DEF MeshIsUp
  <2> QED BY <1>0, <2>1, SMT DEF Unwinds
<1>5. CASE MeshFailed
  <2>1. clean /\ pc = "mesh" /\ call = Idle
    BY <1>5, Zenon DEF MeshFailed
  <2> QED BY <1>0, <2>1, Zenon DEF Unwinds
<1>6. CASE Exit
  <2>1. /\ clean /\ pc = "exit" /\ pc' = "off" /\ ~started' /\ ~up' /\ call' = Idle
        /\ UNCHANGED <<anchor, iface, kroutes>>
    BY <1>6, Zenon DEF Exit, Gone, RouterDies, MeshDies
  <2>2. anchor = {} /\ ~iface /\ kroutes = {}
    BY <1>0, <2>1, SMT DEF Unwinds
  <2> QED BY <2>1, <2>2, SMT DEF Unwinds, Stages
<1>7. CASE Crash
  BY <1>7, Zenon DEF Crash
<1>8. ASSUME NEW ok \in BOOLEAN, StartRouter(ok) PROVE Unwinds'
  <2>1. pc = "router" /\ UNCHANGED cfg /\ pc' = IF ok THEN "api" ELSE "stop_mesh"
    BY <1>8, Zenon DEF StartRouter
  <2>2. clean
    BY <1>8, CleanOutcome, Zenon DEF StartRouter
  <2>3. cfg.mesh /\ cfg.podNetwork
    BY <1>0, <2>1, <2>2, SMT DEF Unwinds
  <2>4. ok
    BY <1>8, <2>3, CleanOutcome, Zenon DEF StartRouter
  <2>5. started'
    BY <1>8, <2>3, <2>4, Zenon DEF StartRouter, Start
  <2> QED BY <2>1, <2>3, <2>4, <2>5, SMT DEF Unwinds
<1>9. ASSUME NEW ok \in BOOLEAN, StopRouter(ok) PROVE Unwinds'
  <2>1. pc = "stop_router" /\ pc' = "stop_mesh" /\ UNCHANGED cfg
    BY <1>9, Zenon DEF StopRouter
  <2>2. clean
    BY <1>9, CleanOutcome, Zenon DEF StopRouter
  <2>3. started /\ cfg.mesh /\ cfg.podNetwork
    BY <1>0, <2>1, <2>2, SMT DEF Unwinds, Stages
  <2>4. Stop(ok) /\ ok
    BY <1>9, <2>3, CleanOutcome, Zenon DEF StopRouter
  <2>5. ~started' /\ anchor' = {}
    BY <2>4, Zenon DEF Stop
  <2> QED BY <2>1, <2>3, <2>5, SMT DEF Unwinds
<1>10. ASSUME NEW failed \in SUBSET routes, NEW destroyed \in BOOLEAN, StopMesh(failed, destroyed)
       PROVE  Unwinds'
  <2>1. pc = "stop_mesh" /\ pc' = "exit" /\ UNCHANGED <<cfg, started, anchor>>
    BY <1>10, Zenon DEF StopMesh, routerVars
  <2>2. clean
    BY <1>10, Zenon DEF StopMesh
  <2>3. cfg.mesh /\ cfg.podNetwork /\ ~started /\ anchor = {}
    BY <1>0, <2>1, <2>2, SMT DEF Unwinds
  <2>4. Down(failed, destroyed) /\ destroyed
    BY <1>10, <2>3, Zenon DEF StopMesh
  <2>5. ~iface' /\ kroutes' = {} /\ ~up' /\ call' = Idle
    BY <2>4, Zenon DEF Down, Teardown
  <2> QED BY <2>1, <2>3, <2>5, SMT DEF Unwinds, Stages
<1>11. ASSUME NEW ok \in BOOLEAN, MeshSync(ok) PROVE Unwinds'
  <2>1. pc # "mesh" /\ UNCHANGED <<cfg, pc, started, anchor>>
    BY <1>11, Zenon DEF MeshSync, routerVars
  <2>2. clean
    BY <1>11, CleanOutcome, Zenon DEF MeshSync
  <2>3. call.at \in {"sync", "routes"}
    BY <1>11, Zenon DEF MeshSync, SyncConf, DeleteRoute, AddRoute
  <2>4. pc \notin {"off", "exit"}
    BY <1>0, <2>2, <2>3, SMT DEF Unwinds, Idle
  <2> QED BY <1>0, <2>1, <2>2, <2>4, SMT DEF Unwinds
<1>12. CASE MeshIsSynced
  <2>1. clean /\ pc # "mesh" /\ UNCHANGED <<cfg, pc, started, anchor>> /\ call.at = "routes"
    BY <1>12, Zenon DEF MeshIsSynced, RoutesDone, nodeVars, routerVars
  <2>2. pc \notin {"off", "exit"}
    BY <1>0, <2>1, SMT DEF Unwinds, Idle
  <2> QED BY <1>0, <2>1, <2>2, SMT DEF Unwinds
<1>13. CASE Reconcile
  <2>1. clean /\ call = Idle /\ UNCHANGED <<cfg, pc, started, anchor>>
    BY <1>13, Zenon DEF Reconcile, routerVars
  <2>2. UNCHANGED <<iface, kroutes>>
    BY <1>13, Zenon DEF Reconcile, SyncBegin, meshVars
  <2>3. ~up => UNCHANGED <<up, call>>
    BY <1>13, Zenon DEF Reconcile, meshVars
  <2>4. pc # "mesh"
    BY <1>0, <2>1, Zenon DEF Unwinds
  <2> QED BY <1>0, <2>1, <2>2, <2>3, <2>4, Zenon DEF Unwinds
<1>14. CASE StartServices
  <2>1. clean /\ pc = "services" /\ pc' = "pods" /\ UNCHANGED <<cfg, started>>
    BY <1>14, Zenon DEF StartServices, routerVars
  <2> QED BY <1>0, <2>1, SMT DEF Unwinds, Stages
<1>15. CASE StopServices \/ Unwind
  <2>1. /\ clean /\ pc \in {"running", "stop_services"} /\ pc' \in {"stop_services", "stop_router"}
        /\ UNCHANGED <<cfg, started>>
    BY <1>15, Zenon DEF StopServices, Unwind, routerVars
  <2> QED BY <1>0, <2>1, SMT DEF Unwinds, Stages
<1>16. ASSUME NEW ok \in BOOLEAN,
              \/ waitForAPIServer(ok) \/ RegisterNode(ok) \/ setupIPAM(ok)
              \/ startPodController(ok) \/ startKubeletServer(ok)
       PROVE  Unwinds'
  <2>1. clean /\ UNCHANGED <<cfg, started>>
    BY <1>16, Zenon DEF waitForAPIServer, RegisterNode, setupIPAM, startPodController,
                        startKubeletServer, Stage, routerVars
  <2>2. /\ pc \in {"api", "node", "ipam", "pods", "server"}
        /\ pc' \in {"node", "ipam", "services", "server", "running", "stop_router", "stop_services"}
    <3> USE DEF waitForAPIServer, RegisterNode, setupIPAM, startPodController, startKubeletServer, Stage
    <3>1. CASE ok
      BY <1>16, <3>1, Zenon
    <3>2. CASE ~ok
      BY <1>16, <3>2, Zenon
    <3> QED BY <3>1, <3>2
  <2> QED BY <1>0, <2>1, <2>2, SMT DEF Unwinds, Stages
<1>17. CASE Terminate \/ Reload \/ HelperRestart
  BY <1>1, <1>17, Zenon DEF Terminate, Reload, HelperRestart, routerVars, meshVars
<1>18. ASSUME NEW c, NEW signal, Edit(c, signal) PROVE Unwinds'
  BY <1>1, <1>18, Zenon DEF Edit, routerVars, meshVars
<1>19. ASSUME clean, started, started', UNCHANGED <<cfg, pc, meshVars>> PROVE Unwinds'
  BY <1>0, <1>19, Zenon DEF Unwinds, meshVars
<1>20. ASSUME NEW p \in Pods, NEW ok \in BOOLEAN, PodDetach(p, ok) PROVE Unwinds'
  <2>1. endpoints[p] # NoEndpoint /\ UNCHANGED <<cfg, pc, started, meshVars>>
    BY <1>20, Zenon DEF PodDetach, Detach, Quiet
  <2>2. started
    BY <1>0, <2>1, Zenon DEF StoppedIsEmpty, NoEndpoints
  <2>3. clean
    BY <1>20, <2>2, CleanOutcome, Zenon DEF PodDetach
  <2> QED BY <1>19, <2>1, <2>2, <2>3
<1>21. ASSUME NEW p, NEW ok, NEW ip, NEW vm, NEW i, PodAttach(p, ip, vm, i, ok) PROVE Unwinds'
  <2>1. started /\ UNCHANGED <<cfg, pc, started, meshVars>>
    BY <1>21, Zenon DEF PodAttach, Attach, Quiet
  <2>2. clean
    BY <1>21, CleanOutcome, Zenon DEF PodAttach
  <2> QED BY <1>19, <2>1, <2>2
<1>22. ASSUME NEW k \in Services, NEW ok \in BOOLEAN, ServiceApply(k, ok) PROVE Unwinds'
  <2>1. /\ started \/ services[k] # {}
        /\ UNCHANGED <<cfg, pc, started, meshVars>>
    BY <1>22, Zenon DEF ServiceApply, Apply, AttachService, DetachService, Quiet
  <2>2. started
    BY <1>0, <2>1, Zenon DEF StoppedIsEmpty, NoServices
  <2>3. clean
    BY <1>22, <2>2, CleanOutcome, Zenon DEF ServiceApply
  <2> QED BY <1>19, <2>1, <2>2, <2>3
<1>23. ASSUME NEW k \in Services, ServiceWork(k) \/ ServiceSkip(k) \/ Churn(k) PROVE Unwinds'
  <2>1. UNCHANGED <<cfg, pc, routerVars, meshVars, clean>>
    BY <1>23, Zenon DEF ServiceWork, ServiceSkip, ApplyNothing, Churn, Quiet
  <2> QED BY <1>1, <2>1, Zenon DEF routerVars, meshVars
<1>24. CASE UNCHANGED vars
  BY <1>1, <1>24, Zenon DEF vars, nodeVars, routerVars, meshVars
<1> QED
  BY <1>2, <1>3, <1>4, <1>5, <1>6, <1>7, <1>8, <1>9, <1>10, <1>11, <1>12, <1>13, <1>14, <1>15, <1>16,
     <1>17, <1>18, <1>20, <1>21, <1>22, <1>23, <1>24, Zenon DEF Next

(* The inductive invariant of the node.                                    *)
LEMMA NodeInit == Init => NodeInv
<1> SUFFICES ASSUME Init PROVE NodeInv
  OBVIOUS
<1>1. RouterTypeOK /\ RouterInv /\ SettleInv
  BY RouterTyped, RouterInitInv, SettledInit, Zenon DEF Init
<1>2. Booted
  BY SMT DEF Init, RouterInit, MeshInit, ControllerInit, Booted
<1>3. ControlledBy(cfg)
  BY EmptyOf, Zenon DEF Init, ControllerInit, ControlledBy
<1>4. MapsOf(cfg)
  BY EmptyOf, Zenon DEF Init, RouterInit, MapsOf
<1>5. Unwinds
  BY Zenon DEF Init, Unwinds
<1> QED BY <1>1, <1>2, <1>3, <1>4, <1>5 DEF NodeInv, RunsOnConfig

LEMMA NodeNext == NodeInv /\ [Next]_vars => NodeInv'
<1> SUFFICES ASSUME NodeInv, [Next]_vars PROVE NodeInv'
  OBVIOUS
<1>1. [RouterNext]_routerVars
  BY RouterStep DEF NodeInv
<1>2. RouterTypeOK' /\ RouterInv'
  BY <1>1, RouterTyped, RouterNextInv, Zenon DEF NodeInv
<1>3. SettleInv'
  BY SettledNext, Zenon DEF NodeInv
<1> QED BY <1>2, <1>3, RunsNext, UnwindsNext, Zenon DEF NodeInv

(* The composed node uses the router only as the router on its own allows. *)
THEOREM NodeUsesRouter == Spec => UsesRouter
<1>1. Init => RouterInit
  BY DEF Init
<1>2. NodeInv /\ [Next]_vars => [RouterNext]_routerVars
  BY RouterStep, Zenon DEF NodeInv
<1> QED BY <1>1, <1>2, NodeInit, NodeNext, PTL DEF Spec, UsesRouter, RouterSpec

(* And the mesh only as the mesh on its own allows.                        *)
THEOREM NodeUsesMesh == Spec => UsesMesh
<1>1. Init => MeshInit
  BY DEF Init
<1>2. NodeInv /\ [Next]_vars => [MeshNext]_meshVars
  BY MeshStep, Zenon DEF NodeInv, RunsOnConfig, Booted
<1> QED BY <1>1, <1>2, NodeInit, NodeNext, PTL DEF Spec, UsesMesh, MeshSpec

(* So what was proved of each on its own holds of the node.                *)
THEOREM NodeInherits == Spec => [](AnchorCurrent /\ MeshHonest /\ RoutedIsRouted)
BY NodeUsesRouter, NodeUsesMesh, RouterAnchorCurrent, MeshIsHonest, MeshRouted, PTL
   DEF UsesRouter, UsesMesh

(* For every set of Pods, Services, objects, slices and configs: while the *)
(* helper enforces the policy of the kubelet's config, nothing the cluster *)
(* asks for makes it refuse the shared anchor (filterRoutable,             *)
(* lintAnchorRuleset).                                                     *)
THEOREM NothingRefused == Spec => []NothingPoisons
<1>1. NodeInv => NothingPoisons
  <2> SUFFICES ASSUME NodeInv, started, cfg.mesh, policy = PrivilegedHelperPolicy(cfg)
               PROVE  lintAnchorRuleset(policy, Render(endpoints, services))
    BY DEF NothingPoisons
  <2>1. cfg \in Configs /\ ConfigValid(cfg) /\ cfg.podNetwork
    BY SMT DEF NodeInv, RunsOnConfig, Booted
  <2>2. cfg.podCIDR # NoCIDR
    BY <2>1, Zenon DEF ConfigValid
  <2>3. EndpointsOf(cfg, endpoints)
    BY DEF NodeInv, RunsOnConfig, MapsOf
  <2>4. RulesOf(cfg, services)
    <3>1. ASSUME NEW k \in Services
          PROVE  \E svc, slices :
                   /\ \A sp \in svc.ports : sp.proto \in DOMAIN Lower
                   /\ services[k] \subseteq
                        filterRoutable(RoutableServiceCIDRs(cfg), BuildServiceRules(svc, slices))
      <4>1. Asked(cfg, services[k])
        BY Zenon DEF NodeInv, RunsOnConfig, MapsOf
      <4>2. CASE services[k] = {}
        <5>1. \A sp \in [ports |-> {}].ports : sp.proto \in DOMAIN Lower
          OBVIOUS
        <5> QED BY <4>2, <5>1, Zenon
      <4>3. CASE services[k] # {}
        BY <4>1, <4>3, NetworkAssumption, Zenon DEF Asked
      <4> QED BY <4>2, <4>3
    <3> QED BY <3>1, Zenon DEF RulesOf
  <2> QED BY <2>1, <2>2, <2>3, <2>4, NetworkAssumption, FilteredIsAccepted, Zenon
<1> QED BY <1>1, NodeInit, NodeNext, PTL DEF Spec

(* A kubelet that had no command fail and unwound by itself leaves nothing *)
(* in the host, whatever Pods, workers and SIGHUPs did while it unwound.   *)
THEOREM UnwindsClean == Spec => []StoppedClean
<1>1. NodeInv => StoppedClean
  BY SMT DEF NodeInv, Unwinds, StoppedClean
<1> QED BY <1>1, NodeInit, NodeNext, PTL DEF Spec
=============================================================================
