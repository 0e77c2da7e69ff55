----------------------------- MODULE PodRouter -----------------------------
(***************************************************************************)
(* pkg/network/podnet: the Router keeps which Pod is at which VM address   *)
(* and which Services redirect where, and loads the pf rules of both into  *)
(* one anchor after every change.  Each method holds rt.mu throughout, so  *)
(* it is one step; its last command, the load of the anchor, takes effect  *)
(* or fails (`ok`).  A method that returns before it changed anything is   *)
(* no step.  The anchor is the kernel's: it survives the process.          *)
(***************************************************************************)
EXTENDS HelperPolicy

CONSTANTS Pods, Services,   \* keys of Pods and of Services
          PodIPs, VMIPs, ServiceRules

VARIABLES started, endpoints, services,  \* Router.started, .endpoints, .services
          anchor,                        \* the rules pf holds for the anchor
          synced                         \* history: the last load or flush succeeded

routerVars == <<started, endpoints, services, anchor, synced>>

NoEndpoint == [vm |-> NoName]
Endpoint   == [ip : PodIPs, vm : VMIPs, iface : {VMNetIf} \cup Bridges]
Attached(eps) == {p \in Pods : eps[p] # NoEndpoint}

RouterTypeOK ==
  /\ started \in BOOLEAN /\ synced \in BOOLEAN
  /\ endpoints \in [Pods -> Endpoint \cup {NoEndpoint}]
  /\ services \in [Services -> SUBSET ServiceRules]

-----------------------------------------------------------------------------
(* renderAnchor, renderServiceRules: rules of kind binat and rdr.          *)

endpointBinatInterfaces(ep) == {ep.iface, MeshIf} \ {NoName}

renderAnchor(eps) ==
  UNION {{[kind |-> "binat", iface |-> i, vm |-> eps[p].vm, pod |-> eps[p].ip] :
             i \in endpointBinatInterfaces(eps[p])} : p \in Attached(eps)}

vmnetInterfaces(eps) == {VMNetIf} \cup {eps[p].iface : p \in Attached(eps)}

\* A backend on this node is reached at its VM, another at its Pod IP.
Target(eps, ip) ==
  LET here == {p \in Attached(eps) : eps[p].ip = ip}
  IN  IF here = {} THEN ip ELSE eps[CHOOSE p \in here : TRUE].vm

renderServiceRules(eps, svcs) ==
  {[kind |-> "rdr", iface |-> i, proto |-> r.proto, vip |-> r.vip, port |-> r.port,
    tport |-> r.tport, targets |-> {Target(eps, b) : b \in r.backends}] :
       i \in vmnetInterfaces(eps), r \in UNION {svcs[k] : k \in Services}}

Render(eps, svcs) == renderAnchor(eps) \cup renderServiceRules(eps, svcs)

-----------------------------------------------------------------------------
NoEndpoints == [p \in Pods |-> NoEndpoint]
NoServices  == [k \in Services |-> {}]

\* loadAnchorLocked: the anchor is replaced as a whole, or left as it is.
Load(ok) ==
  /\ anchor' = IF ok THEN Render(endpoints', services') ELSE anchor
  /\ synced' = ok

\* Start, from the point where forwarding, pf and routes are prepared.
Start(ok) ==
  /\ ~started
  /\ started' = TRUE
  /\ UNCHANGED <<endpoints, services>>
  /\ Load(ok)

\* Attach of a Pod whose VM is behind interface i: the endpoint is stored
\* before the load.
Attach(p, ip, vm, i, ok) ==
  /\ started
  /\ endpoints' = [endpoints EXCEPT ![p] = [ip |-> ip, vm |-> vm, iface |-> i]]
  /\ UNCHANGED <<started, services>>
  /\ Load(ok)

\* Faulty: loads before it forgets the endpoint.
DetachLoadsFirst(p, ok) ==
  /\ endpoints[p] # NoEndpoint
  /\ endpoints' = [endpoints EXCEPT ![p] = NoEndpoint]
  /\ UNCHANGED <<started, services>>
  /\ IF started THEN /\ anchor' = IF ok THEN Render(endpoints, services) ELSE anchor
                     /\ synced' = ok
                ELSE UNCHANGED <<anchor, synced>>

\* Detach: the endpoint is forgotten before the load, and a Detach of an
\* unknown Pod does nothing.
Detach(p, ok) ==
  /\ endpoints[p] # NoEndpoint
  /\ endpoints' = [endpoints EXCEPT ![p] = NoEndpoint]
  /\ UNCHANGED <<started, services>>
  /\ IF started THEN Load(ok) ELSE UNCHANGED <<anchor, synced>>

\* ServiceRule.validate (addresses always parse here)
ruleValid(r) ==
  r.proto \in {"tcp", "udp"} /\ r.port \in 1 .. 65535 /\ r.tport \in 1 .. 65535

\* Faulty: does not look whether the router still runs.
AttachServiceLate(k, rules, ok) ==
  /\ \A r \in rules : ruleValid(r)
  /\ services' = [services EXCEPT ![k] = {r \in rules : r.backends # {}}]
  /\ UNCHANGED <<started, endpoints>>
  /\ Load(ok)

\* AttachService: rules without backends are dropped; none left is a removal.
AttachService(k, rules, ok) ==
  /\ started /\ \A r \in rules : ruleValid(r)
  /\ services' = [services EXCEPT ![k] = {r \in rules : r.backends # {}}]
  /\ UNCHANGED <<started, endpoints>>
  /\ Load(ok)

\* DetachService, like Detach.
DetachService(k, ok) ==
  /\ services[k] # {}
  /\ services' = [services EXCEPT ![k] = {}]
  /\ UNCHANGED <<started, endpoints>>
  /\ IF started THEN Load(ok) ELSE UNCHANGED <<anchor, synced>>

\* Stop: the maps are cleared, and the anchor of a started router is flushed;
\* a flush that fails is only logged.
Stop(ok) ==
  /\ started
  /\ endpoints' = NoEndpoints /\ services' = NoServices
  /\ started' = FALSE
  /\ anchor' = IF ok THEN {} ELSE anchor
  /\ synced' = ok

\* The process ends without Stop.
RouterDies ==
  /\ started' = FALSE
  /\ endpoints' = NoEndpoints /\ services' = NoServices
  /\ synced' = FALSE
  /\ UNCHANGED anchor

RouterInit ==
  /\ started = FALSE /\ synced = FALSE
  /\ endpoints = NoEndpoints /\ services = NoServices
  /\ anchor = {}

RouterNext ==
  \/ \E ok \in BOOLEAN :
       \/ Start(ok) \/ Stop(ok)
       \/ \E p \in Pods : \/ Detach(p, ok)
                          \/ \E ip \in PodIPs, vm \in VMIPs, i \in {VMNetIf} \cup Bridges :
                               Attach(p, ip, vm, i, ok)
       \/ \E k \in Services : \/ DetachService(k, ok)
                              \/ \E rules \in SUBSET ServiceRules : AttachService(k, rules, ok)
  \/ RouterDies

\* The router on its own, called in any order and with any outcome.
RouterSpec == RouterInit /\ [][RouterNext]_routerVars

-----------------------------------------------------------------------------
(* Whatever failed before, a load that succeeds makes the anchor say       *)
(* exactly what the maps say, and a flush that succeeds leaves it empty    *)
(* for as long as the router is stopped: no late call of a controller or   *)
(* of a restart goroutine brings rules back after Stop (router.go,         *)
(* loadAnchorLocked, Stop and the started checks).                         *)
AnchorCurrent == synced => anchor = Render(endpoints, services)
=============================================================================
