--------------------------- MODULE ServiceRoutes ---------------------------
(***************************************************************************)
(* pkg/network/svcroute: the controller that turns Services and their      *)
(* EndpointSlices into redirect rules of the router.  Informers keep the   *)
(* two caches and put the key of whatever changed on a work queue; workers *)
(* take a key, read the caches, compute the Service's rules and hand them  *)
(* to the router, and put the key back when the router fails.              *)
(*                                                                         *)
(* The queue is client-go's: `dirty` holds keys to be processed, a key is  *)
(* processed by one worker at a time, and a key added while it is being    *)
(* processed is processed again.  It is first-in first-out; here any key   *)
(* that waits may be next.  `delayed` are the keys AddRateLimited holds    *)
(* back.                                                                   *)
(***************************************************************************)
EXTENDS PodRouter, Sequences, FiniteSets

CONSTANTS Workers,      \* serviceControllerWorkers
          Objects,      \* Service objects a key may have
          SliceLists    \* lists of EndpointSlices a Service may have

NoService == [type |-> "none"]

VARIABLES svcCache, sliceCache,  \* the informers' caches, by Service key
          dirty, delayed,        \* the work queue
          work,                  \* work[k]: how far the worker on key k is
          ctrl,                  \* "off", "on" (Run is past the cache sync), "down"
          filter                 \* WithRoutableCIDRs

ctrlVars == <<svcCache, sliceCache, dirty, delayed, work, ctrl, filter>>
queueVars == <<dirty, delayed, work>>

NoWork == [at |-> "idle"]
Busy   == {k \in Services : work[k] # NoWork}

-----------------------------------------------------------------------------
(* BuildServiceRules and filterRoutable.  A slice is a record of v4 (its   *)
(* address type), ports (name and number, 0 for nil) and eps, endpoints    *)
(* with conditions "nil", "true" or "false".                               *)

readyEndpointIPs(slices) ==
  UNION {UNION {e.addrs : e \in {e \in slices[i].eps : e.ready # "false" /\ e.terminating # "true"}} :
           i \in {i \in DOMAIN slices : slices[i].v4}}

\* The slices that give a port of that name a number; the first one wins.
Naming(slices, name) ==
  {i \in DOMAIN slices : \E p \in slices[i].ports : p.name = name /\ p.port # 0}
TargetPort(slices, name) ==
  LET first == CHOOSE i \in Naming(slices, name) : \A j \in Naming(slices, name) : i <= j
  IN  (CHOOSE p \in slices[first].ports : p.name = name /\ p.port # 0).port

Lower == [TCP |-> "tcp", UDP |-> "udp", SCTP |-> "sctp"]

Programmable(svc) == svc # NoService /\ svc.type # "ExternalName" /\ svc.ip \notin {"", "None"}

BuildServiceRules(svc, slices) ==
  LET ips == readyEndpointIPs(slices)
  IN  IF ~Programmable(svc) \/ ips = {} THEN {}
      ELSE {[vip |-> svc.ip, proto |-> Lower[sp.proto], port |-> sp.port,
             tport |-> TargetPort(slices, sp.name), backends |-> ips] :
              sp \in {sp \in svc.ports : sp.proto # "SCTP" /\ Naming(slices, sp.name) # {}}}

\* No CIDR means no filter.
routable(cidrs, ip) == cidrs = {} \/ ipInSet(ip, cidrs)

\* Faulty: keeps every backend.
filterNothing(cidrs, rules) == rules

filterRoutable(cidrs, rules) ==
  LET kept(r) == {ip \in r.backends : routable(cidrs, ip)}
  IN  {[r EXCEPT !.backends = kept(r)] : r \in {r \in rules : kept(r) # {}}}

Desired(k) == filterRoutable(filter, BuildServiceRules(svcCache[k], sliceCache[k]))

-----------------------------------------------------------------------------
(* The event handlers: the cache changes and the Service's key is queued.  *)

\* Faulty: drops the event of a key that a worker has.
EnqueueUnlessBusy(k) == dirty' = IF ctrl = "on" /\ k \notin Busy THEN dirty \cup {k} ELSE dirty

Enqueue(k) == dirty' = IF ctrl = "on" THEN dirty \cup {k} ELSE dirty

ServiceEvent(k, svc) ==
  /\ svcCache[k] # svc
  /\ svcCache' = [svcCache EXCEPT ![k] = svc]
  /\ Enqueue(k)
  /\ UNCHANGED <<sliceCache, delayed, work, ctrl, filter>>

SliceEvent(k, slices) ==
  /\ sliceCache[k] # slices
  /\ sliceCache' = [sliceCache EXCEPT ![k] = slices]
  /\ Enqueue(k)
  /\ UNCHANGED <<svcCache, delayed, work, ctrl, filter>>

\* startServiceController and Run up to the start of the workers: the
\* informers' first lists have queued every Service and every slice's Service.
RunController(cidrs) ==
  /\ ctrl = "off"
  /\ ctrl' = "on" /\ filter' = cidrs
  /\ dirty' = {k \in Services : svcCache[k] # NoService \/ sliceCache[k] # << >>}
  /\ UNCHANGED <<svcCache, sliceCache, delayed, work>>

\* The context is cancelled: the queue takes nothing more; workers finish
\* what is queued, and nobody waits for them (Run returns at once).
StopController ==
  /\ ctrl = "on"
  /\ ctrl' = "down" /\ delayed' = {}
  /\ UNCHANGED <<svcCache, sliceCache, dirty, work, filter>>

-----------------------------------------------------------------------------
(* processNext and reconcile, cut where the caches are read.               *)

Get(k) ==
  /\ ctrl # "off" /\ k \in dirty /\ k \notin Busy /\ Cardinality(Busy) < Workers
  /\ dirty' = dirty \ {k}
  /\ work' = [work EXCEPT ![k] =
                IF svcCache[k] = NoService THEN [at |-> "apply", rules |-> {}]
                                           ELSE [at |-> "slices", svc |-> svcCache[k]]]
  /\ UNCHANGED <<svcCache, sliceCache, delayed, ctrl, filter>>

ReadSlices(k) ==
  /\ work[k].at = "slices"
  /\ work' = [work EXCEPT ![k] = [at |-> "apply",
                rules |-> filterRoutable(filter, BuildServiceRules(work[k].svc, sliceCache[k]))]]
  /\ UNCHANGED <<svcCache, sliceCache, dirty, delayed, ctrl, filter>>

\* Faulty: never calls Done, so that the queue hands out the key no more.
RequeuedUndone(k, err) ==
  /\ delayed' = IF err /\ ctrl = "on" THEN delayed \cup {k} ELSE delayed
  /\ work' = [work EXCEPT ![k] = [at |-> "undone"]]
  /\ UNCHANGED <<svcCache, sliceCache, dirty, ctrl, filter>>

\* Requeued(k, err): AddRateLimited on an error, Forget otherwise; then Done.
Requeued(k, err) ==
  /\ delayed' = IF err /\ ctrl = "on" THEN delayed \cup {k} ELSE delayed
  /\ work' = [work EXCEPT ![k] = NoWork]
  /\ UNCHANGED <<svcCache, sliceCache, dirty, ctrl, filter>>

\* DetachService of a key the router does not know returns nil at once, and
\* AttachService on a router that is stopped, or of a bad rule, fails at once.
ApplyNothing(k) ==
  /\ work[k].at = "apply"
  /\ LET rules == work[k].rules
     IN  \/ rules = {} /\ services[k] = {} /\ Requeued(k, FALSE)
         \/ rules # {} /\ (~started \/ \E r \in rules : ~ruleValid(r)) /\ Requeued(k, TRUE)
  /\ UNCHANGED routerVars

Apply(k, ok) ==
  /\ work[k].at = "apply"
  /\ IF work[k].rules = {} THEN DetachService(k, ok) ELSE AttachService(k, work[k].rules, ok)
  /\ Requeued(k, ~ok)

\* The rate limiter's delay is over.
Retry(k) ==
  /\ k \in delayed
  /\ delayed' = delayed \ {k} /\ dirty' = dirty \cup {k}
  /\ UNCHANGED <<svcCache, sliceCache, work, ctrl, filter>>

\* In-memory state of a process that is gone; the API server's objects stay.
ControllerDies ==
  /\ ctrl' = "off" /\ dirty' = {} /\ delayed' = {} /\ filter' = {}
  /\ work' = [k \in Services |-> NoWork]
  /\ UNCHANGED <<svcCache, sliceCache>>

ControllerInit ==
  /\ svcCache \in [Services -> Objects \cup {NoService}]
  /\ sliceCache \in [Services -> SliceLists]
  /\ ctrl = "off" /\ dirty = {} /\ delayed = {} /\ filter = {}
  /\ work = [k \in Services |-> NoWork]

-----------------------------------------------------------------------------
(* Nothing is forgotten: a Service on which no work is queued, delayed or  *)
(* under way is in the router's map exactly as the caches ask for, however *)
(* its events interleaved with the two reads of a reconcile and with       *)
(* failures of the router (controller.go, enqueueService, enqueueSlice,    *)
(* processNext).                                                           *)
ServicesSettled ==
  ctrl = "on" =>
    \A k \in Services \ (dirty \cup delayed \cup Busy) : services[k] = Desired(k)
=============================================================================
