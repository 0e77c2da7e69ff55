-------------------------------- MODULE Mesh --------------------------------
(***************************************************************************)
(* pkg/network/wireguard: the Mesh creates this node's WireGuard interface,*)
(* configures its peers, and keeps host routes for what is behind them.    *)
(* m.mu is held through Up, Sync, Down and Remove, so one call at a time is*)
(* under way (`call`); it is a step per command, because the process may   *)
(* die between two commands.  A command takes effect or fails (`ok`); the  *)
(* "already exists" and "not in table" errors that runTolerating accepts   *)
(* count as success, which is why a step does not look at what is there.   *)
(*                                                                         *)
(* Interface, WireGuard peers and routes are the kernel's and survive the  *)
(* process; routes through an interface go when it is destroyed.           *)
(***************************************************************************)
EXTENDS HelperPolicy

CONSTANT PeerSets   \* the peer lists configs may hold

VARIABLES up, peers, routes,  \* Mesh.up, .cfg.Peers, .routes
          call,               \* what the call holding m.mu does next
          routed,             \* history: the last Up or Sync returned nil
          iface, wg, kroutes  \* kernel: interface exists; its peers; its routes

meshVars == <<up, peers, routes, call, routed, iface, wg, kroutes>>

Idle == [at |-> "idle", next |-> {}]
Do(s) == [at |-> s, next |-> {}]

MeshTypeOK ==
  /\ {up, routed, iface} \subseteq BOOLEAN
  /\ peers \in PeerSets \cup {{}} /\ wg \in PeerSets \cup {{}}
  /\ call.at \in {"idle", "create", "conf", "link", "sync", "routes"}
  /\ call.next \in PeerSets \cup {{}}

Want == RouteTargets(peers)

\* A command of the call failed: the call returns its error at once.
CallFails == call' = Idle /\ routed' = FALSE /\ UNCHANGED <<up, peers, routes, iface, wg, kroutes>>

\* New and Up: Validate, then the first command.
UpBegin(ps) ==
  /\ ~up /\ call = Idle /\ PeersValid(ps)
  /\ peers' = ps /\ routes' = {} /\ call' = Do("create")
  /\ UNCHANGED <<up, routed, iface, wg, kroutes>>

\* wireguard-go
UpCreate(ok) ==
  /\ call.at = "create"
  /\ IF ok THEN /\ iface' = TRUE /\ call' = Do("conf")
                /\ UNCHANGED <<up, peers, routes, routed, wg, kroutes>>
           ELSE CallFails

\* wg setconf
UpConf(ok) ==
  /\ call.at = "conf"
  /\ IF ok THEN /\ wg' = peers /\ call' = Do("link")
                /\ UNCHANGED <<up, peers, routes, routed, iface, kroutes>>
           ELSE CallFails

\* ifconfig alias, mtu, up
UpLink(ok) ==
  /\ call.at = "link"
  /\ IF ok THEN /\ up' = TRUE /\ call' = Do("routes")
                /\ UNCHANGED <<peers, routes, routed, iface, wg, kroutes>>
           ELSE CallFails

\* Sync: the new peers are validated, and the mesh must be up.
SyncBegin(ps) ==
  /\ up /\ call = Idle /\ PeersValid(ps)
  /\ call' = [at |-> "sync", next |-> ps]
  /\ UNCHANGED <<up, peers, routes, routed, iface, wg, kroutes>>

\* Faulty: forgets to store the new config.
SyncConfKeepsOld(ok) ==
  /\ call.at = "sync"
  /\ IF ok THEN /\ wg' = call.next /\ call' = Do("routes")
                /\ UNCHANGED <<up, peers, routes, routed, iface, kroutes>>
           ELSE CallFails

\* wg syncconf replaces the peers; then m.cfg = next.
SyncConf(ok) ==
  /\ call.at = "sync"
  /\ IF ok THEN /\ wg' = call.next /\ peers' = call.next /\ call' = Do("routes")
                /\ UNCHANGED <<up, routes, routed, iface, kroutes>>
           ELSE CallFails

\* reconcileRoutesLocked: stale routes first, in map order.
DeleteRoute(t, ok) ==
  /\ call.at = "routes" /\ t \in routes \ Want
  /\ IF ok THEN /\ kroutes' = kroutes \ {t} /\ routes' = routes \ {t}
                /\ UNCHANGED <<up, peers, call, routed, iface, wg>>
           ELSE CallFails

\* Then the missing ones.
AddRoute(t, ok) ==
  /\ call.at = "routes" /\ routes \subseteq Want /\ t \in Want \ routes
  /\ IF ok THEN /\ kroutes' = kroutes \cup {t} /\ routes' = routes \cup {t}
                /\ UNCHANGED <<up, peers, call, routed, iface, wg>>
           ELSE CallFails

\* Faulty: returns nil although a stale route could not be deleted.
RoutesDoneAnyway ==
  /\ call.at = "routes"
  /\ call' = Idle /\ routed' = TRUE
  /\ UNCHANGED <<up, peers, routes, iface, wg, kroutes>>

RoutesDone ==
  /\ call.at = "routes" /\ routes = Want
  /\ call' = Idle /\ routed' = TRUE
  /\ UNCHANGED <<up, peers, routes, iface, wg, kroutes>>

\* teardownLocked: every command is tried, failures are logged.  `failed` are
\* the routes whose deletion failed.
Teardown(known, failed, destroyed) ==
  /\ call = Idle
  /\ up' = FALSE /\ routes' = {} /\ routed' = FALSE
  /\ iface' = (iface /\ ~destroyed)
  /\ wg' = IF destroyed THEN {} ELSE wg
  /\ kroutes' = IF destroyed THEN {} ELSE kroutes \ (known \ failed)
  /\ UNCHANGED <<peers, call>>

Down(failed, destroyed) == Teardown(routes, failed, destroyed)

\* Remove also deletes what the config asks for, tracked or not.
Remove(failed, destroyed) == Teardown(routes \cup Want, failed, destroyed)

\* The process ends without Down.
MeshDies ==
  /\ up' = FALSE /\ peers' = {} /\ routes' = {} /\ call' = Idle /\ routed' = FALSE
  /\ UNCHANGED <<iface, wg, kroutes>>

MeshInit ==
  /\ up = FALSE /\ peers = {} /\ routes = {} /\ call = Idle /\ routed = FALSE
  /\ iface = FALSE /\ wg = {} /\ kroutes = {}

MeshNext ==
  \/ \E ps \in PeerSets : UpBegin(ps) \/ SyncBegin(ps)
  \/ \E ok \in BOOLEAN :
       \/ UpCreate(ok) \/ UpConf(ok) \/ UpLink(ok) \/ SyncConf(ok)
       \/ \E t \in routes \cup Want : DeleteRoute(t, ok) \/ AddRoute(t, ok)
  \/ RoutesDone
  \/ \E failed \in SUBSET (routes \cup Want), destroyed \in BOOLEAN :
       Down(failed, destroyed) \/ Remove(failed, destroyed)
  \/ MeshDies

\* The mesh on its own, called in any order and with any outcome.
MeshSpec == MeshInit /\ [][MeshNext]_meshVars

-----------------------------------------------------------------------------
(* What the mesh believes is so: while it is up, the interface exists, has *)
(* exactly the peers of m.cfg, also after a Sync that failed at any of its *)
(* commands, and every route m.routes records is installed (mesh.go, Up,   *)
(* Sync, reconcileRoutesLocked).                                           *)
MeshHonest == up => iface /\ wg = peers /\ routes \subseteq kroutes

(* Up or Sync returning nil means that everything behind the peers, and    *)
(* nothing else the mesh put there, is routed into the tunnel.             *)
RoutedIsRouted == routed /\ call = Idle => routes = Want /\ Want \subseteq kroutes
=============================================================================
