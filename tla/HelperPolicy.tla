---------------------------- MODULE HelperPolicy ----------------------------
(***************************************************************************)
(* pkg/network/privhelper/policy.go and protocol.go: what the root helper  *)
(* (macvz-netd) lets the kubelet run, and pkg/config/{policy,podnetwork,   *)
(* mesh}.go: what is derived from a node's config, for the helper and for  *)
(* the kubelet.                                                            *)
(*                                                                         *)
(* A CIDR is the set of addresses it contains: two spellings of a network  *)
(* normalise to the same string (normalizeCIDR) exactly when these sets    *)
(* are equal.  NoCIDR stands for a field left empty.  A request is a record*)
(* with the command's name, the form of its arguments (`op`) and the       *)
(* arguments the policy looks at; arguments in none of the permitted forms *)
(* have op "other".  A pf ruleset is the set of its rules.                 *)
(***************************************************************************)
EXTENDS Integers

CONSTANTS VMNetIf,     \* podNetwork.interface
          Bridges,     \* further apple/container bridges (isBridgeInterface)
          MeshIf,      \* mesh.interface
          MeshAddr,    \* the node's own mesh address
          DefaultVMNet \* DefaultVMNetCIDR

NoCIDR  == {}
NoName  == "none"
Anchor  == "macvz/pods"

-----------------------------------------------------------------------------
(* The config: a record of podCIDR, vmnet (set of CIDRs), podNetwork and   *)
(* mesh (whether enabled), mtu, and peers, each with a key, its podCIDR and*)
(* its mesh address addr (NoCIDR if none is given).                        *)

\* resolvePeers: what is routed to a peer.
AllowedIPs(p) == {p.podCIDR} \cup ({p.addr} \ {NoCIDR})

\* InterfaceConfig.RouteTargets
RouteTargets(peers) == UNION {AllowedIPs(p) : p \in peers}

\* InterfaceConfig.Validate: no two peers share a key.
PeersValid(peers) == \A p, q \in peers : p.key = q.key => p = q

VMNetCIDRs(c) == IF c.podNetwork /\ c.vmnet = {} THEN {DefaultVMNet} ELSE c.vmnet
PeerPodCIDRs(c) == {p.podCIDR : p \in c.peers} \ {NoCIDR}

\* Config.RoutableServiceCIDRs
RoutableServiceCIDRs(c) ==
  ({c.podCIDR} \ {NoCIDR}) \cup VMNetCIDRs(c)
    \cup (IF c.mesh THEN PeerPodCIDRs(c) ELSE {})

\* Config.PrivilegedHelperPolicy
PrivilegedHelperPolicy(c) ==
  [vmnetIf    |-> VMNetIf,
   anchor     |-> Anchor,
   vmnetCIDRs |-> IF c.podNetwork THEN VMNetCIDRs(c) ELSE {},
   podCIDRs   |-> ({c.podCIDR} \ {NoCIDR}) \cup (IF c.mesh THEN PeerPodCIDRs(c) ELSE {}),
   meshIf     |-> IF c.mesh THEN MeshIf ELSE NoName,
   meshAddr   |-> IF c.mesh THEN MeshAddr ELSE NoName,
   mtu        |-> IF c.mesh THEN c.mtu ELSE 0,
   routeCIDRs |-> IF c.mesh THEN RouteTargets(c.peers) ELSE {},
   peerKeys   |-> IF c.mesh THEN {p.key : p \in c.peers} ELSE {}]

\* Config.Validate, for the fields above (NoCIDR: the field is empty; a CIDR
\* that does not parse is a file that does not load), with a helper's socket.
validateMesh(c) == c.mesh => \A p \in c.peers : p.podCIDR # NoCIDR
ConfigValid(c)  == validateMesh(c) /\ (c.podNetwork => c.podCIDR # NoCIDR)

-----------------------------------------------------------------------------
(* Policy.Validate.                                                        *)

allowedCommands == {"pfctl", "sysctl", "route", "ifconfig", "wg", "wireguard-go", "pkill"}

ipInSet(ip, cidrs) == \E c \in cidrs : ip \in c
checkMeshInterface(p, i)   == p.meshIf # NoName /\ i = p.meshIf
checkVMNetInterface(p, i)  == p.vmnetIf # NoName /\ (i = p.vmnetIf \/ i \in Bridges)
checkPodNATInterface(p, i) == checkVMNetInterface(p, i) \/ checkMeshInterface(p, i)
checkAnchor(p, a)          == p.anchor # NoName /\ a = p.anchor

lintBinatRule(p, r) == ipInSet(r.vm, p.vmnetCIDRs) /\ ipInSet(r.pod, p.podCIDRs)

lintRDRRule(p, r) ==
  /\ r.proto \in {"tcp", "udp"}
  /\ r.targets # {}
  /\ \A t \in r.targets : ipInSet(t, p.podCIDRs) \/ ipInSet(t, p.vmnetCIDRs)

\* One bad rule refuses the whole ruleset.
lintAnchorRuleset(p, rules) ==
  /\ p.vmnetIf # NoName
  /\ \A r \in rules :
       \/ r.kind = "binat" /\ checkPodNATInterface(p, r.iface) /\ lintBinatRule(p, r)
       \/ r.kind = "rdr" /\ checkVMNetInterface(p, r.iface) /\ lintRDRRule(p, r)

lintWireGuardConfig(p, peers) ==
  \A q \in peers : q.key \in p.peerKeys /\ AllowedIPs(q) \subseteq p.routeCIDRs

validateSysctl(p, r) == r.op = "ostype" \/ (r.op = "forwarding" /\ p.vmnetIf # NoName)

validatePfctl(p, r) ==
  \/ r.op = "enable"
  \/ r.op = "flush" /\ checkAnchor(p, r.anchor)
  \/ r.op = "load" /\ checkAnchor(p, r.anchor) /\ lintAnchorRuleset(p, r.rules)

validateRoute(p, r) ==
  \/ r.op = "get" /\ ipInSet(r.ip, p.vmnetCIDRs)
  \/ r.op = "deleteDefault" /\ checkVMNetInterface(p, r.iface)
  \/ r.op \in {"add", "delete"} /\ checkMeshInterface(p, r.iface) /\ r.cidr \in p.routeCIDRs

validateIfconfig(p, r) ==
  /\ checkMeshInterface(p, r.iface)
  /\ \/ r.op = "alias" /\ p.meshAddr # NoName /\ r.addr = p.meshAddr
     \/ r.op = "mtu" /\ r.mtu > 0 /\ p.mtu \in {0, r.mtu}
     \/ r.op \in {"up", "down", "destroy"}

validateWG(p, r) ==
  r.op \in {"setconf", "syncconf"} /\ checkMeshInterface(p, r.iface) /\ lintWireGuardConfig(p, r.peers)

Validate(p, r) ==
  CASE r.name = "sysctl"   -> validateSysctl(p, r)
    [] r.name = "pfctl"    -> validatePfctl(p, r)
    [] r.name = "route"    -> validateRoute(p, r)
    [] r.name = "ifconfig" -> validateIfconfig(p, r)
    [] r.name = "wg"       -> validateWG(p, r)
    [] r.name \in {"wireguard-go", "pkill"} -> checkMeshInterface(p, r.iface)
    [] OTHER -> FALSE

\* handleExec: NoPolicy is a helper started without a config.
NoPolicy == [vmnetIf |-> NoName]
Permits(p, r) == r.name \in allowedCommands /\ (p = NoPolicy \/ Validate(p, r))
=============================================================================
