--------------------------- MODULE MCNodeNetwork ---------------------------
(***************************************************************************)
(* One node with two possible peers: a Pod network, one Service whose      *)
(* endpoints are on this node, behind a peer and the API server's host     *)
(* address, and config files that add and drop a peer, disable the mesh or *)
(* do not validate.                                                        *)
(***************************************************************************)
EXTENDS NodeNetwork

CONSTANTS Peered   \* the peer sets a mesh config may have

LocalCIDR == {"l1", "l2"}
peerA == [key |-> "A", podCIDR |-> {"a1"}, addr |-> NoCIDR]
peerB == [key |-> "B", podCIDR |-> {"b1"}, addr |-> {"mb"}]

Config(mesh, ps, local) ==
  [podCIDR |-> local, vmnet |-> {}, podNetwork |-> TRUE, mesh |-> mesh, mtu |-> 1280, peers |-> ps]

MCPeerSets == CASE Peered = "both" -> {{peerA}, {peerB}, {peerA, peerB}}
                [] Peered = "one"  -> {{peerA}, {peerA, peerB}}
MCConfigs ==
  {Config(TRUE, ps, LocalCIDR) : ps \in MCPeerSets}
    \cup {Config(FALSE, {peerA}, LocalCIDR), Config(TRUE, {peerA}, NoCIDR)}

MCOneConfig == {Config(TRUE, {peerA, peerB}, LocalCIDR)}

MCVMNet   == {"v1", "v2"}
MCPodIPs  == {"l1"}
MCVMIPs   == {"v1", "v2"}

\* A Service, and the same made headless.
MCObjects ==
  {[type |-> "ClusterIP", ip |-> "vip", ports |-> {[name |-> "http", proto |-> "TCP", port |-> 80]}],
   [type |-> "ClusterIP", ip |-> "None", ports |-> {[name |-> "http", proto |-> "TCP", port |-> 80]}]}

Slice(ips) == [v4 |-> TRUE, ports |-> {[name |-> "http", port |-> 8080]},
               eps |-> {[ready |-> "true", terminating |-> "nil", addrs |-> ips]}]
MCSliceLists == {<< >>, <<Slice({"l1", "b1", "api"})>>}

MCServiceRules ==
  [vip : {"vip"}, proto : {"tcp"}, port : {80}, tport : {8080},
   backends : {{"l1"}, {"l1", "b1"}, {"l1", "b1", "api"}}]
=============================================================================
