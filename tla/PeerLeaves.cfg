SPECIFICATION Spec
CONSTANTS
  VMNetIf = "bridge100"
  Bridges = {}
  MeshIf = "utun7"
  MeshAddr = "ma"
  DefaultVMNet <- MCVMNet
  Pods = {}
  Services = {}
  PodIPs <- MCPodIPs
  VMIPs <- MCVMIPs
  ServiceRules <- MCServiceRules
  Workers = 2
  Objects <- MCObjects
  SliceLists <- MCSliceLists
  PeerSets <- MCPeerSets
  Peered = "both"
  Configs <- MCConfigs
  MaxFaults = 0
  MaxEdits = 2
  MaxChurn = 0
INVARIANT PeerRouteRemoved

CHECK_DEADLOCK FALSE
