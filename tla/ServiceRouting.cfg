SPECIFICATION FairSpec
CONSTANTS
  VMNetIf = "bridge100"
  Bridges = {}
  MeshIf = "utun7"
  MeshAddr = "ma"
  DefaultVMNet <- MCVMNet
  Pods = {"p"}
  Services = {"s"}
  PodIPs <- MCPodIPs
  VMIPs <- MCVMIPs
  ServiceRules <- MCServiceRules
  Workers = 2
  Objects <- MCObjects
  SliceLists <- MCSliceLists
  PeerSets <- MCPeerSets
  Peered = "one"
  Configs <- MCOneConfig
  MaxFaults = 1
  MaxEdits = 0
  MaxChurn = 2
INVARIANTS AnchorCurrent ServicesSettled NothingPoisons StoppedClean
PROPERTIES  ServicesConverge
CHECK_DEADLOCK FALSE
