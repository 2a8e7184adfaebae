SPECIFICATION FairSpec
CONSTANTS
  Settings <- ThreeSettings
  IP_START = 15
  NUM_CONTROL_NODES = 2
  NUM_WORKER_NODES = 1
  MaxClusters = 2
INVARIANTS
  SharedFilesAgree
  KubeconfigIsOfItsCluster
  OneCluster
PROPERTIES
  UpReturns
