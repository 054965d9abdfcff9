SPECIFICATION FairSpec
CONSTANTS
  Processes = {"p1"}
  Apps = {"a1"}
  MaxGen = 2
  KindsHere <- AllKinds
  Changes = {"deploy", "redeploy", "delete", "gone"}
  MaxChanges = 2
  Faults = {"aiven", "refused", "keystores", "kube", "status", "crash"}
  MaxFaults = 1
INVARIANTS TypeOK GivenUpForGoodReason ValkeyUsersAreUpdated
PROPERTIES GoneSecretsLeaveNoUser DeploymentsEnd 
