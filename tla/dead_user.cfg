SPECIFICATION Spec
CONSTANTS
  Processes = {"p1"}
  Apps = {"a1"}
  MaxGen = 1
  KindsHere = {"kafka"}
  Changes = {}
  MaxChanges = 0
  Faults = {"keystores"}
  MaxFaults = 1
INVARIANT SyncedSecretsHaveUsers
