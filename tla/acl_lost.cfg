SPECIFICATION Spec
CONSTANTS
  Processes = {"p1"}
  Apps = {"a1", "a2"}
  MaxGen = 1
  KindsHere = {"opensearch"}
  Changes = {}
  MaxChanges = 0
  Faults = {}
  MaxFaults = 0
INVARIANT SyncedSecretsHaveAccess
