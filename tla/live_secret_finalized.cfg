SPECIFICATION Spec
CONSTANTS
  Processes = {"p1"}
  Secrets = {"s1"}
  History <- OneSpec
  Wants <- WantsOne
  Service <- KafkaThenValkey
  Expiring = FALSE
  Changes = {"clear hash", "delete secret"}
  MaxChanges = 3
  Faults = {"kube"}
  MaxFaults = 1
INVARIANT LiveSecretsAreFinalized
