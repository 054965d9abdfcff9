SPECIFICATION Spec
CONSTANTS
  Processes = {"p1"}
  Secrets = {"s1"}
  History <- Reverted
  Wants <- WantsOne
  Service <- KafkaThenValkey
  Expiring = FALSE
  Changes = {}
  MaxChanges = 0
  Faults = {}
  MaxFaults = 0
INVARIANT SyncedSecretsMatchSpec
