SPECIFICATION FairSpec
CONSTANTS
  Processes = {"p1"}
  Secrets = {"s1", "s2"}
  History <- TwoSpecs
  Wants <- WantsBoth
  Service <- KafkaThenValkey
  Expiring = FALSE
  Changes = {"touch", "clear hash", "delete secret"}
  MaxChanges = 1
  Faults = {"aiven", "kube", "credstore", "crash"}
  MaxFaults = 1
INVARIANTS SynchronizedMeansSaved SyncedSecretsMatchSpec
PROPERTIES DeletedSecretsGo GenerationsAreSynchronized
