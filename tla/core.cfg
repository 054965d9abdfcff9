SPECIFICATION Spec
CONSTANTS
  Processes = {"p1"}
  Secrets = {"s1"}
  History <- TwoSpecs
  Wants <- WantsOne
  Service <- KafkaThenValkey
  Expiring = TRUE
  Changes = {"touch", "clear hash", "delete secret", "delete app"}
  MaxChanges = 2
  Faults = {"aiven", "unrecoverable", "credstore", "kube", "status", "crash", "lag"}
  MaxFaults = 1
INVARIANTS TypeOK SynchronizedMeansSaved SyncedSecretsMatchSpec
PROPERTIES CleanedBeforeRemoved RedeployIsNotLost CredentialsAreKept
