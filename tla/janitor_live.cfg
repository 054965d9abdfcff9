SPECIFICATION FairSpec
CONSTANTS
  Secrets = {"s1"}
  Apps = {"app", "other"}
  Owner <- OneOwner
  Kinds <- TwoKinds
  Makers <- AllMakers
  Shapes <- Volumes
  MaxFaults = 1
PROPERTIES UnusedSecretsGo ReconcilesGoOn
