SPECIFICATION Spec
CONSTANTS
  Secrets = {"s1"}
  Apps = {"app"}
  Owner <- OneOwner
  Kinds <- FourKinds
  Makers <- AllMakers
  Shapes <- Volumes
  MaxFaults = 1
INVARIANT TypeOK
PROPERTIES HeldSecretsStay 
