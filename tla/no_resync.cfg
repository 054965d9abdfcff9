SPECIFICATION FairSpec
CONSTANTS
  Processes = {"p1"}
  Secrets = {"s1"}
  History <- OneSpec
  Wants <- WantsOne
  Service <- KafkaThenValkey
  Expiring = TRUE
  Changes = {}
  MaxChanges = 0
  Faults = {}
  MaxFaults = 0
PROPERTY ExpiredAppsGo
