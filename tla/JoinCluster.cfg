SPECIFICATION Spec
CONSTANTS
  h1 = h1
  h2 = h2
  h3 = h3
  Host = {h1, h2, h3}
  NoHost = NoHost
  connectList <- Lists
  MaxID = 5
  MaxBoots = 5
  MaxFaults = 1
INVARIANT RouterTypeOK
INVARIANT IdsDiffer
INVARIANT RoutesLead
INVARIANT Meshed
 
CHECK_DEADLOCK FALSE
