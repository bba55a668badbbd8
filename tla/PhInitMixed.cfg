SPECIFICATION Spec
CONSTANTS
  Jobs = {"A", "S", "M"}
  Serial = {"S"}
  NRank <- Mixed
  Hosts <- Hosts2
  HostOf <- HostOf3
  NTags = 2
  MaxFail = 1
INVARIANTS TypeOK OneOwner InitComplete Undisturbed
PROPERTIES InitEnds
