SPECIFICATION Spec
CONSTANTS
  Jobs = {"A", "B"}
  Serial = {}
  NRank <- Pair2
  Hosts <- Hosts2
  HostOf <- HostOf3
  NTags = 1
  MaxFail = 0
INVARIANTS OneWriter
