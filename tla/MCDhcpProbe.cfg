\* Three probes at a time, a DHCP server whose address looks like an option.
CONSTANTS
  Probes = {r1, r2, r3}
  Servers = {54}
  Nobody = Nobody
  None = None
SPECIFICATION FairSpec
INVARIANTS
  OffersAnswerTheProbe
  RunningMeansProbing
  ResultIsRecent
PROPERTIES
  ProbesAreReported
CHECK_DEADLOCK FALSE
