\* Two hosts, their requests in flight at once, but one per host.
CONSTANTS
  Hosts = {m1, m2}
  NoHost = NoHost
  Profiles = {p1}
  NoProfile = NoProfile
  Names = {n1}
  NoName = NoName
  Unset = Unset
  Bootable = {p1}
  Playbooks = {p1}
  UnattendedAutoEnroll = TRUE
  FirstProfile = p1
  PinnedProfile = NoProfile
  AssetStatuses = {"ACTIVE"}
  MaxOps = 1
  Workers = {w1, w2}
  Overlap = FALSE
SPECIFICATION RequestSpec
PROPERTIES
  ImplementsSerial
SYMMETRY WorkerSymmetry
