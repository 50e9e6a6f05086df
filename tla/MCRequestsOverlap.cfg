\* Two requests about one host in flight at once.
CONSTANTS
  Hosts = {m1}
  NoHost = NoHost
  Profiles = {p1}
  NoProfile = NoProfile
  Names = {n1}
  NoName = NoName
  Unset = Unset
  Bootable = {p1}
  Playbooks = {}
  UnattendedAutoEnroll = TRUE
  FirstProfile = p1
  PinnedProfile = NoProfile
  AssetStatuses = {"ACTIVE"}
  MaxOps = 1
  Workers = {w1, w2}
  Overlap = TRUE
SPECIFICATION RequestSpec
INVARIANTS
  ServedTokenIsInstalling
PROPERTIES
  RetiredTokensStayRetired
  HostnameEditsSurvive
  OnlyStaleRequestsReopen
SYMMETRY WorkerSymmetry
