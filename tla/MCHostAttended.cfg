\* Two machines that may share a hostname, and the asset table they share;
\* without unattended enrolment only operators make them installable.
CONSTANTS
  Hosts = {m1, m2}
  NoHost = NoHost
  Profiles = {p1, p2}
  NoProfile = NoProfile
  Names = {n1}
  NoName = NoName
  Unset = Unset
  Bootable = {p1}
  Playbooks = {p1}
  UnattendedAutoEnroll = FALSE
  FirstProfile = p1
  PinnedProfile = NoProfile
  AssetStatuses = {"ACTIVE", "RETIRED"}
  MaxOps = 2
SPECIFICATION Spec
PROPERTIES
  OperatorsDecide
  AssetsOfOthersAreKept
SYMMETRY Symmetry
