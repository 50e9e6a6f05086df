\* One machine that keeps going with unattended enrolment on, three operator
\* requests in any order.
CONSTANTS
  Hosts = {m1}
  NoHost = NoHost
  Profiles = {p1, p2}
  NoProfile = NoProfile
  Names = {}
  NoName = NoName
  Unset = Unset
  Bootable = {p1}
  Playbooks = {p1}
  UnattendedAutoEnroll = TRUE
  FirstProfile = p1
  PinnedProfile = NoProfile
  AssetStatuses = {"ACTIVE"}
  MaxOps = 3
SPECIFICATION FairSpec
INVARIANTS
  ServedTokenIsInstalling
  OneRecordPerToken
  CurrentRecordIsOpen
  OneRunPerToken
  RunsFollowInstalls
PROPERTIES
  FinishedStaysFinished
  ChosenProfileIsKept
  CallbackClosesOwnRecord
  InstallEnds
  PendingIsEnrolled
