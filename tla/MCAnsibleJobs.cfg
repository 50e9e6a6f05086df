\* Two runs that share one thread; profiles are edited and deleted, the process restarts.
CONSTANTS
  Runs = {r1, r2}
  Hosts = {m1}
  Profiles = {p1, p2}
  NoProfile = NoProfile
  NoConfig = NoConfig
  Playbooks = {b1, b2}
  Present = {b1}
  Addressable = {m1}
  EnforceForeignKeys = FALSE
  Threads = 1
SPECIFICATION FairSpec
PROPERTIES
  ImplementsJob
  DeletedProfilesRunNothing
  RunsEnd
