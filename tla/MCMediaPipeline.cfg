\* Three imports of one release, one after the other or at the same time.
CONSTANTS
  Imports = {j1, j2, j3}
  Nobody = Nobody
SPECIFICATION Spec
PROPERTIES
  KnownReleasesAreWhole
  RecordedDigestIsServed
  CompleteDownloadsStay
  OnlyEarlyLooksDamage
SYMMETRY Symmetry
CHECK_DEADLOCK FALSE
