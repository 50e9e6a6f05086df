\* Three imports, two threads, one image.
CONSTANTS
  Imports = {j1, j2, j3}
  Images = {i1}
  NoImage = NoImage
  Threads = 2
SPECIFICATION FairSpec
INVARIANTS
  ProfilesHaveImages
PROPERTIES
  ImplementsJob
  ImportsEnd
