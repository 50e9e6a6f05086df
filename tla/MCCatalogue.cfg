\* Two requests at once about two images, three profiles and a host.
CONSTANTS
  Images = {i1, i2}
  NoImage = NoImage
  Hosts = {m1}
  MaxProfiles = 3
  Workers = {w1, w2}
SPECIFICATION Spec
INVARIANTS
  ReferencesResolve
PROPERTIES
  ImagesInUseStay
SYMMETRY Symmetry
