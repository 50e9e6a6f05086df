\* Two imports at a time, of an image of each kind and of the boot loaders.
CONSTANTS
  Imports = {j1, j2}
  Rhel = {rhel}
  Debian = {debian}
  Windows = {w1, w2}
  Isos = {iso}
  Root = Root
  Releases = {r1, r2}
  Absent = Absent
  Partial = Partial
SPECIFICATION Spec
INVARIANTS
  ImagesHaveFiles
  ManifestMeansLoaders
  RecordsAreTrue
  UnpackedImagesFit
SYMMETRY Symmetry
CHECK_DEADLOCK FALSE
