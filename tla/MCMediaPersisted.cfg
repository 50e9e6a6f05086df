\* An import whose last flush fails.
CONSTANTS
  Imports = {j1}
  Images = {i1}
  NoImage = NoImage
  Threads = 2
SPECIFICATION Spec
INVARIANTS
  ErrorsArePersisted
