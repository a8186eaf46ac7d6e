SPECIFICATION Spec
CONSTANTS
  u1 = u1
  u2 = u2
  d1 = d1
  w1 = w1
  w2 = w2
  Updates <- TwoUpdates
  Drops <- OneDrop
  Workers <- TwoWorkers
  MaxComic = 4
  Missing <- MissingComics
  Placeholder = 2
  Hazards <- AllHazards
SYMMETRY Symmetry
INVARIANT TypeOK
INVARIANT Exclusion
INVARIANT IdleMeansQuiet
INVARIANT SuccessIsComplete
INVARIANT Bookkeeping
INVARIANT OneComicPerError
PROPERTY EventsTruthful
PROPERTY ImplementsCatalogue
CHECK_DEADLOCK FALSE
