SPECIFICATION FairSpec
CONSTANTS
  u1 = u1
  u2 = u2
  d1 = d1
  w1 = w1
  w2 = w2
  Updates <- TwoUpdates
  Drops <- OneDrop
  Workers <- OneWorker
  MaxComic = 4
  Missing <- MissingComics
  Placeholder = 2
  Hazards <- NoHazards
PROPERTY UpdateSucceeds
