SPECIFICATION LateSpec
CONSTANTS
  u1 = u1
  u2 = u2
  d1 = d1
  w1 = w1
  w2 = w2
  Updates <- TwoUpdates
  Drops <- OneDrop
  Workers <- TwoWorkers
  MaxComic = 2
  Missing <- MissingComics
  Placeholder = 2
  Hazards <- Faults
INVARIANT SuccessUnlessTruncated
INVARIANT CollisionsExplained
PROPERTY LateEventsTruthful
PROPERTY IdleAfterUpdate
