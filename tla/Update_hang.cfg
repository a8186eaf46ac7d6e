SPECIFICATION FairSpec
CONSTANTS
  u1 = u1
  u2 = u2
  d1 = d1
  w1 = w1
  w2 = w2
  Updates <- OneUpdate
  Drops <- NoDrops
  Workers <- OneWorker
  MaxComic = 3
  Missing <- MissingComics
  Placeholder = 404
  Hazards <- FaultsOnly
PROPERTY IdleAfterUpdate
CHECK_DEADLOCK FALSE
