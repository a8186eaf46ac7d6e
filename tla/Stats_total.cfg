SPECIFICATION Spec
CONSTANTS
  u1 = u1
  d1 = d1
  a = a
  b = b
  Updates <- OneUpdate
  Drops <- OneDrop
  MaxComic = 3
  Absent <- NoComics
  Words <- TwoWords
  WordsOf <- SharedWords
  MaxEvents = 1
PROPERTY TotalIsXkcds
