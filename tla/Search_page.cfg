SPECIFICATION Spec
CONSTANTS
  Comics <- ThreeComics
  Tokens <- FewTokens
  StopWords <- StopOnly
  StemOf <- Stemming
  Description <- Descriptions
  LimitTexts <- TypedLimits
  DefaultLimit = 2
  Faults = TRUE
INVARIANT TypeOK
INVARIANT BestMatchesShown
INVARIANT FoundByItsWords
INVARIANT WebNeverRefused
INVARIANT NothingMeansNothing
