CONSTANTS
  LoadsOnce = TRUE
SPECIFICATION FairLightSpec
INVARIANTS RestIsTrue
PROPERTIES LastingStateIsShown
