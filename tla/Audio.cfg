SPECIFICATION FairSpec
CONSTANTS
  mic = mic
  deck = deck
  text = text
  Master = Master
  None = None
  NoName = NoName
  one = one
  two = two
  Srcs <- MCSrcs
  Names <- MCNames
  HasAudio <- MCHasAudio
  MaxRenames = 2
INVARIANTS AtMostOneFeed SaysWhatItHears NobodyInside
PROPERTIES CallsReturn AppearingIsFollowed
CHECK_DEADLOCK FALSE
