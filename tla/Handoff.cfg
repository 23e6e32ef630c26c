SPECIFICATION FairAudioSpec
CONSTANTS
  bands = bands
  level = level
  render = render
  mic = mic
  one = one
  Words <- MCWords
  Readers <- MCReaders
  MaxTries = 2
  W = 8
  StoresInOrder = TRUE
  MaxSeq = 10
  Srcs <- MCSrcs
  Names <- MCNames
  HasAudio <- MCHasAudio
  Master = Master
  None = None
  NoName = NoName
  MaxRenames = 0
INVARIANTS NoTornFrame CopyIsNewest
PROPERTIES FrameNeverGoesBack ReadReturns ReadBounded OneWriter
CHECK_DEADLOCK FALSE
