SPECIFICATION FairSpec
CONSTANTS
  MaxPayload = 2
  Room = 2
  Header <- MCHeader
  ResponseSize = 2
  ResponseBuf = 4
  MaxSpins = 2
  SendSize = 2
  MaxIdle = 1
  MaxFrames = 3
INVARIANTS TypeOK NeverFullAndWaiting OneGoodbye
PROPERTIES InOrderAndWhole EveryItemHandled
CHECK_DEADLOCK FALSE
