SPECIFICATION Spec
CONSTANTS
  c1 = c1
  c2 = c2
  c3 = c3
  home = home
  resume = resume
  NoConn = NoConn
  Never = Never
  Conns <- MCConns
  Urls <- MCUrls
  Home = home
  Resume = resume
  Keepalives <- MCKeepalives
  WelcomeSecs = 0
  HandoverSecs = 0
  StaleSlack = 0
  SubCount = 2
  MaxAlerts = 2
  MaxAsks = 2
  MaxInbox = 2
  MaxPresses = 1
INVARIANTS AlertsOnceInOrder NoSocketLeft SubscribesOnce
CHECK_DEADLOCK FALSE
