SPECIFICATION Spec
CONSTANTS
  c1 = c1
  c2 = c2
  c3 = c3
  home = home
  resume = resume
  NoConn = NoConn
  Never = Never
  Conns <- MCConns
  Urls <- MCUrls
  Home = home
  Resume = resume
  Keepalives <- MCKeepalives
  WelcomeSecs = 0
  HandoverSecs = 0
  StaleSlack = 0
  SubCount = 2
  MaxAlerts = 1
  MaxAsks = 1
  MaxInbox = 1
  MaxPresses = 2
PROPERTY HandoverKept
CHECK_DEADLOCK FALSE
