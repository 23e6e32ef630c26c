SPECIFICATION FairSpec
CONSTANTS
  follow = follow
  raid = raid
  packA = packA
  packB = packB
  hop = hop
  burst = burst
  chime = chime
  horn = horn
  NoEvent = NoEvent
  Unset = Unset
  worker = worker
  ui = ui
  Kinds <- MCKinds
  Events <- MCEvents
  Settings <- MCSettings
  StartSettings <- Usual
  AlertPresets <- MCAlertPresets
  QueueMax = 2
INVARIANTS ArtIsWanted SilentWhenIdle LockOutlivesCallers
PROPERTIES IsFifo EveryAlertLeaves
CHECK_DEADLOCK FALSE
