SPECIFICATION Spec
CONSTANTS
  none = none
  nofile = nofile
  mine = mine
  lost = lost
  None = none
  NoFile = nofile
  Keys <- MCKeys
  Readable <- MCReadable
  Effects <- MCEffects
  Packs <- MCPacks
  Versions <- MCVersions
  Manifest <- MCManifest
  InstanceKind = "source"
  DefaultPack = "ember"
  DefaultPreset = "flame"
  Values <- MCValues
  SavedKeys <- MCSavedKeys
  MaxChanges = 1
INVARIANT BlockedDrawsNothing
CHECK_DEADLOCK FALSE
