SPECIFICATION Spec
CONSTANTS
  none = none
  nofile = nofile
  mine = mine
  lost = lost
  None = none
  NoFile = nofile
  Keys <- MCKeys
  Readable <- MCReadable
  Effects <- MCEffects
  Packs <- MCPacks
  Versions <- MCVersions
  Manifest <- MCManifest
  InstanceKind = "source"
  DefaultPack = "ember"
  DefaultPreset = "flame"
  Values <- MCValues
  SavedKeys <- MCSavedKeys
  MaxChanges = 3
INVARIANTS TypeOK UpdateIsRebuild PanelShowsWhatIsDrawn KeysGoWithTheSwitch  StackInOrder PaidIsEntitled
PROPERTIES ReloadHappens
CHECK_DEADLOCK FALSE
