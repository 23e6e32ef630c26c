SPECIFICATION Spec
CONSTANTS
  ember = ember
  v1 = v1
  v2 = v2
  broken = broken
  linked = linked
  None = None
  Processes = {n1, n2}
  Pids = {p1, p2}
  Manifest = "manifest"
  Files <- MCFiles
  Ids <- MCIds
  Zips <- MCZips
  IdOf <- MCIdOf
  Listing <- MCListing
  Valid <- MCValid
SYMMETRY Symmetry
INVARIANTS DestIsWhole
PROPERTIES IsShelf
CHECK_DEADLOCK FALSE
