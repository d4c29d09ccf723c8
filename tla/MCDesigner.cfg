CONSTANTS
  d1 = d1  d2 = d2  e1 = e1  e2 = e2
  Devices <- MCDevices
  NPorts = 2
  ConfigEdits <- MCConfigEdits
  HistoryLimit = 2
  RowLimit = 1
  MaxEdits = 3
  MaxSaves = 2
  None = None
  i1 = i1  i2 = i2  wide = wide  narrow = narrow  other = other  n1 = n1
  Interfaces <- MCInterfaces
  Subnets <- MCSubnets
  Overlaps <- MCOverlaps
  MaxVlan = 2
  Names <- MCNames
  MaxChanges = 3
  Unset = Unset
SPECIFICATION DesignerSpec
CONSTRAINT Bounded
SYMMETRY Alike
INVARIANTS DocumentsValid OneUndoOneEdit CleanMeansStored ObjectExists SubnetsApart
PROPERTIES ConfigSurvives
CHECK_DEADLOCK FALSE
