SPECIFICATION Spec
CONSTANTS
  Kinds = {"doc", "mem", "cap"}
  Calls <- ThreeCalls
  Keys <- TwoKeys
  Texts = {"plain", "sortable"}
  Like <- OneWildcard
  Stripped <- OneSortable
  None = None
  Limit = 2
  Files <- SomeFiles
  MaxBusy = 2
  p1 = p1 p2 = p2 p3 = p3 k1 = k1 k2 = k2
SYMMETRY Symmetry
INVARIANTS OrphansOnlyByRace RowsAreFound OneOfEach
 
CHECK_DEADLOCK FALSE
