SPECIFICATION ListSpec
CONSTANTS
  wide = wide narrow = narrow min = min
  Rows = {1, 2, 3} FocusableRows = {1} Widths = {wide} MinWidth = min
  Kinds <- PlainList
  Heights = {2} Overdraw = 0 PadTop = 0 PadBottom = 1
  RowHeight <- Ones Deltas = {} MaxOffset = 2 ScrollOffsets = {0} MaxSplice = 1
  MaxDelta = 0 MaxCalls = 3 Requests = {}
  NoRow = 0 NoOffset = NoOffset NotYet = NotYet
INVARIANT FocusedAside
