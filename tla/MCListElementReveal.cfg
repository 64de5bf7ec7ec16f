SPECIFICATION ListSpec
CONSTANTS
  wide = wide narrow = narrow min = min
  Rows = {1, 2, 3, 4, 5} FocusableRows = {} Widths = {wide} MinWidth = min
  Kinds <- PlainList
  Heights = {2} Overdraw = 10 PadTop = 0 PadBottom = 0
  RowHeight <- Ones Deltas = {} MaxOffset = 2 ScrollOffsets = {2} MaxSplice = 0
  MaxDelta = 0 MaxCalls = 2 Requests = {}
  NoRow = 0 NoOffset = NoOffset NotYet = NotYet
PROPERTY RevealedFromAnywhere
