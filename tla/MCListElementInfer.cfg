SPECIFICATION ListSpec
CONSTANTS
  wide = wide narrow = narrow min = min
  Rows = {1, 2, 3, 4, 5} FocusableRows = {5} Widths = {wide} MinWidth = min
  Kinds <- InferredList
  Heights = {4} Overdraw = 10 PadTop = 0 PadBottom = 0
  RowHeight <- HighWhenWide Deltas = {} MaxOffset = 4 ScrollOffsets = {0} MaxSplice = 1
  MaxDelta = 0 MaxCalls = 2 Requests <- CursorAtEnd
  NoRow = 0 NoOffset = NoOffset NotYet = NotYet
INVARIANT AutoscrollServed
