SPECIFICATION ListSpec
CONSTANTS
  wide = wide narrow = narrow min = min
  Rows = {1, 2, 3} FocusableRows = {3} Widths = {wide, narrow} MinWidth = min
  Kinds <- Lists
  Heights = {3} Overdraw = 1 PadTop = 1 PadBottom = 0
  RowHeight <- Heights_ Deltas <- MinusPlus MaxOffset = 4 ScrollOffsets = {0, 1} MaxSplice = 1
  MaxDelta = 2 MaxCalls = 2 Requests <- Cursor
  NoRow = 0 NoOffset = NoOffset NotYet = NotYet
INVARIANT RangeAfterScroll
