SPECIFICATION Spec
CONSTANTS
  root = root
  list = list
  panel = panel
  label = label
  menu = menu
  Nobody = Nobody
  Views = {root, list, panel, label, menu}
  Root = root
  Cached = {panel, menu}
  Children <- Tree
  Reads <- SomeReads
  Changing = {root, panel}
  Focusable = {}
  Animated = {}
  MaxInterruptions = 0
INVARIANTS
  FrameWhole
