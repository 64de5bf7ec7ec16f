SPECIFICATION Spec
CONSTANTS
  root = root
  list = list
  panel = panel
  label = label
  menu = menu
  Nobody = Nobody
  Views = {root, list, panel, label, menu}
  Root = root
  Cached = {panel, label}
  Children <- Tree
  Reads <- RootReads
  Changing = {root, label}
  Focusable = {}
  Animated = {}
  MaxInterruptions = 0
INVARIANTS
  NotifiedIsDrawn
