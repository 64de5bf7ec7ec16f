SPECIFICATION Spec
CONSTANTS
  root = root
  list = list
  panel = panel
  label = label
  menu = menu
  Nobody = Nobody
  Views = {root, list, panel, label, menu}
  Root = root
  Cached = {panel, label}
  Children <- Tree
  Reads <- SomeReads
  Changing = {root, label}
  Focusable = {label}
  Animated = {menu}
  MaxInterruptions = 1
INVARIANTS
  FrameSound
  NotifiedIsDrawn
  NotificationsKept
  FocusIsTold
