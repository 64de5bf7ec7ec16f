\* A replay can change the tab order: the history keeps a clone, which says what the entry says,
\* and not what its node was ordered by (TabStopMap::insert, FocusHandle::tab_index).
SPECIFICATION FocusSpec
CONSTANTS
  h1 = h1 h2 = h2 h3 = h3 Handles = {h1, h2, h3} Indexes = {0} Tabs <- SomeTabs Retabs <- NewTabs
  Lasting = {h2, h3} MaxHeld <- HeldOf MaxRetabs = 1 MaxOps = 4 NoFocus = NoFocus
PROPERTIES
  ReplayChangesNothing
