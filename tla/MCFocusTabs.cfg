SPECIFICATION FocusSpec
CONSTANTS
  h1 = h1 h2 = h2 h3 = h3 Handles = {h1, h2, h3} Indexes = {0} Tabs <- SomeTabs Retabs <- NewTabs
  Lasting = {h2, h3} MaxHeld <- HeldOf MaxRetabs = 1 MaxOps = 4 NoFocus = NoFocus
INVARIANTS
  HandlesAreCounted
  FocusExists
  TabGoesRound
PROPERTIES
  ReplayKeepsOrder
