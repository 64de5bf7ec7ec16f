SPECIFICATION Spec
CONSTANTS
  j = j
  k = k
  pane = pane
  workspace = workspace
  Nobody = Nobody
  Keys = {j, k}
  Focuses = {pane, workspace}
  Keymaps <- DisabledOutside
  ContextsOf <- Contexts
  MaxTyped = 2
  MaxDepth = 1
INVARIANT DisabledByPrecedence
CHECK_DEADLOCK FALSE
