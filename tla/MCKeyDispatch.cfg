SPECIFICATION Spec
CONSTANTS
  j = j
  k = k
  pane = pane
  workspace = workspace
  Nobody = Nobody
  Keys = {j, k}
  Focuses = {pane, workspace}
  Keymaps <- SomeKeymaps
  ContextsOf <- Contexts
  MaxTyped = 3
  MaxDepth = 2
INVARIANTS
  KeysDealtWith
  BoundOnesTimeOut
  ShownIsPending
\* The keystrokes run out.
CHECK_DEADLOCK FALSE
