SPECIFICATION PointerSpec
CONSTANTS
  N = 2 Positions = {0, 1} Threshold = 0 Scenes <- SomeScenes
  Clickable = {1, 2} Draggable = {2} StopsClick = {2} Droppable <- Drops Refuses = {2}
  Focusable = {2} Styled = {1, 2} Occluding = {} Tipped = {2} TipArea <- Tips
  Files = Files None = None
INVARIANT HoverFollowsMouse
