-------------------------------- MODULE Pointer --------------------------------
(* What the mouse does to the interactive elements of a window: clicks, active *)
(* state, drag and drop, and tooltips (elements/div.rs, dispatch_mouse_event   *)
(* of window.rs).                                                              *)
(*                                                                             *)
(* The listeners of a frame are the ones that its paint registered, and what   *)
(* an element knows across frames is kept by its id as long as it is drawn.    *)
(* Events come in between two frames, several of them in some cases, and work  *)
(* on elements that the next frame hides, moves or drops. An element is named  *)
(* by its place in the order of painting, so that a higher one is in front.    *)
EXTENDS Integers, FiniteSets

CONSTANTS
  N,             \* elements, numbered in the order they are painted
  Positions,     \* of the mouse, on a line
  Threshold,     \* DRAG_THRESHOLD
  Scenes,        \* what the client can draw: the elements that are shown, those that are
                 \* drawn with Visibility::Hidden, the area of each, and the elements whose
                 \* tooltip is hoverable
  Clickable, Draggable,
  StopsClick,    \* elements whose on_click calls stop_propagation
  Droppable,     \* per element the dragged values whose type it has an on_drop for
  Refuses,       \* elements whose can_drop says no
  Focusable,     \* elements that track a focus handle
  Styled,        \* elements with a hover style
  Occluding,     \* elements with HitboxBehavior::BlockMouse or BlockMouseExceptScroll
  Tipped,        \* elements with a tooltip
  TipArea,       \* [Positions -> SUBSET Positions]: where a tooltip is that was shown there
  Files,         \* the value of a drag from outside the window
  None

Elements == 1..N
Values == Elements \cup {Files}

ASSUME PointerAssumption ==
  /\ N \in Nat /\ Positions \subseteq Int /\ Threshold \in Nat
  /\ Scenes \subseteq [shown : SUBSET Elements, hidden : SUBSET Elements,
                     area : [Elements -> SUBSET Positions], hoverable : SUBSET Tipped]
  /\ \A s \in Scenes : s.shown \cap s.hidden = {}
  /\ UNION {Clickable, Draggable, StopsClick, Refuses, Focusable, Styled, Occluding, Tipped}
       \subseteq Elements
  /\ StopsClick \subseteq Clickable
  /\ Droppable \in [Elements -> SUBSET Values]
  /\ TipArea \in [Positions -> SUBSET Positions]
  /\ {None, Files} \cap (Positions \cup Elements) = {} /\ None # Files

VARIABLES
  scene,     \* what the client wants drawn
  dirty,     \* the window needs a frame
  pos,       \* Window::mouse_position
  buttons,   \* that the user holds
  hit,       \* Window::mouse_hit_test: the hovered elements
  frame,     \* the rendered frame: its scene, and what its listeners captured (see Paint)
  pending,   \* per element pending_mouse_down: where, or None
  clicked,   \* the elements whose clicked_state is set
  focused,   \* Window::focus
  drag,      \* App::active_drag
  tip,       \* per element active_tooltip
  tooltip,   \* Window::tooltip_bounds: the element whose tooltip is drawn
  outside,   \* whether the user drags files in from outside
  owed,      \* history: elements pressed, their press not released nor turned to a drag; nor
             \* painted under another's drag
  due,       \* history: elements released over, in this frame, with no click yet
  missed,    \* history: elements that did not hear the release of their press
  ghosts,    \* history: elements that clicked without being due
  leftOver,  \* history: a drag ended, in this frame, by a refused drop or outside the window
  jumped     \* history: since the last move or frame, an event that is no move came from
             \* elsewhere than where the mouse was

pvars == <<scene, dirty, pos, buttons, hit, frame, pending, clicked, focused, drag, tip,
           tooltip, outside, owed, due, missed, ghosts, leftOver, jumped>>

------------------------------------------------------------------------------
(* Frames.                                                                     *)

Greatest(S) == CHOOSE e \in S : \A d \in S : d <= e
NoTip == [state |-> "none", at |-> None, over |-> {}, hoverable |-> FALSE]
Drawn(s) == s.shown \cup s.hidden

\* Frame::hit_test: every hitbox at the position from the front on, up to one that blocks
\* the mouse. A hidden element has a hitbox.
HitTest(s, p) ==
  LET there == {e \in Drawn(s) : p \in s.area[e]}
  IN {e \in there : \A d \in there \cap Occluding : d <= e}

\* The painted elements that listen for a mouse up to reset their clicked state.
ActiveResets(s, active, hovered) == active \cap s.shown

\* What paint leaves: the listeners, with the state that they captured.
Paint(s, active, hovered) ==
  [scene    |-> s,
   resets   |-> ActiveResets(s, active, hovered),
   was      |-> hovered,                \* was_hovered of the hover style's listener
   captured |-> {},                    \* captured_mouse_down of the click listener
   spent    |-> {},                    \* elements whose drag_listener was taken
   drag     |-> drag]                  \* the drag whose view is painted

Listening == frame.scene.shown

PointerInit ==
  /\ scene \in Scenes /\ pos \in Positions /\ buttons = {} /\ dirty = TRUE
  /\ hit = {} /\ drag = None /\ tooltip = None /\ focused = None /\ outside = FALSE
  /\ frame = [scene |-> [shown |-> {}, hidden |-> {}, area |-> [e \in Elements |-> {}],
                        hoverable |-> {}],
              resets |-> {}, was |-> {}, captured |-> {}, spent |-> {}, drag |-> None]
  /\ pending = [e \in Elements |-> None] /\ clicked = {}
  /\ tip = [e \in Elements |-> NoTip]
  /\ owed = {} /\ due = {} /\ missed = {} /\ ghosts = {} /\ leftOver = FALSE
  /\ jumped = FALSE

\* The client changes what it wants drawn, and notifies.
Change(s) ==
  /\ s # scene /\ scene' = s /\ dirty' = TRUE
  /\ UNCHANGED <<pos, buttons, hit, frame, pending, clicked, focused, drag, tip, tooltip,
                 outside, owed, due, missed, ghosts, leftOver, jumped>>

\* check_is_hovered_during_prepaint, or the mouse is in the tooltip itself. The bounds are
\* those that the element had when the tooltip was scheduled.
TipHovered(e, leftHeld) ==
  \/ ~leftHeld /\ pos \in tip[e].over
  \/ tip[e].hoverable /\ pos \in TipArea[tip[e].at]

\* handle_tooltip_check_visible_and_update, of a tooltip that is visible or about to hide
Checked(e, leftHeld) ==
  CASE TipHovered(e, leftHeld) -> [tip[e] EXCEPT !.state = "visible"]
    [] ~TipHovered(e, leftHeld) /\ tip[e].hoverable -> [tip[e] EXCEPT !.state = "hiding"]
    [] OTHER -> NoTip

\* Mutant of KeptPresses: a drag leaves the presses of the other elements.
KeptPressesAll(kept) == kept

\* The elements that keep their press and their active state in a frame: those that are drawn,
\* while nothing is dragged (Interactivity::request_layout).
KeptPresses(kept) == IF drag # None THEN {} ELSE kept

\* Window::draw: the elements that are drawn keep their state, the others lose it. The
\* tooltips are asked from the front on, up to one that is drawn, unless something is dragged.
DrawFrame ==
  LET kept == Drawn(scene)
      pressed == KeptPresses(kept)
      hovered == HitTest(scene, pos)
      asked == {e \in kept \cap Tipped : tip[e].state \in {"visible", "hiding"}}
      After(e) == Checked(e, pending[e] # None)
      stay == {e \in asked : After(e) # NoTip}
      front == IF drag # None \/ stay = {} THEN None ELSE Greatest(stay)
      checked == IF drag # None THEN {} ELSE {e \in asked : front # None => e >= front}
  IN /\ dirty /\ dirty' = FALSE
     /\ hit' = hovered
     /\ clicked' = clicked \cap pressed
     /\ pending' = [e \in Elements |-> IF e \in pressed THEN pending[e] ELSE None]
     /\ tip' = [e \in Elements |-> IF e \in checked THEN After(e)
                                   ELSE IF e \in kept THEN tip[e] ELSE NoTip]
     /\ tooltip' = front
     /\ frame' = Paint(scene, clicked \cap pressed, hovered)
     /\ missed' = missed \cap (pressed \cup {drag}) 
     /\ owed' = IF drag # None THEN {} ELSE owed
     /\ due' = {} /\ leftOver' = FALSE /\ jumped' = FALSE
     /\ UNCHANGED <<scene, pos, buttons, focused, drag, outside, ghosts>>

------------------------------------------------------------------------------
(* Events. Each is dispatched to the listeners from back to front (capture),  *)
(* then from front to back (bubble) until one stops it. Each carries a        *)
(* position, and the hit test is made there before any listener is called.    *)

\* What a press, a release, a wheel or a pinch at p makes of the position. The listeners of
\* the hover styles hear moves only.
PositionFrom(p) == pos' = p /\ jumped' = (jumped \/ p # pos)

\* A press or a wheel anywhere outside of it clears a tooltip that is visible and not
\* hoverable.
ClearedByPress(e, p) ==
  /\ e \in Listening /\ tip[e].state = "visible" /\ ~tip[e].hoverable
  /\ ~(tooltip = e /\ p \in TipArea[tip[e].at])

\* Mutant of FrameAfterDown: the frame with the tooltip stays.
FrameAfterDownOfPress(active, pressed, cleared, moved) == active \cup pressed # {} \/ moved

\* A mouse down has the window redrawn if any listener did something.
FrameAfterDown(active, pressed, cleared, moved) ==
  active \cup pressed \cup cleared # {} \/ moved

\* A mouse down at p. The focusable element in front takes the focus, and with it the default
\* action: what is behind it is not focused, nor active.
Down(button, p) ==
  LET over == HitTest(frame.scene, p)
      there == over \cap Listening
      focusable == there \cap Focusable
      first == IF focusable = {} THEN None ELSE Greatest(focusable)
      active == {e \in there \ frame.resets : first # None => e >= first}
      pressed == IF button = "left" THEN there \cap (Clickable \cup Draggable) ELSE {}
      cleared == {e \in Tipped : ClearedByPress(e, p)}
  IN /\ button \notin buttons /\ ~outside
     /\ buttons' = buttons \cup {button} /\ PositionFrom(p) /\ hit' = over
     /\ clicked' = clicked \cup active
     /\ pending' = [e \in Elements |-> IF e \in pressed THEN p ELSE pending[e]]
     /\ focused' = IF first = None THEN focused ELSE first
     /\ tip' = [e \in Elements |-> IF e \in cleared THEN NoTip ELSE tip[e]]
     /\ dirty' = (dirty \/ FrameAfterDown(active, pressed, cleared, focused' # focused))
     /\ owed' = owed \cup pressed /\ missed' = missed \ pressed
     /\ UNCHANGED <<scene, frame, drag, tooltip, outside, due, ghosts, leftOver>>

\* A turn of the wheel at p: the scroll containers and lists there may scroll, which makes
\* what is drawn another scene.
WheelAt(p, s) ==
  LET cleared == {e \in Tipped : ClearedByPress(e, p)}
  IN /\ ~outside /\ PositionFrom(p) /\ hit' = HitTest(frame.scene, p)
     /\ scene' = s
     /\ tip' = [e \in Elements |-> IF e \in cleared THEN NoTip ELSE tip[e]]
     /\ dirty' = (dirty \/ cleared # {} \/ s # scene)
     /\ UNCHANGED <<buttons, frame, pending, clicked, focused, drag, tooltip, outside, owed, due,
                    missed, ghosts, leftOver>>

\* A pinch at p, which only listeners of the client hear.
Magnify(p) ==
  /\ ~outside /\ PositionFrom(p) /\ hit' = HitTest(frame.scene, p)
  /\ UNCHANGED <<scene, dirty, buttons, frame, pending, clicked, focused, drag, tip, tooltip,
                 outside, owed, due, missed, ghosts, leftOver>>

\* A press on it, the mouse moved by more than the threshold, starts a drag of an element.
StartsDrag(e, p) ==
  /\ e \in Draggable \cap Listening /\ e \notin frame.spent
  /\ pending[e] # None /\ (p - pending[e] > Threshold \/ pending[e] - p > Threshold)

\* handle_tooltip_mouse_move
TipMoved(e, over, reached) ==
  LET hovered == pending[e] = None /\ e \in over
  IN CASE tip[e].state = "waiting" /\ ~hovered -> NoTip
       [] tip[e].state = "none" /\ hovered /\ e \in reached ->
            [state |-> "waiting", at |-> None, over |-> frame.scene.area[e],
             hoverable |-> e \in frame.scene.hoverable]
       [] OTHER -> tip[e]

\* The dispatch of a mouse move to p while d is dragged.
Moved(p, d) ==
  LET over == HitTest(frame.scene, p)
      starting == IF d = None THEN {e \in Elements : StartsDrag(e, p)} ELSE {}
      first == IF starting = {} THEN {} ELSE {Greatest(starting)}
      reached == {e \in Listening : \A f \in first : e >= f}
  IN /\ pos' = p /\ jumped' = FALSE /\ hit' = over
     /\ drag' = IF first = {} THEN d ELSE Greatest(first)
     /\ clicked' = clicked \ first /\ owed' = owed \ first
     /\ pending' = [e \in Elements |-> IF e \in first THEN None ELSE pending[e]]
     /\ frame' = [frame EXCEPT !.spent = @ \cup first]
     /\ tip' = [e \in Elements |-> IF e \in Listening \cap Tipped
                                   THEN TipMoved(e, over, reached) ELSE tip[e]]
     /\ dirty' = \/ dirty \/ drag' # None
                 \/ \E e \in Styled \cap Listening : (e \in over) # (e \in frame.was)
     /\ UNCHANGED <<scene, buttons, focused, tooltip, due, missed, ghosts, leftOver>>

\* A mouse move. Its listeners notify the view when the mouse enters or leaves an element
\* with a hover style; the window follows a drag with a frame per move.
Move(p) == p # pos /\ ~outside /\ Moved(p, drag) /\ UNCHANGED outside

\* The elements that take their pending press in the capture phase of a mouse up.
Heard(over) == {e \in Listening : pending[e] # None}

\* A mouse up has the window redrawn if it ended a press, an active state or a drag;
\* a refused drop takes the drag and does not.
FrameAfterUp(heard, reset, dropped, cancelled) ==
  heard # {} \/ reset # {} \/ dropped \/ cancelled

\* The presses that are left in the click listeners: those that the bubble did not reach.
Uncollected(captured, fired) == captured \ fired

\* The dispatch of a mouse up at p. The capture phase takes every press that is heard, and keeps
\* it for a click if the mouse is over its element; the bubble phase clicks, and hands the
\* drag to the element in front that takes its type, until a listener stops it.
Released(p) ==
  LET over == HitTest(frame.scene, p)
      heard == Heard(over)
      captured == frame.captured \cup (heard \cap over)
      reset == frame.resets \cap Listening
      takers == {e \in Listening \cap over : drag \in Droppable[e]}
      taker == IF takers = {} THEN {} ELSE {Greatest(takers)}
      stops == (captured \cap StopsClick) \cup (taker \ Refuses)
      reached == {e \in Listening : \A d \in stops : e >= d}
      fired == captured \cap reached
      \* An element's click comes before its drop.
      offered == (taker \cap reached) \ (fired \cap StopsClick)
      dropped == offered # {} /\ offered \cap Refuses = {}
      cancelled == drag # None /\ offered = {}
      released == due \cup ((owed \cup missed) \cap over)
  IN /\ PositionFrom(p) /\ hit' = over /\ drag' = None
     /\ clicked' = clicked \ reset
     /\ pending' = [e \in Elements |-> IF e \in heard THEN None ELSE pending[e]]
     /\ frame' = [frame EXCEPT !.captured = Uncollected(captured, fired)]
     /\ dirty' = (dirty \/ FrameAfterUp(heard, reset, dropped, cancelled))
     /\ owed' = {}
     /\ due' = released \ fired
     /\ missed' = (missed \ Listening) \cup {e \in Elements \ Listening : pending[e] # None}
     /\ ghosts' = ghosts \cup ((fired \cap Clickable) \ released)
     /\ leftOver' = (leftOver \/ offered \cap Refuses # {})
     /\ UNCHANGED <<scene, focused, tip, tooltip>>

\* A mouse up, of any button.
Up(button, p) ==
  /\ button \in buttons /\ ~outside /\ buttons' = buttons \ {button}
  /\ Released(p) /\ UNCHANGED outside

\* FileDropEvent::Entered: the files become the active drag, and the mouse moves.
FilesEntered(p) ==
  /\ ~outside /\ buttons = {} /\ outside' = TRUE
  /\ Moved(p, IF drag = None THEN Files ELSE drag)

\* FileDropEvent::Pending
FilesMoved(p) == outside /\ p # pos /\ Moved(p, drag) /\ UNCHANGED outside

\* FileDropEvent::Submit: a mouse up.
FilesSubmitted(p) == outside /\ outside' = FALSE /\ Released(p) /\ UNCHANGED buttons

\* FileDropEvent::Exited: the drag is taken, nothing is redrawn.
FilesExited ==
  /\ outside /\ outside' = FALSE
  /\ drag' = None /\ hit' = HitTest(frame.scene, pos) /\ leftOver' = TRUE
  /\ UNCHANGED <<scene, dirty, pos, buttons, frame, pending, clicked, focused, tip, tooltip,
                 owed, due, missed, ghosts, jumped>>

\* App::stop_active_drag
StopDrag ==
  /\ drag # None /\ drag' = None /\ dirty' = TRUE
  /\ UNCHANGED <<scene, pos, buttons, hit, frame, pending, clicked, focused, tip, tooltip,
                 outside, owed, due, missed, ghosts, leftOver, jumped>>

\* The timer of a scheduled tooltip: it is shown at the mouse, wherever that is now.
ShowTip(e) ==
  /\ tip[e].state = "waiting"
  /\ tip' = [tip EXCEPT ![e].state = "visible", ![e].at = pos] /\ dirty' = TRUE
  /\ UNCHANGED <<scene, pos, buttons, hit, frame, pending, clicked, focused, drag, tooltip,
                 outside, owed, due, missed, ghosts, leftOver, jumped>>

\* The timer of a hoverable tooltip that the mouse has left.
HideTip(e) ==
  /\ tip[e].state = "hiding"
  /\ tip' = [tip EXCEPT ![e] = NoTip] /\ dirty' = TRUE
  /\ UNCHANGED <<scene, pos, buttons, hit, frame, pending, clicked, focused, drag, tooltip,
                 outside, owed, due, missed, ghosts, leftOver, jumped>>

PointerNext ==
  \/ \E s \in Scenes : Change(s)
  \/ DrawFrame
  \/ \E p \in Positions :
       \/ \E b \in {"left", "right"} : Down(b, p) \/ Up(b, p)
       \/ \E s \in Scenes : WheelAt(p, s)
       \/ Magnify(p)
       \/ Move(p) \/ FilesEntered(p) \/ FilesMoved(p) \/ FilesSubmitted(p)
  \/ FilesExited \/ StopDrag
  \/ \E e \in Tipped : ShowTip(e) \/ HideTip(e)

PointerSpec == PointerInit /\ [][PointerNext]_pvars

------------------------------------------------------------------------------
(* Properties.                                                                 *)

\* The types of the state, and what goes with the rendered frame: listeners are those of
\* painted elements, element state is that of drawn ones, a tooltip that was shown is somewhere
\* (with_optional_element_state, paint_mouse_listeners).
PointerTypeOK ==
  /\ scene \in Scenes /\ pos \in Positions /\ buttons \subseteq {"left", "right"}
  /\ dirty \in BOOLEAN /\ outside \in BOOLEAN /\ leftOver \in BOOLEAN /\ jumped \in BOOLEAN
  /\ focused \in Focusable \cup {None} /\ drag \in Values \cup {None}
  /\ hit \subseteq Drawn(frame.scene) /\ frame.resets \subseteq Listening
  /\ frame.captured \cup frame.spent \subseteq Listening /\ frame.drag \in Values \cup {None}
  /\ pending \in [Elements -> Positions \cup {None}]
  /\ {e \in Elements : pending[e] # None} \cup clicked \subseteq Drawn(frame.scene)
  /\ \A e \in Elements :
       /\ tip[e].state \in {"none", "waiting", "visible", "hiding"}
       /\ tip[e].over \subseteq Positions /\ tip[e].hoverable \in BOOLEAN
       /\ tip[e].state = "hiding" => tip[e].hoverable
       /\ IF tip[e].state \in {"visible", "hiding"} THEN tip[e].at \in Positions
                                                    ELSE tip[e].at = None
  /\ tooltip \in Tipped \cup {None}
  /\ owed \cup due \cup missed \cup ghosts \subseteq Elements

\* An element clicks for a press on it that was released over it, in the same frame, and that
\* did not become a drag, nor was on while a frame painted the drag of another element; once
\* per press. (pending_mouse_down, captured_mouse_down: what was
\* released elsewhere, dragged, or swallowed by a listener in front never clicks in a later
\* frame.) Left out: elements that were hidden when their press was released.
NoGhostClick == ghosts = {}

\* An element is dragged, or keeps a press that can become a drag or a click, only while the
\* left button is held (the capture phase of a mouse up takes every press, drag ends with it).
\* Left out: elements that were hidden when their press was released.
ButtonHeld ==
  \A e \in Elements \ missed :
    drag = e \/ (e \in Listening /\ pending[e] # None) => "left" \in buttons

\* An element that is painted as active listens for the release, wherever that will be, or a
\* frame is due in which it will (paint_mouse_listeners registers one listener or the other).
ActiveIsReset == ~dirty => clicked \cap Listening \subseteq frame.resets

\* The hover style that was painted is that of the elements under the mouse, or a frame is due
\* (was_hovered of the listener against mouse_hit_test, which is recomputed by each dispatch).
\* Left out: a press, release, wheel or pinch that came from elsewhere than the last move or
\* frame left the mouse, until the next of these: it moves the mouse unheard by the style.
HoverIsPainted ==
  ~dirty /\ ~jumped => \A e \in Styled \cap Listening : (e \in frame.was) = (e \in hit)

\* The drag that was painted is the one there is, or a frame is due (dispatch_mouse_event
\* refreshes after each event of a drag). Left out: a drop that can_drop refused, files that
\* left the window.
DragShown == frame.drag = drag \/ dirty \/ leftOver

\* What is left out of HoverIsPainted, which the code does not keep (MCPointerJump.cfg).
HoverFollowsMouse ==
  ~dirty => \A e \in Styled \cap Listening : (e \in frame.was) = (e \in hit)

\* What window.rs:4146 says of a mouse up: it cancels the active drag and redraws the window.
DragRedrawn == frame.drag \in Elements /\ drag = None => dirty

\* A tooltip that is painted belongs to an element that still has it, that is not pressed (if
\* its tooltip is not hoverable), and nothing is dragged; or a frame is due (clear_active_tooltip,
\* handle_tooltip_check_visible_and_update, the timers).
TooltipIsCurrent ==
  tooltip # None /\ ~dirty =>
    /\ tip[tooltip].state \in {"visible", "hiding"} /\ drag = None
    /\ ~tip[tooltip].hoverable => pending[tooltip] = None

\* The two about clicks: presses, clicks and drags belong together, across frames and whatever
\* other listeners do, and nothing is kept of an element that is not drawn.
ClicksArePresses == PointerTypeOK /\ NoGhostClick /\ ButtonHeld

\* What is on the screen of the mouse's doings (active and hover styles, the dragged view, the
\* tooltip) is what paint would show now, or a frame is due; with what each part leaves out.
PaintedIsTrue == ActiveIsReset /\ HoverIsPainted /\ DragShown /\ TooltipIsCurrent
================================================================================
