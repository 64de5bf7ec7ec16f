------------------------------ MODULE WindowFrame ------------------------------
(***************************************************************************)
(* The frames of a window (src/src/window.rs, src/src/view.rs): what makes  *)
(* it dirty, how a frame is drawn from the views and from parts of the last *)
(* frame, and what is told of the focus when it is done.                    *)
(*                                                                         *)
(* Everything a view puts into a frame before painting (hitboxes, tooltips, *)
(* nodes of the dispatch tree) is its items, everything after (scene,       *)
(* listeners, cursors) its paint.  What a view shows depends on its state,  *)
(* 0 or 1, and so does how many items it has, which shifts what comes after. *)
(***************************************************************************)
EXTENDS Integers, Sequences, FiniteSets

CONSTANTS
  Views, Root,
  Cached,     \* the views used with AnyView::cached
  Children,   \* Children[v][state]: the views in v, in order, each deferred or not
  Reads,      \* Reads[v][state]: what else rendering v reads
  Changing,   \* the views whose state changes
  Focusable,  \* the views with a focus handle
  Animated,   \* those that request animation frames
  Nobody,     \* no focus
  MaxInterruptions \* bound: what the program does in the middle of one draw

ASSUME ViewsAssumption ==
  /\ IsFiniteSet(Views) /\ Root \in Views /\ Cached \subseteq Views \ {Root}
  /\ Children \in [Views -> [0..1 -> Seq([view : Views, deferred : BOOLEAN])]]
  /\ Reads \in [Views -> [0..1 -> SUBSET Views]]
  /\ Changing \cup Focusable \cup Animated \subseteq Views
  /\ Nobody \notin Views /\ MaxInterruptions \in Nat

VARIABLES
  state,      \* of each view
  dirty, dirtyViews,   \* WindowInvalidatorInner, with
  phase,               \* its draw_phase
  marked,     \* Window.dirty_views
  refreshing,
  rendered, next,      \* the frames
  accessed,   \* App.entities.accessed_entities
  tracked,    \* what invalidates this window: App.tracked_entities
  focus, active,
  callbacks,  \* next_frame_callbacks: the views they notify
  at,         \* where the frame request is
  todo,       \* the draw's call stack, what is to be called first
  built,      \* the state each view was rendered with
  fresh,      \* whether prepaint gave back an element
  draws,      \* the deferred draws, while they are drawn
  owed,       \* of each view: whether a notify of it is still to be seen
  within,     \* what the focus listeners were told the focus is in
  late,       \* the focus was moved by a draw
  interrupted \* how often the program ran in this draw

invalidatorVars == <<dirty, dirtyViews, phase>>
drawVars == <<marked, refreshing, accessed, todo, built, fresh, draws>>
focusVars == <<focus, active, within, late>>
vars == <<state, invalidatorVars, rendered, next, tracked, callbacks, at, owed, interrupted,
          drawVars, focusVars>>

NoFrame == [items |-> <<>>, keys |-> <<>>, deferred |-> <<>>, paint |-> <<>>,
            states |-> <<>>, focus |-> Nobody, active |-> FALSE]

Init ==
  /\ state = [v \in Views |-> 0]
  /\ dirty = TRUE /\ dirtyViews = {} /\ phase = "none"
  /\ marked = {} /\ refreshing = FALSE
  /\ rendered = NoFrame /\ next = NoFrame
  /\ accessed = {} /\ tracked = {}
  /\ focus = Nobody /\ active = FALSE /\ within = {} /\ late = FALSE
  /\ callbacks = {}
  /\ at = "idle" /\ todo = <<>>
  /\ built = state /\ fresh = {} /\ draws = <<>>
  /\ owed = [v \in Views |-> "no"] /\ interrupted = 0

-----------------------------------------------------------------------------
(* Frames.                                                                 *)

ViewsIn(list) == {list[n].view : n \in DOMAIN list}
Shows(v, s) == [n \in 1..(2 - s) |-> [view |-> v, state |-> s]]

\* The views in v as they were rendered.
Inside(v, states) == {c.view : c \in {Children[v][states[v]][n] : n \in DOMAIN Children[v][states[v]]}}

\* v and the views that hold it: every view has one place.
Holders ==
  LET holds(p, c) == \E s \in 0..1 : c \in Inside(p, [q \in Views |-> s])
      up[n \in 0..Cardinality(Views)] ==
        IF n = 0 THEN [v \in Views |-> {v}]
        ELSE LET below == up[n - 1] IN
             [v \in Views |-> below[v] \cup {p \in Views : \E c \in below[v] : holds(p, c)}]
  IN up[Cardinality(Views)]

ASSUME PlacesAssumption ==
  /\ \A p, q \in Views, s, t \in 0..1 : \A m \in DOMAIN Children[p][s], n \in DOMAIN Children[q][t] :
       Children[p][s][m].view = Children[q][t][n].view => p = q /\ (s = t => m = n)
  /\ \A p \in Views, s \in 0..1 : \A m \in DOMAIN Children[p][s] :
       Children[p][s][m].view \notin Holders[p] \cup {Root}

\* view_path_reversed, in the dispatch tree of a frame.
Path(v, frame) == IF v \in ViewsIn(frame.items) THEN Holders[v] ELSE {}

FocusPath(frame) == IF frame.focus = Nobody THEN {} ELSE Path(frame.focus, frame)

\* Those that are laid out, so rendered, when v is: not what is cached in it.
RenderedWith(v, states) ==
  LET down[n \in 0..Cardinality(Views)] ==
        IF n = 0 THEN {v}
        ELSE LET above == down[n - 1] IN
             above \cup UNION {Inside(c, states) \ Cached : c \in above}
  IN down[Cardinality(Views)]

Index(frame) ==
  [items |-> Len(frame.items), keys |-> Len(frame.keys), deferred |-> Len(frame.deferred)]
PaintIndex(frame) == [paint |-> Len(frame.paint), keys |-> Len(frame.keys)]
\* Where a range is beyond the end the code panics; here there is less.
Between(list, from, to) == SubSeq(list, from + 1, IF to > Len(list) THEN Len(list) ELSE to)

\* with_element_state: the key is accessed; the state comes from either frame.
Has(key) == key \in DOMAIN next.states \/ key \in DOMAIN rendered.states
StateOf(key) ==
  IF key \in DOMAIN next.states THEN next.states[key] ELSE rendered.states[key]
Without(frame, key) ==
  [frame EXCEPT !.states = [k \in DOMAIN @ \ {key} |-> @[k]]]
With(frame, key, value) ==
  [frame EXCEPT !.states = [k \in DOMAIN @ \cup {key} |-> IF k = key THEN value ELSE @[k]]]
Accesses(frame, key) == [frame EXCEPT !.keys = Append(@, key)]

CacheKey(v) == <<v, "cache">>      \* of AnyViewState
ElementKey(v) == <<v, "element">>  \* of an element in v, from its prepaint

-----------------------------------------------------------------------------
(* What makes a window dirty.                                              *)

\* App::notify, with one window: invalidate_view if it shows the entity.
Notified(vs) ==
  /\ dirtyViews' = dirtyViews \cup (vs \cap tracked)
  /\ dirty' = (dirty \/ (phase = "none" /\ vs \cap tracked # {}))

\* Code of the program runs between events, and where a draw calls it.
ProgramRuns ==
  \/ phase = "none" /\ UNCHANGED interrupted
  \/ /\ \/ phase = "focus"
        \/ todo # <<>> /\ Head(todo).do \in {"layout", "prepaint", "paint"}
     /\ interrupted < MaxInterruptions
     /\ interrupted' = interrupted + 1

\* An entity is changed and notified, by anything that runs on the main thread.
Change(v) ==
  /\ ProgramRuns
  /\ state' = [state EXCEPT ![v] = 1 - @]
  /\ Notified({v})
  /\ owed' = [owed EXCEPT ![v] = IF phase = "none" THEN "asked"
                                 ELSE IF @ = "no" /\ v \in tracked THEN "late" ELSE @]
  /\ UNCHANGED <<phase, rendered, next, tracked, callbacks, at, drawVars, focusVars>>

\* Window::refresh does nothing while the window draws.
Refresh ==
  /\ dirty' = (dirty \/ phase = "none")
  /\ refreshing' = (refreshing \/ phase = "none")

\* Window::focus and Window::blur.
Focus(v) ==
  /\ focus # v /\ ProgramRuns
  /\ focus' = v
  /\ Refresh
  /\ late' = (late \/ phase # "none")
  /\ UNCHANGED <<state, dirtyViews, phase, marked, rendered, next, accessed, tracked, active,
                 callbacks, at, todo, built, fresh, draws, owed, within>>

\* on_active_status_change comes from the platform, not in the middle of a draw.
Activate ==
  /\ phase = "none" /\ UNCHANGED interrupted
  /\ active' = ~active
  /\ Refresh
  /\ UNCHANGED <<state, dirtyViews, phase, marked, rendered, next, accessed, tracked, focus,
                 callbacks, at, todo, built, fresh, draws, owed, within, late>>

\* request_animation_frame, called while v is drawn: a callback that notifies v.
RequestAnimationFrame(v) ==
  /\ phase # "none" /\ ProgramRuns
  /\ callbacks' = callbacks \cup {v}
  /\ UNCHANGED <<state, invalidatorVars, rendered, next, tracked, at, owed,
                 drawVars, focusVars>>

-----------------------------------------------------------------------------
(* The platform requests a frame.                                          *)

\* The callbacks are taken, and run before anything is drawn.
RunCallbacks ==
  /\ at = "idle"
  /\ at' = "callbacks"
  /\ callbacks' = {}
  /\ Notified(callbacks)
  /\ UNCHANGED <<state, phase, rendered, next, tracked, owed, drawVars, focusVars>>

\* Nothing to draw: at most, the last scene is shown once more.
PresentOnly ==
  /\ at = "callbacks"
  /\ ~dirty
  /\ at' = "idle"
  /\ UNCHANGED <<state, invalidatorVars, rendered, next, tracked, callbacks, owed, drawVars, focusVars>>

\* Mutant of BeginDraw: what holds a notified view is not marked.
BeginDrawMarksItOnly(forced) ==
  /\ at = "callbacks"
  /\ dirty \/ forced
  /\ marked' = dirtyViews
  /\ dirtyViews' = {}
  /\ dirty' = FALSE
  /\ phase' = "prepaint"
  /\ at' = "drawing"
  /\ todo' = <<[do |-> "layout", view |-> Root], [do |-> "prepaint", view |-> Root],
               [do |-> "deferred draws"]>>
  /\ accessed' = {}
  /\ fresh' = {}
  /\ UNCHANGED <<state, refreshing, rendered, next, tracked, callbacks, built, draws,
                 owed, focusVars>>

\* Window::draw begins: the views that were notified, and what holds them, are marked,
\* and the root is laid out.
BeginDraw(forced) ==
  /\ at = "callbacks"
  /\ dirty \/ forced
  /\ marked' = UNION {Path(v, rendered) : v \in dirtyViews}
  /\ dirtyViews' = {}
  /\ dirty' = FALSE
  /\ phase' = "prepaint"
  /\ at' = "drawing"
  /\ todo' = <<[do |-> "layout", view |-> Root], [do |-> "prepaint", view |-> Root],
               [do |-> "deferred draws"]>>
  /\ accessed' = {}
  /\ fresh' = {}
  /\ UNCHANGED <<state, refreshing, rendered, next, tracked, callbacks, built, draws,
                 owed, focusVars>>

Call == Head(todo)
Calling(what) == todo # <<>> /\ Call.do = what

\* Views are rendered, to be laid out.
Layout ==
  /\ Calling("layout")
  /\ LET vs == RenderedWith(Call.view, state) IN
       /\ built' = [v \in Views |-> IF v \in vs THEN state[v] ELSE built[v]]
       /\ owed' = [v \in Views |-> IF v \in vs THEN "no" ELSE owed[v]]
       /\ accessed' = accessed \cup vs \cup UNION {Reads[v][state[v]] : v \in vs}
       /\ fresh' = fresh \cup vs
  /\ todo' = Tail(todo)
  /\ UNCHANGED <<state, invalidatorVars, marked, refreshing, rendered, next, tracked, callbacks,
                 at, draws, focusVars>>

\* The calls that prepaint what is in v, and those that paint it.
PrepaintCalls(v) ==
  LET in == Children[v][built[v]] IN
  [n \in DOMAIN in |-> [do |-> IF in[n].deferred THEN "defer" ELSE "prepaint", view |-> in[n].view]]
PaintCalls(v) ==
  LET in == Children[v][built[v]]
      calls[n \in 0..Len(in)] ==
        IF n = 0 THEN <<>>
        ELSE IF in[n].deferred THEN calls[n - 1]
        ELSE Append(calls[n - 1], [do |-> "paint", view |-> in[n].view])
  IN calls[Len(in)]

\* The elements of v itself: a node with its focus handle, hitboxes, a state.
Prepainted(frame, v) ==
  LET element == Accesses(frame, ElementKey(v)) IN
  [With(element, ElementKey(v), IF Has(ElementKey(v)) THEN StateOf(ElementKey(v)) ELSE "new")
     EXCEPT !.items = @ \o Shows(v, built[v]),
            !.focus = IF focus = v THEN v ELSE @]

\* AnyView::prepaint of a view that was laid out with what holds it.
PrepaintElement ==
  /\ Calling("prepaint")
  /\ LET v == Call.view IN
       /\ v \in fresh
       /\ next' = Prepainted(next, v)
       /\ rendered' = Without(rendered, ElementKey(v))
       /\ todo' = PrepaintCalls(v) \o Tail(todo)
  /\ UNCHANGED <<state, invalidatorVars, marked, refreshing, tracked, accessed, callbacks,
                 at, built, fresh, draws, owed, focusVars>>

\* It was not: it is cached, and what it showed last time will do.
MayReuse(v, same) == Has(CacheKey(v)) /\ same /\ v \notin marked /\ ~refreshing

\* reuse_prepaint.
Reused(frame, from, to) ==
  LET items == Between(rendered.items, from.items, to.items)
      deferred == Between(rendered.deferred, from.deferred, to.deferred)
  IN [frame EXCEPT
        !.items = @ \o items,
        !.keys = @ \o Between(rendered.keys, from.keys, to.keys),
        !.deferred = @ \o [n \in DOMAIN deferred |-> [deferred[n] EXCEPT !.fresh = FALSE]],
        !.focus = IF focus \in ViewsIn(items) THEN focus ELSE @]

PrepaintReused ==
  /\ Calling("prepaint")
  /\ LET v == Call.view
         start == Accesses(next, CacheKey(v)) IN
       /\ v \notin fresh
       /\ MayReuse(v, TRUE)
       /\ LET cache == StateOf(CacheKey(v))
              end == Reused(start, cache.from, cache.to)
          IN /\ next' = With(end, CacheKey(v), [cache EXCEPT !.from = Index(start), !.to = Index(end)])
             /\ accessed' = accessed \cup cache.accessed
       /\ rendered' = Without(rendered, CacheKey(v))
  /\ todo' = Tail(todo)
  /\ UNCHANGED <<state, invalidatorVars, marked, refreshing, tracked, callbacks,
                 at, built, fresh, draws, owed, focusVars>>

\* Mutant of PrepaintCached: what is in it may be reused.
PrepaintCachedShallow(same) ==
  /\ Calling("prepaint")
  /\ LET v == Call.view
         start == Accesses(next, CacheKey(v)) IN
       /\ v \notin fresh
       /\ ~MayReuse(v, same)
       /\ next' = Without(start, CacheKey(v))
       /\ rendered' = Without(rendered, CacheKey(v))
       /\ todo' = <<[do |-> "layout", view |-> v], [do |-> "prepaint", view |-> v],
                    [do |-> "end cached", view |-> v, from |-> Index(start),
                     refreshing |-> refreshing, accessed |-> accessed]>> \o Tail(todo)
  /\ UNCHANGED <<state, invalidatorVars, refreshing, marked, tracked, accessed, callbacks,
                 at, built, fresh, draws, owed, focusVars>>

\* It has to be rendered, and so has everything in it.  same: neither its bounds nor its
\* content mask or text style changed.
PrepaintCached(same) ==
  /\ Calling("prepaint")
  /\ LET v == Call.view
         start == Accesses(next, CacheKey(v)) IN
       /\ v \notin fresh
       /\ ~MayReuse(v, same)
       /\ next' = Without(start, CacheKey(v))
       /\ rendered' = Without(rendered, CacheKey(v))
       /\ todo' = <<[do |-> "layout", view |-> v], [do |-> "prepaint", view |-> v],
                    [do |-> "end cached", view |-> v, from |-> Index(start),
                     refreshing |-> refreshing, accessed |-> accessed]>> \o Tail(todo)
  /\ refreshing' = TRUE
  /\ UNCHANGED <<state, invalidatorVars, marked, tracked, accessed, callbacks,
                 at, built, fresh, draws, owed, focusVars>>

EndCached ==
  /\ Calling("end cached")
  /\ next' = With(next, CacheKey(Call.view),
                  [from |-> Call.from, to |-> Index(next), accessed |-> accessed \ Call.accessed,
                   paintFrom |-> PaintIndex(NoFrame), paintTo |-> PaintIndex(NoFrame)])
  /\ refreshing' = Call.refreshing
  /\ todo' = Tail(todo)
  /\ UNCHANGED <<state, invalidatorVars, marked, rendered, tracked, accessed, callbacks,
                 at, built, fresh, draws, owed, focusVars>>

\* Deferred::prepaint puts its child off.
DeferDraw ==
  /\ Calling("defer")
  /\ next' = [next EXCEPT !.deferred =
                Append(@, [view |-> Call.view, fresh |-> TRUE,
                           from |-> Index(NoFrame), to |-> Index(NoFrame),
                           paintFrom |-> PaintIndex(NoFrame), paintTo |-> PaintIndex(NoFrame)])]
  /\ todo' = Tail(todo)
  /\ UNCHANGED <<state, invalidatorVars, marked, refreshing, rendered, tracked, accessed, callbacks,
                 at, built, fresh, draws, owed, focusVars>>

\* prepaint_deferred_draws: each is prepainted or reused, and its range noted.
BeginDeferred ==
  /\ Calling("deferred draws")
  /\ draws' = next.deferred
  /\ next' = [next EXCEPT !.deferred = <<>>]
  /\ todo' = [n \in DOMAIN next.deferred |-> [do |-> "deferred", draw |-> n]]
             \o <<[do |-> "end prepaint"]>>
  /\ UNCHANGED <<state, invalidatorVars, marked, refreshing, rendered, tracked, accessed, callbacks,
                 at, built, fresh, owed, focusVars>>

PrepaintDeferred ==
  /\ Calling("deferred")
  /\ draws[Call.draw].fresh
  /\ todo' = <<[do |-> "prepaint", view |-> draws[Call.draw].view],
               [do |-> "end deferred", draw |-> Call.draw, from |-> Index(next)]>> \o Tail(todo)
  /\ UNCHANGED <<state, invalidatorVars, marked, refreshing, rendered, next, tracked, accessed,
                 callbacks, at, built, fresh, draws, owed, focusVars>>

ReuseDeferred ==
  /\ Calling("deferred")
  /\ ~draws[Call.draw].fresh
  /\ LET d == draws[Call.draw]
         end == Reused(next, d.from, d.to)
     IN /\ next' = end
        /\ draws' = [draws EXCEPT ![Call.draw].from = Index(next), ![Call.draw].to = Index(end)]
  /\ todo' = Tail(todo)
  /\ UNCHANGED <<state, invalidatorVars, marked, refreshing, rendered, tracked, accessed,
                 callbacks, at, built, fresh, owed, focusVars>>

EndDeferred ==
  /\ Calling("end deferred")
  /\ draws' = [draws EXCEPT ![Call.draw].from = Call.from, ![Call.draw].to = Index(next)]
  /\ todo' = Tail(todo)
  /\ UNCHANGED <<state, invalidatorVars, marked, refreshing, rendered, next, tracked, accessed,
                 callbacks, at, built, fresh, owed, focusVars>>

\* Everything is prepainted; the paint phase begins.
EndPrepaint ==
  /\ Calling("end prepaint")
  /\ phase' = "paint"
  /\ todo' = <<[do |-> "paint", view |-> Root]>>
             \o [n \in DOMAIN draws |-> [do |-> "paint deferred", draw |-> n]]
             \o <<[do |-> "end draw"]>>
  /\ UNCHANGED <<state, dirty, dirtyViews, marked, refreshing, rendered, next, tracked, accessed,
                 callbacks, at, built, fresh, draws, owed, focusVars>>

\* AnyView::paint of a view that was rendered: if it is cached, prepaint left a state.
PaintElement ==
  /\ Calling("paint")
  /\ LET v == Call.view
         start == IF v \in Cached THEN Accesses(next, CacheKey(v)) ELSE next IN
       /\ v \in fresh /\ (v \in Cached => CacheKey(v) \in DOMAIN next.states)
       /\ next' = [start EXCEPT !.paint = @ \o Shows(v, built[v])]
       /\ todo' = PaintCalls(v)
                  \o (IF v \in Cached
                        THEN <<[do |-> "end paint", view |-> v, from |-> PaintIndex(start)]>>
                        ELSE <<>>)
                  \o Tail(todo)
  /\ UNCHANGED <<state, invalidatorVars, marked, refreshing, rendered, tracked, accessed, callbacks,
                 at, built, fresh, draws, owed, focusVars>>

EndPaint ==
  /\ Calling("end paint")
  /\ next' = With(next, CacheKey(Call.view),
                  [next.states[CacheKey(Call.view)] EXCEPT !.paintFrom = Call.from,
                                                           !.paintTo = PaintIndex(next)])
  /\ todo' = Tail(todo)
  /\ UNCHANGED <<state, invalidatorVars, marked, refreshing, rendered, tracked, accessed, callbacks,
                 at, built, fresh, draws, owed, focusVars>>

\* reuse_paint.
PaintAgain(frame, from, to) ==
  [frame EXCEPT !.paint = @ \o Between(rendered.paint, from.paint, to.paint),
                !.keys = @ \o Between(rendered.keys, from.keys, to.keys)]

PaintReused ==
  /\ Calling("paint")
  /\ LET v == Call.view
         cache == next.states[CacheKey(v)]
         start == Accesses(next, CacheKey(v))
         end == PaintAgain(start, cache.paintFrom, cache.paintTo)
     IN /\ v \notin fresh /\ CacheKey(v) \in DOMAIN next.states
        /\ next' = With(end, CacheKey(v), [cache EXCEPT !.paintFrom = PaintIndex(start),
                                                        !.paintTo = PaintIndex(end)])
  /\ todo' = Tail(todo)
  /\ UNCHANGED <<state, invalidatorVars, marked, refreshing, rendered, tracked, accessed, callbacks,
                 at, built, fresh, draws, owed, focusVars>>

\* paint_deferred_draws.
PaintDeferred ==
  /\ Calling("paint deferred")
  /\ draws[Call.draw].fresh
  /\ todo' = <<[do |-> "paint", view |-> draws[Call.draw].view],
               [do |-> "end paint deferred", draw |-> Call.draw, from |-> PaintIndex(next)]>>
             \o Tail(todo)
  /\ UNCHANGED <<state, invalidatorVars, marked, refreshing, rendered, next, tracked, accessed,
                 callbacks, at, built, fresh, draws, owed, focusVars>>

PaintDeferredAgain ==
  /\ Calling("paint deferred")
  /\ ~draws[Call.draw].fresh
  /\ LET d == draws[Call.draw]
         end == PaintAgain(next, d.paintFrom, d.paintTo)
     IN /\ next' = end
        /\ draws' = [draws EXCEPT ![Call.draw].paintFrom = PaintIndex(next),
                                  ![Call.draw].paintTo = PaintIndex(end)]
  /\ todo' = Tail(todo)
  /\ UNCHANGED <<state, invalidatorVars, marked, refreshing, rendered, tracked, accessed,
                 callbacks, at, built, fresh, owed, focusVars>>

EndPaintDeferred ==
  /\ Calling("end paint deferred")
  /\ draws' = [draws EXCEPT ![Call.draw].paintFrom = Call.from,
                            ![Call.draw].paintTo = PaintIndex(next)]
  /\ todo' = Tail(todo)
  /\ UNCHANGED <<state, invalidatorVars, marked, refreshing, rendered, next, tracked, accessed,
                 callbacks, at, built, fresh, owed, focusVars>>

\* Frame::finish: the states of elements that were accessed come along.
Finished(frame, last) ==
  LET kept == {frame.keys[n] : n \in DOMAIN frame.keys} \cap DOMAIN last.states IN
  [frame EXCEPT !.states = [k \in DOMAIN @ \cup kept |-> IF k \in kept THEN last.states[k] ELSE @[k]]]

\* Mutant of FinishFrame: the last frame is taken for active if the window is.
FinishFrameActiveNow ==
  /\ Calling("end draw")
  /\ phase' = "focus"
  /\ LET frame == [Finished(next, rendered) EXCEPT !.deferred = draws, !.active = active]
         before == IF active THEN FocusPath(rendered) ELSE {}
         now == IF active THEN FocusPath(frame) ELSE {}
     IN /\ rendered' = frame
        /\ next' = NoFrame
        /\ within' = IF FocusPath(frame) # FocusPath(rendered) \/ frame.active # rendered.active
                     THEN (within \cup (now \ before)) \ (before \ now) ELSE within
  /\ marked' = {}
  /\ todo' = <<>>
  /\ draws' = <<>>
  /\ UNCHANGED <<state, dirty, dirtyViews, refreshing, tracked, accessed, callbacks,
                 at, built, fresh, owed, focus, active, late>>

\* The frames are swapped, and the focus listeners told what changed.
FinishFrame ==
  /\ Calling("end draw")
  /\ phase' = "focus"
  /\ LET frame == [Finished(next, rendered) EXCEPT !.deferred = draws, !.active = active]
         before == IF rendered.active THEN FocusPath(rendered) ELSE {}
         now == IF active THEN FocusPath(frame) ELSE {}
     IN /\ rendered' = frame
        /\ next' = NoFrame
        /\ within' = IF FocusPath(frame) # FocusPath(rendered) \/ frame.active # rendered.active
                     THEN (within \cup (now \ before)) \ (before \ now) ELSE within
  /\ marked' = {}
  /\ todo' = <<>>
  /\ draws' = <<>>
  /\ UNCHANGED <<state, dirty, dirtyViews, refreshing, tracked, accessed, callbacks,
                 at, built, fresh, owed, focus, active, late>>

\* Mutant of EndDraw: what was notified meanwhile is dropped.
EndDrawForgets ==
  /\ phase = "focus"
  /\ tracked' = accessed
  /\ accessed' = {} /\ fresh' = {} /\ built' = [v \in Views |-> 0]  \* not used any more
  /\ refreshing' = FALSE
  /\ dirtyViews' = {}
  /\ phase' = "none"
  /\ at' = "idle"
  /\ UNCHANGED <<state, dirty, marked, rendered, next, callbacks, todo,
                 draws, owed, focusVars>>

\* What the draw read is tracked, and the frame presented.
EndDraw ==
  /\ phase = "focus"
  /\ tracked' = accessed
  /\ accessed' = {} /\ fresh' = {} /\ built' = [v \in Views |-> 0]  \* not used any more
  /\ refreshing' = FALSE
  /\ phase' = "none"
  /\ at' = "idle"
  /\ UNCHANGED <<state, dirty, dirtyViews, marked, rendered, next, callbacks, todo,
                 draws, owed, focusVars>>

-----------------------------------------------------------------------------
DrawStep ==
  \/ Layout \/ PrepaintElement \/ PrepaintReused \/ (\E same \in BOOLEAN : PrepaintCached(same))
  \/ EndCached \/ DeferDraw \/ BeginDeferred \/ PrepaintDeferred \/ ReuseDeferred \/ EndDeferred
  \/ EndPrepaint \/ PaintElement \/ EndPaint \/ PaintReused
  \/ PaintDeferred \/ PaintDeferredAgain \/ EndPaintDeferred
  \/ FinishFrame \/ EndDraw

FrameStep ==
  /\ RunCallbacks \/ PresentOnly \/ (\E forced \in BOOLEAN : BeginDraw(forced)) \/ DrawStep
  /\ interrupted' = IF phase' = "none" THEN 0 ELSE interrupted

UserStep ==
  \/ \E v \in Changing : Change(v)
  \/ \E v \in Animated : RequestAnimationFrame(v)
  \/ \E v \in Focusable \cup {Nobody} : Focus(v)
  \/ Activate

Next == FrameStep \/ UserStep

Spec == Init /\ [][Next]_vars

-----------------------------------------------------------------------------
\* Two conditions on a tree of views.  Whoever reads a view is in every cached view it is
\* in, so a cached view is known to have read what is in it (detect_accessed_entities);
ReadsApart ==
  \A v \in Views, s \in 0..1 : \A u \in Reads[v][s] : Holders[u] \cap Cached \subseteq Holders[v]

\* and nothing cached is in what is deferred, so no cache is in a range that moves.
NothingCachedDeferred ==
  \A v \in Views, s \in 0..1 : \A n \in DOMAIN Children[v][s] :
    Children[v][s][n].deferred => \A c \in Cached : Children[v][s][n].view \notin Holders[c]

-----------------------------------------------------------------------------
Drawn == phase = "none" /\ rendered # NoFrame
Shown == ViewsIn(rendered.items)

\* Every variable of the window, of its two frames and of the draw in progress
\* keeps its type.
WindowTypeOK ==
  /\ state \in [Views -> 0..1] /\ built \in [Views -> 0..1]
  /\ dirty \in BOOLEAN /\ refreshing \in BOOLEAN /\ active \in BOOLEAN /\ late \in BOOLEAN
  /\ UNION {dirtyViews, marked, accessed, tracked, callbacks, fresh, within} \subseteq Views
  /\ phase \in {"none", "prepaint", "paint", "focus"}
  /\ focus \in Focusable \cup {Nobody}
  /\ at \in {"idle", "callbacks", "drawing"}
  /\ at = "drawing" <=> phase # "none"
  /\ owed \in [Views -> {"no", "asked", "late"}]
  /\ phase = "none" => todo = <<>> /\ next = NoFrame /\ marked = {}

\* What is reused is what it was: every view has the items and the paint of one state,
\* each once, and so have just the views in it.
FrameWhole ==
  Drawn =>
    LET stateOf(list, v) == CHOOSE s \in 0..1 : \E n \in DOMAIN list :
                              list[n] = [view |-> v, state |-> s]
        shown == [v \in Views |-> IF v \in Shown THEN stateOf(rendered.items, v) ELSE 0]
        whole(list) == \A v \in ViewsIn(list) :
                         Cardinality({n \in DOMAIN list : list[n].view = v}) = 2 - shown[v]
                         /\ \A n \in DOMAIN list : list[n].view = v => list[n].state = shown[v]
    IN /\ whole(rendered.items) /\ whole(rendered.paint)
       /\ ViewsIn(rendered.paint) = Shown
       /\ Shown = {Root} \cup UNION {Inside(v, shown) : v \in Shown}

\* A view that was notified between draws, and is shown, was drawn since, or will be.
NotifiedIsDrawn ==
  Drawn /\ ~dirty => \A v \in Shown : owed[v] # "asked"

\* One that was notified in the middle of a draw will be with the next one.
LateIsRemembered ==
  phase = "none" => \A v \in Shown \cap tracked : owed[v] = "late" => v \in dirtyViews

\* No state of an element that is shown gets lost.
StatesKept ==
  Drawn => \A v \in Shown :
    /\ ElementKey(v) \in DOMAIN rendered.states
    /\ v \in Cached => CacheKey(v) \in DOMAIN rendered.states

\* Whatever a notification may have to redraw is tracked.
AllTracked == Drawn => Shown \subseteq tracked

\* The focus listeners were told of everything between the focus and the root, of
\* nothing else, and nothing while the window is not active.
ListenersKnowFocus ==
  Drawn => within = IF rendered.active THEN FocusPath(rendered) ELSE {}

\* The frame has the window's focus.
FocusShown ==
  Drawn /\ ~dirty /\ ~late =>
    rendered.focus = IF focus \in Shown THEN focus ELSE Nobody

\* A finished frame, of whatever parts of the last one, is one that could have been drawn
\* from nothing, with the element states of what it shows (reuse_prepaint, reuse_paint,
\* with_element_state).
FrameSound == WindowTypeOK /\ FrameWhole /\ StatesKept

\* No notification of a view that is shown gets lost between the frames: those in the middle
\* of a draw are remembered, and the window is told of every view it shows (draw,
\* record_entities_accessed).
NotificationsKept == LateIsRemembered /\ AllTracked

\* What is drawn as focused, and what the focus listeners were told, is where the focus is
\* (the end of Window::draw).
FocusIsTold == ListenersKnowFocus /\ FocusShown

=============================================================================
