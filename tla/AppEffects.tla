----------------------------- MODULE AppEffects ------------------------------
(***************************************************************************)
(* The update and effect cycle of src/src/app.rs: App::update and its      *)
(* variants, the queue of effects, flush_effects, the release of dropped   *)
(* entities, and the drawing of windows as far as notify depends on it.    *)
(*                                                                         *)
(* The App runs on one thread.  What makes it hard is re-entrance: user    *)
(* code runs in closures and callbacks, starts updates inside of updates,  *)
(* and its notifications, drops and closed windows take effect later, in   *)
(* the flush at the end of the outermost update.  The model keeps the call *)
(* stack: a frame per call of the App that runs user code or loops.        *)
(*                                                                         *)
(* Other threads come in at one point: they drop the last handle of an     *)
(* entity at any time, also after a flush saw that none was dropped.       *)
(***************************************************************************)
EXTENDS Integers, Sequences, FiniteSets

CONSTANTS
  Entities, Observers, Windows,
  None,           \* no entity, no window
  MaxDepth,       \* bound: how deep user code nests calls
  MaxQueue,       \* bound: the length of pending_effects
  AllowShutdown   \* whether the platform's quit may come

ASSUME NoneAssumption == None \notin Entities \cup Windows
ASSUME BoundsAssumption == MaxDepth \in Nat /\ MaxQueue \in Nat
ASSUME AllowShutdownAssumption == AllowShutdown \in BOOLEAN

VARIABLES
  updates,   \* pending_updates
  flushing,  \* flushing_effects
  queue,     \* pending_effects
  pending,   \* pending_notifications
  stack,     \* the calls of the App that have not returned
  life,      \* what became of each entity
  target,    \* the entity each observer was registered for, or None
  active,    \* the observers whose subscription was activated
  window,    \* App.windows: each window in its place, taken by an update, closed
  removed,   \* the windows with `removed' set
  tracked,   \* tracked_entities: what each window's last draw accessed
  quit,      \* whether shutdown was called
  looked,    \* take_dropped was empty, and the flush has not gone on since
  bare,      \* history: work was queued where no update would flush it
  late,      \* history: the entities dropped since take_dropped was empty
  debt       \* history: what each observer still has to be told

vars == <<updates, flushing, queue, pending, stack, life, target, active,
          window, removed, tracked, quit, looked, bare, late, debt>>
windowVars == <<window, removed, tracked>>
lookVars == <<looked, late>>
endVars == <<quit, bare, lookVars>>
observerVars == <<target, active, debt>>

\* A frame: the call, the entity or window it is about, and for a loop what it
\* has still to visit and (a pass over subscribers) what it took out.
Frame(kind, on) == [kind |-> kind, on |-> on, todo |-> {}, held |-> {}]
Pass(e, obs) == [kind |-> "pass", on |-> e, todo |-> obs, held |-> obs]
Release(ids) == [kind |-> "release", on |-> None, todo |-> ids, held |-> {}]

UserKinds == {"bare", "update", "lease", "window", "draw", "callback"}
FlushKinds == {"flush", "shutdown"}

Frames == {stack[i] : i \in DOMAIN stack}
Top == stack[Len(stack)]
Below == SubSeq(stack, 1, Len(stack) - 1)
TopIs(kinds) == stack # <<>> /\ Top.kind \in kinds
Push(frame) == stack' = Append(stack, frame)
Pop == stack' = Below

UserCode == TopIs(UserKinds)
MayCall == (stack # <<>> => UserCode) /\ Len(stack) < MaxDepth

\* Work queued where pending_updates is zero waits for the next update.
BareNow == bare \/ updates = 0

Leased == {f.on : f \in {g \in Frames : g.kind = "lease"}}
Drawing == {f.on : f \in {g \in Frames : g.kind = "draw"}}
Dropped == {e \in Entities : life[e] = "dropped"}

\* window_update_stack.last(), None if no window is being updated.
IsCurrentWindow(w) ==
  LET at == {i \in DOMAIN stack : stack[i].kind = "window"} IN
  IF w = None THEN at = {}
  ELSE \E i \in at : stack[i].on = w /\ \A j \in at : j <= i

\* The observers of e that are in the SubscriberSet's map, not out in a pass.
InMap(e) ==
  {o \in Observers : target[o] = e}
    \ UNION {f.held : f \in {g \in Frames : g.kind = "pass" /\ g.on = e}}

NotifyEffect(e) == [kind |-> "notify", of |-> e, win |-> None]
ActivateEffect(o) == [kind |-> "activate", of |-> o, win |-> None]
CreatedEffect(e, w) == [kind |-> "created", of |-> e, win |-> w]
Effects == {NotifyEffect(e) : e \in Entities} \cup {ActivateEffect(o) : o \in Observers}
             \cup {CreatedEffect(e, w) : e \in Entities, w \in Windows \cup {None}}

Init ==
  /\ updates = 0
  /\ flushing = FALSE
  /\ queue = <<>>
  /\ pending = {}
  /\ stack = <<>>
  /\ life = [e \in Entities |-> "unborn"]
  /\ target = [o \in Observers |-> None]
  /\ active = {}
  /\ window = [w \in Windows |-> "open"]
  /\ removed = {}
  /\ tracked = [w \in Windows |-> {}]
  /\ quit = FALSE
  /\ looked = FALSE
  /\ bare = FALSE
  /\ late = {}
  /\ debt = [o \in Observers |-> "none"]

-----------------------------------------------------------------------------
(* Calls.                                                                  *)

\* A callback of the platform that gets the App without an update around it
\* (on_finish_launching, on_reopen).
StartBare ==
  /\ stack = <<>>
  /\ Push(Frame("bare", None))
  /\ UNCHANGED <<updates, flushing, queue, pending, life, observerVars,
                 windowVars, endVars>>

EndBare ==
  /\ TopIs({"bare"})
  /\ Pop
  /\ UNCHANGED <<updates, flushing, queue, pending, life, observerVars,
                 windowVars, endVars>>

\* App::update.
StartUpdate ==
  /\ MayCall
  /\ Push(Frame("update", None))
  /\ updates' = updates + 1
  /\ UNCHANGED <<flushing, queue, pending, life, observerVars, windowVars, endVars>>

\* App::update_entity (and GpuiBorrow) up to the closure.  An entity that is on
\* the stack already panics.
UpdateEntity(e) ==
  /\ MayCall
  /\ life[e] = "alive"
  /\ e \notin Leased
  /\ Push(Frame("lease", e))
  /\ updates' = updates + 1
  /\ UNCHANGED <<flushing, queue, pending, life, observerVars, windowVars, endVars>>

\* App::update_window_id up to the closure.  A window that is not in its place
\* makes it an update without effect.
UpdateWindow(w) ==
  /\ MayCall
  /\ window[w] = "open"
  /\ Push(Frame("window", w))
  /\ window' = [window EXCEPT ![w] = "taken"]
  /\ updates' = updates + 1
  /\ UNCHANGED <<flushing, queue, pending, life, observerVars, removed, tracked,
                 endVars>>

\* Mutant of FinishUpdate: every update flushes, not only the outermost.
FinishUpdateFlushesAlways ==
  IF ~flushing
  THEN /\ flushing' = TRUE
       /\ stack' = Append(Below, Frame("flush", None))
       /\ UNCHANGED updates
  ELSE /\ updates' = updates - 1
       /\ Pop
       /\ UNCHANGED flushing

\* App::finish_update: the outermost update flushes, unless a flush is running.
FinishUpdate ==
  IF ~flushing /\ updates = 1
  THEN /\ flushing' = TRUE
       /\ stack' = Append(Below, Frame("flush", None))
       /\ UNCHANGED updates
  ELSE /\ updates' = updates - 1
       /\ Pop
       /\ UNCHANGED flushing

\* The end of App::update and of App::update_entity.
EndUpdate ==
  /\ TopIs({"update", "lease"})
  /\ FinishUpdate
  /\ UNCHANGED <<queue, pending, life, observerVars, windowVars, endVars>>

\* The end of update_window_id: the window goes back, or it is closed and the
\* window_closed_observers run, still inside of the update.
EndWindow ==
  LET w == Top.on IN
  /\ TopIs({"window"})
  /\ \/ /\ w \notin removed
        /\ window' = [window EXCEPT ![w] = "open"]
        /\ FinishUpdate
     \/ /\ w \in removed
        /\ window' = [window EXCEPT ![w] = "closed"]
        /\ stack' = Append(Below, Frame("update", None))
        /\ UNCHANGED <<updates, flushing>>
  /\ UNCHANGED <<queue, pending, life, observerVars, removed, tracked, endVars>>

\* A callback of a flush returns.
EndCallback ==
  /\ TopIs({"callback"})
  /\ Pop
  /\ UNCHANGED <<updates, flushing, queue, pending, life, observerVars,
                 windowVars, endVars>>

-----------------------------------------------------------------------------
(* What user code does with the App.                                       *)

PushEffect(effect) ==
  /\ Len(queue) < MaxQueue
  /\ queue' = Append(queue, effect)
  /\ bare' = BareNow

\* App::new, which is an update of its own (in bare code: StartUpdate comes
\* first).  The effect names the window that is being updated, and holds a handle.
NewEntity(e) ==
  /\ UserCode
  /\ updates > 0
  /\ life[e] = "unborn"
  /\ life' = [life EXCEPT ![e] = "alive"]
  /\ \E w \in Windows \cup {None} : IsCurrentWindow(w) /\ PushEffect(CreatedEffect(e, w))
  /\ UNCHANGED <<updates, flushing, pending, stack, observerVars, windowVars,
                 quit, lookVars>>

\* App::observe: the observer is inert until the deferred effect.
Observe(o, e) ==
  /\ UserCode
  /\ life[e] = "alive"
  /\ target[o] = None
  /\ target' = [target EXCEPT ![o] = e]
  /\ PushEffect(ActivateEffect(o))
  /\ UNCHANGED <<updates, flushing, pending, stack, life, active, debt,
                 windowVars, quit, lookVars>>

\* The windows that tracked e when they were drawn, and those of them that are
\* not drawing now: only they take a notification (invalidate_view).
Trackers(e) == {w \in Windows : e \in tracked[w]}
Listening(e) == Trackers(e) \ Drawing

\* What an observer of e has to be told after a notify that was sent.
DebtAfter(o, e, sent) ==
  IF target[o] # e \/ debt[o] = "owed" \/ ~sent THEN debt[o]
  ELSE IF o \in active THEN "owed" ELSE "early"

\* Mutant of Notify: pending_notifications is filled but not consulted.
NotifyAlwaysQueues(e) ==
  LET sent == Trackers(e) = {} \/ Listening(e) # {} IN
  /\ UserCode
  /\ life[e] # "unborn"
  /\ IF sent
     THEN PushEffect(NotifyEffect(e)) /\ pending' = pending \cup {e}
     ELSE UNCHANGED <<queue, pending, endVars>>
  /\ debt' = [o \in Observers |-> DebtAfter(o, e, sent)]
  /\ UNCHANGED <<updates, flushing, stack, life, target, active, window, removed,
                 tracked, quit, lookVars>>

\* App::notify: at most one effect per entity is queued; none if every window
\* that shows the entity is drawing.  It takes an id, dropped or released too.
Notify(e) ==
  LET sent == Trackers(e) = {} \/ Listening(e) # {} IN
  /\ UserCode
  /\ life[e] # "unborn"
  /\ IF sent /\ e \notin pending
     THEN PushEffect(NotifyEffect(e)) /\ pending' = pending \cup {e}
     ELSE UNCHANGED <<queue, pending, endVars>>
  /\ debt' = [o \in Observers |-> DebtAfter(o, e, sent)]
  /\ UNCHANGED <<updates, flushing, stack, life, target, active, window, removed,
                 tracked, quit, lookVars>>

\* The last handle of an entity is dropped: by user code, or at any time by
\* another thread.  The EntityMap queues the id for take_dropped.
DropEntity(e) ==
  /\ life[e] = "alive"
  /\ e \notin Leased
  /\ \A i \in DOMAIN queue : queue[i].kind = "created" => queue[i].of # e
  /\ life' = [life EXCEPT ![e] = "dropped"]
  /\ bare' = BareNow
  /\ late' = IF looked THEN late \cup {e} ELSE late
  /\ UNCHANGED <<updates, flushing, queue, pending, stack, observerVars,
                 windowVars, quit, looked>>

\* Window::remove_window; the window is closed when its update ends.
RemoveWindow ==
  /\ TopIs({"window"})
  /\ Top.on \notin removed
  /\ removed' = removed \cup {Top.on}
  /\ UNCHANGED <<updates, flushing, queue, pending, stack, life, observerVars,
                 window, tracked, endVars>>

\* Window::draw, of a dirty window or of any when a frame is forced: views and
\* focus listeners run while the window is in a draw phase.
BeginDraw ==
  /\ TopIs({"window"})
  /\ Push(Frame("draw", Top.on))
  /\ UNCHANGED <<updates, flushing, queue, pending, life, observerVars,
                 windowVars, endVars>>

\* The end of draw: record_entities_accessed.
EndDraw(ents) ==
  /\ TopIs({"draw"})
  /\ tracked' = [tracked EXCEPT ![Top.on] = ents]
  /\ Pop
  /\ UNCHANGED <<updates, flushing, queue, pending, life, observerVars, window,
                 removed, endVars>>

-----------------------------------------------------------------------------
(* App::flush_effects.                                                     *)

\* take_dropped, with something to release.
TakeDropped ==
  /\ TopIs(FlushKinds)
  /\ ~looked
  /\ Dropped # {}
  /\ life' = [e \in Entities |-> IF e \in Dropped THEN "released" ELSE life[e]]
  /\ Push(Release(Dropped))
  /\ UNCHANGED <<updates, flushing, queue, pending, observerVars, windowVars, endVars>>

\* Mutant of FindNothingDropped: what the last effect dropped is not looked for.
FindWithoutLooking ==
  /\ TopIs(FlushKinds)
  /\ ~looked
  /\ looked' = TRUE
  /\ late' = {}
  /\ UNCHANGED <<updates, flushing, queue, pending, stack, life, observerVars,
                 windowVars, quit, bare>>

\* take_dropped with nothing to release: release_dropped_entities returns.  From
\* here to the next take_dropped, another thread may drop an entity unseen.
FindNothingDropped ==
  /\ TopIs(FlushKinds)
  /\ ~looked
  /\ Dropped = {}
  /\ looked' = TRUE
  /\ late' = {}
  /\ UNCHANGED <<updates, flushing, queue, pending, stack, life, observerVars,
                 windowVars, quit, bare>>

\* Mutant of ReleaseEntity: the observers of the entity stay.
ReleaseKeepsObservers(e, listened) ==
  /\ TopIs({"release"})
  /\ e \in Top.todo
  /\ stack' = LET rest == Append(Below, Release(Top.todo \ {e}))
              IN  IF listened THEN Append(rest, Frame("callback", None)) ELSE rest
  /\ UNCHANGED <<updates, flushing, queue, pending, life, observerVars,
                 windowVars, endVars>>

\* release_dropped_entities for one entity: its observers are removed, and its
\* release listeners, if it has any, are called.
ReleaseEntity(e, listened) ==
  /\ TopIs({"release"})
  /\ e \in Top.todo
  /\ stack' = LET rest == Append(Below, Release(Top.todo \ {e}))
              IN  IF listened THEN Append(rest, Frame("callback", None)) ELSE rest
  /\ target' = [o \in Observers |-> IF o \in InMap(e) THEN None ELSE target[o]]
  /\ debt' = [o \in Observers |-> IF o \in InMap(e) THEN "none" ELSE debt[o]]
  /\ UNCHANGED <<updates, flushing, queue, pending, life, active, windowVars, endVars>>

EndRelease ==
  /\ TopIs({"release"})
  /\ Top.todo = {}
  /\ Pop
  /\ UNCHANGED <<updates, flushing, queue, pending, life, observerVars,
                 windowVars, endVars>>

\* An effect is popped after take_dropped was empty, and the loop starts over.
Applies(kind) ==
  /\ TopIs(FlushKinds)
  /\ looked
  /\ queue # <<>>
  /\ Head(queue).kind = kind
  /\ queue' = Tail(queue)
  /\ looked' = FALSE
  /\ UNCHANGED <<quit, bare, late>>

\* Mutant of ApplyNotify: the entity stays in pending_notifications.
ApplyNotifyStaysPending ==
  LET e == Head(queue).of IN
  /\ Applies("notify")
  /\ IF InMap(e) = {} THEN UNCHANGED stack ELSE Push(Pass(e, InMap(e)))
  /\ UNCHANGED <<updates, flushing, pending, life, observerVars, windowVars>>

\* apply_notify_effect: retain takes the observers out of the map.
ApplyNotify ==
  LET e == Head(queue).of IN
  /\ Applies("notify")
  /\ pending' = pending \ {e}
  /\ IF InMap(e) = {} THEN UNCHANGED stack ELSE Push(Pass(e, InMap(e)))
  /\ UNCHANGED <<updates, flushing, life, observerVars, windowVars>>

\* apply_defer_effect of the callback that new_observer deferred.
ApplyActivate ==
  /\ Applies("activate")
  /\ active' = active \cup {Head(queue).of}
  /\ UNCHANGED <<updates, flushing, pending, stack, life, target, debt, windowVars>>

\* apply_entity_created_effect without, or with, an observe_new observer for
\* the type.  The latter expects the window in its place and panics otherwise:
\* the program ends there.
ApplyCreated(observed) ==
  LET w == Head(queue).win IN
  /\ Applies("created")
  /\ \/ ~observed /\ UNCHANGED <<stack, window, updates>>
     \/ /\ observed /\ w = None
        /\ Push(Frame("callback", None))
        /\ UNCHANGED <<window, updates>>
     \/ /\ observed /\ w # None /\ window[w] = "open"
        /\ Push(Frame("window", w))
        /\ window' = [window EXCEPT ![w] = "taken"]
        /\ updates' = updates + 1
  /\ UNCHANGED <<flushing, pending, life, observerVars, removed, tracked>>

\* retain calls an active observer with the emitter; without the emitter (its
\* last handle is gone) the observer returns false and is removed.
VisitObserver(o) ==
  LET visited == [Top EXCEPT !.todo = @ \ {o}]
      alive   == life[Top.on] = "alive" IN
  /\ TopIs({"pass"})
  /\ o \in Top.todo
  /\ stack' = IF o \in active /\ alive
              THEN Append(Append(Below, visited), Frame("callback", None))
              ELSE Append(Below, visited)
  /\ target' = IF o \in active /\ ~alive THEN [target EXCEPT ![o] = None] ELSE target
  /\ debt' = IF o \in active THEN [debt EXCEPT ![o] = "none"] ELSE debt
  /\ UNCHANGED <<updates, flushing, queue, pending, life, active, windowVars, endVars>>

EndPass ==
  /\ TopIs({"pass"})
  /\ Top.todo = {}
  /\ Pop
  /\ UNCHANGED <<updates, flushing, queue, pending, life, observerVars,
                 windowVars, endVars>>

\* Mutant of EndFlush: flushing_effects stays set.
EndFlushStaysFlushing ==
  /\ TopIs(FlushKinds)
  /\ looked /\ queue = <<>>
  /\ Pop
  /\ updates' = IF Top.kind = "flush" THEN updates - 1 ELSE updates
  /\ bare' = FALSE
  /\ looked' = FALSE
  /\ UNCHANGED <<flushing, queue, pending, life, observerVars, windowVars, quit, late>>

\* No effect is left either: break, and the update that flushed resets
\* flushing_effects, counts itself out and returns.  Nothing is looked at again,
\* and no other thread sees the two fields: the steps are one.
EndFlush ==
  /\ TopIs(FlushKinds)
  /\ looked /\ queue = <<>>
  /\ Pop
  /\ IF Top.kind = "flush"
     THEN flushing' = FALSE /\ updates' = updates - 1
     ELSE UNCHANGED <<flushing, updates>>
  /\ bare' = FALSE
  /\ looked' = FALSE
  /\ UNCHANGED <<queue, pending, life, observerVars, windowVars, quit, late>>

\* App::shutdown, from the platform's on_quit: the windows are cleared and the
\* effects flushed, outside of any update.  The quit observers it calls first run
\* like a bare callback (StartBare).  The platform quits once.
Shutdown ==
  /\ AllowShutdown
  /\ ~quit
  /\ quit' = TRUE
  /\ stack = <<>>
  /\ window' = [w \in Windows |-> "closed"]
  /\ Push(Frame("shutdown", None))
  /\ UNCHANGED <<updates, flushing, queue, pending, life, observerVars, removed,
                 tracked, bare, lookVars>>

-----------------------------------------------------------------------------
Next ==
  \/ StartBare \/ EndBare \/ StartUpdate \/ EndUpdate \/ EndWindow \/ EndCallback
  \/ \E e \in Entities :
       \/ UpdateEntity(e) \/ NewEntity(e) \/ Notify(e) \/ DropEntity(e)
       \/ \E o \in Observers : Observe(o, e)
       \/ \E listened \in BOOLEAN : ReleaseEntity(e, listened)
  \/ \E w \in Windows : UpdateWindow(w)
  \/ RemoveWindow \/ BeginDraw
  \/ \E ents \in SUBSET {e \in Entities : life[e] = "alive"} : EndDraw(ents)
  \/ TakeDropped \/ FindNothingDropped \/ EndRelease
  \/ ApplyNotify \/ ApplyActivate
  \/ \E observed \in BOOLEAN : ApplyCreated(observed)
  \/ \E o \in Observers : VisitObserver(o)
  \/ EndPass \/ EndFlush \/ Shutdown

Spec == Init /\ [][Next]_vars

-----------------------------------------------------------------------------
FrameType == {f \in [kind : UserKinds \cup FlushKinds \cup {"pass", "release"},
                     on : Entities \cup Windows \cup {None},
                     todo : SUBSET (Observers \cup Entities), held : SUBSET Observers] :
                f.kind \in {"window", "draw"} => f.on \in Windows}

TypeOK ==
  /\ updates \in Nat
  /\ flushing \in BOOLEAN
  /\ queue \in Seq(Effects)
  /\ pending \subseteq Entities
  /\ stack \in Seq(FrameType)
  /\ life \in [Entities -> {"unborn", "alive", "dropped", "released"}]
  /\ target \in [Observers -> Entities \cup {None}]
  /\ active \subseteq Observers
  /\ window \in [Windows -> {"open", "taken", "closed"}]
  /\ removed \subseteq Windows
  /\ tracked \in [Windows -> SUBSET Entities]
  /\ quit \in BOOLEAN
  /\ looked \in BOOLEAN
  /\ bare \in BOOLEAN
  /\ late \subseteq Entities
  /\ debt \in [Observers -> {"none", "owed", "early"}]

Idle == stack = <<>> /\ ~bare

\* pending_notifications mirrors the queue, and the queue holds no entity twice:
\* a notification is neither repeated nor swallowed by a stale entry.
NotifyQueuedOnce ==
  LET at(e) == {i \in DOMAIN queue : queue[i] = NotifyEffect(e)} IN
  \A e \in Entities : Cardinality(at(e)) = IF e \in pending THEN 1 ELSE 0

\* When an effect is applied or an entity released, nothing is on the stack:
\* every entity is in the map and every open window in its place.
NothingLeasedWhileFlushing ==
  TopIs(FlushKinds \cup {"release"}) =>
    Leased = {} /\ \A w \in Windows : window[w] # "taken"

\* The types; pending_updates counts the updates on the stack, so it is one only in
\* the outermost; and flushing_effects is set exactly while that one flushes.
UpdatesCounted ==
  /\ TypeOK
  /\ updates = Cardinality({i \in DOMAIN stack :
                 stack[i].kind \in {"update", "lease", "window", "flush"}})
  /\ flushing <=> \E f \in Frames : f.kind = "flush"

\* When the outermost update has returned, no effect waits, and every entity that
\* was dropped before its flush last looked is released: all that user code
\* dropped, in whatever call or callback.  What another thread dropped after that
\* look waits for the next update.
Quiescent == Idle => queue = <<>> /\ Dropped \subseteq late

\* Until shutdown every active observer is told of a notify that reached the
\* queue: in the same flush, however the effects of the callbacks interleave with
\* it.  (The flush of shutdown is no update, so those of its callbacks flush too.)
NotifyDelivered == Idle /\ ~quit => \A o \in Observers : debt[o] # "owed"

\* Until shutdown no observer is left behind for an entity that is released.
NoObserverOfReleased ==
  ~quit =>
  \A o \in Observers :
    target[o] # None /\ life[target[o]] = "released" =>
      \E f \in Frames : f.kind = "release" /\ target[o] \in f.todo

-----------------------------------------------------------------------------
(* What comments and an expect of the repository say.                      *)

\* "Arrange for the given function to be called whenever Context::notify is
\* called with the given entity."
NotifyReachesNewObserver == Idle => \A o \in Observers : debt[o] # "early"

\* flush_effects is called to "complete any side effects" of the update: no dropped
\* entity is unreleased when the outermost update has returned.
AllReleased == Idle => Dropped = {}

\* "All windows should be off the stack when flushing effects": the window of an
\* EntityCreated effect is there when the effect is applied.
CreatedWindowFound ==
  TopIs(FlushKinds) /\ looked /\ queue # <<>> /\ Head(queue).kind = "created"
    => Head(queue).win = None \/ window[Head(queue).win] = "open"
=============================================================================
