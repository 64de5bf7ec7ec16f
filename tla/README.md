# A verification of GPUI (community edition)

GPUI is a GPU-accelerated UI framework: an `App` owns all the state of a
program as *entities*, code reaches them through reference-counted handles and
changes them inside *updates*, and what an update did (notifications, events,
releases) is told to subscribers when the outermost update ends. This directory
holds TLA+ modules translated from the Rust sources, the TLC configurations
that check them on small instances, and proofs of their safety properties that
the TLA+ proof system (TLAPS) checks. Paths below are relative to the crate's
own `src/`.

    tlasany EntityMap.tla                          parse
    tlc -config MCEntityMap.cfg MCEntityMap.tla     model-check
    tlapm EntityMapProofs.tla                       prove

## 1. Inventory

| Component | State it keeps | Operations | What is hard | What makes it correct |
|---|---|---|---|---|
| **Entity map and handles** `app/entity_map.rs`, `util.rs` | the slot map of entities; a reference count per entity (atomic) and the queue of dropped ids, shared with every handle on every thread | `reserve`, `insert`, `lease`, `end_lease`, clone, drop, `upgrade` of handles, `take_dropped` | drop, upgrade and take_dropped run on different threads; a count is decremented and its id queued in two steps | counts are the handles; every dead id is queued once; data outlives strong handles; none comes back |
| **Subscriptions** `subscription.rs` | a map from emitters to callbacks (`None` while a pass has it out), the set of dropped subscribers | `insert`, activate, unsubscribe (drop), `detach`, `remove`, `retain` | callbacks change the set they are called from | no live subscriber is lost or called twice at once; a dropped one is gone |
| **App** `app.rs`, `app/context.rs` | pending updates, flag `flushing_effects`, queue of effects, pending notifications, observers, listeners, windows | `update`, `notify`, `emit`, `observe`, `subscribe`, `observe_release`, `open_window`, `update_window`, `shutdown`, flush | re-entrance: every callback may start updates, drop handles, close windows; deferred activation | flush runs once, outermost, with nothing leased; leaves nothing behind; nobody misses a notification |
| **Priority queue and workers** `queue.rs`, `platform/linux/dispatcher.rs` | three queues under a mutex with a condvar; counts of senders and receivers | `send`, `recv`, `try_recv`, iteration, clone, drop | lost or stolen wake-ups, disconnection, starvation | each runnable runs once; none waits while all sleep; workers live as long as the sender |
| **Executor** `executor.rs` | tasks, parents that lend what they own to children on other threads | `spawn`, `await_on_background`, `scoped`, `block`, `block_with_timeout`, `timer` | cancellation at any await; drops that block a thread; a deadline that races the answer | a borrow never outlives its owner; blocking ends |
| **Main-thread dispatch** `platform/linux/dispatcher.rs`, `platform/linux/*/client.rs` | the calloop queue and ping, idle callbacks, the timer thread | `dispatch_on_main_thread`, `process_events`, `dispatch_after`, quit | push and ping are two steps, so are the drop's ping and count; tasks that block the loop | every runnable is run on the main thread, unless the loop is stopped |
| **Window: frames** `window.rs`, `view.rs` | invalidator (phase, dirty, dirty views), rendered and next frame, view caches, element states, tracked entities | `draw`, `refresh`, `notify`, `on_next_frame`, `reuse_prepaint`, `reuse_paint`, `defer_draw` | notify and focus while drawing; reuse of ranges of the last frame in two phases | a frame is one that could be drawn from nothing; a notified view is drawn again; focus listeners are told |
| **Interaction** `elements/div.rs`, `window.rs`, `app.rs` | pending press, active state and tooltip of each element, hit test, active drag | mouse down, up, move, file drop, `stop_active_drag`, tooltip timers, paint of listeners | the listeners are those of the last frame, the state lives across frames; timers | a click is of its own press; what is painted as hovered, pressed, dragged is, or a frame is due |
| **Focus and tab order** `window.rs`, `app.rs`, `tab_stop.rs` | `FocusMap` with a count per id, the focused id, tab operations of two frames | `focus_handle`, clone, drop, upgrade, `focus`, `blur`, `focus_next`, `focus_prev`, `release_dropped_focus_handles`, `replay` | handles in two frames and on other threads; replay of parts of a frame in other groups | counts are the handles; no focus on a released id; Tab goes round all stops |
| **Window: actions and keys** `key_dispatch.rs`, `window.rs`, `keymap*` | dispatch tree, pending keystrokes and their timer, bindings | `dispatch_key`, `dispatch_action`, `flush_dispatch`, `bindings_for_input` | a timer that races the next key; precedence | the binding with precedence runs; no key is lost |
| **List element** `elements/list.rs` | items with cached heights, logical scroll top, sizing and measuring, scrollbar drag | `splice`, `reset`, `scroll_by`, `scroll_to`, `scroll_to_reveal_item`, wheel, `layout_items`, autoscroll | indices and heights of older frames, rows never measured | heights are right; no gap; the scroll top stays with its row; what is to be in view is |
| **Asset cache** `app.rs`, `window.rs`, `elements/image_cache.rs` | loading tasks by id | `fetch_asset`, `use_asset`, `remove_asset`, `load` | several views wait for one task; removal while loading | every view that asked is drawn again |
| **System window tabs** `app.rs` | groups of windows | `init_visible`, `add_tab`, `remove_tab`, `move_tab_to_new_window`, `merge_all_windows` | long sequences of calls | a window is in one group |
| **Layout caches, scene structures** `text_system/line_layout.rs`, `arena.rs`, `bounds_tree.rs` | two frames of layouts; arena; order of bounds | `finish_frame`, `reuse_layouts`, `insert` | indices across frames | reference definitions |
| **Platforms, renderers, elements, style** | device state | I/O, geometry, drawing | | not modelled: see section 7 |

How they meet. Code runs on the main thread, in callbacks of the platform's
event loop or in tasks the foreground executor polls; both enter `App::update`.
An update leases an entity out of the **entity map**, runs the callback and
puts the entity back. What the callback queues is applied by
`flush_effects` of the outermost update, which asks the entity map for dropped
entities, then walks **subscriber sets** (observers, event and release
listeners). Notifications reach a **window** through its invalidator, which
decides whether they become effects. **Background tasks** go through the
priority queue to the worker threads; handles dropped there reach the App only
through the queue of dropped ids, at the next flush. What they wake on the main
thread goes through the calloop queue. A **frame** is drawn between events: it
leaves the listeners, hitboxes, dispatch nodes and tab stops that the next
**mouse** and **key** events and **Tab** work with, until a later frame takes
their place.

The hard behaviours, each at its line, are the `hazards` of `PROJECT.json`.

## 2. Modules and code

| Module | Models | Holds |
|---|---|---|
| `EntityLifetime` | abstract: an entity is alive while it is held, then dead, then freed, never back | the specification `EntityMap` implements |
| `EntityMap` | `app/entity_map.rs`, `util.rs` | state, actions, properties, refinement mapping |
| `EntityMapProofs` | | proofs |
| `SubscriberSet` | `subscription.rs` | state, actions, properties |
| `SubscriberSetProofs` | | proofs |
| `AppEffects` | `app.rs` 740-900, 1300-1430, 2130-2145 and what they call of `context.rs`, `entity_map.rs`, `window.rs` | state, actions, properties |
| `AppEffectsProofs` | | proofs |
| `PriorityQueue` | `queue.rs`, the loop of the workers in `platform/linux/dispatcher.rs` | state, actions, properties, fairness |
| `ScopedTasks` | `executor.rs` 216-300, 490-530, 800-860 | state, actions, properties, fairness |
| `MainLoop` | `platform/linux/dispatcher.rs` 91-364, `queue.rs`, `executor.rs` 368-405, 670-711, the runnables' way through `platform/linux/x11/client.rs` | state, actions, properties, fairness |
| `ExecutorProofs` | | proofs of `PriorityQueue`, `ScopedTasks` and `MainLoop` |
| `WindowFrame` | `window.rs` 103-143, 1137-1225, 2187-2674, 3000-3147, `view.rs` 160-292, `key_dispatch.rs` 563-585 | state, actions, properties |
| `WindowFrameProofs` | | proofs about types and the focus, and lemmas about trees of views and lists |
| `WindowNotifyProofs` | | proofs that no notification is lost |
| `Pointer` | `elements/div.rs` 1678-1822, 2188-2535, 2786-3066, `window.rs` 818-840, 4003-4152 | state, actions, properties |
| `FocusTabs` | `tab_stop.rs`, `window.rs` 324-458, 1575-1621, `app.rs` 1335-1355 | state, actions, properties |
| `ListElement` | `elements/list.rs` 155-1181 | state, actions, properties |
| `ElementProofs` | | proofs of `Pointer`, `FocusTabs` and `ListElement`, with the lemmas about sums of heights |
| `Keymap` | `keymap.rs`, `keymap/binding.rs`, `key_dispatch.rs` 444-550 | operators without state: which bindings a sequence of keystrokes finds, how it is cut into pieces |
| `KeyDispatch` | `window.rs` 950-960, 1574-1593, 4154-4443 | extends `Keymap`; state, actions, properties |
| `KeyDispatchProofs` | | proofs, with the lemmas about `Keymap` |
| `MC*` | | values for TLC; `ScopedTasks`, `MainLoop` and `SubscriberSet` need none but those of their configurations |

Every definition that models code is in the `map` of `PROJECT.json` with its
lines. A definition that begins with `\* Mutant of` is a variant with a
plausible bug, which the property named beside it in `mutants` must refuse; it
is no part of the specification. Since a step of the code often has several
promises to keep at once, most properties of the runs are conjunctions of named
parts (`FrameSound == WindowTypeOK /\ FrameWhole /\ StatesKept`), each part with a
comment of its own.

### How state and steps correspond

**EntityMap.** `counts`, `dropped` are `EntityRefCounts`; `entities`, `leases`,
`accessed` are the main thread's; `handles` says what each strong handle points
to. The `RwLock` is not a variable: a write lock is one step, and what a thread
holds between two accesses under a shared lock is its `dropping` (an upgradable
lock between `fetch_sub` and the push) or `loaded` (a read lock in the
compare-and-swap loop of `upgrade`), which `CanWrite` and the guards read.
`WeakLoad`, `WeakRetry` and `WeakExchange` are the loop of
`atomic_incr_if_not_zero`. Keys are numbers that are never reused: a `SlotMap`
key carries the version of its slot. `released` is a history variable, for the
refinement. `EntityLifetime` knows only handles and stages (unused, alive,
dying, gone); `StageOf` maps a count to a stage.

**SubscriberSet.** `entry` and `subs` are the map of `Option`s of maps,
`dropped` is `dropped_subscribers`; `pass` holds the locals of each `retain` on
the stack. `BeginRetain` takes the map out, `Visit` goes to the next callback in the order of ids,
`CallbackReturns` keeps or removes it, `EndRetain` merges
what was inserted meanwhile and applies the recorded drops. Between `Visit` and
`CallbackReturns` the operations of outside code (`Insert`, `Activate`,
`Unsubscribe`, `Detach`, `Remove`, `BeginRetain`) may run.

**AppEffects.** `stack` is the call stack: a frame for each `update`, leased
entity, window update, draw, callback and loop that has not returned. `updates`,
`flushing`, `queue`, `pending` are the fields of `App`; `window` says where a
window is (`update_window` takes it out of its place). `FinishUpdate` is
`App::finish_update`: only the outermost one starts a flush. The frames
`release`, `flush`, `shutdown` and `pass` are the loops, one iteration a step.
An iteration of a flush begins with a look at what was dropped (`TakeDropped`, or
`FindNothingDropped`, which sets `looked`), and only then takes an effect or ends:
`DropEntity` is a step of any thread, so an entity may be dropped between the last
look and the end of the flush, and of the update (`EndFlush`, the `break`,
`flushing_effects = false` and `pending_updates -= 1`, fields that no other thread
sees and between which nothing is read). `late` is a history variable: what was
dropped since a look found nothing. `debt` is a history variable: which observer is still to be told of a
notification, and whether that came before its activation.

**PriorityQueue.** A step is one critical section of the mutex or one access to
an atomic count. `worker` says where a thread is: `ready` (to enter `recv`),
`waiting` (in the condition variable), `woken` (notified, without the mutex),
`running`, `ended`. The loaded die of `pop_inner` is a choice among what a flip
may do (`MayPassOver`: certain or not, from the masses of the queues that are not
empty); its random numbers are left out. `SendCheck` reads `receiver_count`
before the lock, `Push` is the critical section.

**ScopedTasks.** The states are those of `async_task`: scheduled, running, idle,
gone. `doing` says what each thread does: it polls a child, or it waits
(blocked) in the drop of a parent. `Cancel` closes a parent and
schedules it once more, so that a thread of its own drops it. `done` is the flag
under the mutex (`await_on_background`) or the closed channel (`scoped`). A child of
`await_on_background` ends in two steps, as `NotifyOnDrop` does: `Finish` drops the
future and sets the flag, which leaves it `notifying`, and `Notify` is the
`notify_all` after the mutex is free. `DropParent`, `Sleep` and `EndWait` are
`WaitOnDrop`: it looks at the flag, sleeps if it is not set, and goes on when it is
woken or had found it set, be the child still `notifying` or not.

**MainLoop.** `sent` says where each runnable is (with its sender, timing,
queued, in an idle callback, running, done). `send` of the calloop sender is
three steps (`SendCheckMain` reads the receiver count, `PushMain`, `Ping`), its drop
is two (`DropMainSender` pings, `SenderGone` decrements the count). `ProcessEvents`,
`TakeRunnable`, `EndProcess` are the receiver's `process_events`, `RunIdle` and
`Return` the client's idle callbacks. `main`, `clock`, `token`, `answer` are
`block_internal` with its parker and deadline. Calloop is external.

**WindowFrame.** `todo` is the call stack of a draw; its heads are calls of
`layout`, `prepaint`, `paint` of a view, and the ends of cached and deferred
parts. A frame is lists of items (everything prepaint records), element state
keys, deferred draws and paint, with the element states; a view puts `2 - state` items
in it, so that whatever follows moves when the view changes. `PrepaintCached`
renders a cached view whole (`refreshing`), `PrepaintReused` and `PaintReused`
copy ranges of the rendered frame. A view that is painted with a state that prepaint
did not leave would be the panic of an `unwrap` in `AnyView::paint`: the draw stops
there, and the run's check for deadlock says that it never does. `ProgramRuns` says where a draw calls the
program, which may change, notify and focus there. `owed`, `within`, `late` are
history: a notification to be seen, what the focus listeners were told, a focus
moved in a draw.

**Pointer.** An element is its number in the order of painting. `frame` is what
the listeners captured when they were painted (`was_hovered`, the choice between
setting and resetting the active state, the drag's view); `pending`, `clicked`,
`tip` are the element states, which `DrawFrame` keeps for the elements it draws. A
mouse event is one action, capture and bubble phase with all listeners: `Down`,
`Moved`, `Released`, called by the file-drop events too, `WheelAt` and `Magnify`. Each
has a position of its own, which becomes `mouse_position` before the hit test
(`PositionFrom`), with a move before it or not. `ShowTip` and `HideTip`
are timers. `owed`, `due`, `missed`, `ghosts`, `leftOver` are history: presses
and what became of them; so is `jumped`: an event other than a move came from elsewhere
than where the mouse was, which no hover style has heard.

**FocusTabs.** `refs` is the `FocusMap`, `held` the handles of views, element
states and threads; `rendered` and `next` are the `insertion_history` of the tab
stops of two frames, from which order and groups are computed (`Path`,
`Precedes`); `Reuse` replays a part of one in the other. A paint is many steps,
between which handles are cloned and dropped. Tab index and stop are in the entry and
in every handle: `carried` is what the handles of an entry carry, each what the entry
said when it was cloned, and `SetTabIndex` and `SetTabStop` change one handle and the
entry. `TabStopMap::insert` makes a node of what the painted handle says and keeps a
clone, which says what the entry says: `Insert` has both (`index`, `stop` and `kept`), and
a replay (`Again`, `Replayed`) makes its nodes of `kept` and keeps a new clone.

**ListElement.** `items` is the sum tree as its sequence of leaves. `LayoutItems`
is `layout_items` as one operator: the loops down, up and for the leading
overdraw are the first number at which their condition fails. `Prepaint` adds
the autoscroll retry. `painted` is what the last paint's listeners captured: the
wheel works on its scroll top. Heights are numbers that depend on row and width.

**Keymap, KeyDispatch.** A keymap is a sequence of bindings, a context stack a
sequence of contexts. `DispatchKey` and `FlushDispatch` recurse like
`dispatch_key` and `flush_dispatch`, as recursive functions over the number of
keystrokes already replayed. `stack` holds the dispatches that have not
returned, each with the pieces it has to handle and what it will store as
pending; `TypeKey` runs the interceptors, `DispatchEvent` takes the pending
input and looks the keystrokes up, `Try` and `Tried` run the bindings of one
piece after the other, `EndDispatch` stores what is pending. Inside of an
interceptor, an action or a listener (`user`) the focus may move and keystrokes
may be dispatched. `fate` records in which order keystrokes were dealt with,
`intercepted` those an interceptor stopped.

## 3. Runs

| Run | Instance (distinct states) | Shows |
|---|---|---|
| `entity_map` | a main and a background thread, 3 handles, 2 entities (6,157) | counts are the number of handles at every step; a dead id is queued once, so the `unwrap` and assertions of `take_dropped`, `clone` and `drop` do not fail; data outlives handles; the map implements `EntityLifetime` |
| `subscriber_set` | 2 emitters, 3 subscribers, passes not nested (88,691) | no live subscriber is lost, none is in two places, a drop during a pass is recorded, and for the emitter of this pass |
| `app_effects` | 2 entities, 1 observer, 1 window, calls 4 deep, 3 effects queued, drops on other threads, shutdown (1,333,358) | pending notifications mirror the queue; nothing is leased in a flush; counts and flags agree with the stack; the flush leaves nothing behind that was dropped before it looked last; every active observer is told; none remains of a released entity |
| `priority_queue` | 3 workers, 4 items of 3 priorities, one of which repeats (41,481) | each runnable in one place; no lost wake-up; a worker stays; everything sent is run |
| `scoped_tasks` | 3 parents (on main, in the pool; scoped or awaiting), 3 workers, 2 polls (136,695) | a parent outlives the future that borrows from it, though the flag and the notification are two steps; scopes end |
| `main_loop` | 3 runnables, one delayed, one that blocks with a timeout (17,001) | `QueueServed`: one place each, no lost ping, the source removed last; every runnable runs unless the loop is stopped |
| `window_frame` | a root with a list, a cached panel, a cached label in it and a deferred menu; 1 interruption a draw (1,427,401) | `FrameSound`: a frame made of parts is one drawn from nothing; notified views are drawn; late notifications are remembered, all shown views tracked; focus listeners and focused element are right |
| `window_frame_untracked` | the same, the root reads what the cached label shows | **violated**: a notify of a shown view changes nothing |
| `pointer` | 2 overlapping elements, one draggable, focusable, with a tooltip, stopping clicks and refusing drops; 2 scenes, 2 positions, any event at either, 2 buttons, files from outside (442,347) | `ClicksArePresses`: no ghost click, nothing pressed or dragged without a button, no state of what is not drawn; `PaintedIsTrue`: active and hover styles, dragged view and tooltip are current or a frame is due |
| `focus_tabs` | 3 entries, two held for good, one whose index or stop is changed once at any time, groups, 4 operations a frame (1,451,992) | counts are the handles of views and both frames; the focus exists; Tab and Shift-Tab go round all stops, opposite ways; replay keeps the order and the stops of what was painted with current handles |
| `list_element` | 3 rows of different heights in 2 widths, 3 kinds of lists, 2 calls (80,668) | heights are right; no gap, pinned to the end; frames settle; what is asked into view is; a splice leaves the scroll top with its row |
| `key_dispatch` | 5 keymaps, 3 focuses, 3 keystrokes of 2 kinds, dispatches 2 deep (454,486) | keystrokes are dealt with once and in order; bound ones time out; observers see what is pending |

Sixteen more configurations end in a counterexample, each of a statement that a
comment or a name of the sources makes, or of a property without what it leaves out;
section 5 lists them.

### Bounds, and why they are enough

*EntityMap.* The hazards are pairs: a drop against an upgrade, a drop against
`take_dropped`, two handles of one entity on two threads. Three handles allow two
to one entity and one elsewhere (or a clone in between); two entities are needed
for a queue with an order. The proofs hold for any number, so the run mainly
shows that the invariant is not vacuous.

*SubscriberSet.* The merge needs a subscriber that was there, one that is
inserted meanwhile, and one that is dropped; two emitters tell the passes'
records apart. Nested passes (`MaxPasses > 1`) break `RecordsOfThisPass` and
`CancelRecorded`, which is why the run has one: nesting needs a flush inside of
a flush, which only `shutdown` can cause. The other properties are proved for
any nesting.

*AppEffects.* Four frames are: a window update, a lease in it, a nested update,
and a draw or callback; in the flush: the flush, a pass, its callback, an update
of that. Three effects are a notification, an activation and a second entity's
notification, in any order. Two entities are one that is dropped in time and one that
is dropped, on another thread, after the last look. One observer is enough since observers interact only
through the subscriber set, which has its own module.

*PriorityQueue.* Two workers show the stolen wake-up; the third shows that the
rest go on. Three priorities and a repeating item show that the die may pass over
a queue, but not all of them.

*ScopedTasks.* `scoped_tasks` keeps one worker more than scopes can block, since
`Drop for Scope` blocks a thread of the pool; with as many scopes as threads
nothing would end, by design of the code. Two polls tell a child that was polled
once from one that was polled never or to its end. Each pair of parent and child has its
flag to itself, and the one parent that awaits meets every order of flag, notification,
look and sleep; two of three workers may be busy with the others meanwhile.

*KeyDispatch.* Three keystrokes are enough for the longest binding of the
keymaps, for a prefix of two that is replayed in pieces, and for a pending key that
survives the replay of another. Depth two is a keystroke dispatched by an action or
an interceptor. The keymaps hold bindings that are prefixes of others, in both
orders, in the same and in different contexts, and with `NoAction` of a user and
of a built-in keymap.

*MainLoop.* A runnable in the queue, one between push and ping, and one that
comes by the timer thread are the three that can meet; a fourth would repeat
one of them. One blocks, since a blocked main thread runs nothing else.

*WindowFrame.* A cached view in a cached view, with siblings before it that come
and go, and a deferred one inside: the shortest tree in which ranges move, nest
and are reused through another reuse. One interruption a draw is a change, a
notification or a move of the focus at any point of it. Only one view's state
besides the root's changes, and one view can be focused. A larger tree adds
views, not ways to reuse.

*Pointer.* Two elements and two positions allow every relation of two areas:
over both, over one, hidden behind. The two scenes have the elements one over the other,
and apart with one hidden; an element that is not drawn at all is met before the first
frame. Every event comes at either position, after a move to it or not. A threshold of 0 makes every move
a possible drag; the proofs hold for any.

*FocusTabs.* Three handles and four operations a frame give two groups, or one
with two in it, and a part to replay with something before it. One entry is given another
index or becomes no stop, once, before, between or after the frames that paint and replay
it; what its node was made of and what is kept then differ from its first replay on. The
same with two handles of that entry, made with either of two indexes, so that a painted
handle can be behind its entry, has 9,355,636 states and no error.

*ListElement.* Three rows of which one or two fit, an overdraw and a padding of
one pixel, and wheel deltas up and down: each border of `layout_items` (at the top,
inside of a row, at the end, beyond it) is met. Two calls of the client between
frames are a call on the state that another left.

`CHECK_DEADLOCK FALSE` is where finite supplies of entities, subscribers,
runnables, keystrokes or calls end, or the loop is stopped, and then nothing is
left to do.

### Fairness

`PriorityQueue`, `ScopedTasks` and `MainLoop` are the only modules with threads that
wait, and the only ones with liveness properties.

- *WF of each worker's step, each push, each step of the main thread*: an OS
  thread that can go on does. A worker that waits in the condition variable is not
  enabled until it is notified, nor the main loop until it is pinged, so no lost
  wake-up is hidden by fairness.
- *WF of pings and of the timer thread's sends, WF of the clock*: a thread between
  push and ping goes on, delays pass, deadlines come. That a future which is blocked on is
  ever ready is not assumed.
- *SF that a task which reschedules itself is done in the end*: `Vec::pop` takes
  the newest item, so a task that woke itself for ever would starve the older ones
  of its priority. The code does nothing against this; `EveryItemRuns` says that
  it is the only way to starve.
- *WF of wakers* (`WakeChild`): what a child waits for happens. Without it a
  scope would rightly never end.
- *Nothing else*: no sends, cancellations, or drops of the sender are forced, and
  the loop may be stopped at any time.

The other modules have no fairness. That a dirty window is drawn depends on the
platform asking for frames; their properties say "or a frame is due".

## 4. Proofs

All theorems are of the form `Spec => []Inv` (or an action property or the
refinement) for every value of the constants, under the constants' assumptions
only. Each rests on an inductive invariant `IInv` with the three facts
`Init => IInv`, `IInv /\ [Next]_vars => IInv'` and `IInv => Inv`; the second has a
lemma per action that disturbs something.

| Theorem | Property | Why the property is not inductive by itself |
|---|---|---|
| `EntityMapProofs!CountsAreExact`, `QueueIsExact`, `DataLives` | `RefCountExact`, `DroppedQueueExact`, `DataOutlivesHandles` | an upgrade must know that the count it read is of a slot that exists (`LoadedLive`: its read lock keeps `take_dropped` out), a push that no other thread is at one (`OneDropper`), `reserve` that its key is fresh (`FreshKeys`) |
| `EntityMapProofs!NoneResurrected`, `LifetimeImplemented` | `NoResurrection`, `ImplementsLifetime` | step by step from the same invariant; the counting part uses cardinalities of finite sets (`HandleGained`, `HandleLost`) |
| `SubscriberSetProofs!NoneLost`, `NeverTwice`, `NothingLeftTaken` | `NoLiveLost`, `OwnedOnce`, `TakenOnlyInPass` | ids not handed out are nowhere (`Fresh`), a callback is filed under its emitter (`Filed`), a pass visits what it holds (`PassesHold`), records are of cancelled ids |
| `SubscriberSetProofs!CancelledUnlessLate` | `CancelRecorded` | for `MaxPasses = 1`: a nested pass takes the outer one's records |
| `SubscriberSetProofs!RecordsAreOfThePass` | `RecordsOfThisPass` | for `MaxPasses = 1`: outside of a pass nothing is recorded, and a callback whose map is there is removed instead of recorded |
| `ExecutorProofs!RunsOnce`, `NeverLost`, `LastWorkerStays` | `RunOnce`, `NoLostWakeup`, `OneWorkerLeft` | `TakerLives`: while the queues are empty and somebody is woken, the worker that took the last item is alive and not woken, so whoever ends is not the last one. `receiver_count` is a cardinality (`ReceiversCounted`), so it does not come to zero |
| `ExecutorProofs!ScopeSound` | `EnvironmentOutlives` | the flag is set only after the future of the child is gone (`ToldLast`), and a child is polled by one thread (`PolledByOne`). What it does not say is that the child is gone: one that is `notifying` may still touch the Condvar of the parent's frame (section 5) |
| `ExecutorProofs!Served` (of `OnePlace`, `PingsArrive`, `RemovedLast`) | `QueueServed` | nothing is sent, and nothing is on its way, once the sender's drop began (`NothingAfterDrop`): without that a runnable could come after the ping that ended the loop's interest |
| `AppEffectsProofs!UpdatesAreCounted`, `NotificationsQueuedOnce`, `FlushFindsAll`, `NothingLeftBehind`, `ObserversAreTold`, `NoneObservesReleased` | the six of `app_effects` | the shape of the call stack (`StackOK`): the loops of a flush run above it and no update is below it, so that whatever a callback leaves is found by a loop that has not returned. `QueueMirrored` is `NotifyQueuedOnce` without counting; `WorkAwaited`: what was queued has an update that will flush; `DebtHeld`: who is owed a notification has it pending, or a pass is on its way; `ReleasedSoon`: observers of what was released are removed by a loop on the stack; `Unseen`, `AllSeen`: when the flush has looked, all that is dropped was dropped after it. So `NothingLeftBehind` is of what was dropped before the last look; what comes later is left for the next update |
| `ElementProofs!ClicksAreOfPresses` | `ClicksArePresses` | a press is owed its release or has missed it (`PressesOwed`), what a listener captured is due a click (`CapturedIsDue`), also of what is not painted (`PressesHeld`) |
| `ElementProofs!PaintIsTrue` | `PaintedIsTrue` | the hit test is that of the rendered frame at the mouse, at every step (`HitIsCurrent`), and which listener takes an event in front (`GreatestIsThere`, by well-foundedness of the numbers). For the hover style only while the mouse did not jump |
| `ElementProofs!HandlesCounted`, `FocusSafe` | `HandlesAreCounted`, `FocusExists` | a window without focus has none on an entry (`DisabledHasNone`); what a history holds after an append, a part and a concatenation (`AppendIds`, `SubSeqIds`, `ConcatIds`) |
| `ElementProofs!TabGoesRoundAll` | `TabGoesRound` | a fact about any history: `Precedes` is a strict order of the nodes (paths compared index by index, and a node's own path ends in its position), so its successors and predecessors are opposite, and a set closed under successors that holds one stop holds all |
| `ElementProofs!ReplayIsFaithful` | `ReplayKeepsOrder` | of two replayed nodes the groups they share, and where their paths part, are the same in both frames. Of two nodes whose handles were current when they were inserted, the clones that are replayed say what the nodes were ordered by (`Current`); of others it says nothing |
| `KeyDispatchProofs!KeystrokesDealtWith` | `KeysDealtWith` | `Sound`: each keystroke is in the fate, pending, or with one dispatch of the stack, each at its own depth (`Owned`), a dispatch holds what its kind lets it hold (`Kind`), and without nesting there is one, whose keystrokes follow what is pending (`Alone`, `InOrder`) |
| `KeyDispatchProofs!BoundKeystrokesTimeOut` | `BoundOnesTimeOut` | what a dispatch is to store as pending is bound only with `needs` (`StoreWaits`), which rests on what `DispatchKey` and `FlushDispatch` return |
| `KeyDispatchProofs!ObserversSawPending` | `ShownIsPending` | a dispatch that has not returned tells the observers in its end (`Told`) |
| `ElementProofs!HeightsAreKnown` | `HeightsKnown` | `ListInv`: rows in order and no more than there are, an item for each with its handle or none (`ItemsOK`), a scroll top in the list (`TopOK`), heights as the rows have them in the width of the last frame (`HeightsOK`). A wheel or a drag works on what the last frame painted, so that is in it too |
| `ElementProofs!ViewportIsFilled` | `ViewportFilled` | `DrawnOK`: a layout that nothing has changed since is one that `layout_items` made. That one is right is `LayoutSound`: the loop down ends below the viewport or at the last row (`WayDown`), the one up above it or at the first (`WayUp`), what is rendered is the rows between them and the focused one (`ShownIs`, `WithFocusedIs`). A frame with a request runs it up to twice (`AutoscrollIs`, `RenderedIsFrame`) |
| `ElementProofs!BroughtIntoViewAll` | `BroughtIntoView` | a row that is seen is where its height puts it (`PlacedAtIs`, `SeenRow`), so what shows of a row when a place is scrolled to shows in the layout of that place (`LayoutShows`), whichever way the loops went; that is what a request is served by (`RenderedServes`, `AutoOK`). A row to be revealed is awaited over any number of calls and frames: `RevealOK` says that the list is scrolled to where the row is in view (`RevealedPlace`) and that layouts keep it there (`LayoutKeepsPlace`) |
| `ElementProofs!DrawsSettle` | `DrawSettles` | `RestOK`: what is remembered of a layout (the scroll top and the heights) leads the next one to the same place. A layout ends at rest: rows from its scroll top on reach as far as they may, and if it was moved up, then by what was missing (`LayoutRests`, `RenderedRests`); one that starts at rest is laid out as it was (`LaidOutAgain`), and what shows of either is what its place says (`InViewIs`) |
| `ElementProofs!SpliceKeepsTopRow` | `SpliceKeepsTop` | a row is at one place only (rows are ordered), and what a splice makes of a sequence is known by index (`SpliceIs`, `SplicedRows`) |
| `WindowFrameProofs!WindowTypesKept`, `FocusToldRight` | `FocusIsTold` | `WindowInv`: in the middle of a draw the frame being drawn has the focus if the items it has so far have it (`FocusKept`), unless it was moved during the draw, and what a part of the last frame brings in it brings with its focus (`ReusedIs`). For that the frames must be of their types at every step (`FramesOK`, one lemma for each thing that is done to a frame), and the call stack one of its phase (`CallsOK`): deferred draws are called by a number there is, and a cached view is painted with the state that prepaint left it |
| `WindowNotifyProofs!NotifiedAreDrawn`, `NotificationsAreKept` | `NotifiedIsDrawn`, `NotificationsKept` | `SeenInv`, for trees of views with `ReadsApart` and `NothingCachedDeferred` (below) |

`KeyDispatchProofs` also shows how recursion is dealt with: `DispatchKey` and
`FlushDispatch` are recursive functions over a number of keystrokes, whose values are
typed by a least counterexample (`LeastNumber`, `UpTo`, `DownFrom`), a fact about a set of
numbers that needs no operator as a parameter. That the pieces of a cut, put together, are
the keystrokes that went in is `CutSound`, `FlushDispatchType` and `DispatchKeyType`; that
of concatenations of sequences of sequences `FlattenIs`, `FlattenParts`, `FlattenParted`.
The theorems assume of the constants that keymaps are sequences of bindings of at least
one keystroke, and context stacks sequences of contexts (`KeymapsAssumption`,
`ContextsAssumption`).

`NotifiedIsDrawn` and `NotificationsKept` are about what a draw leaves out: a cached view
that is reused is not asked again what it shows and reads. Two trees of section 5 show that
neither holds of every tree, so the theorems name what they are of: `ReadsApart` (whoever
reads a view is in every cached view it is in; the fourth finding is a tree without it) and
`NothingCachedDeferred` (the fifth). The tree of the run is one of these, which
`TreeAssumption` of `MCWindowFrame` lets TLC see. Every tree with both is covered, cached views
in cached views and deferred views in cached ones included. `SeenInv`, which is needed for
it, says in the middle of a draw

- of the frame being drawn (`FreshOK`): its views were read by this draw, and none of them
  has a notification that the draw has not seen;
- of every cached view that is in no other, in the last frame (`LastOK`) and in this one
  (`CachesOK`): the items in its ranges, and those of the deferred draws in them, are of
  views in it and were read by it, and its ranges bring along no cache of another such view.
  Whether a range is of this frame or still of the last one depends on how far the draw is:
  `CacheInNext`, and `InNext`, `PaintInNext` for deferred draws (`DeferredOK`);
- of the caches that came along (`MovedOK`): one that is in this frame is not in the last
  one any more, so nothing is reused twice;
- of the call stack (`StackOK`, `PendingOK`, `EndsOK`, `DrawsOK`, `PaintsOK`): what is still to be
  prepainted or painted is apart from what was, and what a cached or deferred view has put
  into the frame when it ends is its own;
- of what is notified (`NotifiedOK`): a shown view with a notification still to be seen has every
  view that holds it marked, so no cache with it in is reused.

A step is first reduced to what it does to the lists of the frame (`Goes`, `Longer`) and to
the stack (`Moves`, `PaintMoves`), then to one of three kinds (`FirstStep`, `SecondStep`,
`PaintStep`), each with a lemma for each part of the invariant (`First...`, `Second...`,
`Paint...`), so that the lemma of an action only shows what is new in it. Of the constants
the theorems assume the types (`ViewsAssumption`) and that every view has one place in the
tree and none in itself (`PlacesAssumption`), without which a frame has no paths.

The sums of heights in `ElementProofs` are recursive functions as well, and so is, in
`WindowFrameProofs`, what holds a view and what is rendered with it (`HoldersAre`,
`RenderedAre`). That such a
function exists is shown once (`Recursion`: there is a solution up to every number, by
`UpTo`), and each sum of the model (`WalkIs`, `SumIs`, `LeftIs`) is an instance of it;
that a sum grows with its number of rows and that the scroll top is found in it
(`HeightMonotone`, `SeekSound`) follow. Of the constants the theorems assume that heights,
paddings and overdraw are numbers and rows finitely many (`ListAssumption`), that what
is asked to be in view is a part of its row (`RequestsFit`), and that the values which
stand for the absence of a scroll position are none (`NonesApart`). That a
list pinned to its end shows it at the lower edge (`PinnedToEnd`) is said of viewports
at least as high as their paddings: in a lower one there is no room for a row.

Also proved, and not repeated in the runs since they are parts of those or hold
by the same invariants: `TypeCorrect`, for focus ids `FocusTypeCorrect` (in
`AppEffects` and `Pointer` a conjunct of the invariant), `NoneResurrected`, `NothingLeftTaken`, and
`ElementProofs!NoRevival` (no handle is made of an id that lost its last one).

What the theorems say is about the model: that one atomic access is one step
(sequential consistency of the counts), that the slot map does not reuse keys,
that the condition variable has no spurious wake-ups other than stolen ones, and
that the bounds in guards (`MaxHeld`, `MaxOps`, `MaxDepth`, ...) are any numbers.

Only model-checked:

- *Liveness*, out of the prover's reach (fairness, `ENABLED`): `EveryItemRuns`,
  `ScopesEnd`, `EveryRunnableRuns`.
- *What a frame is made of*: `FrameSound` of `WindowFrame`. Its part `FrameWhole` says that
  every view has just the items of one of its states, so it needs the exact contents of each
  range and of what comes between the ranges (`SeenInv` only has whose they are), in the order
  of the tree, and the fifth finding is a tree that breaks it; `StatesKept` needs the same of
  the accessed keys. The part of `FrameSound` that is about types is proved
  (`WindowTypesKept`).

## 5. Where code and comments disagree

Each has a configuration that ends in a counterexample; the fourth is the run
`window_frame_untracked`, and `findings` quotes its lines. The others are run with
`tlc -config <cfg> <module>`.

1. `subscription.rs:77` (`MCSubscriberSetZombie.cfg`): a `Subscription` that is
   dropped inside of a pass, after a newcomer subscribed to the same emitter, is not
   recorded as dropped; the merge puts its callback back for good.
2. `app.rs:2136` (`MCAppEffectsEarly.cfg`): the dedup of `notify` absorbs the first
   notification after `observe` if another is queued already, and that one is
   applied before the observer is activated.
3. `app.rs:1409` (`MCAppEffectsCreated.cfg`): a window that creates an entity and
   closes in the same update is gone when the entity is announced; the `expect`
   panics if somebody observes new entities of the type.
4. `app.rs:850` (`MCWindowFrameUntracked.cfg`): what a cached view read is the
   difference of what had been read before and after it, so an entity that an
   ancestor read earlier in that frame is missing when the view is reused; a
   notify of it then reaches neither the window nor the frame that shows it.
5. `window.rs:2577` (`MCWindowFrameDeferred.cfg`): a cached view inside of a
   deferred element keeps ranges of a frame; when the element is reused and the
   frame in front of it changes length, the ranges are of something else.
6. `queue.rs:62` (`MCPriorityQueueEnd.cfg`): after its wake-up a receiver does not
   look again whether the queues are empty (`if`, not `while`); when another worker
   took the item, the iterator ends and the thread with it. The last one cannot
   end like that (`OneWorkerLeft`), so the pool shrinks but does not die.
7. `executor.rs:258` (`MCScopedTasksAwait.cfg`): the guard that tells a cancelled
   parent of its child's end is made by the child's first poll; a child dropped
   before leaves the parent waiting.
8. `keymap.rs:204` (`MCKeyDispatchDisabled.cfg`): which longer bindings are still
   possible is decided by the order of addition alone, so a `NoAction` for an outer
   context makes a binding of several keystrokes in an inner one impossible to type.
9. `elements/list.rs:87` (`MCListElementRange.cfg`): the range a `ListScrollEvent`
   tells is said to be the one after the scroll; it is computed from the scroll top
   before it.
10. `window.rs:4146` (`MCPointerRefused.cfg`): a mouse up is said to cancel the drag
    and redraw; a drop that `can_drop` refuses takes the drag and nothing redraws,
    so that its view stays on the screen until something else asks for a frame.
11. `elements/list.rs:359` (`MCListElementReveal.cfg`): `scroll_to_reveal_item` is said
    to scroll "such that the item is fully visible"; when the offset of the scroll top is
    larger than its row, as a drag of the scrollbar can leave it, the item is not.
12. `elements/list.rs:819` (`MCListElementInfer.cfg`): with `ListSizingBehavior::Infer` the
    heights that a request for autoscroll is served by may be those of the minimal width
    in between, so that what was to be in view is not.
13. `elements/list.rs:751` (`MCListElementPadding.cfg`): a focused row that is scrolled out
    of view is rendered "after the visible items"; at the end of a list that is in the
    bottom padding, where it shows.
14. `executor.rs:225` (`MCScopedTasksPair.cfg`): the frame of a cancelled parent is to stay
    "before the our own task has completed or got cancelled"; `NotifyOnDrop` sets the flag
    under the mutex and calls `notify_all` when it is free again, and a `WaitOnDrop` that
    looks in between does not wait, so the frame may be gone, and the Condvar in it, when
    the child notifies it.
15. `app.rs:1254` (`MCAppEffectsLate.cfg`): the flush is said to complete the side effects of
    an update; a handle that another thread drops after the last empty `take_dropped`, before
    the update has returned, leaves its entity to the next one.
16. `window.rs:4016` (`MCPointerJump.cfg`): a press, release, wheel or pinch sets the mouse's
    position and makes the hit test there, but the listeners of hover styles hear moves only:
    when no move came before it the style that was painted is not that of the elements under
    the mouse, and no frame is due.
17. `tab_stop.rs:80` (`MCFocusTabsRetab.cfg`): the history of a frame keeps a clone of the
    handle, which reads index and stop from the map, and the node is made of those of the
    handle that was passed; where they differ a replay changes the order, or the stops, a
    frame after.

Other things a reader of the properties should know of the code, which the
properties leave out by name or state in a comment:

- An element that is hidden when the button is released keeps its press (`missed`),
  and the release of any button takes the press of the left one.
- A press and its release between two frames: the active style is set by the press
  and, since the frame has no listener that resets it, kept until the next frame's.
- Files that leave the window end the drag without a redraw (`leftOver`).
- `ListSizingBehavior::Infer` caches heights of the minimal width (`MeasuredRight` is
  about the other); rows never measured count as 0 in `scroll_to_reveal_item`;
  `measure_all` is not done again when the width changes; in a list aligned to its bottom
  a row that only shows in the top padding is gone in the next frame (`InView`).
- Groups of tab stops with the same index, and a group and a sibling with its
  index, are merged in the order of insertion; a handle painted twice in a
  frame would hide the stops between.
- A notification in the middle of a draw is drawn with the next frame, and nothing
  asks for one (`LateIsRemembered` says that it is not forgotten).

## 6. Plan

In the order of importance; 1 to 10 are here.

1. `EntityLifetime`, `EntityMap`: ownership of all state. Proved.
2. `SubscriberSet`: how everything is told of everything. Proved.
3. `AppEffects`: composes the two at the level of the App. Proved, of the release of
   dropped entities only for those that a flush can have seen; left: `emit`,
   `refresh_windows`, global notifications, `open_window`, `window_closed`, the
   quit mode.
4. `PriorityQueue`: background work. Proved.
5. `ScopedTasks`: soundness of borrowed background work. Proved of the future and what it
   borrows; not so of the Condvar that tells the parent.
6. `Keymap`, `KeyDispatch`: input. Proved; left: predicates other than
   identifiers, capture and bubble along the dispatch path.
7. `MainLoop`: the calloop queue, timers and blocking. Proved.
8. `WindowFrame`: frames from views and parts of the last frame. The types, the focus
   and, for trees that the two findings do not break, the notifications are proved; left:
   `FrameWhole` and `StatesKept` for these.
9. `Pointer`, `FocusTabs`: interaction. Proved, without what items 10, 16 and 17 of section 5
   leave out; left: groups, scrolling and
   key-activated clicks of divs, several windows.
10. `ListElement`. Proved; left: `uniform_list`.
11. `EventDelivery`: abstract specification of what a subscription promises (an
    active, live subscriber sees each event once, in order), implemented by
    `SubscriberSet` with an event a pass.
12. `AssetCache`, `WindowTabs`, `LineLayoutCache`: sequential state under long
    sequences of calls.
13. `BoundsTree`, `Arena`: algorithms, checked against reference definitions over
    bounded inputs.

Theorems to come: `FrameSound` of `WindowFrame`, for trees of views that the two findings
do not break, of which `SeenInv` is a beginning; that
`SubscriberSet` implements `EventDelivery`.

## 7. Not modelled

- *Platforms and renderers* (`platform/*`, about half of the sources): device and
  protocol I/O, GPU programs. Of the Linux backend the dispatcher and the runnables'
  way through the client are in `MainLoop`; the event loops otherwise matter as
  callers of the App, which every module lets come at any time.
- *Style, geometry, text shaping, elements that only draw*: arithmetic on floats.
- *Asset and image caches, system window tabs, line layout and raster caches, arena,
  bounds tree, uniform lists*: of the plan, not here yet.
- *Prompts, input handlers, cursor styles, presentation, the scene's primitives* in
  `WindowFrame`; *the lock of the `FocusMap`* that `release_dropped_focus_handles`
  holds while it updates windows, and a second window, in `FocusTabs`; *groups,
  scrolling of divs, window control areas* in `Pointer`.
- *Inspector, profiler, frame trace, leak detection*: development tools.
- *Panics*: a callback that panics ends the program; unwinding is not modelled.
- *Memory orders*: every access to an atomic is one step. The counts of entities
  are `SeqCst`; those of the priority queue are loaded relaxed, but change only when
  a sender or a receiver goes, and what is queued is under the mutex.
- *Captured values of callbacks*: what dropping a callback drops in turn.
- *Wording and parsing* of keystrokes and predicates; bare modifiers as keystrokes
  and the key listeners' own propagation in `KeyDispatch`.
- The share of the lines that is modelled is small because most of the crate is
  backends, renderers and style; of the files with the program's own control the map has
  most of `entity_map.rs`, `subscription.rs`, `queue.rs`, `tab_stop.rs`, `list.rs`, and
  the parts of `window.rs`, `app.rs`, `div.rs` and `executor.rs` that keep state.
