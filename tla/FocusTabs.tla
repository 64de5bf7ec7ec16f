------------------------------- MODULE FocusTabs -------------------------------
(* Focus handles and the tab order of a window (FocusHandle of window.rs,      *)
(* TabStopMap of tab_stop.rs, release_dropped_focus_handles of app.rs).        *)
(*                                                                             *)
(* Handles are counted references to an entry of the application's FocusMap.   *)
(* Views and other threads clone and drop them at any time, between two steps  *)
(* of a paint as well; a frame keeps a handle for each element that it painted *)
(* with one. Entries without handles go when effects are flushed. A paint      *)
(* records what it inserted: a cached view's part is replayed in later frames. *)
(*                                                                             *)
(* Tab index and tab stop are kept twice: by the entry, and by each handle, as *)
(* the entry had them when the handle was cloned. They can be changed at any   *)
(* time, through one handle and not for the others. A paint orders by what the *)
(* painted handle says, and records a clone of it, which says what the entry   *)
(* does.                                                                       *)
EXTENDS Integers, Sequences, FiniteSets, FiniteSetsExt

CONSTANTS
  Handles,    \* the entries that the application can make
  Indexes,    \* tab indexes of groups
  Tabs,       \* [Handles -> SUBSET of the tab indexes and stops that an entry is made with]
  Retabs,     \* [Handles -> SUBSET of those that it is given later]
  Lasting,    \* entries of which a view keeps a handle for good
  MaxHeld,    \* [Handles -> Nat], bound of the handles that views and threads hold of an entry
  MaxRetabs,  \* bound of the calls of tab_index and tab_stop
  MaxOps,     \* bound of what a frame inserts
  NoFocus

ASSUME FocusAssumption ==
  /\ Indexes \subseteq Int /\ MaxHeld \in [Handles -> Nat] /\ MaxRetabs \in Nat /\ MaxOps \in Nat
  /\ {Tabs, Retabs} \subseteq [Handles -> SUBSET [index : Int, stop : BOOLEAN]]
  /\ NoFocus \notin Handles /\ Lasting \subseteq Handles

VARIABLES
  refs,      \* FocusMap: the entries there are, with their ref_count, tab_index, tab_stop
  held,      \* per entry, the number of handles held by views, element states and threads
  carried,   \* per entry, the tab_index and tab_stop that these handles carry
  retabs,    \* the number of calls of tab_index and tab_stop
  created,   \* entries that were made: a key of the slot map is not made twice
  focus, enabled,  \* Window::focus, focus_enabled
  drawing,   \* whether the window paints
  rendered,  \* insertion_history of the rendered frame
  next       \* insertion_history of the frame that is painted

fvars == <<refs, held, carried, retabs, created, focus, enabled, drawing, rendered, next>>

\* What an entry says of its place in the tab order, and with it a handle that is made now.
Tab(index, stop) == [index |-> index, stop |-> stop]
TabOf(h) == Tab(refs[h].index, refs[h].stop)
TabType == [index : Int, stop : BOOLEAN]

\* An operation of the history: for an insert, the tab index and stop of its node, which are
\* those of the handle that was passed, and those of the clone that is kept for a replay.
Insert(h, t) == [op |-> "insert", id |-> h, index |-> t.index, stop |-> t.stop, kept |-> TabOf(h)]
Group(i) == [op |-> "group", id |-> NoFocus, index |-> i, stop |-> FALSE, kept |-> Tab(i, FALSE)]
GroupEnd == [op |-> "end", id |-> NoFocus, index |-> 0, stop |-> FALSE, kept |-> Tab(0, FALSE)]
Ops == [op : {"insert"}, id : Handles, index : Int, stop : BOOLEAN, kept : TabType]
         \cup [op : {"group", "end"}, id : {NoFocus}, index : Int, stop : BOOLEAN, kept : TabType]

------------------------------------------------------------------------------
(* The tab order. A node of it is named by its place in the history.          *)

NodesOf(hist) == {k \in DOMAIN hist : hist[k].op = "insert"}
NodesOfId(hist, h) == {k \in NodesOf(hist) : hist[k].id = h}
Depth(hist, k) ==
  Cardinality({j \in 1..k : hist[j].op = "group"}) - Cardinality({j \in 1..k : hist[j].op = "end"})

\* The groups that are open at a place, and the path of a node: their indexes, then its own.
GroupAt(hist, k, d) == Max({j \in 1..k : hist[j].op = "group" /\ Depth(hist, j) = d})
Path(hist, k) ==
  [d \in 1..(Depth(hist, k) + 1) |->
     IF d = Depth(hist, k) + 1 THEN hist[k].index ELSE hist[GroupAt(hist, k, d)].index]

PathBefore(p, q) ==
  \E n \in 0..Len(p) :
    /\ n <= Len(q) /\ \A d \in 1..n : p[d] = q[d]
    /\ IF n = Len(p) THEN n < Len(q) ELSE n < Len(q) /\ p[n + 1] < q[n + 1]

\* TabStopNode::cmp: by path, then in the order of insertion
Precedes(hist, j, k) ==
  LET p == Path(hist, j)
      q == Path(hist, k)
  IN PathBefore(p, q) \/ (p = q /\ j < k)

StopsOf(hist) == {k \in NodesOf(hist) : hist[k].stop}

\* Mutant of Following: without the stops of the same path.
FollowingSame(hist, k) == {j \in StopsOf(hist) : Path(hist, j) # Path(hist, k) /\ Precedes(hist, k, j)}

\* The stops behind a node, of which next_inner takes the first.
Following(hist, k) == {j \in StopsOf(hist) : Precedes(hist, k, j)}

\* The stops before a node, of which prev_inner takes the last.
Preceding(hist, k) == {j \in StopsOf(hist) : Precedes(hist, j, k)}

\* TabStopMap::next and prev, of a focus that may be in the frame: the entry they give, if
\* there is any. Behind the last stop, and for a focus that is not there, it is the first one.
NextOf(hist, f) ==
  LET nodes == NodesOfId(hist, f)
      after == IF nodes = {} THEN {} ELSE Following(hist, Max(nodes))
      stops == IF after = {} THEN StopsOf(hist) ELSE after
  IN {hist[k].id : k \in {i \in stops : \A j \in stops \ {i} : Precedes(hist, i, j)}}

PrevOf(hist, f) ==
  LET nodes == NodesOfId(hist, f)
      before == IF nodes = {} THEN {} ELSE Preceding(hist, Max(nodes))
      stops == IF before = {} THEN StopsOf(hist) ELSE before
  IN {hist[k].id : k \in {i \in stops : \A j \in stops \ {i} : Precedes(hist, j, i)}}

------------------------------------------------------------------------------
(* Handles.                                                                    *)

Live(h) == h \in DOMAIN refs /\ refs[h].count > 0

\* How many handles a history has of an entry, which is painted at most once in a frame.
InHistory(hist, h) == IF NodesOfId(hist, h) = {} THEN 0 ELSE 1

\* FocusRef with another ref_count; the map in which one entry counts n more.
Counting(h, n) == [count |-> n, index |-> refs[h].index, stop |-> refs[h].stop]
Counted(h, n) == [g \in DOMAIN refs |-> IF g = h THEN Counting(g, refs[g].count + n) ELSE refs[g]]

FocusInit ==
  /\ refs = [h \in {} |-> 0] /\ held = [h \in Handles |-> 0]
  /\ carried = [h \in Handles |-> {}] /\ retabs = 0 /\ created = {}
  /\ focus = NoFocus /\ enabled = TRUE /\ drawing = FALSE
  /\ rendered = <<>> /\ next = <<>>

\* App::focus_handle, with the tab_index and tab_stop that are set before there is another
\* handle; an element that makes its own does so in its request_layout, before the window paints.
NewHandle(h, t) ==
  /\ ~drawing /\ h \notin created /\ created' = created \cup {h}
  /\ refs' = [g \in DOMAIN refs \cup {h} |->
                IF g = h THEN [count |-> 1, index |-> t.index, stop |-> t.stop] ELSE refs[g]]
  /\ held' = [held EXCEPT ![h] = 1] /\ carried' = [carried EXCEPT ![h] = {t}]
  /\ UNCHANGED <<retabs, focus, enabled, drawing, rendered, next>>

\* FocusHandle::for_id: a handle of an entry that still has one.
ForId(h) == h \in DOMAIN refs /\ refs[h].count > 0

\* WeakFocusHandle::upgrade, Window::focused; the clone of a handle is the same.
Upgrade(h) ==
  /\ ForId(h) /\ held[h] < MaxHeld[h]
  /\ refs' = Counted(h, 1) /\ held' = [held EXCEPT ![h] = @ + 1]
  /\ carried' = [carried EXCEPT ![h] = @ \cup {TabOf(h)}]
  /\ UNCHANGED <<retabs, created, focus, enabled, drawing, rendered, next>>

\* What the handles in hand may carry without one of them, which carries t: the others carry
\* it as well, or do not.
Without(h, t) ==
  {F \in {carried[h], carried[h] \ {t}} :
     Cardinality(F) < held[h] /\ (F = {} <=> held[h] = 1)}

\* Drop for FocusHandle, on any thread.
Drop(h) ==
  /\ held[h] > 0 /\ (h \in Lasting => held[h] > 1)
  /\ refs' = Counted(h, -1) /\ held' = [held EXCEPT ![h] = @ - 1]
  /\ \E t \in carried[h] : \E F \in Without(h, t) : carried' = [carried EXCEPT ![h] = F]
  /\ UNCHANGED <<retabs, created, focus, enabled, drawing, rendered, next>>

\* FocusHandle::tab_index and tab_stop, of a handle that carries t, at any time and on any
\* thread: of the other handles, those in histories too, none is told.
SetTab(h, t, new) ==
  /\ held[h] > 0 /\ t \in carried[h] /\ retabs < MaxRetabs /\ retabs' = retabs + 1
  /\ \E F \in Without(h, t) : carried' = [carried EXCEPT ![h] = F \cup {new}]
  /\ UNCHANGED <<held, created, focus, enabled, drawing, rendered, next>>

SetTabIndex(h, t, i) ==
  /\ SetTab(h, t, Tab(i, t.stop))
  /\ refs' = [g \in DOMAIN refs |-> IF g = h THEN [refs[g] EXCEPT !.index = i] ELSE refs[g]]

SetTabStop(h, t, b) ==
  /\ SetTab(h, t, Tab(t.index, b))
  /\ refs' = [g \in DOMAIN refs |-> IF g = h THEN [refs[g] EXCEPT !.stop = b] ELSE refs[g]]

\* Mutant of Unfocused: the focus of a released entry is left to be replaced.
UnfocusedNever(gone) == focus

\* release_dropped_focus_handles blurs the window whose focus it releases.
Unfocused(gone) == IF focus \in gone /\ enabled THEN NoFocus ELSE focus

\* release_dropped_focus_handles, in a flush of effects
Release ==
  LET gone == {h \in DOMAIN refs : refs[h].count = 0}
  IN /\ ~drawing /\ gone # {}
     /\ refs' = [h \in DOMAIN refs \ gone |-> refs[h]]
     /\ focus' = Unfocused(gone)
     /\ UNCHANGED <<held, carried, retabs, created, enabled, drawing, rendered, next>>

------------------------------------------------------------------------------
(* The window's focus.                                                         *)

\* Window::focus, by a view that holds a handle
Focus(h) ==
  /\ enabled /\ ~drawing /\ held[h] > 0 /\ focus' = h /\ focus # h
  /\ UNCHANGED <<refs, held, carried, retabs, created, enabled, drawing, rendered, next>>

\* Window::focus_next and focus_prev, in the frame on the screen
FocusNext ==
  /\ enabled /\ ~drawing /\ focus' \in NextOf(rendered, focus) \ {focus}
  /\ UNCHANGED <<refs, held, carried, retabs, created, enabled, drawing, rendered, next>>

FocusPrev ==
  /\ enabled /\ ~drawing /\ focus' \in PrevOf(rendered, focus) \ {focus}
  /\ UNCHANGED <<refs, held, carried, retabs, created, enabled, drawing, rendered, next>>

Blur ==
  /\ enabled /\ ~drawing /\ focus # NoFocus /\ focus' = NoFocus
  /\ UNCHANGED <<refs, held, carried, retabs, created, enabled, drawing, rendered, next>>

\* Window::disable_focus: blurs first.
DisableFocus ==
  /\ enabled /\ ~drawing /\ enabled' = FALSE /\ focus' = NoFocus
  /\ UNCHANGED <<refs, held, carried, retabs, created, drawing, rendered, next>>

------------------------------------------------------------------------------
(* Painting.                                                                   *)

BeginPaint ==
  /\ ~drawing /\ drawing' = TRUE /\ next' = <<>>
  /\ UNCHANGED <<refs, held, carried, retabs, created, focus, enabled, rendered>>

\* TabStopMap::insert: an element is painted with a handle, which carries t; each entry in one
\* element.
PaintHandle(h, t) ==
  /\ drawing /\ Len(next) < MaxOps /\ NodesOfId(next, h) = {}
  /\ held[h] > 0 /\ t \in carried[h]
  /\ next' = Append(next, Insert(h, t)) /\ refs' = Counted(h, 1)
  /\ UNCHANGED <<held, carried, retabs, created, focus, enabled, drawing, rendered>>

\* Window::with_tab_group, around an element's children
BeginGroup(i) ==
  /\ drawing /\ Len(next) + 1 + Depth(next, Len(next)) < MaxOps /\ next' = Append(next, Group(i))
  /\ UNCHANGED <<refs, held, carried, retabs, created, focus, enabled, drawing, rendered>>

EndGroup ==
  /\ drawing /\ Depth(next, Len(next)) > 0 /\ next' = Append(next, GroupEnd)
  /\ UNCHANGED <<refs, held, carried, retabs, created, focus, enabled, drawing, rendered>>

\* TabStopMap::insert of a handle that a history keeps: its node is what that handle says, and
\* a clone of it is kept.
Again(o) ==
  IF o.op = "insert" THEN Insert(o.id, o.kept) ELSE o

\* Mutant of Replayed: the inserts alone.
ReplayedInserts(ops) ==
  LET inserts == SelectSeq(ops, LAMBDA o : o.op = "insert")
  IN [k \in DOMAIN inserts |-> Again(inserts[k])]

\* TabStopMap::replay
Replayed(ops) == [k \in DOMAIN ops |-> Again(ops[k])]

\* Window::reuse_paint of a view that was painted in that part of the rendered frame: whole
\* groups, and handles that are not painted in this frame.
Reuse(a, b) ==
  LET ops == SubSeq(rendered, a, b)
      ids == {o.id : o \in {ops[k] : k \in NodesOf(ops)}}
  IN /\ drawing /\ Len(next) + Len(ops) + Depth(next, Len(next)) <= MaxOps
     /\ \A k \in DOMAIN ops : Depth(ops, k) >= 0
     /\ Depth(ops, Len(ops)) = 0
     /\ \A h \in ids : NodesOfId(next, h) = {}
     /\ next' = next \o Replayed(ops)
     /\ refs' = [h \in DOMAIN refs |->
                   IF h \in ids THEN Counting(h, refs[h].count + 1) ELSE refs[h]]
     /\ UNCHANGED <<held, carried, retabs, created, focus, enabled, drawing, rendered>>

\* Mutant of Dropped: the handles of both frames.
DroppedTwice(h) == InHistory(rendered, h) + InHistory(next, h)

\* What clearing the old frame drops of an entry's handles.
Dropped(h) == InHistory(rendered, h)

\* Window::draw: the frames are swapped, the old one is cleared and its handles dropped.
EndPaint ==
  /\ drawing /\ Depth(next, Len(next)) = 0
  /\ drawing' = FALSE /\ rendered' = next /\ next' = <<>>
  /\ refs' = [h \in DOMAIN refs |-> Counting(h, refs[h].count - Dropped(h))]
  /\ UNCHANGED <<held, carried, retabs, created, focus, enabled>>

FocusAction ==
  \/ Release \/ FocusNext \/ FocusPrev \/ Blur \/ DisableFocus
  \/ BeginPaint \/ EndGroup \/ EndPaint
  \/ \E i \in Indexes : BeginGroup(i)
  \/ \E a, b \in DOMAIN rendered : a <= b /\ Reuse(a, b)
  \/ \E h \in Handles :
       \/ Upgrade(h) \/ Drop(h) \/ Focus(h)
       \/ \E t \in Tabs[h] : NewHandle(h, t)
       \/ \E t \in carried[h] :
            \/ PaintHandle(h, t)
            \/ \E new \in Retabs[h] : SetTabIndex(h, t, new.index) \/ SetTabStop(h, t, new.stop)

FocusSpec == FocusInit /\ [][FocusAction]_fvars

------------------------------------------------------------------------------
(* Properties.                                                                 *)

\* The types of the state. Counts and handles are not negative, an entry is one that was made, and
\* only a window that paints has a next frame (FocusMap, Frame::tab_stops).
FocusTypeOK ==
  /\ created \subseteq Handles /\ DOMAIN refs \subseteq created
  /\ refs = [h \in DOMAIN refs |-> refs[h]]
  /\ \A h \in DOMAIN refs : refs[h] \in [count : Nat, index : Int, stop : BOOLEAN]
  /\ held \in [Handles -> Nat] /\ carried \in [Handles -> SUBSET TabType] /\ retabs \in Nat
  /\ focus \in Handles \cup {NoFocus} /\ enabled \in BOOLEAN /\ drawing \in BOOLEAN
  /\ rendered \in Seq(Ops) /\ next \in Seq(Ops) /\ (drawing \/ next = <<>>)

\* An entry counts its handles: those of views and threads, and those in the histories of the
\* two frames; and an entry with a handle is there, so that no clone and no drop of a handle
\* finds it gone (FocusHandle::clone and drop unwrap it).
HandlesAreCounted ==
  \A h \in Handles :
    LET n == held[h] + InHistory(rendered, h) + InHistory(next, h)
    IN IF h \in DOMAIN refs THEN refs[h].count = n ELSE n = 0

\* The focus of a window is on an entry that exists, though maybe without a handle until the
\* next flush (release_dropped_focus_handles blurs what it releases).
FocusExists == focus # NoFocus => focus \in DOMAIN refs

\* An entry that lost its last handle does not get one again, whatever weak handles there are
\* (atomic_incr_if_not_zero in for_id): it is gone with the next flush.
NeverRevived ==
  [][\A h \in created : ~Live(h) => ~(h \in DOMAIN refs' /\ refs'[h].count > 0)]_fvars

\* Tab goes around all stops of the frame on the screen: there is no smaller cycle to be caught in, whatever
\* the groups and the indexes (TabStopMap::next).
TabVisitsEveryStop ==
  LET stops == {rendered[k].id : k \in StopsOf(rendered)}
      tab == [h \in Handles \cup {NoFocus} |-> NextOf(rendered, h)]
  IN ~drawing /\ stops # {} =>
       /\ \A h \in Handles \cup {NoFocus} : \E s \in stops : tab[h] = {s}
       /\ \A S \in (SUBSET stops) \ {{}} : (\A h \in S : tab[h] \subseteq S) => S = stops

\* Shift-Tab undoes Tab from every stop (TabStopMap::prev against next).
PrevUndoesNext ==
  LET stops == {rendered[k].id : k \in StopsOf(rendered)}
      tab == [h \in stops |-> NextOf(rendered, h)]
      back == [h \in stops |-> PrevOf(rendered, h)]
  IN ~drawing => \A h, g \in stops : tab[h] = {g} <=> back[g] = {h}

\* Both: Tab and Shift-Tab go round one cycle of all stops, in opposite directions.
TabGoesRound == TabVisitsEveryStop /\ PrevUndoesNext

\* The node of an entry that is painted once.
NodeOf(hist, h) == Max(NodesOfId(hist, h))

\* What a history keeps of a node is what it was ordered by: nobody called tab_index or tab_stop
\* with another value between the clone of the painted handle and its insertion.
Current(hist, k) == hist[k].kept = Tab(hist[k].index, hist[k].stop)

\* Whether a replay that has just been done kept the order of two nodes, and their stops.
KeptOrder(j, k) ==
  LET jj == NodeOf(rendered, next'[j].id)
      kk == NodeOf(rendered, next'[k].id)
  IN /\ Precedes(next', j, k) <=> Precedes(rendered, jj, kk)
     /\ next'[j].stop = rendered[jj].stop

\* What a cached view replays keeps its tab order and its stops, though it may be in other groups
\* than it was painted in (reuse_paint, TabStopMap::replay). Left out: entries whose index or stop
\* was changed after the handle in the rendered frame was made and before it was inserted there:
\* the replay takes the new one, a frame late.
ReplayKeepsOrder ==
  [][Len(next') > Len(next) + 1 =>
       \A j, k \in NodesOf(next') \ DOMAIN next :
         /\ Current(rendered, NodeOf(rendered, next'[j].id))
         /\ Current(rendered, NodeOf(rendered, next'[k].id))
         => KeptOrder(j, k)]_fvars

\* What is left out, which the code does not keep (MCFocusTabsRetab.cfg).
ReplayChangesNothing ==
  [][Len(next') > Len(next) + 1 =>
       \A j, k \in NodesOf(next') \ DOMAIN next : KeptOrder(j, k)]_fvars
================================================================================
