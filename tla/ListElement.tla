------------------------------ MODULE ListElement ------------------------------
(* The list element of elements/list.rs: a client's rows, of which the list  *)
(* keeps one item each with the height it last measured, a scroll position   *)
(* in terms of items, and the layout of the rows that fit the viewport.      *)
(*                                                                           *)
(* Between two frames the client splices rows, resets the list, scrolls it   *)
(* by code or by the scrollbar, and wheel events come in: they work on       *)
(* heights that were measured in earlier frames, on the scroll position of   *)
(* the last layout, and on items that were never measured and count as 0.    *)
(* Heights are whole numbers of pixels; a row's real height depends on the   *)
(* width it is laid out in.                                                  *)
EXTENDS Integers, Sequences, FiniteSets, Functions

CONSTANTS
  Rows,            \* what the client can show, numbered in the order it shows them
  FocusableRows,   \* the rows that are spliced in with a focus handle
  RowHeight,       \* [Rows \X (Widths \cup {MinWidth}) -> Nat]
  Kinds,           \* of the lists considered: their alignment, sizing and measuring behavior
  Widths, Heights, \* of the viewport
  MinWidth,        \* AvailableSpace::MinContent as a width
  Overdraw, PadTop, PadBottom,
  Deltas,          \* of a wheel event or a call of scroll_by
  MaxOffset,       \* bound of offset_in_item
  MaxDelta,        \* bound of the delta that wheel events add up to in a frame
  Requests,        \* parts of rows, in the row's own coordinates, that a frame is asked to scroll to
  ScrollOffsets,   \* offset_in_item of a call of scroll_to
  MaxCalls,        \* bound of the client's calls in a behaviour
  MaxSplice,       \* rows a splice brings in at most
  NoRow, NoOffset, NotYet

ASSUME ListAssumption ==
  /\ Rows \subseteq Nat /\ IsFiniteSet(Rows) /\ MaxCalls \in Nat /\ MaxDelta \in Nat
  /\ Requests \subseteq [row : Rows, top : Nat, bottom : Nat]
  /\ ScrollOffsets \subseteq 0..MaxOffset /\ Deltas \subseteq Int
  /\ FocusableRows \subseteq Rows /\ NoRow \notin Rows /\ MinWidth \notin Widths
  /\ Kinds \subseteq [alignment : {"Top", "Bottom"}, sizing : {"Auto", "Infer"},
                    measuring : {"visible", "pending"}]
  /\ Heights \subseteq Nat /\ Overdraw \in Nat /\ PadTop \in Nat /\ PadBottom \in Nat
  /\ RowHeight \in [Rows \X (Widths \cup {MinWidth}) -> Nat] /\ MaxOffset \in Nat

ASSUME RequestsFit ==
  \A r \in Requests : r.top < r.bottom /\ \A w \in Widths : r.bottom <= RowHeight[r.row, w]

\* No place in a list is the absence of one.
ASSUME NonesApart == \A none \in {NoOffset, NotYet} : none \notin [ix : Nat, offset : Int]

VARIABLES
  rows,        \* the client's rows, in order
  focusedRow,  \* the row whose focus handle is focused
  items,       \* StateInner::items: per row its focus handle and its measured height
  scrollTop,   \* logical_scroll_top
  alignment, sizing,
  measuring,   \* measuring_behavior: "visible", "pending" = Measure(false), "done" = Measure(true)
  wasReset,    \* StateInner::reset
  bounds,      \* last_layout_bounds, with last_padding
  dragHeight,  \* scrollbar_drag_start_height
  painted,     \* what paint registered: the layout, its scroll top, the delta so far
  scrolled,    \* the last ListScrollEvent
  calls        \* the client's calls, up to MaxCalls

lvars == <<rows, focusedRow, items, scrollTop, alignment, sizing, measuring, wasReset,
           bounds, dragHeight, painted, scrolled, calls>>

Offset == [ix : 0..Cardinality(Rows), offset : (-MaxOffset)..MaxOffset]

Max2(a, b) == IF a >= b THEN a ELSE b
Min2(a, b) == IF a <= b THEN a ELSE b

\* The first number of `stops` from 0 on, or n: a loop that is left at a stop.
FirstIn(n, stops) ==
  CHOOSE k \in 0..n : (k = n \/ k \in stops) /\ \A j \in 0..(k - 1) : j \notin stops

\* The client shows its rows in one order.
Ordered(s) == \A i, j \in DOMAIN s : i < j => s[i] < s[j]
RowLists == {s \in UNION {[1..k -> Rows] : k \in 0..Cardinality(Rows)} : Ordered(s)}

------------------------------------------------------------------------------
(* The sum tree of items, as its sequence of leaves.                         *)

Unmeasured(handle) == [handle |-> handle, measured |-> FALSE, size |-> 0]
Measured(item, size) == [item EXCEPT !.measured = TRUE, !.size = size]
HandleOf(row) == IF row \in FocusableRows THEN row ELSE NoRow
NewItems(rs) == [i \in DOMAIN rs |-> Unmeasured(HandleOf(rs[i]))]

\* The height of the first n items, and of all of them.
HeightBefore(its, n) ==
  LET sum[k \in 0..n] == IF k = 0 THEN 0 ELSE sum[k - 1] + its[k].size IN sum[n]
ContentHeight(its) == HeightBefore(its, Len(its))

\* How many items a seek to a height passes, with Bias::Right and with Bias::Left.
SeekRight(its, y) == Cardinality({i \in DOMAIN its : HeightBefore(its, i) <= y})
SeekLeft(its, y) == Cardinality({i \in DOMAIN its : HeightBefore(its, i) < y})

\* StateInner::logical_scroll_top
LogicalTop(its, top) ==
  IF top # NoOffset THEN top
  ELSE [ix |-> IF alignment = "Top" THEN 0 ELSE Len(its), offset |-> 0]

\* The offset of a height in the items.
OffsetAt(its, y) == [ix |-> SeekRight(its, y), offset |-> y - HeightBefore(its, SeekRight(its, y))]

ContainsFocused(item) == item.handle # NoRow /\ item.handle = focusedRow

\* The first focused item is laid out behind the visible ones when it is none of them.
WithFocused(visible, focused) ==
  IF focused = {} \/ \E k \in DOMAIN visible : visible[k] + 1 \in focused
  THEN visible
  ELSE Append(visible, (CHOOSE i \in focused : \A j \in focused : i <= j) - 1)

------------------------------------------------------------------------------
(* Layout.                                                                   *)

\* Rows of this height from the scroll top on leave a part of the viewport empty.
FallsShort(rendered, offset, height) == rendered - offset < height

\* Mutant of StartsAt: rows that do not fill a list aligned to its bottom stay at its top.
StartsAtTop(over) == Max2(0, over)

\* Where the viewport starts in its first row, when the rows reach `over` pixels beyond it:
\* rows that do not fill it are at its start, or at its end.
StartsAt(over) == IF alignment = "Top" THEN Max2(0, over) ELSE over

\* Mutant of Adjusted: forgets the position it had to move to.
AdjustedAway(top) == NoOffset

\* What is remembered of a scroll top that layout_items had to move: a list aligned to
\* its bottom is at its end then.
Adjusted(top) == IF alignment = "Top" THEN top ELSE NoOffset

\* layout_items: walks down from the scroll top until the viewport and the overdraw
\* are full, up again when the rows do not fill it, and measures the leading overdraw.
\* Rows in the viewport are always measured, the others only when they never were.
LayoutItems(its, scroll, width, height) ==
  LET n == Len(its)
      Real(i) == RowHeight[rows[i], width]
      Known(i) == IF its[i].measured THEN its[i].size ELSE Real(i)
      start == LogicalTop(its, scroll)
      ix == Min2(start.ix, n)
      Below(i, y) == IF y - start.offset < height THEN Real(i) ELSE Known(i)
      y[k \in 0..(n - ix)] ==
        IF k = 0 THEN PadTop ELSE LET above == y[k - 1] IN above + Below(ix + k, above)
      down == FirstIn(n - ix, {k \in 0..(n - ix) : y[k] - start.offset >= height + Overdraw})
      seen == Cardinality({k \in 1..down : y[k - 1] - start.offset < height})
      rendered == y[down] + PadBottom
      short == FallsShort(rendered, start.offset, height)
      filled[k \in 0..ix] == IF k = 0 THEN rendered ELSE filled[k - 1] + Real(ix - k + 1)
      up == IF short THEN FirstIn(ix, {k \in 0..ix : filled[k] >= height}) ELSE 0
      top == IF ~short THEN start ELSE [ix |-> ix - up, offset |-> StartsAt(filled[up] - height)]
      first == ix - up
      led[k \in 0..first] == IF k = 0 THEN top.offset ELSE led[k - 1] + Known(first - k + 1)
      lead == FirstIn(first, {k \in 0..first : led[k] >= Overdraw})
      size(i) == CASE i <= first -> Known(i)
                   [] i \in (first + 1)..ix -> Real(i)
                   [] OTHER -> Below(i, y[i - ix - 1])
      new == [i \in 1..n |-> IF i \in (first - lead + 1)..(ix + down)
                             THEN Measured(its[i], size(i)) ELSE its[i]]
      visible == [k \in 1..(up + seen) |-> first + k - 1]
  IN [items |-> new,
      scroll |-> IF short THEN Adjusted(top) ELSE scroll,
      top |-> top,
      visible |-> Len(visible),
      shown |-> WithFocused(visible, {i \in 1..n : ContainsFocused(its[i])})]

\* layout_all_items
MeasureAll(its, width) ==
  [i \in DOMAIN its |-> IF its[i].measured THEN its[i] ELSE Measured(its[i], RowHeight[rows[i], width])]

\* Where prepaint_items puts the k-th of the laid out rows, below the list's own top.
DrawnAt(layout, width, k) ==
  LET sum[j \in 0..(k - 1)] ==
        IF j = 0 THEN 0 ELSE sum[j - 1] + RowHeight[rows[layout.shown[j] + 1], width]
  IN PadTop - layout.top.offset + sum[k - 1]

\* Mutant of RoomAbove: forgets the paddings.
RoomAboveUnpadded(auto, height) == height - auto.bottom

\* What is left of the viewport above the rectangle's bottom, between the paddings.
RoomAbove(auto, height) == height - PadTop - PadBottom - auto.bottom

\* The scroll position that prepaint_items returns for a request to scroll the rectangle
\* from `auto.top` to `auto.bottom` of a row into view; NotYet if the request asks for nothing.
Autoscroll(layout, auto, width, height) ==
  LET k == CHOOSE j \in DOMAIN layout.shown : rows[layout.shown[j] + 1] = auto.row
      ix == layout.shown[k]
      y == DrawnAt(layout, width, k)
      Known(i) == IF layout.items[i].measured THEN layout.items[i].size ELSE RowHeight[rows[i], width]
      left[j \in 0..ix] == IF j = 0 THEN RoomAbove(auto, height)
                           ELSE left[j - 1] - Known(ix - j + 1)
      up == FirstIn(ix, {j \in 0..ix : left[j] <= 0})
  IN CASE y + auto.top < 0 -> [ix |-> ix, offset |-> auto.top]
       [] y + auto.top >= 0 /\ y + auto.bottom > height ->
            [ix |-> ix - up, offset |-> Max2(0, -left[up])]
       [] OTHER -> NotYet

\* Mutant of ForWidth: keeps the heights that were measured in another width.
ForAnyWidth(its, width) == its

\* The cached heights hold for the width they were measured in.
ForWidth(its, width) ==
  IF bounds # NotYet /\ bounds.width = width THEN its
  ELSE [i \in DOMAIN its |-> Unmeasured(its[i].handle)]

\* request_layout of a list that infers its size: `its` and `scroll` after it.
Sized(its, scroll) ==
  IF sizing = "Infer"
  THEN LayoutItems(its, scroll, MinWidth, IF bounds = NotYet THEN Overdraw ELSE bounds.height)
  ELSE [items |-> its, scroll |-> scroll]

\* The heights that layout_items finds in prepaint.
ToLayOut(its, width) == IF measuring = "pending" THEN MeasureAll(its, width) ELSE its

\* What prepaint_items makes of a layout: rows of a viewport that the paddings leave
\* nothing of are not rendered, and a request of a rendered row is served by one more layout.
Rendered(layout, width, height, auto) ==
  LET roomy == height > PadTop + PadBottom
      asks == auto # NotYet /\ roomy /\ \E k \in DOMAIN layout.shown : rows[layout.shown[k] + 1] = auto.row
      request == IF asks THEN Autoscroll(layout, auto, width, height) ELSE NotYet
      final == IF request = NotYet THEN layout ELSE LayoutItems(layout.items, request, width, height)
  IN [items |-> final.items, scroll |-> final.scroll, top |-> final.top, visible |-> final.visible,
      shown |-> IF roomy THEN final.shown ELSE <<>>,
      auto |-> IF asks THEN auto ELSE NotYet]

\* layout_items of prepaint, for the state of the list that request_layout left.
LaidOut(list, width, height) ==
  LayoutItems(ToLayOut(ForWidth(list.items, width), width), list.scroll, width, height)

\* request_layout and prepaint.
Prepaint(its, scroll, width, height, auto) ==
  Rendered(LaidOut(Sized(its, scroll), width, height), width, height, auto)

------------------------------------------------------------------------------
(* Steps of the client, between frames.                                      *)

\* Mutant of Spliced: forgets the rows that came in before the scroll top.
SplicedOut(scroll, from, to, count) ==
  IF scroll = NoOffset THEN NoOffset
  ELSE IF scroll.ix \in from..(to - 1) THEN [ix |-> from, offset |-> 0]
  ELSE IF to <= scroll.ix THEN [scroll EXCEPT !.ix = @ - (to - from)]
  ELSE scroll

\* Where splice_focusable leaves the scroll top when `count` rows replace those from `from` to `to`.
Spliced(scroll, from, to, count) ==
  IF scroll = NoOffset THEN NoOffset
  ELSE IF scroll.ix \in from..(to - 1) THEN [ix |-> from, offset |-> 0]
  ELSE IF to <= scroll.ix THEN [scroll EXCEPT !.ix = @ - (to - from) + count]
  ELSE scroll

\* What the listener keeps of the layout.
Stale(layout, row) ==
  [layout EXCEPT !.settled = FALSE, !.visible = 0, !.shown = <<>>, !.revealed = row, !.auto = NotYet]

\* The layout that was painted need not be what a layout would give now; a row may be awaited.
UnsettledFor(row) ==
  /\ painted' = IF painted = NotYet THEN NotYet ELSE Stale(painted, row)
  /\ scrolled' = NotYet
  /\ calls < MaxCalls /\ calls' = calls + 1
Unsettled == UnsettledFor(NoRow)

\* splice, splice_focusable
Splice(from, to, new) ==
  /\ from <= to /\ to <= Len(rows)
  /\ from < to \/ new # <<>>
  /\ rows' = SubSeq(rows, 1, from) \o new \o SubSeq(rows, to + 1, Len(rows))
  /\ Ordered(rows')
  /\ items' = SubSeq(items, 1, from) \o NewItems(new) \o SubSeq(items, to + 1, Len(items))
  /\ scrollTop' = Spliced(scrollTop, from, to, Len(new))
  /\ Unsettled
  /\ UNCHANGED <<focusedRow, alignment, sizing, measuring, wasReset, bounds, dragHeight>>

\* reset
Reset(new) ==
  /\ rows' = new
  /\ items' = [i \in DOMAIN new |-> Unmeasured(NoRow)]
  /\ wasReset' = TRUE
  /\ measuring' = IF measuring = "done" THEN "pending" ELSE measuring
  /\ scrollTop' = NoOffset
  /\ dragHeight' = NotYet
  /\ Unsettled
  /\ UNCHANGED <<focusedRow, alignment, sizing, bounds>>

\* scroll_by
ScrollBy(distance) ==
  LET top == LogicalTop(items, scrollTop)
      new == Max2(HeightBefore(items, Min2(top.ix, Len(items))) + top.offset + distance, 0)
  IN /\ distance # 0
     /\ OffsetAt(items, new).offset <= MaxOffset
     /\ scrollTop' = OffsetAt(items, new)
     /\ Unsettled
     /\ UNCHANGED <<rows, focusedRow, items, alignment, sizing, measuring, wasReset, bounds,
                    dragHeight>>

\* scroll_to
ScrollTo(ix, offset) ==
  /\ scrollTop' = IF ix >= Len(items) THEN [ix |-> Len(items), offset |-> 0]
                  ELSE [ix |-> ix, offset |-> offset]
  /\ Unsettled
  /\ UNCHANGED <<rows, focusedRow, items, alignment, sizing, measuring, wasReset, bounds,
                 dragHeight>>

\* The scroll position that scroll_to_reveal_item gives.
Revealing(ix) ==
  LET top == LogicalTop(items, scrollTop)
      height == IF bounds = NotYet THEN 0 ELSE bounds.height
      pads == IF bounds = NotYet THEN <<0, 0>> ELSE <<PadTop, PadBottom>>
      bottom == HeightBefore(items, Min2(ix + 1, Len(items))) + pads[1]
      goal == Max2(0, bottom - height + pads[2])
      start == SeekLeft(items, goal)
  IN IF ix <= top.ix THEN [ix |-> ix, offset |-> 0]
     ELSE IF start >= top.ix THEN [ix |-> start, offset |-> goal - HeightBefore(items, start)]
     ELSE top

\* What the call can know: the heights of the rows down to the one to reveal, in the
\* width of the last layout, of which the viewport holds the row.
Knowable(ix) ==
  /\ ix < Len(items) /\ bounds # NotYet /\ ~wasReset
  /\ \A i \in 1..(ix + 1) : items[i].measured
  /\ sizing = "Auto"
  /\ items[ix + 1].size > 0 /\ items[ix + 1].size + PadTop + PadBottom <= bounds.height

\* The call takes the list to be scrolled to a place in the row at the scroll top.
TopInItsRow ==
  LET top == LogicalTop(items, scrollTop) IN
  top.ix < Len(items) => top.offset <= items[top.ix + 1].size

Revealable(ix) == Knowable(ix) /\ TopInItsRow

\* scroll_to_reveal_item
Reveal(ix) ==
  /\ ix < Len(items)
  /\ Revealing(ix).offset <= MaxOffset
  /\ scrollTop' = Revealing(ix)
  /\ UnsettledFor(IF Revealable(ix) THEN rows[ix + 1] ELSE NoRow)
  /\ UNCHANGED <<rows, focusedRow, items, alignment, sizing, measuring, wasReset, bounds,
                 dragHeight>>

\* scrollbar_drag_started, scrollbar_drag_ended
DragStarted ==
  /\ dragHeight' = ContentHeight(items)
  /\ calls < MaxCalls /\ calls' = calls + 1
  /\ UNCHANGED <<rows, focusedRow, items, scrollTop, alignment, sizing, measuring, wasReset,
                 bounds, painted, scrolled>>

DragEnded ==
  /\ dragHeight # NotYet /\ dragHeight' = NotYet
  /\ calls < MaxCalls /\ calls' = calls + 1
  /\ UNCHANGED <<rows, focusedRow, items, scrollTop, alignment, sizing, measuring, wasReset,
                 bounds, painted, scrolled>>

\* How far the content of `its` can scroll in a viewport.
ScrollMax(its, height) == Max2(ContentHeight(its) + PadTop + PadBottom - height, 0)

\* A position in pixels as the logical scroll top; the end of a list that is pinned
\* to its end is no position at all.
ScrolledTo(y, max) == IF alignment = "Bottom" /\ y = max THEN NoOffset ELSE OffsetAt(items, y)

\* set_offset_from_scrollbar
DragTo(y) ==
  LET max == ScrollMax(items, bounds.height)
      drift == IF dragHeight = NotYet THEN 0 ELSE ContentHeight(items) - dragHeight
      moved == IF y - drift < 0 THEN drift - y ELSE y - drift
      new == Min2(moved, max)
  IN /\ bounds # NotYet
     /\ OffsetAt(items, new).offset <= MaxOffset
     /\ scrollTop' = ScrolledTo(new, max)
     /\ Unsettled
     /\ UNCHANGED <<rows, focusedRow, items, alignment, sizing, measuring, wasReset, bounds,
                    dragHeight>>

\* Window::focus of a row's handle.
FocusRow(row) ==
  /\ row \in FocusableRows /\ focusedRow # row
  /\ focusedRow' = row
  /\ Unsettled
  /\ UNCHANGED <<rows, items, scrollTop, alignment, sizing, measuring, wasReset, bounds,
                 dragHeight>>

------------------------------------------------------------------------------
(* The wheel, and the frame.                                                 *)

\* ScrollDelta::coalesce of two deltas in pixels: 0 counts as positive.
Coalesce(a, b) == IF (a >= 0) = (b >= 0) THEN a + b ELSE b

\* visible_range, as the first item and the end.
VisibleRange(height, top) ==
  LET y == HeightBefore(items, Min2(top.ix, Len(items))) + top.offset
  IN [from |-> top.ix, to |-> SeekLeft(items, y + height) + 1]

\* The listener that paint registered, and StateInner::scroll with the layout's scroll top.
Wheel(delta) ==
  LET sum == Coalesce(painted.delta, delta)
      top == painted.top
      max == ScrollMax(items, bounds.height)
      new == Min2(Max2(HeightBefore(items, Min2(top.ix, Len(items))) + top.offset - sum, 0), max)
  IN /\ painted # NotYet /\ sum \in (-MaxDelta)..MaxDelta
     /\ painted' = [Stale(painted, NoRow) EXCEPT !.delta = sum]
     /\ IF wasReset THEN UNCHANGED <<scrollTop, scrolled>>
        ELSE /\ OffsetAt(items, new).offset <= MaxOffset
             /\ scrollTop' = ScrolledTo(new, max)
             /\ scrolled' = VisibleRange(bounds.height, top)
     /\ UNCHANGED <<rows, focusedRow, items, alignment, sizing, measuring, wasReset, bounds,
                    dragHeight, calls>>

\* request_layout, prepaint and paint of a frame that gives the list this viewport;
\* `auto` is a request of one of the rows to scroll a part of it into view.
Draw(width, height, auto) ==
  \E layout \in {Prepaint(items, scrollTop, width, height, auto)} :
    /\ layout.scroll \in Offset \cup {NoOffset}
    /\ items' = layout.items
    /\ scrollTop' = layout.scroll
    /\ wasReset' = FALSE
    /\ measuring' = IF measuring = "pending" THEN "done" ELSE measuring
    /\ bounds' = [width |-> width, height |-> height]
    /\ painted' = [top |-> layout.top, delta |-> 0,
                   shown |-> layout.shown, visible |-> layout.visible, settled |-> TRUE,
                   revealed |-> IF painted # NotYet /\ bounds = bounds' /\ auto = NotYet
                                THEN painted.revealed ELSE NoRow,
                   auto |-> layout.auto]
    /\ scrolled' = NotYet
    /\ UNCHANGED <<rows, focusedRow, alignment, sizing, dragHeight, calls>>

------------------------------------------------------------------------------

\* ListState::new, with measure_all or without.
ListInit ==
  /\ rows \in RowLists
  /\ items = [i \in DOMAIN rows |-> Unmeasured(NoRow)]
  /\ \E kind \in Kinds :
       alignment = kind.alignment /\ sizing = kind.sizing /\ measuring = kind.measuring
  /\ focusedRow = NoRow
  /\ scrollTop = NoOffset /\ wasReset = FALSE
  /\ bounds = NotYet /\ dragHeight = NotYet /\ painted = NotYet /\ scrolled = NotYet /\ calls = 0

\* What a splice can bring in: a row that changed its height is a new row of the list.
Fresh == {new \in RowLists : Len(new) <= MaxSplice /\ Range(new) \cap Range(rows) = {}}

ListNext ==
  \/ \E from, to \in 0..Len(rows) : \E new \in Fresh :
       Splice(from, to, new)
  \/ \E new \in RowLists : Reset(new)
  \/ \E d \in Deltas : ScrollBy(d) \/ Wheel(d)
  \/ \E ix \in 0..Cardinality(Rows), offset \in ScrollOffsets : ScrollTo(ix, offset)
  \/ \E ix \in 0..Cardinality(Rows) : Reveal(ix)
  \/ DragStarted \/ DragEnded
  \/ \E y \in (-MaxOffset)..0 : DragTo(y)
  \/ \E row \in FocusableRows : FocusRow(row)
  \/ \E width \in Widths, height \in Heights, auto \in Requests \cup {NotYet} :
       Draw(width, height, auto)

ListSpec == ListInit /\ [][ListNext]_lvars

------------------------------------------------------------------------------
(* Properties.                                                               *)

\* Types; one item per row, with the row's handle or none, and a scroll top in the list.
TypeOK ==
  /\ rows \in RowLists /\ focusedRow \in FocusableRows \cup {NoRow}
  /\ DOMAIN items = DOMAIN rows
  /\ \A i \in DOMAIN items : items[i].handle \in {NoRow, rows[i]} /\ items[i].size \in Nat
  /\ scrollTop = NoOffset \/ (scrollTop \in Offset /\ scrollTop.ix <= Len(items))
  /\ measuring \in {"visible", "pending", "done"} /\ wasReset \in BOOLEAN

Settled == painted # NotYet /\ painted.settled
RowIn(i) == RowHeight[rows[i], bounds.width]

\* The lower edge of the laid out rows in the viewport.
LastEdge ==
  LET sum[k \in 0..painted.visible] ==
        IF k = 0 THEN 0 ELSE sum[k - 1] + RowIn(painted.top.ix + k)
  IN PadTop - painted.top.offset + sum[painted.visible]

\* A cached height is the row's own height in the width of the last frame, whatever was
\* spliced, reset, resized and scrolled since it was measured (a list that infers its size
\* caches heights of the minimal width: request_layout of ListSizingBehavior::Infer).
MeasuredRight ==
  sizing = "Auto" /\ bounds # NotYet =>
    \A i \in DOMAIN items : items[i].measured => items[i].size = RowIn(i)

\* layout_items leaves no part of the viewport empty below the rows while there are rows
\* that could be there: rows follow only below its end, and precede only when it is full.
NoGap ==
  Settled =>
    /\ painted.top.ix + painted.visible = Len(rows) \/ LastEdge >= bounds.height
    /\ painted.top.ix = 0 \/ LastEdge + PadBottom >= bounds.height

\* A list aligned to its bottom that is at its end shows the end of its last row at the
\* end of the viewport, also when the rows do not fill it.
PinnedToEnd ==
  Settled /\ alignment = "Bottom" /\ scrollTop = NoOffset /\ bounds.height >= PadTop + PadBottom =>
    /\ painted.top.ix + painted.visible = Len(rows)
    /\ LastEdge + PadBottom = bounds.height

\* The row that has the focus is rendered wherever the list is scrolled to, so that it
\* gets the keys.
FocusedShown ==
  Settled /\ bounds.height > PadTop + PadBottom =>
    \A i \in DOMAIN items :
      items[i].handle # NoRow /\ items[i].handle = focusedRow =>
        \E k \in DOMAIN painted.shown : painted.shown[k] = i - 1

\* The part of the viewport that the k-th row of a layout takes.
TopEdge(layout, k) == DrawnAt(layout, bounds.width, k)
BottomEdge(layout, k) == TopEdge(layout, k) + RowIn(layout.shown[k] + 1)

\* A row of a layout shows in the viewport, below the top padding.
RowIsSeen(layout, k) == BottomEdge(layout, k) > PadTop /\ TopEdge(layout, k) < bounds.height

\* The rows from the scroll top on that show in a layout, and where. (The padding counts as
\* filled when layout_items walks up from the end of a list, so that a row that the frame
\* before showed in the padding is not there any more.)
InView(layout) ==
  {<<layout.shown[k], TopEdge(layout, k)>> :
     k \in {j \in DOMAIN layout.shown : j <= layout.visible /\ RowIsSeen(layout, j)}}

\* A frame in which nothing changed shows what the frame before did: the scroll position
\* does not creep, whichever rows and heights layout_items measured on the way.
DrawSettles ==
  Settled /\ sizing = "Auto" =>
    InView(Prepaint(items, scrollTop, bounds.width, bounds.height, NotYet)) = InView(painted)

\* A focused row that is scrolled out of view is rendered out of view ("after the visible
\* items", list.rs:751): what comes after them is below the viewport, not in its padding.
FocusedAside ==
  Settled => \A k \in DOMAIN painted.shown : k > painted.visible => ~RowIsSeen(painted, k)

\* A request to scroll a part of a row into view is served in the frame it is made in, when
\* the part fits between the paddings.
AutoscrollServed ==
  Settled /\ painted.auto # NotYet
    /\ painted.auto.bottom - painted.auto.top <= bounds.height - PadTop - PadBottom =>
    \E k \in DOMAIN painted.shown :
      /\ rows[painted.shown[k] + 1] = painted.auto.row
      /\ TopEdge(painted, k) + painted.auto.top >= 0
      /\ TopEdge(painted, k) + painted.auto.bottom <= bounds.height

\* A list that infers its size may have cached heights of the minimal width in between.
AutoscrollShown == sizing = "Auto" => AutoscrollServed

\* scroll_to_reveal_item shows the row whatever part of the row at the scroll top is scrolled
\* away ("Scroll the list to the given item, such that the item is fully visible").
RevealedFromAnywhere ==
  [][\A ix \in 0..Cardinality(Rows) : Knowable(ix) /\ Reveal(ix) =>
       LET layout == Prepaint(items, scrollTop', bounds.width, bounds.height, NotYet) IN
       \E k \in DOMAIN layout.shown :
         /\ layout.shown[k] = ix
         /\ TopEdge(layout, k) >= 0 /\ BottomEdge(layout, k) <= bounds.height]_lvars

\* A row that scroll_to_reveal_item was called for is fully visible in the next frame, when
\* the heights of the rows down to it were known to the call and it fits, and the list was
\* scrolled to a place in a row.
RevealedShown ==
  Settled /\ painted.revealed # NoRow =>
    \E k \in DOMAIN painted.shown :
      /\ rows[painted.shown[k] + 1] = painted.revealed
      /\ TopEdge(painted, k) >= 0 /\ BottomEdge(painted, k) <= bounds.height

\* A splice that leaves the row at the scroll top in the list leaves it at the scroll top.
SpliceKeepsTop ==
  [][rows' # rows /\ scrollTop # NoOffset /\ scrollTop' # NoOffset =>
       \A i \in DOMAIN rows, j \in DOMAIN rows' :
         scrollTop.ix = i - 1 /\ rows'[j] = rows[i] =>
           scrollTop' = [ix |-> j - 1, offset |-> scrollTop.offset]]_lvars

\* An item for each row, with the height the row has or none (splice, reset, List::prepaint).
HeightsKnown == TypeOK /\ MeasuredRight

\* The viewport is as full as the rows allow, and at the end where the list is to be
\* (layout_items).
ViewportFilled == NoGap /\ PinnedToEnd

\* What is asked to be in view is in the next frame: the part of a row that autoscroll is
\* for, the row to be revealed, and the focused row at least rendered.
BroughtIntoView == AutoscrollShown /\ RevealedShown /\ FocusedShown

\* ListScrollEvent::visible_range is the range "after applying the scroll event" (list.rs:87):
\* it starts at the scroll top that the event led to.
RangeAfterScroll == scrolled # NotYet => scrolled.from = LogicalTop(items, scrollTop).ix
==============================================================================
