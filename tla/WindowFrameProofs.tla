--------------------------- MODULE WindowFrameProofs ---------------------------
(* Proofs about what a frame of a window is made of.                          *)
(*                                                                            *)
(* The focus that a frame shows, and what the focus listeners were told of    *)
(* it, are right, whatever parts of the last frame the frame was made of.     *)
(* The invariant types the two frames and the call stack of the draw          *)
(* (FramesOK, CallsOK) and says where the focus is in the frame being drawn   *)
(* (FocusKept); each action is shown to keep it, by a lemma named ...Inv, and *)
(* most of them by DrawGoesOn, a step within one phase.                       *)
(*                                                                            *)
(* Then lemmas about trees of views, about parts of lists and about what the  *)
(* steps of a draw do to the lists of a frame, for WindowNotifyProofs.        *)
EXTENDS WindowFrame, SequenceTheorems, FiniteSetTheorems, WellFoundedInduction, TLAPS

-----------------------------------------------------------------------------
(* Numbers and recursion.                                                  *)

\* A set of numbers has a least one.
LEMMA LeastNumber ==
  ASSUME NEW T, T \subseteq Nat, T # {}
  PROVE  \E n \in T : \A m \in T : n <= m
<1> DEFINE R == OpToRel(<, Nat)
<1>1. IsWellFoundedOn(R, Nat)
  BY NatLessThanWellFounded
<1>2. \A x, y \in Nat : <<y, x>> \in R <=> y < x
  BY DEF OpToRel
<1> HIDE DEF R
<1>3. \E n \in T : \A m \in T : ~(<<m, n>> \in R)
  BY <1>1, WFMin
<1>4. PICK n \in T : \A m \in T : ~(m < n)
  BY <1>2, <1>3
<1> QED BY <1>4

\* What holds of 0, and of each number after one it holds of, holds up to N.
LEMMA UpTo ==
  ASSUME NEW N \in Nat, NEW P, 0 \in P, \A n \in 0..(N - 1) : n \in P => n + 1 \in P
  PROVE  0..N \subseteq P
<1> DEFINE Bad == {n \in 0..N : n \notin P}
<1>1. SUFFICES ASSUME Bad # {} PROVE FALSE
  OBVIOUS
<1>2. PICK n \in Bad : \A m \in Bad : n <= m
  <2>1. Bad \subseteq Nat
    OBVIOUS
  <2> HIDE DEF Bad
  <2> QED BY <1>1, <2>1, LeastNumber
<1>3. n \in 0..N /\ n \notin P /\ n # 0
  OBVIOUS
<1>4. n - 1 \in 0..(N - 1) /\ ~(n <= n - 1) /\ (n - 1) + 1 = n /\ n - 1 \in 0..N
  BY <1>3
<1>5. n - 1 \in P
  BY <1>2, <1>4
<1> QED BY <1>3, <1>4, <1>5

\* There is a function whose value at a number is what `step` makes of that at the one before.
Recurs(f, n, V, a, step) ==
  f \in [0..n -> V] /\ f[0] = a /\ \A k \in 1..n : f[k] = step[<<k, f[k - 1]>>]

\* Recursion over the numbers up to n has a solution.
LEMMA Recursion ==
  ASSUME NEW n \in Nat, NEW V, NEW a \in V, NEW step,
         \A k \in 1..n, v \in V : step[<<k, v>>] \in V
  PROVE  \E f : Recurs(f, n, V, a, step)
<1> DEFINE Upto(f, m) == /\ f \in [0..n -> V] /\ f[0] = a
                         /\ \A k \in 1..m : f[k] = step[<<k, f[k - 1]>>]
           P == {m \in 0..n : \E f : Upto(f, m)}
<1>1. 0 \in P
  <2> DEFINE f == [k \in 0..n |-> a]
  <2>1. f \in [0..n -> V] /\ f[0] = a
    OBVIOUS
  <2> HIDE DEF f
  <2>2. Upto(f, 0)
    BY <2>1
  <2> QED BY <2>2
<1>2. ASSUME NEW m \in 0..(n - 1), m \in P PROVE m + 1 \in P
  <2>1. PICK f : Upto(f, m)
    BY <1>2
  <2> DEFINE v == step[<<m + 1, f[m]>>]
             g == [f EXCEPT ![m + 1] = v]
  <2>2. m + 1 \in 1..n /\ f[m] \in V /\ m \in 0..n /\ m # m + 1 /\ 0 # m + 1
    BY <2>1
  <2>3. v \in V
    BY <2>2
  <2> HIDE DEF v
  <2>4. /\ g \in [0..n -> V] /\ g[m + 1] = v
        /\ \A k \in 0..n : k # m + 1 => g[k] = f[k]
    BY <2>1, <2>2, <2>3
  <2> HIDE DEF g
  <2>5. ASSUME NEW k \in 1..(m + 1) PROVE g[k] = step[<<k, g[k - 1]>>]
    <3>1. k - 1 \in 0..n /\ k - 1 # m + 1 /\ k \in 0..n
      OBVIOUS
    <3>2. g[k - 1] = f[k - 1]
      BY <2>4, <3>1
    <3>3. CASE k = m + 1
      BY <2>4, <3>2, <3>3 DEF v
    <3>4. CASE k # m + 1
      <4>1. k \in 1..m
        BY <3>4
      <4> QED BY <2>1, <2>4, <3>1, <3>2, <3>4, <4>1
    <3> QED BY <3>3, <3>4
  <2>6. g[0] = a
    BY <2>1, <2>2, <2>4
  <2>7. Upto(g, m + 1)
    BY <2>4, <2>5, <2>6
  <2> QED BY <2>2, <2>7
<1>3. n \in P
  <2> HIDE DEF P
  <2> QED BY <1>1, <1>2, UpTo
<1> QED BY <1>3 DEF Recurs

-----------------------------------------------------------------------------
(* The types of frames and of the calls that draw them.                    *)

Entry == [view : Views, state : 0..1]
StateKeys == Views \X {"cache", "element"}
FramePlaces == [items : Nat, keys : Nat, deferred : Nat]
PaintPlaces == [paint : Nat, keys : Nat]

\* AnyViewState.
Caches == [from : FramePlaces, to : FramePlaces, accessed : SUBSET Views,
           paintFrom : PaintPlaces, paintTo : PaintPlaces]

\* DeferredDraw.
DeferredDraws == [view : Views, fresh : BOOLEAN, from : FramePlaces, to : FramePlaces,
                  paintFrom : PaintPlaces, paintTo : PaintPlaces]

FrameOf(f) ==
  [items |-> f.items, keys |-> f.keys, deferred |-> f.deferred, paint |-> f.paint,
   states |-> f.states, focus |-> f.focus, active |-> f.active]

CachesTyped(f) == \A v \in Views : CacheKey(v) \in DOMAIN f.states => f.states[CacheKey(v)] \in Caches

IsWindowFrame(f) ==
  /\ f = FrameOf(f)
  /\ f.items \in Seq(Entry) /\ f.paint \in Seq(Entry)
  /\ f.keys \in Seq(StateKeys) /\ f.deferred \in Seq(DeferredDraws)
  /\ CachesTyped(f)
  /\ f.active \in BOOLEAN

\* What is to be called in each of the two phases of a draw with n deferred draws.
PrepaintStack(n) ==
  [do : {"layout", "prepaint", "defer"}, view : Views]
  \cup [do : {"deferred draws", "end prepaint"}]
  \cup [do : {"end cached"}, view : Views, from : FramePlaces, refreshing : BOOLEAN, accessed : SUBSET Views]
  \cup [do : {"deferred"}, draw : 1..n]
  \cup [do : {"end deferred"}, draw : 1..n, from : FramePlaces]

\* A cached view that is being painted has its state (kept: those that have).
PaintStack(n, kept) ==
  [do : {"paint"}, view : Views]
  \cup [do : {"end draw"}]
  \cup [do : {"end paint"}, view : kept, from : PaintPlaces]
  \cup [do : {"paint deferred"}, draw : 1..n]
  \cup [do : {"end paint deferred"}, draw : 1..n, from : PaintPlaces]

-----------------------------------------------------------------------------
(* The invariant.                                                          *)

FramesOK == IsWindowFrame(rendered) /\ IsWindowFrame(next) /\ draws \in Seq(DeferredDraws)

WithState(f) == {v \in Views : CacheKey(v) \in DOMAIN f.states}

CallsOK ==
  /\ phase = "prepaint" => todo \in Seq(PrepaintStack(Len(draws)))
  /\ phase = "paint" => todo \in Seq(PaintStack(Len(draws), WithState(next)))
  /\ phase \in {"none", "focus"} => todo = <<>> /\ next = NoFrame /\ marked = {}

FocusIn(f) == f.focus = IF focus \in ViewsIn(f.items) THEN focus ELSE Nobody

\* The focus is in the frame that is drawn, and in one that is drawn until it is moved.
FocusKept ==
  ~late =>
    /\ phase \in {"prepaint", "paint"} => FocusIn(next)
    /\ phase = "focus" => FocusIn(rendered)
    /\ phase = "none" /\ ~dirty /\ rendered # NoFrame => FocusIn(rendered)

\* The focus listeners were told of every frame.
TheyKnow == within = IF rendered.active THEN FocusPath(rendered) ELSE {}

WindowInv == WindowTypeOK /\ FramesOK /\ CallsOK /\ FocusKept /\ TheyKnow

-----------------------------------------------------------------------------
(* Frames and what is done to them.                                        *)

\* The views of a list that two lists are put together to.
LEMMA ViewsOfConcat ==
  ASSUME NEW a \in Seq(Entry), NEW b \in Seq(Entry)
  PROVE  a \o b \in Seq(Entry) /\ ViewsIn(a \o b) = ViewsIn(a) \cup ViewsIn(b)
<1>1. /\ a \o b \in Seq(Entry) /\ Len(a \o b) = Len(a) + Len(b)
      /\ \A i \in 1..(Len(a) + Len(b)) : (a \o b)[i] = IF i <= Len(a) THEN a[i] ELSE b[i - Len(a)]
  BY ConcatProperties
<1>2. /\ Len(a) \in Nat /\ Len(b) \in Nat /\ DOMAIN a = 1..Len(a) /\ DOMAIN b = 1..Len(b)
      /\ DOMAIN (a \o b) = 1..(Len(a) + Len(b))
  BY <1>1
<1>3. ASSUME NEW i \in DOMAIN (a \o b) PROVE (a \o b)[i].view \in ViewsIn(a) \cup ViewsIn(b)
  <2>1. \/ i \in DOMAIN a /\ (a \o b)[i] = a[i]
        \/ i - Len(a) \in DOMAIN b /\ (a \o b)[i] = b[i - Len(a)]
    BY <1>1, <1>2
  <2> QED BY <2>1 DEF ViewsIn
<1>4. ASSUME NEW i \in DOMAIN a PROVE a[i].view \in ViewsIn(a \o b)
  <2>1. i \in DOMAIN (a \o b) /\ (a \o b)[i] = a[i]
    BY <1>1, <1>2
  <2> QED BY <2>1 DEF ViewsIn
<1>5. ASSUME NEW i \in DOMAIN b PROVE b[i].view \in ViewsIn(a \o b)
  <2>1. Len(a) + i \in DOMAIN (a \o b) /\ (a \o b)[Len(a) + i] = b[i]
    BY <1>1, <1>2
  <2> QED BY <2>1 DEF ViewsIn
<1>6. ViewsIn(a \o b) \subseteq ViewsIn(a) \cup ViewsIn(b)
  <2>1. \A x \in ViewsIn(a \o b) : \E i \in DOMAIN (a \o b) : x = (a \o b)[i].view
    BY DEF ViewsIn
  <2> QED BY <1>3, <2>1
<1>7. ViewsIn(a) \subseteq ViewsIn(a \o b) /\ ViewsIn(b) \subseteq ViewsIn(a \o b)
  <2>1. \A x \in ViewsIn(a) : \E i \in DOMAIN a : x = a[i].view
    BY DEF ViewsIn
  <2>2. \A x \in ViewsIn(b) : \E i \in DOMAIN b : x = b[i].view
    BY DEF ViewsIn
  <2> QED BY <1>4, <1>5, <2>1, <2>2
<1> QED BY <1>1, <1>6, <1>7

\* A view has an item at least.
LEMMA ShowsIs ==
  ASSUME NEW v \in Views, NEW s \in 0..1
  PROVE  Shows(v, s) \in Seq(Entry) /\ ViewsIn(Shows(v, s)) = {v}
<1>1. 2 - s \in Nat /\ 1 \in 1..(2 - s) /\ [view |-> v, state |-> s] \in Entry
  BY DEF Entry
<1>2. Shows(v, s) = [n \in 1..(2 - s) |-> [view |-> v, state |-> s]]
  BY DEF Shows
<1>3. Shows(v, s) \in Seq(Entry)
  BY <1>1, <1>2, IsASeq
<1>4. DOMAIN Shows(v, s) = 1..(2 - s) /\ \A n \in 1..(2 - s) : Shows(v, s)[n].view = v
  BY <1>2
<1> QED BY <1>1, <1>3, <1>4 DEF ViewsIn

\* A part of a list is one of the same kind.
LEMMA BetweenIs ==
  ASSUME NEW S, NEW list \in Seq(S), NEW from \in Nat, NEW to \in Nat
  PROVE  Between(list, from, to) \in Seq(S)
<1> DEFINE end == IF to > Len(list) THEN Len(list) ELSE to
<1>1. end \in Nat /\ end <= Len(list) /\ Len(list) \in Nat
  OBVIOUS
<1> HIDE DEF end
<1>2. \A i \in (from + 1)..end : i \in 1..Len(list) /\ list[i] \in S
  BY <1>1, ElementOfSeq
<1>3. SubSeq(list, from + 1, end) \in Seq(S)
  BY <1>1, <1>2, SubSeqProperties
<1> QED BY <1>3 DEF Between, end

\* What a step may do to a frame without a change to where the focus is in it.
LikeFrame(g, f) == IsWindowFrame(g) /\ g.items = f.items /\ g.focus = f.focus /\ g.active = f.active

\* The keys of the two kinds of states are different.
LEMMA KeysDiffer ==
  ASSUME NEW v \in Views, NEW w \in Views
  PROVE  /\ CacheKey(v) \in StateKeys /\ ElementKey(v) \in StateKeys /\ CacheKey(v) # ElementKey(w)
         /\ CacheKey(v) = CacheKey(w) => v = w
BY DEF CacheKey, ElementKey, StateKeys

\* A frame without a state, and with one.
LEMMA WithoutIs ==
  ASSUME NEW f, IsWindowFrame(f), NEW key
  PROVE  /\ LikeFrame(Without(f, key), f)
         /\ DOMAIN Without(f, key).states = DOMAIN f.states \ {key}
<1> DEFINE states == [k \in DOMAIN f.states \ {key} |-> f.states[k]]
           g == [FrameOf(f) EXCEPT !.states = states]
<1>1. Without(f, key) = g
  BY DEF Without, IsWindowFrame
<1>2. /\ DOMAIN states = DOMAIN f.states \ {key}
      /\ \A k \in DOMAIN f.states \ {key} : states[k] = f.states[k]
  OBVIOUS
<1> HIDE DEF states
<1>3. /\ g = FrameOf(g) /\ g.states = states /\ g.items = f.items /\ g.paint = f.paint /\ g.keys = f.keys
      /\ g.deferred = f.deferred /\ g.focus = f.focus /\ g.active = f.active
  BY DEF FrameOf
<1> HIDE DEF g
<1>4. CachesTyped(g)
  BY <1>2, <1>3 DEF CachesTyped, IsWindowFrame
<1> QED BY <1>1, <1>2, <1>3, <1>4 DEF LikeFrame, IsWindowFrame

\* and a frame with one: a cached view is given the state of one (AnyViewState).
LEMMA WithIs ==
  ASSUME NEW f, IsWindowFrame(f), NEW key, NEW value,
         \A v \in Views : key = CacheKey(v) => value \in Caches
  PROVE  /\ LikeFrame(With(f, key, value), f)
         /\ DOMAIN With(f, key, value).states = DOMAIN f.states \cup {key}
<1> DEFINE states == [k \in DOMAIN f.states \cup {key} |-> IF k = key THEN value ELSE f.states[k]]
           g == [FrameOf(f) EXCEPT !.states = states]
<1>1. With(f, key, value) = g
  BY DEF With, IsWindowFrame
<1>2. /\ DOMAIN states = DOMAIN f.states \cup {key}
      /\ \A k \in DOMAIN f.states \cup {key} : states[k] = IF k = key THEN value ELSE f.states[k]
  OBVIOUS
<1> HIDE DEF states
<1>3. /\ g = FrameOf(g) /\ g.states = states /\ g.items = f.items /\ g.paint = f.paint /\ g.keys = f.keys
      /\ g.deferred = f.deferred /\ g.focus = f.focus /\ g.active = f.active
  BY DEF FrameOf
<1> HIDE DEF g
<1>4. CachesTyped(g)
  BY <1>2, <1>3 DEF CachesTyped, IsWindowFrame
<1> QED BY <1>1, <1>2, <1>3, <1>4 DEF LikeFrame, IsWindowFrame

\* A frame in which a state was asked for.
LEMMA AccessesIs ==
  ASSUME NEW f, IsWindowFrame(f), NEW key \in StateKeys
  PROVE  LikeFrame(Accesses(f, key), f) /\ Accesses(f, key).states = f.states
<1> DEFINE keys == Append(f.keys, key)
           g == [FrameOf(f) EXCEPT !.keys = keys]
<1>1. Accesses(f, key) = g
  BY DEF Accesses, IsWindowFrame
<1>2. keys \in Seq(StateKeys)
  BY AppendProperties DEF IsWindowFrame
<1> HIDE DEF keys
<1>3. /\ g = FrameOf(g) /\ g.states = f.states /\ g.items = f.items /\ g.paint = f.paint /\ g.keys = keys
      /\ g.deferred = f.deferred /\ g.focus = f.focus /\ g.active = f.active
  BY DEF FrameOf
<1> HIDE DEF g
<1>4. CachesTyped(g)
  BY <1>3 DEF CachesTyped, IsWindowFrame
<1> QED BY <1>1, <1>2, <1>3, <1>4 DEF LikeFrame, IsWindowFrame

\* How far a frame is.
LEMMA IndexIs ==
  ASSUME NEW f, IsWindowFrame(f)
  PROVE  Index(f) \in FramePlaces /\ PaintIndex(f) \in PaintPlaces
<1>1. Len(f.items) \in Nat /\ Len(f.keys) \in Nat /\ Len(f.deferred) \in Nat /\ Len(f.paint) \in Nat
  BY DEF IsWindowFrame
<1> QED BY <1>1 DEF Index, PaintIndex, FramePlaces, PaintPlaces

\* A frame with nothing in it.
LEMMA NoFrameIs == IsWindowFrame(NoFrame) /\ ViewsIn(NoFrame.items) = {} /\ NoFrame.focus = Nobody /\ ~NoFrame.active
<1> DEFINE f == NoFrame
<1>1. /\ f = FrameOf(f) /\ f.items = <<>> /\ f.paint = <<>> /\ f.keys = <<>> /\ f.deferred = <<>>
      /\ f.states = <<>> /\ f.focus = Nobody /\ f.active = FALSE
  BY DEF NoFrame, FrameOf
<1> HIDE DEF f
<1>2. \A S : <<>> \in Seq(S)
  OBVIOUS
<1>3. DOMAIN f.states = {}
  BY <1>1
<1>4. IsWindowFrame(f)
  BY <1>1, <1>2, <1>3 DEF IsWindowFrame, CachesTyped
<1>5. ViewsIn(f.items) = {}
  BY <1>1 DEF ViewsIn
<1> QED BY <1>1, <1>4, <1>5 DEF f

\* The deferred draws that are reused are to be prepainted from what is reused.
LEMMA DeferredAgain ==
  ASSUME NEW list \in Seq(DeferredDraws)
  PROVE  [n \in DOMAIN list |-> [list[n] EXCEPT !.fresh = FALSE]] \in Seq(DeferredDraws)
<1>1. Len(list) \in Nat /\ DOMAIN list = 1..Len(list) /\ \A n \in 1..Len(list) : list[n] \in DeferredDraws
  BY ElementOfSeq
<1>2. \A d \in DeferredDraws : [d EXCEPT !.fresh = FALSE] \in DeferredDraws
  BY DEF DeferredDraws
<1>3. \A n \in 1..Len(list) : [list[n] EXCEPT !.fresh = FALSE] \in DeferredDraws
  BY <1>1, <1>2
<1> QED BY <1>1, <1>3, IsASeq

\* The state that an element finds.
LEMMA StateFound ==
  ASSUME IsWindowFrame(rendered), IsWindowFrame(next), NEW v \in Views, Has(CacheKey(v))
  PROVE  StateOf(CacheKey(v)) \in Caches
BY DEF Has, StateOf, IsWindowFrame, CachesTyped

\* reuse_prepaint brings the focus along, if it is in what is reused.
LEMMA ReusedIs ==
  ASSUME NEW f, IsWindowFrame(f), IsWindowFrame(rendered),
         NEW from \in FramePlaces, NEW to \in FramePlaces
  PROVE  /\ IsWindowFrame(Reused(f, from, to))
         /\ Reused(f, from, to).states = f.states /\ Reused(f, from, to).active = f.active
         /\ FocusIn(f) => FocusIn(Reused(f, from, to))
<1> DEFINE more == Between(rendered.items, from.items, to.items)
           keys == Between(rendered.keys, from.keys, to.keys)
           deferred == Between(rendered.deferred, from.deferred, to.deferred)
           again == [n \in DOMAIN deferred |-> [deferred[n] EXCEPT !.fresh = FALSE]]
           newItems == f.items \o more
           newKeys == f.keys \o keys
           newDeferred == f.deferred \o again
           newFocus == IF focus \in ViewsIn(more) THEN focus ELSE f.focus
           g1 == [FrameOf(f) EXCEPT !.items = newItems]
           g2 == [g1 EXCEPT !.keys = newKeys]
           g3 == [g2 EXCEPT !.deferred = newDeferred]
           g == [g3 EXCEPT !.focus = newFocus]
<1>1. /\ from.items \in Nat /\ from.keys \in Nat /\ from.deferred \in Nat
      /\ to.items \in Nat /\ to.keys \in Nat /\ to.deferred \in Nat
  BY DEF FramePlaces
<1>2. more \in Seq(Entry) /\ keys \in Seq(StateKeys) /\ deferred \in Seq(DeferredDraws)
  BY <1>1, BetweenIs DEF IsWindowFrame
<1>3. Reused(f, from, to) = g
  BY DEF Reused, IsWindowFrame, FrameOf
<1> HIDE DEF more, keys, deferred
<1>4. again \in Seq(DeferredDraws)
  BY <1>2, DeferredAgain
<1> HIDE DEF again
<1>5. newItems \in Seq(Entry) /\ ViewsIn(newItems) = ViewsIn(f.items) \cup ViewsIn(more)
  BY <1>2, ViewsOfConcat DEF IsWindowFrame
<1>6. newKeys \in Seq(StateKeys) /\ newDeferred \in Seq(DeferredDraws)
  BY <1>2, <1>4, ConcatProperties DEF IsWindowFrame
<1>7. FocusIn(f) => newFocus = IF focus \in ViewsIn(newItems) THEN focus ELSE Nobody
  BY <1>5 DEF FocusIn
<1> HIDE DEF newItems, newKeys, newDeferred, newFocus
<1>8. g1 = [items |-> newItems, keys |-> f.keys, deferred |-> f.deferred, paint |-> f.paint,
              states |-> f.states, focus |-> f.focus, active |-> f.active]
  BY DEF FrameOf
<1> HIDE DEF g1
<1>9. g2 = [items |-> newItems, keys |-> newKeys, deferred |-> f.deferred, paint |-> f.paint,
              states |-> f.states, focus |-> f.focus, active |-> f.active]
  BY <1>8
<1> HIDE DEF g2
<1>10. g3 = [items |-> newItems, keys |-> newKeys, deferred |-> newDeferred, paint |-> f.paint,
              states |-> f.states, focus |-> f.focus, active |-> f.active]
  BY <1>9
<1> HIDE DEF g3
<1>11. g = [items |-> newItems, keys |-> newKeys, deferred |-> newDeferred, paint |-> f.paint,
             states |-> f.states, focus |-> newFocus, active |-> f.active]
  BY <1>10
<1> HIDE DEF g
<1>12. /\ g = FrameOf(g) /\ g.states = f.states /\ g.items = newItems /\ g.paint = f.paint
      /\ g.keys = newKeys /\ g.deferred = newDeferred /\ g.focus = newFocus /\ g.active = f.active
  BY <1>11 DEF FrameOf
<1>13. CachesTyped(g)
  BY <1>12 DEF CachesTyped, IsWindowFrame
<1>14. IsWindowFrame(g)
  BY <1>5, <1>6, <1>12, <1>13 DEF IsWindowFrame
<1>15. FocusIn(f) => FocusIn(g)
  BY <1>7, <1>12 DEF FocusIn
<1> QED BY <1>3, <1>12, <1>14, <1>15

\* reuse_paint.
LEMMA PaintAgainIs ==
  ASSUME NEW f, IsWindowFrame(f), IsWindowFrame(rendered),
         NEW from \in PaintPlaces, NEW to \in PaintPlaces
  PROVE  /\ LikeFrame(PaintAgain(f, from, to), f)
         /\ PaintAgain(f, from, to).states = f.states
<1> DEFINE paint == f.paint \o Between(rendered.paint, from.paint, to.paint)
           keys == f.keys \o Between(rendered.keys, from.keys, to.keys)
           g1 == [FrameOf(f) EXCEPT !.paint = paint]
           g == [g1 EXCEPT !.keys = keys]
<1>1. from.paint \in Nat /\ from.keys \in Nat /\ to.paint \in Nat /\ to.keys \in Nat
  BY DEF PaintPlaces
<1>2. /\ Between(rendered.paint, from.paint, to.paint) \in Seq(Entry)
      /\ Between(rendered.keys, from.keys, to.keys) \in Seq(StateKeys)
  BY <1>1, BetweenIs DEF IsWindowFrame
<1>3. paint \in Seq(Entry) /\ keys \in Seq(StateKeys)
  BY <1>2, ConcatProperties DEF IsWindowFrame
<1>4. PaintAgain(f, from, to) = g
  BY DEF PaintAgain, IsWindowFrame, FrameOf
<1> HIDE DEF paint, keys
<1>5. g1 = [items |-> f.items, keys |-> f.keys, deferred |-> f.deferred, paint |-> paint,
              states |-> f.states, focus |-> f.focus, active |-> f.active]
  BY DEF FrameOf
<1> HIDE DEF g1
<1>6. g = [items |-> f.items, keys |-> keys, deferred |-> f.deferred, paint |-> paint,
             states |-> f.states, focus |-> f.focus, active |-> f.active]
  BY <1>5
<1> HIDE DEF g
<1>7. /\ g = FrameOf(g) /\ g.states = f.states /\ g.items = f.items /\ g.paint = paint
      /\ g.keys = keys /\ g.deferred = f.deferred /\ g.focus = f.focus /\ g.active = f.active
  BY <1>6 DEF FrameOf
<1>8. CachesTyped(g)
  BY <1>7 DEF CachesTyped, IsWindowFrame
<1> QED BY <1>3, <1>4, <1>7, <1>8 DEF LikeFrame, IsWindowFrame

\* The elements of a view take the focus along, if they have it.
LEMMA PrepaintedIs ==
  ASSUME IsWindowFrame(rendered), NEW f, IsWindowFrame(f), NEW v \in Views, built \in [Views -> 0..1]
  PROVE  /\ IsWindowFrame(Prepainted(f, v))
         /\ FocusIn(f) => FocusIn(Prepainted(f, v))
<1> DEFINE key == ElementKey(v)
           value == IF Has(key) THEN StateOf(key) ELSE "new"
           element == Accesses(f, key)
           with == With(element, key, value)
           more == with.items \o Shows(v, built[v])
           newFocus == IF focus = v THEN v ELSE with.focus
           g1 == [FrameOf(with) EXCEPT !.items = more]
           g == [g1 EXCEPT !.focus = newFocus]
<1>1. LikeFrame(element, f)
  BY KeysDiffer, AccessesIs
<1>2. IsWindowFrame(element) /\ element.items = f.items /\ element.focus = f.focus
  BY <1>1 DEF LikeFrame
<1> HIDE DEF value, element
<1>3. LikeFrame(with, element)
  BY <1>2, KeysDiffer, WithIs
<1>4. IsWindowFrame(with) /\ with.items = f.items /\ with.focus = f.focus
  BY <1>2, <1>3 DEF LikeFrame
<1>5. with = FrameOf(with)
  BY <1>4 DEF IsWindowFrame
<1>6. Prepainted(f, v) = g
  <2>1. Prepainted(f, v) = [with EXCEPT !.items = with.items \o Shows(v, built[v]),
                                        !.focus = IF focus = v THEN v ELSE with.focus]
    BY DEF Prepainted, element, value
  <2> HIDE DEF with
  <2> QED BY <1>5, <2>1
<1> HIDE DEF with, key
<1>7. built[v] \in 0..1
  OBVIOUS
<1>8. Shows(v, built[v]) \in Seq(Entry) /\ ViewsIn(Shows(v, built[v])) = {v} /\ with.items \in Seq(Entry)
  BY <1>4, <1>7, ShowsIs DEF IsWindowFrame
<1>9. more \in Seq(Entry) /\ ViewsIn(more) = ViewsIn(f.items) \cup {v}
  BY <1>4, <1>8, ViewsOfConcat
<1>10. FocusIn(f) => newFocus = IF focus \in ViewsIn(more) THEN focus ELSE Nobody
  BY <1>4, <1>9 DEF FocusIn
<1> HIDE DEF more, newFocus
<1>11. g1 = [items |-> more, keys |-> with.keys, deferred |-> with.deferred, paint |-> with.paint,
               states |-> with.states, focus |-> with.focus, active |-> with.active]
  BY DEF FrameOf
<1> HIDE DEF g1
<1>12. g = [items |-> more, keys |-> with.keys, deferred |-> with.deferred, paint |-> with.paint,
              states |-> with.states, focus |-> newFocus, active |-> with.active]
  BY <1>11
<1> HIDE DEF g
<1>13. /\ g = FrameOf(g) /\ g.states = with.states /\ g.items = more /\ g.paint = with.paint
       /\ g.keys = with.keys /\ g.deferred = with.deferred /\ g.focus = newFocus /\ g.active = with.active
  BY <1>12 DEF FrameOf
<1>14. CachesTyped(g)
  BY <1>4, <1>13 DEF CachesTyped, IsWindowFrame
<1>15. IsWindowFrame(g)
  BY <1>4, <1>9, <1>13, <1>14 DEF IsWindowFrame
<1>16. FocusIn(f) => FocusIn(g)
  BY <1>10, <1>13 DEF FocusIn
<1> QED BY <1>6, <1>15, <1>16

\* Frame::finish.
LEMMA FinishedIs ==
  ASSUME NEW f, IsWindowFrame(f), NEW last, IsWindowFrame(last)
  PROVE  LikeFrame(Finished(f, last), f)
<1> DEFINE kept == {f.keys[n] : n \in DOMAIN f.keys} \cap DOMAIN last.states
           states == [k \in DOMAIN f.states \cup kept |-> IF k \in kept THEN last.states[k] ELSE f.states[k]]
           g == [FrameOf(f) EXCEPT !.states = states]
<1>1. Finished(f, last) = g
  BY DEF Finished, IsWindowFrame
<1>2. kept \subseteq DOMAIN last.states
  OBVIOUS
<1>3. /\ DOMAIN states = DOMAIN f.states \cup kept
      /\ \A k \in DOMAIN f.states \cup kept : states[k] = IF k \in kept THEN last.states[k] ELSE f.states[k]
  OBVIOUS
<1> HIDE DEF states, kept
<1>4. /\ g = FrameOf(g) /\ g.states = states /\ g.items = f.items /\ g.paint = f.paint /\ g.keys = f.keys
      /\ g.deferred = f.deferred /\ g.focus = f.focus /\ g.active = f.active
  BY DEF FrameOf
<1> HIDE DEF g
<1>5. CachesTyped(g)
  BY <1>2, <1>3, <1>4 DEF CachesTyped, IsWindowFrame
<1> QED BY <1>1, <1>4, <1>5 DEF LikeFrame, IsWindowFrame

-----------------------------------------------------------------------------
(* Views and what holds them.                                              *)

\* A view that is in another.
Nested == [view : Views, deferred : BOOLEAN]

\* What is in a view, in either of its states.
LEMMA ChildrenAre ==
  ASSUME NEW v \in Views, NEW states \in [Views -> 0..1]
  PROVE  Children[v][states[v]] \in Seq(Nested)
<1> DEFINE S == Seq(Nested)
<1>1. Children \in [Views -> [0..1 -> S]]
  BY ViewsAssumption DEF Nested
<1> HIDE DEF S
<1>2. Children[v] \in [0..1 -> S] /\ states[v] \in 0..1
  BY <1>1
<1>3. Children[v][states[v]] \in S
  BY <1>2
<1> QED BY <1>3 DEF S

\* What is in a view, is a view.
LEMMA InsideIs ==
  ASSUME NEW v \in Views, NEW states \in [Views -> 0..1]
  PROVE  Inside(v, states) \subseteq Views
<1> DEFINE in == Children[v][states[v]]
<1>1. in \in Seq(Nested)
  BY ChildrenAre
<1> HIDE DEF in
<1>2. \A n \in DOMAIN in : in[n] \in Nested
  <2>1. Len(in) \in Nat /\ DOMAIN in = 1..Len(in)
    BY <1>1
  <2> QED BY <1>1, <2>1, ElementOfSeq
<1>3. \A n \in DOMAIN in : in[n].view \in Views
  BY <1>2 DEF Nested
<1> QED BY <1>3 DEF Inside, in

\* The number of views.
LEMMA ViewsCounted == Cardinality(Views) \in Nat
BY ViewsAssumption, FS_CardinalityType

Iteration(f, n, a, step) == f = [k \in 0..n |-> IF k = 0 THEN a ELSE step[f[k - 1]]]

\* There is a function that is such an iteration, with values in a set that the steps keep to.
LEMMA Iterated ==
  ASSUME NEW n \in Nat, NEW V, NEW a \in V, NEW step, \A x \in V : step[x] \in V
  PROVE  \E f : f \in [0..n -> V] /\ Iteration(f, n, a, step)
<1> DEFINE steps == [p \in (1..n) \X V |-> step[p[2]]]
<1>1. \A k \in 1..n, v \in V : steps[<<k, v>>] = step[v] /\ steps[<<k, v>>] \in V
  OBVIOUS
<1> HIDE DEF steps
<1>2. PICK f : Recurs(f, n, V, a, steps)
  BY <1>1, Recursion
<1>3. f \in [0..n -> V] /\ f[0] = a /\ f = [k \in 0..n |-> f[k]]
  BY <1>2 DEF Recurs
<1>4. ASSUME NEW k \in 0..n PROVE f[k] = IF k = 0 THEN a ELSE step[f[k - 1]]
  <2>1. k = 0 \/ (k \in 1..n /\ k # 0 /\ k - 1 \in 0..n)
    OBVIOUS
  <2>2. CASE k \in 1..n /\ k # 0 /\ k - 1 \in 0..n
    <3>1. f[k] = steps[<<k, f[k - 1]>>] /\ f[k - 1] \in V
      BY <1>2, <2>2 DEF Recurs
    <3> QED BY <1>1, <2>2, <3>1
  <2> QED BY <1>3, <2>1, <2>2
<1>5. f = [k \in 0..n |-> IF k = 0 THEN a ELSE step[f[k - 1]]]
  BY <1>3, <1>4
<1> QED BY <1>3, <1>5 DEF Iteration

\* p may have c in it.
Holds(p, c) == \E s \in 0..1 : c \in Inside(p, [q \in Views |-> s])

\* What holds the views in A, besides.
Upward(A) == A \cup {p \in Views : \E c \in A : Holds(p, c)}

\* The views that hold others are found from these upwards.
LEMMA HoldersIterate ==
  \E up : /\ up \in [0..Cardinality(Views) -> [Views -> SUBSET Views]]
          /\ Holders = up[Cardinality(Views)]
          /\ \A v \in Views : up[0][v] = {v}
          /\ \A k \in 1..Cardinality(Views), v \in Views : up[k][v] = Upward(up[k - 1][v])
<1> DEFINE N == Cardinality(Views)
           V == [Views -> SUBSET Views]
           holds(p, c) == \E s \in 0..1 : c \in Inside(p, [q \in Views |-> s])
           a == [v \in Views |-> {v}]
           above(below) == [v \in Views |-> below[v] \cup {p \in Views : \E c \in below[v] : holds(p, c)}]
           Up(f) == [n \in 0..N |-> IF n = 0 THEN a ELSE above(f[n - 1])]
           up == CHOOSE f : f = Up(f)
           step == [b \in V |-> above(b)]
<1>1. N \in Nat
  BY ViewsCounted
<1>2. Holders = up[N]
  BY DEF Holders
<1>3. a \in V
  OBVIOUS
<1>4. \A b \in V : step[b] = above(b)
  OBVIOUS
<1>5. \A b \in V : above(b) \in V
  OBVIOUS
<1> HIDE DEF step, above, N
<1> HIDE DEF V, a
<1>6. PICK f : f \in [0..N -> V] /\ Iteration(f, N, a, step)
  <2>1. \A b \in V : step[b] \in V
    BY <1>4, <1>5
  <2> QED BY <1>1, <1>3, <2>1, Iterated
<1>7. f = Up(f)
  <2>1. \A k \in 0..N : f[k] = IF k = 0 THEN a ELSE step[f[k - 1]]
    BY <1>6 DEF Iteration
  <2>2. ASSUME NEW k \in 0..N PROVE f[k] = IF k = 0 THEN a ELSE above(f[k - 1])
    <3>1. k = 0 \/ (k # 0 /\ k - 1 \in 0..N)
      BY <1>1
    <3>2. k # 0 => f[k - 1] \in V
      BY <1>6, <3>1
    <3> QED BY <1>4, <2>1, <3>2
  <2>3. f = [k \in 0..N |-> f[k]]
    BY <1>6
  <2> QED BY <2>2, <2>3
<1>8. up = Up(up)
  BY <1>7
<1> HIDE DEF up
<1> DEFINE P == {k \in 0..N : up[k] \in V}
           u == Up(up)
<1>9. u[0] = a /\ (\A k \in 1..N : u[k] = above(up[k - 1]))
  BY <1>1
<1> HIDE DEF u
<1>10. 0 \in P
  BY <1>1, <1>3, <1>8, <1>9 DEF u
<1>11. ASSUME NEW k \in 0..(N - 1), k \in P PROVE k + 1 \in P
  <2>1. k + 1 \in 1..N /\ (k + 1) - 1 = k
    BY <1>1
  <2>2. up[k + 1] = above(up[k])
    BY <1>8, <1>9, <2>1 DEF u
  <2> QED BY <1>5, <1>11, <2>1, <2>2
<1>12. 0..N \subseteq P
  <2> HIDE DEF P
  <2> QED BY <1>1, <1>10, <1>11, UpTo
<1>13. \A k \in 0..N : up[k] \in V
  BY <1>12
<1>14. up \in [0..N -> V]
  BY <1>8, <1>13
<1>15. \A v \in Views : up[0][v] = {v}
  BY <1>8, <1>9 DEF u, a
<1>16. ASSUME NEW k \in 1..N, NEW v \in Views PROVE up[k][v] = Upward(up[k - 1][v])
  <2>1. up[k] = above(up[k - 1])
    BY <1>8, <1>9 DEF u
  <2> QED BY <2>1 DEF above, Upward, Holds
<1>17. Holders = up[N]
  BY <1>2
<1> QED BY <1>14, <1>15, <1>16, <1>17 DEF V, N

\* Views are held by views.
LEMMA HoldersAre == Holders \in [Views -> SUBSET Views]
BY HoldersIterate, ViewsCounted

\* What is rendered with the views in A, besides.
Downward(A, states) == A \cup UNION {Inside(c, states) \ Cached : c \in A}

\* What is rendered with a view is found from it downwards.
LEMMA RenderedIterate ==
  ASSUME NEW v \in Views, NEW states \in [Views -> 0..1]
  PROVE  \E down : /\ down \in [0..Cardinality(Views) -> SUBSET Views]
                   /\ RenderedWith(v, states) = down[Cardinality(Views)]
                   /\ down[0] = {v}
                   /\ \A k \in 1..Cardinality(Views) : down[k] = Downward(down[k - 1], states)
<1> DEFINE N == Cardinality(Views)
           V == SUBSET Views
           below(b) == b \cup UNION {Inside(c, states) \ Cached : c \in b}
           Down(f) == [n \in 0..N |-> IF n = 0 THEN {v} ELSE below(f[n - 1])]
           down == CHOOSE f : f = Down(f)
           step == [b \in V |-> below(b)]
<1>1. N \in Nat
  BY ViewsCounted
<1>2. RenderedWith(v, states) = down[N]
  BY DEF RenderedWith
<1>3. {v} \in V
  OBVIOUS
<1>4. \A b \in V : step[b] = below(b)
  OBVIOUS
<1>5. \A b \in V : below(b) \in V
  BY InsideIs
<1> HIDE DEF step, below, N
<1> HIDE DEF V
<1>6. PICK f : f \in [0..N -> V] /\ Iteration(f, N, {v}, step)
  <2>1. \A b \in V : step[b] \in V
    BY <1>4, <1>5
  <2> QED BY <1>1, <1>3, <2>1, Iterated
<1>7. f = Down(f)
  <2>1. \A k \in 0..N : f[k] = IF k = 0 THEN {v} ELSE step[f[k - 1]]
    BY <1>6 DEF Iteration
  <2>2. ASSUME NEW k \in 0..N PROVE f[k] = IF k = 0 THEN {v} ELSE below(f[k - 1])
    <3>1. k = 0 \/ (k # 0 /\ k - 1 \in 0..N)
      BY <1>1
    <3>2. k # 0 => f[k - 1] \in V
      BY <1>6, <3>1
    <3> QED BY <1>4, <2>1, <3>2
  <2>3. f = [k \in 0..N |-> f[k]]
    BY <1>6
  <2> QED BY <2>2, <2>3
<1>8. down = Down(down)
  BY <1>7
<1> HIDE DEF down
<1> DEFINE P == {k \in 0..N : down[k] \in V}
           d == Down(down)
<1>9. d[0] = {v} /\ (\A k \in 1..N : d[k] = below(down[k - 1]))
  BY <1>1
<1> HIDE DEF d
<1>10. 0 \in P
  BY <1>1, <1>3, <1>8, <1>9 DEF d
<1>11. ASSUME NEW k \in 0..(N - 1), k \in P PROVE k + 1 \in P
  <2>1. k + 1 \in 1..N /\ (k + 1) - 1 = k
    BY <1>1
  <2>2. down[k + 1] = below(down[k])
    BY <1>8, <1>9, <2>1 DEF d
  <2> QED BY <1>5, <1>11, <2>1, <2>2
<1>12. 0..N \subseteq P
  <2> HIDE DEF P
  <2> QED BY <1>1, <1>10, <1>11, UpTo
<1>13. \A k \in 0..N : down[k] \in V
  BY <1>12
<1>14. down \in [0..N -> V]
  BY <1>8, <1>13
<1>15. down[0] = {v}
  BY <1>8, <1>9 DEF d
<1>16. ASSUME NEW k \in 1..N PROVE down[k] = Downward(down[k - 1], states)
  <2>1. down[k] = below(down[k - 1])
    BY <1>8, <1>9 DEF d
  <2> QED BY <2>1 DEF below, Downward
<1> QED BY <1>2, <1>14, <1>15, <1>16 DEF V, N

\* What is rendered with a view is views.
LEMMA RenderedAre ==
  ASSUME NEW v \in Views, NEW states \in [Views -> 0..1]
  PROVE  RenderedWith(v, states) \subseteq Views
BY RenderedIterate, ViewsCounted

\* A path is made of views.
LEMMA PathIs ==
  ASSUME NEW v \in Views, NEW f
  PROVE  Path(v, f) \subseteq Views
BY HoldersAre DEF Path

-----------------------------------------------------------------------------
(* The call stack of a draw.                                               *)

\* What a call of the prepaint phase says.
LEMMA PrepaintCallIs ==
  ASSUME NEW n \in Nat, NEW c \in PrepaintStack(n)
  PROVE  /\ c.do \in {"layout", "prepaint", "defer", "end cached"} => c.view \in Views
         /\ c.do \in {"deferred", "end deferred"} => c.draw \in 1..n
         /\ c.do \in {"end cached", "end deferred"} => c.from \in FramePlaces
         /\ c.do = "end cached" => c.refreshing \in BOOLEAN /\ c.accessed \subseteq Views
         /\ c.do \in {"layout", "prepaint", "defer", "deferred draws", "end prepaint", "end cached",
                      "deferred", "end deferred"}
<1>1. CASE c \in [do : {"layout", "prepaint", "defer"}, view : Views]
  BY <1>1
<1>2. CASE c \in [do : {"deferred draws", "end prepaint"}]
  BY <1>2
<1>3. CASE c \in [do : {"end cached"}, view : Views, from : FramePlaces, refreshing : BOOLEAN,
                  accessed : SUBSET Views]
  BY <1>3
<1>4. CASE c \in [do : {"deferred"}, draw : 1..n]
  BY <1>4
<1>5. CASE c \in [do : {"end deferred"}, draw : 1..n, from : FramePlaces]
  BY <1>5
<1> QED BY <1>1, <1>2, <1>3, <1>4, <1>5 DEF PrepaintStack

\* And one of the paint phase.
LEMMA PaintCallIs ==
  ASSUME NEW n \in Nat, NEW kept \in SUBSET Views, NEW c \in PaintStack(n, kept)
  PROVE  /\ c.do = "paint" => c.view \in Views
         /\ c.do = "end paint" => c.view \in kept
         /\ c.do \in {"paint deferred", "end paint deferred"} => c.draw \in 1..n
         /\ c.do \in {"end paint", "end paint deferred"} => c.from \in PaintPlaces
         /\ c.do \in {"paint", "end draw", "end paint", "paint deferred", "end paint deferred"}
<1>1. CASE c \in [do : {"paint"}, view : Views]
  BY <1>1
<1>2. CASE c \in [do : {"end draw"}]
  BY <1>2
<1>3. CASE c \in [do : {"end paint"}, view : kept, from : PaintPlaces]
  BY <1>3
<1>4. CASE c \in [do : {"paint deferred"}, draw : 1..n]
  BY <1>4
<1>5. CASE c \in [do : {"end paint deferred"}, draw : 1..n, from : PaintPlaces]
  BY <1>5
<1> QED BY <1>1, <1>2, <1>3, <1>4, <1>5 DEF PaintStack

\* A stack of calls, when one is called.
LEMMA Called ==
  ASSUME NEW C, todo \in Seq(C), todo # <<>>
  PROVE  Call \in C /\ Tail(todo) \in Seq(C)
BY HeadTailProperties DEF Call

\* Which phase a call is in.
LEMMA InPrepaint ==
  ASSUME WindowInv, NEW what \in {"layout", "prepaint", "defer", "deferred draws", "end prepaint",
                                  "end cached", "deferred", "end deferred"}, Calling(what)
  PROVE  /\ phase = "prepaint" /\ Len(draws) \in Nat
         /\ Call \in PrepaintStack(Len(draws)) /\ Tail(todo) \in Seq(PrepaintStack(Len(draws)))
<1>1. Len(draws) \in Nat /\ todo # <<>> /\ phase \in {"prepaint", "paint"} /\ Call.do = what
  <2>1. Len(draws) \in Nat
    <3>1. draws \in Seq(DeferredDraws)
      BY DEF WindowInv, FramesOK
    <3> QED BY <3>1, LenProperties
  <2>2. todo # <<>> /\ Call.do = what
    BY DEF Calling
  <2>3. phase \in {"none", "prepaint", "paint", "focus"}
    BY DEF WindowInv, WindowTypeOK
  <2>4. phase \notin {"none", "focus"}
    BY <2>2 DEF WindowInv, CallsOK
  <2> QED BY <2>1, <2>2, <2>3, <2>4
<1>2. phase # "paint"
  <2>1. SUFFICES ASSUME phase = "paint" PROVE FALSE
    OBVIOUS
  <2>2. todo \in Seq(PaintStack(Len(draws), WithState(next)))
    BY <2>1 DEF WindowInv, CallsOK
  <2>3. Call \in PaintStack(Len(draws), WithState(next)) /\ WithState(next) \subseteq Views
    BY <1>1, <2>2, Called DEF WithState
  <2>4. Call.do \in {"paint", "end draw", "end paint", "paint deferred", "end paint deferred"}
    BY <1>1, <2>3, PaintCallIs
  <2> QED BY <1>1, <2>4
<1>3. todo \in Seq(PrepaintStack(Len(draws)))
  BY <1>1, <1>2 DEF WindowInv, CallsOK
<1> QED BY <1>1, <1>2, <1>3, Called

\* and the other way round, for the calls of the paint phase.
LEMMA InPaint ==
  ASSUME WindowInv, NEW what \in {"paint", "end draw", "end paint", "paint deferred",
                                  "end paint deferred"}, Calling(what)
  PROVE  /\ phase = "paint" /\ Len(draws) \in Nat /\ WithState(next) \subseteq Views
         /\ Call \in PaintStack(Len(draws), WithState(next))
         /\ Tail(todo) \in Seq(PaintStack(Len(draws), WithState(next)))
<1>1. Len(draws) \in Nat /\ todo # <<>> /\ phase \in {"prepaint", "paint"} /\ Call.do = what
  <2>1. Len(draws) \in Nat
    <3>1. draws \in Seq(DeferredDraws)
      BY DEF WindowInv, FramesOK
    <3> QED BY <3>1, LenProperties
  <2>2. todo # <<>> /\ Call.do = what
    BY DEF Calling
  <2>3. phase \in {"none", "prepaint", "paint", "focus"}
    BY DEF WindowInv, WindowTypeOK
  <2>4. phase \notin {"none", "focus"}
    BY <2>2 DEF WindowInv, CallsOK
  <2> QED BY <2>1, <2>2, <2>3, <2>4
<1>2. phase # "prepaint"
  <2>1. SUFFICES ASSUME phase = "prepaint" PROVE FALSE
    OBVIOUS
  <2>2. todo \in Seq(PrepaintStack(Len(draws)))
    BY <2>1 DEF WindowInv, CallsOK
  <2>3. Call \in PrepaintStack(Len(draws))
    BY <1>1, <2>2, Called
  <2>4. Call.do \in {"layout", "prepaint", "defer", "deferred draws", "end prepaint", "end cached",
                     "deferred", "end deferred"}
    BY <1>1, <2>3, PrepaintCallIs
  <2> QED BY <1>1, <2>4
<1>3. todo \in Seq(PaintStack(Len(draws), WithState(next)))
  BY <1>1, <1>2 DEF WindowInv, CallsOK
<1> QED BY <1>1, <1>2, <1>3, Called DEF WithState

\* Calls on top of others.
LEMMA Pushed ==
  ASSUME NEW C, NEW a \in Seq(C), NEW b \in Seq(C)
  PROVE  a \o b \in Seq(C)
BY ConcatProperties

\* The stack of a paint keeps its type when more views have a state.
LEMMA KeptGrows ==
  ASSUME NEW n \in Nat, NEW k \in SUBSET Views, NEW l \in SUBSET Views, k \subseteq l,
         NEW s \in Seq(PaintStack(n, k))
  PROVE  s \in Seq(PaintStack(n, l))
<1>1. PaintStack(n, k) \subseteq PaintStack(n, l)
  BY DEF PaintStack
<1> QED BY <1>1, SeqMonotonic

\* The calls for what is in a view.
LEMMA CallsOfPrepaint ==
  ASSUME NEW v \in Views, built \in [Views -> 0..1], NEW n \in Nat
  PROVE  PrepaintCalls(v) \in Seq(PrepaintStack(n))
<1> DEFINE in == Children[v][built[v]]
           call(i) == [do |-> IF in[i].deferred THEN "defer" ELSE "prepaint", view |-> in[i].view]
<1>1. in \in Seq(Nested)
  BY ChildrenAre
<1>2. PrepaintCalls(v) = [i \in DOMAIN in |-> call(i)]
  BY DEF PrepaintCalls
<1> HIDE DEF in
<1>3. Len(in) \in Nat /\ DOMAIN in = 1..Len(in) /\ \A i \in 1..Len(in) : in[i] \in Nested
  BY <1>1, ElementOfSeq
<1>4. \A i \in 1..Len(in) : call(i) \in PrepaintStack(n)
  <2>1. \A i \in 1..Len(in) : in[i].view \in Views
    BY <1>3 DEF Nested
  <2> QED BY <2>1 DEF PrepaintStack
<1> HIDE DEF call
<1> QED BY <1>2, <1>3, <1>4, IsASeq

\* and those that paint it, without what is deferred.
LEMMA CallsOfPaint ==
  ASSUME NEW v \in Views, built \in [Views -> 0..1], NEW n \in Nat, NEW kept \in SUBSET Views
  PROVE  PaintCalls(v) \in Seq(PaintStack(n, kept))
<1> DEFINE in == Children[v][built[v]]
           L == Len(in)
           C == Seq(PaintStack(n, kept))
           call(i) == [do |-> "paint", view |-> in[i].view]
           put(i, s) == IF in[i].deferred THEN s ELSE Append(s, call(i))
           Body(f) == [i \in 0..L |-> IF i = 0 THEN <<>> ELSE put(i, f[i - 1])]
           stack == CHOOSE f : f = Body(f)
           step == [p \in (1..L) \X C |-> put(p[1], p[2])]
<1>1. in \in Seq(Nested)
  BY ChildrenAre
<1>2. PaintCalls(v) = stack[L]
  BY DEF PaintCalls
<1> HIDE DEF in
<1>3. L \in Nat /\ \A i \in 1..L : in[i] \in Nested
  BY <1>1, ElementOfSeq
<1>4. \A i \in 1..L : call(i) \in PaintStack(n, kept)
  <2>1. \A i \in 1..L : in[i].view \in Views
    BY <1>3 DEF Nested
  <2> QED BY <2>1 DEF PaintStack
<1>5. <<>> \in C
  OBVIOUS
<1> HIDE DEF call
<1>6. \A i \in 1..L, s \in C : put(i, s) \in C
  BY <1>4, AppendProperties
<1>7. \A i \in 1..L, s \in C : step[<<i, s>>] = put(i, s)
  OBVIOUS
<1> HIDE DEF put, step, C, L
<1>8. PICK f : Recurs(f, L, C, <<>>, step)
  BY <1>3, <1>5, <1>6, <1>7, Recursion
<1>9. f \in [0..L -> C] /\ f[0] = <<>> /\ \A i \in 1..L : f[i] = step[<<i, f[i - 1]>>]
  BY <1>8 DEF Recurs
<1>10. f = Body(f)
  <2>1. ASSUME NEW i \in 0..L PROVE f[i] = IF i = 0 THEN <<>> ELSE put(i, f[i - 1])
    <3>1. i = 0 \/ (i # 0 /\ i \in 1..L /\ i - 1 \in 0..L)
      BY <1>3
    <3>2. i # 0 => f[i - 1] \in C
      BY <1>9, <3>1
    <3> QED BY <1>7, <1>9, <3>1, <3>2
  <2>2. f = [i \in 0..L |-> f[i]]
    BY <1>9
  <2> QED BY <2>1, <2>2
<1>11. stack = Body(stack)
  BY <1>10
<1> HIDE DEF stack
<1> DEFINE P == {i \in 0..L : stack[i] \in C}
           b == Body(stack)
<1>12. b[0] = <<>> /\ (\A i \in 1..L : b[i] = put(i, stack[i - 1]))
  BY <1>3
<1> HIDE DEF b
<1>13. 0 \in P
  BY <1>3, <1>5, <1>11, <1>12 DEF b
<1>14. ASSUME NEW i \in 0..(L - 1), i \in P PROVE i + 1 \in P
  <2>1. i + 1 \in 1..L /\ (i + 1) - 1 = i
    BY <1>3
  <2>2. stack[i + 1] = put(i + 1, stack[i])
    BY <1>11, <1>12, <2>1 DEF b
  <2> QED BY <1>6, <1>14, <2>1, <2>2
<1>15. 0..L \subseteq P
  <2> HIDE DEF P
  <2> QED BY <1>3, <1>13, <1>14, UpTo
<1>16. L \in P
  BY <1>3, <1>15
<1> QED BY <1>2, <1>16 DEF C

\* The ranges that a deferred draw is given.
LEMMA RangeNoted ==
  ASSUME draws \in Seq(DeferredDraws), NEW d \in 1..Len(draws),
         NEW from \in FramePlaces, NEW to \in FramePlaces
  PROVE  LET new == [draws EXCEPT ![d].from = from, ![d].to = to]
         IN  new \in Seq(DeferredDraws) /\ Len(new) = Len(draws)
<1> DEFINE r == [[draws[d] EXCEPT !.from = from] EXCEPT !.to = to]
           new == [draws EXCEPT ![d].from = from, ![d].to = to]
<1>1. draws[d] \in DeferredDraws
  BY ElementOfSeq
<1>2. r \in DeferredDraws
  <2>1. [draws[d] EXCEPT !.from = from] \in DeferredDraws
    BY <1>1 DEF DeferredDraws
  <2> QED BY <2>1 DEF DeferredDraws
<1>3. new = [draws EXCEPT ![d] = r]
  OBVIOUS
<1> HIDE DEF r
<1>4. [draws EXCEPT ![d] = r] \in Seq(DeferredDraws) /\ Len([draws EXCEPT ![d] = r]) = Len(draws)
  BY <1>2, ExceptSeq
<1> QED BY <1>3, <1>4

\* and those of its paint.
LEMMA PaintRangeNoted ==
  ASSUME draws \in Seq(DeferredDraws), NEW d \in 1..Len(draws),
         NEW from \in PaintPlaces, NEW to \in PaintPlaces
  PROVE  LET new == [draws EXCEPT ![d].paintFrom = from, ![d].paintTo = to]
         IN  new \in Seq(DeferredDraws) /\ Len(new) = Len(draws)
<1> DEFINE r == [[draws[d] EXCEPT !.paintFrom = from] EXCEPT !.paintTo = to]
           new == [draws EXCEPT ![d].paintFrom = from, ![d].paintTo = to]
<1>1. draws[d] \in DeferredDraws
  BY ElementOfSeq
<1>2. r \in DeferredDraws
  <2>1. [draws[d] EXCEPT !.paintFrom = from] \in DeferredDraws
    BY <1>1 DEF DeferredDraws
  <2> QED BY <2>1 DEF DeferredDraws
<1>3. new = [draws EXCEPT ![d] = r]
  OBVIOUS
<1> HIDE DEF r
<1>4. [draws EXCEPT ![d] = r] \in Seq(DeferredDraws) /\ Len([draws EXCEPT ![d] = r]) = Len(draws)
  BY <1>2, ExceptSeq
<1> QED BY <1>3, <1>4

\* A few calls.
LEMMA FewCalls ==
  ASSUME NEW C, NEW a \in C, NEW b \in C, NEW c \in C
  PROVE  <<a>> \in Seq(C) /\ <<a, b>> \in Seq(C) /\ <<a, b, c>> \in Seq(C)
OBVIOUS

-----------------------------------------------------------------------------
(* The steps of a draw.                                                    *)

\* A step of a draw that leaves its phase: what is left to be shown of it.
LEMMA DrawGoesOn ==
  ASSUME WindowInv, phase \in {"prepaint", "paint"},
         UNCHANGED <<state, invalidatorVars, marked, tracked, callbacks, at, focusVars>>,
         built' \in [Views -> 0..1], owed' \in [Views -> {"no", "asked", "late"}],
         accessed' \subseteq Views, fresh' \subseteq Views, refreshing' \in BOOLEAN,
         LikeFrame(rendered', rendered), IsWindowFrame(next'), draws' \in Seq(DeferredDraws),
         FocusIn(next) => FocusIn(next)',
         phase = "prepaint" => todo' \in Seq(PrepaintStack(Len(draws'))),
         phase = "paint" => todo' \in Seq(PaintStack(Len(draws'), WithState(next')))
  PROVE  WindowInv'
<1> USE DEF invalidatorVars, focusVars
<1>1. WindowTypeOK'
  BY DEF WindowInv, WindowTypeOK
<1>2. FramesOK'
  BY DEF FramesOK, LikeFrame
<1>3. CallsOK'
  BY DEF CallsOK, WithState
<1>4. FocusKept'
  BY DEF WindowInv, FocusKept
<1>5. TheyKnow'
  <2>1. rendered'.items = rendered.items /\ rendered'.focus = rendered.focus /\ rendered'.active = rendered.active
    BY DEF LikeFrame
  <2>2. FocusPath(rendered') = FocusPath(rendered)
    BY <2>1 DEF FocusPath, Path
  <2> QED BY <2>1, <2>2 DEF WindowInv, TheyKnow
<1> QED BY <1>1, <1>2, <1>3, <1>4, <1>5 DEF WindowInv

\* What the variables of a draw are.
LEMMA DrawTypes ==
  ASSUME WindowInv
  PROVE  /\ IsWindowFrame(rendered) /\ IsWindowFrame(next) /\ draws \in Seq(DeferredDraws)
         /\ state \in [Views -> 0..1] /\ built \in [Views -> 0..1]
         /\ owed \in [Views -> {"no", "asked", "late"}]
         /\ accessed \subseteq Views /\ fresh \subseteq Views /\ refreshing \in BOOLEAN
         /\ LikeFrame(rendered, rendered)
BY DEF WindowInv, WindowTypeOK, FramesOK, LikeFrame

\* A frame like another has the focus when that one has.
LEMMA LikeFocus ==
  ASSUME NEW f, NEW g, LikeFrame(g, f)
  PROVE  IsWindowFrame(g) /\ (FocusIn(f) => FocusIn(g))
BY DEF LikeFrame, FocusIn

\* Rendering views changes no frame.
LEMMA LayoutInv == ASSUME WindowInv, Layout PROVE WindowInv'
<1>1. Calling("layout")
  BY DEF Layout
<1>2. /\ phase = "prepaint" /\ Len(draws) \in Nat /\ Call \in PrepaintStack(Len(draws))
      /\ Tail(todo) \in Seq(PrepaintStack(Len(draws)))
  BY <1>1, InPrepaint
<1>3. Call.view \in Views
  BY <1>1, <1>2, PrepaintCallIs DEF Calling
<1> DEFINE vs == RenderedWith(Call.view, state)
<1>4. vs \subseteq Views
  BY <1>3, DrawTypes, RenderedAre
<1>5. /\ built' = [v \in Views |-> IF v \in vs THEN state[v] ELSE built[v]]
      /\ owed' = [v \in Views |-> IF v \in vs THEN "no" ELSE owed[v]]
      /\ accessed' = accessed \cup vs \cup UNION {Reads[v][state[v]] : v \in vs}
      /\ fresh' = fresh \cup vs
      /\ todo' = Tail(todo)
      /\ UNCHANGED <<state, invalidatorVars, marked, refreshing, rendered, next, tracked, callbacks,
                     at, draws, focusVars>>
  BY DEF Layout
<1> HIDE DEF vs
<1>6. built' \in [Views -> 0..1] /\ owed' \in [Views -> {"no", "asked", "late"}]
  BY <1>5, DrawTypes
<1>7. accessed' \subseteq Views /\ fresh' \subseteq Views
  <2>1. \A v \in Views : Reads[v][state[v]] \subseteq Views
    <3>1. Reads \in [Views -> [0..1 -> SUBSET Views]] /\ state \in [Views -> 0..1]
      BY DrawTypes, ViewsAssumption
    <3>2. \A v \in Views : Reads[v] \in [0..1 -> SUBSET Views] /\ state[v] \in 0..1
      BY <3>1
    <3>3. \A v \in Views : Reads[v][state[v]] \in SUBSET Views
      BY <3>2
    <3> QED BY <3>3
  <2> QED BY <1>4, <1>5, <2>1, DrawTypes
<1>8. FocusIn(next) => FocusIn(next)'
  BY <1>5 DEF FocusIn, focusVars
<1> QED BY <1>2, <1>5, <1>6, <1>7, <1>8, DrawTypes, DrawGoesOn

\* A view that was laid out puts its items and its focus into the frame.
LEMMA PrepaintElementInv == ASSUME WindowInv, PrepaintElement PROVE WindowInv'
<1>1. Calling("prepaint")
  BY DEF PrepaintElement
<1>2. /\ phase = "prepaint" /\ Len(draws) \in Nat /\ Call \in PrepaintStack(Len(draws))
      /\ Tail(todo) \in Seq(PrepaintStack(Len(draws)))
  BY <1>1, InPrepaint
<1>3. Call.view \in Views
  BY <1>1, <1>2, PrepaintCallIs DEF Calling
<1> DEFINE v == Call.view
<1>4. /\ next' = Prepainted(next, v)
      /\ rendered' = Without(rendered, ElementKey(v))
      /\ todo' = PrepaintCalls(v) \o Tail(todo)
      /\ UNCHANGED <<state, invalidatorVars, marked, refreshing, tracked, accessed, callbacks,
                     at, built, fresh, draws, owed, focusVars>>
  BY DEF PrepaintElement
<1> HIDE DEF v
<1>5. v \in Views
  BY <1>3 DEF v
<1>6. LikeFrame(rendered', rendered)
  BY <1>4, DrawTypes, WithoutIs
<1>7. IsWindowFrame(next') /\ (FocusIn(next) => FocusIn(next'))
  BY <1>4, <1>5, DrawTypes, PrepaintedIs
<1>8. todo' \in Seq(PrepaintStack(Len(draws)))
  BY <1>2, <1>4, <1>5, DrawTypes, CallsOfPrepaint, Pushed
<1>9. FocusIn(next') => FocusIn(next)'
  BY <1>4 DEF FocusIn, focusVars
<1> QED BY <1>2, <1>4, <1>6, <1>7, <1>8, <1>9, DrawTypes, DrawGoesOn

\* A cached view puts in what it had in the last frame (AnyView::prepaint, reuse_prepaint).
LEMMA PrepaintReusedInv == ASSUME WindowInv, PrepaintReused PROVE WindowInv'
<1>1. Calling("prepaint")
  BY DEF PrepaintReused
<1>2. /\ phase = "prepaint" /\ Len(draws) \in Nat /\ Call \in PrepaintStack(Len(draws))
      /\ Tail(todo) \in Seq(PrepaintStack(Len(draws)))
  BY <1>1, InPrepaint
<1> DEFINE v == Call.view
           start == Accesses(next, CacheKey(v))
           cache == StateOf(CacheKey(v))
           end == Reused(start, cache.from, cache.to)
           value == [cache EXCEPT !.from = Index(start), !.to = Index(end)]
<1>3. v \in Views
  BY <1>1, <1>2, PrepaintCallIs DEF Calling
<1>4. /\ Has(CacheKey(v))
      /\ next' = With(end, CacheKey(v), value)
      /\ accessed' = accessed \cup cache.accessed
      /\ rendered' = Without(rendered, CacheKey(v))
      /\ todo' = Tail(todo)
      /\ UNCHANGED <<state, invalidatorVars, marked, refreshing, tracked, callbacks,
                     at, built, fresh, draws, owed, focusVars>>
  BY DEF PrepaintReused, MayReuse
<1> HIDE DEF v
<1>5. cache \in Caches
  BY <1>3, <1>4, DrawTypes, StateFound
<1>6. cache.from \in FramePlaces /\ cache.to \in FramePlaces /\ cache.accessed \subseteq Views
  <2> HIDE DEF cache
  <2> QED BY <1>5 DEF Caches
<1> HIDE DEF cache
<1>7. LikeFrame(start, next)
  BY <1>3, DrawTypes, KeysDiffer, AccessesIs
<1>8. IsWindowFrame(start) /\ (FocusIn(next) => FocusIn(start))
  BY <1>7, LikeFocus
<1> HIDE DEF start
<1>9. IsWindowFrame(end) /\ (FocusIn(next) => FocusIn(end))
  BY <1>6, <1>8, DrawTypes, ReusedIs
<1> HIDE DEF end
<1>10. value \in Caches
  <2>1. Index(start) \in FramePlaces /\ Index(end) \in FramePlaces
    BY <1>8, <1>9, IndexIs
  <2>2. [cache EXCEPT !.from = Index(start)] \in Caches
    BY <1>5, <2>1 DEF Caches
  <2>3. [[cache EXCEPT !.from = Index(start)] EXCEPT !.to = Index(end)] \in Caches
    BY <2>1, <2>2 DEF Caches
  <2> QED BY <2>3
<1> HIDE DEF value
<1>11. LikeFrame(next', end)
  BY <1>4, <1>9, <1>10, WithIs
<1>12. IsWindowFrame(next') /\ (FocusIn(next) => FocusIn(next'))
  BY <1>9, <1>11, LikeFocus
<1>13. LikeFrame(rendered', rendered)
  BY <1>4, DrawTypes, WithoutIs
<1>14. FocusIn(next') => FocusIn(next)'
  BY <1>4 DEF FocusIn, focusVars
<1>15. accessed' \subseteq Views
  BY <1>4, <1>6, DrawTypes
<1> QED BY <1>2, <1>4, <1>12, <1>13, <1>14, <1>15, DrawTypes, DrawGoesOn

\* A cached view that is not reused is rendered, with a call of its end on the stack.
LEMMA PrepaintCachedInv ==
  ASSUME WindowInv, NEW same \in BOOLEAN, PrepaintCached(same) PROVE WindowInv'
<1>1. Calling("prepaint")
  BY DEF PrepaintCached
<1>2. /\ phase = "prepaint" /\ Len(draws) \in Nat /\ Call \in PrepaintStack(Len(draws))
      /\ Tail(todo) \in Seq(PrepaintStack(Len(draws)))
  BY <1>1, InPrepaint
<1> DEFINE v == Call.view
           start == Accesses(next, CacheKey(v))
           C == PrepaintStack(Len(draws))
           stack == <<[do |-> "layout", view |-> v], [do |-> "prepaint", view |-> v],
                      [do |-> "end cached", view |-> v, from |-> Index(start),
                       refreshing |-> refreshing, accessed |-> accessed]>>
<1>3. v \in Views
  BY <1>1, <1>2, PrepaintCallIs DEF Calling
<1>4. /\ next' = Without(start, CacheKey(v))
      /\ rendered' = Without(rendered, CacheKey(v))
      /\ todo' = stack \o Tail(todo)
      /\ refreshing' = TRUE
      /\ UNCHANGED <<state, invalidatorVars, marked, tracked, accessed, callbacks,
                     at, built, fresh, draws, owed, focusVars>>
  BY DEF PrepaintCached
<1> HIDE DEF v
<1>5. LikeFrame(start, next)
  BY <1>3, DrawTypes, KeysDiffer, AccessesIs
<1>6. IsWindowFrame(start) /\ (FocusIn(next) => FocusIn(start))
  BY <1>5, LikeFocus
<1> HIDE DEF start
<1>7. LikeFrame(next', start)
  BY <1>4, <1>6, WithoutIs
<1>8. IsWindowFrame(next') /\ (FocusIn(next) => FocusIn(next'))
  BY <1>6, <1>7, LikeFocus
<1>9. LikeFrame(rendered', rendered)
  BY <1>4, DrawTypes, WithoutIs
<1>10. FocusIn(next') => FocusIn(next)'
  BY <1>4 DEF FocusIn, focusVars
<1>11. stack \in Seq(C)
  <2>1. [do |-> "layout", view |-> v] \in C /\ [do |-> "prepaint", view |-> v] \in C
    BY <1>3 DEF PrepaintStack
  <2>2. Index(start) \in FramePlaces
    BY <1>6, IndexIs
  <2>3. [do |-> "end cached", view |-> v, from |-> Index(start),
         refreshing |-> refreshing, accessed |-> accessed] \in C
    BY <1>3, <2>2, DrawTypes DEF PrepaintStack
  <2> HIDE DEF C
  <2> QED BY <2>1, <2>3, FewCalls
<1> HIDE DEF stack
<1>12. todo' \in Seq(C)
  BY <1>2, <1>4, <1>11, Pushed
<1> QED BY <1>2, <1>4, <1>8, <1>9, <1>10, <1>12, DrawTypes, DrawGoesOn

\* The range of a cached view is kept as its state.
LEMMA EndCachedInv == ASSUME WindowInv, EndCached PROVE WindowInv'
<1>1. Calling("end cached")
  BY DEF EndCached
<1>2. /\ phase = "prepaint" /\ Len(draws) \in Nat /\ Call \in PrepaintStack(Len(draws))
      /\ Tail(todo) \in Seq(PrepaintStack(Len(draws)))
  BY <1>1, InPrepaint
<1> DEFINE value == [from |-> Call.from, to |-> Index(next), accessed |-> accessed \ Call.accessed,
                     paintFrom |-> PaintIndex(NoFrame), paintTo |-> PaintIndex(NoFrame)]
<1>3. Call.view \in Views /\ Call.from \in FramePlaces /\ Call.refreshing \in BOOLEAN
  BY <1>1, <1>2, PrepaintCallIs DEF Calling
<1>4. /\ next' = With(next, CacheKey(Call.view), value)
      /\ refreshing' = Call.refreshing
      /\ todo' = Tail(todo)
      /\ UNCHANGED <<state, invalidatorVars, marked, rendered, tracked, accessed, callbacks,
                     at, built, fresh, draws, owed, focusVars>>
  BY DEF EndCached
<1>5. value \in Caches
  <2>1. Index(next) \in FramePlaces /\ PaintIndex(NoFrame) \in PaintPlaces
    BY DrawTypes, NoFrameIs, IndexIs
  <2> QED BY <1>3, <2>1, DrawTypes DEF Caches
<1> HIDE DEF value
<1>6. LikeFrame(next', next)
  BY <1>4, <1>5, DrawTypes, WithIs
<1>7. IsWindowFrame(next') /\ (FocusIn(next) => FocusIn(next'))
  BY <1>6, LikeFocus
<1>8. FocusIn(next') => FocusIn(next)'
  BY <1>4 DEF FocusIn, focusVars
<1>9. refreshing' \in BOOLEAN /\ LikeFrame(rendered', rendered)
  BY <1>3, <1>4, DrawTypes
<1> QED BY <1>2, <1>4, <1>7, <1>8, <1>9, DrawTypes, DrawGoesOn

\* A frame with other deferred draws, and with other paint.
LEMMA DeferredIs ==
  ASSUME NEW f, IsWindowFrame(f), NEW list \in Seq(DeferredDraws)
  PROVE  LikeFrame([f EXCEPT !.deferred = list], f)
<1> DEFINE g == [FrameOf(f) EXCEPT !.deferred = list]
<1>1. [f EXCEPT !.deferred = list] = g
  BY DEF IsWindowFrame
<1>2. /\ g = FrameOf(g) /\ g.states = f.states /\ g.items = f.items /\ g.paint = f.paint /\ g.keys = f.keys
      /\ g.deferred = list /\ g.focus = f.focus /\ g.active = f.active
  BY DEF FrameOf
<1> HIDE DEF g
<1>3. CachesTyped(g)
  BY <1>2 DEF CachesTyped, IsWindowFrame
<1> QED BY <1>1, <1>2, <1>3 DEF LikeFrame, IsWindowFrame

\* A frame with more paint.
LEMMA PaintedIs ==
  ASSUME NEW f, IsWindowFrame(f), NEW list \in Seq(Entry)
  PROVE  LikeFrame([f EXCEPT !.paint = list], f) /\ [f EXCEPT !.paint = list].states = f.states
<1> DEFINE g == [FrameOf(f) EXCEPT !.paint = list]
<1>1. [f EXCEPT !.paint = list] = g
  BY DEF IsWindowFrame
<1>2. /\ g = FrameOf(g) /\ g.states = f.states /\ g.items = f.items /\ g.paint = list /\ g.keys = f.keys
      /\ g.deferred = f.deferred /\ g.focus = f.focus /\ g.active = f.active
  BY DEF FrameOf
<1> HIDE DEF g
<1>3. CachesTyped(g)
  BY <1>2 DEF CachesTyped, IsWindowFrame
<1> QED BY <1>1, <1>2, <1>3 DEF LikeFrame, IsWindowFrame

\* A deferred draw is put off (Deferred::prepaint).
LEMMA DeferDrawInv == ASSUME WindowInv, DeferDraw PROVE WindowInv'
<1>1. Calling("defer")
  BY DEF DeferDraw
<1>2. /\ phase = "prepaint" /\ Len(draws) \in Nat /\ Call \in PrepaintStack(Len(draws))
      /\ Tail(todo) \in Seq(PrepaintStack(Len(draws)))
  BY <1>1, InPrepaint
<1>3. Call.view \in Views
  BY <1>1, <1>2, PrepaintCallIs DEF Calling
<1> DEFINE draw == [view |-> Call.view, fresh |-> TRUE,
                    from |-> Index(NoFrame), to |-> Index(NoFrame),
                    paintFrom |-> PaintIndex(NoFrame), paintTo |-> PaintIndex(NoFrame)]
           list == Append(next.deferred, draw)
<1>4. /\ next' = [next EXCEPT !.deferred = list]
      /\ todo' = Tail(todo)
      /\ UNCHANGED <<state, invalidatorVars, marked, refreshing, rendered, tracked, accessed, callbacks,
                     at, built, fresh, draws, owed, focusVars>>
  BY DEF DeferDraw
<1>5. draw \in DeferredDraws
  <2>1. Index(NoFrame) \in FramePlaces /\ PaintIndex(NoFrame) \in PaintPlaces
    BY NoFrameIs, IndexIs
  <2> QED BY <1>3, <2>1 DEF DeferredDraws
<1> HIDE DEF draw
<1>6. list \in Seq(DeferredDraws)
  BY <1>5, DrawTypes, AppendProperties DEF IsWindowFrame
<1> HIDE DEF list
<1>7. LikeFrame(next', next)
  BY <1>4, <1>6, DrawTypes, DeferredIs
<1>8. IsWindowFrame(next') /\ (FocusIn(next) => FocusIn(next'))
  BY <1>7, LikeFocus
<1>9. FocusIn(next') => FocusIn(next)'
  BY <1>4 DEF FocusIn, focusVars
<1>10. LikeFrame(rendered', rendered)
  BY <1>4, DrawTypes
<1> QED BY <1>2, <1>4, <1>8, <1>9, <1>10, DrawTypes, DrawGoesOn

\* The deferred draws are taken, and called in order (prepaint_deferred_draws).
LEMMA BeginDeferredInv == ASSUME WindowInv, BeginDeferred PROVE WindowInv'
<1>1. Calling("deferred draws")
  BY DEF BeginDeferred
<1>2. phase = "prepaint"
  BY <1>1, InPrepaint
<1> DEFINE n == Len(next.deferred)
           stack == [i \in DOMAIN next.deferred |-> [do |-> "deferred", draw |-> i]]
           C == PrepaintStack(n)
<1>3. /\ draws' = next.deferred
      /\ next' = [next EXCEPT !.deferred = <<>>]
      /\ todo' = stack \o <<[do |-> "end prepaint"]>>
      /\ UNCHANGED <<state, invalidatorVars, marked, refreshing, rendered, tracked, accessed, callbacks,
                     at, built, fresh, owed, focusVars>>
  BY DEF BeginDeferred
<1>4. next.deferred \in Seq(DeferredDraws) /\ <<>> \in Seq(DeferredDraws)
  BY DrawTypes DEF IsWindowFrame
<1>5. n \in Nat /\ DOMAIN next.deferred = 1..n
  BY <1>4
<1>6. LikeFrame(next', next)
  BY <1>3, <1>4, DrawTypes, DeferredIs
<1>7. IsWindowFrame(next') /\ (FocusIn(next) => FocusIn(next'))
  BY <1>6, LikeFocus
<1>8. FocusIn(next') => FocusIn(next)'
  BY <1>3 DEF FocusIn, focusVars
<1>9. LikeFrame(rendered', rendered)
  BY <1>3, DrawTypes
<1> HIDE DEF n
<1>10. todo' \in Seq(C)
  <2>1. \A i \in 1..n : [do |-> "deferred", draw |-> i] \in C
    BY DEF PrepaintStack
  <2>2. [do |-> "end prepaint"] \in C
    BY DEF PrepaintStack
  <2> HIDE DEF C
  <2>3. stack \in Seq(C)
    BY <1>5, <2>1, IsASeq
  <2>4. <<[do |-> "end prepaint"]>> \in Seq(C)
    BY <2>2, FewCalls
  <2> QED BY <1>3, <2>3, <2>4, Pushed
<1>11. Len(draws') = n
  BY <1>3 DEF n
<1> QED BY <1>2, <1>3, <1>4, <1>7, <1>8, <1>9, <1>10, <1>11, DrawTypes, DrawGoesOn

\* A deferred draw of this frame calls its view,
LEMMA PrepaintDeferredInv == ASSUME WindowInv, PrepaintDeferred PROVE WindowInv'
<1>1. Calling("deferred")
  BY DEF PrepaintDeferred
<1>2. /\ phase = "prepaint" /\ Len(draws) \in Nat /\ Call \in PrepaintStack(Len(draws))
      /\ Tail(todo) \in Seq(PrepaintStack(Len(draws)))
  BY <1>1, InPrepaint
<1> DEFINE d == Call.draw
           C == PrepaintStack(Len(draws))
           stack == <<[do |-> "prepaint", view |-> draws[d].view],
                      [do |-> "end deferred", draw |-> d, from |-> Index(next)]>>
<1>3. d \in 1..Len(draws)
  BY <1>1, <1>2, PrepaintCallIs DEF Calling
<1>4. /\ todo' = stack \o Tail(todo)
      /\ UNCHANGED <<state, invalidatorVars, marked, refreshing, rendered, next, tracked, accessed,
                     callbacks, at, built, fresh, draws, owed, focusVars>>
  BY DEF PrepaintDeferred
<1> HIDE DEF d
<1>5. draws[d] \in DeferredDraws
  BY <1>3, DrawTypes, ElementOfSeq
<1>6. draws[d].view \in Views /\ Index(next) \in FramePlaces
  BY <1>5, DrawTypes, IndexIs DEF DeferredDraws
<1>7. stack \in Seq(C)
  <2>1. [do |-> "prepaint", view |-> draws[d].view] \in C
    BY <1>6 DEF PrepaintStack
  <2>2. [do |-> "end deferred", draw |-> d, from |-> Index(next)] \in C
    BY <1>3, <1>6 DEF PrepaintStack
  <2> HIDE DEF C
  <2> QED BY <2>1, <2>2, FewCalls
<1> HIDE DEF stack
<1>8. todo' \in Seq(C)
  BY <1>2, <1>4, <1>7, Pushed
<1>9. /\ IsWindowFrame(next') /\ LikeFrame(rendered', rendered) /\ Len(draws') = Len(draws)
      /\ (FocusIn(next) => FocusIn(next)')
  BY <1>4, DrawTypes DEF FocusIn, focusVars
<1> QED BY <1>2, <1>4, <1>8, <1>9, DrawTypes, DrawGoesOn

\* and one of the last frame is put in again.
LEMMA ReuseDeferredInv == ASSUME WindowInv, ReuseDeferred PROVE WindowInv'
<1>1. Calling("deferred")
  BY DEF ReuseDeferred
<1>2. /\ phase = "prepaint" /\ Len(draws) \in Nat /\ Call \in PrepaintStack(Len(draws))
      /\ Tail(todo) \in Seq(PrepaintStack(Len(draws)))
  BY <1>1, InPrepaint
<1> DEFINE n == Call.draw
           d == draws[n]
           end == Reused(next, d.from, d.to)
           from == Index(next)
           to == Index(end)
<1>3. n \in 1..Len(draws)
  BY <1>1, <1>2, PrepaintCallIs DEF Calling
<1>4. /\ next' = end
      /\ draws' = [draws EXCEPT ![n].from = from, ![n].to = to]
      /\ todo' = Tail(todo)
      /\ UNCHANGED <<state, invalidatorVars, marked, refreshing, rendered, tracked, accessed,
                     callbacks, at, built, fresh, owed, focusVars>>
  BY DEF ReuseDeferred
<1>5. d \in DeferredDraws
  BY <1>3, DrawTypes, ElementOfSeq
<1> HIDE DEF n, d
<1>6. d.from \in FramePlaces /\ d.to \in FramePlaces
  BY <1>5 DEF DeferredDraws
<1>7. IsWindowFrame(end) /\ (FocusIn(next) => FocusIn(end))
  BY <1>6, DrawTypes, ReusedIs
<1> HIDE DEF end
<1>8. from \in FramePlaces /\ to \in FramePlaces
  BY <1>7, DrawTypes, IndexIs
<1> HIDE DEF from, to
<1>9. draws' \in Seq(DeferredDraws) /\ Len(draws') = Len(draws)
  BY <1>3, <1>4, <1>8, DrawTypes, RangeNoted
<1>10. /\ IsWindowFrame(next') /\ LikeFrame(rendered', rendered)
       /\ (FocusIn(next) => FocusIn(next'))
  BY <1>4, <1>7, DrawTypes
<1>11. FocusIn(next') => FocusIn(next)'
  BY <1>4 DEF FocusIn, focusVars
<1> QED BY <1>2, <1>4, <1>9, <1>10, <1>11, DrawTypes, DrawGoesOn

\* The range of a deferred draw is noted.
LEMMA EndDeferredInv == ASSUME WindowInv, EndDeferred PROVE WindowInv'
<1>1. Calling("end deferred")
  BY DEF EndDeferred
<1>2. /\ phase = "prepaint" /\ Len(draws) \in Nat /\ Call \in PrepaintStack(Len(draws))
      /\ Tail(todo) \in Seq(PrepaintStack(Len(draws)))
  BY <1>1, InPrepaint
<1> DEFINE n == Call.draw
           from == Call.from
           to == Index(next)
<1>3. n \in 1..Len(draws) /\ from \in FramePlaces
  BY <1>1, <1>2, PrepaintCallIs DEF Calling
<1>4. /\ draws' = [draws EXCEPT ![n].from = from, ![n].to = to]
      /\ todo' = Tail(todo)
      /\ UNCHANGED <<state, invalidatorVars, marked, refreshing, rendered, next, tracked, accessed,
                     callbacks, at, built, fresh, owed, focusVars>>
  BY DEF EndDeferred
<1>5. to \in FramePlaces
  BY DrawTypes, IndexIs
<1> HIDE DEF n, from, to
<1>6. draws' \in Seq(DeferredDraws) /\ Len(draws') = Len(draws)
  BY <1>3, <1>4, <1>5, DrawTypes, RangeNoted
<1>7. /\ IsWindowFrame(next') /\ LikeFrame(rendered', rendered) /\ (FocusIn(next) => FocusIn(next)')
  BY <1>4, DrawTypes DEF FocusIn, focusVars
<1> QED BY <1>2, <1>4, <1>6, <1>7, DrawTypes, DrawGoesOn

\* The paint phase begins: the root is called, and every deferred draw.
LEMMA EndPrepaintInv == ASSUME WindowInv, EndPrepaint PROVE WindowInv'
<1>1. Calling("end prepaint")
  BY DEF EndPrepaint
<1>2. phase = "prepaint" /\ Len(draws) \in Nat
  BY <1>1, InPrepaint
<1> DEFINE n == Len(draws)
           C == PaintStack(n, WithState(next))
           deferred == [i \in DOMAIN draws |-> [do |-> "paint deferred", draw |-> i]]
           stack == <<[do |-> "paint", view |-> Root]>> \o deferred \o <<[do |-> "end draw"]>>
<1>3. /\ phase' = "paint" /\ todo' = stack
      /\ UNCHANGED <<state, dirty, dirtyViews, marked, refreshing, rendered, next, tracked, accessed,
                     callbacks, at, built, fresh, draws, owed, focusVars>>
  BY DEF EndPrepaint
<1>4. stack \in Seq(C)
  <2>1. DOMAIN draws = 1..n /\ n \in Nat
    BY DrawTypes, LenProperties
  <2> HIDE DEF n
  <2>2. [do |-> "paint", view |-> Root] \in C /\ [do |-> "end draw"] \in C
    BY ViewsAssumption DEF PaintStack
  <2>3. \A i \in 1..n : [do |-> "paint deferred", draw |-> i] \in C
    BY DEF PaintStack
  <2> HIDE DEF C
  <2>4. deferred \in Seq(C)
    <3>1. deferred = [i \in 1..n |-> [do |-> "paint deferred", draw |-> i]]
      BY <2>1
    <3>2. deferred \in [1..n -> C]
      BY <2>3, <3>1
    <3> HIDE DEF deferred
    <3> QED BY <2>1, <3>2, SeqDef
  <2> HIDE DEF deferred
  <2>5. <<[do |-> "paint", view |-> Root]>> \in Seq(C) /\ <<[do |-> "end draw"]>> \in Seq(C)
    BY <2>2, FewCalls
  <2>6. <<[do |-> "paint", view |-> Root]>> \o deferred \in Seq(C)
    BY <2>4, <2>5, Pushed
  <2> QED BY <2>5, <2>6, Pushed
<1> HIDE DEF stack
<1>5. WindowTypeOK'
  BY <1>2, <1>3 DEF WindowInv, WindowTypeOK, focusVars
<1>6. FramesOK'
  BY <1>3 DEF WindowInv, FramesOK
<1>7. CallsOK'
  BY <1>3, <1>4 DEF CallsOK, WithState
<1>8. FocusKept'
  BY <1>2, <1>3 DEF WindowInv, FocusKept, FocusIn, focusVars
<1>9. TheyKnow'
  BY <1>3 DEF WindowInv, TheyKnow, FocusPath, Path, focusVars
<1> QED BY <1>5, <1>6, <1>7, <1>8, <1>9 DEF WindowInv

\* A view that was rendered paints; where it is cached, prepaint has left its state.
LEMMA PaintElementInv == ASSUME WindowInv, PaintElement PROVE WindowInv'
<1>1. Calling("paint")
  BY DEF PaintElement
<1> DEFINE v == Call.view
           k == WithState(next)
           start == IF v \in Cached THEN Accesses(next, CacheKey(v)) ELSE next
           list == start.paint \o Shows(v, built[v])
           tail == IF v \in Cached
                     THEN <<[do |-> "end paint", view |-> v, from |-> PaintIndex(start)]>> ELSE <<>>
           C == PaintStack(Len(draws), k)
<1>2. /\ phase = "paint" /\ Len(draws) \in Nat /\ k \subseteq Views
      /\ Call \in C /\ Tail(todo) \in Seq(C)
  BY <1>1, InPaint
<1>3. v \in Views
  BY <1>1, <1>2, PaintCallIs DEF Calling
<1>4. /\ v \in Cached => CacheKey(v) \in DOMAIN next.states
      /\ next' = [start EXCEPT !.paint = list]
      /\ todo' = PaintCalls(v) \o tail \o Tail(todo)
      /\ UNCHANGED <<state, invalidatorVars, marked, refreshing, rendered, tracked, accessed, callbacks,
                     at, built, fresh, draws, owed, focusVars>>
  BY DEF PaintElement
<1>5. v \in Cached => v \in k
  BY <1>3, <1>4 DEF WithState
<1> HIDE DEF v
<1>6. LikeFrame(start, next) /\ start.states = next.states
  BY <1>3, DrawTypes, KeysDiffer, AccessesIs DEF LikeFrame
<1>7. IsWindowFrame(start) /\ (FocusIn(next) => FocusIn(start))
  BY <1>6, LikeFocus
<1> HIDE DEF start, k
<1>8. list \in Seq(Entry)
  <2>1. built[v] \in 0..1 /\ start.paint \in Seq(Entry)
    BY <1>3, <1>7, DrawTypes DEF IsWindowFrame
  <2> QED BY <1>3, <2>1, ShowsIs, ViewsOfConcat
<1> HIDE DEF list
<1>9. LikeFrame(next', start) /\ next'.states = next.states
  BY <1>4, <1>6, <1>7, <1>8, PaintedIs
<1>10. IsWindowFrame(next') /\ (FocusIn(next) => FocusIn(next'))
  BY <1>7, <1>9, LikeFocus
<1>11. FocusIn(next') => FocusIn(next)'
  BY <1>4 DEF FocusIn, focusVars
<1>12. WithState(next') = k
  BY <1>9 DEF WithState, k
<1>13. tail \in Seq(C)
  <2>1. CASE v \in Cached
    <3>1. PaintIndex(start) \in PaintPlaces
      BY <1>7, IndexIs
    <3>2. [do |-> "end paint", view |-> v, from |-> PaintIndex(start)] \in C
      BY <1>5, <2>1, <3>1 DEF PaintStack
    <3> HIDE DEF C
    <3> QED BY <2>1, <3>2, FewCalls
  <2>2. CASE v \notin Cached
    <3> HIDE DEF C
    <3> QED BY <2>2
  <2> QED BY <2>1, <2>2
<1>14. PaintCalls(v) \in Seq(C)
  BY <1>2, <1>3, DrawTypes, CallsOfPaint
<1> HIDE DEF C, tail
<1>15. todo' \in Seq(C)
  <2>1. PaintCalls(v) \o tail \in Seq(C)
    BY <1>13, <1>14, Pushed
  <2> QED BY <1>2, <1>4, <2>1, Pushed
<1>16. todo' \in Seq(PaintStack(Len(draws'), WithState(next')))
  BY <1>4, <1>12, <1>15 DEF C
<1>17. LikeFrame(rendered', rendered)
  BY <1>4, DrawTypes
<1> QED BY <1>2, <1>4, <1>10, <1>11, <1>16, <1>17, DrawTypes, DrawGoesOn

\* The paint of a cached view is noted in its state.
LEMMA EndPaintInv == ASSUME WindowInv, EndPaint PROVE WindowInv'
<1>1. Calling("end paint")
  BY DEF EndPaint
<1> DEFINE v == Call.view
           k == WithState(next)
           cache == next.states[CacheKey(v)]
           value == [cache EXCEPT !.paintFrom = Call.from, !.paintTo = PaintIndex(next)]
<1>2. /\ phase = "paint" /\ Len(draws) \in Nat /\ k \subseteq Views
      /\ Call \in PaintStack(Len(draws), k) /\ Tail(todo) \in Seq(PaintStack(Len(draws), k))
  BY <1>1, InPaint
<1>3. v \in k /\ Call.from \in PaintPlaces
  BY <1>1, <1>2, PaintCallIs DEF Calling
<1>4. /\ next' = With(next, CacheKey(v), value)
      /\ todo' = Tail(todo)
      /\ UNCHANGED <<state, invalidatorVars, marked, refreshing, rendered, tracked, accessed, callbacks,
                     at, built, fresh, draws, owed, focusVars>>
  BY DEF EndPaint
<1>5. cache \in Caches
  BY <1>3, DrawTypes DEF WithState, IsWindowFrame, CachesTyped
<1> HIDE DEF cache, v, k
<1>6. value \in Caches
  <2>1. PaintIndex(next) \in PaintPlaces
    BY DrawTypes, IndexIs
  <2>2. [cache EXCEPT !.paintFrom = Call.from] \in Caches
    BY <1>3, <1>5 DEF Caches
  <2>3. [[cache EXCEPT !.paintFrom = Call.from] EXCEPT !.paintTo = PaintIndex(next)] \in Caches
    BY <2>1, <2>2 DEF Caches
  <2> QED BY <2>3
<1> HIDE DEF value
<1>7. LikeFrame(next', next) /\ DOMAIN next'.states = DOMAIN next.states \cup {CacheKey(v)}
  BY <1>4, <1>6, DrawTypes, WithIs
<1>8. IsWindowFrame(next') /\ (FocusIn(next) => FocusIn(next'))
  BY <1>7, LikeFocus
<1>9. k \subseteq WithState(next') /\ WithState(next') \subseteq Views
  BY <1>7 DEF WithState, k
<1>10. todo' \in Seq(PaintStack(Len(draws'), WithState(next')))
  BY <1>2, <1>4, <1>9, KeptGrows
<1>11. FocusIn(next') => FocusIn(next)'
  BY <1>4 DEF FocusIn, focusVars
<1>12. LikeFrame(rendered', rendered)
  BY <1>4, DrawTypes
<1> QED BY <1>2, <1>4, <1>8, <1>10, <1>11, <1>12, DrawTypes, DrawGoesOn

\* A cached view that was not rendered has the paint it had (reuse_paint).
LEMMA PaintReusedInv == ASSUME WindowInv, PaintReused PROVE WindowInv'
<1>1. Calling("paint")
  BY DEF PaintReused
<1> DEFINE v == Call.view
           k == WithState(next)
           cache == next.states[CacheKey(v)]
           start == Accesses(next, CacheKey(v))
           end == PaintAgain(start, cache.paintFrom, cache.paintTo)
           value == [cache EXCEPT !.paintFrom = PaintIndex(start), !.paintTo = PaintIndex(end)]
<1>2. /\ phase = "paint" /\ Len(draws) \in Nat /\ k \subseteq Views
      /\ Call \in PaintStack(Len(draws), k) /\ Tail(todo) \in Seq(PaintStack(Len(draws), k))
  BY <1>1, InPaint
<1>3. v \in Views
  BY <1>1, <1>2, PaintCallIs DEF Calling
<1>4. /\ CacheKey(v) \in DOMAIN next.states
      /\ next' = With(end, CacheKey(v), value)
      /\ todo' = Tail(todo)
      /\ UNCHANGED <<state, invalidatorVars, marked, refreshing, rendered, tracked, accessed, callbacks,
                     at, built, fresh, draws, owed, focusVars>>
  BY DEF PaintReused
<1> HIDE DEF v, k
<1>5. cache \in Caches
  BY <1>3, <1>4, DrawTypes DEF IsWindowFrame, CachesTyped
<1> HIDE DEF cache
<1>6. cache.paintFrom \in PaintPlaces /\ cache.paintTo \in PaintPlaces
  BY <1>5 DEF Caches
<1>7. LikeFrame(start, next) /\ start.states = next.states
  BY <1>3, DrawTypes, KeysDiffer, AccessesIs
<1>8. IsWindowFrame(start) /\ (FocusIn(next) => FocusIn(start))
  BY <1>7, LikeFocus
<1> HIDE DEF start
<1>9. LikeFrame(end, start) /\ end.states = next.states
  BY <1>6, <1>7, <1>8, DrawTypes, PaintAgainIs
<1>10. IsWindowFrame(end) /\ (FocusIn(next) => FocusIn(end))
  BY <1>8, <1>9, LikeFocus
<1> HIDE DEF end
<1>11. value \in Caches
  <2>1. PaintIndex(start) \in PaintPlaces /\ PaintIndex(end) \in PaintPlaces
    BY <1>8, <1>10, IndexIs
  <2>2. [cache EXCEPT !.paintFrom = PaintIndex(start)] \in Caches
    BY <1>5, <2>1 DEF Caches
  <2>3. [[cache EXCEPT !.paintFrom = PaintIndex(start)] EXCEPT !.paintTo = PaintIndex(end)] \in Caches
    BY <2>1, <2>2 DEF Caches
  <2> QED BY <2>3
<1> HIDE DEF value
<1>12. LikeFrame(next', end) /\ DOMAIN next'.states = DOMAIN next.states \cup {CacheKey(v)}
  BY <1>4, <1>9, <1>10, <1>11, WithIs
<1>13. IsWindowFrame(next') /\ (FocusIn(next) => FocusIn(next'))
  BY <1>10, <1>12, LikeFocus
<1>14. k \subseteq WithState(next') /\ WithState(next') \subseteq Views
  BY <1>12 DEF WithState, k
<1>15. todo' \in Seq(PaintStack(Len(draws'), WithState(next')))
  BY <1>2, <1>4, <1>14, KeptGrows
<1>16. FocusIn(next') => FocusIn(next)'
  BY <1>4 DEF FocusIn, focusVars
<1>17. LikeFrame(rendered', rendered)
  BY <1>4, DrawTypes
<1> QED BY <1>2, <1>4, <1>13, <1>15, <1>16, <1>17, DrawTypes, DrawGoesOn

\* A deferred draw of this frame is painted,
LEMMA PaintDeferredInv == ASSUME WindowInv, PaintDeferred PROVE WindowInv'
<1>1. Calling("paint deferred")
  BY DEF PaintDeferred
<1> DEFINE d == Call.draw
           C == PaintStack(Len(draws), WithState(next))
           stack == <<[do |-> "paint", view |-> draws[d].view],
                      [do |-> "end paint deferred", draw |-> d, from |-> PaintIndex(next)]>>
<1>2. phase = "paint" /\ Len(draws) \in Nat /\ Call \in C /\ Tail(todo) \in Seq(C) /\ WithState(next) \subseteq Views
  BY <1>1, InPaint
<1>3. d \in 1..Len(draws)
  BY <1>1, <1>2, PaintCallIs DEF Calling
<1>4. /\ todo' = stack \o Tail(todo)
      /\ UNCHANGED <<state, invalidatorVars, marked, refreshing, rendered, next, tracked, accessed,
                     callbacks, at, built, fresh, draws, owed, focusVars>>
  BY DEF PaintDeferred
<1> HIDE DEF d
<1>5. draws[d] \in DeferredDraws
  BY <1>3, DrawTypes, ElementOfSeq
<1>6. draws[d].view \in Views /\ PaintIndex(next) \in PaintPlaces
  BY <1>5, DrawTypes, IndexIs DEF DeferredDraws
<1>7. stack \in Seq(C)
  <2>1. [do |-> "paint", view |-> draws[d].view] \in C
    BY <1>6 DEF PaintStack
  <2>2. [do |-> "end paint deferred", draw |-> d, from |-> PaintIndex(next)] \in C
    BY <1>3, <1>6 DEF PaintStack
  <2> HIDE DEF C
  <2> QED BY <2>1, <2>2, FewCalls
<1> HIDE DEF stack, C
<1>8. todo' \in Seq(C)
  BY <1>2, <1>4, <1>7, Pushed
<1>9. todo' \in Seq(PaintStack(Len(draws'), WithState(next')))
  BY <1>4, <1>8 DEF C
<1>10. /\ IsWindowFrame(next') /\ LikeFrame(rendered', rendered)
       /\ (FocusIn(next) => FocusIn(next)')
  BY <1>4, DrawTypes DEF FocusIn, focusVars
<1> QED BY <1>2, <1>4, <1>9, <1>10, DrawTypes, DrawGoesOn

\* and one of the last frame painted again (paint_deferred_draws).
LEMMA PaintDeferredAgainInv == ASSUME WindowInv, PaintDeferredAgain PROVE WindowInv'
<1>1. Calling("paint deferred")
  BY DEF PaintDeferredAgain
<1> DEFINE n == Call.draw
           d == draws[n]
           end == PaintAgain(next, d.paintFrom, d.paintTo)
           from == PaintIndex(next)
           to == PaintIndex(end)
<1>2. /\ phase = "paint" /\ Len(draws) \in Nat /\ WithState(next) \subseteq Views
      /\ Call \in PaintStack(Len(draws), WithState(next)) /\ Tail(todo) \in Seq(PaintStack(Len(draws), WithState(next)))
  BY <1>1, InPaint
<1>3. n \in 1..Len(draws)
  BY <1>1, <1>2, PaintCallIs DEF Calling
<1>4. /\ next' = end
      /\ draws' = [draws EXCEPT ![n].paintFrom = from, ![n].paintTo = to]
      /\ todo' = Tail(todo)
      /\ UNCHANGED <<state, invalidatorVars, marked, refreshing, rendered, tracked, accessed,
                     callbacks, at, built, fresh, owed, focusVars>>
  BY DEF PaintDeferredAgain
<1>5. d \in DeferredDraws
  BY <1>3, DrawTypes, ElementOfSeq
<1> HIDE DEF n, d
<1>6. d.paintFrom \in PaintPlaces /\ d.paintTo \in PaintPlaces
  BY <1>5 DEF DeferredDraws
<1>7. LikeFrame(end, next) /\ end.states = next.states
  BY <1>6, DrawTypes, PaintAgainIs
<1>8. IsWindowFrame(end) /\ (FocusIn(next) => FocusIn(end)) /\ WithState(end) = WithState(next)
  BY <1>7, LikeFocus DEF WithState
<1> HIDE DEF end
<1>9. from \in PaintPlaces /\ to \in PaintPlaces
  BY <1>8, DrawTypes, IndexIs
<1> HIDE DEF from, to
<1>10. draws' \in Seq(DeferredDraws) /\ Len(draws') = Len(draws)
  BY <1>3, <1>4, <1>9, DrawTypes, PaintRangeNoted
<1>11. /\ IsWindowFrame(next') /\ LikeFrame(rendered', rendered)
       /\ (FocusIn(next) => FocusIn(next')) /\ WithState(next') = WithState(next)
  BY <1>4, <1>8, DrawTypes
<1>12. FocusIn(next') => FocusIn(next)'
  BY <1>4 DEF FocusIn, focusVars
<1>13. todo' \in Seq(PaintStack(Len(draws'), WithState(next')))
  BY <1>2, <1>4, <1>10, <1>11
<1> QED BY <1>2, <1>4, <1>10, <1>11, <1>12, <1>13, DrawTypes, DrawGoesOn

\* The paint of a deferred draw is noted.
LEMMA EndPaintDeferredInv == ASSUME WindowInv, EndPaintDeferred PROVE WindowInv'
<1>1. Calling("end paint deferred")
  BY DEF EndPaintDeferred
<1> DEFINE n == Call.draw
           from == Call.from
           to == PaintIndex(next)
<1>2. /\ phase = "paint" /\ Len(draws) \in Nat /\ WithState(next) \subseteq Views
      /\ Call \in PaintStack(Len(draws), WithState(next)) /\ Tail(todo) \in Seq(PaintStack(Len(draws), WithState(next)))
  BY <1>1, InPaint
<1>3. n \in 1..Len(draws) /\ from \in PaintPlaces
  BY <1>1, <1>2, PaintCallIs DEF Calling
<1>4. /\ draws' = [draws EXCEPT ![n].paintFrom = from, ![n].paintTo = to]
      /\ todo' = Tail(todo)
      /\ UNCHANGED <<state, invalidatorVars, marked, refreshing, rendered, next, tracked, accessed,
                     callbacks, at, built, fresh, owed, focusVars>>
  BY DEF EndPaintDeferred
<1>5. to \in PaintPlaces
  BY DrawTypes, IndexIs
<1> HIDE DEF n, from, to
<1>6. draws' \in Seq(DeferredDraws) /\ Len(draws') = Len(draws)
  BY <1>3, <1>4, <1>5, DrawTypes, PaintRangeNoted
<1>7. /\ IsWindowFrame(next') /\ LikeFrame(rendered', rendered) /\ (FocusIn(next) => FocusIn(next)')
      /\ WithState(next') = WithState(next)
  BY <1>4, DrawTypes DEF FocusIn, focusVars
<1>8. todo' \in Seq(PaintStack(Len(draws'), WithState(next')))
  BY <1>2, <1>4, <1>6, <1>7
<1> QED BY <1>2, <1>4, <1>6, <1>7, <1>8, DrawTypes, DrawGoesOn

\* The frames are swapped.
LEMMA FinishFrameInv == ASSUME WindowInv, FinishFrame PROVE WindowInv'
<1>1. Calling("end draw")
  BY DEF FinishFrame
<1>2. phase = "paint"
  BY <1>1, InPaint
<1> DEFINE f == Finished(next, rendered)
           frame == [f EXCEPT !.deferred = draws, !.active = active]
           g1 == [FrameOf(f) EXCEPT !.deferred = draws]
           g == [g1 EXCEPT !.active = active]
           before == IF rendered.active THEN FocusPath(rendered) ELSE {}
           now == IF active THEN FocusPath(frame) ELSE {}
<1>3. /\ rendered' = frame
      /\ within' = IF FocusPath(frame) # FocusPath(rendered) \/ frame.active # rendered.active
                   THEN (within \cup (now \ before)) \ (before \ now) ELSE within
      /\ phase' = "focus" /\ next' = NoFrame /\ marked' = {} /\ todo' = <<>> /\ draws' = <<>>
      /\ UNCHANGED <<state, dirty, dirtyViews, refreshing, tracked, accessed, callbacks,
                     at, built, fresh, owed, focus, active, late>>
  BY DEF FinishFrame
<1>4. LikeFrame(f, next)
  BY DrawTypes, FinishedIs
<1>5. IsWindowFrame(f) /\ (FocusIn(next) => FocusIn(f))
  BY <1>4, LikeFocus
<1> HIDE DEF f
<1>6. f = FrameOf(f)
  BY <1>5 DEF IsWindowFrame
<1>7. frame = g
  BY <1>6
<1> HIDE DEF frame
<1>8. g1 = [items |-> f.items, keys |-> f.keys, deferred |-> draws, paint |-> f.paint,
            states |-> f.states, focus |-> f.focus, active |-> f.active]
  BY DEF FrameOf
<1> HIDE DEF g1
<1>9. g = [items |-> f.items, keys |-> f.keys, deferred |-> draws, paint |-> f.paint,
           states |-> f.states, focus |-> f.focus, active |-> active]
  BY <1>8
<1> HIDE DEF g
<1>10. /\ g = FrameOf(g) /\ g.states = f.states /\ g.items = f.items /\ g.paint = f.paint
       /\ g.keys = f.keys /\ g.deferred = draws /\ g.focus = f.focus /\ g.active = active
  BY <1>9 DEF FrameOf
<1>11. active \in BOOLEAN /\ rendered.active \in BOOLEAN
  BY DrawTypes DEF WindowInv, WindowTypeOK, IsWindowFrame
<1>12. CachesTyped(g)
  BY <1>5, <1>10 DEF CachesTyped, IsWindowFrame
<1>13. IsWindowFrame(g)
  BY <1>5, <1>10, <1>11, <1>12, DrawTypes DEF IsWindowFrame
<1>14. FocusIn(next) => FocusIn(g)
  BY <1>5, <1>10 DEF FocusIn
<1>15. FramesOK'
  <2>1. <<>> \in Seq(DeferredDraws)
    OBVIOUS
  <2> QED BY <1>3, <1>7, <1>13, <2>1, NoFrameIs DEF FramesOK
<1>16. CallsOK'
  BY <1>3 DEF CallsOK
<1>17. FocusKept'
  <2>1. ~late => FocusIn(g)
    BY <1>2, <1>14 DEF WindowInv, FocusKept
  <2>2. FocusIn(g) => FocusIn(rendered)'
    BY <1>3, <1>7 DEF FocusIn
  <2> QED BY <1>3, <2>1, <2>2 DEF FocusKept
<1>18. within' = now
  <2>1. within = before
    BY DEF WindowInv, TheyKnow
  <2>2. CASE FocusPath(frame) # FocusPath(rendered) \/ frame.active # rendered.active
    <3>1. within' = (within \cup (now \ before)) \ (before \ now)
      BY <1>3, <2>2
    <3> HIDE DEF before, now
    <3> QED BY <2>1, <3>1
  <2>3. CASE FocusPath(frame) = FocusPath(rendered) /\ frame.active = rendered.active
    <3>1. within' = within
      BY <1>3, <2>3
    <3>2. frame.active = active
      BY <1>7, <1>10
    <3> QED BY <2>1, <2>3, <3>1, <3>2
  <2> QED BY <2>2, <2>3
<1>19. TheyKnow'
  <2>1. rendered' = g /\ g.active = active
    BY <1>3, <1>7, <1>10
  <2>2. FocusPath(rendered)' = FocusPath(frame)
    BY <1>7, <2>1 DEF FocusPath, Path
  <2> QED BY <1>18, <2>1, <2>2 DEF TheyKnow
<1>20. within' \subseteq Views
  <2>1. CASE frame.focus \in ViewsIn(frame.items)
    <3>1. frame.items \in Seq(Entry)
      BY <1>7, <1>13 DEF IsWindowFrame
    <3>2. \A i \in DOMAIN frame.items : frame.items[i].view \in Views
      <4>1. \A i \in DOMAIN frame.items : frame.items[i] \in Entry
        BY <3>1, ElementOfSeq, LenProperties
      <4> QED BY <4>1 DEF Entry
    <3>3. frame.focus \in Views
      BY <2>1, <3>2 DEF ViewsIn
    <3> QED BY <1>18, <3>3, PathIs DEF FocusPath
  <2>2. CASE frame.focus \notin ViewsIn(frame.items)
    BY <1>18, <2>2 DEF FocusPath, Path
  <2> QED BY <2>1, <2>2
<1>21. WindowTypeOK'
  <2>1. /\ state' \in [Views -> 0..1] /\ built' \in [Views -> 0..1]
        /\ dirty' \in BOOLEAN /\ refreshing' \in BOOLEAN /\ active' \in BOOLEAN /\ late' \in BOOLEAN
        /\ focus' \in Focusable \cup {Nobody} /\ owed' \in [Views -> {"no", "asked", "late"}]
    BY <1>3 DEF WindowInv, WindowTypeOK
  <2>2. UNION {dirtyViews', marked', accessed', tracked', callbacks', fresh', within'} \subseteq Views
    BY <1>3, <1>20 DEF WindowInv, WindowTypeOK
  <2>3. at' = "drawing" /\ phase' = "focus"
    BY <1>2, <1>3 DEF WindowInv, WindowTypeOK
  <2> QED BY <2>1, <2>2, <2>3 DEF WindowTypeOK
<1> QED BY <1>15, <1>16, <1>17, <1>19, <1>21 DEF WindowInv

\* The draw is over.
LEMMA EndDrawInv == ASSUME WindowInv, EndDraw PROVE WindowInv'
<1>1. /\ phase = "focus" /\ tracked' = accessed /\ accessed' = {} /\ fresh' = {}
      /\ built' = [v \in Views |-> 0] /\ refreshing' = FALSE /\ phase' = "none" /\ at' = "idle"
      /\ UNCHANGED <<state, dirty, dirtyViews, marked, rendered, next, callbacks, todo,
                     draws, owed, focusVars>>
  BY DEF EndDraw
<1>2. todo = <<>> /\ next = NoFrame /\ marked = {}
  BY <1>1 DEF WindowInv, CallsOK
<1>3. WindowTypeOK'
  <2>1. /\ state' \in [Views -> 0..1] /\ refreshing' \in BOOLEAN
        /\ dirty' \in BOOLEAN /\ active' \in BOOLEAN /\ late' \in BOOLEAN
        /\ focus' \in Focusable \cup {Nobody} /\ owed' \in [Views -> {"no", "asked", "late"}]
    BY <1>1 DEF WindowInv, WindowTypeOK, focusVars
  <2>2. UNION {dirtyViews', marked', accessed', tracked', callbacks', fresh', within'} \subseteq Views
    BY <1>1 DEF WindowInv, WindowTypeOK, focusVars
  <2>3. built' \in [Views -> 0..1]
    BY <1>1
  <2> QED BY <1>1, <1>2, <2>1, <2>2, <2>3 DEF WindowTypeOK
<1>4. FramesOK'
  BY <1>1 DEF WindowInv, FramesOK
<1>5. CallsOK'
  BY <1>1, <1>2 DEF CallsOK
<1>6. FocusKept'
  BY <1>1 DEF WindowInv, FocusKept, FocusIn, focusVars
<1>7. TheyKnow'
  BY <1>1 DEF WindowInv, TheyKnow, FocusPath, Path, focusVars
<1> QED BY <1>3, <1>4, <1>5, <1>6, <1>7 DEF WindowInv

-----------------------------------------------------------------------------
(* The frame requests between the draws, and what the program does.        *)

\* The notifications that RunCallbacks and Change make.
LEMMA NotifiedKeeps ==
  ASSUME WindowInv, NEW vs \in SUBSET Views, Notified(vs)
  PROVE  dirtyViews' \subseteq Views /\ dirty' \in BOOLEAN /\ (dirty => dirty')
<1>1. dirtyViews \subseteq Views /\ dirty \in BOOLEAN
  BY DEF WindowInv, WindowTypeOK
<1>2. dirtyViews' = dirtyViews \cup (vs \cap tracked)
      /\ dirty' = (dirty \/ (phase = "none" /\ vs \cap tracked # {}))
  BY DEF Notified
<1> QED BY <1>1, <1>2

\* The animation callbacks notify views of the program.
LEMMA RunCallbacksInv == ASSUME WindowInv, RunCallbacks PROVE WindowInv'
<1>1. /\ at = "idle" /\ at' = "callbacks" /\ callbacks' = {} /\ Notified(callbacks)
      /\ UNCHANGED <<state, phase, rendered, next, tracked, owed, drawVars, focusVars>>
  BY DEF RunCallbacks
<1>2. callbacks \subseteq Views
  BY DEF WindowInv, WindowTypeOK
<1>3. dirtyViews' \subseteq Views /\ dirty' \in BOOLEAN /\ (dirty => dirty')
  BY <1>1, <1>2, NotifiedKeeps
<1>4. WindowTypeOK'
  <2>1. /\ state' \in [Views -> 0..1] /\ built' \in [Views -> 0..1]
        /\ refreshing' \in BOOLEAN /\ active' \in BOOLEAN /\ late' \in BOOLEAN
        /\ focus' \in Focusable \cup {Nobody} /\ owed' \in [Views -> {"no", "asked", "late"}]
    BY <1>1 DEF WindowInv, WindowTypeOK, drawVars, focusVars
  <2>2. UNION {dirtyViews', marked', accessed', tracked', callbacks', fresh', within'} \subseteq Views
    BY <1>1, <1>3 DEF WindowInv, WindowTypeOK, drawVars, focusVars
  <2>3. phase' = "none" /\ (phase' = "none" => todo' = <<>> /\ next' = NoFrame /\ marked' = {})
    BY <1>1 DEF WindowInv, WindowTypeOK, drawVars
  <2> QED BY <1>1, <1>3, <2>1, <2>2, <2>3 DEF WindowTypeOK
<1>5. FramesOK'
  BY <1>1 DEF WindowInv, FramesOK, drawVars
<1>6. CallsOK'
  BY <1>1 DEF WindowInv, CallsOK, WithState, drawVars
<1>7. FocusKept'
  BY <1>1, <1>3 DEF WindowInv, FocusKept, FocusIn, focusVars
<1>8. TheyKnow'
  BY <1>1 DEF WindowInv, TheyKnow, FocusPath, Path, focusVars
<1> QED BY <1>4, <1>5, <1>6, <1>7, <1>8 DEF WindowInv

\* Nothing was to be drawn.
LEMMA PresentOnlyInv == ASSUME WindowInv, PresentOnly PROVE WindowInv'
<1>1. /\ at = "callbacks" /\ at' = "idle"
      /\ UNCHANGED <<state, invalidatorVars, rendered, next, tracked, callbacks, owed, drawVars, focusVars>>
  BY DEF PresentOnly
<1> USE DEF invalidatorVars, drawVars, focusVars
<1>2. WindowTypeOK'
  BY <1>1 DEF WindowInv, WindowTypeOK
<1>3. FramesOK' /\ CallsOK'
  BY <1>1 DEF WindowInv, FramesOK, CallsOK, WithState
<1>4. FocusKept' /\ TheyKnow'
  BY <1>1 DEF WindowInv, FocusKept, FocusIn, TheyKnow, FocusPath, Path
<1> QED BY <1>2, <1>3, <1>4 DEF WindowInv

\* A draw begins with an empty frame, and the root to be called.
LEMMA BeginDrawInv == ASSUME WindowInv, NEW forced, BeginDraw(forced) PROVE WindowInv'
<1> DEFINE stack == <<[do |-> "layout", view |-> Root], [do |-> "prepaint", view |-> Root],
                      [do |-> "deferred draws"]>>
<1>1. /\ at = "callbacks" /\ marked' = UNION {Path(v, rendered) : v \in dirtyViews}
      /\ dirtyViews' = {} /\ dirty' = FALSE /\ phase' = "prepaint" /\ at' = "drawing"
      /\ todo' = stack /\ accessed' = {} /\ fresh' = {}
      /\ UNCHANGED <<state, refreshing, rendered, next, tracked, callbacks, built, draws, owed, focusVars>>
  BY DEF BeginDraw
<1>2. phase = "none" /\ next = NoFrame
  BY <1>1 DEF WindowInv, WindowTypeOK
<1>3. marked' \subseteq Views
  <2>1. \A v \in dirtyViews : Path(v, rendered) \subseteq Views
    <3>1. dirtyViews \subseteq Views
      BY DEF WindowInv, WindowTypeOK
    <3> QED BY <3>1, PathIs
  <2> QED BY <1>1, <2>1
<1>4. stack \in Seq(PrepaintStack(Len(draws)))
  <2> DEFINE C == PrepaintStack(Len(draws))
  <2>1. /\ [do |-> "layout", view |-> Root] \in C /\ [do |-> "prepaint", view |-> Root] \in C
        /\ [do |-> "deferred draws"] \in C
    BY ViewsAssumption DEF PrepaintStack
  <2> HIDE DEF C
  <2>2. stack \in Seq(C)
    BY <2>1, FewCalls
  <2> QED BY <2>2 DEF C
<1> HIDE DEF stack
<1>5. WindowTypeOK'
  <2>1. /\ state' \in [Views -> 0..1] /\ built' \in [Views -> 0..1]
        /\ refreshing' \in BOOLEAN /\ active' \in BOOLEAN /\ late' \in BOOLEAN
        /\ focus' \in Focusable \cup {Nobody} /\ owed' \in [Views -> {"no", "asked", "late"}]
    BY <1>1 DEF WindowInv, WindowTypeOK, focusVars
  <2>2. UNION {dirtyViews', marked', accessed', tracked', callbacks', fresh', within'} \subseteq Views
    <3>1. tracked' \subseteq Views /\ callbacks' \subseteq Views /\ within' \subseteq Views
      BY <1>1 DEF WindowInv, WindowTypeOK, focusVars
    <3> QED BY <1>1, <1>3, <3>1
  <2> QED BY <1>1, <2>1, <2>2 DEF WindowTypeOK
<1>6. FramesOK'
  BY <1>1 DEF WindowInv, FramesOK
<1>7. CallsOK'
  BY <1>1, <1>4 DEF CallsOK
<1>8. FocusKept'
  <2>1. FocusIn(next)'
    BY <1>1, <1>2, NoFrameIs DEF FocusIn
  <2> QED BY <1>1, <2>1 DEF FocusKept
<1>9. TheyKnow'
  BY <1>1 DEF WindowInv, TheyKnow, FocusPath, Path, focusVars
<1> QED BY <1>5, <1>6, <1>7, <1>8, <1>9 DEF WindowInv

\* A view changes and is notified, between draws or in one.
LEMMA ChangeInv == ASSUME WindowInv, NEW v \in Views, Change(v) PROVE WindowInv'
<1>1. /\ state' = [state EXCEPT ![v] = 1 - @] /\ Notified({v})
      /\ owed' = [owed EXCEPT ![v] = IF phase = "none" THEN "asked"
                                     ELSE IF @ = "no" /\ v \in tracked THEN "late" ELSE @]
      /\ UNCHANGED <<phase, rendered, next, tracked, callbacks, at, drawVars, focusVars>>
  BY DEF Change
<1> USE DEF drawVars, focusVars
<1>2. dirtyViews' \subseteq Views /\ dirty' \in BOOLEAN /\ (dirty => dirty')
  BY <1>1, NotifiedKeeps
<1>3. WindowTypeOK'
  <2>1. state' \in [Views -> 0..1]
    <3>1. state \in [Views -> 0..1]
      BY DEF WindowInv, WindowTypeOK
    <3>2. 1 - state[v] \in 0..1
      BY <3>1
    <3> QED BY <1>1, <3>1, <3>2
  <2>2. owed' \in [Views -> {"no", "asked", "late"}]
    BY <1>1 DEF WindowInv, WindowTypeOK
  <2>3. /\ built' \in [Views -> 0..1] /\ focus' \in Focusable \cup {Nobody}
        /\ refreshing' \in BOOLEAN /\ active' \in BOOLEAN /\ late' \in BOOLEAN
    BY <1>1 DEF WindowInv, WindowTypeOK
  <2>4. UNION {dirtyViews', marked', accessed', tracked', callbacks', fresh', within'} \subseteq Views
    BY <1>1, <1>2 DEF WindowInv, WindowTypeOK
  <2>5. /\ phase' \in {"none", "prepaint", "paint", "focus"} /\ at' \in {"idle", "callbacks", "drawing"}
        /\ (at' = "drawing" <=> phase' # "none")
        /\ (phase' = "none" => todo' = <<>> /\ next' = NoFrame /\ marked' = {})
    BY <1>1 DEF WindowInv, WindowTypeOK
  <2> QED BY <1>2, <2>1, <2>2, <2>3, <2>4, <2>5 DEF WindowTypeOK
<1>4. FramesOK' /\ CallsOK'
  BY <1>1 DEF WindowInv, FramesOK, CallsOK, WithState
<1>5. FocusKept'
  BY <1>1, <1>2 DEF WindowInv, FocusKept, FocusIn
<1>6. TheyKnow'
  BY <1>1 DEF WindowInv, TheyKnow, FocusPath, Path
<1> QED BY <1>3, <1>4, <1>5, <1>6 DEF WindowInv

\* A view asks for an animation frame.
LEMMA RequestAnimationFrameInv ==
  ASSUME WindowInv, NEW v \in Views, RequestAnimationFrame(v) PROVE WindowInv'
<1>1. /\ callbacks' = callbacks \cup {v}
      /\ UNCHANGED <<state, invalidatorVars, rendered, next, tracked, at, owed, drawVars, focusVars>>
  BY DEF RequestAnimationFrame
<1> USE DEF invalidatorVars, drawVars, focusVars
<1>2. WindowTypeOK'
  BY <1>1 DEF WindowInv, WindowTypeOK
<1>3. FramesOK' /\ CallsOK'
  BY <1>1 DEF WindowInv, FramesOK, CallsOK, WithState
<1>4. FocusKept' /\ TheyKnow'
  BY <1>1 DEF WindowInv, FocusKept, FocusIn, TheyKnow, FocusPath, Path
<1> QED BY <1>2, <1>3, <1>4 DEF WindowInv

\* Where the focus is moved, a frame is to be drawn, or it is late.
LEMMA FocusInv == ASSUME WindowInv, NEW v \in Focusable \cup {Nobody}, Focus(v) PROVE WindowInv'
<1>1. /\ focus' = v /\ dirty' = (dirty \/ phase = "none") /\ refreshing' = (refreshing \/ phase = "none")
      /\ late' = (late \/ phase # "none")
      /\ UNCHANGED <<state, dirtyViews, phase, marked, rendered, next, accessed, tracked, active,
                     callbacks, at, todo, built, fresh, draws, owed, within>>
  BY DEF Focus, Refresh
<1>2. WindowTypeOK'
  BY <1>1 DEF WindowInv, WindowTypeOK
<1>3. FramesOK' /\ CallsOK'
  BY <1>1 DEF WindowInv, FramesOK, CallsOK, WithState
<1>4. FocusKept'
  BY <1>1 DEF FocusKept
<1>5. TheyKnow'
  BY <1>1 DEF WindowInv, TheyKnow, FocusPath, Path
<1> QED BY <1>2, <1>3, <1>4, <1>5 DEF WindowInv

\* The window is activated or deactivated: a frame is to be drawn.
LEMMA ActivateInv == ASSUME WindowInv, Activate PROVE WindowInv'
<1>1. /\ phase = "none" /\ active' = ~active
      /\ dirty' = (dirty \/ phase = "none") /\ refreshing' = (refreshing \/ phase = "none")
      /\ UNCHANGED <<state, dirtyViews, phase, marked, rendered, next, accessed, tracked, focus,
                     callbacks, at, todo, built, fresh, draws, owed, within, late>>
  BY DEF Activate, Refresh
<1>2. WindowTypeOK'
  BY <1>1 DEF WindowInv, WindowTypeOK
<1>3. FramesOK' /\ CallsOK'
  BY <1>1 DEF WindowInv, FramesOK, CallsOK, WithState
<1>4. FocusKept'
  BY <1>1 DEF FocusKept
<1>5. TheyKnow'
  BY <1>1 DEF WindowInv, TheyKnow, FocusPath, Path
<1> QED BY <1>2, <1>3, <1>4, <1>5 DEF WindowInv

-----------------------------------------------------------------------------
(* The theorems.                                                           *)

\* A window that was not drawn yet.
LEMMA WindowInit == Init => WindowInv
<1> SUFFICES ASSUME Init PROVE WindowInv
  OBVIOUS
<1>1. WindowTypeOK
  <2>1. state \in [Views -> 0..1] /\ built \in [Views -> 0..1] /\ owed \in [Views -> {"no", "asked", "late"}]
    BY DEF Init
  <2>2. UNION {dirtyViews, marked, accessed, tracked, callbacks, fresh, within} \subseteq Views
    BY DEF Init
  <2> QED BY <2>1, <2>2 DEF Init, WindowTypeOK
<1>2. FramesOK
  <2>1. <<>> \in Seq(DeferredDraws)
    OBVIOUS
  <2> QED BY <2>1, NoFrameIs DEF Init, FramesOK
<1>3. CallsOK
  BY DEF Init, CallsOK
<1>4. FocusKept
  BY DEF Init, FocusKept
<1>5. TheyKnow
  BY NoFrameIs DEF Init, TheyKnow
<1> QED BY <1>1, <1>2, <1>3, <1>4, <1>5 DEF WindowInv

\* Every step keeps the invariant,
LEMMA WindowNext == WindowInv /\ [Next]_vars => WindowInv'
<1> SUFFICES ASSUME WindowInv, [Next]_vars PROVE WindowInv'
  OBVIOUS
<1>1. CASE FrameStep
  <2>1. CASE RunCallbacks
    BY <2>1, RunCallbacksInv
  <2>2. CASE PresentOnly
    BY <2>2, PresentOnlyInv
  <2>3. CASE \E forced \in BOOLEAN : BeginDraw(forced)
    BY <2>3, BeginDrawInv
  <2>4. CASE DrawStep
    <3>1. CASE \E same \in BOOLEAN : PrepaintCached(same)
      BY <3>1, PrepaintCachedInv
    <3>2. CASE Layout \/ PrepaintElement \/ PrepaintReused \/ EndCached \/ DeferDraw \/ BeginDeferred
      BY <3>2, LayoutInv, PrepaintElementInv, PrepaintReusedInv, EndCachedInv, DeferDrawInv, BeginDeferredInv
    <3>3. CASE PrepaintDeferred \/ ReuseDeferred \/ EndDeferred \/ EndPrepaint
      BY <3>3, PrepaintDeferredInv, ReuseDeferredInv, EndDeferredInv, EndPrepaintInv
    <3>4. CASE PaintElement \/ EndPaint \/ PaintReused
      BY <3>4, PaintElementInv, EndPaintInv, PaintReusedInv
    <3>5. CASE PaintDeferred \/ PaintDeferredAgain \/ EndPaintDeferred \/ FinishFrame \/ EndDraw
      BY <3>5, PaintDeferredInv, PaintDeferredAgainInv, EndPaintDeferredInv, FinishFrameInv, EndDrawInv
    <3> QED BY <2>4, <3>1, <3>2, <3>3, <3>4, <3>5 DEF DrawStep
  <2> QED BY <1>1, <2>1, <2>2, <2>3, <2>4 DEF FrameStep
<1>2. CASE UserStep
  <2>1. Changing \subseteq Views /\ Animated \subseteq Views
    BY ViewsAssumption
  <2> QED BY <1>2, <2>1, ChangeInv, RequestAnimationFrameInv, FocusInv, ActivateInv DEF UserStep
<1>3. CASE UNCHANGED vars
  <2> USE DEF vars, invalidatorVars, drawVars, focusVars
  <2>1. WindowTypeOK'
    BY <1>3 DEF WindowInv, WindowTypeOK
  <2>2. FramesOK' /\ CallsOK'
    BY <1>3 DEF WindowInv, FramesOK, CallsOK, WithState
  <2>3. FocusKept' /\ TheyKnow'
    BY <1>3 DEF WindowInv, FocusKept, FocusIn, TheyKnow, FocusPath, Path
  <2> QED BY <2>1, <2>2, <2>3 DEF WindowInv
<1> QED BY <1>1, <1>2, <1>3 DEF Next

\* which therefore always holds.
LEMMA WindowAlways == Spec => []WindowInv
BY WindowInit, WindowNext, PTL DEF Spec

\* What is drawn as focused, and what the focus listeners were told, is where the focus is,
\* whatever parts of the last frame the frame is made of.
THEOREM FocusToldRight == Spec => []FocusIsTold
<1>1. WindowInv => FocusIsTold
  <2> SUFFICES ASSUME WindowInv PROVE FocusIsTold
    OBVIOUS
  <2>1. ListenersKnowFocus
    BY DEF WindowInv, TheyKnow, ListenersKnowFocus
  <2>2. FocusShown
    BY DEF WindowInv, FocusKept, FocusIn, FocusShown, Drawn, Shown
  <2> QED BY <2>1, <2>2 DEF FocusIsTold
<1> QED BY <1>1, WindowAlways, PTL

\* The variables of a window keep their types, in the middle of a draw too.
THEOREM WindowTypesKept == Spec => []WindowTypeOK
<1>1. WindowInv => WindowTypeOK
  BY DEF WindowInv
<1> QED BY <1>1, WindowAlways, PTL

-----------------------------------------------------------------------------
(* The tree of views.                                                      *)

\* The views in v, and v.
Sub(v) == {u \in Views : v \in Holders[u]}

\* What has to be in something, and is not in itself: a step up adds to a set until there is
\* nothing to add.
LEMMA Saturates ==
  ASSUME NEW S, IsFiniteSet(S), NEW F, \A A \in SUBSET S : A \subseteq F[A] /\ F[A] \subseteq S,
         NEW f, f[0] \subseteq S, f[0] # {}, \A k \in 1..Cardinality(S) : f[k] = F[f[k - 1]]
  PROVE  F[f[Cardinality(S)]] = f[Cardinality(S)] /\ \A k \in 0..Cardinality(S) : f[k] \subseteq S
<1> DEFINE N == Cardinality(S)
           P == {k \in 0..N : f[k] \subseteq S /\ (F[f[k]] = f[k] \/ Cardinality(f[k]) >= k + 1)}
<1>1. N \in Nat
  BY FS_CardinalityType
<1>2. \A A \in SUBSET S : IsFiniteSet(A) /\ Cardinality(A) \in Nat /\ Cardinality(A) <= N
  BY FS_Subset, FS_CardinalityType
<1> HIDE DEF N
<1>3. 0 \in P
  <2>1. 0 \in 0..N
    BY <1>1
  <2>2. Cardinality(f[0]) # 0
    BY <1>2, FS_EmptySet
  <2> QED BY <1>2, <2>1, <2>2
<1>4. ASSUME NEW k \in 0..(N - 1), k \in P PROVE k + 1 \in P
  <2>1. k \in 0..N /\ k + 1 \in 1..N /\ (k + 1) - 1 = k /\ k + 1 \in 0..N
    BY <1>1
  <2>2. f[k + 1] = F[f[k]] /\ f[k] \in SUBSET S /\ f[k + 1] \in SUBSET S /\ f[k] \subseteq f[k + 1]
    BY <1>4, <2>1 DEF N
  <2>3. CASE F[f[k]] = f[k]
    BY <2>1, <2>2, <2>3
  <2>4. CASE F[f[k]] # f[k]
    <3>1. Cardinality(f[k]) >= k + 1
      BY <1>4, <2>4
    <3>2. IsFiniteSet(f[k + 1]) /\ Cardinality(f[k]) \in Nat /\ Cardinality(f[k + 1]) \in Nat
      BY <1>2, <2>2
    <3>3. Cardinality(f[k]) <= Cardinality(f[k + 1]) /\ Cardinality(f[k]) # Cardinality(f[k + 1])
      BY <2>2, <2>4, <3>2, FS_Subset
    <3>4. Cardinality(f[k + 1]) >= (k + 1) + 1
      BY <1>1, <2>1, <3>1, <3>2, <3>3
    <3> QED BY <2>1, <2>2, <3>4
  <2> QED BY <2>3, <2>4
<1>5. 0..N \subseteq P
  <2> HIDE DEF P
  <2> QED BY <1>1, <1>3, <1>4, UpTo
<1>6. N \in P
  BY <1>1, <1>5
<1>7. f[N] \subseteq S /\ (F[f[N]] = f[N] \/ Cardinality(f[N]) >= N + 1)
  BY <1>6
<1>8. ~(Cardinality(f[N]) >= N + 1)
  BY <1>1, <1>2, <1>7
<1> QED BY <1>5, <1>7, <1>8 DEF N

\* A view in another is in it in one of its states.
LEMMA HoldsIs ==
  ASSUME NEW p \in Views, NEW c
  PROVE  Holds(p, c) <=> \E s \in 0..1 : \E n \in DOMAIN Children[p][s] : Children[p][s][n].view = c
<1>1. \A s \in 0..1 : Inside(p, [q \in Views |-> s])
                      = {x.view : x \in {Children[p][s][n] : n \in DOMAIN Children[p][s]}}
  BY DEF Inside
<1> QED BY <1>1 DEF Holds

\* What is in a view as it was rendered.
LEMMA InsideHolds ==
  ASSUME NEW p \in Views, NEW states \in [Views -> 0..1], NEW n \in DOMAIN Children[p][states[p]]
  PROVE  /\ Children[p][states[p]][n].view \in Inside(p, states)
         /\ Children[p][states[p]][n] \in Nested
         /\ Holds(p, Children[p][states[p]][n].view)
<1>1. states[p] \in 0..1 /\ Children[p][states[p]] \in Seq(Nested)
  BY ChildrenAre
<1>2. Children[p][states[p]][n] \in Nested
  <2> DEFINE in == Children[p][states[p]]
  <2>1. in \in Seq(Nested) /\ n \in DOMAIN in
    BY <1>1
  <2> HIDE DEF in
  <2>2. n \in 1..Len(in)
    BY <2>1
  <2>3. in[n] \in Nested
    BY <2>1, <2>2, ElementOfSeq
  <2> QED BY <2>3 DEF in
<1> QED BY <1>1, <1>2, HoldsIs DEF Inside

\* Every view has one place.
LEMMA OneHolder ==
  ASSUME NEW p \in Views, NEW q \in Views, NEW c, Holds(p, c), Holds(q, c)
  PROVE  p = q
BY HoldsIs, PlacesAssumption

\* What a view holds does not hold it, and is not the root.
LEMMA HolderApart ==
  ASSUME NEW p \in Views, NEW c, Holds(p, c)
  PROVE  c \notin Holders[p] /\ c # Root
BY HoldsIs, PlacesAssumption

\* The holders of a view are views, it is one, and what holds one is one.
LEMMA HoldersUpward ==
  ASSUME NEW v \in Views
  PROVE  /\ Holders[v] \subseteq Views /\ v \in Holders[v]
         /\ \A a \in Holders[v], p \in Views : Holds(p, a) => p \in Holders[v]
<1> DEFINE N == Cardinality(Views)
           F == [A \in SUBSET Views |-> Upward(A)]
<1>1. PICK up : /\ up \in [0..N -> [Views -> SUBSET Views]] /\ Holders = up[N]
                /\ \A u \in Views : up[0][u] = {u}
                /\ \A k \in 1..N, u \in Views : up[k][u] = Upward(up[k - 1][u])
  BY HoldersIterate
<1> DEFINE f == [k \in 0..N |-> up[k][v]]
<1>2. N \in Nat /\ IsFiniteSet(Views) /\ N = Cardinality(Views)
  BY ViewsCounted, ViewsAssumption
<1>3. F \in [SUBSET Views -> SUBSET Views] /\ \A A \in SUBSET Views : A \subseteq F[A] /\ F[A] = Upward(A)
  BY DEF Upward
<1> HIDE DEF F, N
<1>4. f \in [0..N -> SUBSET Views] /\ f[0] = {v} /\ f[N] = Holders[v]
  BY <1>1, <1>2
<1>5. \A k \in 1..N : f[k] = F[f[k - 1]]
  <2>1. \A k \in 1..N : k - 1 \in 0..N /\ k \in 0..N
    BY <1>2
  <2> QED BY <1>1, <1>3, <1>4, <2>1
<1> HIDE DEF f
<1>6. F[f[N]] = f[N]
  <2>1. \A A \in SUBSET Views : A \subseteq F[A] /\ F[A] \subseteq Views
    BY <1>3
  <2>2. 0 \in 0..N /\ f[0] \subseteq Views /\ f[0] # {}
    BY <1>2, <1>4
  <2> QED BY <1>2, <1>5, <2>1, <2>2, Saturates
<1>7. Upward(Holders[v]) = Holders[v] /\ Holders[v] \subseteq Views
  BY <1>2, <1>3, <1>4, <1>6
<1>8. v \in Holders[v]
  <2> DEFINE P == {k \in 0..N : v \in f[k]}
  <2>1. 0 \in P
    BY <1>2, <1>4
  <2>2. ASSUME NEW k \in 0..(N - 1), k \in P PROVE k + 1 \in P
    <3>1. k + 1 \in 1..N /\ (k + 1) - 1 = k /\ k \in 0..N /\ k + 1 \in 0..N
      BY <1>2
    <3> QED BY <1>3, <1>4, <1>5, <2>2, <3>1
  <2>3. 0..N \subseteq P
    <3> HIDE DEF P
    <3> QED BY <1>2, <2>1, <2>2, UpTo
  <2> QED BY <1>2, <1>4, <2>3
<1> QED BY <1>7, <1>8 DEF Upward

\* and there are no others.
LEMMA HoldersLeast ==
  ASSUME NEW v \in Views, NEW S, v \in S, \A a \in S, p \in Views : Holds(p, a) => p \in S
  PROVE  Holders[v] \subseteq S
<1> DEFINE N == Cardinality(Views)
<1>1. PICK up : /\ up \in [0..N -> [Views -> SUBSET Views]] /\ Holders = up[N]
                /\ \A u \in Views : up[0][u] = {u}
                /\ \A k \in 1..N, u \in Views : up[k][u] = Upward(up[k - 1][u])
  BY HoldersIterate
<1>2. N \in Nat
  BY ViewsCounted
<1> HIDE DEF N
<1> DEFINE P == {k \in 0..N : up[k][v] \subseteq S}
<1>3. 0 \in P
  BY <1>1, <1>2
<1>4. ASSUME NEW k \in 0..(N - 1), k \in P PROVE k + 1 \in P
  <2>1. k + 1 \in 1..N /\ (k + 1) - 1 = k /\ k \in 0..N /\ k + 1 \in 0..N
    BY <1>2
  <2>2. up[k + 1][v] = Upward(up[k][v]) /\ up[k][v] \subseteq S
    BY <1>1, <1>4, <2>1
  <2> QED BY <2>1, <2>2 DEF Upward
<1>5. 0..N \subseteq P
  <2> HIDE DEF P
  <2> QED BY <1>2, <1>3, <1>4, UpTo
<1> QED BY <1>1, <1>2, <1>5

\* What holds a holder is one.
LEMMA HoldersTransitive ==
  ASSUME NEW v \in Views, NEW a \in Holders[v]
  PROVE  Holders[a] \subseteq Holders[v]
<1>1. a \in Views
  BY HoldersUpward
<1> QED BY <1>1, HoldersUpward, HoldersLeast

\* A view that is in another is held by it and by what holds that.
LEMMA ChildHolders ==
  ASSUME NEW p \in Views, NEW c \in Views, Holds(p, c)
  PROVE  Holders[c] = Holders[p] \cup {c} /\ c \notin Holders[p]
<1> DEFINE S == Holders[p] \cup {c}
<1>1. c \in S /\ \A a \in S, q \in Views : Holds(q, a) => q \in S
  BY HoldersUpward, OneHolder
<1>2. Holders[c] \subseteq S
  <2> HIDE DEF S
  <2> QED BY <1>1, HoldersLeast
<1>3. p \in Holders[c] /\ c \in Holders[c]
  BY HoldersUpward
<1>4. Holders[p] \subseteq Holders[c]
  BY <1>3, HoldersTransitive
<1> QED BY <1>2, <1>3, <1>4, HolderApart

\* Of two that hold a view, one holds the other.
LEMMA HoldersOrdered ==
  ASSUME NEW v \in Views, NEW a \in Holders[v], NEW b \in Holders[v]
  PROVE  a \in Holders[b] \/ b \in Holders[a]
<1> DEFINE S == {x \in Views : x \in Holders[b] \/ b \in Holders[x]}
<1>1. v \in S /\ b \in Views
  BY HoldersUpward
<1>2. ASSUME NEW x \in S, NEW p \in Views, Holds(p, x) PROVE p \in S
  <2>1. CASE x \in Holders[b]
    BY <1>1, <1>2, <2>1, HoldersUpward
  <2>2. CASE b \in Holders[x]
    <3>1. Holders[x] = Holders[p] \cup {x}
      BY <1>2, ChildHolders
    <3>2. CASE b = x
      BY <1>1, <1>2, <3>2, HoldersUpward
    <3>3. CASE b # x
      BY <2>2, <3>1, <3>3
    <3> QED BY <3>2, <3>3
  <2> QED BY <2>1, <2>2
<1>3. Holders[v] \subseteq S
  <2> HIDE DEF S
  <2> QED BY <1>1, <1>2, HoldersLeast
<1> QED BY <1>3

\* No two views hold each other.
LEMMA HoldersOneWay ==
  ASSUME NEW v \in Views, NEW w \in Views, v \in Holders[w], w \in Holders[v]
  PROVE  v = w
<1>1. SUFFICES ASSUME v # w PROVE FALSE
  OBVIOUS
<1>2. \E p \in Views : Holds(p, w)
  <2>1. SUFFICES ASSUME \A p \in Views : ~Holds(p, w) PROVE FALSE
    OBVIOUS
  <2> DEFINE S == {w}
  <2>2. w \in S /\ \A a \in S, p \in Views : Holds(p, a) => p \in S
    BY <2>1
  <2> HIDE DEF S
  <2>3. Holders[w] \subseteq S
    BY <2>2, HoldersLeast
  <2> QED BY <1>1, <2>3 DEF S
<1>3. PICK p \in Views : Holds(p, w)
  BY <1>2
<1>4. Holders[w] = Holders[p] \cup {w} /\ w \notin Holders[p]
  BY <1>3, ChildHolders
<1>5. v \in Holders[p]
  BY <1>1, <1>4
<1>6. Holders[v] \subseteq Holders[p]
  BY <1>5, HoldersTransitive
<1> QED BY <1>4, <1>6

\* The same of what is in a view.
LEMMA SubIs ==
  ASSUME NEW v \in Views
  PROVE  /\ v \in Sub(v) /\ Sub(v) \subseteq Views
         /\ \A u \in Sub(v) : Sub(u) \subseteq Sub(v)
         /\ \A u \in Views : Sub(u) \cap Sub(v) # {} => u \in Sub(v) \/ v \in Sub(u)
         /\ \A u \in Views : u \in Sub(v) /\ v \in Sub(u) => u = v
<1>1. v \in Sub(v) /\ Sub(v) \subseteq Views
  BY HoldersUpward DEF Sub
<1>2. ASSUME NEW u \in Sub(v) PROVE Sub(u) \subseteq Sub(v)
  <2>1. ASSUME NEW x \in Sub(u) PROVE x \in Sub(v)
    <3>1. x \in Views /\ u \in Holders[x] /\ v \in Holders[u]
      BY <1>2, <2>1 DEF Sub
    <3>2. Holders[u] \subseteq Holders[x]
      BY <3>1, HoldersTransitive
    <3> QED BY <3>1, <3>2 DEF Sub
  <2> QED BY <2>1
<1>3. ASSUME NEW u \in Views, Sub(u) \cap Sub(v) # {} PROVE u \in Sub(v) \/ v \in Sub(u)
  <2>1. PICK x : x \in Views /\ u \in Holders[x] /\ v \in Holders[x]
    BY <1>3 DEF Sub
  <2> QED BY <2>1, HoldersOrdered DEF Sub
<1>4. \A u \in Views : u \in Sub(v) /\ v \in Sub(u) => u = v
  BY HoldersOneWay DEF Sub
<1> QED BY <1>1, <1>2, <1>3, <1>4

\* What is in a view's child is in it.
LEMMA ChildSub ==
  ASSUME NEW p \in Views, NEW c \in Views, Holds(p, c)
  PROVE  /\ c \in Sub(p) /\ Sub(c) \subseteq Sub(p) /\ p \notin Sub(c) /\ c # p
         /\ \A w \in Views : c \in Sub(w) <=> w = c \/ p \in Sub(w)
<1>1. Holders[c] = Holders[p] \cup {c} /\ c \notin Holders[p]
  BY ChildHolders
<1>2. p \in Holders[p]
  BY HoldersUpward
<1>3. c \in Sub(p) /\ p \notin Sub(c) /\ c # p
  BY <1>1, <1>2 DEF Sub
<1>4. \A w \in Views : c \in Sub(w) <=> w = c \/ p \in Sub(w)
  BY <1>1 DEF Sub
<1> QED BY <1>3, <1>4, SubIs

\* Two views that are next to each other in one have nothing in common.
LEMMA SiblingsApart ==
  ASSUME NEW p \in Views, NEW s \in 0..1, NEW m \in DOMAIN Children[p][s], NEW n \in DOMAIN Children[p][s],
         m # n, Children[p][s][m].view \in Views, Children[p][s][n].view \in Views
  PROVE  Sub(Children[p][s][m].view) \cap Sub(Children[p][s][n].view) = {}
<1> DEFINE c == Children[p][s][m].view
           d == Children[p][s][n].view
<1>1. c # d
  BY PlacesAssumption
<1>2. Holds(p, c) /\ Holds(p, d)
  BY HoldsIs
<1>3. c \in Views /\ d \in Views
  OBVIOUS
<1> HIDE DEF c, d
<1>4. c \notin Sub(d)
  BY <1>1, <1>2, <1>3, ChildSub
<1>5. d \notin Sub(c)
  BY <1>1, <1>2, <1>3, ChildSub
<1>6. Sub(c) \cap Sub(d) = {}
  BY <1>3, <1>4, <1>5, SubIs
<1> QED BY <1>6 DEF c, d

\* What is not in another cached view is cached on its own.
Top == {c \in Cached : Holders[c] \cap Cached = {c}}

\* Nothing is in two of these, and whatever is cached is in one.
LEMMA TopIs ==
  /\ Top \subseteq Cached /\ Cached \subseteq Views /\ Root \notin Cached
  /\ \A c \in Top, d \in Cached : c \in Sub(d) => c = d
  /\ \A c, d \in Top : c # d => Sub(c) \cap Sub(d) = {}
<1>1. Top \subseteq Cached /\ Cached \subseteq Views /\ Root \notin Cached
  BY ViewsAssumption DEF Top
<1>2. \A c \in Top, d \in Cached : c \in Sub(d) => c = d
  BY DEF Top, Sub
<1>3. ASSUME NEW c \in Top, NEW d \in Top, c # d PROVE Sub(c) \cap Sub(d) = {}
  BY <1>1, <1>2, <1>3, SubIs
<1> QED BY <1>1, <1>2, <1>3


\* What is rendered with a view: what is in it, but for what is cached.
LEMMA RenderedIs ==
  ASSUME NEW v \in Views, NEW states \in [Views -> 0..1]
  PROVE  /\ v \in RenderedWith(v, states)
         /\ \A u \in RenderedWith(v, states) : Inside(u, states) \ Cached \subseteq RenderedWith(v, states)
<1> DEFINE N == Cardinality(Views)
           F == [A \in SUBSET Views |-> Downward(A, states)]
<1>1. PICK f : /\ f \in [0..N -> SUBSET Views] /\ RenderedWith(v, states) = f[N] /\ f[0] = {v}
               /\ \A k \in 1..N : f[k] = Downward(f[k - 1], states)
  BY RenderedIterate
<1>2. N \in Nat /\ IsFiniteSet(Views) /\ N = Cardinality(Views)
  BY ViewsCounted, ViewsAssumption
<1>3. \A A \in SUBSET Views : A \subseteq F[A] /\ F[A] \subseteq Views /\ F[A] = Downward(A, states)
  BY InsideIs DEF Downward
<1> HIDE DEF F, N
<1>4. \A k \in 1..N : f[k] = F[f[k - 1]]
  <2>1. \A k \in 1..N : k - 1 \in 0..N /\ k \in 0..N
    BY <1>2
  <2> QED BY <1>1, <1>3, <2>1
<1>5. F[f[N]] = f[N]
  <2>1. 0 \in 0..N /\ f[0] \subseteq Views /\ f[0] # {}
    BY <1>1, <1>2
  <2> QED BY <1>2, <1>3, <1>4, <2>1, Saturates
<1>6. N \in 0..N /\ f[N] \subseteq Views
  BY <1>1, <1>2
<1>7. \A u \in f[N] : Inside(u, states) \ Cached \subseteq f[N]
  BY <1>3, <1>5, <1>6 DEF Downward
<1> DEFINE P == {k \in 0..N : v \in f[k]}
<1>8. 0 \in P
  BY <1>1, <1>2
<1>9. ASSUME NEW k \in 0..(N - 1), k \in P PROVE k + 1 \in P
  <2>1. k + 1 \in 1..N /\ (k + 1) - 1 = k /\ k \in 0..N /\ k + 1 \in 0..N
    BY <1>2
  <2> QED BY <1>1, <1>9, <2>1 DEF Downward
<1>10. 0..N \subseteq P
  <2> HIDE DEF P
  <2> QED BY <1>2, <1>8, <1>9, UpTo
<1> QED BY <1>1, <1>6, <1>7, <1>10

\* What is rendered with a view is the least that has it and what is in it.
LEMMA RenderedLeast ==
  ASSUME NEW v \in Views, NEW states \in [Views -> 0..1], NEW S, v \in S, S \subseteq Views,
         \A u \in S : Inside(u, states) \ Cached \subseteq S
  PROVE  RenderedWith(v, states) \subseteq S
<1> DEFINE N == Cardinality(Views)
<1>1. PICK f : /\ f \in [0..N -> SUBSET Views] /\ RenderedWith(v, states) = f[N] /\ f[0] = {v}
               /\ \A k \in 1..N : f[k] = Downward(f[k - 1], states)
  BY RenderedIterate
<1>2. N \in Nat
  BY ViewsCounted
<1> HIDE DEF N
<1> DEFINE P == {k \in 0..N : f[k] \subseteq S}
<1>3. 0 \in P
  BY <1>1, <1>2
<1>4. ASSUME NEW k \in 0..(N - 1), k \in P PROVE k + 1 \in P
  <2>1. k + 1 \in 1..N /\ (k + 1) - 1 = k /\ k \in 0..N /\ k + 1 \in 0..N
    BY <1>2
  <2>2. f[k + 1] = Downward(f[k], states) /\ f[k] \subseteq S
    BY <1>1, <1>4, <2>1
  <2> QED BY <2>1, <2>2 DEF Downward
<1>5. 0..N \subseteq P
  <2> HIDE DEF P
  <2> QED BY <1>2, <1>3, <1>4, UpTo
<1> QED BY <1>1, <1>2, <1>5

\* and nothing of what is in a cached view that is in it.
LEMMA RenderedWithin ==
  ASSUME NEW v \in Views, NEW states \in [Views -> 0..1]
  PROVE  /\ RenderedWith(v, states) \subseteq Sub(v)
         /\ \A w \in Cached : RenderedWith(v, states) \cap Sub(w) # {} => v \in Sub(w)
<1>1. \A u \in Views : \A c \in Inside(u, states) : c \in Views /\ Holds(u, c)
  <2>1. ASSUME NEW u \in Views, NEW c \in Inside(u, states) PROVE c \in Views /\ Holds(u, c)
    <3>1. PICK n \in DOMAIN Children[u][states[u]] : c = Children[u][states[u]][n].view
      BY <2>1 DEF Inside
    <3> QED BY <3>1, InsideHolds, InsideIs
  <2> QED BY <2>1
<1>2. RenderedWith(v, states) \subseteq Sub(v)
  <2>1. v \in Sub(v) /\ Sub(v) \subseteq Views
    BY SubIs
  <2>2. ASSUME NEW u \in Sub(v), NEW c \in Inside(u, states) PROVE c \in Sub(v)
    BY <1>1, <2>1, <2>2, ChildSub
  <2> QED BY <2>1, <2>2, RenderedLeast
<1>3. ASSUME NEW w \in Cached, v \notin Sub(w) PROVE RenderedWith(v, states) \cap Sub(w) = {}
  <2> DEFINE S == Views \ Sub(w)
  <2>1. v \in S /\ S \subseteq Views /\ w \in Views
    BY <1>3, TopIs
  <2>2. ASSUME NEW u \in S, NEW c \in Inside(u, states) \ Cached PROVE c \in S
    BY <1>1, <1>3, <2>1, <2>2, ChildSub
  <2>3. RenderedWith(v, states) \subseteq S
    <3> HIDE DEF S
    <3> QED BY <2>1, <2>2, RenderedLeast
  <2> QED BY <2>3
<1> QED BY <1>2, <1>3

-----------------------------------------------------------------------------
(* Parts of lists.                                                         *)

\* What is in a list, and what is in it from after the place a up to the place b.
All(list) == {list[n] : n \in DOMAIN list}
Part(list, a, b) == {list[n] : n \in {m \in DOMAIN list : a < m /\ m <= b}}

\* A list that more is appended to.
LEMMA Appended ==
  ASSUME NEW S, NEW list \in Seq(S), NEW more \in Seq(S)
  PROVE  /\ list \o more \in Seq(S) /\ Len(list \o more) = Len(list) + Len(more)
         /\ Len(list) \in Nat /\ Len(more) \in Nat
         /\ DOMAIN list = 1..Len(list) /\ DOMAIN more = 1..Len(more)
         /\ DOMAIN (list \o more) = 1..(Len(list) + Len(more))
         /\ \A n \in 1..Len(list) : (list \o more)[n] = list[n] /\ list[n] \in S
         /\ \A n \in 1..Len(more) : (list \o more)[Len(list) + n] = more[n] /\ more[n] \in S
         /\ \A n \in 1..(Len(list) + Len(more)) : n \in 1..Len(list) \/ (n > Len(list) /\ n - Len(list) \in 1..Len(more)
                                                                        /\ (list \o more)[n] = more[n - Len(list)])
<1>1. /\ list \o more \in Seq(S) /\ Len(list \o more) = Len(list) + Len(more)
      /\ \A i \in 1..(Len(list) + Len(more)) : (list \o more)[i] = IF i <= Len(list) THEN list[i] ELSE more[i - Len(list)]
  BY ConcatProperties
<1>2. /\ Len(list) \in Nat /\ Len(more) \in Nat /\ DOMAIN list = 1..Len(list) /\ DOMAIN more = 1..Len(more)
      /\ DOMAIN (list \o more) = 1..(Len(list) + Len(more))
  BY <1>1
<1>3. /\ \A n \in 1..Len(list) : list[n] \in S
      /\ \A n \in 1..Len(more) : more[n] \in S
  BY ElementOfSeq
<1> QED BY <1>1, <1>2, <1>3

\* A part of it is what it was, and what is after a place grows by what is appended.
LEMMA PartAppended ==
  ASSUME NEW S, NEW list \in Seq(S), NEW more \in Seq(S), NEW a \in Nat
  PROVE  /\ \A b \in Nat : b <= Len(list) => Part(list \o more, a, b) = Part(list, a, b)
         /\ a <= Len(list) => Part(list \o more, a, Len(list \o more)) = Part(list, a, Len(list)) \cup All(more)
         /\ Part(list, Len(list), Len(list)) = {}
         /\ All(list \o more) = All(list) \cup All(more)
<1> DEFINE both == list \o more
           L == Len(list)
           M == Len(more)
<1>1. /\ Len(both) = L + M /\ L \in Nat /\ M \in Nat /\ DOMAIN list = 1..L /\ DOMAIN more = 1..M
      /\ DOMAIN both = 1..(L + M) /\ (\A n \in 1..L : both[n] = list[n])
      /\ (\A n \in 1..M : both[L + n] = more[n])
      /\ (\A n \in 1..(L + M) : n \in 1..L \/ (n > L /\ n - L \in 1..M /\ both[n] = more[n - L]))
  BY Appended
<1> HIDE DEF both, L, M
<1>2. ASSUME NEW b \in Nat, b <= L PROVE Part(both, a, b) = Part(list, a, b)
  <2>1. {m \in DOMAIN both : a < m /\ m <= b} = {m \in DOMAIN list : a < m /\ m <= b}
    BY <1>1, <1>2
  <2>2. \A n \in {m \in DOMAIN list : a < m /\ m <= b} : both[n] = list[n]
    BY <1>1
  <2> QED BY <2>1, <2>2 DEF Part
<1>3. ASSUME a <= L PROVE Part(both, a, Len(both)) = Part(list, a, L) \cup All(more)
  <2>1. ASSUME NEW n \in DOMAIN both, a < n PROVE both[n] \in Part(list, a, L) \cup All(more)
    <3>1. CASE n \in 1..L
      BY <1>1, <2>1, <3>1 DEF Part
    <3>2. CASE n - L \in 1..M /\ both[n] = more[n - L]
      BY <1>1, <3>2 DEF All
    <3> QED BY <1>1, <2>1, <3>1, <3>2
  <2>2. ASSUME NEW n \in DOMAIN list, a < n PROVE list[n] \in Part(both, a, Len(both))
    <3>1. n \in DOMAIN both /\ n <= Len(both) /\ both[n] = list[n]
      BY <1>1
    <3> QED BY <2>2, <3>1 DEF Part
  <2>3. ASSUME NEW n \in DOMAIN more PROVE more[n] \in Part(both, a, Len(both))
    <3>1. L + n \in DOMAIN both /\ L + n <= Len(both) /\ both[L + n] = more[n] /\ a < L + n
      BY <1>1, <1>3
    <3> QED BY <3>1 DEF Part
  <2>4. Part(both, a, Len(both)) \subseteq Part(list, a, L) \cup All(more)
    BY <2>1 DEF Part
  <2>5. Part(list, a, L) \subseteq Part(both, a, Len(both))
    BY <2>2 DEF Part
  <2>6. All(more) \subseteq Part(both, a, Len(both))
    BY <2>3 DEF All
  <2> QED BY <2>4, <2>5, <2>6
<1>4. Part(list, L, L) = {}
  <2>1. \A m \in DOMAIN list : ~(L < m /\ m <= L)
    BY <1>1
  <2> QED BY <2>1 DEF Part
<1>5. All(both) = All(list) \cup All(more)
  <2>1. \A n \in DOMAIN both : both[n] \in All(list) \cup All(more)
    BY <1>1 DEF All
  <2>2. \A n \in DOMAIN list : list[n] \in All(both)
    BY <1>1 DEF All
  <2>3. ASSUME NEW n \in DOMAIN more PROVE more[n] \in All(both)
    <3>1. L + n \in DOMAIN both /\ both[L + n] = more[n]
      BY <1>1
    <3> QED BY <3>1 DEF All
  <2>4. All(both) \subseteq All(list) \cup All(more)
    BY <2>1 DEF All
  <2>5. All(list) \subseteq All(both)
    BY <2>2 DEF All
  <2>6. All(more) \subseteq All(both)
    BY <2>3 DEF All
  <2> QED BY <2>4, <2>5, <2>6
<1> QED BY <1>2, <1>3, <1>4, <1>5 DEF both, L

\* What is taken from a list is a part of it.
LEMMA BetweenPart ==
  ASSUME NEW S, NEW list \in Seq(S), NEW a \in Nat, NEW b \in Nat
  PROVE  /\ Between(list, a, b) \in Seq(S) /\ All(Between(list, a, b)) = Part(list, a, b)
         /\ \A n \in DOMAIN Between(list, a, b) :
              a + n \in DOMAIN list /\ a < a + n /\ a + n <= b /\ Between(list, a, b)[n] = list[a + n]
<1> DEFINE end == IF b > Len(list) THEN Len(list) ELSE b
           some == SubSeq(list, a + 1, end)
<1>1. /\ end \in Nat /\ end <= Len(list) /\ end <= b /\ Len(list) \in Nat /\ DOMAIN list = 1..Len(list)
      /\ \A m \in 1..Len(list) : m <= b => m <= end
  OBVIOUS
<1>2. Between(list, a, b) = some /\ Between(list, a, b) \in Seq(S)
  BY BetweenIs DEF Between
<1> HIDE DEF end
<1>3. \A i \in (a + 1)..end : list[i] \in S
  BY <1>1, ElementOfSeq
<1>4. /\ Len(some) = IF a + 1 <= end THEN end - (a + 1) + 1 ELSE 0
      /\ \A i \in 1..(end - (a + 1) + 1) : some[i] = list[(a + 1) + i - 1]
  BY <1>1, <1>3, SubSeqProperties
<1>5. DOMAIN some = 1..Len(some)
  BY <1>2
<1> HIDE DEF some
<1>6. ASSUME NEW n \in DOMAIN some
             PROVE a + n \in DOMAIN list /\ a < a + n /\ a + n <= b /\ some[n] = list[a + n]
  <2>1. a + 1 <= end /\ n \in 1..(end - (a + 1) + 1)
    BY <1>1, <1>4, <1>5
  <2>2. (a + 1) + n - 1 = a + n /\ a + n <= end
    BY <1>1, <2>1
  <2> QED BY <1>1, <1>4, <2>1, <2>2
<1>7. ASSUME NEW m \in DOMAIN list, a < m, m <= b PROVE list[m] \in All(some)
  <2>1. m <= end /\ a + 1 <= end /\ m - a \in 1..(end - (a + 1) + 1) /\ (a + 1) + (m - a) - 1 = m
    BY <1>1, <1>7
  <2>2. m - a \in DOMAIN some /\ some[m - a] = list[m]
    BY <1>1, <1>4, <1>5, <2>1
  <2> QED BY <2>2 DEF All
<1>8. All(some) \subseteq Part(list, a, b)
  BY <1>6 DEF All, Part
<1>9. Part(list, a, b) \subseteq All(some)
  BY <1>7 DEF Part
<1> QED BY <1>2, <1>6, <1>8, <1>9

-----------------------------------------------------------------------------
(* What the steps of a draw do to the lists and the states of a frame.     *)

\* A frame g that is f with more items and keys, and with more deferred draws,
More(g, f, items, keys) ==
  /\ items \in Seq(Entry) /\ keys \in Seq(StateKeys)
  /\ g.items = f.items \o items /\ g.keys = f.keys \o keys
Longer(g, f, items, keys, deferred) ==
  More(g, f, items, keys) /\ deferred \in Seq(DeferredDraws) /\ g.deferred = f.deferred \o deferred

\* and with the states that it had, but for one.
StatesBut(g, f, key) ==
  \A k : k # key => /\ k \in DOMAIN g.states <=> k \in DOMAIN f.states
                    /\ k \in DOMAIN f.states => g.states[k] = f.states[k]

\* Nothing is appended.
LEMMA NoLonger ==
  ASSUME NEW f, IsWindowFrame(f), NEW g, g.items = f.items, g.keys = f.keys, g.deferred = f.deferred
  PROVE  Longer(g, f, <<>>, <<>>, <<>>)
<1>1. \A S : \A list \in Seq(S) : list \o <<>> = list /\ <<>> \in Seq(S)
  BY ConcatEmptySeq
<1> QED BY <1>1 DEF Longer, More, IsWindowFrame

\* An element state is written to a frame,
LEMMA WithStates ==
  ASSUME NEW f, IsWindowFrame(f), NEW key, NEW value
  PROVE  LET g == With(f, key, value) IN
         /\ g.items = f.items /\ g.keys = f.keys /\ g.deferred = f.deferred
         /\ StatesBut(g, f, key) /\ key \in DOMAIN g.states /\ g.states[key] = value
<1> DEFINE states == [k \in DOMAIN f.states \cup {key} |-> IF k = key THEN value ELSE f.states[k]]
           g == [FrameOf(f) EXCEPT !.states = states]
<1>1. With(f, key, value) = g
  BY DEF With, IsWindowFrame
<1>2. /\ DOMAIN states = DOMAIN f.states \cup {key} /\ states[key] = value
      /\ \A k \in DOMAIN f.states : k # key => states[k] = f.states[k]
  OBVIOUS
<1> HIDE DEF states
<1>3. g.states = states /\ g.items = f.items /\ g.keys = f.keys /\ g.deferred = f.deferred
  BY DEF FrameOf
<1> HIDE DEF g
<1> QED BY <1>1, <1>2, <1>3 DEF StatesBut

\* or taken from it.
LEMMA WithoutStates ==
  ASSUME NEW f, IsWindowFrame(f), NEW key
  PROVE  LET g == Without(f, key) IN
         /\ g.items = f.items /\ g.keys = f.keys /\ g.deferred = f.deferred
         /\ StatesBut(g, f, key) /\ key \notin DOMAIN g.states
<1> DEFINE states == [k \in DOMAIN f.states \ {key} |-> f.states[k]]
           g == [FrameOf(f) EXCEPT !.states = states]
<1>1. Without(f, key) = g
  BY DEF Without, IsWindowFrame
<1>2. /\ DOMAIN states = DOMAIN f.states \ {key}
      /\ \A k \in DOMAIN f.states : k # key => states[k] = f.states[k]
  OBVIOUS
<1> HIDE DEF states
<1>3. g.states = states /\ g.items = f.items /\ g.keys = f.keys /\ g.deferred = f.deferred
  BY DEF FrameOf
<1> HIDE DEF g
<1> QED BY <1>1, <1>2, <1>3 DEF StatesBut

\* An accessed key is added to the frame's,
LEMMA AccessesLists ==
  ASSUME NEW f, IsWindowFrame(f), NEW key \in StateKeys
  PROVE  LET g == Accesses(f, key) IN
         Longer(g, f, <<>>, <<key>>, <<>>) /\ g.states = f.states /\ IsWindowFrame(g)
         /\ g.items = f.items /\ g.deferred = f.deferred
<1> DEFINE keys == Append(f.keys, key)
           g == [FrameOf(f) EXCEPT !.keys = keys]
<1>1. Accesses(f, key) = g
  BY DEF Accesses, IsWindowFrame
<1>2. keys = f.keys \o <<key>> /\ <<key>> \in Seq(StateKeys)
  BY AppendIsConcat DEF IsWindowFrame
<1> HIDE DEF keys
<1>3. g.states = f.states /\ g.items = f.items /\ g.keys = keys /\ g.deferred = f.deferred
  BY DEF FrameOf
<1> HIDE DEF g
<1>4. \A S : \A list \in Seq(S) : list \o <<>> = list /\ <<>> \in Seq(S)
  BY ConcatEmptySeq
<1>5. Longer(g, f, <<>>, <<key>>, <<>>)
  BY <1>2, <1>3, <1>4 DEF Longer, More, IsWindowFrame
<1>6. IsWindowFrame(g)
  BY <1>1, AccessesIs DEF LikeFrame
<1> QED BY <1>1, <1>3, <1>5, <1>6

\* as a prepainted view's is, with its items;
LEMMA PrepaintedLists ==
  ASSUME NEW f, IsWindowFrame(f), NEW v \in Views, built \in [Views -> 0..1]
  PROVE  LET g == Prepainted(f, v) IN
         /\ Longer(g, f, Shows(v, built[v]), <<ElementKey(v)>>, <<>>)
         /\ StatesBut(g, f, ElementKey(v)) /\ ElementKey(v) \in DOMAIN g.states
<1> DEFINE key == ElementKey(v)
           value == IF Has(key) THEN StateOf(key) ELSE "new"
           element == Accesses(f, key)
           with == With(element, key, value)
           g == Prepainted(f, v)
           items == Shows(v, built[v])
<1>1. Longer(element, f, <<>>, <<key>>, <<>>) /\ element.states = f.states /\ IsWindowFrame(element)
      /\ element.items = f.items /\ element.deferred = f.deferred
  BY KeysDiffer, AccessesLists
<1> HIDE DEF value, element
<1>2. /\ with.items = element.items /\ with.keys = element.keys /\ with.deferred = element.deferred
      /\ StatesBut(with, element, key) /\ key \in DOMAIN with.states
  BY <1>1, WithStates
<1>3. LikeFrame(with, element)
  BY <1>1, KeysDiffer, WithIs
<1>4. with = FrameOf(with)
  BY <1>3 DEF LikeFrame, IsWindowFrame
<1> DEFINE newFocus == IF focus = v THEN v ELSE with.focus
           newItems == with.items \o items
           g1 == [FrameOf(with) EXCEPT !.items = newItems]
<1>5. g.items = newItems /\ g.keys = with.keys /\ g.deferred = with.deferred /\ g.states = with.states
  <2>1. g = [with EXCEPT !.items = newItems, !.focus = newFocus]
    BY DEF Prepainted, element, value
  <2> HIDE DEF with, g, newItems, newFocus
  <2>2. g = [g1 EXCEPT !.focus = newFocus]
    BY <1>4, <2>1
  <2>3. g1 = [items |-> newItems, keys |-> with.keys, deferred |-> with.deferred, paint |-> with.paint,
              states |-> with.states, focus |-> with.focus, active |-> with.active]
    BY DEF FrameOf
  <2> HIDE DEF g1
  <2> QED BY <2>2, <2>3
<1> HIDE DEF with, g, key
<1>6. items \in Seq(Entry)
  <2>1. built[v] \in 0..1
    OBVIOUS
  <2> QED BY <2>1, ShowsIs
<1> HIDE DEF items
<1>7. Longer(g, f, items, <<key>>, <<>>)
  BY <1>1, <1>2, <1>5, <1>6 DEF Longer, More, newItems
<1>8. StatesBut(g, f, key) /\ key \in DOMAIN g.states
  BY <1>1, <1>2, <1>5 DEF StatesBut
<1> QED BY <1>7, <1>8 DEF key, g, items

\* a reused part of the last frame is added to this one,
LEMMA ReusedLists ==
  ASSUME NEW f, IsWindowFrame(f), IsWindowFrame(rendered), NEW from \in FramePlaces, NEW to \in FramePlaces
  PROVE  LET g == Reused(f, from, to)
             deferred == Between(rendered.deferred, from.deferred, to.deferred)
             items == Between(rendered.items, from.items, to.items)
             keys == Between(rendered.keys, from.keys, to.keys)
         IN /\ Longer(g, f, items, keys, [n \in DOMAIN deferred |-> [deferred[n] EXCEPT !.fresh = FALSE]])
            /\ g.states = f.states /\ IsWindowFrame(g)
<1> DEFINE items == Between(rendered.items, from.items, to.items)
           keys == Between(rendered.keys, from.keys, to.keys)
           deferred == Between(rendered.deferred, from.deferred, to.deferred)
           again == [n \in DOMAIN deferred |-> [deferred[n] EXCEPT !.fresh = FALSE]]
           newFocus == IF focus \in ViewsIn(items) THEN focus ELSE f.focus
           g == Reused(f, from, to)
<1>1. /\ from.items \in Nat /\ from.keys \in Nat /\ from.deferred \in Nat
      /\ to.items \in Nat /\ to.keys \in Nat /\ to.deferred \in Nat
  BY DEF FramePlaces
<1>2. items \in Seq(Entry) /\ keys \in Seq(StateKeys) /\ deferred \in Seq(DeferredDraws)
  BY <1>1, BetweenIs DEF IsWindowFrame
<1>3. g = [FrameOf(f) EXCEPT !.items = f.items \o items, !.keys = f.keys \o keys,
                             !.deferred = f.deferred \o again, !.focus = newFocus]
  BY DEF Reused, IsWindowFrame, FrameOf
<1>4. IsWindowFrame(g)
  BY ReusedIs
<1> HIDE DEF items, keys, deferred, g
<1>5. again \in Seq(DeferredDraws)
  BY <1>2, DeferredAgain
<1> HIDE DEF again, newFocus
<1>6. /\ g.items = f.items \o items /\ g.keys = f.keys \o keys /\ g.deferred = f.deferred \o again
      /\ g.states = f.states
  BY <1>3 DEF FrameOf
<1>7. Longer(g, f, items, keys, again)
  BY <1>2, <1>5, <1>6 DEF Longer, More
<1> QED BY <1>4, <1>6, <1>7 DEF g, items, keys, again, deferred

\* as its paint is.
LEMMA PaintAgainLists ==
  ASSUME NEW f, IsWindowFrame(f), IsWindowFrame(rendered), NEW from \in PaintPlaces, NEW to \in PaintPlaces
  PROVE  LET g == PaintAgain(f, from, to) IN
         /\ Longer(g, f, <<>>, Between(rendered.keys, from.keys, to.keys), <<>>)
         /\ g.states = f.states /\ IsWindowFrame(g)
<1> DEFINE keys == Between(rendered.keys, from.keys, to.keys)
           paint == f.paint \o Between(rendered.paint, from.paint, to.paint)
           g == PaintAgain(f, from, to)
<1>1. from.keys \in Nat /\ to.keys \in Nat
  BY DEF PaintPlaces
<1>2. keys \in Seq(StateKeys)
  BY <1>1, BetweenIs DEF IsWindowFrame
<1>3. g = [FrameOf(f) EXCEPT !.paint = paint, !.keys = f.keys \o keys]
  BY DEF PaintAgain, IsWindowFrame, FrameOf
<1>4. IsWindowFrame(g)
  BY PaintAgainIs DEF LikeFrame
<1> HIDE DEF keys, paint, g
<1>5. g.items = f.items /\ g.keys = f.keys \o keys /\ g.deferred = f.deferred /\ g.states = f.states
  BY <1>3 DEF FrameOf
<1>6. \A S : \A list \in Seq(S) : list \o <<>> = list /\ <<>> \in Seq(S)
  BY ConcatEmptySeq
<1>7. Longer(g, f, <<>>, keys, <<>>)
  BY <1>2, <1>5, <1>6 DEF Longer, More, IsWindowFrame
<1> QED BY <1>4, <1>5, <1>7 DEF g, keys

\* A finished frame has the states of the last one that were accessed.
LEMMA FinishedStates ==
  ASSUME NEW f, IsWindowFrame(f), NEW last, IsWindowFrame(last)
  PROVE  LET g == Finished(f, last) IN
         /\ g.items = f.items /\ g.keys = f.keys
         /\ DOMAIN g.states = DOMAIN f.states \cup (All(f.keys) \cap DOMAIN last.states)
         /\ \A k \in DOMAIN f.states : k \notin DOMAIN last.states => g.states[k] = f.states[k]
<1> DEFINE kept == {f.keys[n] : n \in DOMAIN f.keys} \cap DOMAIN last.states
           states == [k \in DOMAIN f.states \cup kept |-> IF k \in kept THEN last.states[k] ELSE f.states[k]]
           g == [FrameOf(f) EXCEPT !.states = states]
<1>1. Finished(f, last) = g
  BY DEF Finished, IsWindowFrame
<1>2. /\ DOMAIN states = DOMAIN f.states \cup kept /\ kept \subseteq DOMAIN last.states
      /\ \A k \in DOMAIN f.states : k \notin kept => states[k] = f.states[k]
  OBVIOUS
<1>3. kept = All(f.keys) \cap DOMAIN last.states
  BY DEF All
<1> HIDE DEF states, kept
<1>4. g.states = states /\ g.items = f.items /\ g.keys = f.keys
  BY DEF FrameOf
<1> HIDE DEF g
<1> QED BY <1>1, <1>2, <1>3, <1>4

==============================================================================
