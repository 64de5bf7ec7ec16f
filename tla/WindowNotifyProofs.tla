-------------------------- MODULE WindowNotifyProofs --------------------------
(* Proofs that a window loses no notification between its frames, in the      *)
(* trees of views that ReadsApart and NothingCachedDeferred are true of: what *)
(* was notified is drawn, or its window is left dirty.                        *)
(*                                                                            *)
(* The invariant is SeenInv: of what views the recorded ranges of caches and  *)
(* of deferred draws are, and what of them the draw has read and seen.  Each  *)
(* action is shown to keep it, by a lemma named ...Seen.  The prepaint is in  *)
(* two parts: FirstStep is a step of the first, SecondStep one of that of     *)
(* what is deferred, and PaintStep one of the paint.                          *)
EXTENDS WindowFrameProofs

-----------------------------------------------------------------------------
(* The invariant of what is notified: what is in the frame being drawn was  *)
(* read by the draw, and what of it was notified was seen, whether a view   *)
(* was drawn or a part of the last frame was reused.                        *)

\* What is in the ranges of a cache or of a deferred draw, in a frame.
ItemsOf(f, d) == {x.view : x \in Part(f.items, d.from.items, d.to.items)}
KeysOf(f, d) == Part(f.keys, d.from.keys, d.to.keys)
PaintKeysOf(f, d) == Part(f.keys, d.paintFrom.keys, d.paintTo.keys)
DeferredOf(list, k) == {n \in DOMAIN list : k.from.deferred < n /\ n <= k.to.deferred}

\* What is in a frame after a place.
ItemsAfter(f, place) == {x.view : x \in Part(f.items, place, Len(f.items))}
KeysAfter(f, place) == Part(f.keys, place, Len(f.keys))

TopKeys == {CacheKey(c) : c \in Top}
NoTops(keys) == keys \cap TopKeys = {}
Apart(views, c) == \A w \in Top \ {c} : views \cap Sub(w) = {}

\* A notification of it is to be seen by the next draw.
Unseen(v) == owed[v] = "asked" \/ (owed[v] = "late" /\ v \notin dirtyViews)
Seen(views) == \A v \in views : ~Unseen(v)

\* What is on the stack of the draw.
Calls(what) == {n \in DOMAIN todo : todo[n].do = what}
Doing(what) == {x \in All(todo) : x.do = what}
Pending == Calls("prepaint") \cup Calls("defer")
EndCalls == Calls("end cached")
EndDraws == Calls("end deferred")
EndPaints == Calls("end paint")
PaintDraws == Calls("paint deferred")
EndPaintDraws == Calls("end paint deferred")
EndOfDraw == Calls("end draw")
ToPaint == {x.view : x \in Doing("paint")}
DrawsTo(what) == {x.draw : x \in Doing(what)}
DrawsToPaint == DrawsTo("paint deferred")

Drawing == phase \in {"prepaint", "paint"}
\* The views are prepainted, but for what is deferred.
First == phase = "prepaint" /\ Doing("deferred draws") # {}
DrawList == IF First THEN next.deferred ELSE draws

\* The frame that the ranges of a deferred draw or a cache are of: those of the last one are
\* replaced when they are reused.
InNext(n) == DrawList[n].fresh \/ (~First /\ n \notin DrawsTo("deferred"))
PaintInNext(n) == DrawList[n].fresh \/ (phase = "paint" /\ n \notin DrawsToPaint)
CacheInNext(c) == c \in fresh \/ (phase = "paint" /\ Holders[c] \cap ToPaint = {})
DrawItems(n) == ItemsOf(IF InNext(n) THEN next ELSE rendered, DrawList[n])
DrawKeys(n) == KeysOf(IF InNext(n) THEN next ELSE rendered, DrawList[n])
DrawPaintKeys(n) == PaintKeysOf(IF PaintInNext(n) THEN next ELSE rendered, DrawList[n])
CachePaintKeys(c, k) == PaintKeysOf(IF CacheInNext(c) THEN next ELSE rendered, k)

LaidOutNext(v) == Calling("layout") /\ Call.view = v
Started(v) == v \in fresh \/ LaidOutNext(v)

\* It is painted when the root is: all that holds it was rendered, with it.
Reached(v) ==
  Root \in Holders[v] /\ \A p \in Holders[v] \ {v} :
    p \in fresh /\ \E n \in DOMAIN Children[p][built[p]] :
                     ~Children[p][built[p]][n].deferred /\ Children[p][built[p]][n].view \in Holders[v]

\* A cached view has its items in the last frame, and they were read by it.
LastDrawOK(c, k, d) ==
  /\ d.view \in Sub(c) /\ ItemsOf(rendered, d) \subseteq Sub(c) \cap k.accessed
  /\ NoTops(KeysOf(rendered, d)) /\ NoTops(PaintKeysOf(rendered, d))
LastCacheOK(c, k) ==
  /\ ItemsOf(rendered, k) \subseteq Sub(c) \cap k.accessed
  /\ Apart(k.accessed, c)
  /\ NoTops(KeysOf(rendered, k)) /\ NoTops(PaintKeysOf(rendered, k))
  /\ \A n \in DeferredOf(rendered.deferred, k) : LastDrawOK(c, k, rendered.deferred[n])
LastOK == \A c \in Top \cap WithState(rendered) : LastCacheOK(c, rendered.states[CacheKey(c)])

\* What is in the frame was read by the draw, and what of it was notified was seen.
FreshOK == Drawing =>
  /\ ViewsIn(next.items) \cup fresh \subseteq accessed
  /\ \A v \in fresh : Inside(v, built) \ Cached \subseteq fresh
  /\ Seen(ViewsIn(next.items) \cup fresh)

\* No cache of the last frame comes along that is not one of this one.
MovedOK == Drawing =>
  /\ \A c \in Top : CacheKey(c) \in All(next.keys) \cup DOMAIN next.states => CacheKey(c) \notin DOMAIN rendered.states
  /\ WithState(next) \subseteq Cached /\ WithState(next) \ Top \subseteq fresh

CacheOK(c, k) ==
  /\ fresh \cap Sub(c) \subseteq k.accessed /\ k.accessed \subseteq accessed
  /\ ItemsOf(next, k) \subseteq Sub(c) \cap k.accessed
  /\ Apart(k.accessed, c)
  /\ NoTops(KeysOf(next, k)) /\ k.to.items <= Len(next.items) /\ k.to.keys <= Len(next.keys)
  /\ k.to.deferred <= Len(DrawList)
  /\ \A n \in DeferredOf(DrawList, k) :
       DrawList[n].view \in Sub(c) /\ DrawItems(n) \subseteq Sub(c) \cap k.accessed
  /\ c \notin fresh => Reached(c)
  /\ NoTops(CachePaintKeys(c, k))
  /\ CacheInNext(c) => k.paintTo.keys <= Len(next.keys)
CachesOK == Drawing => \A c \in Top \cap WithState(next) : CacheOK(c, next.states[CacheKey(c)])

DrawOK(n) ==
  /\ DrawList[n].fresh => DrawList[n].view \in fresh /\ Sub(DrawList[n].view) \cap Cached = {}
  /\ DrawItems(n) \subseteq accessed /\ Seen(DrawItems(n)) /\ NoTops(DrawKeys(n))
     /\ NoTops(DrawPaintKeys(n))
  /\ InNext(n) => DrawList[n].to.items <= Len(next.items) /\ DrawList[n].to.keys <= Len(next.keys)
  /\ PaintInNext(n) => DrawList[n].paintTo.keys <= Len(next.keys)
  /\ First /\ DrawList[n].fresh => DrawItems(n) = {}
DeferredOK == Drawing => \A n \in DOMAIN DrawList : DrawOK(n)

\* The calls of the two parts of the prepaint.
StackOK == phase = "prepaint" =>
  /\ First => /\ Len(todo) \in Calls("deferred draws")
              /\ \A i \in DOMAIN todo \ {Len(todo)} : todo[i].do \in {"layout", "prepaint", "defer", "end cached"}
  /\ ~First => /\ Len(todo) \in Calls("end prepaint")
               /\ \A i \in DOMAIN todo \ {Len(todo)} : todo[i].do \in {"prepaint", "defer", "deferred", "end deferred"}
  /\ \A i \in Calls("layout") :
       /\ i = 1 /\ 2 \in Calls("prepaint") /\ todo[2].view = todo[1].view
       /\ fresh \cap Sub(todo[1].view) = {}
       /\ todo[1].view \in Cached \cup {Root}

\* Nothing in it was rendered or read, and its cache is not in the frame.
NotYet(w) == fresh \cap Sub(w) = {} /\ CacheKey(w) \notin DOMAIN next.states
             /\ (w \in Top => accessed \cap Sub(w) = {})

\* A view to be prepainted, and each cached view it is in is being rendered.
FirstPendingOK(i, v) ==
  /\ v \in Cached \/ Started(v)
  /\ Reached(v)
  /\ \A w \in Cached \cap Holders[v] :
       (w = v => Started(w)) => \E j \in EndCalls : j > i /\ todo[j].view = w
  /\ \A w \in Cached \cap Sub(v) : (w = v => ~Started(w)) => NotYet(w)
PendingOK == phase = "prepaint" =>
  /\ \A i \in Calls("defer") : todo[i].view \in fresh /\ Sub(todo[i].view) \cap Cached = {}
  /\ First => /\ \A i, j \in Pending : i # j => Sub(todo[i].view) \cap Sub(todo[j].view) = {}
              /\ \A i \in Calls("prepaint") : FirstPendingOK(i, todo[i].view)
  /\ ~First => \A i \in Calls("prepaint") : todo[i].view \in fresh /\ Sub(todo[i].view) \cap Cached = {}

\* The end of a cached view that is rendered: what is in the frame since is of views in it.
EndTopOK(e, c) ==
  /\ e.accessed \cap Sub(c) = {} /\ Apart(accessed \ e.accessed, c)
  /\ ItemsAfter(next, e.from.items) \subseteq Sub(c) /\ NoTops(KeysAfter(next, e.from.keys))
  /\ \A n \in DOMAIN next.deferred : n > e.from.deferred => next.deferred[n].fresh
                                                            /\ next.deferred[n].view \in Sub(c)
EndOK(j, e, c) ==
  /\ refreshing /\ c \in Cached /\ Started(c)
  /\ (c \notin Top => e.refreshing)
  /\ CacheKey(c) \notin DOMAIN rendered.states \cup DOMAIN next.states
  /\ e.from.items <= Len(next.items) /\ e.from.keys <= Len(next.keys)
     /\ e.from.deferred <= Len(next.deferred)
  /\ \A i \in 1..(j - 1) : todo[i].view \in Sub(c) /\ (i \in EndCalls => todo[i].view # c)
  /\ c \in Top => EndTopOK(e, c)
EndsOK == phase = "prepaint" => \A j \in EndCalls : EndOK(j, todo[j], todo[j].view)

\* The same of a deferred view,
EndDrawOK(j, e, v) ==
  /\ draws[e.draw].fresh /\ e.from.items <= Len(next.items) /\ e.from.keys <= Len(next.keys)
  /\ \A i \in 1..(j - 1) : i \in Pending /\ todo[i].view \in Sub(v)
  /\ ItemsAfter(next, e.from.items) \subseteq Sub(v) \cap fresh /\ NoTops(KeysAfter(next, e.from.keys))
DrawsOK == phase = "prepaint" =>
  /\ \A i, j \in Calls("deferred") \cup EndDraws : todo[i].draw = todo[j].draw => i = j
  /\ \A j \in EndDraws : EndDrawOK(j, todo[j], draws[todo[j].draw].view)

\* and of what is painted.
EndPaintOK(j, e, c) ==
  /\ c \in Cached \cap fresh /\ e.from.keys <= Len(next.keys)
  /\ \A i \in 1..(j - 1) : i \in Calls("paint") \cup EndPaints /\ todo[i].view \in Sub(c) \ {c}
  /\ c \in Top => NoTops(KeysAfter(next, e.from.keys))
EndPaintDrawOK(j, e, v) ==
  /\ draws[e.draw].fresh /\ e.from.keys <= Len(next.keys)
  /\ \A i \in 1..(j - 1) : i \in Calls("paint") /\ todo[i].view \in Sub(v)
  /\ NoTops(KeysAfter(next, e.from.keys))
DeferredLast == \A j \in PaintDraws \cup EndPaintDraws, i \in DOMAIN todo :
                  i > j => i \in PaintDraws \cup EndOfDraw
PaintsOK == phase = "paint" =>
  /\ Doing("deferred") = {}
  /\ Len(todo) \in EndOfDraw /\ \A i \in DOMAIN todo \ {Len(todo)} : i \notin EndOfDraw
  /\ \A i, j \in Calls("paint") : i # j => Sub(todo[i].view) \cap Sub(todo[j].view) = {}
  /\ \A i, j \in PaintDraws \cup EndPaintDraws : todo[i].draw = todo[j].draw => i = j
  /\ DeferredLast
  /\ \A j \in EndPaints : EndPaintOK(j, todo[j], todo[j].view)
  /\ \A j \in EndPaintDraws : EndPaintDrawOK(j, todo[j], draws[todo[j].draw].view)

\* What was notified will be drawn, where it is shown.
NotifiedOK ==
  /\ phase = "prepaint" => \A v \in Shown : Unseen(v) => Holders[v] \subseteq marked
  /\ phase = "focus" => Shown \subseteq accessed /\ Seen(Shown)
  /\ phase = "none" => /\ Shown \subseteq tracked
                       /\ \A v \in Shown : owed[v] # "no" => v \in dirtyViews
                                                             /\ (owed[v] = "asked" => dirty)

SeenInv ==
  /\ LastOK /\ FreshOK /\ MovedOK /\ CachesOK /\ DeferredOK
  /\ StackOK /\ PendingOK /\ EndsOK /\ DrawsOK /\ PaintsOK /\ NotifiedOK

-----------------------------------------------------------------------------
(* Steps of the stack.                                                     *)

\* What the calls on the stack say.
LEMMA PrepaintTodo ==
  ASSUME WindowInv, phase = "prepaint"
  PROVE  /\ todo \in Seq(PrepaintStack(Len(draws))) /\ Len(draws) \in Nat
         /\ Len(todo) \in Nat /\ DOMAIN todo = 1..Len(todo)
         /\ \A i \in DOMAIN todo :
              /\ todo[i].do \in {"layout", "prepaint", "defer", "end cached"} => todo[i].view \in Views
              /\ todo[i].do \in {"deferred", "end deferred"} => todo[i].draw \in 1..Len(draws)
              /\ todo[i].do \in {"end cached", "end deferred"} => todo[i].from \in FramePlaces
              /\ todo[i].do = "end cached" => todo[i].refreshing \in BOOLEAN
                                              /\ todo[i].accessed \subseteq Views
              /\ todo[i].do \in {"layout", "prepaint", "defer", "deferred draws", "end prepaint", "end cached",
                                 "deferred", "end deferred"}
<1> DEFINE S == PrepaintStack(Len(draws))
<1>1. todo \in Seq(S) /\ Len(draws) \in Nat
  <2>1. draws \in Seq(DeferredDraws)
    BY DrawTypes
  <2>2. Len(draws) \in Nat
    BY <2>1, LenProperties
  <2> QED BY <2>2 DEF WindowInv, CallsOK
<1>2. \A x \in S : /\ x.do \in {"layout", "prepaint", "defer", "end cached"} => x.view \in Views
                   /\ x.do \in {"deferred", "end deferred"} => x.draw \in 1..Len(draws)
                   /\ x.do \in {"end cached", "end deferred"} => x.from \in FramePlaces
                   /\ x.do = "end cached" => x.refreshing \in BOOLEAN /\ x.accessed \subseteq Views
                   /\ x.do \in {"layout", "prepaint", "defer", "deferred draws", "end prepaint", "end cached",
                                "deferred", "end deferred"}
  BY <1>1, PrepaintCallIs
<1> HIDE DEF S
<1>3. Len(todo) \in Nat /\ DOMAIN todo = 1..Len(todo)
  BY <1>1, LenProperties
<1>4. \A i \in DOMAIN todo : todo[i] \in S
  BY <1>1, <1>3, ElementOfSeq
<1> QED BY <1>1, <1>2, <1>3, <1>4 DEF S

\* The calls of the paint.
LEMMA PaintTodo ==
  ASSUME WindowInv, phase = "paint"
  PROVE  /\ todo \in Seq(PaintStack(Len(draws), WithState(next))) /\ Len(draws) \in Nat
         /\ Len(todo) \in Nat /\ DOMAIN todo = 1..Len(todo)
         /\ \A i \in DOMAIN todo :
              /\ todo[i].do = "paint" => todo[i].view \in Views
              /\ todo[i].do = "end paint" => todo[i].view \in WithState(next)
              /\ todo[i].do \in {"paint deferred", "end paint deferred"} => todo[i].draw \in 1..Len(draws)
              /\ todo[i].do \in {"end paint", "end paint deferred"} => todo[i].from \in PaintPlaces
              /\ todo[i].do \in {"paint", "end draw", "end paint", "paint deferred", "end paint deferred"}
<1> DEFINE S == PaintStack(Len(draws), WithState(next))
<1>1. todo \in Seq(S) /\ Len(draws) \in Nat
  <2>1. draws \in Seq(DeferredDraws)
    BY DrawTypes
  <2>2. Len(draws) \in Nat
    BY <2>1, LenProperties
  <2> QED BY <2>2 DEF WindowInv, CallsOK
<1>2. \A x \in S : /\ x.do = "paint" => x.view \in Views
                   /\ x.do = "end paint" => x.view \in WithState(next)
                   /\ x.do \in {"paint deferred", "end paint deferred"} => x.draw \in 1..Len(draws)
                   /\ x.do \in {"end paint", "end paint deferred"} => x.from \in PaintPlaces
                   /\ x.do \in {"paint", "end draw", "end paint", "paint deferred", "end paint deferred"}
  <2>1. WithState(next) \subseteq Views
    BY DEF WithState
  <2> QED BY <1>1, <2>1, PaintCallIs
<1> HIDE DEF S
<1>3. Len(todo) \in Nat /\ DOMAIN todo = 1..Len(todo)
  BY <1>1, LenProperties
<1>4. \A i \in DOMAIN todo : todo[i] \in S
  BY <1>1, <1>3, ElementOfSeq
<1> QED BY <1>1, <1>2, <1>3, <1>4 DEF S

\* The first call makes way for new ones.
LEMMA StackStep ==
  ASSUME NEW S, todo \in Seq(S), todo # <<>>, NEW new, NEW T, new \in Seq(T), todo' = new \o Tail(todo)
  PROVE  /\ Len(new) \in Nat /\ Len(todo) \in Nat /\ Len(todo) >= 1
         /\ DOMAIN new = 1..Len(new) /\ DOMAIN todo = 1..Len(todo)
         /\ Len(todo') = Len(new) + Len(todo) - 1 /\ DOMAIN todo' = 1..Len(todo')
         /\ Call = todo[1]
         /\ \A i \in 1..Len(new) : todo'[i] = new[i]
         /\ \A o \in 2..Len(todo) : todo'[Len(new) + o - 1] = todo[o]
         /\ \A i \in DOMAIN todo' : i > Len(new) => i - Len(new) + 1 \in 2..Len(todo)
                                                    /\ todo'[i] = todo[i - Len(new) + 1]
         /\ All(todo') = All(new) \cup All(Tail(todo)) /\ All(todo) = {Call} \cup All(Tail(todo))
<1> DEFINE U == S \cup T
           rest == Tail(todo)
<1>1. rest \in Seq(S) /\ Len(rest) = Len(todo) - 1 /\ (\A i \in 1..Len(rest) : rest[i] = todo[i + 1])
      /\ Len(todo) \in Nat /\ Len(todo) >= 1 /\ DOMAIN todo = 1..Len(todo) /\ Call = todo[1]
  <2>1. Len(todo) \in Nat /\ DOMAIN todo = 1..Len(todo) /\ Len(todo) # 0
    BY EmptySeq, LenProperties
  <2>2. rest \in Seq(S) /\ Len(rest) = Len(todo) - 1 /\ \A i \in 1..Len(rest) : rest[i] = todo[i + 1]
    BY HeadTailProperties
  <2> QED BY <2>1, <2>2 DEF Call
<1> HIDE DEF rest
<1>2. rest \in Seq(U) /\ new \in Seq(U)
  <2>1. S \subseteq U /\ T \subseteq U
    OBVIOUS
  <2> HIDE DEF U
  <2> QED BY <1>1, <2>1, SeqMonotonic
<1> HIDE DEF U
<1> DEFINE both == new \o rest
<1>3. /\ Len(both) = Len(new) + Len(rest)
      /\ Len(new) \in Nat /\ Len(rest) \in Nat
      /\ DOMAIN new = 1..Len(new) /\ DOMAIN rest = 1..Len(rest)
      /\ DOMAIN both = 1..(Len(new) + Len(rest))
      /\ \A n \in 1..Len(new) : both[n] = new[n]
      /\ \A n \in 1..Len(rest) : both[Len(new) + n] = rest[n]
  BY <1>2, Appended
<1>4. All(both) = All(new) \cup All(rest)
  <2>1. 0 \in Nat
    OBVIOUS
  <2> QED BY <1>2, <2>1, PartAppended
<1>5. todo' = both
  BY DEF rest
<1> HIDE DEF both
<1>6. \A o \in 2..Len(todo) : both[Len(new) + o - 1] = todo[o]
  <2>1. ASSUME NEW o \in 2..Len(todo) PROVE both[Len(new) + o - 1] = todo[o]
    <3>1. o - 1 \in 1..Len(rest) /\ Len(new) + (o - 1) = Len(new) + o - 1 /\ (o - 1) + 1 = o
      BY <1>1, <1>3
    <3> QED BY <1>1, <1>3, <3>1
  <2> QED BY <2>1
<1>7. ASSUME NEW i \in DOMAIN both, i > Len(new)
      PROVE  i - Len(new) + 1 \in 2..Len(todo) /\ both[i] = todo[i - Len(new) + 1]
  <2>1. i - Len(new) + 1 \in 2..Len(todo) /\ Len(new) + (i - Len(new) + 1) - 1 = i
    BY <1>1, <1>3, <1>7
  <2> QED BY <1>6, <2>1
<1>8. All(todo) = {Call} \cup All(rest)
  <2>1. ASSUME NEW i \in DOMAIN todo PROVE todo[i] \in {Call} \cup All(rest)
    <3>1. CASE i = 1
      BY <1>1, <3>1
    <3>2. CASE i # 1
      <4>1. i - 1 \in 1..Len(rest) /\ (i - 1) + 1 = i
        BY <1>1, <3>2
      <4>2. rest[i - 1] = todo[i]
        BY <1>1, <4>1
      <4> QED BY <1>3, <4>1, <4>2 DEF All
    <3> QED BY <3>1, <3>2
  <2>2. Call \in All(todo)
    <3>1. 1 \in DOMAIN todo
      BY <1>1
    <3> QED BY <1>1, <3>1 DEF All
  <2>3. ASSUME NEW i \in DOMAIN rest PROVE rest[i] \in All(todo)
    <3>1. i + 1 \in DOMAIN todo /\ rest[i] = todo[i + 1]
      BY <1>1, <1>3
    <3> QED BY <3>1 DEF All
  <2>4. All(todo) \subseteq {Call} \cup All(rest)
    BY <2>1 DEF All
  <2>5. All(rest) \subseteq All(todo)
    BY <2>3 DEF All
  <2> QED BY <2>2, <2>4, <2>5
<1>9. Len(todo') = Len(new) + Len(todo) - 1 /\ DOMAIN todo' = 1..Len(todo')
  BY <1>1, <1>3, <1>5
<1> QED BY <1>1, <1>3, <1>4, <1>5, <1>6, <1>7, <1>8, <1>9 DEF rest

\* What is done of a kind of calls.
LEMMA DoingStep ==
  ASSUME NEW S, todo \in Seq(S), todo # <<>>, NEW new, NEW T, new \in Seq(T), todo' = new \o Tail(todo),
         NEW what
  PROVE  /\ (\A x \in All(new) : x.do # what) => Doing(what)' \subseteq Doing(what)
         /\ Call.do # what => Doing(what) \subseteq Doing(what)'
         /\ Doing(what) \subseteq Doing(what)' \cup {Call}
         /\ \A x \in Doing(what)' : x \in Doing(what) \/ x \in All(new)
<1>1. All(todo') = All(new) \cup All(Tail(todo)) /\ All(todo) = {Call} \cup All(Tail(todo))
  BY StackStep
<1>2. Doing(what)' = {x \in All(todo') : x.do = what} /\ Doing(what) = {x \in All(todo) : x.do = what}
  BY DEF Doing
<1> QED BY <1>1, <1>2

\* Of none.
LEMMA NoNewCalls == \A S : \A s \in Seq(S) : <<>> \in Seq(S) /\ <<>> \o s = s
BY ConcatEmptySeq


-----------------------------------------------------------------------------
(* What a step keeps of the ranges and of the caches.                      *)

\* The lists of the last frame stay, and states are taken from it.
Kept(g, f) ==
  /\ g.items = f.items /\ g.keys = f.keys /\ g.deferred = f.deferred
  /\ \A k \in DOMAIN g.states : k \in DOMAIN f.states /\ g.states[k] = f.states[k]

\* The views of a list are those of its entries.
LEMMA ViewsOfAll == \A list : ViewsIn(list) = {x.view : x \in All(list)}
BY DEF ViewsIn, All

\* The places of a range are numbers.
Ranged(d) == d.from \in FramePlaces /\ d.to \in FramePlaces /\ d.paintFrom \in PaintPlaces
             /\ d.paintTo \in PaintPlaces

\* The places of a range are numbers, its end not before its start.
LEMMA RangedIs ==
  /\ \A d \in Caches \cup DeferredDraws : Ranged(d)
  /\ \A p \in FramePlaces : p.items \in Nat /\ p.keys \in Nat /\ p.deferred \in Nat
  /\ \A p \in PaintPlaces : p.keys \in Nat
BY DEF Caches, DeferredDraws, Ranged, FramePlaces, PaintPlaces

\* Ranges that end in a frame stay when there is more in it,
LEMMA RangesStay ==
  ASSUME NEW f, IsWindowFrame(f), NEW g, NEW I, NEW K, More(g, f, I, K), NEW d, Ranged(d)
  PROVE  /\ d.to.items <= Len(f.items) => ItemsOf(g, d) = ItemsOf(f, d)
         /\ d.to.keys <= Len(f.keys) => KeysOf(g, d) = KeysOf(f, d)
         /\ d.paintTo.keys <= Len(f.keys) => PaintKeysOf(g, d) = PaintKeysOf(f, d)
<1>1. f.items \in Seq(Entry) /\ f.keys \in Seq(StateKeys)
  BY DEF IsWindowFrame
<1>2. I \in Seq(Entry) /\ K \in Seq(StateKeys) /\ g.items = f.items \o I /\ g.keys = f.keys \o K
  BY DEF More
<1>3. /\ d.from.items \in Nat /\ d.from.keys \in Nat /\ d.to.items \in Nat /\ d.to.keys \in Nat
      /\ d.paintFrom.keys \in Nat /\ d.paintTo.keys \in Nat
  BY RangedIs DEF Ranged
<1>4. d.to.items <= Len(f.items) => Part(g.items, d.from.items, d.to.items) = Part(f.items, d.from.items, d.to.items)
  BY <1>1, <1>2, <1>3, PartAppended, SMTT(30)
<1>5. d.to.keys <= Len(f.keys) => Part(g.keys, d.from.keys, d.to.keys) = Part(f.keys, d.from.keys, d.to.keys)
  BY <1>1, <1>2, <1>3, PartAppended, SMTT(30)
<1>6. d.paintTo.keys <= Len(f.keys) => Part(g.keys, d.paintFrom.keys, d.paintTo.keys) = Part(f.keys, d.paintFrom.keys, d.paintTo.keys)
  BY <1>1, <1>2, <1>3, PartAppended, SMTT(30)
<1> QED BY <1>4, <1>5, <1>6 DEF ItemsOf, KeysOf, PaintKeysOf

\* and what comes after a place grows by that.
LEMMA AfterGrows ==
  ASSUME NEW f, IsWindowFrame(f), NEW g, NEW I, NEW K, More(g, f, I, K)
  PROVE  /\ \A a \in Nat : a <= Len(f.items) => ItemsAfter(g, a) = ItemsAfter(f, a) \cup ViewsIn(I)
         /\ \A a \in Nat : a <= Len(f.keys) => KeysAfter(g, a) = KeysAfter(f, a) \cup All(K)
         /\ ViewsIn(g.items) = ViewsIn(f.items) \cup ViewsIn(I) /\ All(g.keys) = All(f.keys) \cup All(K)
         /\ Len(f.items) \in Nat /\ Len(f.keys) \in Nat /\ Len(f.deferred) \in Nat
         /\ Len(g.items) = Len(f.items) + Len(I) /\ Len(g.keys) = Len(f.keys) + Len(K)
         /\ Len(I) \in Nat /\ Len(K) \in Nat
         /\ DOMAIN f.deferred = 1..Len(f.deferred)
<1>1. f.items \in Seq(Entry) /\ f.keys \in Seq(StateKeys) /\ f.deferred \in Seq(DeferredDraws)
  BY DEF IsWindowFrame
<1>2. I \in Seq(Entry) /\ K \in Seq(StateKeys) /\ g.items = f.items \o I /\ g.keys = f.keys \o K
  BY DEF More
<1>3. ASSUME NEW a \in Nat, a <= Len(f.items)
      PROVE  Part(g.items, a, Len(g.items)) = Part(f.items, a, Len(f.items)) \cup All(I)
  <2> DEFINE list == f.items
  <2>1. list \in Seq(Entry) /\ I \in Seq(Entry) /\ a <= Len(list) /\ g.items = list \o I
    BY <1>1, <1>2, <1>3
  <2> HIDE DEF list
  <2>2. Part(list \o I, a, Len(list \o I)) = Part(list, a, Len(list)) \cup All(I)
    BY <2>1, PartAppended
  <2> QED BY <2>1, <2>2 DEF list
<1>4. ASSUME NEW a \in Nat, a <= Len(f.keys)
      PROVE  Part(g.keys, a, Len(g.keys)) = Part(f.keys, a, Len(f.keys)) \cup All(K)
  <2> DEFINE list == f.keys
  <2>1. list \in Seq(StateKeys) /\ K \in Seq(StateKeys) /\ a <= Len(list) /\ g.keys = list \o K
    BY <1>1, <1>2, <1>4
  <2> HIDE DEF list
  <2>2. Part(list \o K, a, Len(list \o K)) = Part(list, a, Len(list)) \cup All(K)
    BY <2>1, PartAppended
  <2> QED BY <2>1, <2>2 DEF list
<1>5. \A a \in Nat : a <= Len(f.items) => ItemsAfter(g, a) = ItemsAfter(f, a) \cup ViewsIn(I)
  BY <1>3, ViewsOfAll DEF ItemsAfter
<1>6. ViewsIn(g.items) = ViewsIn(f.items) \cup ViewsIn(I)
  BY <1>1, <1>2, ViewsOfConcat
<1>7. All(g.keys) = All(f.keys) \cup All(K)
  <2>1. 0 \in Nat
    OBVIOUS
  <2> QED BY <1>1, <1>2, <2>1, PartAppended
<1>8. /\ Len(g.items) = Len(f.items) + Len(I) /\ Len(f.items) \in Nat /\ Len(I) \in Nat
  BY <1>1, <1>2, Appended
<1>9. /\ Len(g.keys) = Len(f.keys) + Len(K) /\ Len(f.keys) \in Nat /\ Len(K) \in Nat
  BY <1>1, <1>2, Appended
<1>10. Len(f.deferred) \in Nat /\ DOMAIN f.deferred = 1..Len(f.deferred)
  BY <1>1
<1> QED BY <1>3, <1>4, <1>5, <1>6, <1>7, <1>8, <1>9, <1>10 DEF KeysAfter

\* The deferred draws that there were come first.
LEMMA DrawsGrow ==
  ASSUME NEW f, IsWindowFrame(f), NEW g, NEW I, NEW K, NEW E, Longer(g, f, I, K, E)
  PROVE  /\ Len(f.deferred) \in Nat /\ Len(g.deferred) = Len(f.deferred) + Len(E) /\ Len(E) \in Nat
         /\ g.deferred \in Seq(DeferredDraws)
         /\ DOMAIN f.deferred = 1..Len(f.deferred) /\ DOMAIN g.deferred = 1..Len(g.deferred)
            /\ DOMAIN E = 1..Len(E)
         /\ \A n \in DOMAIN f.deferred : n \in DOMAIN g.deferred /\ g.deferred[n] = f.deferred[n]
         /\ \A n \in DOMAIN g.deferred : n \in DOMAIN f.deferred \/ (n - Len(f.deferred) \in DOMAIN E
                                                                     /\ g.deferred[n] = E[n - Len(f.deferred)])
<1>1. f.deferred \in Seq(DeferredDraws) /\ E \in Seq(DeferredDraws) /\ g.deferred = f.deferred \o E
  BY DEF Longer, IsWindowFrame
<1>2. /\ g.deferred \in Seq(DeferredDraws) /\ Len(g.deferred) = Len(f.deferred) + Len(E)
      /\ Len(f.deferred) \in Nat /\ Len(E) \in Nat
      /\ DOMAIN f.deferred = 1..Len(f.deferred) /\ DOMAIN E = 1..Len(E)
      /\ DOMAIN g.deferred = 1..(Len(f.deferred) + Len(E))
      /\ (\A n \in 1..Len(f.deferred) : g.deferred[n] = f.deferred[n])
      /\ (\A n \in 1..(Len(f.deferred) + Len(E)) : n \in 1..Len(f.deferred) \/ (n - Len(f.deferred) \in 1..Len(E)
            /\ g.deferred[n] = E[n - Len(f.deferred)]))
  BY <1>1, Appended
<1>3. \A n \in DOMAIN f.deferred : n \in DOMAIN g.deferred
  BY <1>2
<1> QED BY <1>2, <1>3

\* What is in a range is in the frame, and nothing is after its end.
LEMMA RangeWithin ==
  ASSUME NEW f, IsWindowFrame(f), NEW d
  PROVE  /\ ItemsOf(f, d) \subseteq ViewsIn(f.items)
         /\ \A a \in Nat : ItemsAfter(f, a) \subseteq ViewsIn(f.items)
         /\ ItemsAfter(f, Len(f.items)) = {} /\ KeysAfter(f, Len(f.keys)) = {}
<1>1. f.items \in Seq(Entry) /\ f.keys \in Seq(StateKeys)
  BY DEF IsWindowFrame
<1>2. \A list, a, b : Part(list, a, b) \subseteq All(list)
  BY DEF Part, All
<1>3. Part(f.items, Len(f.items), Len(f.items)) = {} /\ Part(f.keys, Len(f.keys), Len(f.keys)) = {}
  <2>1. Len(f.items) \in Nat /\ Len(f.keys) \in Nat
    BY <1>1
  <2> QED BY <1>1, <2>1, PartAppended, NoNewCalls
<1> QED BY <1>2, <1>3, ViewsOfAll DEF ItemsOf, ItemsAfter, KeysAfter

\* What the lists of the last frame say stays, if its lists do.
LEMMA LastRanges ==
  ASSUME NEW f, NEW g, Kept(g, f), NEW d
  PROVE  ItemsOf(g, d) = ItemsOf(f, d) /\ KeysOf(g, d) = KeysOf(f, d)
         /\ PaintKeysOf(g, d) = PaintKeysOf(f, d)
BY DEF Kept, ItemsOf, KeysOf, PaintKeysOf

\* What is true of the caches of the last frame stays so while they leave it.
LEMMA LastStays ==
  ASSUME LastOK, Kept(rendered', rendered)
  PROVE  LastOK'
<1>1. \A d : ItemsOf(rendered', d) = ItemsOf(rendered, d) /\ KeysOf(rendered', d) = KeysOf(rendered, d)
             /\ PaintKeysOf(rendered', d) = PaintKeysOf(rendered, d)
  BY LastRanges
<1>2. rendered'.deferred = rendered.deferred
  BY DEF Kept
<1>3. ASSUME NEW c \in Top, c \in WithState(rendered') PROVE LastCacheOK(c, rendered.states[CacheKey(c)])'
  <2>1. c \in WithState(rendered) /\ rendered'.states[CacheKey(c)] = rendered.states[CacheKey(c)]
    BY <1>3 DEF WithState, Kept
  <2>2. PICK k : k = rendered.states[CacheKey(c)]
    OBVIOUS
  <2>3. LastCacheOK(c, k)
    BY <1>3, <2>1, <2>2 DEF LastOK
  <2>4. LastCacheOK(c, k)'
    BY <1>1, <1>2, <2>3 DEF LastCacheOK, LastDrawOK
  <2> QED BY <2>1, <2>2, <2>4
<1> QED BY <1>3 DEF LastOK

\* A step of a draw, with more in the frame.
Goes(I, K) ==
  /\ More(next', next, I, K) /\ Kept(rendered', rendered)
  /\ accessed \subseteq accessed' /\ fresh \subseteq fresh'
  /\ \A p \in fresh : built'[p] = built[p]
  /\ \A v \in Views : Unseen(v)' => Unseen(v)

\* One that is nothing to a deferred draw.
SameDraw(n) ==
  /\ DrawList'[n] = DrawList[n] /\ (First' => First)
  /\ (InNext(n)' <=> InNext(n)) /\ (PaintInNext(n)' <=> PaintInNext(n))

\* A view that is painted with the root stays so.
LEMMA ReachedStays ==
  ASSUME NEW v \in Views, Reached(v), fresh \subseteq fresh', \A p \in fresh : built'[p] = built[p]
  PROVE  Reached(v)'
<1>1. ASSUME NEW p \in Holders[v] \ {v}
      PROVE  p \in fresh' /\ \E n \in DOMAIN Children[p][built'[p]] :
               ~Children[p][built'[p]][n].deferred /\ Children[p][built'[p]][n].view \in Holders[v]
  <2>1. p \in fresh /\ \E n \in DOMAIN Children[p][built[p]] :
               ~Children[p][built[p]][n].deferred /\ Children[p][built[p]][n].view \in Holders[v]
    BY <1>1 DEF Reached
  <2>2. built'[p] = built[p]
    BY <2>1
  <2> QED BY <2>1, <2>2
<1> QED BY <1>1 DEF Reached

\* What is true of a deferred draw stays so.
LEMMA DrawStays ==
  ASSUME WindowInv, NEW I, NEW K, Goes(I, K), NEW n, DrawList[n] \in DeferredDraws,
         DrawOK(n), SameDraw(n)
  PROVE  DrawOK(n)' /\ DrawItems(n)' = DrawItems(n)
<1>1. PICK d : d = DrawList[n] /\ d = DrawList'[n] /\ Ranged(d)
  BY RangedIs DEF SameDraw
<1>2. IsWindowFrame(next) /\ More(next', next, I, K) /\ Kept(rendered', rendered)
  BY DrawTypes DEF Goes
<1>3. /\ d.to.items <= Len(next.items) => ItemsOf(next', d) = ItemsOf(next, d)
      /\ d.to.keys <= Len(next.keys) => KeysOf(next', d) = KeysOf(next, d)
      /\ d.paintTo.keys <= Len(next.keys) => PaintKeysOf(next', d) = PaintKeysOf(next, d)
  BY <1>1, <1>2, RangesStay
<1>4. /\ ItemsOf(rendered', d) = ItemsOf(rendered, d) /\ KeysOf(rendered', d) = KeysOf(rendered, d)
      /\ PaintKeysOf(rendered', d) = PaintKeysOf(rendered, d)
  BY <1>2, LastRanges
<1>5. /\ Len(next.items) <= Len(next'.items) /\ Len(next.keys) <= Len(next'.keys)
      /\ Len(next.items) \in Nat /\ Len(next.keys) \in Nat /\ Len(next'.items) \in Nat
         /\ Len(next'.keys) \in Nat
  BY <1>2, AfterGrows
<1>6. /\ (InNext(n)' <=> InNext(n)) /\ (PaintInNext(n)' <=> PaintInNext(n))
  BY DEF SameDraw
<1>7. DrawItems(n)' = DrawItems(n)
  BY <1>1, <1>3, <1>4, <1>6 DEF DrawItems, DrawOK
<1>8. DrawKeys(n)' = DrawKeys(n)
  BY <1>1, <1>3, <1>4, <1>6 DEF DrawKeys, DrawOK
<1>9. DrawPaintKeys(n)' = DrawPaintKeys(n)
  BY <1>1, <1>3, <1>4, <1>6 DEF DrawPaintKeys, DrawOK
<1>10. Seen(DrawItems(n))'
  <2>1. DrawItems(n) \subseteq Views
    BY DrawTypes DEF DrawOK
  <2> QED BY <1>7, <2>1 DEF Seen, Goes, DrawOK
<1>11. /\ InNext(n)' => d.to.items <= Len(next'.items) /\ d.to.keys <= Len(next'.keys)
       /\ PaintInNext(n)' => d.paintTo.keys <= Len(next'.keys)
  <2>1. d.to.items \in Nat /\ d.to.keys \in Nat /\ d.paintTo.keys \in Nat
    BY <1>1, RangedIs DEF Ranged
  <2>2. /\ InNext(n)' => d.to.items <= Len(next.items) /\ d.to.keys <= Len(next.keys)
        /\ PaintInNext(n)' => d.paintTo.keys <= Len(next.keys)
    BY <1>1, <1>6 DEF DrawOK
  <2> QED BY <1>5, <2>1, <2>2
<1>12. d.fresh => d.view \in fresh' /\ Sub(d.view) \cap Cached = {}
  BY <1>1 DEF DrawOK, Goes
<1>13. DrawItems(n)' \subseteq accessed'
  BY <1>7 DEF DrawOK, Goes
<1>14. NoTops(DrawKeys(n))' /\ NoTops(DrawPaintKeys(n))'
  BY <1>8, <1>9 DEF DrawOK, NoTops
<1>15. First' /\ d.fresh => DrawItems(n)' = {}
  BY <1>1, <1>7 DEF DrawOK, SameDraw
<1> QED BY <1>1, <1>7, <1>10, <1>11, <1>12, <1>13, <1>14, <1>15 DEF DrawOK

\* What is in a cache, but for its paint.
CachePlaceOK(c, k) ==
  /\ fresh \cap Sub(c) \subseteq k.accessed /\ k.accessed \subseteq accessed
  /\ ItemsOf(next, k) \subseteq Sub(c) \cap k.accessed
  /\ Apart(k.accessed, c)
  /\ NoTops(KeysOf(next, k)) /\ k.to.items <= Len(next.items) /\ k.to.keys <= Len(next.keys)
  /\ k.to.deferred <= Len(DrawList)
  /\ \A n \in DeferredOf(DrawList, k) :
       DrawList[n].view \in Sub(c) /\ DrawItems(n) \subseteq Sub(c) \cap k.accessed
  /\ c \notin fresh => Reached(c)

\* What is true of a cache stays so.
LEMMA CachePlaceStays ==
  ASSUME WindowInv, NEW I, NEW K, Goes(I, K), NEW c \in Top, NEW k \in Caches, CacheOK(c, k),
         fresh' \cap Sub(c) = fresh \cap Sub(c),
         Len(DrawList) \in Nat, Len(DrawList') \in Nat, Len(DrawList) <= Len(DrawList'),
         DOMAIN DrawList = 1..Len(DrawList), DOMAIN DrawList' = 1..Len(DrawList'),
         \A n \in DOMAIN DrawList : /\ DrawList'[n].view = DrawList[n].view /\ DrawList[n].view \in Views
                                    /\ DrawItems(n)' \subseteq DrawItems(n) \cup (Sub(DrawList[n].view) \cap fresh)
  PROVE  CachePlaceOK(c, k)'
<1>1. IsWindowFrame(next) /\ More(next', next, I, K) /\ Kept(rendered', rendered) /\ Ranged(k)
  BY DrawTypes, RangedIs DEF Goes
<1>2. /\ k.to.items <= Len(next.items) => ItemsOf(next', k) = ItemsOf(next, k)
      /\ k.to.keys <= Len(next.keys) => KeysOf(next', k) = KeysOf(next, k)
      /\ k.paintTo.keys <= Len(next.keys) => PaintKeysOf(next', k) = PaintKeysOf(next, k)
  BY <1>1, RangesStay
<1>4. /\ Len(next.items) <= Len(next'.items) /\ Len(next.keys) <= Len(next'.keys)
      /\ Len(next.items) \in Nat /\ Len(next.keys) \in Nat /\ Len(next'.items) \in Nat
         /\ Len(next'.keys) \in Nat
  BY <1>1, AfterGrows
<1>5. /\ k.to.items \in Nat /\ k.to.keys \in Nat /\ k.to.deferred \in Nat /\ k.paintTo.keys \in Nat
      /\ k.from.deferred \in Nat
  BY <1>1, RangedIs DEF Ranged
<1>6. c \in Cached /\ c \in Views /\ c \in Sub(c)
  BY TopIs, SubIs
<1>7. fresh' \cap Sub(c) \subseteq k.accessed /\ k.accessed \subseteq accessed'
  BY DEF CacheOK, Goes
<1>8. ItemsOf(next', k) \subseteq Sub(c) \cap k.accessed /\ NoTops(KeysOf(next', k))
  BY <1>2 DEF CacheOK
<1>9. k.to.items <= Len(next'.items) /\ k.to.keys <= Len(next'.keys) /\ k.to.deferred <= Len(DrawList')
  <2>1. k.to.items <= Len(next.items) /\ k.to.keys <= Len(next.keys) /\ k.to.deferred <= Len(DrawList)
    BY DEF CacheOK
  <2> QED BY <1>4, <1>5, <2>1, SMTT(30)
<1>10. ASSUME NEW n \in DeferredOf(DrawList', k)
       PROVE  DrawList'[n].view \in Sub(c) /\ DrawItems(n)' \subseteq Sub(c) \cap k.accessed
  <2>1. n \in DeferredOf(DrawList, k)
    <3>1. k.to.deferred <= Len(DrawList) /\ n \in 1..Len(DrawList') /\ k.from.deferred < n
          /\ n <= k.to.deferred
      BY <1>10 DEF CacheOK, DeferredOf
    <3>2. n \in 1..Len(DrawList)
      BY <1>5, <3>1
    <3> QED BY <3>1, <3>2 DEF DeferredOf
  <2>2. DrawList[n].view \in Sub(c) /\ DrawItems(n) \subseteq Sub(c) \cap k.accessed
    BY <2>1 DEF CacheOK
  <2>3. /\ DrawList'[n].view = DrawList[n].view
        /\ DrawItems(n)' \subseteq DrawItems(n) \cup (Sub(DrawList[n].view) \cap fresh)
    BY <2>1 DEF DeferredOf
  <2>4. Sub(DrawList[n].view) \subseteq Sub(c)
    BY <1>6, <2>2, SubIs
  <2>5. fresh \cap Sub(c) \subseteq k.accessed
    BY DEF CacheOK
  <2> QED BY <2>2, <2>3, <2>4, <2>5
<1>11. c \notin fresh' => Reached(c)'
  <2>1. ASSUME c \notin fresh' PROVE Reached(c)'
    <3>1. c \notin fresh /\ fresh \subseteq fresh' /\ \A p \in fresh : built'[p] = built[p]
      BY <2>1 DEF Goes
    <3>2. Reached(c)
      BY <3>1 DEF CacheOK
    <3> QED BY <1>6, <3>1, <3>2, ReachedStays
  <2> QED BY <2>1
<1>12. Apart(k.accessed, c)
  BY DEF CacheOK
<1> QED BY <1>7, <1>8, <1>9, <1>10, <1>11, <1>12 DEF CachePlaceOK, Apart

\* What is true of a cache stays so.
LEMMA CacheStays ==
  ASSUME WindowInv, NEW I, NEW K, Goes(I, K), NEW c \in Top, NEW k \in Caches, CacheOK(c, k),
         fresh' \cap Sub(c) = fresh \cap Sub(c), CacheInNext(c)' <=> CacheInNext(c),
         Len(DrawList) \in Nat, Len(DrawList') \in Nat, Len(DrawList) <= Len(DrawList'),
         DOMAIN DrawList = 1..Len(DrawList), DOMAIN DrawList' = 1..Len(DrawList'),
         \A n \in DOMAIN DrawList : /\ DrawList'[n].view = DrawList[n].view /\ DrawList[n].view \in Views
                                    /\ DrawItems(n)' \subseteq DrawItems(n) \cup (Sub(DrawList[n].view) \cap fresh)
  PROVE  CacheOK(c, k)'
<1>1. IsWindowFrame(next) /\ More(next', next, I, K) /\ Kept(rendered', rendered) /\ Ranged(k)
  BY DrawTypes, RangedIs DEF Goes
<1>2. k.paintTo.keys <= Len(next.keys) => PaintKeysOf(next', k) = PaintKeysOf(next, k)
  BY <1>1, RangesStay
<1>3. PaintKeysOf(rendered', k) = PaintKeysOf(rendered, k)
  BY <1>1, LastRanges
<1>4. Len(next.keys) <= Len(next'.keys) /\ Len(next.keys) \in Nat /\ Len(next'.keys) \in Nat
  BY <1>1, AfterGrows
<1>5. k.paintTo.keys \in Nat
  BY <1>1, RangedIs DEF Ranged
<1>6. CachePlaceOK(c, k)'
  BY CachePlaceStays
<1>7. CachePaintKeys(c, k)' = CachePaintKeys(c, k)
  BY <1>2, <1>3 DEF CachePaintKeys, CacheOK
<1>8. CacheInNext(c)' => k.paintTo.keys <= Len(next'.keys)
  <2>1. CacheInNext(c)' => k.paintTo.keys <= Len(next.keys)
    BY DEF CacheOK
  <2> QED BY <1>4, <1>5, <2>1
<1>9. NoTops(CachePaintKeys(c, k))'
  BY <1>7 DEF CacheOK, NoTops
<1> QED BY <1>6, <1>8, <1>9 DEF CacheOK, CachePlaceOK

-----------------------------------------------------------------------------
(* A step in the first part of the prepaint.                               *)

\* A cached view is reused, and its state is no longer in the last frame.
ReusesIt(v) == ~refreshing /\ v \notin fresh /\ CacheKey(v) \notin DOMAIN rendered'.states

\* The first call is of a view v, and all that it does is to what is in it.
FirstStep(v, I, K, E, new) ==
  /\ Goes(I, K) /\ Longer(next', next, I, K, E) /\ phase' = phase /\ draws' = draws /\ marked' = marked
  /\ todo # <<>> /\ todo' = new \o Tail(todo) /\ new \in Seq(PrepaintStack(Len(draws)))
  /\ v \in Views /\ Call.view = v /\ Call.do \in {"layout", "prepaint", "defer", "end cached"}
  /\ fresh' \ fresh \subseteq Sub(v) /\ (Call.do = "layout" => v \in fresh')
  /\ (Call.do # "layout" => fresh' = fresh) /\ (Call.do \in {"defer", "end cached"} => accessed' = accessed)
  /\ Call.do # "prepaint" => new = <<>>
  /\ \A w \in Cached : (fresh' \ fresh) \cap Sub(w) # {} => v \in Sub(w)
  /\ \A w \in Top : (accessed' \ accessed) \cap Sub(w) # {} => v \in Sub(w)
  /\ ViewsIn(I) \subseteq Sub(v) /\ ViewsIn(I) \subseteq accessed' /\ Seen(ViewsIn(I))
  /\ \A c \in Top : CacheKey(c) \in All(K) => c = v /\ Call.do = "prepaint" /\ ~Started(v)
                                              /\ CacheKey(v) \notin DOMAIN rendered'.states
  /\ \A u \in Views : CacheKey(u) \in DOMAIN next'.states =>
       CacheKey(u) \in DOMAIN next.states \/ (u = v /\ (Call.do = "end cached" \/ (Call.do = "prepaint" /\ ReusesIt(v))))
  /\ refreshing => \A n \in DOMAIN E : E[n].fresh /\ E[n].view \in Sub(v)
  /\ refreshing' \/ refreshing' = refreshing \/ (Call.do = "end cached" /\ refreshing' = Call.refreshing)
  /\ \A x \in All(new) : /\ x.do \in {"layout", "prepaint", "defer", "end cached"} /\ x.view \in Sub(v)
                         /\ x.do = "end cached" => x.view = v /\ ~Started(v)

\* The deferred draws that there are, are as they were.
LEMMA FirstDraws ==
  ASSUME WindowInv, First, NEW v, NEW I, NEW K, NEW E, NEW new, FirstStep(v, I, K, E, new)
  PROVE  /\ phase' = "prepaint" /\ First' /\ DrawList = next.deferred /\ DrawList' = next'.deferred
         /\ \A n \in DOMAIN next.deferred : n \in DOMAIN next'.deferred /\ SameDraw(n)
                                            /\ DrawList[n] \in DeferredDraws
         /\ \A c : (CacheInNext(c) <=> c \in fresh) /\ (CacheInNext(c)' <=> c \in fresh')
<1>1. phase = "prepaint" /\ phase' = "prepaint" /\ Goes(I, K)
  BY DEF First, FirstStep
<1>2. First'
  <2>1. todo \in Seq(PrepaintStack(Len(draws)))
    BY <1>1, PrepaintTodo
  <2>2. Doing("deferred draws") \subseteq Doing("deferred draws")'
    BY <2>1, DoingStep DEF FirstStep
  <2> QED BY <1>1, <2>2 DEF First
<1>3. DrawList = next.deferred /\ DrawList' = next'.deferred
  BY <1>2 DEF DrawList
<1>4. IsWindowFrame(next) /\ Longer(next', next, I, K, E)
  BY DrawTypes DEF FirstStep
<1>5. ASSUME NEW n \in DOMAIN next.deferred
      PROVE  n \in DOMAIN next'.deferred /\ SameDraw(n) /\ DrawList[n] \in DeferredDraws
  <2>1. n \in DOMAIN next'.deferred /\ next'.deferred[n] = next.deferred[n]
    BY <1>4, <1>5, DrawsGrow
  <2>2. next.deferred[n] \in DeferredDraws
    <3>1. next.deferred \in Seq(DeferredDraws)
      BY <1>4 DEF IsWindowFrame
    <3>2. n \in 1..Len(next.deferred)
      BY <1>4, <1>5, DrawsGrow
    <3> QED BY <3>1, <3>2, ElementOfSeq
  <2> QED BY <1>1, <1>2, <1>3, <2>1, <2>2 DEF SameDraw, InNext, PaintInNext
<1>6. \A c : (CacheInNext(c) <=> c \in fresh) /\ (CacheInNext(c)' <=> c \in fresh')
  BY <1>1 DEF CacheInNext
<1> QED BY <1>1, <1>2, <1>3, <1>5, <1>6

\* What is started stays so, and nothing else outside of v is started.
LEMMA StartedStays ==
  ASSUME WindowInv, StackOK, First, NEW v, NEW I, NEW K, NEW E, NEW new, FirstStep(v, I, K, E, new)
  PROVE  /\ \A u : Started(u) => Started(u)'
         /\ \A u \in Views : Started(u)' => Started(u) \/ u \in Sub(v)
<1>1. /\ todo \in Seq(PrepaintStack(Len(draws))) /\ todo # <<>> /\ todo' = new \o Tail(todo) /\ v \in Views
      /\ new \in Seq(PrepaintStack(Len(draws))) /\ phase = "prepaint" /\ Call.view = v
  BY PrepaintTodo DEF FirstStep, First
<1>2. \A u : Started(u) => Started(u)'
  BY DEF Started, LaidOutNext, Calling, FirstStep, Goes
<1>3. ASSUME NEW u \in Views, LaidOutNext(u)' PROVE u \in Sub(v)
  <2>1. /\ Len(new) \in Nat /\ Len(todo) \in Nat /\ Len(todo) >= 1 /\ DOMAIN new = 1..Len(new)
        /\ DOMAIN todo' = 1..Len(todo') /\ DOMAIN todo = 1..Len(todo)
        /\ \A i \in 1..Len(new) : todo'[i] = new[i]
        /\ \A i \in DOMAIN todo' : i > Len(new) => i - Len(new) + 1 \in 2..Len(todo)
                                                   /\ todo'[i] = todo[i - Len(new) + 1]
        /\ Len(todo') = Len(new) + Len(todo) - 1
    BY <1>1, StackStep
  <2>2. todo' # <<>> /\ todo'[1].do = "layout" /\ todo'[1].view = u
    <3>1. todo' # <<>> /\ Head(todo').do = "layout" /\ Head(todo').view = u
      BY <1>3 DEF LaidOutNext, Calling, Call
    <3>2. Head(todo') = todo'[1]
      OBVIOUS
    <3> QED BY <3>1, <3>2
  <2>3. 1 \in DOMAIN todo'
    <3>1. Len(todo') # 0
      <4> DEFINE S == PrepaintStack(Len(draws))
      <4>1. todo \in Seq(S) /\ new \in Seq(S)
        BY <1>1
      <4> HIDE DEF S
      <4>2. Tail(todo) \in Seq(S)
        BY <1>1, <4>1, Called
      <4>3. todo' \in Seq(S)
        BY <1>1, <4>1, <4>2, Pushed
      <4> QED BY <2>2, <4>3, EmptySeq
    <3> QED BY <2>1, <3>1
  <2>4. CASE Len(new) >= 1
    <3>1. todo'[1] \in All(new)
      <4>1. 1 \in DOMAIN new /\ todo'[1] = new[1]
        BY <2>1, <2>4
      <4> QED BY <4>1 DEF All
    <3>2. todo'[1].view \in Sub(v)
      BY <3>1 DEF FirstStep
    <3> QED BY <2>2, <3>2
  <2>5. CASE ~(Len(new) >= 1)
    <3>1. 2 \in DOMAIN todo /\ todo'[1] = todo[2]
      BY <2>1, <2>3, <2>5
    <3>2. 2 \in Calls("layout")
      BY <2>2, <3>1 DEF Calls
    <3>3. \A i \in Calls("layout") : i = 1
      BY <1>1 DEF StackOK
    <3> QED BY <3>2, <3>3
  <2> QED BY <2>4, <2>5
<1>4. \A u \in Views : u \in fresh' => u \in fresh \/ u \in Sub(v)
  BY DEF FirstStep
<1> QED BY <1>2, <1>3, <1>4 DEF Started

\* What is in a list is in a longer one.
LEMMA StillWithin == \A a, b, d \in Nat : \A g : a <= b /\ g = b + d => a <= g
OBVIOUS

\* The next call is the first of the stack.
LEMMA StackHead ==
  ASSUME 1 \in DOMAIN todo, Call = todo[1], NEW what
  PROVE  1 \in Calls(what) <=> Call.do = what
BY DEF Calls

\* The end of a cached view that the first call is in stays to be done.
LEMMA EndStays ==
  ASSUME WindowInv, StackOK, EndsOK, First, NEW v, NEW I, NEW K, NEW E, NEW new, FirstStep(v, I, K, E, new),
         NEW o \in EndCalls, o >= 2, NEW j, j = Len(new) + o - 1,
         NEW e, e = todo[o], NEW c, c = e.view
  PROVE  EndOK(j, e, c)'
<1>1. /\ todo \in Seq(PrepaintStack(Len(draws))) /\ todo # <<>> /\ todo' = new \o Tail(todo) /\ v \in Views
      /\ new \in Seq(PrepaintStack(Len(draws))) /\ phase = "prepaint" /\ Call.view = v /\ Goes(I, K)
      /\ IsWindowFrame(next) /\ Longer(next', next, I, K, E) /\ More(next', next, I, K)
  BY PrepaintTodo, DrawTypes DEF FirstStep, First, Longer
<1>2. EndOK(o, e, c) /\ e.from \in FramePlaces /\ e.accessed \subseteq Views /\ c \in Views
      /\ o \in DOMAIN todo
      /\ e.refreshing \in BOOLEAN
  BY <1>1, PrepaintTodo DEF EndsOK, EndCalls, Calls
<1>3. /\ Len(new) \in Nat /\ Len(todo) \in Nat /\ Len(todo) >= 1 /\ DOMAIN new = 1..Len(new)
         /\ DOMAIN todo = 1..Len(todo)
      /\ \A i \in 1..Len(new) : todo'[i] = new[i]
      /\ \A i \in DOMAIN todo' : i > Len(new) => i - Len(new) + 1 \in 2..Len(todo)
                                                 /\ todo'[i] = todo[i - Len(new) + 1]
      /\ Call = todo[1] /\ Len(todo') = Len(new) + Len(todo) - 1 /\ DOMAIN todo' = 1..Len(todo')
  BY <1>1, StackStep
<1>12. 1 \in DOMAIN todo /\ Call = todo[1]
  BY <1>3
<1>4. v \in Sub(c) /\ Sub(v) \subseteq Sub(c) /\ (1 \in EndCalls => v # c)
  <2>1. 1 \in 1..(o - 1) /\ o \in Nat
    BY <1>2, <1>3
  <2>2. todo[1].view \in Sub(c) /\ (1 \in EndCalls => todo[1].view # c)
    BY <1>2, <2>1 DEF EndOK
  <2> QED BY <1>1, <1>2, <1>3, <2>2, SubIs
<1>5. c \in Cached /\ refreshing /\ Started(c) /\ (v \in Top => v = c)
  <2>1. c \in Cached /\ refreshing /\ Started(c)
    BY <1>2 DEF EndOK
  <2> QED BY <1>4, <2>1, TopIs
<1>6. refreshing'
  <2>1. CASE 1 \in EndCalls /\ refreshing' = Call.refreshing
    <3>1. EndOK(1, Call, v)
      BY <1>1, <1>3, <2>1 DEF EndsOK
    <3> QED BY <1>4, <1>5, <2>1, <3>1 DEF EndOK
  <2>2. refreshing' \/ refreshing' = refreshing \/ (Call.do = "end cached" /\ refreshing' = Call.refreshing)
    BY DEF FirstStep
  <2>3. Call.do = "end cached" <=> 1 \in EndCalls
    BY <1>12, StackHead DEF EndCalls
  <2> QED BY <1>5, <2>1, <2>2, <2>3
<1>7. Started(c)'
  BY <1>5, StartedStays
<1>8. CacheKey(c) \notin DOMAIN rendered'.states \cup DOMAIN next'.states
  <2>1. CacheKey(c) \notin DOMAIN rendered.states /\ CacheKey(c) \notin DOMAIN next.states
    BY <1>2 DEF EndOK
  <2>2. 1 \in EndCalls <=> Call.do = "end cached"
    BY <1>12, StackHead DEF EndCalls
  <2>3. CacheKey(c) \in DOMAIN next'.states =>
          CacheKey(c) \in DOMAIN next.states \/ (c = v /\ (Call.do = "end cached" \/ ReusesIt(v)))
    BY <1>2 DEF FirstStep
  <2>4. CacheKey(c) \notin DOMAIN next'.states
    BY <1>4, <1>5, <2>1, <2>2, <2>3 DEF ReusesIt
  <2>5. CacheKey(c) \notin DOMAIN rendered'.states
    BY <1>1, <2>1 DEF Goes, Kept
  <2> QED BY <2>4, <2>5
<1>9. e.from.items <= Len(next'.items) /\ e.from.keys <= Len(next'.keys)
      /\ e.from.deferred <= Len(next'.deferred)
  <2>1. e.from.items <= Len(next.items) /\ e.from.keys <= Len(next.keys)
        /\ e.from.deferred <= Len(next.deferred)
    BY <1>2 DEF EndOK
  <2>2. e.from.items \in Nat /\ e.from.keys \in Nat /\ e.from.deferred \in Nat
    BY <1>2, RangedIs
  <2>3. /\ Len(next'.items) = Len(next.items) + Len(I) /\ Len(next'.keys) = Len(next.keys) + Len(K)
        /\ Len(next'.deferred) = Len(next.deferred) + Len(E) /\ Len(next.items) \in Nat
           /\ Len(next.keys) \in Nat
        /\ Len(I) \in Nat /\ Len(K) \in Nat /\ Len(E) \in Nat /\ Len(next.deferred) \in Nat
    BY <1>1, AfterGrows, DrawsGrow
  <2>4. e.from.items <= Len(next'.items)
    BY <2>1, <2>2, <2>3, StillWithin, Zenon
  <2>5. e.from.keys <= Len(next'.keys)
    BY <2>1, <2>2, <2>3, StillWithin, Zenon
  <2>6. e.from.deferred <= Len(next'.deferred)
    BY <2>1, <2>2, <2>3, StillWithin, Zenon
  <2> QED BY <2>4, <2>5, <2>6
<1>10. ASSUME NEW i \in 1..(j - 1) PROVE todo'[i].view \in Sub(c) /\ (i \in EndCalls' => todo'[i].view # c)
  <2>1. CASE i <= Len(new)
    <3>1. todo'[i] \in All(new)
      BY <1>3, <2>1 DEF All
    <3> QED BY <1>4, <1>5, <3>1 DEF FirstStep, EndCalls, Calls
  <2>2. CASE ~(i <= Len(new))
    <3>1. i \in DOMAIN todo' /\ i > Len(new) /\ i - Len(new) + 1 \in 1..(o - 1)
      BY <1>2, <1>3, <2>2
    <3>2. todo'[i] = todo[i - Len(new) + 1] /\ i - Len(new) + 1 \in DOMAIN todo
      BY <1>3, <3>1
    <3>3. i \in EndCalls' => i - Len(new) + 1 \in EndCalls
      BY <3>1, <3>2 DEF EndCalls, Calls
    <3> QED BY <1>2, <3>1, <3>2, <3>3 DEF EndOK
  <2> QED BY <2>1, <2>2
<1>11. ASSUME c \in Top PROVE EndTopOK(e, c)'
  <2>1. EndTopOK(e, c)
    BY <1>2, <1>11 DEF EndOK
  <2>2. Apart(accessed' \ e.accessed, c)
    <3>1. \A w \in Top \ {c} : v \notin Sub(w)
      BY <1>4, <1>11, TopIs
    <3>2. \A w \in Top \ {c} : (accessed' \ accessed) \cap Sub(w) = {}
      BY <3>1 DEF FirstStep
    <3> QED BY <2>1, <3>2 DEF EndTopOK, Apart
  <2>3. e.from.items \in Nat /\ e.from.keys \in Nat /\ e.from.deferred \in Nat
        /\ e.from.items <= Len(next.items) /\ e.from.keys <= Len(next.keys)
           /\ e.from.deferred <= Len(next.deferred)
    BY <1>2, RangedIs DEF EndOK
  <2>4. /\ ItemsAfter(next', e.from.items) = ItemsAfter(next, e.from.items) \cup ViewsIn(I)
        /\ KeysAfter(next', e.from.keys) = KeysAfter(next, e.from.keys) \cup All(K)
    <3>1. /\ \A a \in Nat : a <= Len(next.items) => ItemsAfter(next', a) = ItemsAfter(next, a) \cup ViewsIn(I)
          /\ \A a \in Nat : a <= Len(next.keys) => KeysAfter(next', a) = KeysAfter(next, a) \cup All(K)
      BY <1>1, AfterGrows
    <3> QED BY <2>3, <3>1
  <2>5. ItemsAfter(next', e.from.items) \subseteq Sub(c)
    BY <1>4, <2>1, <2>4 DEF EndTopOK, FirstStep
  <2>6. NoTops(KeysAfter(next', e.from.keys))
    <3>1. NoTops(All(K))
      <4>1. ASSUME NEW w \in Top, CacheKey(w) \in All(K) PROVE FALSE
        <5>1. w = v /\ ~Started(v)
          BY <4>1 DEF FirstStep
        <5> QED BY <1>5, <5>1, <4>1
      <4> QED BY <4>1 DEF NoTops, TopKeys
    <3> QED BY <2>1, <2>4, <3>1 DEF EndTopOK, NoTops
  <2>7. ASSUME NEW n \in DOMAIN next'.deferred, n > e.from.deferred
        PROVE  next'.deferred[n].fresh /\ next'.deferred[n].view \in Sub(c)
    <3>1. \/ n \in DOMAIN next.deferred /\ next'.deferred[n] = next.deferred[n]
          \/ n - Len(next.deferred) \in DOMAIN E /\ next'.deferred[n] = E[n - Len(next.deferred)]
      BY <1>1, DrawsGrow
    <3> QED BY <1>4, <1>5, <2>1, <2>7, <3>1 DEF EndTopOK, FirstStep
  <2> QED BY <2>1, <2>2, <2>5, <2>6, <2>7 DEF EndTopOK
<1> QED BY <1>2, <1>5, <1>6, <1>7, <1>8, <1>9, <1>10, <1>11 DEF EndOK

\* Where the calls are after a step: the new ones come first.
Moves(new) ==
  /\ 1 \in DOMAIN todo /\ Call = todo[1] /\ DOMAIN todo = 1..Len(todo) /\ Len(todo) \in Nat
  /\ DOMAIN new = 1..Len(new) /\ Len(new) \in Nat /\ Len(todo') = Len(new) + Len(todo) - 1
  /\ DOMAIN todo' = 1..Len(todo')
  /\ \A j \in DOMAIN todo' : \/ j \in DOMAIN new /\ todo'[j] = new[j]
                             \/ \E o \in 2..Len(todo) : j = Len(new) + o - 1 /\ todo'[j] = todo[o]
  /\ \A j \in DOMAIN new : j \in DOMAIN todo' /\ todo'[j] = new[j]
  /\ \A o \in 2..Len(todo) : Len(new) + o - 1 \in DOMAIN todo' /\ todo'[Len(new) + o - 1] = todo[o]
  /\ \A what : \A j \in Calls(what)' :
       \/ j \in DOMAIN new /\ todo'[j] = new[j] /\ new[j].do = what
       \/ \E o \in Calls(what) : o \in 2..Len(todo) /\ j = Len(new) + o - 1 /\ todo'[j] = todo[o]
  /\ \A what : \A o \in Calls(what) : o = 1 \/ (o \in 2..Len(todo) /\ Len(new) + o - 1 \in Calls(what)')

\* Calls replace the first one, and the others move.
LEMMA CallsMove ==
  ASSUME NEW S, todo \in Seq(S), todo # <<>>, NEW new, NEW T, new \in Seq(T), todo' = new \o Tail(todo)
  PROVE  Moves(new)
<1>1. /\ Len(new) \in Nat /\ Len(todo) \in Nat /\ Len(todo) >= 1
      /\ DOMAIN new = 1..Len(new) /\ DOMAIN todo = 1..Len(todo)
      /\ Len(todo') = Len(new) + Len(todo) - 1 /\ DOMAIN todo' = 1..Len(todo')
      /\ Call = todo[1]
      /\ \A i \in 1..Len(new) : todo'[i] = new[i]
      /\ \A o \in 2..Len(todo) : todo'[Len(new) + o - 1] = todo[o]
      /\ \A i \in DOMAIN todo' : i > Len(new) => i - Len(new) + 1 \in 2..Len(todo)
                                                 /\ todo'[i] = todo[i - Len(new) + 1]
  BY StackStep
<1>2. ASSUME NEW j \in DOMAIN todo'
      PROVE  \/ j \in DOMAIN new /\ todo'[j] = new[j]
             \/ \E o \in 2..Len(todo) : j = Len(new) + o - 1 /\ todo'[j] = todo[o]
  <2>1. CASE j <= Len(new)
    <3>1. j \in 1..Len(new)
      BY <1>1, <2>1
    <3> QED BY <1>1, <3>1
  <2>2. CASE ~(j <= Len(new))
    <3>1. j > Len(new) /\ j \in Nat
      BY <1>1, <2>2
    <3>2. j - Len(new) + 1 \in 2..Len(todo) /\ todo'[j] = todo[j - Len(new) + 1]
      BY <1>1, <3>1
    <3>3. j = Len(new) + (j - Len(new) + 1) - 1
      BY <1>1, <3>1
    <3> QED BY <3>2, <3>3
  <2> QED BY <2>1, <2>2
<1>3. \A j \in DOMAIN new : j \in DOMAIN todo' /\ todo'[j] = new[j]
  BY <1>1
<1>4. \A o \in 2..Len(todo) : Len(new) + o - 1 \in DOMAIN todo'
  BY <1>1
<1>5. ASSUME NEW what, NEW j \in Calls(what)'
      PROVE  \/ j \in DOMAIN new /\ todo'[j] = new[j] /\ new[j].do = what
             \/ \E o \in Calls(what) : o \in 2..Len(todo) /\ j = Len(new) + o - 1 /\ todo'[j] = todo[o]
  <2>1. j \in DOMAIN todo' /\ todo'[j].do = what
    BY <1>5 DEF Calls
  <2>2. ASSUME NEW o \in 2..Len(todo), j = Len(new) + o - 1, todo'[j] = todo[o]
        PROVE  o \in Calls(what)
    <3>1. o \in DOMAIN todo
      BY <1>1
    <3> QED BY <2>1, <2>2, <3>1 DEF Calls
  <2> QED BY <1>2, <2>1, <2>2
<1>6. ASSUME NEW what, NEW o \in Calls(what), o # 1
             PROVE o \in 2..Len(todo) /\ Len(new) + o - 1 \in Calls(what)'
  <2>1. o \in DOMAIN todo /\ todo[o].do = what
    BY DEF Calls
  <2>2. o \in 2..Len(todo)
    BY <1>1, <1>6, <2>1
  <2> QED BY <1>1, <1>4, <2>1, <2>2 DEF Calls
<1>7. 1 \in DOMAIN todo
  BY <1>1
<1> QED BY <1>1, <1>2, <1>3, <1>4, <1>5, <1>6, <1>7 DEF Moves

\* The same of a step in the first part.
LEMMA FirstCalls ==
  ASSUME WindowInv, First, NEW v, NEW I, NEW K, NEW E, NEW new, FirstStep(v, I, K, E, new)
  PROVE  /\ todo \in Seq(PrepaintStack(Len(draws))) /\ new \in Seq(PrepaintStack(Len(draws)))
         /\ todo # <<>> /\ todo' = new \o Tail(todo)
         /\ phase = "prepaint" /\ phase' = "prepaint" /\ v \in Views /\ Call.view = v /\ Goes(I, K)
         /\ IsWindowFrame(next) /\ Longer(next', next, I, K, E) /\ More(next', next, I, K)
         /\ \A i \in Pending \cup EndCalls : i \in DOMAIN todo /\ todo[i].view \in Views
         /\ Moves(new)
<1>1. /\ todo \in Seq(PrepaintStack(Len(draws))) /\ new \in Seq(PrepaintStack(Len(draws)))
      /\ todo # <<>> /\ todo' = new \o Tail(todo)
      /\ phase = "prepaint" /\ phase' = "prepaint" /\ v \in Views /\ Call.view = v /\ Goes(I, K)
      /\ IsWindowFrame(next) /\ Longer(next', next, I, K, E) /\ More(next', next, I, K)
      /\ \A i \in Pending \cup EndCalls : i \in DOMAIN todo /\ todo[i].view \in Views
  BY PrepaintTodo, DrawTypes DEF FirstStep, First, Longer, Pending, Calls, EndCalls
<1>2. Moves(new)
  BY <1>1, CallsMove
<1> QED BY <1>1, <1>2

\* The calls but the first.
LEMMA FromTwo == \A n \in Nat : \A o \in 2..n : o >= 2 /\ o # 1 /\ o \in Nat /\ 1 < o
OBVIOUS

\* The ends of cached views, after a step of the first part of the prepaint,
LEMMA FirstEnds ==
  ASSUME WindowInv, StackOK, EndsOK, First, NEW v, NEW I, NEW K, NEW E, NEW new, FirstStep(v, I, K, E, new),
         \A j \in DOMAIN new : new[j].do = "end cached" => EndOK(j, new[j], new[j].view)'
  PROVE  EndsOK'
<1>1. Moves(new)
  BY FirstCalls
<1>2. ASSUME NEW j \in EndCalls' PROVE EndOK(j, todo[j], todo[j].view)'
  <2>1. \/ j \in DOMAIN new /\ todo'[j] = new[j] /\ new[j].do = "end cached"
        \/ \E o \in EndCalls : o \in 2..Len(todo) /\ j = Len(new) + o - 1 /\ todo'[j] = todo[o]
    <3> QED BY <1>1, <1>2 DEF Moves, EndCalls
  <2>2. CASE j \in DOMAIN new /\ todo'[j] = new[j] /\ new[j].do = "end cached"
    <3>1. EndOK(j, new[j], new[j].view)'
      BY <2>2
    <3>2. PICK e : e = new[j]
      OBVIOUS
    <3>3. EndOK(j, e, e.view)' /\ e = todo'[j]
      BY <2>2, <3>1, <3>2
    <3> QED BY <3>3
  <2>3. CASE \E o \in EndCalls : o \in 2..Len(todo) /\ j = Len(new) + o - 1 /\ todo'[j] = todo[o]
    <3>1. PICK o \in EndCalls : o \in 2..Len(todo) /\ j = Len(new) + o - 1 /\ todo'[j] = todo[o]
      BY <2>3
    <3>2. PICK e : e = todo[o] /\ e = todo'[j]
      BY <3>1
    <3>3. PICK c : c = e.view
      OBVIOUS
    <3>4. o >= 2
      BY <1>1, <3>1, FromTwo DEF Moves
    <3>5. EndOK(j, e, c)'
      BY <3>1, <3>2, <3>3, <3>4, EndStays
    <3> QED BY <3>2, <3>3, <3>5
  <2> QED BY <2>1, <2>2, <2>3
<1> QED BY <1>2 DEF EndsOK

\* What the first call starts is not in a view that is to be prepainted later, but for the one
\* that was laid out for it.
LEMMA PendingApart ==
  ASSUME WindowInv, StackOK, EndsOK, PendingOK, First, NEW v, NEW I, NEW K, NEW E, NEW new,
         FirstStep(v, I, K, E, new),
         NEW o \in Pending, o >= 2, NEW u, u = todo[o].view
  PROVE  /\ v \in Views /\ u \in Views
         /\ \/ Sub(v) \cap Sub(u) = {}
            \/ Call.do = "layout" /\ u = v /\ new = <<>>
            \/ fresh' = fresh /\ accessed' = accessed /\ new = <<>> /\ Call.do # "prepaint"
<1>1. /\ phase = "prepaint" /\ v \in Views /\ Call.view = v /\ todo[o].view \in Views /\ Moves(new)
  BY FirstCalls
<1>2. /\ Call.do \in {"layout", "prepaint", "defer", "end cached"} /\ (Call.do # "prepaint" => new = <<>>)
      /\ (Call.do \in {"defer", "end cached"} => fresh' = fresh /\ accessed' = accessed)
  BY DEF FirstStep
<1>3. \A i, j \in Pending : i # j => Sub(todo[i].view) \cap Sub(todo[j].view) = {}
  BY <1>1 DEF PendingOK
<1>4. 1 \in DOMAIN todo /\ Call = todo[1] /\ o # 1
  <2>1. o \in Nat /\ 1 \in DOMAIN todo /\ Call = todo[1]
    BY <1>1 DEF Moves, Pending, Calls
  <2> QED BY <2>1
<1>5. CASE Call.do = "prepaint"
  <2>1. 1 \in Pending
    BY <1>4, <1>5 DEF Pending, Calls
  <2>2. Sub(todo[1].view) \cap Sub(todo[o].view) = {}
    BY <1>3, <1>4, <2>1
  <2> QED BY <1>1, <1>4, <2>2
<1>6. CASE Call.do = "layout"
  <2>1. 1 \in Calls("layout")
    BY <1>4, <1>6 DEF Calls
  <2>2. 2 \in Pending /\ todo[2].view = v
    BY <1>1, <1>4, <2>1 DEF StackOK, Pending
  <2>3. CASE o = 2
    BY <1>1, <1>2, <1>6, <2>2, <2>3
  <2>4. CASE o # 2
    <3>1. Sub(todo[2].view) \cap Sub(todo[o].view) = {}
      BY <1>3, <2>2, <2>4
    <3> QED BY <1>1, <2>2, <3>1
  <2> QED BY <2>3, <2>4
<1> QED BY <1>1, <1>2, <1>5, <1>6

\* a view that was to be prepainted,
LEMMA PendingStays ==
  ASSUME WindowInv, StackOK, EndsOK, PendingOK, First, NEW v, NEW I, NEW K, NEW E, NEW new,
         FirstStep(v, I, K, E, new),
         NEW o \in Calls("prepaint"), o >= 2, NEW u, u = todo[o].view, NEW j, j = Len(new) + o - 1
  PROVE  FirstPendingOK(j, u)'
<1>1. /\ phase = "prepaint" /\ v \in Views /\ Moves(new) /\ o \in DOMAIN todo /\ o \in Pending
         /\ u \in Views
      /\ Goes(I, K) /\ Call.view = v
  BY FirstCalls DEF Calls, Pending
<1>2. FirstPendingOK(o, u)
  BY <1>1 DEF PendingOK
<1>3. \/ Sub(v) \cap Sub(u) = {}
      \/ Call.do = "layout" /\ u = v /\ new = <<>>
      \/ fresh' = fresh /\ accessed' = accessed /\ new = <<>> /\ Call.do # "prepaint"
  BY <1>1, PendingApart
<1>4. (\A w : Started(w) => Started(w)') /\ (\A w \in Views : Started(w)' => Started(w) \/ w \in Sub(v))
  BY StartedStays
<1>5. /\ \A w \in Cached : (fresh' \ fresh) \cap Sub(w) # {} => v \in Sub(w)
      /\ \A w \in Top : (accessed' \ accessed) \cap Sub(w) # {} => v \in Sub(w)
      /\ fresh \subseteq fresh' /\ fresh' \ fresh \subseteq Sub(v)
  BY <1>1 DEF FirstStep, Goes
<1>6. v \in Sub(v) /\ u \in Sub(u) /\ Cached \subseteq Views /\ Top \subseteq Cached
  BY <1>1, SubIs, TopIs
<1>7. ASSUME new = <<>>, NEW w, LaidOutNext(w)' PROVE FALSE
  <2>1. todo' # <<>> /\ Head(todo').do = "layout"
    BY <1>7 DEF LaidOutNext, Calling, Call
  <2>2. Len(new) = 0
    BY <1>7
  <2>3. todo' \in Seq(PrepaintStack(Len(draws)))
    <3> DEFINE S == PrepaintStack(Len(draws))
    <3>1. todo \in Seq(S) /\ new \in Seq(S) /\ todo # <<>> /\ todo' = new \o Tail(todo)
      BY FirstCalls
    <3> HIDE DEF S
    <3>2. Tail(todo) \in Seq(S)
      BY <3>1, Called
    <3>3. todo' \in Seq(S)
      BY <3>1, <3>2, Pushed
    <3> QED BY <3>3 DEF S
  <2>4. Len(todo') # 0 /\ Head(todo') = todo'[1]
    BY <2>1, <2>3, EmptySeq
  <2>5. 1 \in DOMAIN todo'
    BY <1>1, <2>2, <2>4 DEF Moves
  <2>6. todo'[1] = todo[2] /\ 2 \in DOMAIN todo
    <3>1. PICK i \in 2..Len(todo) : 1 = Len(new) + i - 1 /\ todo'[1] = todo[i]
      BY <1>1, <2>2, <2>5 DEF Moves
    <3>2. i = 2 /\ i \in DOMAIN todo
      BY <1>1, <2>2, <3>1 DEF Moves
    <3> QED BY <3>1, <3>2
  <2>7. 2 \in Calls("layout")
    BY <2>1, <2>4, <2>6 DEF Calls
  <2>8. \A i \in Calls("layout") : i = 1
    BY <1>1 DEF StackOK
  <2> QED BY <2>7, <2>8
<1>8. u \in Cached \/ Started(u)'
  BY <1>2, <1>4 DEF FirstPendingOK
<1>9. Reached(u)'
  <2>1. fresh \subseteq fresh' /\ \A p \in fresh : built'[p] = built[p]
    BY <1>1 DEF Goes
  <2> QED BY <1>1, <1>2, <2>1, ReachedStays DEF FirstPendingOK
\* Nothing that is cached in u is started by this.
<1>10. ASSUME NEW w \in Cached, w \in Sub(u), Started(w)', ~Started(w) PROVE FALSE
  <2>1. w \in Sub(v) /\ w \in Sub(w) /\ w \in Views
    BY <1>4, <1>6, <1>10, SubIs
  <2>2. new = <<>>
    BY <1>3, <1>10, <2>1
  <2>3. w \in fresh' \ fresh
    BY <1>7, <1>10, <2>2 DEF Started
  <2>4. Call.do = "layout" /\ u = v
    BY <1>3, <1>10, <2>1, <2>3
  <2>5. v \in Sub(w)
    BY <1>5, <2>1, <2>3
  <2>6. w = v
    BY <1>1, <2>1, <2>5, SubIs
  <2>7. Started(v)
    <3>1. todo # <<>>
      BY FirstCalls
    <3> QED BY <1>1, <2>4, <3>1 DEF Started, LaidOutNext, Calling
  <2> QED BY <1>10, <2>6, <2>7
<1>11. ASSUME NEW w \in Cached \cap Holders[u], w = u => Started(w)'
       PROVE  \E i \in EndCalls' : i > j /\ todo'[i].view = w
  <2>1. w = u => Started(w)
    BY <1>6, <1>10, <1>11
  <2>2. PICK i \in EndCalls : i > o /\ todo[i].view = w
    BY <1>2, <1>11, <2>1 DEF FirstPendingOK
  <2>3. i \in DOMAIN todo
    BY <2>2, FirstCalls
  <2>4. i \in 2..Len(todo)
    BY <1>1, <2>2, <2>3 DEF Moves
  <2>5. Len(new) + i - 1 \in EndCalls' /\ todo'[Len(new) + i - 1] = todo[i]
    <3>1. i # 1
      BY <1>1, <2>4 DEF Moves
    <3> QED BY <1>1, <2>2, <2>4, <3>1 DEF Moves, EndCalls
  <2>6. Len(new) + i - 1 > j
    BY <1>1, <2>2, <2>4 DEF Moves
  <2> QED BY <2>2, <2>5, <2>6
<1>12. ASSUME NEW w \in Cached \cap Sub(u), w = u => ~Started(w)'
       PROVE  NotYet(w)'
  <2>1. NotYet(w)
    BY <1>2, <1>4, <1>12 DEF FirstPendingOK
  <2>2. w \in Sub(w) /\ w \in Views
    BY <1>6, SubIs
  \* The call is not of anything in w.
  <2>3. \/ v \notin Sub(w)
        \/ fresh' = fresh /\ accessed' = accessed /\ new = <<>> /\ Call.do # "prepaint"
    <3>1. ASSUME v \in Sub(w) PROVE v \in Sub(u)
      BY <1>1, <1>12, <3>1, SubIs
    <3>2. ASSUME v \in Sub(w), Call.do = "layout", u = v PROVE FALSE
      <4>1. w = v
        BY <1>1, <1>12, <2>2, <3>2, SubIs
      <4>2. Started(v)
        <5>1. todo # <<>>
          BY FirstCalls
        <5> QED BY <1>1, <3>2, <5>1 DEF Started, LaidOutNext, Calling
      <4> QED BY <1>4, <1>12, <3>2, <4>1, <4>2
    <3> QED BY <1>3, <1>6, <3>1, <3>2
  <2>4. fresh' \cap Sub(w) = {}
    BY <1>5, <2>1, <2>3 DEF NotYet
  <2>5. w \in Top => accessed' \cap Sub(w) = {}
    BY <1>5, <2>1, <2>3 DEF NotYet
  <2>6. ASSUME CacheKey(w) \in DOMAIN next'.states PROVE FALSE
    <3>1. CacheKey(w) \notin DOMAIN next.states
      BY <2>1 DEF NotYet
    <3>2. w = v /\ (Call.do = "end cached" \/ Call.do = "prepaint")
      BY <2>2, <2>6, <3>1 DEF FirstStep
    <3>3. Call.do = "end cached"
      BY <2>2, <2>3, <3>2
    <3>4. 1 \in EndCalls /\ Call = todo[1]
      BY <1>1, <3>3 DEF Moves, EndCalls, Calls
    <3>5. Started(v)
      BY <1>1, <3>4 DEF EndsOK, EndOK
    <3>6. ~LaidOutNext(v)
      BY <3>3 DEF LaidOutNext, Calling
    <3>7. v \in fresh
      BY <3>5, <3>6 DEF Started
    <3> QED BY <2>1, <2>2, <3>2, <3>7 DEF NotYet
  <2> QED BY <2>4, <2>5, <2>6 DEF NotYet
<1> QED BY <1>8, <1>9, <1>11, <1>12 DEF FirstPendingOK

\* the views to be prepainted,
LEMMA FirstPending ==
  ASSUME WindowInv, StackOK, EndsOK, PendingOK, First, NEW v, NEW I, NEW K, NEW E, NEW new,
         FirstStep(v, I, K, E, new),
         \A j \in DOMAIN new : new[j].do = "prepaint" => FirstPendingOK(j, new[j].view)',
         \A j \in DOMAIN new : new[j].do = "defer" => new[j].view \in fresh'
                                                      /\ Sub(new[j].view) \cap Cached = {},
         \A i, j \in DOMAIN new :
           i # j /\ {new[i].do, new[j].do} \subseteq {"prepaint", "defer"} => Sub(new[i].view) \cap Sub(new[j].view) = {}
  PROVE  PendingOK'
<1>1. Moves(new) /\ First' /\ phase = "prepaint" /\ v \in Views /\ fresh \subseteq fresh'
  BY FirstCalls, FirstDraws DEF Goes
<1>2. \A what : \A j \in Calls(what)' :
       \/ j \in DOMAIN new /\ todo'[j] = new[j] /\ new[j].do = what
       \/ \E o \in Calls(what) : o \in 2..Len(todo) /\ j = Len(new) + o - 1 /\ todo'[j] = todo[o]
  BY <1>1 DEF Moves
<1>3. ASSUME NEW i \in Calls("defer")' PROVE todo'[i].view \in fresh' /\ Sub(todo'[i].view) \cap Cached = {}
  <2>1. \A o \in Calls("defer") : todo[o].view \in fresh /\ Sub(todo[o].view) \cap Cached = {}
    BY <1>1 DEF PendingOK
  <2> QED BY <1>1, <1>2, <1>3, <2>1
<1>4. \A j \in Pending' : \/ j \in DOMAIN new /\ todo'[j] = new[j] /\ new[j].do \in {"prepaint", "defer"}
                          \/ \E o \in Pending : o \in 2..Len(todo) /\ j = Len(new) + o - 1
                                                /\ todo'[j] = todo[o]
  BY <1>2 DEF Pending
<1>5. \A o, p \in Pending : o # p => Sub(todo[o].view) \cap Sub(todo[p].view) = {}
  BY <1>1 DEF PendingOK
<1>6. ASSUME NEW n \in DOMAIN new, NEW o \in Pending, o \in 2..Len(todo)
      PROVE  Sub(new[n].view) \cap Sub(todo[o].view) = {}
  <2>1. new[n] \in All(new)
    BY DEF All
  <2>2. new[n].view \in Sub(v) /\ Call.do = "prepaint"
    <3>1. new # <<>>
      OBVIOUS
    <3> QED BY <2>1, <3>1 DEF FirstStep
  <2>3. o >= 2
    BY <1>1, <1>6, FromTwo DEF Moves
  <2>4. Sub(v) \cap Sub(todo[o].view) = {}
    BY <1>6, <2>2, <2>3, PendingApart
  <2> QED BY <1>1, <2>2, <2>4, SubIs
<1>7. ASSUME NEW i \in Pending', NEW j \in Pending', i # j
      PROVE  Sub(todo'[i].view) \cap Sub(todo'[j].view) = {}
  <2>1. CASE i \in DOMAIN new /\ todo'[i] = new[i] /\ new[i].do \in {"prepaint", "defer"}
    <3>1. CASE j \in DOMAIN new /\ todo'[j] = new[j] /\ new[j].do \in {"prepaint", "defer"}
      BY <1>7, <2>1, <3>1
    <3>2. CASE \E o \in Pending : o \in 2..Len(todo) /\ j = Len(new) + o - 1 /\ todo'[j] = todo[o]
      BY <1>6, <2>1, <3>2
    <3> QED BY <1>4, <3>1, <3>2
  <2>2. CASE \E o \in Pending : o \in 2..Len(todo) /\ i = Len(new) + o - 1 /\ todo'[i] = todo[o]
    <3>1. PICK o \in Pending : o \in 2..Len(todo) /\ i = Len(new) + o - 1 /\ todo'[i] = todo[o]
      BY <2>2
    <3>2. CASE j \in DOMAIN new /\ todo'[j] = new[j] /\ new[j].do \in {"prepaint", "defer"}
      <4>1. Sub(new[j].view) \cap Sub(todo[o].view) = {}
        BY <1>6, <3>1, <3>2
      <4> QED BY <3>1, <3>2, <4>1
    <3>3. CASE \E p \in Pending : p \in 2..Len(todo) /\ j = Len(new) + p - 1 /\ todo'[j] = todo[p]
      <4>1. PICK p \in Pending : p \in 2..Len(todo) /\ j = Len(new) + p - 1 /\ todo'[j] = todo[p]
        BY <3>3
      <4>2. o # p
        BY <1>7, <3>1, <4>1
      <4> QED BY <1>5, <3>1, <4>1, <4>2
    <3> QED BY <1>4, <3>2, <3>3
  <2> QED BY <1>4, <2>1, <2>2
<1>8. ASSUME NEW i \in Calls("prepaint")' PROVE FirstPendingOK(i, todo[i].view)'
  <2>1. CASE i \in DOMAIN new /\ todo'[i] = new[i] /\ new[i].do = "prepaint"
    <3>1. FirstPendingOK(i, new[i].view)'
      BY <2>1
    <3>2. PICK u : u = new[i].view
      OBVIOUS
    <3>3. FirstPendingOK(i, u)' /\ u = todo'[i].view
      BY <2>1, <3>1, <3>2
    <3> QED BY <3>3
  <2>2. CASE \E o \in Calls("prepaint") : o \in 2..Len(todo) /\ i = Len(new) + o - 1 /\ todo'[i] = todo[o]
    <3>1. PICK o \in Calls("prepaint") : o \in 2..Len(todo) /\ i = Len(new) + o - 1 /\ todo'[i] = todo[o]
      BY <2>2
    <3>2. PICK u : u = todo[o].view /\ u = todo'[i].view
      BY <3>1
    <3>3. o >= 2
      BY <1>1, <3>1, FromTwo DEF Moves
    <3>4. FirstPendingOK(i, u)'
      BY <3>1, <3>2, <3>3, PendingStays
    <3> QED BY <3>2, <3>4
  <2> QED BY <1>2, <2>1, <2>2
<1> QED BY <1>1, <1>3, <1>7, <1>8 DEF PendingOK

\* The calls of the first part go on to be such.
LEMMA LastOf == \A n \in Nat : 1 \in 1..n /\ n # 1 => n \in 2..n
OBVIOUS

\* The calls but the first are calls.
LEMMA TwoOn == \A n \in Nat : 2..n \subseteq 1..n
OBVIOUS

\* the calls,
LEMMA FirstStack ==
  ASSUME WindowInv, StackOK, First, NEW v, NEW I, NEW K, NEW E, NEW new, FirstStep(v, I, K, E, new),
         \A j \in DOMAIN new : new[j].do = "layout" =>
           /\ j = 1 /\ 2 \in DOMAIN new /\ new[2].do = "prepaint" /\ new[2].view = new[1].view
           /\ fresh' \cap Sub(new[1].view) = {} /\ new[1].view \in Cached \cup {Root}
  PROVE  StackOK'
<1>1. Moves(new) /\ First' /\ phase = "prepaint" /\ v \in Views
  BY FirstCalls, FirstDraws
<1>2. \A what : \A j \in Calls(what)' :
       \/ j \in DOMAIN new /\ todo'[j] = new[j] /\ new[j].do = what
       \/ \E o \in Calls(what) : o \in 2..Len(todo) /\ j = Len(new) + o - 1 /\ todo'[j] = todo[o]
  BY <1>1 DEF Moves
<1>3. ASSUME NEW i \in Calls("layout")'
      PROVE  /\ i = 1 /\ 2 \in Calls("prepaint")' /\ todo'[2].view = todo'[1].view
             /\ fresh' \cap Sub(todo'[1].view) = {}
             /\ todo'[1].view \in Cached \cup {Root}
  <2>1. \A o \in Calls("layout") : o = 1
    BY <1>1 DEF StackOK
  <2>2. \A o \in 2..Len(todo) : o # 1
    BY <1>1, FromTwo DEF Moves
  <2>3. i \in DOMAIN new /\ todo'[i] = new[i] /\ new[i].do = "layout"
    BY <1>2, <1>3, <2>1, <2>2
  <2>4. /\ i = 1 /\ 2 \in DOMAIN new /\ new[2].do = "prepaint" /\ new[2].view = new[1].view
        /\ fresh' \cap Sub(new[1].view) = {} /\ new[1].view \in Cached \cup {Root}
    BY <2>3
  <2>5. \A j \in DOMAIN new : j \in DOMAIN todo' /\ todo'[j] = new[j]
    BY <1>1 DEF Moves
  <2>6. 2 \in Calls("prepaint")' /\ todo'[2] = new[2]
    BY <2>4, <2>5 DEF Calls
  <2> QED BY <2>3, <2>4, <2>6
<1>4. /\ Len(todo) \in Calls("deferred draws")
      /\ \A i \in DOMAIN todo \ {Len(todo)} : todo[i].do \in {"layout", "prepaint", "defer", "end cached"}
  BY <1>1 DEF StackOK
<1>5. Len(todo) # 1
  <2>1. Call.do # "deferred draws"
    BY DEF FirstStep
  <2> QED BY <1>1, <1>4, <2>1 DEF Moves, Calls
<1>6. Len(todo) \in 2..Len(todo) /\ Len(new) + Len(todo) - 1 = Len(todo')
  <2>1. Len(todo) \in Nat /\ 1 \in 1..Len(todo) /\ Len(new) \in Nat /\ Len(todo') = Len(new) + Len(todo) - 1
    BY <1>1 DEF Moves
  <2>2. Len(todo) \in 2..Len(todo)
    BY <1>5, <2>1, LastOf
  <2> QED BY <2>1, <2>2
<1>7. Len(todo') \in Calls("deferred draws")'
  <2>1. \A what : \A o \in Calls(what) : o = 1 \/ (o \in 2..Len(todo) /\ Len(new) + o - 1 \in Calls(what)')
    BY <1>1 DEF Moves
  <2>2. Len(new) + Len(todo) - 1 \in Calls("deferred draws")'
    BY <1>4, <1>5, <2>1
  <2> QED BY <1>6, <2>2
<1>8. ASSUME NEW i \in DOMAIN todo' \ {Len(todo')}
      PROVE  todo'[i].do \in {"layout", "prepaint", "defer", "end cached"}
  <2>1. CASE i \in DOMAIN new /\ todo'[i] = new[i]
    <3>1. new[i] \in All(new)
      BY <2>1 DEF All
    <3> QED BY <2>1, <3>1 DEF FirstStep
  <2>2. CASE \E o \in 2..Len(todo) : i = Len(new) + o - 1 /\ todo'[i] = todo[o]
    <3>1. PICK o \in 2..Len(todo) : i = Len(new) + o - 1 /\ todo'[i] = todo[o]
      BY <2>2
    <3>2. o # Len(todo)
      BY <1>6, <1>8, <3>1
    <3>3. o \in DOMAIN todo
      <4>1. DOMAIN todo = 1..Len(todo) /\ Len(todo) \in Nat
        BY <1>1 DEF Moves
      <4> QED BY <4>1, TwoOn
    <3> QED BY <1>4, <3>1, <3>2, <3>3
  <2> QED BY <1>1, <2>1, <2>2 DEF Moves
<1> QED BY <1>1, <1>3, <1>7, <1>8 DEF StackOK

\* What is in the frame goes on to be of the draw, if what is new is.
LEMMA FreshStays ==
  ASSUME WindowInv, FreshOK, Drawing, NEW I, NEW K, Goes(I, K), fresh' = fresh, built' = built,
         ViewsIn(I) \subseteq accessed', Seen(ViewsIn(I)), ViewsIn(I) \subseteq Views
  PROVE  FreshOK'
<1>1. /\ ViewsIn(next.items) \cup fresh \subseteq accessed
      /\ \A v \in fresh : Inside(v, built) \ Cached \subseteq fresh
      /\ Seen(ViewsIn(next.items) \cup fresh)
  BY DEF FreshOK
<1>2. ViewsIn(next'.items) = ViewsIn(next.items) \cup ViewsIn(I)
  <2>1. IsWindowFrame(next) /\ More(next', next, I, K)
    BY DrawTypes DEF Goes
  <2> QED BY <2>1, AfterGrows
<1>3. /\ accessed \subseteq accessed' /\ accessed \subseteq Views
      /\ \A v \in Views : Unseen(v)' => Unseen(v)
  BY DrawTypes DEF Goes
<1>4. \A v \in fresh' : Inside(v, built') \ Cached \subseteq fresh'
  BY <1>1
<1>5. Seen(ViewsIn(next.items) \cup fresh)'
  <2>1. ASSUME NEW x \in ViewsIn(next'.items) \cup fresh PROVE ~Unseen(x)'
    <3>1. ~Unseen(x)
      BY <1>1, <1>2, <2>1 DEF Seen
    <3>2. x \in Views
      BY <1>1, <1>2, <1>3, <2>1
    <3> QED BY <1>3, <3>1, <3>2
  <2> QED BY <2>1 DEF Seen
<1> QED BY <1>1, <1>2, <1>3, <1>4, <1>5 DEF FreshOK

\* the caches that came along,
LEMMA FirstMoved ==
  ASSUME WindowInv, MovedOK, EndsOK, StackOK, PendingOK, First, NEW v, NEW I, NEW K, NEW E, NEW new,
         FirstStep(v, I, K, E, new)
  PROVE  MovedOK'
<1>1. /\ phase = "prepaint" /\ phase' = "prepaint" /\ Drawing /\ v \in Views /\ Moves(new)
         /\ More(next', next, I, K)
      /\ IsWindowFrame(next) /\ Kept(rendered', rendered) /\ fresh \subseteq fresh' /\ Call.view = v
  BY FirstCalls DEF Drawing, Goes
<1>2. /\ \A c \in Top : CacheKey(c) \in All(next.keys) \cup DOMAIN next.states => CacheKey(c) \notin DOMAIN rendered.states
      /\ WithState(next) \subseteq Cached /\ WithState(next) \ Top \subseteq fresh
  BY <1>1 DEF MovedOK
<1>3. Top \subseteq Cached /\ Cached \subseteq Views
  BY TopIs
<1>4. All(next'.keys) = All(next.keys) \cup All(K)
  BY <1>1, AfterGrows
\* A cache that is new is of v.
<1>5. \A u \in Views : CacheKey(u) \in DOMAIN next'.states =>
        CacheKey(u) \in DOMAIN next.states \/ (u = v /\ (1 \in EndCalls \/ (1 \in Calls("prepaint") /\ ReusesIt(v))))
  <2>1. 1 \in DOMAIN todo /\ Call = todo[1]
    BY <1>1 DEF Moves
  <2> QED BY <2>1, StackHead DEF FirstStep, EndCalls
<1>6. ASSUME 1 \in EndCalls
      PROVE  v \in Cached /\ v \in fresh /\ CacheKey(v) \notin DOMAIN rendered.states
  <2>1. EndOK(1, todo[1], todo[1].view) /\ todo[1] = Call /\ Call.do = "end cached"
    BY <1>1, <1>6 DEF EndsOK, Moves, EndCalls, Calls
  <2>2. ~LaidOutNext(v)
    BY <2>1 DEF LaidOutNext, Calling
  <2> QED BY <1>1, <2>1, <2>2 DEF EndOK, Started
<1>7. ASSUME 1 \in Calls("prepaint"), ~refreshing, v \notin fresh
      PROVE  v \in Top
  <2>1. FirstPendingOK(1, v)
    BY <1>1, <1>7 DEF PendingOK, Moves
  <2>2. ~LaidOutNext(v)
    BY <1>1, <1>7 DEF LaidOutNext, Calling, Calls, Moves
  <2>3. v \in Cached /\ ~Started(v)
    BY <1>7, <2>1, <2>2 DEF FirstPendingOK, Started
  <2>4. EndCalls = {}
    BY <1>1, <1>7 DEF EndsOK, EndOK
  <2>5. \A w \in Cached \cap Holders[v] : w = v
    BY <2>1, <2>4 DEF FirstPendingOK
  <2> QED BY <1>1, <2>3, <2>5, HoldersUpward DEF Top
<1>8. ASSUME NEW c \in Top, CacheKey(c) \in All(next'.keys) \cup DOMAIN next'.states
      PROVE  CacheKey(c) \notin DOMAIN rendered'.states
  <2>1. CASE CacheKey(c) \in All(next.keys) \cup DOMAIN next.states
    BY <1>1, <1>2, <2>1 DEF Kept
  <2>2. CASE CacheKey(c) \in All(K)
    BY <2>2 DEF FirstStep
  <2>3. CASE CacheKey(c) \in DOMAIN next'.states /\ CacheKey(c) \notin DOMAIN next.states
    <3>1. c = v /\ (1 \in EndCalls \/ ReusesIt(v))
      BY <1>3, <1>5, <2>3
    <3>2. CASE 1 \in EndCalls
      BY <1>1, <1>6, <3>1, <3>2 DEF Kept
    <3>3. CASE ReusesIt(v)
      BY <3>1, <3>3 DEF ReusesIt
    <3> QED BY <3>1, <3>2, <3>3
  <2> QED BY <1>4, <1>8, <2>1, <2>2, <2>3
<1>9. ASSUME NEW u \in WithState(next') PROVE u \in Cached /\ (u \in Top \/ u \in fresh')
  <2>1. u \in Views /\ CacheKey(u) \in DOMAIN next'.states
    BY <1>9 DEF WithState
  <2>2. CASE CacheKey(u) \in DOMAIN next.states
    <3>1. u \in WithState(next)
      BY <2>1, <2>2 DEF WithState
    <3> QED BY <1>1, <1>2, <3>1
  <2>3. CASE CacheKey(u) \notin DOMAIN next.states
    <3>1. u = v /\ (1 \in EndCalls \/ (1 \in Calls("prepaint") /\ ReusesIt(v)))
      BY <1>5, <2>1, <2>3
    <3> QED BY <1>1, <1>6, <1>7, <1>3, <3>1 DEF ReusesIt
  <2> QED BY <2>2, <2>3
<1> QED BY <1>8, <1>9 DEF MovedOK

\* the deferred draws,
LEMMA FirstDeferred ==
  ASSUME WindowInv, DeferredOK, First, NEW v, NEW I, NEW K, NEW E, NEW new, FirstStep(v, I, K, E, new),
         NEW l, l = Len(next.deferred), \A n \in DOMAIN E : DrawOK(l + n)'
  PROVE  DeferredOK'
<1>1. /\ phase = "prepaint" /\ Drawing /\ Goes(I, K) /\ Longer(next', next, I, K, E) /\ IsWindowFrame(next)
      /\ DrawList = next.deferred /\ DrawList' = next'.deferred
      /\ \A n \in DOMAIN next.deferred : SameDraw(n) /\ DrawList[n] \in DeferredDraws
  BY FirstCalls, FirstDraws DEF Drawing
<1>2. /\ Len(next.deferred) \in Nat /\ DOMAIN next.deferred = 1..Len(next.deferred)
      /\ DOMAIN next'.deferred = 1..Len(next'.deferred) /\ Len(next'.deferred) \in Nat
      /\ \A n \in DOMAIN next'.deferred : n \in DOMAIN next.deferred \/ n - Len(next.deferred) \in DOMAIN E
  <2>1. next'.deferred \in Seq(DeferredDraws)
    BY <1>1, DrawsGrow
  <2> QED BY <1>1, <2>1, DrawsGrow
<1>3. ASSUME NEW n \in DOMAIN next'.deferred PROVE DrawOK(n)'
  <2>1. CASE n \in DOMAIN next.deferred
    <3>1. DrawOK(n)
      BY <1>1, <2>1 DEF DeferredOK
    <3> QED BY <1>1, <2>1, <3>1, DrawStays
  <2>2. CASE n - Len(next.deferred) \in DOMAIN E
    <3>1. PICK m \in DOMAIN E : m = n - l
      BY <2>2
    <3>2. l + m = n
      <4>1. n \in Nat /\ l \in Nat
        BY <1>2
      <4> QED BY <3>1, <4>1
    <3> QED BY <3>1, <3>2
  <2> QED BY <1>2, <2>1, <2>2
<1> QED BY <1>1, <1>3 DEF DeferredOK

\* What is rendered is in no cached view whose state is in the frame.
LEMMA FirstCacheRendered ==
  ASSUME WindowInv, StackOK, EndsOK, PendingOK, First, NEW v, NEW I, NEW K, NEW E, NEW new,
         FirstStep(v, I, K, E, new),
         NEW c \in Top \cap WithState(next)
  PROVE  fresh' \cap Sub(c) = fresh \cap Sub(c)
<1>1. phase = "prepaint" /\ v \in Views /\ Call.view = v /\ Moves(new) /\ fresh \subseteq fresh'
      /\ todo # <<>>
  BY FirstCalls DEF Goes
<1>2. c \in Cached /\ CacheKey(c) \in DOMAIN next.states
  BY TopIs DEF WithState
<1>3. CASE Call.do = "layout" /\ v \in Sub(c)
  <2>1. 1 \in Calls("layout") /\ Call = todo[1]
    BY <1>1, <1>3 DEF Calls, Moves
  <2>2. 2 \in Calls("prepaint") /\ todo[2].view = v
    BY <1>1, <2>1 DEF StackOK
  <2>3. FirstPendingOK(2, v)
    BY <1>1, <2>2 DEF PendingOK
  <2>4. Started(v)
    BY <1>1, <1>3 DEF Started, LaidOutNext, Calling
  <2>5. c \in Cached \cap Holders[v]
    BY <1>2, <1>3 DEF Sub
  <2>6. PICK j \in EndCalls : todo[j].view = c
    BY <2>3, <2>4, <2>5 DEF FirstPendingOK
  <2>7. EndOK(j, todo[j], c)
    BY <1>1, <2>6 DEF EndsOK
  <2> QED BY <1>2, <2>7 DEF EndOK
<1>4. CASE Call.do # "layout"
  BY <1>4 DEF FirstStep
<1>5. CASE v \notin Sub(c)
  <2>1. (fresh' \ fresh) \cap Sub(c) = {}
    BY <1>2, <1>5 DEF FirstStep
  <2> QED BY <1>1, <2>1
<1> QED BY <1>3, <1>4, <1>5

\* and the caches of this frame.
LEMMA FirstCaches ==
  ASSUME WindowInv, CachesOK, StackOK, EndsOK, PendingOK, DeferredOK, First,
         NEW v, NEW I, NEW K, NEW E, NEW new, FirstStep(v, I, K, E, new),
         \A c \in Top \cap WithState(next') :
           \/ c \in WithState(next) /\ next'.states[CacheKey(c)] = next.states[CacheKey(c)]
           \/ CacheOK(c, next.states[CacheKey(c)])'
  PROVE  CachesOK'
<1>1. /\ phase = "prepaint" /\ Drawing /\ Goes(I, K) /\ Longer(next', next, I, K, E) /\ IsWindowFrame(next)
      /\ DrawList = next.deferred /\ DrawList' = next'.deferred
      /\ \A n \in DOMAIN next.deferred : SameDraw(n) /\ DrawList[n] \in DeferredDraws
      /\ \A c : (CacheInNext(c) <=> c \in fresh) /\ (CacheInNext(c)' <=> c \in fresh')
  BY FirstCalls, FirstDraws DEF Drawing
<1>2. ASSUME NEW c \in Top \cap WithState(next), NEW k, k = next.states[CacheKey(c)]
      PROVE  CacheOK(c, k)'
  <2>1. k \in Caches /\ c \in Views /\ CacheOK(c, k)
    BY <1>1, <1>2 DEF IsWindowFrame, CachesTyped, WithState, CachesOK
  <2>2. fresh' \cap Sub(c) = fresh \cap Sub(c)
    BY FirstCacheRendered
  <2>3. c \in Sub(c)
    BY <2>1, SubIs
  <2>4. CacheInNext(c)' <=> CacheInNext(c)
    BY <1>1, <2>2, <2>3
  <2>5. /\ Len(next.deferred) \in Nat /\ Len(next'.deferred) = Len(next.deferred) + Len(E) /\ Len(E) \in Nat
        /\ DOMAIN next.deferred = 1..Len(next.deferred) /\ DOMAIN next'.deferred = 1..Len(next'.deferred)
    BY <1>1, DrawsGrow
  <2>6. Len(next'.deferred) \in Nat /\ Len(next.deferred) <= Len(next'.deferred)
    BY <2>5
  <2>7. ASSUME NEW n \in DOMAIN DrawList
        PROVE  /\ DrawList'[n].view = DrawList[n].view /\ DrawList[n].view \in Views
               /\ DrawItems(n)' \subseteq DrawItems(n) \cup (Sub(DrawList[n].view) \cap fresh)
    <3>1. DrawOK(n) /\ SameDraw(n) /\ DrawList[n] \in DeferredDraws
      BY <1>1, <2>7 DEF DeferredOK
    <3>2. DrawItems(n)' = DrawItems(n)
      BY <1>1, <3>1, DrawStays
    <3> QED BY <3>1, <3>2 DEF SameDraw, DeferredDraws
  <2> QED BY <1>1, <2>1, <2>2, <2>4, <2>5, <2>6, <2>7, CacheStays
<1>3. ASSUME NEW c \in Top \cap WithState(next') PROVE CacheOK(c, next.states[CacheKey(c)])'
  <2>1. CASE c \in WithState(next) /\ next'.states[CacheKey(c)] = next.states[CacheKey(c)]
    <3>1. PICK k : k = next.states[CacheKey(c)]
      OBVIOUS
    <3>2. CacheOK(c, k)' /\ k = next'.states[CacheKey(c)]
      BY <1>2, <2>1, <3>1
    <3> QED BY <3>2
  <2>2. CASE CacheOK(c, next.states[CacheKey(c)])'
    BY <2>2
  <2> QED BY <2>1, <2>2
<1> QED BY <1>3 DEF CachesOK

\* The views of a frame's items are views.
LEMMA ViewsTyped == \A f : IsWindowFrame(f) => ViewsIn(f.items) \subseteq Views
<1>1. ASSUME NEW f, IsWindowFrame(f) PROVE ViewsIn(f.items) \subseteq Views
  <2> DEFINE list == f.items
  <2>1. list \in Seq(Entry)
    BY <1>1 DEF IsWindowFrame
  <2> HIDE DEF list
  <2>2. \A n \in DOMAIN list : list[n] \in Entry
    BY <2>1, ElementOfSeq
  <2>3. ViewsIn(list) \subseteq Views
    BY <2>2 DEF ViewsIn, Entry
  <2> QED BY <2>3 DEF list
<1> QED BY <1>1

\* The first part goes on to keep the invariant, if what is new to it does.
LEMMA FirstKeeps ==
  ASSUME WindowInv, SeenInv, First, NEW v, NEW I, NEW K, NEW E, NEW new, FirstStep(v, I, K, E, new),
         FreshOK', CachesOK', DeferredOK', PendingOK', EndsOK', StackOK'
  PROVE  SeenInv'
<1>1. LastOK' /\ MovedOK'
  <2>1. Kept(rendered', rendered)
    BY DEF FirstStep, Goes
  <2> QED BY <2>1, LastStays, FirstMoved DEF SeenInv
<1>2. /\ phase = "prepaint" /\ phase' = "prepaint" /\ First' /\ Moves(new) /\ Goes(I, K) /\ marked' = marked
      /\ Kept(rendered', rendered)
  <2>1. phase = "prepaint" /\ phase' = "prepaint" /\ Moves(new) /\ Goes(I, K)
    BY FirstCalls
  <2>2. First'
    BY FirstDraws
  <2> QED BY <2>1, <2>2 DEF FirstStep, Goes
<1>3. DrawsOK'
  <2>1. ASSUME NEW j \in DOMAIN todo', todo'[j].do \in {"deferred", "end deferred"} PROVE FALSE
    <3>1. Len(todo') \in Calls("deferred draws")'
          /\ \A i \in DOMAIN todo' \ {Len(todo')} : todo'[i].do \in {"layout", "prepaint", "defer", "end cached"}
      BY <1>2 DEF StackOK
    <3>2. todo'[j].do \in {"layout", "prepaint", "defer", "end cached", "deferred draws"}
      BY <2>1, <3>1 DEF Calls
    <3> QED BY <2>1, <3>2
  <2>2. Calls("deferred")' = {} /\ Calls("end deferred")' = {}
    BY <2>1 DEF Calls
  <2> QED BY <2>2 DEF DrawsOK, EndDraws
<1>4. PaintsOK'
  BY <1>2 DEF PaintsOK
<1>5. NotifiedOK'
  <2>1. Shown' = Shown
    BY <1>2 DEF Shown, Kept
  <2>2. Shown \subseteq Views
    <3>1. IsWindowFrame(rendered)
      BY DrawTypes
    <3> QED BY <3>1, ViewsTyped DEF Shown
  <2>3. \A u \in Shown : Unseen(u) => Holders[u] \subseteq marked
    BY <1>2 DEF SeenInv, NotifiedOK
  <2>4. \A u \in Views : Unseen(u)' => Unseen(u)
    BY <1>2 DEF Goes
  <2>5. \A u \in Shown' : Unseen(u)' => Holders[u] \subseteq marked'
    BY <1>2, <2>1, <2>2, <2>3, <2>4
  <2> QED BY <1>2, <2>5 DEF NotifiedOK
<1> QED BY <1>1, <1>3, <1>4, <1>5 DEF SeenInv

\* Nothing is in the empty list.
LEMMA Empties ==
  /\ DOMAIN <<>> = {} /\ All(<<>>) = {} /\ ViewsIn(<<>>) = {} /\ Len(<<>>) = 0
  /\ \A S : <<>> \in Seq(S)
<1>1. DOMAIN <<>> = {} /\ Len(<<>>) = 0 /\ \A S : <<>> \in Seq(S)
  OBVIOUS
<1> QED BY <1>1 DEF All, ViewsIn

\* What is not empty has a first.
LEMMA OneOf == \A n \in Nat : n # 0 => 1 \in 1..n
OBVIOUS

\* The next call is the first.
LEMMA HeadCall == todo # <<>> => Call = todo[1]
BY DEF Call

\* Which part of the prepaint a call is in.
LEMMA FirstHead ==
  ASSUME WindowInv, SeenInv, phase = "prepaint", todo # <<>>,
         Call.do \in {"layout", "end cached"} \/ (Call.do = "prepaint" /\ Call.view \notin fresh)
  PROVE  /\ First /\ 1 \in DOMAIN todo /\ Call = todo[1] /\ Call.view \in Views
         /\ todo \in Seq(PrepaintStack(Len(draws)))
<1>1. /\ todo \in Seq(PrepaintStack(Len(draws))) /\ Len(todo) \in Nat /\ DOMAIN todo = 1..Len(todo)
      /\ \A i \in DOMAIN todo : todo[i].do \in {"layout", "prepaint", "defer", "end cached"} => todo[i].view \in Views
  BY PrepaintTodo
<1>2. 1 \in DOMAIN todo /\ Call = todo[1]
  <2> HIDE DEF SeenInv
  <2>1. Len(todo) # 0
    BY <1>1, EmptySeq
  <2>2. 1 \in 1..Len(todo)
    BY <1>1, <2>1, OneOf
  <2> QED BY <1>1, <2>2, HeadCall
<1>3. Call.view \in Views
  BY <1>1, <1>2
<1>4. ASSUME ~First PROVE FALSE
  <2>1. /\ Len(todo) \in Calls("end prepaint")
        /\ \A i \in DOMAIN todo \ {Len(todo)} : todo[i].do \in {"prepaint", "defer", "deferred", "end deferred"}
    BY <1>4 DEF SeenInv, StackOK
  <2>2. Call.do \in {"prepaint", "defer", "deferred", "end deferred", "end prepaint"}
    BY <1>2, <2>1 DEF Calls
  <2>3. Call.do = "prepaint" /\ Call.view \notin fresh
    BY <2>2
  <2>4. 1 \in Calls("prepaint")
    BY <1>2, <2>3 DEF Calls
  <2> QED BY <1>2, <1>4, <2>3, <2>4 DEF SeenInv, PendingOK
<1> QED BY <1>1, <1>2, <1>3, <1>4

\* A view is rendered, with what is in it and not cached.
LEMMA LayoutSeen == ASSUME ReadsApart, WindowInv, SeenInv, Layout PROVE SeenInv'
<1> DEFINE v == Call.view
           vs == RenderedWith(v, state)
<1>1. /\ phase = "prepaint" /\ First /\ 1 \in DOMAIN todo /\ Call = todo[1] /\ v \in Views /\ todo # <<>>
      /\ todo \in Seq(PrepaintStack(Len(draws))) /\ Call.do = "layout"
  <2>1. phase = "prepaint" /\ todo # <<>> /\ Call.do = "layout"
    BY InPrepaint DEF Layout, Calling
  <2> QED BY <2>1, FirstHead
<1>2. fresh \cap Sub(v) = {} /\ v \in Cached \cup {Root}
  <2>1. 1 \in Calls("layout")
    BY <1>1 DEF Calls
  <2> QED BY <1>1, <2>1 DEF SeenInv, StackOK
<1>3. /\ vs \subseteq Sub(v) /\ v \in vs /\ vs \subseteq Views /\ v \in Sub(v)
      /\ \A u \in vs : Inside(u, state) \ Cached \subseteq vs
      /\ \A w \in Cached : vs \cap Sub(w) # {} => v \in Sub(w)
  <2>1. state \in [Views -> 0..1]
    BY DrawTypes
  <2> QED BY <1>1, <2>1, RenderedIs, RenderedWithin, RenderedAre, SubIs
<1>4. /\ built' = [u \in Views |-> IF u \in vs THEN state[u] ELSE built[u]]
      /\ owed' = [u \in Views |-> IF u \in vs THEN "no" ELSE owed[u]]
      /\ accessed' = accessed \cup vs \cup UNION {Reads[u][state[u]] : u \in vs}
      /\ fresh' = fresh \cup vs
      /\ todo' = Tail(todo)
      /\ UNCHANGED <<invalidatorVars, marked, refreshing, rendered, next, draws>>
  BY DEF Layout
<1>5. fresh \subseteq Views /\ accessed \subseteq Views /\ IsWindowFrame(next)
  BY DrawTypes
<1> HIDE DEF v, vs
<1>6. \A u \in Views : Unseen(u)' => Unseen(u) /\ u \notin vs
  BY <1>4 DEF Unseen, invalidatorVars
<1>7. Goes(<<>>, <<>>)
  <2>1. More(next', next, <<>>, <<>>)
    BY <1>4, <1>5, NoLonger DEF Longer
  <2>2. Kept(rendered', rendered)
    BY <1>4 DEF Kept
  <2>3. \A p \in fresh : built'[p] = built[p]
    BY <1>2, <1>3, <1>4, <1>5
  <2> QED BY <1>4, <1>6, <2>1, <2>2, <2>3 DEF Goes
\* What is read is in the same cached views that read it.
<1>8. ASSUME NEW w \in Top, (accessed' \ accessed) \cap Sub(w) # {} PROVE v \in Sub(w)
  <2>1. w \in Cached
    BY TopIs
  <2>2. PICK x : x \in accessed' /\ x \notin accessed /\ x \in Sub(w)
    BY <1>8
  <2>3. CASE x \in vs
    BY <1>3, <2>1, <2>2, <2>3
  <2>4. CASE \E u \in vs : x \in Reads[u][state[u]]
    <3>1. PICK u \in vs : x \in Reads[u][state[u]]
      BY <2>4
    <3>2. u \in Views /\ state[u] \in 0..1
      BY <1>3, DrawTypes
    <3>3. Holders[x] \cap Cached \subseteq Holders[u]
      BY <3>1, <3>2 DEF ReadsApart
    <3>4. u \in Sub(w)
      BY <2>1, <2>2, <3>2, <3>3 DEF Sub
    <3> QED BY <1>3, <2>1, <3>1, <3>4
  <2> QED BY <1>4, <2>2, <2>3, <2>4
<1>9. FirstStep(v, <<>>, <<>>, <<>>, <<>>)
  <2>1. Longer(next', next, <<>>, <<>>, <<>>)
    BY <1>4, <1>5, NoLonger
  <2>2. todo' = <<>> \o Tail(todo)
    <3> DEFINE S == PrepaintStack(Len(draws))
    <3>1. todo \in Seq(S) /\ todo # <<>>
      BY <1>1
    <3> HIDE DEF S
    <3>2. Tail(todo) \in Seq(S)
      BY <3>1, Called
    <3> QED BY <1>4, <3>2, NoNewCalls
  <2>3. fresh' \ fresh \subseteq Sub(v) /\ v \in fresh'
    BY <1>3, <1>4
  <2>4. \A w \in Cached : (fresh' \ fresh) \cap Sub(w) # {} => v \in Sub(w)
    BY <1>3, <1>4
  <2>5. phase' = phase
    BY <1>4 DEF invalidatorVars
  <2> QED BY <1>1, <1>4, <1>7, <1>8, <2>1, <2>2, <2>3, <2>4, <2>5, Empties DEF FirstStep, Seen, v
<1>10. FreshOK'
  <2>1. /\ ViewsIn(next.items) \cup fresh \subseteq accessed
        /\ \A u \in fresh : Inside(u, built) \ Cached \subseteq fresh
        /\ Seen(ViewsIn(next.items) \cup fresh)
    BY <1>1 DEF SeenInv, FreshOK, Drawing
  <2>2. ASSUME NEW u \in fresh' PROVE Inside(u, built') \ Cached \subseteq fresh'
    <3>1. CASE u \in vs
      <4>1. built'[u] = state[u]
        BY <1>3, <1>4, <3>1
      <4>2. Inside(u, built') = Inside(u, state)
        BY <4>1 DEF Inside
      <4> QED BY <1>3, <1>4, <3>1, <4>2
    <3>2. CASE u \in fresh /\ u \notin vs
      <4>1. built'[u] = built[u]
        BY <1>4, <1>5, <3>2
      <4>2. Inside(u, built') = Inside(u, built)
        BY <4>1 DEF Inside
      <4> QED BY <1>4, <2>1, <3>2, <4>2
    <3> QED BY <1>4, <3>1, <3>2
  <2>3. ViewsIn(next'.items) \cup fresh' \subseteq accessed'
    BY <1>4, <2>1
  <2>4. Seen(ViewsIn(next.items) \cup fresh)'
    <3>1. ASSUME NEW x \in ViewsIn(next'.items) \cup fresh' PROVE ~Unseen(x)'
      <4>1. x \in Views /\ (x \in vs \/ ~Unseen(x))
        BY <1>3, <1>4, <1>5, <2>1, <3>1 DEF Seen
      <4> QED BY <1>6, <4>1
    <3> QED BY <3>1 DEF Seen
  <2> QED BY <2>2, <2>3, <2>4 DEF FreshOK
<1>11. StackOK' /\ EndsOK' /\ PendingOK'
  BY <1>1, <1>9, Empties, FirstStack, FirstEnds, FirstPending DEF SeenInv
<1>12. DeferredOK'
  BY <1>1, <1>9, Empties, FirstDeferred DEF SeenInv
<1>13. CachesOK'
  <2>1. \A c \in Top \cap WithState(next') :
          c \in WithState(next) /\ next'.states[CacheKey(c)] = next.states[CacheKey(c)]
    BY <1>4
  <2> QED BY <1>1, <1>9, <2>1, FirstCaches DEF SeenInv
<1> QED BY <1>1, <1>9, <1>10, <1>11, <1>12, <1>13, FirstKeeps

\* The calls that prepaint what is in a view.
LEMMA CallsIn ==
  ASSUME WindowInv, NEW v \in Views, NEW calls, calls = PrepaintCalls(v)
  PROVE  /\ \A n \in DOMAIN calls :
              /\ n \in DOMAIN Children[v][built[v]] /\ calls[n].view = Children[v][built[v]][n].view
              /\ calls[n].do = IF Children[v][built[v]][n].deferred THEN "defer" ELSE "prepaint"
              /\ calls[n].view \in Views /\ Holds(v, calls[n].view)
              /\ calls[n].view \in Inside(v, built)
              /\ calls[n].view \in Sub(v) /\ Sub(calls[n].view) \subseteq Sub(v)
              /\ v \notin Sub(calls[n].view) /\ calls[n].view # v
         /\ \A m, n \in DOMAIN calls : m # n =>
              Sub(calls[m].view) \cap Sub(calls[n].view) = {}
<1> DEFINE in == Children[v][built[v]]
           list == [n \in DOMAIN in |-> [do |-> IF in[n].deferred THEN "defer" ELSE "prepaint", view |-> in[n].view]]
<1>1. built \in [Views -> 0..1] /\ built[v] \in 0..1
  BY DrawTypes
<1>2. calls = list
  BY DEF PrepaintCalls
<1>3. ASSUME NEW n \in DOMAIN in
      PROVE  /\ list[n].view = in[n].view /\ list[n].do = IF in[n].deferred THEN "defer" ELSE "prepaint"
             /\ in[n].view \in Views /\ Holds(v, in[n].view) /\ in[n].view \in Inside(v, built)
             /\ in[n].view \in Sub(v) /\ Sub(in[n].view) \subseteq Sub(v) /\ v \notin Sub(in[n].view)
                /\ in[n].view # v
  <2>1. in[n].view \in Inside(v, built) /\ in[n] \in Nested /\ Holds(v, in[n].view)
    BY <1>1, <1>3, InsideHolds
  <2>2. in[n].view \in Views
    BY <2>1 DEF Nested
  <2>3. list[n].view = in[n].view /\ list[n].do = IF in[n].deferred THEN "defer" ELSE "prepaint"
    OBVIOUS
  <2>4. in[n].view \in Sub(v) /\ Sub(in[n].view) \subseteq Sub(v) /\ v \notin Sub(in[n].view)
        /\ in[n].view # v
    BY <2>1, <2>2, ChildSub
  <2> QED BY <2>1, <2>2, <2>3, <2>4, ZenonT(30)
<1>4. ASSUME NEW m \in DOMAIN in, NEW n \in DOMAIN in, m # n PROVE Sub(in[m].view) \cap Sub(in[n].view) = {}
  <2>1. in[m].view \in Views /\ in[n].view \in Views
    BY <1>3
  <2> QED BY <1>1, <1>4, <2>1, SiblingsApart
<1>5. DOMAIN list = DOMAIN in
  OBVIOUS
<1>6. \A m, n \in DOMAIN list : m # n => Sub(list[m].view) \cap Sub(list[n].view) = {}
  BY <1>3, <1>4, <1>5, SMTT(30)
<1> HIDE DEF list
<1> QED BY <1>2, <1>3, <1>5, <1>6

\* A view that is prepainted leads to what is in it.
LEMMA ReachesIn ==
  ASSUME WindowInv, NEW v \in Views, v \in fresh, Reached(v), NEW n \in DOMAIN Children[v][built[v]],
         ~Children[v][built[v]][n].deferred, NEW u \in Views, u = Children[v][built[v]][n].view
  PROVE  Reached(u)
<1>1. Holds(v, u)
  BY DrawTypes, InsideHolds
<1>2. Holders[u] = Holders[v] \cup {u} /\ u \notin Holders[v]
  BY <1>1, ChildHolders
<1>3. u \in Holders[u]
  BY <1>2
<1>4. ASSUME NEW p \in Holders[u] \ {u}
      PROVE  p \in fresh /\ \E m \in DOMAIN Children[p][built[p]] :
               ~Children[p][built[p]][m].deferred /\ Children[p][built[p]][m].view \in Holders[u]
  <2>1. CASE p = v
    BY <1>3, <2>1, SMTT(30)
  <2>2. CASE p # v
    <3>1. p \in Holders[v] \ {v}
      BY <1>2, <1>4, <2>2
    <3> QED BY <1>2, <3>1 DEF Reached
  <2> QED BY <2>1, <2>2
<1> QED BY <1>2, <1>4, ZenonT(30) DEF Reached

\* What is cached in a view is in none that is deferred in it.
LEMMA DeferredApart ==
  ASSUME NothingCachedDeferred, WindowInv, NEW v \in Views, NEW n \in DOMAIN Children[v][built[v]],
         Children[v][built[v]][n].deferred
  PROVE  Sub(Children[v][built[v]][n].view) \cap Cached = {}
<1>1. built[v] \in 0..1
  BY DrawTypes
<1> QED BY <1>1 DEF NothingCachedDeferred, Sub

\* What a prepaint of elements does to the frames.
LEMMA PrepaintElementGoes ==
  ASSUME WindowInv, FreshOK, phase = "prepaint", PrepaintElement
  PROVE  /\ Call.view \in Views /\ Call.view \in fresh /\ Call.do = "prepaint" /\ todo # <<>>
         /\ Longer(next', next, Shows(Call.view, built[Call.view]), <<ElementKey(Call.view)>>, <<>>)
         /\ Goes(Shows(Call.view, built[Call.view]), <<ElementKey(Call.view)>>)
         /\ ViewsIn(Shows(Call.view, built[Call.view])) = {Call.view}
            /\ All(<<ElementKey(Call.view)>>) = {ElementKey(Call.view)}
         /\ \A u \in Views : /\ CacheKey(u) # ElementKey(Call.view)
                             /\ CacheKey(u) \in DOMAIN next'.states <=> CacheKey(u) \in DOMAIN next.states
                             /\ CacheKey(u) \in DOMAIN next.states => next'.states[CacheKey(u)] = next.states[CacheKey(u)]
         /\ todo' = PrepaintCalls(Call.view) \o Tail(todo)
         /\ PrepaintCalls(Call.view) \in Seq(PrepaintStack(Len(draws)))
         /\ FreshOK' /\ phase' = "prepaint"
         /\ UNCHANGED <<marked, refreshing, accessed, built, fresh, draws>>
<1> DEFINE v == Call.view
<1>1. /\ v \in fresh /\ next' = Prepainted(next, v) /\ rendered' = Without(rendered, ElementKey(v))
      /\ todo' = PrepaintCalls(v) \o Tail(todo) /\ Call.do = "prepaint" /\ todo # <<>>
      /\ UNCHANGED <<invalidatorVars, marked, refreshing, accessed, built, fresh, draws, owed>>
  BY DEF PrepaintElement, Calling
<1>2. /\ IsWindowFrame(next) /\ IsWindowFrame(rendered) /\ built \in [Views -> 0..1]
         /\ fresh \subseteq Views
      /\ v \in Views /\ Len(draws) \in Nat
  <2>1. Len(draws) \in Nat
    BY PrepaintTodo
  <2> QED BY <1>1, <2>1, DrawTypes
<1> HIDE DEF v
<1>3. /\ Longer(next', next, Shows(v, built[v]), <<ElementKey(v)>>, <<>>)
      /\ StatesBut(next', next, ElementKey(v))
  BY <1>1, <1>2, PrepaintedLists
<1>4. Kept(rendered', rendered)
  <2>1. /\ rendered'.items = rendered.items /\ rendered'.keys = rendered.keys
           /\ rendered'.deferred = rendered.deferred
        /\ StatesBut(rendered', rendered, ElementKey(v)) /\ ElementKey(v) \notin DOMAIN rendered'.states
    BY <1>1, <1>2, WithoutStates
  <2> QED BY <2>1 DEF Kept, StatesBut
<1>5. \A u \in Views : Unseen(u)' => Unseen(u)
  BY <1>1 DEF Unseen, invalidatorVars
<1>6. Goes(Shows(v, built[v]), <<ElementKey(v)>>)
  BY <1>1, <1>3, <1>4, <1>5 DEF Goes, Longer
<1>7. ViewsIn(Shows(v, built[v])) = {v}
  <2>1. built[v] \in 0..1
    BY <1>2
  <2> QED BY <1>2, <2>1, ShowsIs
<1>8. All(<<ElementKey(v)>>) = {ElementKey(v)}
  BY DEF All
<1>9. \A u \in Views : CacheKey(u) # ElementKey(v)
  BY <1>2, KeysDiffer
<1>10. phase' = phase
  BY <1>1 DEF invalidatorVars
<1>11. PrepaintCalls(v) \in Seq(PrepaintStack(Len(draws)))
  BY <1>2, CallsOfPrepaint
<1>12. FreshOK'
  <2>1. v \in accessed' /\ ~Unseen(v)
    BY <1>1 DEF FreshOK, Drawing, Seen
  <2>2. Drawing
    BY DEF Drawing
  <2> QED BY <1>1, <1>2, <1>6, <1>7, <2>1, <2>2, FreshStays DEF Seen
<1> QED BY <1>1, <1>2, <1>3, <1>6, <1>7, <1>8, <1>9, <1>10, <1>11, <1>12 DEF v, StatesBut

\* A rendered view is prepainted, in the first part of the prepaint.
LEMMA PrepaintElementFirst ==
  ASSUME NothingCachedDeferred, WindowInv, SeenInv, First, PrepaintElement PROVE SeenInv'
<1>0. PICK v, I, K, new : v = Call.view /\ I = Shows(v, built[v]) /\ K = <<ElementKey(v)>>
                          /\ new = PrepaintCalls(v)
  OBVIOUS
<1>1. /\ phase = "prepaint" /\ v \in Views /\ v \in fresh /\ Call.do = "prepaint" /\ todo # <<>>
      /\ Longer(next', next, I, K, <<>>) /\ Goes(I, K) /\ ViewsIn(I) = {v} /\ All(K) = {ElementKey(v)}
      /\ \A u \in Views : /\ CacheKey(u) # ElementKey(v)
                          /\ CacheKey(u) \in DOMAIN next'.states <=> CacheKey(u) \in DOMAIN next.states
                          /\ CacheKey(u) \in DOMAIN next.states => next'.states[CacheKey(u)] = next.states[CacheKey(u)]
      /\ todo' = new \o Tail(todo) /\ new \in Seq(PrepaintStack(Len(draws)))
      /\ FreshOK' /\ phase' = "prepaint"
      /\ UNCHANGED <<marked, refreshing, accessed, built, fresh, draws>>
  <2>1. phase = "prepaint" /\ FreshOK
    BY DEF First, SeenInv
  <2> QED BY <1>0, <2>1, PrepaintElementGoes
<1>2. /\ \A n \in DOMAIN new :
           /\ n \in DOMAIN Children[v][built[v]] /\ new[n].view = Children[v][built[v]][n].view
           /\ new[n].do = IF Children[v][built[v]][n].deferred THEN "defer" ELSE "prepaint"
           /\ new[n].view \in Views /\ Holds(v, new[n].view)
           /\ new[n].view \in Inside(v, built) /\ new[n].view \in Sub(v)
              /\ Sub(new[n].view) \subseteq Sub(v)
           /\ v \notin Sub(new[n].view) /\ new[n].view # v
      /\ \A m, n \in DOMAIN new : m # n => Sub(new[m].view) \cap Sub(new[n].view) = {}
  <2>1. v \in Views /\ new = PrepaintCalls(v)
    BY <1>0, <1>1
  <2> QED BY <2>1, CallsIn
<1>3. /\ v \in Sub(v) /\ v \in accessed /\ ~Unseen(v) /\ Inside(v, built) \ Cached \subseteq fresh
      /\ Top \subseteq Cached /\ Cached \subseteq Views
  <2>1. v \in accessed /\ ~Unseen(v) /\ Inside(v, built) \ Cached \subseteq fresh
    BY <1>1 DEF SeenInv, FreshOK, Drawing, Seen
  <2> QED BY <1>1, <2>1, SubIs, TopIs
<1>4. FirstStep(v, I, K, <<>>, new)
  <2>1. \A x \in All(new) : x.do \in {"defer", "prepaint"} /\ x.view \in Sub(v)
    BY <1>2 DEF All
  <2>2. \A c \in Top : CacheKey(c) \notin All(K)
    BY <1>1, <1>3
  <2>3. /\ phase' = phase /\ draws' = draws /\ marked' = marked /\ refreshing' = refreshing
        /\ fresh' = fresh /\ accessed' = accessed
    BY <1>1
  <2>4. Call.view = v
    BY <1>0
  <2>5. Seen(ViewsIn(I)) /\ ViewsIn(I) \subseteq accessed' /\ ViewsIn(I) \subseteq Sub(v)
    BY <1>1, <1>3 DEF Seen
  <2> QED BY <1>1, <2>1, <2>2, <2>3, <2>4, <2>5, Empties DEF FirstStep
<1>5. Moves(new) /\ First'
  BY <1>4, FirstCalls, FirstDraws
<1>6. \A j \in DOMAIN new : new[j].do # "layout" /\ new[j].do # "end cached"
  BY <1>2
<1>7. StackOK' /\ EndsOK'
  BY <1>4, <1>6, FirstStack, FirstEnds DEF SeenInv
<1>8. ASSUME NEW j \in DOMAIN new, new[j].do = "defer"
      PROVE  new[j].view \in fresh' /\ Sub(new[j].view) \cap Cached = {}
  <2>1. Children[v][built[v]][j].deferred
    BY <1>2, <1>8
  <2>2. Sub(new[j].view) \cap Cached = {}
    BY <1>1, <1>2, <2>1, DeferredApart
  <2>3. new[j].view \in Sub(new[j].view)
    BY <1>2, SubIs
  <2> QED BY <1>1, <1>2, <1>3, <2>2, <2>3
<1>9. FirstPendingOK(1, v)
  <2>1. 1 \in Calls("prepaint") /\ todo[1].view = v
    BY <1>0, <1>1, <1>5 DEF Moves, Calls
  <2> QED BY <1>1, <2>1 DEF SeenInv, PendingOK
\* What is cached in v was not rendered with it.
<1>10. ASSUME NEW w \in Cached, w \in Sub(v), w # v
       PROVE  NotYet(w)' /\ NotYet(w)
  <2>1. NotYet(w)
    BY <1>9, <1>10 DEF FirstPendingOK
  <2>2. w \in Views
    BY <1>3
  <2> QED BY <1>1, <2>1, <2>2 DEF NotYet
<1>11. \A u : ~LaidOutNext(u)'
  <2>1. ASSUME NEW u, LaidOutNext(u)' PROVE FALSE
    <3>1. todo' # <<>> /\ Call'.do = "layout" /\ Call'.view = u
      BY <2>1 DEF LaidOutNext, Calling
    <3>2. Call' = todo'[1] /\ 1 \in DOMAIN todo'
      <4> DEFINE S == PrepaintStack(Len(draws))
      <4>1. todo \in Seq(S) /\ todo # <<>> /\ new \in Seq(S)
        BY <1>1, PrepaintTodo
      <4> HIDE DEF S
      <4>2. todo' \in Seq(S)
        BY <1>1, <4>1, Called, Pushed
      <4>3. Len(todo') # 0 /\ Len(todo') \in Nat /\ DOMAIN todo' = 1..Len(todo')
        BY <3>1, <4>2, EmptySeq
      <4>4. 1 \in DOMAIN todo'
        BY <4>3, OneOf
      <4> QED BY <3>1, <4>4 DEF Call
    <3>3. 1 \in Calls("layout")'
      BY <3>1, <3>2 DEF Calls
    <3>4. 2 \in Calls("prepaint")' /\ todo'[2].view = todo'[1].view
      BY <1>1, <1>7, <3>3 DEF StackOK
    <3>5. 1 \in DOMAIN new \/ \E o \in Calls("layout") : o \in 2..Len(todo)
      BY <1>5, <1>6, <3>3 DEF Moves
    <3>6. \A o \in Calls("layout") : o = 1
      BY <1>1 DEF SeenInv, StackOK
    <3>7. \A o \in 2..Len(todo) : o # 1
      BY <1>5, FromTwo DEF Moves
    <3>8. 1 \in DOMAIN new
      BY <3>5, <3>6, <3>7
    <3>9. todo'[1] = new[1]
      BY <1>5, <3>8 DEF Moves
    <3> QED BY <1>6, <3>1, <3>2, <3>8, <3>9
  <2> QED BY <2>1
<1>12. ASSUME NEW j \in DOMAIN new, new[j].do = "prepaint", NEW u, u = new[j].view
       PROVE  FirstPendingOK(j, u)'
  <2>1. ~Children[v][built[v]][j].deferred /\ u \in Views /\ u \in Sub(v) /\ u # v /\ v \notin Sub(u)
    BY <1>2, <1>12
  <2>2. u \in Cached \/ Started(u)'
    BY <1>1, <1>2, <1>3, <1>12 DEF Started
  <2>3. Reached(u)'
    <3>1. Reached(v)
      BY <1>9 DEF FirstPendingOK
    <3>2. Reached(u)
      BY <1>1, <1>2, <1>12, <2>1, <3>1, ReachesIn
    <3> QED BY <1>1, <2>1, <3>2, ReachedStays
  <2>4. ASSUME NEW w \in Cached \cap Holders[u], w = u => Started(w)'
        PROVE  \E i \in EndCalls' : i > j /\ todo'[i].view = w
    <3>1. w # u
      <4>1. ASSUME w = u PROVE FALSE
        <5>1. fresh \cap Sub(u) = {} /\ u \in Sub(u)
          BY <1>10, <2>1, <2>4, <4>1, SubIs DEF NotYet
        <5> QED BY <1>1, <1>11, <2>4, <4>1, <5>1 DEF Started
      <4> QED BY <4>1
    <3>2. w \in Holders[v]
      <4>1. Holders[u] = Holders[v] \cup {u}
        BY <1>1, <1>2, <1>12, <2>1, ChildHolders
      <4> QED BY <2>4, <3>1, <4>1
    <3>3. PICK i \in EndCalls : i > 1 /\ todo[i].view = w
      BY <1>1, <1>9, <2>4, <3>2 DEF FirstPendingOK, Started
    <3>4. i \in DOMAIN todo
      BY <1>4, <3>3, FirstCalls
    <3>5. i \in 2..Len(todo) /\ i # 1
      BY <1>5, <3>3, <3>4 DEF Moves
    <3>6. Len(new) + i - 1 \in EndCalls' /\ todo'[Len(new) + i - 1] = todo[i]
      BY <1>5, <3>3, <3>5 DEF Moves, EndCalls
    <3>7. Len(new) + i - 1 > j
      <4>1. j \in 1..Len(new) /\ Len(new) \in Nat /\ i \in Nat
        BY <1>5, <3>5 DEF Moves
      <4> QED BY <3>3, <4>1
    <3> QED BY <3>3, <3>6, <3>7
  <2>5. ASSUME NEW w \in Cached \cap Sub(u) PROVE NotYet(w)'
    <3>1. w \in Sub(v) /\ w # v
      BY <1>2, <1>12, <2>1, <2>5
    <3> QED BY <1>10, <3>1
  <2> QED BY <2>2, <2>3, <2>4, <2>5 DEF FirstPendingOK
<1>13. PendingOK'
  <2>1. ASSUME NEW j \in DOMAIN new, new[j].do = "prepaint" PROVE FirstPendingOK(j, new[j].view)'
    <3>1. PICK u : u = new[j].view
      OBVIOUS
    <3>2. FirstPendingOK(j, u)'
      BY <1>12, <2>1, <3>1
    <3> QED BY <3>1, <3>2
  <2> QED BY <1>2, <1>4, <1>8, <2>1, FirstPending DEF SeenInv
<1>14. DeferredOK'
  BY <1>4, Empties, FirstDeferred DEF SeenInv
<1>15. CachesOK'
  <2>1. \A c \in Top \cap WithState(next') :
          c \in WithState(next) /\ next'.states[CacheKey(c)] = next.states[CacheKey(c)]
    BY <1>1 DEF WithState
  <2> QED BY <1>4, <2>1, FirstCaches DEF SeenInv
<1> QED BY <1>1, <1>4, <1>7, <1>13, <1>14, <1>15, FirstKeeps

\* Nothing of a list is in an empty range.
LEMMA NoPart == \A list \in Seq(Entry) \cup Seq(StateKeys) : Part(list, 0, 0) = {}
<1>1. ASSUME NEW list \in Seq(Entry) \cup Seq(StateKeys), NEW m \in DOMAIN list PROVE ~(0 < m /\ m <= 0)
  <2>1. m \in Nat
    OBVIOUS
  <2> QED BY <2>1
<1> QED BY <1>1 DEF Part

\* A cached view was rendered and prepainted: its cache is kept.
LEMMA EndCachedSeen == ASSUME WindowInv, SeenInv, EndCached PROVE SeenInv'
<1>1. PICK v, e, k : v = e.view /\ e = Call /\
        k = [from |-> e.from, to |-> Index(next), accessed |-> accessed \ e.accessed,
             paintFrom |-> PaintIndex(NoFrame), paintTo |-> PaintIndex(NoFrame)]
  OBVIOUS
<1>2. /\ phase = "prepaint" /\ First /\ 1 \in DOMAIN todo /\ e = todo[1] /\ v \in Views /\ todo # <<>>
      /\ todo \in Seq(PrepaintStack(Len(draws))) /\ Call.do = "end cached" /\ Call.view = v
  <2>1. phase = "prepaint" /\ todo # <<>> /\ Call.do = "end cached"
    BY InPrepaint DEF EndCached, Calling
  <2> QED BY <1>1, <2>1, FirstHead
<1>3. EndOK(1, e, v) /\ 1 \in EndCalls
  <2>1. 1 \in EndCalls
    BY <1>1, <1>2 DEF Calls, EndCalls
  <2> QED BY <1>1, <1>2, <2>1 DEF SeenInv, EndsOK
<1>4. /\ next' = With(next, CacheKey(v), k) /\ refreshing' = e.refreshing /\ todo' = Tail(todo)
      /\ UNCHANGED <<invalidatorVars, marked, rendered, accessed, built, fresh, draws, owed>>
  BY <1>1 DEF EndCached
<1>5. fresh \subseteq Views /\ accessed \subseteq Views /\ IsWindowFrame(next) /\ e.from \in FramePlaces
  BY <1>1, <1>2, DrawTypes, PrepaintTodo
<1>6. /\ next'.items = next.items /\ next'.keys = next.keys /\ next'.deferred = next.deferred
      /\ CacheKey(v) \in DOMAIN next'.states /\ next'.states[CacheKey(v)] = k
      /\ \A u \in Views : u # v => /\ CacheKey(u) \in DOMAIN next'.states <=> CacheKey(u) \in DOMAIN next.states
                                   /\ CacheKey(u) \in DOMAIN next.states => next'.states[CacheKey(u)] = next.states[CacheKey(u)]
  <2>1. /\ next'.items = next.items /\ next'.keys = next.keys /\ next'.deferred = next.deferred
        /\ StatesBut(next', next, CacheKey(v)) /\ CacheKey(v) \in DOMAIN next'.states
           /\ next'.states[CacheKey(v)] = k
    BY <1>4, <1>5, WithStates
  <2>2. \A u \in Views : u # v => CacheKey(u) # CacheKey(v)
    BY <1>2, KeysDiffer
  <2> QED BY <2>1, <2>2 DEF StatesBut
<1>7. Goes(<<>>, <<>>) /\ Longer(next', next, <<>>, <<>>, <<>>)
  <2>1. Longer(next', next, <<>>, <<>>, <<>>)
    BY <1>5, <1>6, NoLonger
  <2>2. Kept(rendered', rendered)
    BY <1>4 DEF Kept
  <2>3. \A u \in Views : Unseen(u)' => Unseen(u)
    BY <1>4 DEF Unseen, invalidatorVars
  <2> QED BY <1>4, <2>1, <2>2, <2>3 DEF Goes, Longer
<1>8. FirstStep(v, <<>>, <<>>, <<>>, <<>>)
  <2>1. todo' = <<>> \o Tail(todo)
    <3> DEFINE S == PrepaintStack(Len(draws))
    <3>1. todo \in Seq(S) /\ todo # <<>>
      BY <1>2
    <3> HIDE DEF S
    <3>2. Tail(todo) \in Seq(S)
      BY <3>1, Called
    <3> QED BY <1>4, <3>2, NoNewCalls
  <2>2. phase' = phase
    BY <1>4 DEF invalidatorVars
  <2>3. \A u \in Views : CacheKey(u) \in DOMAIN next'.states => CacheKey(u) \in DOMAIN next.states \/ u = v
    BY <1>6
  <2> QED BY <1>1, <1>2, <1>4, <1>7, <2>1, <2>2, <2>3, Empties DEF FirstStep, Seen
<1>9. FreshOK'
  <2>1. Drawing /\ FreshOK
    BY <1>2 DEF Drawing, SeenInv
  <2> QED BY <1>4, <1>7, <2>1, Empties, FreshStays DEF Seen
<1>10. StackOK' /\ EndsOK' /\ PendingOK'
  BY <1>2, <1>8, Empties, FirstStack, FirstEnds, FirstPending DEF SeenInv
<1>11. DeferredOK'
  BY <1>2, <1>8, Empties, FirstDeferred DEF SeenInv
<1>12. /\ First' /\ phase' = "prepaint" /\ DrawList = next.deferred /\ DrawList' = next'.deferred
       /\ \A n \in DOMAIN next.deferred : n \in DOMAIN next'.deferred /\ SameDraw(n)
                                          /\ DrawList[n] \in DeferredDraws
       /\ \A c : CacheInNext(c)' <=> c \in fresh'
  BY <1>2, <1>8, FirstDraws
\* What was read since it began is its own, and so is what it was read for.
<1>13. ASSUME v \in Top PROVE CacheOK(v, k)'
  <2>1. EndTopOK(e, v) /\ v \in fresh
    <3>1. EndTopOK(e, v) /\ Started(v)
      BY <1>3, <1>13 DEF EndOK
    <3> QED BY <1>2, <3>1 DEF Started, LaidOutNext, Calling
  <2>2. ViewsIn(next.items) \cup fresh \subseteq accessed
    BY <1>2 DEF SeenInv, FreshOK, Drawing
  <2>3. /\ k.from = e.from /\ k.to = Index(next) /\ k.accessed = accessed \ e.accessed
        /\ k.paintFrom = PaintIndex(NoFrame) /\ k.paintTo = PaintIndex(NoFrame)
    BY <1>1
  <2>4. /\ k.to.items = Len(next.items) /\ k.to.keys = Len(next.keys) /\ k.to.deferred = Len(next.deferred)
        /\ k.paintFrom.keys = 0 /\ k.paintTo.keys = 0
    BY <2>3, Empties DEF Index, PaintIndex, NoFrame
  <2>5. /\ ItemsOf(next', k) = ItemsAfter(next, e.from.items)
           /\ KeysOf(next', k) = KeysAfter(next, e.from.keys)
    BY <1>6, <2>3, <2>4 DEF ItemsOf, KeysOf, ItemsAfter, KeysAfter
  <2>6. ItemsAfter(next, e.from.items) \subseteq Sub(v) \cap k.accessed
    <3>1. ItemsAfter(next, e.from.items) \subseteq ViewsIn(next.items)
      BY <1>5, RangedIs, RangeWithin
    <3> QED BY <2>1, <2>2, <2>3, <3>1 DEF EndTopOK
  <2>7. fresh' \cap Sub(v) \subseteq k.accessed /\ k.accessed \subseteq accessed'
    BY <1>4, <2>1, <2>2, <2>3 DEF EndTopOK
  <2>8. Apart(k.accessed, v) /\ NoTops(KeysOf(next', k))
    BY <2>1, <2>3, <2>5 DEF EndTopOK
  <2>9. k.to.items <= Len(next'.items) /\ k.to.keys <= Len(next'.keys) /\ k.to.deferred <= Len(DrawList')
    <3>1. Len(next.items) \in Nat /\ Len(next.keys) \in Nat /\ Len(next.deferred) \in Nat
      BY <1>5, <1>7, AfterGrows DEF Goes
    <3>2. \A i \in Nat : i <= i
      OBVIOUS
    <3> QED BY <1>6, <1>12, <2>4, <3>1, <3>2
  <2>10. ASSUME NEW n \in DeferredOf(DrawList', k)
         PROVE  DrawList'[n].view \in Sub(v) /\ DrawItems(n)' \subseteq Sub(v) \cap k.accessed
    <3>1. n \in DOMAIN next.deferred /\ n > e.from.deferred
      <4>1. n \in DOMAIN next'.deferred /\ k.from.deferred < n
        BY <1>12, <2>10 DEF DeferredOf
      <4>2. n \in Nat /\ k.from.deferred \in Nat
        <5>1. DOMAIN next.deferred = 1..Len(next.deferred)
          BY <1>5, <1>7, AfterGrows DEF Goes
        <5> QED BY <1>5, <1>6, <2>3, <4>1, <5>1, RangedIs
      <4> QED BY <1>6, <2>3, <4>1, <4>2
    <3>2. next.deferred[n].fresh /\ next.deferred[n].view \in Sub(v)
      BY <2>1, <3>1 DEF EndTopOK
    <3>3. DrawOK(n)
      BY <1>2, <1>12, <3>1 DEF SeenInv, DeferredOK, Drawing
    <3>4. DrawItems(n) = {} /\ DrawList'[n] = next.deferred[n]
      BY <1>2, <1>6, <1>12, <3>2, <3>3 DEF DrawOK
    <3>5. DrawItems(n)' = DrawItems(n)
      BY <1>7, <1>12, <3>1, <3>3, DrawStays
    <3> QED BY <3>2, <3>4, <3>5
  <2>11. v \in fresh'
    BY <1>4, <2>1
  <2>12. CachePaintKeys(v, k)' = {}
    <3>1. CacheInNext(v)'
      BY <1>12, <2>11
    <3>2. Part(next'.keys, 0, 0) = {}
      <4>1. next.keys \in Seq(StateKeys)
        BY <1>5 DEF IsWindowFrame
      <4> QED BY <1>6, <4>1, NoPart
    <3> QED BY <2>4, <3>1, <3>2 DEF CachePaintKeys, PaintKeysOf
  <2>13. k.paintTo.keys <= Len(next'.keys)
    <3>1. Len(next.keys) \in Nat
      BY <1>5, <1>7, AfterGrows DEF Goes
    <3> QED BY <1>6, <2>4, <3>1
  <2> QED BY <2>5, <2>6, <2>7, <2>8, <2>9, <2>10, <2>11, <2>12, <2>13 DEF CacheOK, NoTops
<1>14. CachesOK'
  <2>1. ASSUME NEW c \in Top \cap WithState(next')
        PROVE  \/ c \in WithState(next) /\ next'.states[CacheKey(c)] = next.states[CacheKey(c)]
               \/ CacheOK(c, next.states[CacheKey(c)])'
    <3>1. CASE c = v
      <4>1. CacheOK(v, k)' /\ k = next'.states[CacheKey(v)]
        BY <1>6, <1>13, <2>1, <3>1
      <4> QED BY <3>1, <4>1
    <3>2. CASE c # v
      BY <1>6, <2>1, <3>2 DEF WithState
    <3> QED BY <3>1, <3>2
  <2> QED BY <1>2, <1>8, <2>1, FirstCaches DEF SeenInv
<1> QED BY <1>2, <1>8, <1>9, <1>10, <1>11, <1>14, FirstKeeps

\* A list of three.
LEMMA ThreeOf ==
  ASSUME NEW a, NEW b, NEW c, NEW s, s = <<a, b, c>>
  PROVE  DOMAIN s = {1, 2, 3} /\ s[1] = a /\ s[2] = b /\ s[3] = c /\ All(s) = {a, b, c} /\ Len(s) = 3
<1>1. DOMAIN s = 1..3 /\ 1..3 = {1, 2, 3} /\ s[1] = a /\ s[2] = b /\ s[3] = c /\ Len(s) = 3
  OBVIOUS
<1>2. All(s) = {s[1], s[2], s[3]}
  BY <1>1 DEF All
<1> QED BY <1>1, <1>2

\* What ends with the list is in it.
LEMMA Within == \A n \in Nat : n <= n
OBVIOUS

\* Every cached view that a view to be rendered is in has an end to be done, so the draw is refreshing.
LEMMA HeldRefreshes ==
  ASSUME WindowInv, SeenInv, First, NEW i \in Calls("prepaint"), NEW v, v = todo[i].view, ~refreshing,
         ~Started(v)
  PROVE  v \in Top
<1>1. phase = "prepaint" /\ FirstPendingOK(i, v)
  BY DEF SeenInv, PendingOK, First
<1>2. v \in Cached
  BY <1>1 DEF FirstPendingOK
<1>3. EndCalls = {}
  BY <1>1 DEF SeenInv, EndsOK, EndOK
<1>4. \A w \in Cached \cap Holders[v] : w = v
  BY <1>1, <1>3 DEF FirstPendingOK
<1>5. v \in Views
  BY <1>2, TopIs
<1> QED BY <1>2, <1>4, <1>5, HoldersUpward DEF Top

\* What a view puts on the stack that has to be rendered.
LEMMA CachedGoes ==
  ASSUME WindowInv, SeenInv, NEW same \in BOOLEAN, PrepaintCached(same),
         NEW v, v = Call.view, NEW K, K = <<CacheKey(v)>>, NEW start, start = Accesses(next, CacheKey(v))
  PROVE  /\ phase = "prepaint" /\ First /\ 1 \in DOMAIN todo /\ Call = todo[1] /\ v \in Views /\ todo # <<>>
         /\ todo \in Seq(PrepaintStack(Len(draws))) /\ Call.do = "prepaint" /\ v \notin fresh /\ ~Started(v)
         /\ FirstPendingOK(1, v) /\ v \in Cached /\ NotYet(v)
         /\ Goes(<<>>, K) /\ Longer(next', next, <<>>, K, <<>>) /\ All(K) = {CacheKey(v)}
         /\ next'.items = start.items /\ next'.keys = start.keys /\ next'.deferred = start.deferred
         /\ IsWindowFrame(start) /\ IsWindowFrame(next')
         /\ CacheKey(v) \notin DOMAIN next'.states /\ CacheKey(v) \notin DOMAIN rendered'.states
         /\ \A u \in Views : u # v => /\ CacheKey(u) \in DOMAIN next'.states <=> CacheKey(u) \in DOMAIN next.states
                                      /\ CacheKey(u) \in DOMAIN next.states => next'.states[CacheKey(u)] = next.states[CacheKey(u)]
         /\ refreshing' = TRUE /\ phase' = phase
         /\ UNCHANGED <<marked, accessed, built, fresh, draws>>
<1>1. /\ Call.do = "prepaint" /\ todo # <<>> /\ v \notin fresh
      /\ next' = Without(start, CacheKey(v)) /\ rendered' = Without(rendered, CacheKey(v))
      /\ refreshing' = TRUE
      /\ UNCHANGED <<invalidatorVars, marked, accessed, built, fresh, draws, owed>>
  BY DEF PrepaintCached, Calling
<1>2. phase = "prepaint"
  BY <1>1, InPrepaint DEF Calling
<1>3. First /\ 1 \in DOMAIN todo /\ Call = todo[1] /\ v \in Views /\ todo \in Seq(PrepaintStack(Len(draws)))
  BY <1>1, <1>2, FirstHead
<1>4. FirstPendingOK(1, v) /\ ~Started(v)
  <2>1. 1 \in Calls("prepaint") /\ todo[1].view = v
    BY <1>1, <1>3 DEF Calls
  <2>2. ~LaidOutNext(v)
    BY <1>1 DEF LaidOutNext, Calling
  <2> QED BY <1>1, <1>2, <1>3, <2>1, <2>2 DEF SeenInv, PendingOK, Started
<1>5. v \in Cached /\ NotYet(v)
  <2>1. v \in Cached
    BY <1>4 DEF FirstPendingOK
  <2> QED BY <1>3, <1>4, <2>1, SubIs DEF FirstPendingOK
<1>6. IsWindowFrame(next) /\ IsWindowFrame(rendered) /\ CacheKey(v) \in StateKeys
  BY <1>3, DrawTypes, KeysDiffer
<1>7. /\ Longer(start, next, <<>>, K, <<>>) /\ start.states = next.states /\ IsWindowFrame(start)
  BY <1>6, AccessesLists
<1>8. /\ next'.items = start.items /\ next'.keys = start.keys /\ next'.deferred = start.deferred
      /\ StatesBut(next', start, CacheKey(v)) /\ CacheKey(v) \notin DOMAIN next'.states
  BY <1>1, <1>7, WithoutStates
<1>9. Longer(next', next, <<>>, K, <<>>)
  BY <1>7, <1>8 DEF Longer, More
<1>10. /\ rendered'.items = rendered.items /\ rendered'.keys = rendered.keys
          /\ rendered'.deferred = rendered.deferred
       /\ StatesBut(rendered', rendered, CacheKey(v)) /\ CacheKey(v) \notin DOMAIN rendered'.states
  BY <1>1, <1>6, WithoutStates
<1>11. Goes(<<>>, K)
  <2>1. Kept(rendered', rendered)
    BY <1>10 DEF Kept, StatesBut
  <2>2. \A u \in Views : Unseen(u)' => Unseen(u)
    BY <1>1 DEF Unseen, invalidatorVars
  <2> QED BY <1>1, <1>9, <2>1, <2>2 DEF Goes, Longer
<1>12. \A u \in Views : u # v => CacheKey(u) # CacheKey(v)
  BY <1>3, KeysDiffer
<1>13. IsWindowFrame(next')
  BY <1>1, <1>7, WithoutIs DEF LikeFrame
<1>14. All(K) = {CacheKey(v)}
  BY DEF All
<1>15. phase' = phase
  BY <1>1 DEF invalidatorVars
<1> QED BY <1>1, <1>2, <1>3, <1>4, <1>5, <1>7, <1>8, <1>9, <1>10, <1>11, <1>12, <1>13, <1>14,
    <1>15 DEF StatesBut

\* What is cached is cut off from what was there when it begins to be rendered.
LEMMA BeginsTop ==
  ASSUME NEW f, IsWindowFrame(f), NEW e, e.from = Index(f), NEW g, g.items = f.items, g.keys = f.keys,
         g.deferred = f.deferred
  PROVE  /\ e.from.items = Len(g.items) /\ e.from.keys = Len(g.keys) /\ e.from.deferred = Len(g.deferred)
         /\ ItemsAfter(g, e.from.items) = {} /\ KeysAfter(g, e.from.keys) = {}
         /\ \A n \in DOMAIN g.deferred : ~(n > e.from.deferred)
         /\ Len(g.items) \in Nat /\ Len(g.keys) \in Nat /\ Len(g.deferred) \in Nat
<1>1. e.from.items = Len(f.items) /\ e.from.keys = Len(f.keys) /\ e.from.deferred = Len(f.deferred)
  BY DEF Index
<1>2. ItemsAfter(f, Len(f.items)) = {} /\ KeysAfter(f, Len(f.keys)) = {}
  BY RangeWithin
<1>3. Len(f.items) \in Nat /\ Len(f.keys) \in Nat /\ Len(f.deferred) \in Nat
      /\ DOMAIN f.deferred = 1..Len(f.deferred)
  <2>1. More(f, f, <<>>, <<>>)
    BY NoLonger DEF Longer
  <2> QED BY <2>1, AfterGrows
<1>4. \A n \in DOMAIN f.deferred : ~(n > Len(f.deferred))
  BY <1>3
<1> QED BY <1>1, <1>2, <1>3, <1>4 DEF ItemsAfter, KeysAfter

\* A cached view is to be rendered and prepainted.
LEMMA PrepaintCachedSeen == ASSUME WindowInv, SeenInv, NEW same \in BOOLEAN, PrepaintCached(same)
PROVE SeenInv'
<1>1. PICK v, K, start, a, b, e, new :
        /\ v = Call.view /\ K = <<CacheKey(v)>> /\ start = Accesses(next, CacheKey(v))
        /\ a = [do |-> "layout", view |-> v] /\ b = [do |-> "prepaint", view |-> v]
        /\ e = [do |-> "end cached", view |-> v, from |-> Index(start), refreshing |-> refreshing, accessed |-> accessed]
        /\ new = <<a, b, e>>
  OBVIOUS
<1>2. /\ phase = "prepaint" /\ First /\ 1 \in DOMAIN todo /\ Call = todo[1] /\ v \in Views /\ todo # <<>>
      /\ todo \in Seq(PrepaintStack(Len(draws))) /\ Call.do = "prepaint" /\ v \notin fresh /\ ~Started(v)
      /\ FirstPendingOK(1, v) /\ v \in Cached /\ NotYet(v)
      /\ Goes(<<>>, K) /\ Longer(next', next, <<>>, K, <<>>) /\ All(K) = {CacheKey(v)}
      /\ next'.items = start.items /\ next'.keys = start.keys /\ next'.deferred = start.deferred
      /\ IsWindowFrame(start) /\ IsWindowFrame(next')
      /\ CacheKey(v) \notin DOMAIN next'.states /\ CacheKey(v) \notin DOMAIN rendered'.states
      /\ \A u \in Views : u # v => /\ CacheKey(u) \in DOMAIN next'.states <=> CacheKey(u) \in DOMAIN next.states
                                   /\ CacheKey(u) \in DOMAIN next.states => next'.states[CacheKey(u)] = next.states[CacheKey(u)]
      /\ refreshing' = TRUE /\ phase' = phase
      /\ UNCHANGED <<marked, accessed, built, fresh, draws>>
  <2>1. v = Call.view /\ K = <<CacheKey(v)>> /\ start = Accesses(next, CacheKey(v))
    BY <1>1
  <2> QED BY <2>1, CachedGoes
<1>3. DOMAIN new = {1, 2, 3} /\ new[1] = a /\ new[2] = b /\ new[3] = e /\ All(new) = {a, b, e}
      /\ Len(new) = 3
  <2>1. new = <<a, b, e>>
    BY <1>1
  <2> QED BY <2>1, ThreeOf
<1>4. a.do = "layout" /\ a.view = v /\ b.do = "prepaint" /\ b.view = v
  <2>1. a = [do |-> "layout", view |-> v] /\ b = [do |-> "prepaint", view |-> v]
    BY <1>1
  <2> QED BY <2>1
<1>5. e.do = "end cached" /\ e.view = v /\ e.from = Index(start) /\ e.refreshing = refreshing
      /\ e.accessed = accessed
  <2>1. e = [do |-> "end cached", view |-> v, from |-> Index(start), refreshing |-> refreshing, accessed |-> accessed]
    BY <1>1
  <2> QED BY <2>1, Zenon
<1>6. todo' = new \o Tail(todo) /\ new \in Seq(PrepaintStack(Len(draws)))
  <2>1. todo' = new \o Tail(todo)
    BY <1>1 DEF PrepaintCached
  <2> DEFINE C == PrepaintStack(Len(draws))
  <2>2. a \in C /\ b \in C
    <3>1. a = [do |-> "layout", view |-> v] /\ b = [do |-> "prepaint", view |-> v]
      BY <1>1
    <3> QED BY <1>2, <3>1 DEF PrepaintStack
  <2>3. e \in C
    <3>1. Index(start) \in FramePlaces
      BY <1>2, IndexIs
    <3>2. e = [do |-> "end cached", view |-> v, from |-> Index(start), refreshing |-> refreshing, accessed |-> accessed]
      BY <1>1
    <3> QED BY <1>2, <3>1, <3>2, DrawTypes DEF PrepaintStack
  <2>4. new = <<a, b, e>>
    BY <1>1
  <2> HIDE DEF C
  <2>5. new \in Seq(C)
    BY <2>2, <2>3, <2>4, FewCalls
  <2> QED BY <2>1, <2>5 DEF C
<1>7. FirstStep(v, <<>>, K, <<>>, new)
  <2>1. \A x \in All(new) : /\ x.do \in {"layout", "prepaint", "defer", "end cached"} /\ x.view \in Sub(v)
                            /\ x.do = "end cached" => x.view = v /\ ~Started(v)
    <3>1. v \in Sub(v) /\ ~Started(v)
      BY <1>2, SubIs
    <3>2. All(new) = {a, b, e}
      BY <1>3
    <3>3. a.do = "layout" /\ b.do = "prepaint" /\ e.do = "end cached" /\ a.view = v /\ b.view = v
          /\ e.view = v
      BY <1>4, <1>5
    <3>4. "layout" # "end cached" /\ "prepaint" # "end cached"
      BY Zenon
    <3> QED BY <3>1, <3>2, <3>3, <3>4, Zenon
  <2>2. \A u \in Views : CacheKey(u) \in DOMAIN next'.states => CacheKey(u) \in DOMAIN next.states
    BY <1>2
  <2>3. \A c \in Top : CacheKey(c) \in All(K) => c = v
    BY <1>2, TopIs, KeysDiffer
  <2>4. Call.view = v
    BY <1>1
  <2>5. ViewsIn(<<>>) \subseteq Sub(v) /\ ViewsIn(<<>>) \subseteq accessed' /\ Seen(ViewsIn(<<>>))
        /\ \A n \in DOMAIN <<>> : <<>>[n].fresh /\ <<>>[n].view \in Sub(v)
    BY Empties DEF Seen
  <2>6. \A c \in Top : CacheKey(c) \in All(K) => c = v /\ Call.do = "prepaint" /\ ~Started(v)
                                                /\ CacheKey(v) \notin DOMAIN rendered'.states
    BY <1>2, <2>3
  <2>7. fresh' \ fresh = {} /\ accessed' \ accessed = {} /\ fresh' = fresh
    BY <1>2
  <2>8. Call.do \in {"layout", "prepaint", "defer", "end cached"} /\ Call.do # "layout"
        /\ Call.do \notin {"defer", "end cached"}
    BY <1>2
  <2> QED BY <1>2, <1>6, <2>1, <2>2, <2>4, <2>5, <2>6, <2>7, <2>8 DEF FirstStep
<1>8. Moves(new) /\ First' /\ phase' = "prepaint"
  BY <1>2, <1>7, FirstCalls, FirstDraws
<1>9. StackOK'
  <2>1. fresh' \cap Sub(v) = {}
    BY <1>2 DEF NotYet
  <2>2. \A j \in DOMAIN new : new[j].do = "layout" => j = 1
    BY <1>3, <1>4, <1>5
  <2> QED BY <1>2, <1>3, <1>4, <1>7, <2>1, <2>2, FirstStack DEF SeenInv
\* It is laid out next.
<1>10. Started(v)'
  <2>1. 1 \in DOMAIN todo' /\ todo'[1] = a
    BY <1>3, <1>8 DEF Moves
  <2>2. todo' # <<>>
    BY <2>1, Empties
  <2>3. Head(todo') = todo'[1]
    OBVIOUS
  <2> QED BY <1>4, <2>1, <2>2, <2>3 DEF Started, LaidOutNext, Calling, Call
<1>11. ASSUME NEW w \in Cached \cap Holders[v], w # v
       PROVE  \E j \in EndCalls : j > 1 /\ todo[j].view = w
  BY <1>2, <1>11 DEF FirstPendingOK
<1>12. EndOK(3, e, v)'
  <2>1. /\ e.from.items = Len(next'.items) /\ e.from.keys = Len(next'.keys)
           /\ e.from.deferred = Len(next'.deferred)
        /\ ItemsAfter(next', e.from.items) = {} /\ KeysAfter(next', e.from.keys) = {}
        /\ \A n \in DOMAIN next'.deferred : ~(n > e.from.deferred)
        /\ Len(next'.items) \in Nat /\ Len(next'.keys) \in Nat /\ Len(next'.deferred) \in Nat
    BY <1>2, <1>5, BeginsTop
  <2>2. v \notin Top => e.refreshing
    <3>1. ASSUME v \notin Top, ~refreshing PROVE FALSE
      <4>1. 1 \in Calls("prepaint") /\ v = todo[1].view
        BY <1>1, <1>2 DEF Calls
      <4> QED BY <1>2, <3>1, <4>1, HeldRefreshes
    <3> QED BY <1>5, <3>1
  <2>3. ASSUME NEW i \in 1..(3 - 1) PROVE todo'[i].view \in Sub(v) /\ (i \in EndCalls' => todo'[i].view # v)
    <3>1. i = 1 \/ i = 2
      OBVIOUS
    <3>2. todo'[1] = a /\ todo'[2] = b
      BY <1>3, <1>8 DEF Moves
    <3>3. i \notin EndCalls'
      BY <1>4, <3>1, <3>2 DEF EndCalls, Calls
    <3> QED BY <1>2, <1>4, <3>1, <3>2, <3>3, SubIs
  <2>4. ASSUME v \in Top PROVE EndTopOK(e, v)'
    <3>1. accessed \cap Sub(v) = {}
      BY <1>2, <2>4 DEF NotYet
    <3> QED BY <1>2, <1>5, <2>1, <3>1 DEF EndTopOK, Apart, NoTops
  <2>5. e.from.items <= Len(next'.items) /\ e.from.keys <= Len(next'.keys)
        /\ e.from.deferred <= Len(next'.deferred)
    BY <2>1, Within
  <2> QED BY <1>2, <1>10, <2>2, <2>3, <2>4, <2>5 DEF EndOK
<1>13. EndsOK'
  <2>1. ASSUME NEW j \in DOMAIN new, new[j].do = "end cached" PROVE EndOK(j, new[j], new[j].view)'
    <3>1. j = 3
      BY <1>3, <1>4, <2>1
    <3> QED BY <1>3, <1>5, <1>12, <3>1
  <2> QED BY <1>2, <1>7, <2>1, FirstEnds DEF SeenInv
<1>14. FirstPendingOK(2, v)'
  <2>1. Reached(v)'
    <3>1. Reached(v) /\ fresh \subseteq fresh' /\ \A p \in fresh : built'[p] = built[p]
      BY <1>2 DEF FirstPendingOK
    <3> QED BY <1>2, <3>1, ReachedStays
  <2>2. ASSUME NEW w \in Cached \cap Holders[v] PROVE \E j \in EndCalls' : j > 2 /\ todo'[j].view = w
    <3>1. CASE w = v
      <4>1. 3 \in EndCalls' /\ todo'[3] = e
        BY <1>3, <1>5, <1>8 DEF Moves, EndCalls, Calls
      <4>2. 3 > 2
        OBVIOUS
      <4> QED BY <1>5, <3>1, <4>1, <4>2
    <3>2. CASE w # v
      <4>1. PICK i \in EndCalls : i > 1 /\ todo[i].view = w
        BY <1>11, <3>2
      <4>2. i \in DOMAIN todo
        BY <1>2, <1>7, <4>1, FirstCalls
      <4>3. i \in 2..Len(todo) /\ i # 1
        BY <1>8, <4>1, <4>2 DEF Moves
      <4>4. Len(new) + i - 1 \in EndCalls' /\ todo'[Len(new) + i - 1] = todo[i]
        BY <1>8, <4>1, <4>3 DEF Moves, EndCalls
      <4>5. Len(new) + i - 1 > 2
        <5>1. i \in Nat /\ Len(new) = 3
          BY <1>3, <1>8, <4>3 DEF Moves
        <5> QED BY <4>1, <5>1
      <4> QED BY <4>1, <4>4, <4>5
    <3> QED BY <3>1, <3>2
  <2>3. ASSUME NEW w \in Cached \cap Sub(v), w # v PROVE NotYet(w)'
    <3>1. NotYet(w) /\ w \in Views
      BY <1>2, <2>3, TopIs DEF FirstPendingOK
    <3> QED BY <1>2, <2>3, <3>1 DEF NotYet
  <2> QED BY <1>10, <2>1, <2>2, <2>3 DEF FirstPendingOK
<1>15. PendingOK'
  <2>1. ASSUME NEW j \in DOMAIN new, new[j].do \in {"prepaint", "defer"} PROVE j = 2 /\ new[j].do # "defer"
    BY <1>3, <1>4, <1>5, <2>1
  <2>2. \A j \in DOMAIN new : new[j].do = "prepaint" => FirstPendingOK(j, new[j].view)'
    <3>1. ASSUME NEW j \in DOMAIN new, new[j].do = "prepaint" PROVE FirstPendingOK(j, new[j].view)'
      <4>1. j = 2 /\ new[j].view = v
        BY <1>3, <1>4, <2>1, <3>1
      <4> QED BY <1>14, <4>1
    <3> QED BY <3>1
  <2>3. \A i, j \in DOMAIN new :
           i # j /\ {new[i].do, new[j].do} \subseteq {"prepaint", "defer"} => Sub(new[i].view) \cap Sub(new[j].view) = {}
    <3>1. ASSUME NEW i \in DOMAIN new, NEW j \in DOMAIN new, i # j,
                 {new[i].do, new[j].do} \subseteq {"prepaint", "defer"}
          PROVE FALSE
      <4>1. i = 2 /\ j = 2
        BY <2>1, <3>1
      <4> QED BY <3>1, <4>1
    <3> QED BY <3>1
  <2> QED BY <1>2, <1>7, <2>1, <2>2, <2>3, FirstPending DEF SeenInv
<1>16. FreshOK'
  <2>1. Drawing /\ FreshOK
    BY <1>2 DEF Drawing, SeenInv
  <2> QED BY <1>2, <2>1, Empties, FreshStays DEF Seen
<1>17. DeferredOK'
  BY <1>2, <1>7, Empties, FirstDeferred DEF SeenInv
<1>18. CachesOK'
  <2>1. \A c \in Top \cap WithState(next') :
          c \in WithState(next) /\ next'.states[CacheKey(c)] = next.states[CacheKey(c)]
    BY <1>2 DEF WithState
  <2> QED BY <1>2, <1>7, <2>1, FirstCaches DEF SeenInv
<1> QED BY <1>2, <1>7, <1>9, <1>13, <1>15, <1>16, <1>17, <1>18, FirstKeeps

\* What is reused are the ranges of the last frame.
Again(d, r) == d = [r EXCEPT !.fresh = FALSE]
AgainParts(d, I, K, E) ==
  /\ ViewsIn(I) = ItemsOf(rendered, d) /\ All(K) = KeysOf(rendered, d)
  /\ \A n \in DOMAIN E : ~E[n].fresh
                         /\ \E m \in DeferredOf(rendered.deferred, d) : Again(E[n], rendered.deferred[m])

\* What is reused of the last frame is of the ranges.
LEMMA ReusedParts ==
  ASSUME IsWindowFrame(rendered), NEW f, IsWindowFrame(f), NEW d, d.from \in FramePlaces,
         d.to \in FramePlaces
  PROVE  LET g == Reused(f, d.from, d.to) IN
         g.states = f.states /\ IsWindowFrame(g) /\ \E I, K, E : Longer(g, f, I, K, E)
                                                                 /\ AgainParts(d, I, K, E)
<1> DEFINE items == Between(rendered.items, d.from.items, d.to.items)
           keys == Between(rendered.keys, d.from.keys, d.to.keys)
           deferred == Between(rendered.deferred, d.from.deferred, d.to.deferred)
           again == [n \in DOMAIN deferred |-> [deferred[n] EXCEPT !.fresh = FALSE]]
           g == Reused(f, d.from, d.to)
<1>1. /\ d.from.items \in Nat /\ d.from.keys \in Nat /\ d.from.deferred \in Nat
      /\ d.to.items \in Nat /\ d.to.keys \in Nat /\ d.to.deferred \in Nat
  BY RangedIs
<1>2. /\ rendered.items \in Seq(Entry) /\ rendered.keys \in Seq(StateKeys)
         /\ rendered.deferred \in Seq(DeferredDraws)
  BY DEF IsWindowFrame
<1>3. Longer(g, f, items, keys, again) /\ g.states = f.states /\ IsWindowFrame(g)
  BY ReusedLists
<1>4. All(items) = Part(rendered.items, d.from.items, d.to.items)
  <2>1. \A list \in Seq(Entry), a, b \in Nat : All(Between(list, a, b)) = Part(list, a, b)
    BY BetweenPart
  <2> QED BY <1>1, <1>2, <2>1
<1>5. All(keys) = KeysOf(rendered, d)
  <2>1. \A list \in Seq(StateKeys), a, b \in Nat : All(Between(list, a, b)) = Part(list, a, b)
    BY BetweenPart
  <2> QED BY <1>1, <1>2, <2>1 DEF KeysOf
<1>6. ViewsIn(items) = ItemsOf(rendered, d)
  BY <1>4, ViewsOfAll DEF ItemsOf
<1>7. /\ deferred \in Seq(DeferredDraws)
      /\ \A n \in DOMAIN deferred : /\ d.from.deferred + n \in DOMAIN rendered.deferred
                                    /\ d.from.deferred < d.from.deferred + n
                                       /\ d.from.deferred + n <= d.to.deferred
                                    /\ deferred[n] = rendered.deferred[d.from.deferred + n]
  <2>1. \A list \in Seq(DeferredDraws), a, b \in Nat :
          /\ Between(list, a, b) \in Seq(DeferredDraws)
          /\ \A n \in DOMAIN Between(list, a, b) :
               a + n \in DOMAIN list /\ a < a + n /\ a + n <= b /\ Between(list, a, b)[n] = list[a + n]
    BY BetweenPart
  <2> QED BY <1>1, <1>2, <2>1, ZenonT(30)
<1> HIDE DEF items, keys, deferred
<1>8. ASSUME NEW n \in DOMAIN again
      PROVE  ~again[n].fresh /\ \E m \in DeferredOf(rendered.deferred, d) : Again(again[n], rendered.deferred[m])
  <2>1. n \in DOMAIN deferred /\ again[n] = [deferred[n] EXCEPT !.fresh = FALSE]
    BY <1>8
  <2>2. d.from.deferred + n \in DeferredOf(rendered.deferred, d)
        /\ deferred[n] = rendered.deferred[d.from.deferred + n]
    BY <1>7, <2>1 DEF DeferredOf
  <2>3. deferred[n] \in DeferredDraws
    BY <1>7, <2>1, ElementOfSeq
  <2>4. ~[deferred[n] EXCEPT !.fresh = FALSE].fresh
    BY <2>3 DEF DeferredDraws
  <2> QED BY <2>1, <2>2, <2>4 DEF Again
<1> HIDE DEF again
<1>9. AgainParts(d, items, keys, again)
  BY <1>5, <1>6, <1>8 DEF AgainParts
<1> QED BY <1>3, <1>9

\* One more key, and then more.
LEMMA LongerThen ==
  ASSUME NEW f, IsWindowFrame(f), NEW g, NEW J, Longer(g, f, <<>>, J, <<>>), g.items = f.items,
         g.deferred = f.deferred,
         NEW h, NEW I, NEW K, NEW E, Longer(h, g, I, K, E)
  PROVE  Longer(h, f, I, J \o K, E) /\ All(J \o K) = All(J) \cup All(K)
<1>1. f.keys \in Seq(StateKeys) /\ K \in Seq(StateKeys) /\ J \in Seq(StateKeys) /\ g.keys = f.keys \o J
  BY DEF IsWindowFrame, Longer, More
<1>2. (f.keys \o J) \o K = f.keys \o (J \o K) /\ J \o K \in Seq(StateKeys)
  <2>1. \A a, b, c \in Seq(StateKeys) : (a \o b) \o c = a \o (b \o c) /\ b \o c \in Seq(StateKeys)
    BY ConcatAssociative, ConcatProperties
  <2> QED BY <1>1, <2>1
<1>3. All(J \o K) = All(J) \cup All(K)
  <2>1. 0 \in Nat
    OBVIOUS
  <2> QED BY <1>1, <2>1, PartAppended
<1>4. /\ I \in Seq(Entry) /\ E \in Seq(DeferredDraws) /\ h.items = f.items \o I
         /\ h.deferred = f.deferred \o E
      /\ h.keys = (f.keys \o J) \o K
  BY <1>1 DEF Longer, More
<1> QED BY <1>2, <1>3, <1>4 DEF Longer, More

\* Nothing that was notified is in what was drawn last of a view that is not marked.
LEMMA LastSeen ==
  ASSUME WindowInv, SeenInv, phase = "prepaint", NEW v \in Views, v \notin marked, NEW S,
         S \subseteq Shown, S \subseteq Sub(v)
  PROVE  Seen(S)
<1>1. \A u \in Shown : Unseen(u) => Holders[u] \subseteq marked
  BY DEF SeenInv, NotifiedOK
<1>2. ASSUME NEW u \in S, Unseen(u) PROVE FALSE
  <2>1. v \in Holders[u]
    BY <1>2 DEF Sub
  <2> QED BY <1>1, <1>2, <2>1
<1> QED BY <1>2 DEF Seen

\* A deferred draw of the last frame, in this one.
LEMMA AgainDraw ==
  ASSUME First', Kept(rendered', rendered), NEW m, NEW r \in DeferredDraws, NEW d, d = DrawList'[m],
         Again(d, r), NEW v, NEW k, LastDrawOK(v, k, r), k.accessed \subseteq accessed',
         NEW T, T = ItemsOf(rendered, r), Seen(T)'
  PROVE  DrawOK(m)' /\ DrawItems(m)' \subseteq Sub(v) \cap k.accessed /\ d.view \in Sub(v)
<1>1. ~d.fresh /\ d.view = r.view /\ d.from = r.from /\ d.to = r.to /\ d.paintFrom = r.paintFrom
      /\ d.paintTo = r.paintTo
  BY DEF DeferredDraws, Again
<1>2. ItemsOf(rendered', d) = ItemsOf(rendered, r) /\ KeysOf(rendered', d) = KeysOf(rendered, r)
      /\ PaintKeysOf(rendered', d) = PaintKeysOf(rendered, r)
  <2>1. ItemsOf(rendered', r) = ItemsOf(rendered, r) /\ KeysOf(rendered', r) = KeysOf(rendered, r)
        /\ PaintKeysOf(rendered', r) = PaintKeysOf(rendered, r)
    BY LastRanges
  <2> QED BY <1>1, <2>1 DEF ItemsOf, KeysOf, PaintKeysOf
<1>3. ~InNext(m)' /\ ~PaintInNext(m)'
  <2>1. phase' = "prepaint"
    BY DEF First
  <2> QED BY <1>1, <2>1 DEF InNext, PaintInNext
<1>4. /\ DrawItems(m)' = ItemsOf(rendered, r) /\ DrawKeys(m)' = KeysOf(rendered, r)
      /\ DrawPaintKeys(m)' = PaintKeysOf(rendered, r)
  BY <1>2, <1>3 DEF DrawItems, DrawKeys, DrawPaintKeys
<1>5. /\ ItemsOf(rendered, r) \subseteq Sub(v) \cap k.accessed /\ d.view \in Sub(v)
      /\ NoTops(KeysOf(rendered, r)) /\ NoTops(PaintKeysOf(rendered, r))
  BY <1>1 DEF LastDrawOK
<1>6. Seen(DrawItems(m))'
  BY <1>4 DEF Seen
<1> QED BY <1>1, <1>3, <1>4, <1>5, <1>6 DEF DrawOK, NoTops

\* A cache with another range.
Ranging(k, a, b) == [k EXCEPT !.from = a, !.to = b]

\* A cache gets its ranges of this frame.
LEMMA RangeOfCache ==
  ASSUME NEW k \in Caches, NEW a \in FramePlaces, NEW b \in FramePlaces
  PROVE  LET n == Ranging(k, a, b) IN
         /\ n \in Caches /\ n.accessed = k.accessed /\ n.paintFrom = k.paintFrom /\ n.paintTo = k.paintTo
         /\ n.from = a /\ n.to = b
<1> DEFINE m == [k EXCEPT !.from = a]
           n == Ranging(k, a, b)
<1>1. m \in Caches /\ m.accessed = k.accessed /\ m.paintFrom = k.paintFrom /\ m.paintTo = k.paintTo
      /\ m.from = a
  BY DEF Caches
<1>2. n = [m EXCEPT !.to = b]
  BY DEF Ranging
<1> HIDE DEF m, n
<1>3. /\ n \in Caches /\ n.accessed = k.accessed /\ n.paintFrom = k.paintFrom /\ n.paintTo = k.paintTo
      /\ n.from = a /\ n.to = b
  BY <1>1, <1>2 DEF Caches
<1> QED BY <1>3 DEF n

\* What a cached view does that puts in what it had in the last frame.
LEMMA ReusedGoes ==
  ASSUME WindowInv, SeenInv, PrepaintReused, NEW v, v = Call.view
  PROVE  \E I, K, L, E, k, n :
           /\ phase = "prepaint" /\ First /\ 1 \in DOMAIN todo /\ Call = todo[1] /\ v \in Views
              /\ todo # <<>>
           /\ todo \in Seq(PrepaintStack(Len(draws))) /\ Call.do = "prepaint" /\ v \notin fresh
              /\ ~Started(v)
           /\ FirstPendingOK(1, v) /\ v \in Top /\ NotYet(v) /\ v \notin marked /\ ~refreshing
           /\ k \in Caches /\ LastCacheOK(v, k) /\ Goes(I, K) /\ Longer(next', next, I, K, E)
           /\ AgainParts(k, I, L, E) /\ All(K) = {CacheKey(v)} \cup All(L)
           /\ CacheKey(v) \notin DOMAIN rendered'.states
           /\ CacheKey(v) \in DOMAIN next'.states /\ next'.states[CacheKey(v)] = n
           /\ n \in Caches /\ n.accessed = k.accessed /\ n.paintFrom = k.paintFrom /\ n.paintTo = k.paintTo
           /\ n.from.items = Len(next.items) /\ n.from.deferred = Len(next.deferred)
           /\ n.to.items = Len(next'.items) /\ n.to.keys = Len(next'.keys)
              /\ n.to.deferred = Len(next'.deferred)
           /\ KeysOf(next', n) = All(L)
           /\ \A u \in Views : u # v => /\ CacheKey(u) \in DOMAIN next'.states <=> CacheKey(u) \in DOMAIN next.states
                                        /\ CacheKey(u) \in DOMAIN next.states => next'.states[CacheKey(u)] = next.states[CacheKey(u)]
           /\ accessed' = accessed \cup k.accessed /\ todo' = Tail(todo) /\ phase' = phase
           /\ UNCHANGED <<marked, refreshing, built, fresh, draws>>
<1>1. PICK start, k, end, n :
        /\ start = Accesses(next, CacheKey(v)) /\ k = StateOf(CacheKey(v))
           /\ end = Reused(start, k.from, k.to)
        /\ n = Ranging(k, Index(start), Index(end))
  OBVIOUS
<1>2. /\ Call.do = "prepaint" /\ todo # <<>> /\ v \notin fresh /\ Has(CacheKey(v)) /\ v \notin marked
         /\ ~refreshing
      /\ next' = With(end, CacheKey(v), n) /\ rendered' = Without(rendered, CacheKey(v))
      /\ accessed' = accessed \cup k.accessed /\ todo' = Tail(todo)
      /\ UNCHANGED <<invalidatorVars, marked, refreshing, built, fresh, draws, owed>>
  BY <1>1 DEF PrepaintReused, Calling, MayReuse, Ranging
<1>3. phase = "prepaint"
  BY <1>2, InPrepaint DEF Calling
<1>4. First /\ 1 \in DOMAIN todo /\ Call = todo[1] /\ v \in Views /\ todo \in Seq(PrepaintStack(Len(draws)))
  BY <1>2, <1>3, FirstHead
<1>5. FirstPendingOK(1, v) /\ ~Started(v) /\ v \in Top
  <2>1. 1 \in Calls("prepaint") /\ todo[1].view = v
    BY <1>2, <1>4 DEF Calls
  <2>2. ~LaidOutNext(v)
    BY <1>2 DEF LaidOutNext, Calling
  <2>3. FirstPendingOK(1, v) /\ ~Started(v)
    BY <1>2, <1>3, <1>4, <2>1, <2>2 DEF SeenInv, PendingOK, Started
  <2> QED BY <1>2, <1>4, <2>1, <2>3, HeldRefreshes
<1>6. NotYet(v)
  <2>1. v \in Cached
    BY <1>5, TopIs
  <2> QED BY <1>4, <1>5, <2>1, SubIs DEF FirstPendingOK
<1>7. IsWindowFrame(next) /\ IsWindowFrame(rendered) /\ CacheKey(v) \in StateKeys
  BY <1>4, DrawTypes, KeysDiffer
<1>8. k \in Caches /\ LastCacheOK(v, k)
  <2>1. CacheKey(v) \in DOMAIN rendered.states /\ k = rendered.states[CacheKey(v)]
    BY <1>1, <1>2, <1>6 DEF Has, StateOf, NotYet
  <2>2. v \in WithState(rendered)
    BY <1>4, <2>1 DEF WithState
  <2> QED BY <1>4, <1>5, <1>7, <2>1, <2>2 DEF SeenInv, LastOK, IsWindowFrame, CachesTyped
<1>9. k.from \in FramePlaces /\ k.to \in FramePlaces
  BY <1>8, RangedIs DEF Ranged
<1>10. /\ Longer(start, next, <<>>, <<CacheKey(v)>>, <<>>) /\ start.states = next.states
          /\ IsWindowFrame(start)
       /\ start.items = next.items /\ start.deferred = next.deferred
  BY <1>1, <1>7, AccessesLists
<1>11. PICK I, L, E : Longer(end, start, I, L, E) /\ AgainParts(k, I, L, E) /\ end.states = start.states
                      /\ IsWindowFrame(end)
  <2>1. end = Reused(start, k.from, k.to)
    BY <1>1
  <2>2. IsWindowFrame(start) /\ IsWindowFrame(rendered) /\ k.from \in FramePlaces /\ k.to \in FramePlaces
    BY <1>7, <1>9, <1>10
  <2> QED BY <2>1, <2>2, ReusedParts
<1>12. PICK J, K : J = <<CacheKey(v)>> /\ K = J \o L
  OBVIOUS
<1>13. Longer(end, next, I, K, E) /\ All(K) = {CacheKey(v)} \cup All(L)
  <2>1. All(J) = {CacheKey(v)} /\ Longer(start, next, <<>>, J, <<>>)
    BY <1>10, <1>12 DEF All
  <2>2. Longer(end, next, I, J \o L, E) /\ All(J \o L) = All(J) \cup All(L)
    BY <1>7, <1>10, <1>11, <2>1, LongerThen
  <2> QED BY <1>12, <2>1, <2>2
<1>14. /\ next'.items = end.items /\ next'.keys = end.keys /\ next'.deferred = end.deferred
       /\ StatesBut(next', end, CacheKey(v)) /\ CacheKey(v) \in DOMAIN next'.states
          /\ next'.states[CacheKey(v)] = n
  BY <1>2, <1>11, WithStates
<1>15. Longer(next', next, I, K, E)
  BY <1>13, <1>14 DEF Longer, More
<1>16. /\ rendered'.items = rendered.items /\ rendered'.keys = rendered.keys
          /\ rendered'.deferred = rendered.deferred
       /\ StatesBut(rendered', rendered, CacheKey(v)) /\ CacheKey(v) \notin DOMAIN rendered'.states
  BY <1>2, <1>7, WithoutStates
<1>17. Goes(I, K)
  <2>1. Kept(rendered', rendered)
    BY <1>16 DEF Kept, StatesBut
  <2>2. \A u \in Views : Unseen(u)' => Unseen(u)
    BY <1>2 DEF Unseen, invalidatorVars
  <2> QED BY <1>2, <1>15, <2>1, <2>2 DEF Goes, Longer
<1>18. \A u \in Views : u # v => /\ CacheKey(u) \in DOMAIN next'.states <=> CacheKey(u) \in DOMAIN next.states
                                 /\ CacheKey(u) \in DOMAIN next.states => next'.states[CacheKey(u)] = next.states[CacheKey(u)]
  <2>1. \A u \in Views : u # v => CacheKey(u) # CacheKey(v)
    BY <1>4, KeysDiffer
  <2> QED BY <1>10, <1>11, <1>14, <2>1 DEF StatesBut
<1>19. Index(start) \in FramePlaces /\ Index(end) \in FramePlaces
  BY <1>10, <1>11, IndexIs
<1>20. /\ n \in Caches /\ n.accessed = k.accessed /\ n.paintFrom = k.paintFrom /\ n.paintTo = k.paintTo
       /\ n.from = Index(start) /\ n.to = Index(end)
  <2>1. n = Ranging(k, Index(start), Index(end))
    BY <1>1
  <2> QED BY <1>8, <1>19, <2>1, RangeOfCache
<1>21. KeysOf(next', n) = All(L)
  <2>1. n.from.keys = Len(start.keys) /\ n.to.keys = Len(end.keys)
    BY <1>20 DEF Index
  <2>2. KeysOf(end, n) = KeysAfter(end, Len(start.keys))
    BY <2>1 DEF KeysOf, KeysAfter
  <2>3. KeysAfter(start, Len(start.keys)) = {}
    BY <1>10, RangeWithin
  <2>4. KeysAfter(end, Len(start.keys)) = All(L)
    <3>1. More(end, start, I, L)
      BY <1>11 DEF Longer
    <3>2. /\ \A a \in Nat : a <= Len(start.keys) => KeysAfter(end, a) = KeysAfter(start, a) \cup All(L)
          /\ Len(start.keys) \in Nat
      BY <1>10, <3>1, AfterGrows
    <3> QED BY <2>3, <3>2, Within
  <2> QED BY <1>11, <1>14, <2>2, <2>4 DEF KeysOf
<1>22. /\ n.from.items = Len(next.items) /\ n.from.deferred = Len(next.deferred)
       /\ n.to.items = Len(next'.items) /\ n.to.keys = Len(next'.keys)
          /\ n.to.deferred = Len(next'.deferred)
  BY <1>10, <1>14, <1>20 DEF Index
<1>23. phase' = phase
  BY <1>2 DEF invalidatorVars
<1> QED BY <1>2, <1>3, <1>4, <1>5, <1>6, <1>8, <1>11, <1>13, <1>14, <1>15, <1>16, <1>17, <1>18, <1>20,
    <1>21, <1>22, <1>23

\* A cached view is reused: nothing in it was notified, as its holders would be marked.
LEMMA PrepaintReusedSeen == ASSUME WindowInv, SeenInv, PrepaintReused PROVE SeenInv'
<1>0. PICK v : v = Call.view
  OBVIOUS
<1>1. PICK I, K, L, E, k, n :
        /\ phase = "prepaint" /\ First /\ 1 \in DOMAIN todo /\ Call = todo[1] /\ v \in Views /\ todo # <<>>
        /\ todo \in Seq(PrepaintStack(Len(draws))) /\ Call.do = "prepaint" /\ v \notin fresh /\ ~Started(v)
        /\ FirstPendingOK(1, v) /\ v \in Top /\ NotYet(v) /\ v \notin marked /\ ~refreshing
        /\ k \in Caches /\ LastCacheOK(v, k) /\ Goes(I, K) /\ Longer(next', next, I, K, E)
        /\ AgainParts(k, I, L, E) /\ All(K) = {CacheKey(v)} \cup All(L)
        /\ CacheKey(v) \notin DOMAIN rendered'.states
        /\ CacheKey(v) \in DOMAIN next'.states /\ next'.states[CacheKey(v)] = n
        /\ n \in Caches /\ n.accessed = k.accessed /\ n.paintFrom = k.paintFrom /\ n.paintTo = k.paintTo
        /\ n.from.items = Len(next.items) /\ n.from.deferred = Len(next.deferred)
        /\ n.to.items = Len(next'.items) /\ n.to.keys = Len(next'.keys)
           /\ n.to.deferred = Len(next'.deferred)
        /\ KeysOf(next', n) = All(L)
        /\ \A u \in Views : u # v => /\ CacheKey(u) \in DOMAIN next'.states <=> CacheKey(u) \in DOMAIN next.states
                                     /\ CacheKey(u) \in DOMAIN next.states => next'.states[CacheKey(u)] = next.states[CacheKey(u)]
        /\ accessed' = accessed \cup k.accessed /\ todo' = Tail(todo) /\ phase' = phase
        /\ UNCHANGED <<marked, refreshing, built, fresh, draws>>
  BY <1>0, ReusedGoes, SMTT(30)
<1>2. /\ ViewsIn(I) \subseteq Sub(v) \cap k.accessed /\ Apart(k.accessed, v)
      /\ NoTops(All(L)) /\ NoTops(PaintKeysOf(rendered, k))
      /\ \A m \in DeferredOf(rendered.deferred, k) : LastDrawOK(v, k, rendered.deferred[m])
  BY <1>1 DEF LastCacheOK, AgainParts
<1>3. v \in Sub(v) /\ v \in Cached /\ Top \subseteq Cached /\ Cached \subseteq Views
  BY <1>1, SubIs, TopIs
<1>4. Seen(ViewsIn(I))
  <2>1. ViewsIn(I) = ItemsOf(rendered, k)
    BY <1>1 DEF AgainParts
  <2>2. ItemsOf(rendered, k) \subseteq Shown
    BY DrawTypes, RangeWithin DEF Shown
  <2>3. ViewsIn(I) \subseteq Sub(v) /\ ViewsIn(I) \subseteq Shown
    BY <1>2, <2>1, <2>2
  <2> QED BY <1>1, <2>3, LastSeen
<1>5. FirstStep(v, I, K, E, <<>>)
  <2>1. todo' = <<>> \o Tail(todo)
    <3> DEFINE S == PrepaintStack(Len(draws))
    <3>1. todo \in Seq(S) /\ todo # <<>>
      BY <1>1
    <3> HIDE DEF S
    <3>2. Tail(todo) \in Seq(S)
      BY <3>1, Called
    <3> QED BY <1>1, <3>2, NoNewCalls
  <2>2. \A c \in Top : CacheKey(c) \in All(K) => c = v
    <3>1. ASSUME NEW c \in Top, CacheKey(c) \in All(K) PROVE c = v
      <4>1. CacheKey(c) \notin All(L)
        BY <1>2, <3>1 DEF NoTops, TopKeys
      <4>2. CacheKey(c) = CacheKey(v)
        BY <1>1, <3>1, <4>1
      <4> QED BY <1>1, <1>3, <3>1, <4>2, KeysDiffer
    <3> QED BY <3>1
  <2>3. \A u \in Views : CacheKey(u) \in DOMAIN next'.states => CacheKey(u) \in DOMAIN next.states \/ u = v
    BY <1>1
  <2>4. \A w \in Top : (accessed' \ accessed) \cap Sub(w) # {} => v \in Sub(w)
    BY <1>1, <1>2, <1>3 DEF Apart
  <2>5. ReusesIt(v)
    BY <1>1 DEF ReusesIt
  <2>6. ViewsIn(I) \subseteq Sub(v) /\ ViewsIn(I) \subseteq accessed'
    BY <1>1, <1>2
  <2>7. fresh' \ fresh = {} /\ fresh' = fresh
    BY <1>1
  <2>8. Call.view = v
    BY <1>0
  <2>9. /\ Goes(I, K) /\ Longer(next', next, I, K, E) /\ phase' = phase /\ draws' = draws
           /\ marked' = marked
        /\ refreshing' = refreshing /\ ~refreshing /\ v \in Views /\ Call.do = "prepaint" /\ todo # <<>>
        /\ ~Started(v) /\ CacheKey(v) \notin DOMAIN rendered'.states
    BY <1>1
  <2>10. "prepaint" # "layout" /\ "prepaint" # "defer" /\ "prepaint" # "end cached"
    BY Zenon
  <2> QED BY <1>4, <2>1, <2>2, <2>3, <2>4, <2>5, <2>6, <2>7, <2>8, <2>9, <2>10, Empties DEF FirstStep
<1>6. FreshOK'
  <2>1. Drawing /\ FreshOK
    BY <1>1 DEF Drawing, SeenInv
  <2>2. ViewsIn(I) \subseteq accessed' /\ ViewsIn(I) \subseteq Views
    BY <1>1, <1>2, SubIs
  <2> QED BY <1>1, <1>4, <2>1, <2>2, FreshStays
<1>7. StackOK' /\ EndsOK' /\ PendingOK'
  BY <1>1, <1>5, Empties, FirstStack, FirstEnds, FirstPending DEF SeenInv
<1>8. /\ First' /\ phase' = "prepaint" /\ DrawList = next.deferred /\ DrawList' = next'.deferred
      /\ \A m \in DOMAIN next.deferred : m \in DOMAIN next'.deferred /\ SameDraw(m)
                                         /\ DrawList[m] \in DeferredDraws
      /\ \A c : CacheInNext(c)' <=> c \in fresh'
  BY <1>1, <1>5, FirstDraws
<1>9. /\ IsWindowFrame(next) /\ IsWindowFrame(rendered) /\ More(next', next, I, K)
         /\ Kept(rendered', rendered)
      /\ \A u \in Views : Unseen(u)' => Unseen(u)
  BY <1>1, DrawTypes DEF Goes
<1>10. PICK l : l = Len(next.deferred)
  OBVIOUS
<1>11. /\ l \in Nat /\ DOMAIN next.deferred = 1..l /\ Len(next'.deferred) = l + Len(E)
          /\ DOMAIN E = 1..Len(E) /\ Len(E) \in Nat
       /\ DOMAIN next'.deferred = 1..Len(next'.deferred) /\ next'.deferred \in Seq(DeferredDraws)
       /\ \A i \in DOMAIN next'.deferred : i \in DOMAIN next.deferred \/ (i - l \in DOMAIN E /\ next'.deferred[i] = E[i - l])
  BY <1>1, <1>9, <1>10, DrawsGrow
\* The deferred draws that come along are those of the last frame.
<1>12. ASSUME NEW m \in DOMAIN E
       PROVE  DrawOK(l + m)' /\ DrawItems(l + m)' \subseteq Sub(v) \cap k.accessed
              /\ DrawList'[l + m].view \in Sub(v)
  <2>1. l + m \in DOMAIN next'.deferred /\ ~(l + m \in DOMAIN next.deferred) /\ l + m - l = m
    BY <1>11
  <2>2. DrawList'[l + m] = E[m]
    BY <1>8, <1>11, <2>1
  <2>3. PICK o \in DeferredOf(rendered.deferred, k) : Again(E[m], rendered.deferred[o])
    BY <1>1 DEF AgainParts
  <2>4. PICK r, T, d, i : r = rendered.deferred[o] /\ T = ItemsOf(rendered, r) /\ d = E[m] /\ i = l + m
    OBVIOUS
  <2>5. r \in DeferredDraws /\ LastDrawOK(v, k, r)
    <3>1. rendered.deferred \in Seq(DeferredDraws) /\ o \in DOMAIN rendered.deferred
      BY <1>9, <2>3 DEF IsWindowFrame, DeferredOf
    <3> QED BY <1>2, <2>3, <2>4, <3>1, ElementOfSeq
  <2>6. Seen(T)'
    <3>1. T \subseteq Shown /\ T \subseteq Sub(v)
      BY <1>9, <2>4, <2>5, RangeWithin DEF Shown, LastDrawOK
    <3>2. Seen(T)
      BY <1>1, <3>1, LastSeen
    <3>3. T \subseteq Views
      BY <1>1, <3>1, SubIs
    <3> QED BY <1>9, <3>2, <3>3 DEF Seen
  <2>7. Again(d, r) /\ d = DrawList'[i] /\ k.accessed \subseteq accessed'
    BY <1>1, <2>2, <2>3, <2>4
  <2>8. DrawOK(i)' /\ DrawItems(i)' \subseteq Sub(v) \cap k.accessed /\ d.view \in Sub(v)
    BY <1>8, <1>9, <2>4, <2>5, <2>6, <2>7, AgainDraw
  <2> QED BY <2>4, <2>7, <2>8
<1>13. DeferredOK'
  BY <1>1, <1>5, <1>10, <1>12, FirstDeferred DEF SeenInv
\* The cache is of what came along.
<1>14. CacheOK(v, n)'
  <2>1. fresh' \cap Sub(v) = {} /\ n.accessed = k.accessed /\ k.accessed \subseteq accessed'
    BY <1>1 DEF NotYet
  <2>2. ItemsOf(next', n) = ViewsIn(I)
    <3>1. ItemsOf(next', n) = ItemsAfter(next', Len(next.items))
      BY <1>1 DEF ItemsOf, ItemsAfter
    <3>2. ItemsAfter(next, Len(next.items)) = {}
      BY <1>9, RangeWithin
    <3>3. /\ \A a \in Nat : a <= Len(next.items) => ItemsAfter(next', a) = ItemsAfter(next, a) \cup ViewsIn(I)
          /\ Len(next.items) \in Nat
      BY <1>9, AfterGrows
    <3> QED BY <3>1, <3>2, <3>3, Within
  <2>3. n.to.items <= Len(next'.items) /\ n.to.keys <= Len(next'.keys) /\ n.to.deferred <= Len(DrawList')
    <3>1. n.to \in FramePlaces
      BY <1>1, RangedIs DEF Ranged
    <3>2. n.to.items \in Nat /\ n.to.keys \in Nat /\ n.to.deferred \in Nat
      BY <3>1, RangedIs
    <3> QED BY <1>1, <1>8, <3>2, Within
  <2>4. ASSUME NEW i \in DeferredOf(DrawList', n)
        PROVE  DrawList'[i].view \in Sub(v) /\ DrawItems(i)' \subseteq Sub(v) \cap n.accessed
    <3>1. i \in DOMAIN next'.deferred /\ l < i
      BY <1>1, <1>8, <1>10, <2>4 DEF DeferredOf
    <3>2. ~(i \in DOMAIN next.deferred)
      BY <1>11, <3>1
    <3>3. PICK m \in DOMAIN E : m = i - l
      BY <1>11, <3>1, <3>2
    <3>4. l + m = i
      BY <1>11, <3>1, <3>3
    <3>5. DrawItems(l + m)' \subseteq Sub(v) \cap k.accessed /\ DrawList'[l + m].view \in Sub(v)
      BY <1>12
    <3> QED BY <1>1, <3>4, <3>5
  <2>5. v \notin fresh' /\ ~CacheInNext(v)'
    BY <1>1, <1>8
  <2>6. CachePaintKeys(v, n)' = PaintKeysOf(rendered, k)
    <3>1. PaintKeysOf(rendered', n) = PaintKeysOf(rendered', k)
      BY <1>1 DEF PaintKeysOf
    <3>2. PaintKeysOf(rendered', k) = PaintKeysOf(rendered, k)
      BY <1>9, LastRanges
    <3> QED BY <2>5, <3>1, <3>2 DEF CachePaintKeys
  <2>7. Reached(v)'
    <3>1. Reached(v) /\ fresh \subseteq fresh' /\ built' = built
      BY <1>1 DEF FirstPendingOK
    <3> QED BY <1>1, <3>1, ReachedStays
  <2>8. ItemsOf(next', n) \subseteq Sub(v) \cap n.accessed /\ Apart(n.accessed, v)
    BY <1>1, <1>2, <2>2
  <2>9. NoTops(KeysOf(next', n)) /\ NoTops(CachePaintKeys(v, n)')
    BY <1>1, <1>2, <2>6
  <2> QED BY <2>1, <2>3, <2>4, <2>5, <2>7, <2>8, <2>9 DEF CacheOK, NoTops
<1>15. CachesOK'
  <2>1. ASSUME NEW c \in Top \cap WithState(next')
        PROVE  \/ c \in WithState(next) /\ next'.states[CacheKey(c)] = next.states[CacheKey(c)]
               \/ CacheOK(c, next.states[CacheKey(c)])'
    <3>1. CASE c = v
      <4>1. CacheOK(v, n)' /\ n = next'.states[CacheKey(v)]
        BY <1>1, <1>14
      <4> QED BY <3>1, <4>1
    <3>2. CASE c # v
      BY <1>1, <2>1, <3>2 DEF WithState
    <3> QED BY <3>1, <3>2
  <2> QED BY <1>1, <1>5, <2>1, FirstCaches DEF SeenInv
<1> QED BY <1>1, <1>5, <1>6, <1>7, <1>13, <1>15, FirstKeeps

\* A deferred draw that is put off has nothing yet.
PutOff(d, v) ==
  /\ d \in DeferredDraws /\ d.view = v /\ d.fresh
  /\ d.from = Index(NoFrame) /\ d.to = Index(NoFrame)
  /\ d.paintFrom = PaintIndex(NoFrame) /\ d.paintTo = PaintIndex(NoFrame)

\* The draw of a view is deferred.
LEMMA PutOffGoes ==
  ASSUME WindowInv, DeferDraw, NEW v, v = Call.view
  PROVE  /\ phase = "prepaint" /\ todo # <<>> /\ Call.do = "defer" /\ v \in Views /\ todo' = Tail(todo)
         /\ phase' = phase /\ next'.states = next.states /\ Goes(<<>>, <<>>)
         /\ UNCHANGED <<marked, refreshing, accessed, built, fresh, draws, rendered>>
         /\ \E d : PutOff(d, v) /\ Longer(next', next, <<>>, <<>>, <<d>>)
<1> DEFINE d == [view |-> Call.view, fresh |-> TRUE,
                 from |-> Index(NoFrame), to |-> Index(NoFrame),
                 paintFrom |-> PaintIndex(NoFrame), paintTo |-> PaintIndex(NoFrame)]
<1>1. /\ Calling("defer") /\ next' = [next EXCEPT !.deferred = Append(@, d)] /\ todo' = Tail(todo)
      /\ UNCHANGED <<state, invalidatorVars, marked, refreshing, rendered, tracked, accessed, callbacks,
                     at, built, fresh, draws, owed, focusVars>>
  BY DEF DeferDraw
<1>2. phase = "prepaint" /\ todo # <<>> /\ Call.do = "defer" /\ v \in Views
  <2>1. phase = "prepaint" /\ Call \in PrepaintStack(Len(draws)) /\ Len(draws) \in Nat
    BY <1>1, InPrepaint
  <2>2. todo # <<>> /\ Call.do = "defer"
    BY <1>1 DEF Calling
  <2> QED BY <2>1, <2>2, PrepaintCallIs
<1>3. PutOff(d, v)
  <2>1. Index(NoFrame) \in FramePlaces /\ PaintIndex(NoFrame) \in PaintPlaces
    BY NoFrameIs, IndexIs
  <2> QED BY <1>2, <2>1 DEF DeferredDraws, PutOff
<1> HIDE DEF d
<1>4. IsWindowFrame(next) /\ d \in DeferredDraws
  BY <1>3, DrawTypes DEF PutOff
<1>5. next'.states = next.states /\ next'.items = next.items /\ next'.keys = next.keys
      /\ next'.deferred = Append(next.deferred, d)
  BY <1>1, <1>4 DEF IsWindowFrame, FrameOf
<1>6. Longer(next', next, <<>>, <<>>, <<d>>)
  <2>1. next.deferred \in Seq(DeferredDraws) /\ next.items \in Seq(Entry) /\ next.keys \in Seq(StateKeys)
    BY <1>4 DEF IsWindowFrame
  <2>2. Append(next.deferred, d) = next.deferred \o <<d>> /\ <<d>> \in Seq(DeferredDraws)
    <3>1. \A list \in Seq(DeferredDraws), x \in DeferredDraws : Append(list, x) = list \o <<x>>
                                                                /\ <<x>> \in Seq(DeferredDraws)
      BY AppendIsConcat, FewCalls
    <3> QED BY <1>4, <2>1, <3>1
  <2>3. \A S : \A list \in Seq(S) : list \o <<>> = list /\ <<>> \in Seq(S)
    BY ConcatEmptySeq
  <2> QED BY <1>5, <2>1, <2>2, <2>3 DEF Longer, More
<1>7. Goes(<<>>, <<>>)
  <2>1. \A u \in Views : Unseen(u)' => Unseen(u)
    BY <1>1 DEF Unseen, invalidatorVars
  <2>2. Kept(rendered', rendered)
    BY <1>1 DEF Kept
  <2> QED BY <1>1, <1>6, <2>1, <2>2 DEF Goes, Longer
<1>8. phase' = phase
  BY <1>1 DEF invalidatorVars
<1> QED BY <1>1, <1>2, <1>3, <1>5, <1>6, <1>7, <1>8

\* It has no range in a frame.
LEMMA PutOffEmpty ==
  ASSUME NEW f, IsWindowFrame(f), NEW d, NEW v, PutOff(d, v)
  PROVE  /\ ItemsOf(f, d) = {} /\ KeysOf(f, d) = {} /\ PaintKeysOf(f, d) = {}
         /\ d.to.items <= Len(f.items) /\ d.to.keys <= Len(f.keys) /\ d.paintTo.keys <= Len(f.keys)
<1>1. /\ d.from.items = 0 /\ d.from.keys = 0 /\ d.to.items = 0 /\ d.to.keys = 0
      /\ d.paintFrom.keys = 0 /\ d.paintTo.keys = 0
  BY Empties DEF PutOff, Index, PaintIndex, NoFrame
<1>2. f.items \in Seq(Entry) /\ f.keys \in Seq(StateKeys)
  BY DEF IsWindowFrame
<1>3. Part(f.items, 0, 0) = {} /\ Part(f.keys, 0, 0) = {}
  BY <1>2, NoPart
<1>4. Len(f.items) \in Nat /\ Len(f.keys) \in Nat
  BY <1>2, LenProperties
<1>5. 0 <= Len(f.items) /\ 0 <= Len(f.keys)
  BY <1>4
<1> QED BY <1>1, <1>3, <1>5 DEF ItemsOf, KeysOf, PaintKeysOf

\* So in the first part of the prepaint.
LEMMA DeferDrawFirst == ASSUME WindowInv, SeenInv, First, DeferDraw PROVE SeenInv'
<1>0. PICK v : v = Call.view
  OBVIOUS
<1>1. /\ phase = "prepaint" /\ todo # <<>> /\ Call.do = "defer" /\ v \in Views /\ todo' = Tail(todo)
      /\ phase' = phase /\ next'.states = next.states /\ Goes(<<>>, <<>>)
      /\ UNCHANGED <<marked, refreshing, accessed, built, fresh, draws, rendered>>
  BY <1>0, PutOffGoes
<1>2. PICK d, E : PutOff(d, v) /\ E = <<d>> /\ Longer(next', next, <<>>, <<>>, E)
  BY <1>0, PutOffGoes
<1>3. v \in fresh /\ Sub(v) \cap Cached = {} /\ v \in Sub(v)
  <2>1. todo \in Seq(PrepaintStack(Len(draws)))
    BY <1>1, PrepaintTodo
  <2>2. Len(todo) \in Nat /\ Len(todo) # 0 /\ DOMAIN todo = 1..Len(todo)
    BY <1>1, <2>1, EmptySeq, LenProperties
  <2>3. 1 \in DOMAIN todo
    BY <2>2, OneOf
  <2>4. 1 \in Calls("defer") /\ todo[1].view = v
    BY <1>0, <1>1, <2>3, HeadCall DEF Calls
  <2> QED BY <1>1, <2>4, SubIs DEF SeenInv, PendingOK
<1>4. DOMAIN E = {1} /\ E[1] = d /\ All(<<>>) = {} /\ ViewsIn(<<>>) = {}
  BY <1>2, Empties
<1>5. FirstStep(v, <<>>, <<>>, E, <<>>)
  <2>1. todo' = <<>> \o Tail(todo)
    <3> DEFINE S == PrepaintStack(Len(draws))
    <3>1. todo \in Seq(S) /\ todo # <<>>
      BY <1>1, PrepaintTodo
    <3> HIDE DEF S
    <3>2. Tail(todo) \in Seq(S)
      BY <3>1, Called
    <3> QED BY <1>1, <3>2, NoNewCalls
  <2>2. \A n \in DOMAIN E : E[n].fresh /\ E[n].view \in Sub(v)
    BY <1>2, <1>3, <1>4 DEF PutOff
  <2>3. Call.view = v
    BY <1>0
  <2>4. "defer" # "layout" /\ "defer" # "prepaint" /\ "defer" # "end cached"
    BY Zenon
  <2> QED BY <1>1, <1>2, <2>1, <2>2, <2>3, <2>4, Empties DEF FirstStep, Seen
<1>6. FreshOK'
  <2>1. Drawing /\ FreshOK
    BY <1>1 DEF Drawing, SeenInv
  <2> QED BY <1>1, <1>4, <2>1, FreshStays DEF Seen
<1>7. StackOK' /\ EndsOK' /\ PendingOK'
  BY <1>1, <1>5, Empties, FirstStack, FirstEnds, FirstPending DEF SeenInv
<1>8. First' /\ DrawList' = next'.deferred
  BY <1>1, <1>5, FirstDraws
<1>9. PICK l : l = Len(next.deferred)
  OBVIOUS
<1>10. DrawOK(l + 1)'
  <2>1. DrawList'[l + 1] = d
    <3>1. IsWindowFrame(next)
      BY DrawTypes
    <3>2. /\ l \in Nat /\ DOMAIN next.deferred = 1..l /\ Len(next'.deferred) = l + Len(E)
          /\ DOMAIN next'.deferred = 1..Len(next'.deferred)
          /\ \A i \in DOMAIN next'.deferred : i \in DOMAIN next.deferred \/ (i - l \in DOMAIN E /\ next'.deferred[i] = E[i - l])
      <4>1. Longer(next', next, <<>>, <<>>, E)
        BY <1>2
      <4> QED BY <1>9, <3>1, <4>1, DrawsGrow
    <3>3. Len(E) = 1
      BY <1>2
    <3>4. l + 1 \in DOMAIN next'.deferred /\ ~(l + 1 \in DOMAIN next.deferred) /\ l + 1 - l = 1
      BY <3>2, <3>3
    <3> QED BY <1>4, <1>8, <3>2, <3>4
  <2>2. PICK n : n = l + 1
    OBVIOUS
  <2>3. InNext(n)' /\ PaintInNext(n)' /\ DrawList'[n] = d /\ d.fresh /\ d.view = v
    BY <1>2, <2>1, <2>2 DEF InNext, PaintInNext, PutOff
  <2>4. IsWindowFrame(next')
    <3>1. WindowInv'
      BY DeferDrawInv
    <3> QED BY <3>1 DEF WindowInv, FramesOK
  <2>5. /\ ItemsOf(next', d) = {} /\ KeysOf(next', d) = {} /\ PaintKeysOf(next', d) = {}
        /\ d.to.items <= Len(next'.items) /\ d.to.keys <= Len(next'.keys)
           /\ d.paintTo.keys <= Len(next'.keys)
    BY <1>2, <2>4, PutOffEmpty
  <2>6. DrawItems(n)' = {} /\ DrawKeys(n)' = {} /\ DrawPaintKeys(n)' = {}
    BY <2>3, <2>5 DEF DrawItems, DrawKeys, DrawPaintKeys
  <2>7. DrawOK(n)'
    BY <1>1, <1>3, <2>3, <2>5, <2>6 DEF DrawOK, Seen, NoTops
  <2> QED BY <2>2, <2>7
<1>11. DeferredOK'
  BY <1>1, <1>4, <1>5, <1>9, <1>10, FirstDeferred DEF SeenInv
<1>12. CachesOK'
  <2>1. \A c \in Top \cap WithState(next') :
          c \in WithState(next) /\ next'.states[CacheKey(c)] = next.states[CacheKey(c)]
    BY <1>1 DEF WithState
  <2> QED BY <1>5, <2>1, FirstCaches DEF SeenInv
<1> QED BY <1>1, <1>5, <1>6, <1>7, <1>11, <1>12, FirstKeeps

\* A call for each deferred draw, and one that ends.
Queue(l, a, e) == [n \in 1..l |-> [do |-> a, draw |-> n]] \o <<e>>

\* A call for each deferred draw, and one to end with.
LEMMA QueueIs ==
  ASSUME NEW l \in Nat, NEW a, NEW e, NEW s, s = Queue(l, a, e)
  PROVE  /\ l + 1 \in Nat /\ Len(s) = l + 1 /\ DOMAIN s = 1..(l + 1) /\ s[l + 1] = e
         /\ \A n \in 1..l : s[n].do = a /\ s[n].draw = n
         /\ \A n \in 1..(l + 1) : n \in 1..l \/ n = l + 1
<1> DEFINE D == [n \in 1..l |-> [do |-> a, draw |-> n]]
           C == {[do |-> a, draw |-> n] : n \in 1..l} \cup {e}
<1>1. D \in Seq(C) /\ Len(D) = l /\ \A n \in 1..l : D[n].do = a /\ D[n].draw = n
  <2>1. D \in [1..l -> C]
    OBVIOUS
  <2>2. D \in Seq(C)
    <3> HIDE DEF D, C
    <3> QED BY <2>1 DEF Seq
  <2>3. Len(D) = l
    BY <2>2
  <2> QED BY <2>2, <2>3
<1>2. <<e>> \in Seq(C) /\ Len(<<e>>) = 1 /\ <<e>>[1] = e
  OBVIOUS
<1>3. s = D \o <<e>>
  BY DEF Queue
<1> HIDE DEF D, C
<1>4. PICK t : t = <<e>>
  OBVIOUS
<1>5. /\ Len(s) = l + 1 /\ DOMAIN s = 1..(l + 1)
      /\ \A n \in 1..l : s[n] = D[n]
      /\ \A n \in 1..1 : s[l + n] = t[n]
  <2>1. t \in Seq(C) /\ Len(t) = 1 /\ s = D \o t
    BY <1>2, <1>3, <1>4
  <2>2. D \in Seq(C) /\ Len(D) = l
    BY <1>1
  <2>3. \A x, y \in Seq(C) :
          /\ Len(x \o y) = Len(x) + Len(y) /\ DOMAIN (x \o y) = 1..(Len(x) + Len(y))
          /\ \A n \in 1..Len(x) : (x \o y)[n] = x[n]
          /\ \A n \in 1..Len(y) : (x \o y)[Len(x) + n] = y[n]
    BY Appended
  <2>4. Len(s) = l + 1 /\ DOMAIN s = 1..(l + 1)
    BY <2>1, <2>2, <2>3
  <2>5. \A n \in 1..l : s[n] = D[n]
    BY <2>1, <2>2, <2>3
  <2>6. \A n \in 1..1 : s[l + n] = t[n]
    BY <2>1, <2>2, <2>3
  <2> QED BY <2>4, <2>5, <2>6
<1>6. s[l + 1] = e
  BY <1>2, <1>4, <1>5
<1>7. l + 1 \in Nat /\ \A n \in 1..(l + 1) : n \in 1..l \/ n = l + 1
  OBVIOUS
<1> QED BY <1>1, <1>5, <1>6, <1>7

\* The second part begins: for each deferred draw there is a call.
LEMMA DeferredQueued ==
  ASSUME WindowInv, BeginDeferred, NEW l, l = Len(next.deferred)
  PROVE  /\ phase = "prepaint" /\ First /\ l \in Nat
            /\ todo' = Queue(l, "deferred", [do |-> "end prepaint"])
         /\ DOMAIN next.deferred = 1..l /\ next.deferred \in Seq(DeferredDraws) /\ draws' = next.deferred
         /\ next'.items = next.items /\ next'.keys = next.keys /\ next'.states = next.states
         /\ Goes(<<>>, <<>>) /\ Kept(rendered', rendered)
         /\ UNCHANGED <<phase, marked, refreshing, rendered, accessed, built, fresh, owed, dirtyViews>>
<1>1. phase = "prepaint" /\ First
  <2>1. phase = "prepaint"
    BY InPrepaint DEF BeginDeferred
  <2>2. todo # <<>> /\ Call.do = "deferred draws" /\ Call = todo[1]
    BY HeadCall DEF BeginDeferred, Calling
  <2>3. 1 \in DOMAIN todo
    <3>1. todo \in Seq(PrepaintStack(Len(draws)))
      BY <2>1, PrepaintTodo
    <3>2. Len(todo) \in Nat /\ Len(todo) # 0 /\ DOMAIN todo = 1..Len(todo)
      BY <2>2, <3>1, EmptySeq, LenProperties
    <3> QED BY <3>2, OneOf
  <2>4. Call \in Doing("deferred draws")
    BY <2>2, <2>3 DEF Doing, All
  <2> QED BY <2>1, <2>4 DEF First
<1>2. IsWindowFrame(next)
  BY DrawTypes
<1>3. /\ next.deferred \in Seq(DeferredDraws) /\ l \in Nat /\ DOMAIN next.deferred = 1..l
  <2>1. next.deferred \in Seq(DeferredDraws)
    BY <1>2 DEF IsWindowFrame
  <2> QED BY <2>1, LenProperties
<1>4. /\ todo' = Queue(l, "deferred", [do |-> "end prepaint"]) /\ draws' = next.deferred
      /\ next' = [next EXCEPT !.deferred = <<>>]
      /\ UNCHANGED <<state, invalidatorVars, marked, refreshing, rendered, tracked, accessed, callbacks,
                     at, built, fresh, owed, focusVars>>
  BY <1>3, Zenon DEF BeginDeferred, Queue
<1>5. next'.items = next.items /\ next'.keys = next.keys /\ next'.states = next.states
  BY <1>2, <1>4 DEF IsWindowFrame, FrameOf
<1>6. More(next', next, <<>>, <<>>)
  <2>1. \A S : \A list \in Seq(S) : list \o <<>> = list /\ <<>> \in Seq(S)
    BY ConcatEmptySeq
  <2> QED BY <1>2, <1>5, <2>1 DEF More, IsWindowFrame
<1>7. Goes(<<>>, <<>>) /\ Kept(rendered', rendered)
  <2>1. \A u \in Views : Unseen(u)' => Unseen(u)
    BY <1>4 DEF Unseen, invalidatorVars
  <2>2. Kept(rendered', rendered)
    BY <1>4 DEF Kept
  <2> QED BY <1>4, <1>6, <2>1, <2>2 DEF Goes
<1> QED BY <1>1, <1>3, <1>4, <1>5, <1>7 DEF invalidatorVars

-----------------------------------------------------------------------------
(* A step in the second part of the prepaint, that of what is deferred.    *)

\* What a step that renders nothing is to a deferred draw.
DrawGoes(n) ==
  /\ DrawOK(n)' /\ DrawList[n].view \in Views /\ DrawList'[n].view = DrawList[n].view
  /\ DrawItems(n)' \subseteq DrawItems(n) \cup (Sub(DrawList[n].view) \cap fresh)
DrawsGo(l) ==
  /\ l \in Nat /\ Len(DrawList) = l /\ Len(DrawList') = l
  /\ DOMAIN DrawList = 1..l /\ DOMAIN DrawList' = 1..l
  /\ \A n \in 1..l : DrawGoes(n)
\* The caches in the frame stay.
SameStates ==
  \A u \in Views : /\ CacheKey(u) \in DOMAIN next'.states <=> CacheKey(u) \in DOMAIN next.states
                   /\ CacheKey(u) \in DOMAIN next.states => next'.states[CacheKey(u)] = next.states[CacheKey(u)]

\* The caches stay, as their deferred draws go on.
LEMMA CachesGo ==
  ASSUME WindowInv, CachesOK, Drawing, NEW I, NEW K, Goes(I, K), fresh' = fresh, SameStates,
         \A c \in Top \cap WithState(next) : CacheInNext(c)' <=> CacheInNext(c), NEW l, DrawsGo(l)
  PROVE  CachesOK'
<1>1. ASSUME NEW c \in Top \cap WithState(next') PROVE CacheOK(c, next.states[CacheKey(c)])'
  <2>1. c \in Views
    BY <1>1, TopIs
  <2>2. CacheKey(c) \in DOMAIN next.states /\ next'.states[CacheKey(c)] = next.states[CacheKey(c)]
    BY <1>1, <2>1 DEF SameStates, WithState
  <2>3. PICK k : k = next.states[CacheKey(c)] /\ k = next'.states[CacheKey(c)]
    BY <2>2
  <2>4. k \in Caches
    <3>1. IsWindowFrame(next)
      BY DrawTypes
    <3> QED BY <2>1, <2>2, <2>3, <3>1 DEF IsWindowFrame, CachesTyped
  <2>5. CacheOK(c, k)
    BY <1>1, <2>1, <2>2, <2>3 DEF CachesOK, WithState
  <2>6. /\ Len(DrawList) \in Nat /\ Len(DrawList') \in Nat /\ Len(DrawList) <= Len(DrawList')
        /\ DOMAIN DrawList = 1..Len(DrawList) /\ DOMAIN DrawList' = 1..Len(DrawList')
    BY Within DEF DrawsGo
  <2>7. \A n \in DOMAIN DrawList : /\ DrawList'[n].view = DrawList[n].view /\ DrawList[n].view \in Views
                                   /\ DrawItems(n)' \subseteq DrawItems(n) \cup (Sub(DrawList[n].view) \cap fresh)
    BY DEF DrawsGo, DrawGoes
  <2>9. CacheInNext(c)' <=> CacheInNext(c)
    BY <1>1, <2>1, <2>2 DEF WithState
  <2>8. CacheOK(c, k)'
    BY <1>1, <2>9, <2>4, <2>5, <2>6, <2>7, CacheStays
  <2> QED BY <2>3, <2>8
<1> QED BY <1>1 DEF CachesOK

\* What keeps the invariant, once what is deferred is prepainted.
LEMMA SecondKeeps ==
  ASSUME WindowInv, SeenInv, phase = "prepaint", phase' = "prepaint", ~First',
         NEW I, NEW K, Goes(I, K), marked' = marked, built' = built, fresh' = fresh, SameStates,
         \A c \in Top : CacheKey(c) \notin All(K), ViewsIn(I) \subseteq accessed', Seen(ViewsIn(I)),
                        ViewsIn(I) \subseteq Views,
         NEW l, DrawsGo(l), StackOK', PendingOK', DrawsOK'
  PROVE  SeenInv'
<1>1. /\ Kept(rendered', rendered) /\ Drawing /\ IsWindowFrame(next) /\ IsWindowFrame(rendered)
         /\ More(next', next, I, K)
      /\ \A u \in Views : Unseen(u)' => Unseen(u)
  BY DrawTypes DEF Goes, Drawing
<1>2. LastOK'
  BY <1>1, LastStays DEF SeenInv
<1>3. FreshOK'
  BY <1>1, FreshStays DEF SeenInv
<1>4. MovedOK'
  <2>1. /\ \A c \in Top : CacheKey(c) \in All(next.keys) \cup DOMAIN next.states => CacheKey(c) \notin DOMAIN rendered.states
        /\ WithState(next) \subseteq Cached /\ WithState(next) \ Top \subseteq fresh
    BY <1>1 DEF SeenInv, MovedOK
  <2>2. WithState(next') = WithState(next)
    BY DEF WithState, SameStates
  <2>3. All(next'.keys) = All(next.keys) \cup All(K)
    BY <1>1, AfterGrows
  <2>4. Top \subseteq Views
    BY TopIs
  <2>5. \A c \in Top : CacheKey(c) \in All(next'.keys) \cup DOMAIN next'.states => CacheKey(c) \notin DOMAIN rendered'.states
    BY <1>1, <2>1, <2>3, <2>4 DEF SameStates, Kept
  <2> QED BY <2>1, <2>2, <2>5 DEF MovedOK
<1>5. CachesOK'
  <2>1. \A c \in Top : CacheInNext(c)' <=> CacheInNext(c)
    BY DEF CacheInNext
  <2> QED BY <1>1, <2>1, CachesGo DEF SeenInv
<1>6. DeferredOK'
  BY DEF DrawsGo, DrawGoes, DeferredOK
<1>7. EndsOK'
  <2>1. Len(todo') \in Calls("end prepaint")'
        /\ \A i \in DOMAIN todo' \ {Len(todo')} : todo'[i].do \in {"prepaint", "defer", "deferred", "end deferred"}
    BY DEF StackOK
  <2>2. \A i \in DOMAIN todo' : todo'[i].do # "end cached"
    BY <2>1 DEF Calls
  <2>3. EndCalls' = {}
    BY <2>2 DEF EndCalls, Calls
  <2> QED BY <2>3 DEF EndsOK
<1>8. PaintsOK'
  BY DEF PaintsOK
<1>9. NotifiedOK'
  <2>1. Shown' = Shown
    BY <1>1 DEF Shown, Kept
  <2>2. Shown \subseteq Views
    BY <1>1, ViewsTyped DEF Shown
  <2>3. \A u \in Shown : Unseen(u) => Holders[u] \subseteq marked
    BY DEF SeenInv, NotifiedOK
  <2>4. \A u \in Shown' : Unseen(u)' => Holders[u] \subseteq marked'
    BY <1>1, <2>1, <2>2, <2>3
  <2> QED BY <2>4 DEF NotifiedOK
<1> QED BY <1>2, <1>3, <1>4, <1>5, <1>6, <1>7, <1>8, <1>9 DEF SeenInv

\* What is deferred begins to be prepainted.
LEMMA BeginDeferredSeen == ASSUME WindowInv, SeenInv, BeginDeferred PROVE SeenInv'
<1>1. PICK l : l = Len(next.deferred)
  OBVIOUS
<1>2. /\ phase = "prepaint" /\ First /\ l \in Nat /\ todo' = Queue(l, "deferred", [do |-> "end prepaint"])
      /\ DOMAIN next.deferred = 1..l /\ next.deferred \in Seq(DeferredDraws) /\ draws' = next.deferred
      /\ next'.items = next.items /\ next'.keys = next.keys /\ next'.states = next.states
      /\ Goes(<<>>, <<>>) /\ Kept(rendered', rendered)
      /\ UNCHANGED <<phase, marked, refreshing, rendered, accessed, built, fresh, owed, dirtyViews>>
  BY <1>1, DeferredQueued
<1>0. l \in Nat
  BY <1>2
<1>x. PICK e : e = [do |-> "end prepaint"]
  OBVIOUS
<1>e. e.do = "end prepaint"
  BY <1>x, Zenon
<1>3. /\ l + 1 \in Nat /\ Len(todo') = l + 1 /\ DOMAIN todo' = 1..(l + 1) /\ todo'[l + 1] = e
      /\ \A n \in 1..l : todo'[n].do = "deferred" /\ todo'[n].draw = n
      /\ \A n \in 1..(l + 1) : n \in 1..l \/ n = l + 1
  <2>1. PICK s : s = todo'
    OBVIOUS
  <2>2. s = Queue(l, "deferred", e) /\ l \in Nat
    BY <1>2, <1>x, <2>1, Zenon
  <2>3. /\ l + 1 \in Nat /\ Len(s) = l + 1 /\ DOMAIN s = 1..(l + 1) /\ s[l + 1] = e
        /\ \A n \in 1..l : s[n].do = "deferred" /\ s[n].draw = n
        /\ \A n \in 1..(l + 1) : n \in 1..l \/ n = l + 1
    BY <2>2, QueueIs
  <2> QED BY <2>1, <2>3
<1>4. todo'[l + 1].do = "end prepaint" /\ l + 1 \in DOMAIN todo'
  <2>1. l + 1 \in DOMAIN todo'
    <3>1. l + 1 \in 1..(l + 1)
      BY <1>0
    <3> QED BY <1>0, <1>3, <3>1
  <2> QED BY <1>3, <1>e, <2>1, Zenon
<1>5. \A i \in DOMAIN todo' : todo'[i].do \in {"deferred", "end prepaint"}
  BY <1>3, <1>4
<1>6. phase' = "prepaint" /\ ~First'
  <2>1. \A i \in DOMAIN todo' : todo'[i].do # "deferred draws"
    BY <1>5
  <2>2. Doing("deferred draws")' = {}
    BY <2>1 DEF Doing, All
  <2> QED BY <1>2, <2>2 DEF First
<1>7. DrawList = next.deferred /\ DrawList' = next.deferred
  BY <1>2, <1>6 DEF DrawList
<1>8. StackOK'
  <2>1. Len(todo') \in Calls("end prepaint")'
    BY <1>3, <1>4 DEF Calls
  <2>2. \A i \in DOMAIN todo' : todo'[i].do # "layout"
    BY <1>5
  <2>3. Calls("layout")' = {}
    BY <2>2 DEF Calls
  <2>4. \A i \in DOMAIN todo' \ {Len(todo')} : todo'[i].do \in {"prepaint", "defer", "deferred", "end deferred"}
    BY <1>3
  <2> QED BY <1>6, <2>1, <2>3, <2>4 DEF StackOK
<1>9. PendingOK'
  <2>1. \A i \in DOMAIN todo' : todo'[i].do # "prepaint" /\ todo'[i].do # "defer"
    BY <1>5
  <2>2. Calls("prepaint")' = {} /\ Calls("defer")' = {}
    BY <2>1 DEF Calls
  <2> QED BY <1>6, <2>2 DEF PendingOK
<1>10. DrawsOK'
  <2>1. \A i \in DOMAIN todo' : todo'[i].do # "end deferred"
    BY <1>5
  <2>2. EndDraws' = {}
    BY <2>1 DEF EndDraws, Calls
  <2>3. \A i \in Calls("deferred")' : todo'[i].draw = i
    <3>1. ASSUME NEW i \in DOMAIN todo', todo'[i].do = "deferred" PROVE todo'[i].draw = i
      <4>1. i # l + 1
        BY <1>4, <3>1
      <4> QED BY <1>3, <3>1, <4>1
    <3> QED BY <3>1 DEF Calls
  <2> QED BY <2>2, <2>3 DEF DrawsOK
<1>11. ASSUME NEW n \in 1..l PROVE DrawGoes(n)
  <2>1. DrawList[n] \in DeferredDraws /\ DrawList'[n] = DrawList[n]
    BY <1>1, <1>2, <1>7, <1>11, ElementOfSeq
  <2>2. n \in DrawsTo("deferred")'
    <3>1. n \in DOMAIN todo' /\ todo'[n].do = "deferred" /\ todo'[n].draw = n
      <4>1. \A i \in 1..l : i \in 1..(l + 1)
        BY <1>0
      <4> QED BY <1>3, <1>11, <4>1
    <3>2. todo'[n] \in Doing("deferred")'
      BY <3>1 DEF Doing, All
    <3> QED BY <3>1, <3>2 DEF DrawsTo
  <2>3. /\ InNext(n)' <=> InNext(n)
        /\ PaintInNext(n)' <=> PaintInNext(n)
    BY <1>2, <2>1, <2>2 DEF InNext, PaintInNext
  <2>4. SameDraw(n)
    BY <1>6, <2>1, <2>3 DEF SameDraw
  <2>5. DrawOK(n)
    BY <1>2, <1>7, <1>11 DEF SeenInv, DeferredOK, Drawing
  <2>6. DrawOK(n)' /\ DrawItems(n)' = DrawItems(n)
    BY <1>2, <2>1, <2>4, <2>5, DrawStays
  <2> QED BY <2>1, <2>6 DEF DrawGoes, DeferredDraws
<1>12. DrawsGo(l)
  BY <1>1, <1>2, <1>7, <1>11 DEF DrawsGo
<1>13. SameStates
  BY <1>2 DEF SameStates
<1> QED BY <1>2, <1>6, <1>8, <1>9, <1>10, <1>12, <1>13, Empties, SecondKeeps DEF Seen

\* It calls for more prepainting.
SecondStep(I, K, new) ==
  /\ phase = "prepaint" /\ ~First /\ phase' = phase
  /\ Goes(I, K) /\ marked' = marked /\ built' = built /\ fresh' = fresh /\ SameStates
  /\ (\A c \in Top : CacheKey(c) \notin All(K)) /\ ViewsIn(I) \subseteq fresh' \cup accessed'
  /\ ViewsIn(I) \subseteq accessed' /\ Seen(ViewsIn(I)) /\ ViewsIn(I) \subseteq Views
  /\ todo # <<>> /\ todo' = new \o Tail(todo) /\ new \in Seq(PrepaintStack(Len(draws)))
  /\ Call.do \in {"prepaint", "defer", "deferred", "end deferred"}
  /\ \A x \in All(new) : /\ x.do \in {"prepaint", "defer", "end deferred"}
                         /\ x.do \in {"prepaint", "defer"} => x.view \in fresh
                                                              /\ Sub(x.view) \cap Cached = {}

\* The calls in that part of the prepaint,
LEMMA SecondMoves ==
  ASSUME WindowInv, NEW I, NEW K, NEW new, SecondStep(I, K, new)
  PROVE  /\ Moves(new) /\ phase = "prepaint" /\ phase' = "prepaint" /\ ~First' /\ Goes(I, K)
         /\ todo # <<>> /\ todo \in Seq(PrepaintStack(Len(draws))) /\ new \in Seq(PrepaintStack(Len(draws)))
         /\ todo' = new \o Tail(todo)
<1>1. phase = "prepaint" /\ phase' = "prepaint" /\ ~First /\ Goes(I, K)
  BY DEF SecondStep
<1>2. todo # <<>> /\ todo' = new \o Tail(todo) /\ new \in Seq(PrepaintStack(Len(draws)))
  BY DEF SecondStep
<1>3. todo \in Seq(PrepaintStack(Len(draws)))
  BY <1>1, PrepaintTodo
<1>4. PICK S : S = PrepaintStack(Len(draws))
  OBVIOUS
<1>5. todo \in Seq(S) /\ new \in Seq(S)
  BY <1>2, <1>3, <1>4
<1>6. Moves(new)
  BY <1>2, <1>5, CallsMove
<1>7. ~First'
  <2>1. \A x \in All(new) : x.do \in {"prepaint", "defer", "end deferred"}
    BY DEF SecondStep
  <2>2. \A x \in All(new) : x.do # "deferred draws"
    BY <2>1
  <2>3. Doing("deferred draws")' \subseteq Doing("deferred draws")
    BY <1>2, <1>5, <2>2, DoingStep
  <2>4. Doing("deferred draws") = {}
    BY <1>1 DEF First
  <2> QED BY <2>3, <2>4 DEF First
<1> QED BY <1>1, <1>2, <1>3, <1>6, <1>7

\* which stay what they are,
LEMMA SecondStack ==
  ASSUME WindowInv, SeenInv, NEW I, NEW K, NEW new, SecondStep(I, K, new)
  PROVE  StackOK' /\ PendingOK'
<1>1. Moves(new) /\ phase = "prepaint" /\ phase' = "prepaint" /\ ~First'
  BY SecondMoves
<1>2. ~First /\ StackOK /\ PendingOK
  BY DEF SeenInv, SecondStep
<1>3. /\ Len(todo) \in Calls("end prepaint")
      /\ \A i \in DOMAIN todo \ {Len(todo)} : todo[i].do \in {"prepaint", "defer", "deferred", "end deferred"}
  BY <1>1, <1>2 DEF StackOK
<1>4. Call.do \in {"prepaint", "defer", "deferred", "end deferred"}
  BY DEF SecondStep
<1>5. \A x \in All(new) : /\ x.do \in {"prepaint", "defer", "end deferred"}
                          /\ x.do \in {"prepaint", "defer"} => x.view \in fresh
                                                               /\ Sub(x.view) \cap Cached = {}
  BY DEF SecondStep
<1>6. \A j \in DOMAIN new : /\ new[j].do \in {"prepaint", "defer", "end deferred"}
                            /\ new[j].do \in {"prepaint", "defer"} => new[j].view \in fresh
                                                                      /\ Sub(new[j].view) \cap Cached = {}
  BY <1>5 DEF All
<1>7. Len(todo) # 1
  <2>1. todo[Len(todo)].do = "end prepaint"
    BY <1>3 DEF Calls
  <2>2. Call = todo[1] /\ Call.do # "end prepaint"
    BY <1>1, <1>4 DEF Moves
  <2> QED BY <2>1, <2>2
<1>8. PICK l : l = Len(todo)
  OBVIOUS
<1>9. l \in 2..Len(todo) /\ Len(todo') = Len(new) + l - 1 /\ l \in Nat
  <2>1. 1 \in 1..l /\ l \in Nat /\ l # 1
    BY <1>1, <1>7, <1>8 DEF Moves
  <2>2. l \in 2..l
    BY <2>1
  <2> QED BY <1>1, <1>8, <2>1, <2>2 DEF Moves
<1>10. Len(todo') \in DOMAIN todo' /\ todo'[Len(todo')] = todo[l]
  BY <1>1, <1>9 DEF Moves
<1>11. Len(todo') \in Calls("end prepaint")'
  <2>1. todo[l].do = "end prepaint"
    BY <1>3, <1>8 DEF Calls
  <2> QED BY <1>10, <2>1 DEF Calls
<1>12. ASSUME NEW i \in DOMAIN todo' \ {Len(todo')}
       PROVE  todo'[i].do \in {"prepaint", "defer", "deferred", "end deferred"}
  <2>1. CASE i \in DOMAIN new /\ todo'[i] = new[i]
    BY <1>6, <2>1
  <2>2. CASE \E o \in 2..Len(todo) : i = Len(new) + o - 1 /\ todo'[i] = todo[o]
    <3>1. PICK o \in 2..Len(todo) : i = Len(new) + o - 1 /\ todo'[i] = todo[o]
      BY <2>2
    <3>2. o # l
      BY <1>9, <1>12, <3>1
    <3>3. o \in DOMAIN todo
      <4>1. DOMAIN todo = 1..Len(todo) /\ Len(todo) \in Nat
        BY <1>1 DEF Moves
      <4>2. o \in 1..Len(todo)
        BY <3>1, <4>1, TwoOn
      <4> QED BY <4>1, <4>2
    <3> QED BY <1>3, <1>8, <3>1, <3>2, <3>3
  <2> QED BY <1>1, <1>12, <2>1, <2>2 DEF Moves
<1>13. \A i \in DOMAIN todo' : todo'[i].do # "layout"
  <2>1. todo'[Len(todo')].do = "end prepaint"
    BY <1>11 DEF Calls
  <2> QED BY <1>12, <2>1
<1>14. StackOK'
  <2>1. Calls("layout")' = {}
    BY <1>13 DEF Calls
  <2> QED BY <1>1, <1>11, <1>12, <2>1 DEF StackOK
<1>15. ASSUME NEW what \in {"prepaint", "defer"}, NEW i \in Calls(what)'
       PROVE  todo'[i].view \in fresh' /\ Sub(todo'[i].view) \cap Cached = {}
  <2>1. CASE i \in DOMAIN new /\ todo'[i] = new[i] /\ new[i].do = what
    <3>1. fresh' = fresh
      BY DEF SecondStep
    <3> QED BY <1>6, <1>15, <2>1, <3>1
  <2>2. CASE \E o \in Calls(what) : todo'[i] = todo[o]
    <3>1. PICK o \in Calls(what) : todo'[i] = todo[o]
      BY <2>2
    <3>2. todo[o].view \in fresh /\ Sub(todo[o].view) \cap Cached = {}
      BY <1>1, <1>2, <1>15 DEF PendingOK
    <3>3. fresh' = fresh
      BY DEF SecondStep
    <3> QED BY <3>1, <3>2, <3>3
  <2> QED BY <1>1, <1>15, <2>1, <2>2 DEF Moves
<1>16. PendingOK'
  BY <1>1, <1>15 DEF PendingOK
<1> QED BY <1>14, <1>16

\* so the invariant holds, if it does of the deferred draws.
LEMMA SecondFinish ==
  ASSUME WindowInv, SeenInv, NEW I, NEW K, NEW new, SecondStep(I, K, new), NEW l, DrawsGo(l), DrawsOK'
  PROVE  SeenInv'
<1>1. phase = "prepaint" /\ phase' = "prepaint" /\ ~First' /\ Goes(I, K)
  BY SecondMoves
<1>2. StackOK' /\ PendingOK'
  BY SecondStack
<1>3. /\ marked' = marked /\ built' = built /\ fresh' = fresh /\ SameStates
      /\ (\A c \in Top : CacheKey(c) \notin All(K))
      /\ ViewsIn(I) \subseteq accessed' /\ Seen(ViewsIn(I)) /\ ViewsIn(I) \subseteq Views
  BY DEF SecondStep
<1> QED BY <1>1, <1>2, <1>3, SecondKeeps

\* What is still to be prepainted or reused is.
LEMMA DeferredStay ==
  ASSUME WindowInv, NEW I, NEW K, NEW new, SecondStep(I, K, new)
  PROVE  /\ DrawsTo("deferred")' \subseteq DrawsTo("deferred")
         /\ \A n \in DrawsTo("deferred") : (Call.do = "deferred" => Call.draw # n) => n \in DrawsTo("deferred")'
<1>1. /\ todo # <<>> /\ todo \in Seq(PrepaintStack(Len(draws))) /\ new \in Seq(PrepaintStack(Len(draws)))
      /\ todo' = new \o Tail(todo)
  BY SecondMoves
<1>2. PICK S : S = PrepaintStack(Len(draws))
  OBVIOUS
<1>3. todo \in Seq(S) /\ new \in Seq(S)
  BY <1>1, <1>2
<1>4. \A x \in All(new) : x.do # "deferred"
  BY DEF SecondStep
<1>5. Doing("deferred")' \subseteq Doing("deferred")
      /\ Doing("deferred") \subseteq Doing("deferred")' \cup {Call}
  BY <1>1, <1>3, <1>4, DoingStep
<1>6. \A x \in Doing("deferred") : x.do = "deferred"
  BY DEF Doing
<1> QED BY <1>5, <1>6 DEF DrawsTo

\* A deferred draw that does not change goes on.
LEMMA SecondSame ==
  ASSUME WindowInv, SeenInv, NEW I, NEW K, NEW new, SecondStep(I, K, new),
         NEW n \in DOMAIN draws, draws'[n] = draws[n],
         draws[n].fresh \/ Call.do # "deferred" \/ Call.draw # n
  PROVE  DrawGoes(n)
<1>1. phase = "prepaint" /\ phase' = "prepaint" /\ ~First' /\ Goes(I, K) /\ ~First
  BY SecondMoves DEF SecondStep
<1>2. DrawList = draws /\ DrawList' = draws'
  BY <1>1 DEF DrawList
<1>3. draws[n] \in DeferredDraws
  <2>1. draws \in Seq(DeferredDraws)
    BY DrawTypes
  <2>2. DOMAIN draws = 1..Len(draws)
    BY <2>1, LenProperties
  <2> QED BY <2>1, <2>2, ElementOfSeq
<1>5. InNext(n)' <=> InNext(n)
  <2>1. draws[n].fresh \/ (n \in DrawsTo("deferred")' <=> n \in DrawsTo("deferred"))
    BY DeferredStay
  <2> QED BY <1>1, <1>2, <2>1 DEF InNext
<1>6. SameDraw(n)
  BY <1>1, <1>2, <1>5 DEF SameDraw, PaintInNext
<1>7. DrawOK(n)
  BY <1>1, <1>2 DEF SeenInv, DeferredOK, Drawing
<1>8. DrawOK(n)' /\ DrawItems(n)' = DrawItems(n)
  BY <1>1, <1>2, <1>3, <1>6, <1>7, DrawStays
<1> QED BY <1>2, <1>3, <1>8 DEF DrawGoes, DeferredDraws

\* The deferred draws are counted as before.
LEMMA SecondDraws ==
  ASSUME WindowInv, NEW I, NEW K, NEW new, SecondStep(I, K, new), NEW l, l = Len(draws), Len(draws') = l,
         draws' \in Seq(DeferredDraws), \A n \in 1..l : DrawGoes(n)
  PROVE  DrawsGo(l)
<1>1. ~First' /\ ~First
  BY SecondMoves DEF SecondStep
<1>2. DrawList = draws /\ DrawList' = draws'
  BY <1>1 DEF DrawList
<1>3. l \in Nat /\ DOMAIN draws = 1..l /\ DOMAIN draws' = 1..l
  <2>1. draws \in Seq(DeferredDraws)
    BY DrawTypes
  <2> QED BY <2>1, LenProperties
<1> QED BY <1>2, <1>3 DEF DrawsGo

\* What is after the first has the first before it.
LEMMA Below == \A n \in Nat : \A j \in 1..n : j # 1 => 1 \in 1..(j - 1)
OBVIOUS

\* No deferred draw is in another.
LEMMA NoEnds ==
  ASSUME WindowInv, SeenInv, phase = "prepaint", todo # <<>>, Call.do \in {"deferred", "end deferred"}
  PROVE  \A j \in EndDraws : j = 1
<1>1. ASSUME NEW j \in EndDraws, j # 1 PROVE FALSE
  <2>1. /\ Len(todo) \in Nat /\ DOMAIN todo = 1..Len(todo) /\ todo \in Seq(PrepaintStack(Len(draws)))
    BY PrepaintTodo
  <2>2. j \in DOMAIN todo
    BY <1>1 DEF EndDraws, Calls
  <2>3. \A i \in 1..(j - 1) : i \in Pending
    BY <1>1 DEF SeenInv, DrawsOK, EndDrawOK
  <2>4. 1 \in 1..(j - 1)
    BY <1>1, <2>1, <2>2, Below, Zenon
  <2>5. todo[1].do \in {"prepaint", "defer"}
    BY <2>3, <2>4 DEF Pending, Calls
  <2>6. Call = todo[1]
    BY HeadCall
  <2> QED BY <2>5, <2>6
<1> QED BY <1>1

\* What is prepainted of a deferred view is in it.
LEMMA SecondEnds ==
  ASSUME WindowInv, SeenInv, NEW I, NEW K, NEW new, SecondStep(I, K, new), draws' = draws,
         NEW v, v = Call.view, v \in Views, Call.do \in {"prepaint", "defer"},
         ViewsIn(I) \subseteq Sub(v) \cap fresh, NoTops(All(K)),
         \A x \in All(new) : x.do \in {"prepaint", "defer"} /\ x.view \in Sub(v)
  PROVE  DrawsOK'
<1>1. Moves(new) /\ phase = "prepaint" /\ phase' = "prepaint" /\ Goes(I, K) /\ todo # <<>>
  BY SecondMoves
<1>2. /\ \A i, j \in Calls("deferred") \cup EndDraws : todo[i].draw = todo[j].draw => i = j
      /\ \A j \in EndDraws : EndDrawOK(j, todo[j], draws[todo[j].draw].view)
  BY <1>1 DEF SeenInv, DrawsOK
<1>3. \A j \in DOMAIN new : new[j].do \in {"prepaint", "defer"} /\ new[j].view \in Sub(v)
  BY DEF All
<1>4. ASSUME NEW j \in Calls("deferred")' \cup EndDraws'
      PROVE  \E o \in Calls("deferred") \cup EndDraws :
               o \in 2..Len(todo) /\ j = Len(new) + o - 1 /\ todo'[j] = todo[o]
               /\ (j \in EndDraws' => o \in EndDraws)
  <2>1. CASE j \in Calls("deferred")'
    <3>1. ~(j \in DOMAIN new /\ new[j].do = "deferred")
      BY <1>3
    <3>2. \E o \in Calls("deferred") : o \in 2..Len(todo) /\ j = Len(new) + o - 1 /\ todo'[j] = todo[o]
      BY <1>1, <2>1, <3>1 DEF Moves
    <3>3. j \notin EndDraws'
      BY <2>1 DEF EndDraws, Calls
    <3> QED BY <3>2, <3>3
  <2>2. CASE j \in EndDraws'
    <3>1. ~(j \in DOMAIN new /\ new[j].do = "end deferred")
      BY <1>3
    <3>2. \E o \in Calls("end deferred") : o \in 2..Len(todo) /\ j = Len(new) + o - 1 /\ todo'[j] = todo[o]
      <4>1. \A what : \A i \in Calls(what)' :
              \/ i \in DOMAIN new /\ todo'[i] = new[i] /\ new[i].do = what
              \/ \E o \in Calls(what) : o \in 2..Len(todo) /\ i = Len(new) + o - 1 /\ todo'[i] = todo[o]
        BY <1>1 DEF Moves
      <4>2. j \in Calls("end deferred")'
        BY <2>2 DEF EndDraws
      <4> QED BY <3>1, <4>1, <4>2, Zenon
    <3> QED BY <3>2 DEF EndDraws
  <2> QED BY <1>4, <2>1, <2>2
<1>5. ASSUME NEW j \in EndDraws' PROVE EndDrawOK(j, todo[j], draws[todo[j].draw].view)'
  <2>1. PICK o \in EndDraws : o \in 2..Len(todo) /\ j = Len(new) + o - 1 /\ todo'[j] = todo[o]
    <3>1. \E o \in Calls("deferred") \cup EndDraws :
               o \in 2..Len(todo) /\ j = Len(new) + o - 1 /\ todo'[j] = todo[o]
               /\ (j \in EndDraws' => o \in EndDraws)
      BY <1>4, <1>5
    <3> QED BY <1>5, <3>1
  <2>2. PICK e, w : e = todo[o] /\ w = draws[e.draw].view
    OBVIOUS
  <2>3. EndDrawOK(o, e, w)
    BY <1>2, <2>1, <2>2
  <2>4. e.from.items \in Nat /\ e.from.keys \in Nat
    <3>1. e.from \in FramePlaces
      <4>1. todo[o].do = "end deferred" /\ o \in DOMAIN todo
        BY <2>1 DEF EndDraws, Calls
      <4> QED BY <1>1, <2>2, <4>1, PrepaintTodo
    <3> QED BY <3>1, RangedIs
  <2>5. 1 \in 1..(o - 1) /\ v \in Sub(w)
    <3>1. 1 \in 1..(o - 1)
      <4>1. Len(todo) \in Nat
        BY <1>1 DEF Moves
      <4> QED BY <2>1, <4>1
    <3>2. todo[1].view \in Sub(w)
      BY <2>3, <3>1 DEF EndDrawOK
    <3> QED BY <1>1, <3>1, <3>2 DEF Moves
  <2>7. Sub(v) \subseteq Sub(w)
    <3>1. w \in Views
      <4>1. draws \in Seq(DeferredDraws) /\ Len(draws) \in Nat
        BY DrawTypes, LenProperties
      <4>2. e.draw \in 1..Len(draws)
        <5>1. todo[o].do = "end deferred" /\ o \in DOMAIN todo
          BY <2>1 DEF EndDraws, Calls
        <5> QED BY <1>1, <2>2, <5>1, PrepaintTodo
      <4>3. draws[e.draw] \in DeferredDraws
        BY <4>1, <4>2, ElementOfSeq
      <4> QED BY <2>2, <4>3 DEF DeferredDraws
    <3> QED BY <2>5, <3>1, SubIs
  <2>8. /\ IsWindowFrame(next) /\ More(next', next, I, K)
    BY <1>1, DrawTypes DEF Goes
  <2>9. /\ e.from.items <= Len(next'.items) /\ e.from.keys <= Len(next'.keys)
        /\ ItemsAfter(next', e.from.items) = ItemsAfter(next, e.from.items) \cup ViewsIn(I)
        /\ KeysAfter(next', e.from.keys) = KeysAfter(next, e.from.keys) \cup All(K)
    <3>1. e.from.items <= Len(next.items) /\ e.from.keys <= Len(next.keys)
      BY <2>3 DEF EndDrawOK
    <3>2. /\ \A a \in Nat : a <= Len(next.items) => ItemsAfter(next', a) = ItemsAfter(next, a) \cup ViewsIn(I)
          /\ \A a \in Nat : a <= Len(next.keys) => KeysAfter(next', a) = KeysAfter(next, a) \cup All(K)
          /\ Len(next.items) \in Nat /\ Len(next.keys) \in Nat /\ Len(I) \in Nat /\ Len(K) \in Nat
          /\ Len(next'.items) = Len(next.items) + Len(I) /\ Len(next'.keys) = Len(next.keys) + Len(K)
      BY <2>8, AfterGrows
    <3> QED BY <2>4, <3>1, <3>2, StillWithin
  <2>10. ASSUME NEW i \in 1..(j - 1) PROVE i \in Pending' /\ todo'[i].view \in Sub(w)
    <3>1. i \in DOMAIN todo'
      <4>1. j \in DOMAIN todo' /\ DOMAIN todo' = 1..Len(todo')
        BY <1>1, <2>1 DEF Moves
      <4>2. Len(todo') \in Nat
        BY <1>1, <2>1 DEF Moves
      <4> QED BY <4>1, <4>2
    <3>2. CASE i \in DOMAIN new /\ todo'[i] = new[i]
      <4>1. todo'[i].do \in {"prepaint", "defer"} /\ todo'[i].view \in Sub(v)
        BY <1>3, <3>2
      <4> QED BY <2>7, <3>1, <4>1 DEF Pending, Calls
    <3>3. CASE \E q \in 2..Len(todo) : i = Len(new) + q - 1 /\ todo'[i] = todo[q]
      <4>1. PICK q \in 2..Len(todo) : i = Len(new) + q - 1 /\ todo'[i] = todo[q]
        BY <3>3
      <4>2. q \in 1..(o - 1)
        <5>1. Len(new) \in Nat /\ Len(todo) \in Nat
          BY <1>1 DEF Moves
        <5> QED BY <2>1, <2>10, <4>1, <5>1
      <4>3. q \in Pending /\ todo[q].view \in Sub(w)
        BY <2>3, <4>2 DEF EndDrawOK
      <4> QED BY <3>1, <4>1, <4>3 DEF Pending, Calls
    <3> QED BY <1>1, <3>1, <3>2, <3>3 DEF Moves
  <2>11. fresh' = fresh
    BY DEF SecondStep
  <2>12. draws'[e.draw].fresh
    BY <2>3 DEF EndDrawOK
  <2>13. ItemsAfter(next', e.from.items) \subseteq Sub(w) \cap fresh'
         /\ NoTops(KeysAfter(next', e.from.keys))
    BY <2>3, <2>7, <2>9, <2>11 DEF EndDrawOK, NoTops
  <2>14. EndDrawOK(j, e, w)'
    BY <2>9, <2>10, <2>12, <2>13 DEF EndDrawOK
  <2> QED BY <2>1, <2>2, <2>14
<1>6. ASSUME NEW i \in Calls("deferred")' \cup EndDraws', NEW j \in Calls("deferred")' \cup EndDraws',
             todo'[i].draw = todo'[j].draw
      PROVE  i = j
  <2>1. PICK o \in Calls("deferred") \cup EndDraws : i = Len(new) + o - 1 /\ todo'[i] = todo[o]
    BY <1>4, <1>6
  <2>2. PICK q \in Calls("deferred") \cup EndDraws : j = Len(new) + q - 1 /\ todo'[j] = todo[q]
    BY <1>4, <1>6
  <2>3. o = q
    BY <1>2, <1>6, <2>1, <2>2
  <2> QED BY <2>1, <2>2, <2>3
<1> QED BY <1>1, <1>5, <1>6 DEF DrawsOK

\* A call in a deferred view is of a rendered view, in which nothing is cached.
LEMMA SecondHead ==
  ASSUME WindowInv, SeenInv, phase = "prepaint", todo # <<>>, NEW what \in {"prepaint", "defer"},
         Call.do = what, ~First
  PROVE  /\ 1 \in Calls(what) /\ Call = todo[1] /\ Call.view \in fresh /\ Sub(Call.view) \cap Cached = {}
<1>1. todo \in Seq(PrepaintStack(Len(draws)))
  BY PrepaintTodo
<1>2. Len(todo) \in Nat /\ Len(todo) # 0 /\ DOMAIN todo = 1..Len(todo)
  BY <1>1, EmptySeq, LenProperties
<1>3. 1 \in DOMAIN todo
  BY <1>2, OneOf
<1>4. 1 \in Calls(what) /\ Call = todo[1]
  BY <1>3, HeadCall DEF Calls
<1> QED BY <1>4 DEF SeenInv, PendingOK

\* A view is prepainted that is deferred or in what is.
LEMMA PrepaintElementSecond == ASSUME WindowInv, SeenInv, phase = "prepaint", ~First, PrepaintElement
PROVE SeenInv'
<1>0. PICK v, I, K, new, l : v = Call.view /\ I = Shows(v, built[v]) /\ K = <<ElementKey(v)>>
                             /\ new = PrepaintCalls(v) /\ l = Len(draws)
  OBVIOUS
<1>1. /\ v \in Views /\ v \in fresh /\ Call.do = "prepaint" /\ todo # <<>>
      /\ Longer(next', next, I, K, <<>>) /\ Goes(I, K) /\ ViewsIn(I) = {v} /\ All(K) = {ElementKey(v)}
      /\ \A u \in Views : /\ CacheKey(u) # ElementKey(v)
                          /\ CacheKey(u) \in DOMAIN next'.states <=> CacheKey(u) \in DOMAIN next.states
                          /\ CacheKey(u) \in DOMAIN next.states => next'.states[CacheKey(u)] = next.states[CacheKey(u)]
      /\ todo' = new \o Tail(todo) /\ new \in Seq(PrepaintStack(Len(draws)))
      /\ FreshOK' /\ phase' = "prepaint"
      /\ UNCHANGED <<marked, refreshing, accessed, built, fresh, draws>>
  <2>1. FreshOK
    BY DEF SeenInv
  <2> QED BY <1>0, <2>1, PrepaintElementGoes
<1>2. \A n \in DOMAIN new :
        /\ new[n].do = IF Children[v][built[v]][n].deferred THEN "defer" ELSE "prepaint"
        /\ new[n].view \in Views /\ new[n].view \in Inside(v, built) /\ new[n].view \in Sub(v)
        /\ Sub(new[n].view) \subseteq Sub(v)
  <2>1. v \in Views /\ new = PrepaintCalls(v)
    BY <1>0, <1>1
  <2> QED BY <2>1, CallsIn
<1>3. Sub(v) \cap Cached = {}
  BY <1>0, <1>1, SecondHead
<1>4. /\ v \in Sub(v) /\ v \in accessed /\ ~Unseen(v) /\ Inside(v, built) \ Cached \subseteq fresh
      /\ Top \subseteq Cached /\ Cached \subseteq Views
  <2>1. v \in accessed /\ ~Unseen(v) /\ Inside(v, built) \ Cached \subseteq fresh
    BY <1>1 DEF SeenInv, FreshOK, Drawing, Seen
  <2> QED BY <1>1, <2>1, SubIs, TopIs
<1>5. \A x \in All(new) : /\ x.do \in {"prepaint", "defer"} /\ x.view \in Sub(v)
                          /\ x.view \in fresh /\ Sub(x.view) \cap Cached = {}
  BY <1>2, <1>3, <1>4 DEF All
<1>6. \A c \in Top : CacheKey(c) \notin All(K)
  BY <1>1, <1>4
<1>7. SecondStep(I, K, new)
  <2>1. SameStates
    BY <1>1 DEF SameStates
  <2>2. Seen(ViewsIn(I)) /\ ViewsIn(I) \subseteq accessed' /\ ViewsIn(I) \subseteq Views
    BY <1>1, <1>4 DEF Seen
  <2> QED BY <1>1, <1>5, <1>6, <2>1, <2>2 DEF SecondStep
<1>8. DrawsOK'
  <2>1. NoTops(All(K))
    BY <1>6 DEF NoTops, TopKeys
  <2>2. ViewsIn(I) \subseteq Sub(v) \cap fresh
    BY <1>1, <1>4
  <2> QED BY <1>0, <1>1, <1>5, <1>7, <2>1, <2>2, SecondEnds
<1>9. DrawsGo(l)
  <2>1. draws \in Seq(DeferredDraws) /\ DOMAIN draws = 1..l
    BY <1>0, DrawTypes, LenProperties
  <2>2. ASSUME NEW n \in 1..l PROVE DrawGoes(n)
    BY <1>1, <1>7, <2>1, <2>2, SecondSame
  <2> QED BY <1>0, <1>1, <1>7, <2>1, <2>2, SecondDraws
<1> QED BY <1>7, <1>8, <1>9, SecondFinish

\* A draw deferred in what is deferred is not painted: prepaint_deferred_draws puts back those it took.
LEMMA DeferDrawSecond == ASSUME WindowInv, SeenInv, phase = "prepaint", ~First, DeferDraw PROVE SeenInv'
<1>0. PICK v, l : v = Call.view /\ l = Len(draws)
  OBVIOUS
<1>1. /\ todo # <<>> /\ Call.do = "defer" /\ v \in Views /\ todo' = Tail(todo)
      /\ phase' = phase /\ next'.states = next.states /\ Goes(<<>>, <<>>)
      /\ UNCHANGED <<marked, refreshing, accessed, built, fresh, draws, rendered>>
  BY <1>0, PutOffGoes
<1>2. SecondStep(<<>>, <<>>, <<>>)
  <2>1. todo' = <<>> \o Tail(todo)
    <3> DEFINE S == PrepaintStack(Len(draws))
    <3>1. todo \in Seq(S) /\ todo # <<>>
      BY <1>1, PrepaintTodo
    <3> HIDE DEF S
    <3>2. Tail(todo) \in Seq(S)
      BY <3>1, Called
    <3> QED BY <1>1, <3>2, NoNewCalls
  <2>2. SameStates
    BY <1>1 DEF SameStates
  <2>3. <<>> \in Seq(PrepaintStack(Len(draws)))
    BY Empties
  <2> QED BY <1>1, <2>1, <2>2, <2>3, Empties DEF SecondStep, Seen
<1>3. DrawsOK'
  <2>1. NoTops(All(<<>>)) /\ ViewsIn(<<>>) \subseteq Sub(v) \cap fresh
    BY Empties DEF NoTops
  <2> QED BY <1>0, <1>1, <1>2, <2>1, Empties, SecondEnds
<1>4. DrawsGo(l)
  <2>1. draws \in Seq(DeferredDraws) /\ DOMAIN draws = 1..l
    BY <1>0, DrawTypes, LenProperties
  <2>2. ASSUME NEW n \in 1..l PROVE DrawGoes(n)
    BY <1>1, <1>2, <2>1, <2>2, SecondSame
  <2> QED BY <1>0, <1>1, <1>2, <2>1, <2>2, SecondDraws
<1> QED BY <1>2, <1>3, <1>4, SecondFinish

\* The call of a deferred draw.
LEMMA DeferredHead ==
  ASSUME WindowInv, SeenInv, NEW what \in {"deferred", "end deferred"}, Calling(what)
  PROVE  /\ phase = "prepaint" /\ ~First /\ todo # <<>> /\ 1 \in Calls(what) /\ Call = todo[1]
            /\ Call.do = what
         /\ Call.draw \in DOMAIN draws /\ Call.draw \in 1..Len(draws) /\ draws \in Seq(DeferredDraws)
            /\ Len(draws) \in Nat
         /\ draws[Call.draw] \in DeferredDraws /\ todo \in Seq(PrepaintStack(Len(draws)))
<1>1. phase = "prepaint" /\ todo # <<>> /\ Call.do = what /\ Call = todo[1]
  BY InPrepaint, HeadCall DEF Calling
<1>2. 1 \in Calls(what) /\ 1 \in DOMAIN todo
  <2>1. todo \in Seq(PrepaintStack(Len(draws)))
    BY <1>1, PrepaintTodo
  <2>2. Len(todo) \in Nat /\ Len(todo) # 0 /\ DOMAIN todo = 1..Len(todo)
    BY <1>1, <2>1, EmptySeq, LenProperties
  <2>3. 1 \in DOMAIN todo
    BY <2>2, OneOf
  <2> QED BY <1>1, <2>3 DEF Calls
<1>3. ~First
  <2>1. ASSUME First PROVE FALSE
    <3>1. /\ Len(todo) \in Calls("deferred draws")
          /\ \A i \in DOMAIN todo \ {Len(todo)} : todo[i].do \in {"layout", "prepaint", "defer", "end cached"}
      BY <1>1, <2>1 DEF SeenInv, StackOK
    <3>2. todo[Len(todo)].do = "deferred draws"
      BY <3>1 DEF Calls
    <3>3. todo[1].do \in {"deferred", "end deferred"}
      BY <1>1
    <3>4. 1 # Len(todo)
      BY <3>2, <3>3
    <3> QED BY <1>2, <3>1, <3>3, <3>4
  <2> QED BY <2>1
<1>4. draws \in Seq(DeferredDraws) /\ Len(draws) \in Nat /\ DOMAIN draws = 1..Len(draws)
  BY DrawTypes, LenProperties
<1>5. Call.draw \in 1..Len(draws) /\ todo \in Seq(PrepaintStack(Len(draws)))
  BY <1>1, <1>2, PrepaintTodo
<1>6. draws[Call.draw] \in DeferredDraws
  BY <1>4, <1>5, ElementOfSeq
<1> QED BY <1>1, <1>2, <1>3, <1>4, <1>5, <1>6

\* Two calls, one of which ends a deferred draw.
LEMMA TwoOf ==
  ASSUME NEW a, NEW b, NEW s, s = <<a, b>>
  PROVE  DOMAIN s = {1, 2} /\ s[1] = a /\ s[2] = b /\ All(s) = {a, b} /\ Len(s) = 2
BY DEF All

\* Nothing happened to the frame.
LEMMA GoesNowhere ==
  ASSUME WindowInv, next' = next, rendered' = rendered, accessed' = accessed, fresh' = fresh,
         built' = built,
         owed' = owed, dirtyViews' = dirtyViews
  PROVE  Goes(<<>>, <<>>) /\ SameStates
<1>1. More(next', next, <<>>, <<>>)
  <2>1. Longer(next', next, <<>>, <<>>, <<>>)
    BY DrawTypes, NoLonger
  <2> QED BY <2>1 DEF Longer
<1>2. Kept(rendered', rendered)
  BY DEF Kept
<1>3. \A u \in Views : Unseen(u)' => Unseen(u)
  BY DEF Unseen
<1> QED BY <1>1, <1>2, <1>3 DEF Goes, SameStates

\* A deferred view is prepainted.
LEMMA PrepaintDeferredSeen == ASSUME WindowInv, SeenInv, PrepaintDeferred PROVE SeenInv'
<1>1. PICK d, w, a, e, new, l :
        /\ d = Call.draw /\ w = draws[d].view /\ l = Len(draws)
        /\ a = [do |-> "prepaint", view |-> w]
           /\ e = [do |-> "end deferred", draw |-> d, from |-> Index(next)]
        /\ new = <<a, e>>
  OBVIOUS
<1>2. /\ Calling("deferred") /\ draws[d].fresh /\ todo' = new \o Tail(todo)
      /\ UNCHANGED <<state, invalidatorVars, marked, refreshing, rendered, next, tracked, accessed,
                     callbacks, at, built, fresh, draws, owed, focusVars>>
  BY <1>1, Zenon DEF PrepaintDeferred
<1>3. /\ phase = "prepaint" /\ ~First /\ todo # <<>> /\ 1 \in Calls("deferred") /\ Call = todo[1]
         /\ Call.do = "deferred"
      /\ d \in DOMAIN draws /\ draws \in Seq(DeferredDraws) /\ draws[d] \in DeferredDraws /\ d \in 1..l
         /\ l \in Nat
      /\ todo \in Seq(PrepaintStack(l))
  <2>1. d = Call.draw /\ l = Len(draws)
    BY <1>1, Zenon
  <2> QED BY <1>2, <2>1, DeferredHead
<1>4. a.do = "prepaint" /\ a.view = w
  <2>1. a = [do |-> "prepaint", view |-> w]
    BY <1>1, Zenon
  <2> QED BY <2>1
<1>5. e.do = "end deferred" /\ e.draw = d /\ e.from = Index(next)
  <2>1. e = [do |-> "end deferred", draw |-> d, from |-> Index(next)]
    BY <1>1, Zenon
  <2> QED BY <2>1, Zenon
<1>6. DOMAIN new = {1, 2} /\ new[1] = a /\ new[2] = e /\ All(new) = {a, e} /\ Len(new) = 2
  <2>1. new = <<a, e>>
    BY <1>1, Zenon
  <2> QED BY <2>1, TwoOf
<1>7. w \in Views /\ w = draws[d].view
  <2>1. w = draws[d].view
    BY <1>1, Zenon
  <2> QED BY <1>3, <2>1 DEF DeferredDraws
<1>8. new \in Seq(PrepaintStack(l)) /\ l = Len(draws) /\ d = Call.draw
  <2> DEFINE C == PrepaintStack(l)
  <2>1. l = Len(draws) /\ d = Call.draw /\ new = <<a, e>>
    BY <1>1, Zenon
  <2>2. a \in C
    <3>1. a = [do |-> "prepaint", view |-> w]
      BY <1>1, Zenon
    <3> QED BY <1>7, <3>1 DEF PrepaintStack
  <2>3. e \in C
    <3>1. Index(next) \in FramePlaces
      BY DrawTypes, IndexIs
    <3>2. e = [do |-> "end deferred", draw |-> d, from |-> Index(next)]
      BY <1>1, Zenon
    <3> QED BY <1>3, <3>1, <3>2, Zenon DEF PrepaintStack
  <2> HIDE DEF C
  <2>4. <<a, e>> \in Seq(C)
    BY <2>2, <2>3, FewCalls
  <2> QED BY <2>1, <2>4 DEF C
<1>9. w \in fresh /\ Sub(w) \cap Cached = {}
  <2>1. DrawList = draws /\ Drawing
    BY <1>3 DEF DrawList, Drawing
  <2>2. DrawOK(d)
    BY <1>3, <2>1 DEF SeenInv, DeferredOK
  <2> QED BY <1>2, <1>7, <2>1, <2>2 DEF DrawOK
<1>10. Goes(<<>>, <<>>) /\ SameStates
  BY <1>2, GoesNowhere DEF invalidatorVars
<1>11. SecondStep(<<>>, <<>>, new)
  <2>1. a.do \in {"prepaint", "defer"} /\ a.view \in fresh /\ Sub(a.view) \cap Cached = {}
    BY <1>4, <1>9
  <2>2. "end deferred" \notin {"prepaint", "defer"}
    BY Zenon
  <2>3. \A x \in All(new) : /\ x.do \in {"prepaint", "defer", "end deferred"}
                            /\ x.do \in {"prepaint", "defer"} => x.view \in fresh
                                                                 /\ Sub(x.view) \cap Cached = {}
    BY <1>5, <1>6, <2>1, <2>2, Zenon
  <2>4. phase' = phase /\ marked' = marked /\ built' = built /\ fresh' = fresh
    BY <1>2 DEF invalidatorVars
  <2>5. todo' = new \o Tail(todo) /\ new \in Seq(PrepaintStack(Len(draws)))
    BY <1>2, <1>8
  <2>6. Call.do \in {"prepaint", "defer", "deferred", "end deferred"}
    BY <1>3
  <2> QED BY <1>3, <1>10, <2>3, <2>4, <2>5, <2>6, Empties DEF SecondStep, Seen
<1>12. Moves(new) /\ phase' = "prepaint"
  BY <1>11, SecondMoves
<1>13. \A j \in EndDraws : j = 1
  BY <1>3, NoEnds
<1>14. /\ \A i, j \in Calls("deferred") \cup EndDraws : todo[i].draw = todo[j].draw => i = j
  BY <1>3 DEF SeenInv, DrawsOK
<1>15. \A j \in EndDraws' : j = 2 /\ todo'[j] = e
  <2>1. ASSUME NEW j \in EndDraws' PROVE j = 2 /\ todo'[j] = e
    <3>1. \A what : \A i \in Calls(what)' :
              \/ i \in DOMAIN new /\ todo'[i] = new[i] /\ new[i].do = what
              \/ \E o \in Calls(what) : o \in 2..Len(todo) /\ i = Len(new) + o - 1 /\ todo'[i] = todo[o]
      BY <1>12 DEF Moves
    <3>2. j \in Calls("end deferred")'
      BY <2>1 DEF EndDraws
    <3>3. ~\E o \in Calls("end deferred") : o \in 2..Len(todo)
      <4>1. \A o \in 2..Len(todo) : o # 1
        BY <1>12, FromTwo DEF Moves
      <4> QED BY <1>13, <4>1, Zenon DEF EndDraws
    <3>4. j \in DOMAIN new /\ todo'[j] = new[j] /\ new[j].do = "end deferred"
      BY <3>1, <3>2, <3>3, Zenon
    <3>5. "prepaint" # "end deferred"
      BY Zenon
    <3>6. j # 1
      BY <1>4, <1>6, <3>4, <3>5, Zenon
    <3> QED BY <1>6, <3>4, <3>6, Zenon
  <2> QED BY <2>1
<1>16. \A j \in Calls("deferred")' : \E o \in Calls("deferred") : o # 1 /\ j = Len(new) + o - 1
                                                                  /\ todo'[j] = todo[o] /\ todo[o].draw # d
  <2>1. ASSUME NEW j \in Calls("deferred")'
        PROVE  \E o \in Calls("deferred") : o # 1 /\ j = Len(new) + o - 1 /\ todo'[j] = todo[o]
                                            /\ todo[o].draw # d
    <3>1. \A i \in DOMAIN new : new[i].do # "deferred"
      <4>1. e.do # "deferred" /\ a.do # "deferred"
        BY <1>4, <1>5
      <4> QED BY <1>6, <4>1
    <3>2. PICK o \in Calls("deferred") : o \in 2..Len(todo) /\ j = Len(new) + o - 1 /\ todo'[j] = todo[o]
      BY <1>12, <2>1, <3>1 DEF Moves
    <3>3. o # 1
      BY <1>12, <3>2, FromTwo DEF Moves
    <3> QED BY <1>3, <1>8, <1>14, <3>2, <3>3
  <2> QED BY <2>1
<1>17. EndDrawOK(2, e, w)'
  <2>1. 1 \in Pending' /\ todo'[1].view = w
    <3>1. 1 \in DOMAIN todo' /\ todo'[1] = a
      BY <1>6, <1>12 DEF Moves
    <3> QED BY <1>4, <3>1 DEF Pending, Calls
  <2>2. \A i \in 1..(2 - 1) : i \in Pending' /\ todo'[i].view \in Sub(w)
    <3>1. w \in Sub(w)
      BY <1>7, SubIs
    <3>2. \A i \in 1..(2 - 1) : i = 1
      OBVIOUS
    <3> QED BY <2>1, <3>1, <3>2
  <2>3. e.from = Index(next)
    BY <1>5
  <2>4. /\ e.from.items = Len(next.items) /\ e.from.keys = Len(next.keys)
        /\ ItemsAfter(next, e.from.items) = {} /\ KeysAfter(next, e.from.keys) = {}
        /\ Len(next.items) \in Nat /\ Len(next.keys) \in Nat
    BY <2>3, DrawTypes, BeginsTop
  <2>5. e.from.items <= Len(next.items) /\ e.from.keys <= Len(next.keys)
    BY <2>4, Within
  <2>6. draws'[e.draw].fresh /\ next' = next
    BY <1>2, <1>5
  <2> QED BY <2>2, <2>4, <2>5, <2>6 DEF EndDrawOK, NoTops
<1>18. DrawsOK'
  <2>1. ASSUME NEW i \in Calls("deferred")' \cup EndDraws', NEW j \in Calls("deferred")' \cup EndDraws',
               todo'[i].draw = todo'[j].draw
        PROVE  i = j
    <3>1. CASE i \in EndDraws' /\ j \in EndDraws'
      BY <1>15, <3>1
    <3>2. CASE i \in Calls("deferred")' /\ j \in EndDraws'
      BY <1>5, <1>15, <1>16, <2>1, <3>2, Zenon
    <3>3. CASE j \in Calls("deferred")' /\ i \in EndDraws'
      BY <1>5, <1>15, <1>16, <2>1, <3>3, Zenon
    <3>4. CASE i \in Calls("deferred")' /\ j \in Calls("deferred")'
      <4>1. PICK o \in Calls("deferred") : i = Len(new) + o - 1 /\ todo'[i] = todo[o]
        BY <1>16, <3>4
      <4>2. PICK q \in Calls("deferred") : j = Len(new) + q - 1 /\ todo'[j] = todo[q]
        BY <1>16, <3>4
      <4>3. o = q
        BY <1>14, <2>1, <4>1, <4>2
      <4> QED BY <4>1, <4>2, <4>3
    <3> QED BY <2>1, <3>1, <3>2, <3>3, <3>4
  <2>2. ASSUME NEW j \in EndDraws' PROVE EndDrawOK(j, todo[j], draws[todo[j].draw].view)'
    <3>1. j = 2 /\ todo'[j] = e
      BY <1>15, <2>2
    <3>2. draws'[todo'[j].draw].view = w
      BY <1>2, <1>5, <1>7, <3>1, Zenon
    <3> QED BY <1>17, <3>1, <3>2
  <2> QED BY <1>12, <2>1, <2>2 DEF DrawsOK
<1>19. DrawsGo(l)
  <2>1. DOMAIN draws = 1..l /\ l = Len(draws)
    BY <1>3, <1>8, LenProperties
  <2>2. draws' = draws
    BY <1>2
  <2>3. ASSUME NEW n \in 1..l PROVE DrawGoes(n)
    <3>1. n \in DOMAIN draws /\ draws'[n] = draws[n]
      BY <2>1, <2>2, <2>3
    <3>2. draws[n].fresh \/ Call.draw # n
      BY <1>2, <1>8
    <3> QED BY <1>11, <3>1, <3>2, SecondSame
  <2> QED BY <1>3, <1>11, <2>1, <2>2, <2>3, SecondDraws
<1> QED BY <1>11, <1>18, <1>19, SecondFinish

\* A range is noted of one deferred draw, and nothing else of it changes.
Notes(s, n, a, b) == s = [draws EXCEPT ![n].from = a, ![n].to = b]

\* A deferred draw gets its ranges.
LEMMA NotedIs ==
  ASSUME draws \in Seq(DeferredDraws), NEW n \in 1..Len(draws), NEW a \in FramePlaces,
         NEW b \in FramePlaces,
         NEW s, Notes(s, n, a, b)
  PROVE  /\ s \in Seq(DeferredDraws) /\ Len(s) = Len(draws)
         /\ \A m \in 1..Len(draws) : m # n => s[m] = draws[m]
         /\ s[n] \in DeferredDraws /\ s[n].view = draws[n].view /\ s[n].fresh = draws[n].fresh
         /\ s[n].from = a /\ s[n].to = b
         /\ s[n].paintFrom = draws[n].paintFrom /\ s[n].paintTo = draws[n].paintTo
<1> DEFINE q == [draws[n] EXCEPT !.from = a]
           r == [q EXCEPT !.to = b]
<1>1. draws[n] \in DeferredDraws
  BY ElementOfSeq
<1>2. /\ q \in DeferredDraws /\ q.view = draws[n].view /\ q.fresh = draws[n].fresh /\ q.from = a
      /\ q.paintFrom = draws[n].paintFrom /\ q.paintTo = draws[n].paintTo
  BY <1>1 DEF DeferredDraws
<1> HIDE DEF q
<1>3. /\ r \in DeferredDraws /\ r.view = draws[n].view /\ r.fresh = draws[n].fresh /\ r.from = a /\ r.to = b
      /\ r.paintFrom = draws[n].paintFrom /\ r.paintTo = draws[n].paintTo
  BY <1>2 DEF DeferredDraws
<1>4. s = [draws EXCEPT ![n] = r]
  BY DEF q, Notes
<1> HIDE DEF r
<1>5. [draws EXCEPT ![n] = r] \in Seq(DeferredDraws) /\ Len([draws EXCEPT ![n] = r]) = Len(draws)
  BY <1>3, ExceptSeq
<1>6. DOMAIN draws = 1..Len(draws)
  BY LenProperties
<1>7. s[n] = r /\ \A m \in 1..Len(draws) : m # n => s[m] = draws[m]
  BY <1>4, <1>6
<1> QED BY <1>3, <1>4, <1>5, <1>7

\* Once it is reused, it is not to be called again.
LEMMA DeferredGone ==
  ASSUME WindowInv, SeenInv, NEW I, NEW K, SecondStep(I, K, <<>>),
         NEW what \in {"deferred", "end deferred"}, Calling(what)
  PROVE  EndDraws' = {} /\ Call.draw \notin DrawsTo("deferred")' /\ DrawsOK'
<1>1. /\ phase = "prepaint" /\ todo # <<>> /\ 1 \in Calls(what) /\ Call = todo[1] /\ Call.do = what
  BY DeferredHead
<1>2. Moves(<<>>) /\ phase' = "prepaint" /\ DOMAIN <<>> = {}
  BY SecondMoves, Empties
<1>3. \A w : \A i \in Calls(w)' : \E o \in Calls(w) : o \in 2..Len(todo) /\ i = Len(<<>>) + o - 1
                                                      /\ todo'[i] = todo[o]
  BY <1>2, ZenonT(30) DEF Moves
<1>4. \A o \in 2..Len(todo) : o # 1
  BY <1>2, FromTwo DEF Moves
<1>5. \A j \in EndDraws : j = 1
  <2>1. Call.do \in {"deferred", "end deferred"}
    BY <1>1
  <2> QED BY <1>1, <2>1, NoEnds
<1>6. EndDraws' = {}
  BY <1>3, <1>4, <1>5, Zenon DEF EndDraws
<1>7. \A i, j \in Calls("deferred") \cup EndDraws : todo[i].draw = todo[j].draw => i = j
  BY <1>1 DEF SeenInv, DrawsOK
<1>8. 1 \in Calls("deferred") \cup EndDraws
  BY <1>1, Zenon DEF EndDraws
<1>9. ASSUME NEW x \in Doing("deferred")' PROVE x.draw # Call.draw
  <2>1. PICK i \in Calls("deferred")' : x = todo'[i]
    BY <1>9, Zenon DEF Doing, All, Calls
  <2>2. PICK o \in Calls("deferred") : o \in 2..Len(todo) /\ todo'[i] = todo[o]
    BY <1>3
  <2>3. o # 1
    BY <1>4, <2>2
  <2> QED BY <1>1, <1>7, <1>8, <2>1, <2>2, <2>3, Zenon
<1>10. Call.draw \notin DrawsTo("deferred")'
  BY <1>9, Zenon DEF DrawsTo
<1>11. DrawsOK'
  <2>1. ASSUME NEW i \in Calls("deferred")', NEW j \in Calls("deferred")', todo'[i].draw = todo'[j].draw
        PROVE  i = j
    <3>1. PICK o \in Calls("deferred") : i = Len(<<>>) + o - 1 /\ todo'[i] = todo[o]
      BY <1>3
    <3>2. PICK q \in Calls("deferred") : j = Len(<<>>) + q - 1 /\ todo'[j] = todo[q]
      BY <1>3
    <3>3. o = q
      BY <1>7, <2>1, <3>1, <3>2, Zenon
    <3> QED BY <3>1, <3>2, <3>3, Zenon
  <2> QED BY <1>2, <1>6, <2>1, Zenon DEF DrawsOK
<1> QED BY <1>6, <1>10, <1>11

\* The other deferred draws are as they were.
LEMMA OthersGo ==
  ASSUME WindowInv, SeenInv, NEW I, NEW K, NEW new, SecondStep(I, K, new), NEW n, n = Call.draw,
         draws' \in Seq(DeferredDraws), Len(draws') = Len(draws),
         \A m \in 1..Len(draws) : m # n => draws'[m] = draws[m],
         DrawGoes(n)
  PROVE  DrawsGo(Len(draws))
<1>1. PICK l : l = Len(draws)
  OBVIOUS
<1>2. DOMAIN draws = 1..l
  BY <1>1, DrawTypes, LenProperties
<1>3. ASSUME NEW m \in 1..l PROVE DrawGoes(m)
  <2>1. CASE m = n
    BY <2>1
  <2>2. CASE m # n
    <3>1. m \in DOMAIN draws /\ draws'[m] = draws[m]
      BY <1>1, <1>2, <1>3, <2>2
    <3> QED BY <2>2, <3>1, SecondSame
  <2> QED BY <2>1, <2>2
<1>4. DrawsGo(l)
  BY <1>1, <1>3, SecondDraws
<1> QED BY <1>1, <1>4

\* What is reused of a deferred draw is what it was.
LEMMA ReuseDeferredGoes ==
  ASSUME WindowInv, ReuseDeferred, NEW n, n = Call.draw, NEW d, d = draws[n], d \in DeferredDraws
  PROVE  \E I, K, E, s :
           /\ ~d.fresh /\ Longer(next', next, I, K, E) /\ AgainParts(d, I, K, E) /\ Goes(I, K) /\ SameStates
           /\ IsWindowFrame(next') /\ s = draws' /\ Notes(s, n, Index(next), Index(next'))
           /\ todo' = Tail(todo) /\ Kept(rendered', rendered)
           /\ UNCHANGED <<phase, marked, refreshing, accessed, built, fresh>>
<1>1. PICK end : end = Reused(next, d.from, d.to)
  OBVIOUS
<1>2. /\ ~d.fresh /\ next' = end /\ draws' = [draws EXCEPT ![n].from = Index(next), ![n].to = Index(end)]
         /\ todo' = Tail(todo)
      /\ UNCHANGED <<state, invalidatorVars, marked, refreshing, rendered, tracked, accessed,
                     callbacks, at, built, fresh, owed, focusVars>>
  BY <1>1 DEF ReuseDeferred
<1>3. d.from \in FramePlaces /\ d.to \in FramePlaces /\ IsWindowFrame(next) /\ IsWindowFrame(rendered)
  BY DrawTypes, RangedIs DEF Ranged
<1>4. PICK I, K, E : Longer(end, next, I, K, E) /\ AgainParts(d, I, K, E) /\ end.states = next.states
                     /\ IsWindowFrame(end)
  <2>1. end = Reused(next, d.from, d.to)
    BY <1>1
  <2> QED BY <1>3, <2>1, ReusedParts
<1>5. SameStates
  BY <1>2, <1>4 DEF SameStates
<1>6. Goes(I, K) /\ Kept(rendered', rendered)
  <2>1. \A u \in Views : Unseen(u)' => Unseen(u)
    BY <1>2 DEF Unseen, invalidatorVars
  <2>2. Kept(rendered', rendered)
    BY <1>2 DEF Kept
  <2> QED BY <1>2, <1>4, <2>1, <2>2 DEF Goes, Longer
<1>7. phase' = phase
  BY <1>2 DEF invalidatorVars
<1>8. PICK s : s = draws'
  OBVIOUS
<1>9. Notes(s, n, Index(next), Index(next'))
  BY <1>2, <1>8 DEF Notes
<1> QED BY <1>2, <1>4, <1>5, <1>6, <1>7, <1>8, <1>9

\* One of the last frame is reused, with the items it had there.
LEMMA ReuseDeferredSeen == ASSUME WindowInv, SeenInv, ReuseDeferred PROVE SeenInv'
<1>0. PICK n, d : n = Call.draw /\ d = draws[n]
  OBVIOUS
<1>1. /\ phase = "prepaint" /\ ~First /\ todo # <<>> /\ Call = todo[1] /\ Call.do = "deferred"
         /\ 1 \in Calls("deferred")
      /\ n \in DOMAIN draws /\ n \in 1..Len(draws) /\ draws \in Seq(DeferredDraws) /\ Len(draws) \in Nat
      /\ d \in DeferredDraws /\ todo \in Seq(PrepaintStack(Len(draws))) /\ Calling("deferred")
  <2>1. Calling("deferred")
    BY DEF ReuseDeferred
  <2> QED BY <1>0, <2>1, DeferredHead
<1>2. PICK I, K, E, s :
        /\ ~d.fresh /\ Longer(next', next, I, K, E) /\ AgainParts(d, I, K, E) /\ Goes(I, K) /\ SameStates
        /\ IsWindowFrame(next') /\ s = draws' /\ Notes(s, n, Index(next), Index(next'))
        /\ todo' = Tail(todo) /\ Kept(rendered', rendered)
        /\ UNCHANGED <<phase, marked, refreshing, accessed, built, fresh>>
  BY <1>0, <1>1, ReuseDeferredGoes
<1>3. IsWindowFrame(next) /\ IsWindowFrame(rendered) /\ More(next', next, I, K) /\ DrawList = draws
      /\ Drawing
  BY <1>1, <1>2, DrawTypes DEF Goes, DrawList, Drawing
\* It was noted where it is in the last frame.
<1>4. /\ DrawOK(n) /\ DrawItems(n) = ViewsIn(I) /\ DrawKeys(n) = All(K)
         /\ DrawPaintKeys(n) = PaintKeysOf(rendered, d)
  <2>1. DrawOK(n) /\ DrawList[n] = d
    BY <1>0, <1>1, <1>3 DEF SeenInv, DeferredOK
  <2>2. ~InNext(n) /\ ~PaintInNext(n)
    <3>1. n \in DrawsTo("deferred")
      <4>1. Call \in Doing("deferred")
        BY <1>1 DEF Doing, All, Calls
      <4> QED BY <1>0, <4>1 DEF DrawsTo
    <3> QED BY <1>1, <1>2, <2>1, <3>1 DEF InNext, PaintInNext
  <2>3. ViewsIn(I) = ItemsOf(rendered, d) /\ All(K) = KeysOf(rendered, d)
    BY <1>2 DEF AgainParts
  <2> QED BY <2>1, <2>2, <2>3 DEF DrawItems, DrawKeys, DrawPaintKeys
<1>5. /\ ViewsIn(I) \subseteq accessed /\ Seen(ViewsIn(I)) /\ NoTops(All(K))
         /\ NoTops(PaintKeysOf(rendered, d))
      /\ ViewsIn(I) \subseteq Views
  BY <1>4, DrawTypes DEF DrawOK
<1>6. SecondStep(I, K, <<>>)
  <2>1. todo' = <<>> \o Tail(todo)
    <3> DEFINE S == PrepaintStack(Len(draws))
    <3>1. todo \in Seq(S) /\ todo # <<>>
      BY <1>1
    <3> HIDE DEF S
    <3>2. Tail(todo) \in Seq(S)
      BY <3>1, Called
    <3> QED BY <1>2, <3>2, NoNewCalls
  <2>2. \A c \in Top : CacheKey(c) \notin All(K)
    BY <1>5 DEF NoTops, TopKeys
  <2>3. <<>> \in Seq(PrepaintStack(Len(draws)))
    BY Empties
  <2> QED BY <1>1, <1>2, <1>5, <2>1, <2>2, <2>3, Empties DEF SecondStep
<1>7. DrawsOK' /\ n \notin DrawsTo("deferred")'
  <2>1. "deferred" \in {"deferred", "end deferred"}
    OBVIOUS
  <2> QED BY <1>0, <1>1, <1>6, <2>1, DeferredGone
<1>8. PICK r : r = s[n]
  OBVIOUS
<1>9. /\ s \in Seq(DeferredDraws) /\ Len(s) = Len(draws)
         /\ \A m \in 1..Len(draws) : m # n => s[m] = draws[m]
      /\ r \in DeferredDraws /\ r.view = d.view /\ r.fresh = d.fresh /\ r.from = Index(next)
         /\ r.to = Index(next')
      /\ r.paintFrom = d.paintFrom /\ r.paintTo = d.paintTo
  <2>1. Index(next) \in FramePlaces /\ Index(next') \in FramePlaces
    BY <1>2, <1>3, IndexIs
  <2>2. Notes(s, n, Index(next), Index(next'))
    BY <1>2
  <2>3. /\ s \in Seq(DeferredDraws) /\ Len(s) = Len(draws)
        /\ \A m \in 1..Len(draws) : m # n => s[m] = draws[m]
        /\ s[n] \in DeferredDraws /\ s[n].view = draws[n].view /\ s[n].fresh = draws[n].fresh
        /\ s[n].from = Index(next) /\ s[n].to = Index(next')
        /\ s[n].paintFrom = draws[n].paintFrom /\ s[n].paintTo = draws[n].paintTo
    BY <1>1, <2>1, <2>2, NotedIs
  <2> QED BY <1>0, <1>8, <2>3
<1>10. phase' = "prepaint" /\ ~First' /\ DrawList' = draws' /\ draws' = s /\ DrawList'[n] = r
  <2>1. phase' = "prepaint" /\ ~First'
    BY <1>6, SecondMoves
  <2> QED BY <1>2, <1>8, <2>1 DEF DrawList
<1>11. InNext(n)' /\ ~PaintInNext(n)'
  BY <1>2, <1>7, <1>9, <1>10 DEF InNext, PaintInNext
<1>12. DrawItems(n)' = ViewsIn(I)
  <2>1. r.from.items = Len(next.items) /\ r.to.items = Len(next'.items)
    BY <1>9 DEF Index
  <2>2. ItemsOf(next', r) = ItemsAfter(next', Len(next.items))
    BY <2>1 DEF ItemsOf, ItemsAfter
  <2>3. ItemsAfter(next, Len(next.items)) = {}
    BY <1>3, RangeWithin
  <2>4. /\ \A a \in Nat : a <= Len(next.items) => ItemsAfter(next', a) = ItemsAfter(next, a) \cup ViewsIn(I)
        /\ Len(next.items) \in Nat
    BY <1>3, AfterGrows
  <2>5. ItemsAfter(next', Len(next.items)) = ViewsIn(I)
    BY <2>3, <2>4, Within
  <2> QED BY <1>10, <1>11, <2>2, <2>5 DEF DrawItems
<1>13. DrawKeys(n)' = All(K)
  <2>1. r.from.keys = Len(next.keys) /\ r.to.keys = Len(next'.keys)
    BY <1>9 DEF Index
  <2>2. KeysOf(next', r) = KeysAfter(next', Len(next.keys))
    BY <2>1 DEF KeysOf, KeysAfter
  <2>3. KeysAfter(next, Len(next.keys)) = {}
    BY <1>3, RangeWithin
  <2>4. /\ \A a \in Nat : a <= Len(next.keys) => KeysAfter(next', a) = KeysAfter(next, a) \cup All(K)
        /\ Len(next.keys) \in Nat
    BY <1>3, AfterGrows
  <2>5. KeysAfter(next', Len(next.keys)) = All(K)
    BY <2>3, <2>4, Within
  <2> QED BY <1>10, <1>11, <2>2, <2>5 DEF DrawKeys
<1>14. DrawPaintKeys(n)' = PaintKeysOf(rendered, d)
  <2>1. PaintKeysOf(rendered', r) = PaintKeysOf(rendered', d)
    BY <1>9 DEF PaintKeysOf
  <2>2. PaintKeysOf(rendered', d) = PaintKeysOf(rendered, d)
    BY <1>2, LastRanges
  <2> QED BY <1>10, <1>11, <2>1, <2>2 DEF DrawPaintKeys
<1>15. DrawGoes(n)
  <2>1. Seen(ViewsIn(I))'
    <3>1. \A u \in Views : Unseen(u)' => Unseen(u)
      BY <1>2 DEF Goes
    <3> QED BY <1>5, <3>1 DEF Seen
  <2>2. r.to.items <= Len(next'.items) /\ r.to.keys <= Len(next'.keys)
    <3>1. r.to.items = Len(next'.items) /\ r.to.keys = Len(next'.keys)
      BY <1>9 DEF Index
    <3>2. r.to.items \in Nat /\ r.to.keys \in Nat
      BY <1>9, RangedIs DEF Ranged
    <3> QED BY <3>1, <3>2, Within
  <2>3. accessed' = accessed /\ ~r.fresh
    BY <1>2, <1>9
  <2>4. Seen(DrawItems(n))'
    BY <1>12, <2>1 DEF Seen
  <2>5. DrawOK(n)'
    BY <1>5, <1>10, <1>11, <1>12, <1>13, <1>14, <2>2, <2>3, <2>4 DEF DrawOK, NoTops
  <2>6. DrawList[n].view \in Views /\ DrawList'[n].view = DrawList[n].view
    BY <1>0, <1>1, <1>3, <1>9, <1>10 DEF DeferredDraws
  <2> QED BY <1>4, <1>12, <2>5, <2>6 DEF DrawGoes
<1>16. DrawsGo(Len(draws))
  BY <1>0, <1>6, <1>9, <1>10, <1>15, OthersGo
<1> QED BY <1>6, <1>7, <1>16, SecondFinish

\* A deferred view was prepainted.
LEMMA EndDeferredSeen == ASSUME WindowInv, SeenInv, EndDeferred PROVE SeenInv'
<1>0. PICK n, d, e : n = Call.draw /\ d = draws[n] /\ e = Call
  OBVIOUS
<1>1. /\ phase = "prepaint" /\ ~First /\ todo # <<>> /\ e = todo[1] /\ 1 \in EndDraws
      /\ n \in DOMAIN draws /\ n \in 1..Len(draws) /\ draws \in Seq(DeferredDraws) /\ Len(draws) \in Nat
      /\ d \in DeferredDraws /\ todo \in Seq(PrepaintStack(Len(draws))) /\ e.from \in FramePlaces
  <2>1. Calling("end deferred")
    BY DEF EndDeferred
  <2>2. /\ phase = "prepaint" /\ ~First /\ todo # <<>> /\ 1 \in Calls("end deferred") /\ Call = todo[1]
        /\ Call.draw \in DOMAIN draws /\ Call.draw \in 1..Len(draws) /\ draws \in Seq(DeferredDraws)
           /\ Len(draws) \in Nat
        /\ draws[Call.draw] \in DeferredDraws /\ todo \in Seq(PrepaintStack(Len(draws)))
    BY <2>1, DeferredHead, Zenon
  <2>3. todo[1].from \in FramePlaces
    <3>1. 1 \in DOMAIN todo /\ todo[1].do = "end deferred"
      BY <2>2 DEF Calls
    <3> QED BY <2>2, <3>1, PrepaintTodo, Zenon
  <2> QED BY <1>0, <2>2, <2>3, Zenon DEF EndDraws
<1>2. PICK s : s = draws' /\ Notes(s, n, e.from, Index(next))
  BY <1>0 DEF EndDeferred, Notes
<1>3. /\ todo' = Tail(todo)
      /\ UNCHANGED <<phase, marked, refreshing, rendered, next, accessed, built, fresh, owed, dirtyViews>>
  BY DEF EndDeferred, invalidatorVars
<1>4. IsWindowFrame(next) /\ DrawList = draws /\ Drawing
  BY <1>1, DrawTypes DEF DrawList, Drawing
<1>5. Goes(<<>>, <<>>) /\ SameStates
  BY <1>3, GoesNowhere
<1>6. SecondStep(<<>>, <<>>, <<>>)
  <2>1. todo' = <<>> \o Tail(todo)
    <3> DEFINE S == PrepaintStack(Len(draws))
    <3>1. todo \in Seq(S) /\ todo # <<>>
      BY <1>1
    <3> HIDE DEF S
    <3>2. Tail(todo) \in Seq(S)
      BY <3>1, Called
    <3> QED BY <1>3, <3>2, NoNewCalls
  <2>2. <<>> \in Seq(PrepaintStack(Len(draws)))
    BY Empties
  <2>3. Call.do = "end deferred"
    BY DEF EndDeferred, Calling
  <2>4. Call.do \in {"prepaint", "defer", "deferred", "end deferred"}
    BY <2>3, Zenon
  <2> QED BY <1>1, <1>3, <1>5, <2>1, <2>2, <2>4, Empties DEF SecondStep, Seen
<1>7. DrawsOK'
  <2>1. "end deferred" \in {"deferred", "end deferred"}
    BY Zenon
  <2>2. Calling("end deferred")
    BY DEF EndDeferred
  <2> QED BY <1>6, <2>1, <2>2, DeferredGone, Zenon
<1>8. EndDrawOK(1, e, d.view)
  BY <1>0, <1>1 DEF SeenInv, DrawsOK
<1>9. /\ d.fresh /\ e.from.items \in Nat /\ e.from.keys \in Nat
      /\ ItemsAfter(next, e.from.items) \subseteq Sub(d.view) \cap fresh
         /\ NoTops(KeysAfter(next, e.from.keys))
  BY <1>0, <1>1, <1>8, RangedIs DEF EndDrawOK
<1>10. PICK r : r = s[n]
  OBVIOUS
<1>11. /\ s \in Seq(DeferredDraws) /\ Len(s) = Len(draws)
          /\ \A m \in 1..Len(draws) : m # n => s[m] = draws[m]
       /\ r \in DeferredDraws /\ r.view = d.view /\ r.fresh = d.fresh /\ r.from = e.from
          /\ r.to = Index(next)
       /\ r.paintFrom = d.paintFrom /\ r.paintTo = d.paintTo
  <2>1. Index(next) \in FramePlaces
    BY <1>4, IndexIs
  <2>2. /\ s \in Seq(DeferredDraws) /\ Len(s) = Len(draws)
        /\ \A m \in 1..Len(draws) : m # n => s[m] = draws[m]
        /\ s[n] \in DeferredDraws /\ s[n].view = draws[n].view /\ s[n].fresh = draws[n].fresh
        /\ s[n].from = e.from /\ s[n].to = Index(next)
        /\ s[n].paintFrom = draws[n].paintFrom /\ s[n].paintTo = draws[n].paintTo
    BY <1>1, <1>2, <2>1, NotedIs
  <2> QED BY <1>0, <1>10, <2>2
<1>12. phase' = "prepaint" /\ ~First' /\ DrawList' = draws' /\ draws' = s /\ DrawList'[n] = r
  <2>1. phase' = "prepaint" /\ ~First'
    BY <1>6, SecondMoves
  <2> QED BY <1>2, <1>10, <2>1 DEF DrawList
<1>13. InNext(n)' /\ PaintInNext(n)' /\ PaintInNext(n) /\ DrawOK(n)
  BY <1>0, <1>1, <1>4, <1>9, <1>11, <1>12 DEF InNext, PaintInNext, SeenInv, DeferredOK
<1>14. DrawItems(n)' \subseteq Sub(d.view) \cap fresh
  <2>1. ItemsOf(next, r) = ItemsAfter(next, e.from.items)
    BY <1>11 DEF ItemsOf, ItemsAfter, Index
  <2> QED BY <1>3, <1>9, <1>12, <1>13, <2>1 DEF DrawItems
<1>15. NoTops(DrawKeys(n)')
  <2>1. KeysOf(next, r) = KeysAfter(next, e.from.keys)
    BY <1>11 DEF KeysOf, KeysAfter, Index
  <2> QED BY <1>3, <1>9, <1>12, <1>13, <2>1 DEF DrawKeys
<1>16. DrawPaintKeys(n)' = DrawPaintKeys(n)
  <2>1. PaintKeysOf(next, r) = PaintKeysOf(next, d)
    BY <1>11 DEF PaintKeysOf
  <2> QED BY <1>0, <1>3, <1>4, <1>12, <1>13, <2>1 DEF DrawPaintKeys
<1>17. DrawGoes(n)
  <2>1. fresh \subseteq accessed /\ Seen(fresh)
    BY <1>4 DEF SeenInv, FreshOK, Seen
  <2>2. Seen(DrawItems(n))'
    <3>1. \A u : Unseen(u)' <=> Unseen(u)
      BY <1>3 DEF Unseen
    <3> QED BY <1>14, <2>1, <3>1 DEF Seen
  <2>3. r.to.items <= Len(next.items) /\ r.to.keys <= Len(next.keys)
    <3>1. r.to.items = Len(next.items) /\ r.to.keys = Len(next.keys)
      BY <1>11 DEF Index
    <3>2. r.to.items \in Nat /\ r.to.keys \in Nat
      BY <1>11, RangedIs DEF Ranged
    <3> QED BY <3>1, <3>2, Within
  <2>4. /\ d.view \in fresh /\ Sub(d.view) \cap Cached = {} /\ d.paintTo.keys <= Len(next.keys)
           /\ NoTops(DrawPaintKeys(n))
    BY <1>0, <1>4, <1>9, <1>13 DEF DrawOK
  <2>5. DrawOK(n)'
    BY <1>3, <1>11, <1>12, <1>13, <1>14, <1>15, <1>16, <2>1, <2>2, <2>3, <2>4 DEF DrawOK, NoTops
  <2>6. DrawList[n].view \in Views /\ DrawList'[n].view = DrawList[n].view
    BY <1>0, <1>1, <1>4, <1>11, <1>12 DEF DeferredDraws
  <2> QED BY <1>0, <1>4, <1>14, <2>5, <2>6 DEF DrawGoes
<1>18. DrawsGo(Len(draws))
  BY <1>0, <1>6, <1>11, <1>12, <1>17, OthersGo
<1> QED BY <1>6, <1>7, <1>18, SecondFinish

-----------------------------------------------------------------------------
(* The steps that paint.                                                   *)

\* A call that paints the root, one for each deferred draw, and one that ends.
LEMMA PaintQueueIs ==
  ASSUME NEW l \in Nat, NEW p, NEW a, NEW e, NEW s,
         s = <<p>> \o [n \in 1..l |-> [do |-> a, draw |-> n]] \o <<e>>
  PROVE  /\ l + 2 \in Nat /\ Len(s) = l + 2 /\ DOMAIN s = 1..(l + 2) /\ s[1] = p /\ s[l + 2] = e
         /\ \A m \in 2..(l + 1) : s[m].do = a /\ s[m].draw = m - 1
         /\ \A m \in 1..(l + 2) : m = 1 \/ m \in 2..(l + 1) \/ m = l + 2
         /\ \A m \in 2..(l + 1) : m \in 1..(l + 2) /\ m # 1 /\ m # l + 2
         /\ \A n \in 1..l : n + 1 \in 2..(l + 1) /\ (n + 1) - 1 = n
         /\ 1 \in 1..(l + 2) /\ l + 2 \in 1..(l + 2) /\ 1 # l + 2
<1> DEFINE D == [n \in 1..l |-> [do |-> a, draw |-> n]]
           C == {[do |-> a, draw |-> n] : n \in 1..l} \cup {e, p}
<1>1. D \in Seq(C) /\ Len(D) = l /\ \A n \in 1..l : D[n].do = a /\ D[n].draw = n
  <2>1. D \in [1..l -> C]
    OBVIOUS
  <2>2. D \in Seq(C)
    <3> HIDE DEF D, C
    <3> QED BY <2>1 DEF Seq
  <2>3. Len(D) = l
    BY <2>2
  <2> QED BY <2>2, <2>3
<1>2. /\ <<e>> \in Seq(C) /\ Len(<<e>>) = 1 /\ <<e>>[1] = e
      /\ <<p>> \in Seq(C) /\ Len(<<p>>) = 1 /\ <<p>>[1] = p
  OBVIOUS
<1>3. s = <<p>> \o D \o <<e>>
  OBVIOUS
<1> HIDE DEF D, C
<1>4. PICK t, h, g : t = <<e>> /\ h = <<p>> /\ g = h \o D
  OBVIOUS
<1>5. \A list, more \in Seq(C) :
          /\ list \o more \in Seq(C)
          /\ Len(list \o more) = Len(list) + Len(more) /\ DOMAIN (list \o more) = 1..(Len(list) + Len(more))
          /\ \A n \in 1..Len(list) : (list \o more)[n] = list[n]
          /\ \A n \in 1..Len(more) : (list \o more)[Len(list) + n] = more[n]
  BY Appended
<1>6. /\ g \in Seq(C) /\ Len(g) = l + 1 /\ g[1] = p
      /\ \A n \in 1..l : g[1 + n] = D[n]
  BY <1>1, <1>2, <1>4, <1>5
<1>7. /\ Len(s) = l + 2 /\ DOMAIN s = 1..(l + 2)
      /\ \A n \in 1..(l + 1) : s[n] = g[n]
      /\ \A n \in 1..1 : s[l + 1 + n] = t[n]
  <2>1. t \in Seq(C) /\ Len(t) = 1 /\ s = g \o t
    BY <1>2, <1>3, <1>4
  <2>2. l + 1 + 1 = l + 2 /\ 1..(l + 1 + 1) = 1..(l + 2)
    OBVIOUS
  <2>3. PICK q : q = l + 1
    OBVIOUS
  <2>4. /\ Len(s) = q + 1 /\ DOMAIN s = 1..(q + 1)
        /\ \A n \in 1..q : s[n] = g[n]
        /\ \A n \in 1..1 : s[q + n] = t[n]
    <3>1. /\ Len(g \o t) = Len(g) + Len(t) /\ DOMAIN (g \o t) = 1..(Len(g) + Len(t))
          /\ \A n \in 1..Len(g) : (g \o t)[n] = g[n]
          /\ \A n \in 1..Len(t) : (g \o t)[Len(g) + n] = t[n]
      BY <1>5, <1>6, <2>1, Zenon
    <3>2. Len(g) = q /\ Len(t) = 1 /\ s = g \o t
      BY <1>6, <2>1, <2>3
    <3> QED BY <3>1, <3>2
  <2> QED BY <2>2, <2>3, <2>4
<1>8. s[l + 2] = e /\ s[1] = p
  BY <1>2, <1>4, <1>6, <1>7
<1>9. \A m \in 2..(l + 1) : s[m].do = a /\ s[m].draw = m - 1
  <2>1. \A m \in 2..(l + 1) : m \in 1..(l + 1) /\ m - 1 \in 1..l /\ 1 + (m - 1) = m
    OBVIOUS
  <2>2. ASSUME NEW m \in 2..(l + 1) PROVE s[m].do = a /\ s[m].draw = m - 1
    <3>1. PICK n \in 1..l : n = m - 1 /\ 1 + n = m /\ m \in 1..(l + 1)
      BY <2>1, <2>2
    <3>2. s[m] = D[n]
      BY <1>6, <1>7, <3>1
    <3> QED BY <1>1, <3>1, <3>2
  <2> QED BY <2>2
<1>10. /\ \A m \in 1..(l + 2) : m = 1 \/ m \in 2..(l + 1) \/ m = l + 2
       /\ \A m \in 2..(l + 1) : m \in 1..(l + 2) /\ m # 1 /\ m # l + 2
       /\ \A n \in 1..l : n + 1 \in 2..(l + 1) /\ (n + 1) - 1 = n
       /\ 1 \in 1..(l + 2) /\ l + 2 \in 1..(l + 2) /\ 1 # l + 2 /\ l + 2 \in Nat
  OBVIOUS
<1> QED BY <1>7, <1>8, <1>9, <1>10

\* What keeps the invariant in the paint.
LEMMA PaintKeeps ==
  ASSUME WindowInv, SeenInv, Drawing, phase' = "paint",
         NEW K, Goes(<<>>, K), built' = built, fresh' = fresh, WithState(next') = WithState(next),
         \A c \in Top : CacheKey(c) \in All(K) => c \in WithState(next),
         CachesOK', NEW l, DrawsGo(l), PaintsOK'
  PROVE  SeenInv'
<1>1. /\ Kept(rendered', rendered) /\ IsWindowFrame(next) /\ IsWindowFrame(rendered)
         /\ More(next', next, <<>>, K)
  BY DrawTypes DEF Goes
<1>2. LastOK'
  BY <1>1, LastStays DEF SeenInv
<1>3. FreshOK'
  BY Empties, FreshStays DEF SeenInv, Seen
<1>4. MovedOK'
  <2>1. /\ \A c \in Top : CacheKey(c) \in All(next.keys) \cup DOMAIN next.states => CacheKey(c) \notin DOMAIN rendered.states
        /\ WithState(next) \subseteq Cached /\ WithState(next) \ Top \subseteq fresh
    BY <1>1 DEF SeenInv, MovedOK
  <2>2. All(next'.keys) = All(next.keys) \cup All(K)
    BY <1>1, AfterGrows
  <2>3. \A c \in Top : CacheKey(c) \in All(next'.keys) \cup DOMAIN next'.states => CacheKey(c) \in All(next.keys) \cup DOMAIN next.states
    <3>1. Top \subseteq Views
      BY TopIs
    <3>2. \A c \in Top : CacheKey(c) \in DOMAIN next'.states <=> CacheKey(c) \in DOMAIN next.states
      BY <3>1 DEF WithState
    <3> QED BY <2>2, <3>1, <3>2 DEF WithState
  <2>4. \A c \in Top : CacheKey(c) \in All(next'.keys) \cup DOMAIN next'.states => CacheKey(c) \notin DOMAIN rendered'.states
    <3>1. \A c \in Top : CacheKey(c) \notin DOMAIN rendered.states => CacheKey(c) \notin DOMAIN rendered'.states
      BY <1>1, TopIs DEF Kept
    <3> QED BY <2>1, <2>3, <3>1
  <2> QED BY <2>1, <2>4 DEF MovedOK
<1>5. DeferredOK'
  BY DEF DrawsGo, DrawGoes, DeferredOK
<1>6. StackOK' /\ PendingOK' /\ EndsOK' /\ DrawsOK' /\ NotifiedOK'
  BY DEF StackOK, PendingOK, EndsOK, DrawsOK, NotifiedOK
<1> QED BY <1>2, <1>3, <1>4, <1>5, <1>6 DEF SeenInv

\* The paint begins.
LEMMA EndPrepaintSeen == ASSUME WindowInv, SeenInv, EndPrepaint PROVE SeenInv'
<1>1. PICK p, e, l, a : /\ p = [do |-> "paint", view |-> Root] /\ e = [do |-> "end draw"] /\ l = Len(draws)
                         /\ a = "paint deferred"
  OBVIOUS
<1>2. /\ Calling("end prepaint") /\ phase' = "paint"
      /\ todo' = <<p>> \o [n \in DOMAIN draws |-> [do |-> "paint deferred", draw |-> n]] \o <<e>>
      /\ UNCHANGED <<dirtyViews, marked, refreshing, rendered, next, accessed, built, fresh, draws, owed>>
  BY <1>1, Zenon DEF EndPrepaint
<1>3. l \in Nat /\ DOMAIN draws = 1..l /\ draws \in Seq(DeferredDraws) /\ l = Len(draws)
  <2>1. l = Len(draws)
    BY <1>1, Zenon
  <2> QED BY <2>1, DrawTypes, LenProperties
<1>4. todo' = <<p>> \o [n \in 1..l |-> [do |-> "paint deferred", draw |-> n]] \o <<e>>
  BY <1>2, <1>3, Zenon
<1>5. /\ l + 2 \in Nat /\ Len(todo') = l + 2 /\ DOMAIN todo' = 1..(l + 2) /\ todo'[1] = p
         /\ todo'[l + 2] = e
      /\ \A m \in 2..(l + 1) : todo'[m].do = "paint deferred" /\ todo'[m].draw = m - 1
      /\ \A m \in 1..(l + 2) : m = 1 \/ m \in 2..(l + 1) \/ m = l + 2
      /\ \A m \in 2..(l + 1) : m \in 1..(l + 2) /\ m # 1 /\ m # l + 2
      /\ \A n \in 1..l : n + 1 \in 2..(l + 1) /\ (n + 1) - 1 = n
      /\ 1 \in 1..(l + 2) /\ l + 2 \in 1..(l + 2) /\ 1 # l + 2
  <2>1. PICK s : s = todo'
    OBVIOUS
  <2>2. l \in Nat /\ s = <<p>> \o [n \in 1..l |-> [do |-> a, draw |-> n]] \o <<e>>
    BY <1>1, <1>3, <1>4, <2>1, Zenon
  <2>3. /\ l + 2 \in Nat /\ Len(s) = l + 2 /\ DOMAIN s = 1..(l + 2) /\ s[1] = p /\ s[l + 2] = e
        /\ \A m \in 2..(l + 1) : s[m].do = a /\ s[m].draw = m - 1
        /\ \A m \in 1..(l + 2) : m = 1 \/ m \in 2..(l + 1) \/ m = l + 2
        /\ \A m \in 2..(l + 1) : m \in 1..(l + 2) /\ m # 1 /\ m # l + 2
        /\ \A n \in 1..l : n + 1 \in 2..(l + 1) /\ (n + 1) - 1 = n
        /\ 1 \in 1..(l + 2) /\ l + 2 \in 1..(l + 2) /\ 1 # l + 2
    BY <2>2, PaintQueueIs
  <2> QED BY <1>1, <2>1, <2>3, Zenon
<1>6. p.do = "paint" /\ p.view = Root /\ e.do = "end draw"
  <2>1. p = [do |-> "paint", view |-> Root]
    BY <1>1, Zenon
  <2>2. p.do = "paint" /\ p.view = Root
    BY <2>1
  <2>3. e.do = "end draw"
    BY <1>1, Zenon
  <2> QED BY <2>2, <2>3
<1>7. PICK M : M = 2..(l + 1)
  OBVIOUS
<1>8. \A i \in DOMAIN todo' : i = 1 \/ i \in M \/ i = l + 2
  BY <1>5, <1>7
<1>9. /\ Calls("paint")' = {1} /\ PaintDraws' = M /\ EndOfDraw' = {l + 2}
      /\ EndPaints' = {} /\ EndPaintDraws' = {} /\ Calls("deferred")' = {} /\ Calls("deferred draws")' = {}
  <2>1. /\ todo'[1].do = "paint" /\ todo'[l + 2].do = "end draw" /\ 1 \in DOMAIN todo'
           /\ l + 2 \in DOMAIN todo'
        /\ \A m \in M : todo'[m].do = "paint deferred" /\ m \in DOMAIN todo' /\ m # 1 /\ m # l + 2
        /\ 1 # l + 2
    BY <1>5, <1>6, <1>7, Zenon
  <2>2. /\ "paint" # "end draw" /\ "paint" # "paint deferred" /\ "end draw" # "paint deferred"
        /\ \A w \in {"end paint", "end paint deferred", "deferred", "deferred draws"} : w # "paint"
           /\ w # "end draw" /\ w # "paint deferred"
    BY Zenon
  <2>3. Calls("paint")' = {1}
    BY <1>8, <2>1, <2>2, Zenon DEF Calls
  <2>4. PaintDraws' = M
    BY <1>8, <2>1, <2>2, Zenon DEF Calls, PaintDraws
  <2>5. EndOfDraw' = {l + 2}
    BY <1>8, <2>1, <2>2, Zenon DEF Calls, EndOfDraw
  <2>6. \A w \in {"end paint", "end paint deferred", "deferred", "deferred draws"} : Calls(w)' = {}
    BY <1>8, <2>1, <2>2, Zenon DEF Calls
  <2> QED BY <2>3, <2>4, <2>5, <2>6, Zenon DEF EndPaints, EndPaintDraws
<1>10. Doing("deferred")' = {} /\ Doing("deferred draws")' = {} /\ DrawsTo("deferred")' = {}
  <2>1. PICK w : w = "deferred draws"
    OBVIOUS
  <2>2. Calls("deferred")' = {} /\ Calls(w)' = {}
    BY <1>9, <2>1, Zenon
  <2>3. \A i \in DOMAIN todo' : todo'[i].do # "deferred" /\ todo'[i].do # w
    BY <2>2 DEF Calls
  <2>4. Doing("deferred")' = {} /\ Doing(w)' = {}
    BY <2>3 DEF Doing, All
  <2>5. DrawsTo("deferred")' = {}
    BY <2>4 DEF DrawsTo
  <2> QED BY <2>1, <2>4, <2>5, Zenon
<1>11. \A m \in M : todo'[m].draw = m - 1
  BY <1>5, <1>7, Zenon
<1>12. phase = "prepaint" /\ ~First /\ DrawsTo("deferred") = {} /\ Drawing
  <2>1. phase = "prepaint" /\ todo \in Seq(PrepaintStack(Len(draws)))
    BY <1>2, InPrepaint, PrepaintTodo, Zenon
  <2>2. todo # <<>> /\ Call = todo[1] /\ todo[1].do = "end prepaint"
    BY <1>2, HeadCall DEF Calling
  <2>3. 1 \in DOMAIN todo
    <3>1. Len(todo) \in Nat /\ Len(todo) # 0 /\ DOMAIN todo = 1..Len(todo)
      BY <2>1, <2>2, EmptySeq, LenProperties
    <3> QED BY <3>1, OneOf
  <2>4. ~First
    <3>1. ASSUME First PROVE FALSE
      <4>1. /\ Len(todo) \in Calls("deferred draws")
            /\ \A i \in DOMAIN todo \ {Len(todo)} : todo[i].do \in {"layout", "prepaint", "defer", "end cached"}
        BY <2>1, <3>1 DEF SeenInv, StackOK
      <4>2. todo[Len(todo)].do = "deferred draws"
        BY <4>1 DEF Calls
      <4>3. "end prepaint" \notin {"layout", "prepaint", "defer", "end cached", "deferred draws"}
        BY Zenon
      <4> QED BY <2>2, <2>3, <4>1, <4>2, <4>3, Zenon
    <3> QED BY <3>1
  <2>5. \A i \in DOMAIN todo \ {Len(todo)} : todo[i].do \in {"prepaint", "defer", "deferred", "end deferred"}
    BY <2>1, <2>4 DEF SeenInv, StackOK
  <2>6. 1 = Len(todo)
    <3>1. "end prepaint" \notin {"prepaint", "defer", "deferred", "end deferred"}
      BY Zenon
    <3> QED BY <2>2, <2>3, <2>5, <3>1, Zenon
  <2>7. \A i \in DOMAIN todo : i = 1
    <3>1. Len(todo) \in Nat /\ DOMAIN todo = 1..Len(todo)
      BY <2>1, LenProperties
    <3> QED BY <2>6, <3>1
  <2>8. Doing("deferred") = {}
    <3>1. "end prepaint" # "deferred"
      BY Zenon
    <3> QED BY <2>2, <2>7, <3>1, Zenon DEF Doing, All
  <2> QED BY <2>1, <2>4, <2>8 DEF DrawsTo, Drawing
<1>13. ~First' /\ DrawList = draws /\ DrawList' = draws
  BY <1>2, <1>10, <1>12 DEF First, DrawList
<1>14. Goes(<<>>, <<>>) /\ SameStates
  BY <1>2, GoesNowhere
<1>15. ASSUME NEW n \in 1..l PROVE DrawGoes(n)
  <2>1. DrawList[n] \in DeferredDraws /\ DrawList'[n] = DrawList[n]
    BY <1>3, <1>13, <1>15, ElementOfSeq
  <2>2. n \in DrawsToPaint'
    <3>1. n + 1 \in M /\ (n + 1) - 1 = n
      BY <1>5, <1>7, <1>15
    <3>2. n + 1 \in PaintDraws' /\ todo'[n + 1].draw = n
      BY <1>9, <1>11, <3>1
    <3> QED BY <3>2, Zenon DEF PaintDraws, Calls, DrawsToPaint, DrawsTo, Doing, All
  <2>3. /\ InNext(n)' <=> InNext(n)
        /\ PaintInNext(n)' <=> PaintInNext(n)
    BY <1>10, <1>12, <1>13, <2>1, <2>2 DEF InNext, PaintInNext
  <2>4. SameDraw(n)
    BY <1>13, <2>1, <2>3 DEF SameDraw
  <2>5. DrawOK(n)
    BY <1>3, <1>12, <1>13, <1>15 DEF SeenInv, DeferredOK
  <2>6. DrawOK(n)' /\ DrawItems(n)' = DrawItems(n)
    BY <1>14, <2>1, <2>4, <2>5, DrawStays
  <2> QED BY <2>1, <2>6 DEF DrawGoes, DeferredDraws
<1>16. DrawsGo(l)
  BY <1>3, <1>13, <1>15 DEF DrawsGo
<1>17. CachesOK'
  <2>1. ToPaint' = {Root}
    <3>1. todo'[1].view = Root
      BY <1>5, <1>6
    <3>2. Calls("paint")' = {1}
      BY <1>9, Zenon
    <3>3. 1 \in DOMAIN todo' /\ \A i \in DOMAIN todo' : todo'[i].do = "paint" <=> i = 1
      BY <3>2 DEF Calls
    <3>4. Doing("paint")' = {todo'[1]}
      BY <3>3 DEF Doing, All
    <3> QED BY <3>1, <3>4 DEF ToPaint
  <2>2. ASSUME NEW c \in Top \cap WithState(next) PROVE CacheInNext(c)' <=> CacheInNext(c)
    <3>1. c \notin fresh => Root \in Holders[c]
      BY <1>12, <2>2 DEF SeenInv, CachesOK, CacheOK, Reached
    <3> QED BY <1>2, <1>12, <2>1, <3>1 DEF CacheInNext
  <2> QED BY <1>2, <1>12, <1>14, <1>16, <2>2, CachesGo DEF SeenInv
<1>18. PaintsOK'
  <2>1. Len(todo') \in EndOfDraw' /\ \A i \in DOMAIN todo' \ {Len(todo')} : i \notin EndOfDraw'
    BY <1>5, <1>9
  <2>2. \A i, j \in PaintDraws' \cup EndPaintDraws' : todo'[i].draw = todo'[j].draw => i = j
    <3>1. \A i, j \in M : i - 1 = j - 1 => i = j
      BY <1>3, <1>7
    <3>2. PaintDraws' = M /\ EndPaintDraws' = {}
      BY <1>9, Zenon
    <3> QED BY <1>11, <3>1, <3>2
  <2>3. DeferredLast'
    <3>1. ASSUME NEW j \in M, NEW i \in DOMAIN todo', i > j PROVE i \in M \/ i = l + 2
      <4>1. i # 1
        BY <1>3, <1>7, <3>1
      <4> QED BY <1>8, <3>1, <4>1
    <3> QED BY <1>9, <3>1 DEF DeferredLast
  <2> QED BY <1>9, <1>10, <2>1, <2>2, <2>3 DEF PaintsOK
<1>19. WithState(next') = WithState(next)
  BY <1>2
<1> QED BY <1>2, <1>12, <1>14, <1>16, <1>17, <1>18, <1>19, Empties, PaintKeeps

NewPaints(new) == {n \in DOMAIN new : new[n].do = "paint"}
NewEnds(new) == {n \in DOMAIN new : new[n].do = "end paint"}
NewEndDraws(new) == {n \in DOMAIN new : new[n].do = "end paint deferred"}

\* A step that paints, and calls for more.
PaintStep(K, new) ==
  /\ phase = "paint" /\ phase' = phase
  /\ Goes(<<>>, K) /\ built' = built /\ fresh' = fresh /\ WithState(next') = WithState(next)
  /\ \A c \in Top : CacheKey(c) \in All(K) => c \in WithState(next)
  /\ todo # <<>> /\ todo' = new \o Tail(todo) /\ new \in Seq(PaintStack(Len(draws), WithState(next)))
  /\ DOMAIN new = NewPaints(new) \cup NewEnds(new) \cup NewEndDraws(new)
  /\ 1 \notin EndOfDraw

\* Where a call was before the step.
WasAt(j, o, new) == o \in 2..Len(todo) /\ j = Len(new) + o - 1 /\ todo'[j] = todo[o]

\* What is to be called after it is what was, and what is new.
PaintMoves(new) ==
  /\ 1 \in DOMAIN todo /\ Call = todo[1] /\ DOMAIN todo = 1..Len(todo) /\ Len(todo) \in Nat
  /\ DOMAIN new = 1..Len(new) /\ Len(new) \in Nat /\ Len(todo') = Len(new) + Len(todo) - 1
  /\ DOMAIN todo' = 1..Len(todo')
  /\ \A j \in DOMAIN todo' : (j \in DOMAIN new /\ todo'[j] = new[j]) \/ \E o \in DOMAIN todo : WasAt(j, o, new)
  /\ \A o \in 2..Len(todo) : Len(new) + o - 1 \in DOMAIN todo' /\ WasAt(Len(new) + o - 1, o, new)
  /\ \A j \in NewPaints(new) : j \in Calls("paint")' /\ todo'[j] = new[j]
  /\ \A j \in NewEnds(new) : j \in EndPaints' /\ todo'[j] = new[j]
  /\ \A j \in NewEndDraws(new) : j \in EndPaintDraws' /\ todo'[j] = new[j]
  /\ \A j \in Calls("paint")' : j \in NewPaints(new) \/ \E o \in Calls("paint") : WasAt(j, o, new)
  /\ \A j \in EndPaints' : j \in NewEnds(new) \/ \E o \in EndPaints : WasAt(j, o, new)
  /\ \A j \in EndPaintDraws' : j \in NewEndDraws(new) \/ \E o \in EndPaintDraws : WasAt(j, o, new)
  /\ \A j \in PaintDraws' : \E o \in PaintDraws : WasAt(j, o, new)
  /\ \A j \in EndOfDraw' : \E o \in EndOfDraw : WasAt(j, o, new)
  /\ \A o \in 2..Len(todo) :
       /\ o \in Calls("paint") => Len(new) + o - 1 \in Calls("paint")'
       /\ o \in EndPaints => Len(new) + o - 1 \in EndPaints'
       /\ o \in PaintDraws => Len(new) + o - 1 \in PaintDraws'
       /\ o \in EndOfDraw => Len(new) + o - 1 \in EndOfDraw'
  /\ \A o \in DOMAIN todo : o = 1 \/ o \in 2..Len(todo)
  /\ \A o \in 2..Len(todo) : o \in DOMAIN todo /\ o # 1 /\ 1 \in 1..(o - 1)
  /\ DOMAIN todo = Calls("paint") \cup EndPaints \cup PaintDraws \cup EndPaintDraws \cup EndOfDraw
  /\ DOMAIN todo' = Calls("paint")' \cup EndPaints' \cup PaintDraws' \cup EndPaintDraws' \cup EndOfDraw'

\* The calls of the paint move,
LEMMA PaintStepMoves ==
  ASSUME WindowInv, NEW K, NEW new, PaintStep(K, new)
  PROVE  PaintMoves(new)
<1>1. todo # <<>> /\ todo' = new \o Tail(todo) /\ new \in Seq(PaintStack(Len(draws), WithState(next)))
  BY DEF PaintStep
<1>2. phase = "paint"
  BY DEF PaintStep
<1>3. /\ todo \in Seq(PaintStack(Len(draws), WithState(next))) /\ Len(todo) \in Nat
         /\ DOMAIN todo = 1..Len(todo)
      /\ \A i \in DOMAIN todo : todo[i].do \in {"paint", "end draw", "end paint", "paint deferred", "end paint deferred"}
  BY <1>2, PaintTodo, Zenon
<1>4. PICK S : S = PaintStack(Len(draws), WithState(next))
  OBVIOUS
<1>5. Moves(new)
  <2>1. todo \in Seq(S) /\ new \in Seq(S)
    BY <1>1, <1>3, <1>4, Zenon
  <2> QED BY <1>1, <2>1, CallsMove
<1>6. /\ 1 \in DOMAIN todo /\ Call = todo[1] /\ DOMAIN todo = 1..Len(todo) /\ Len(todo) \in Nat
      /\ DOMAIN new = 1..Len(new) /\ Len(new) \in Nat /\ Len(todo') = Len(new) + Len(todo) - 1
      /\ DOMAIN todo' = 1..Len(todo')
      /\ \A j \in DOMAIN todo' : \/ j \in DOMAIN new /\ todo'[j] = new[j]
                                 \/ \E o \in 2..Len(todo) : j = Len(new) + o - 1 /\ todo'[j] = todo[o]
      /\ \A j \in DOMAIN new : j \in DOMAIN todo' /\ todo'[j] = new[j]
      /\ \A o \in 2..Len(todo) : Len(new) + o - 1 \in DOMAIN todo' /\ todo'[Len(new) + o - 1] = todo[o]
  BY <1>5, Zenon DEF Moves
<1>7. /\ \A o \in DOMAIN todo : o = 1 \/ o \in 2..Len(todo)
      /\ \A o \in 2..Len(todo) : o \in DOMAIN todo /\ o # 1 /\ 1 \in 1..(o - 1)
  <2>1. PICK n : n = Len(todo) /\ n \in Nat /\ DOMAIN todo = 1..n
    BY <1>6
  <2>2. /\ \A o \in 1..n : o = 1 \/ o \in 2..n
        /\ \A o \in 2..n : o \in 1..n /\ o # 1 /\ 1 \in 1..(o - 1)
    BY <2>1
  <2> QED BY <2>1, <2>2
<1>8. \A what : \A j \in Calls(what)' :
         (j \in DOMAIN new /\ new[j].do = what) \/ \E o \in Calls(what) : WasAt(j, o, new)
  BY <1>5, ZenonT(30) DEF Moves, WasAt
<1>9. \A what : \A o \in Calls(what) : o # 1 => Len(new) + o - 1 \in Calls(what)'
  BY <1>5, Zenon DEF Moves
<1>10. /\ \A j \in DOMAIN todo' : (j \in DOMAIN new /\ todo'[j] = new[j]) \/ \E o \in DOMAIN todo : WasAt(j, o, new)
       /\ \A o \in 2..Len(todo) : Len(new) + o - 1 \in DOMAIN todo' /\ WasAt(Len(new) + o - 1, o, new)
  BY <1>6, <1>7, Zenon DEF WasAt
<1>11. /\ \A j \in NewPaints(new) : j \in Calls("paint")' /\ todo'[j] = new[j]
       /\ \A j \in NewEnds(new) : j \in EndPaints' /\ todo'[j] = new[j]
       /\ \A j \in NewEndDraws(new) : j \in EndPaintDraws' /\ todo'[j] = new[j]
  <2>1. \A what : \A j \in DOMAIN new : new[j].do = what => j \in Calls(what)' /\ todo'[j] = new[j]
    BY <1>6, Zenon DEF Calls
  <2> QED BY <2>1, Zenon DEF NewPaints, NewEnds, NewEndDraws, EndPaints, EndPaintDraws
<1>12. /\ \A j \in Calls("paint")' : j \in NewPaints(new) \/ \E o \in Calls("paint") : WasAt(j, o, new)
       /\ \A j \in EndPaints' : j \in NewEnds(new) \/ \E o \in EndPaints : WasAt(j, o, new)
       /\ \A j \in EndPaintDraws' : j \in NewEndDraws(new) \/ \E o \in EndPaintDraws : WasAt(j, o, new)
  BY <1>8, Zenon DEF NewPaints, NewEnds, NewEndDraws, EndPaints, EndPaintDraws
<1>13. /\ \A j \in PaintDraws' : \E o \in PaintDraws : WasAt(j, o, new)
       /\ \A j \in EndOfDraw' : \E o \in EndOfDraw : WasAt(j, o, new)
  <2>1. \A j \in DOMAIN new : new[j].do = "paint" \/ new[j].do = "end paint" \/ new[j].do = "end paint deferred"
    BY Zenon DEF PaintStep, NewPaints, NewEnds, NewEndDraws
  <2>2. /\ "paint deferred" # "paint" /\ "paint deferred" # "end paint"
           /\ "paint deferred" # "end paint deferred"
        /\ "end draw" # "paint" /\ "end draw" # "end paint" /\ "end draw" # "end paint deferred"
    BY Zenon
  <2>3. \A j \in DOMAIN new : new[j].do # "paint deferred" /\ new[j].do # "end draw"
    BY <2>1, <2>2, Zenon
  <2> QED BY <1>8, <2>3, Zenon DEF PaintDraws, EndOfDraw
<1>14. \A o \in 2..Len(todo) :
         /\ o \in Calls("paint") => Len(new) + o - 1 \in Calls("paint")'
         /\ o \in EndPaints => Len(new) + o - 1 \in EndPaints'
         /\ o \in PaintDraws => Len(new) + o - 1 \in PaintDraws'
         /\ o \in EndOfDraw => Len(new) + o - 1 \in EndOfDraw'
  BY <1>7, <1>9, Zenon DEF EndPaints, PaintDraws, EndOfDraw
<1>15. DOMAIN todo = Calls("paint") \cup EndPaints \cup PaintDraws \cup EndPaintDraws \cup EndOfDraw
  BY <1>3, Zenon DEF Calls, EndPaints, PaintDraws, EndPaintDraws, EndOfDraw
<1>16. DOMAIN todo' = Calls("paint")' \cup EndPaints' \cup PaintDraws' \cup EndPaintDraws' \cup EndOfDraw'
  <2>1. ASSUME NEW j \in DOMAIN todo'
        PROVE  j \in Calls("paint")' \cup EndPaints' \cup PaintDraws' \cup EndPaintDraws' \cup EndOfDraw'
    <3>1. CASE j \in DOMAIN new
      <4>1. j \in NewPaints(new) \/ j \in NewEnds(new) \/ j \in NewEndDraws(new)
        BY <3>1, Zenon DEF PaintStep
      <4> QED BY <1>11, <4>1, Zenon
    <3>2. CASE \E o \in DOMAIN todo : WasAt(j, o, new)
      <4>1. PICK o \in DOMAIN todo : WasAt(j, o, new)
        BY <3>2, Zenon
      <4>2. todo'[j].do \in {"paint", "end draw", "end paint", "paint deferred", "end paint deferred"}
        BY <1>3, <4>1, Zenon DEF WasAt
      <4> QED BY <2>1, <4>2, Zenon DEF Calls, EndPaints, PaintDraws, EndPaintDraws, EndOfDraw
    <3> QED BY <1>10, <2>1, <3>1, <3>2, Zenon
  <2>2. Calls("paint")' \cup EndPaints' \cup PaintDraws' \cup EndPaintDraws' \cup EndOfDraw' \subseteq DOMAIN todo'
    BY Zenon DEF Calls, EndPaints, PaintDraws, EndPaintDraws, EndOfDraw
  <2> QED BY <2>1, <2>2, Zenon
<1> QED BY <1>6, <1>7, <1>10, <1>11, <1>12, <1>13, <1>14, <1>15, <1>16, Zenon DEF PaintMoves

\* What comes after a call that was there, or after the new ones, was there.
LEMMA WasAfter ==
  ASSUME NEW new, PaintMoves(new), NEW i \in DOMAIN todo', i > Len(new)
  PROVE  \E q \in DOMAIN todo : /\ WasAt(i, q, new)
                                /\ \A j, o : WasAt(j, o, new) /\ i > j => q > o
                                /\ q > 1
<1>1. /\ DOMAIN todo = 1..Len(todo) /\ Len(todo) \in Nat
      /\ DOMAIN new = 1..Len(new) /\ Len(new) \in Nat
      /\ \A j \in DOMAIN todo' : (j \in DOMAIN new /\ todo'[j] = new[j]) \/ \E o \in DOMAIN todo : WasAt(j, o, new)
  BY DEF PaintMoves
<1>2. i \notin DOMAIN new
  BY <1>1
<1>3. PICK q \in DOMAIN todo : WasAt(i, q, new)
  BY <1>1, <1>2
<1>4. q \in 2..Len(todo) /\ i = Len(new) + q - 1
  BY <1>3 DEF WasAt
<1>5. \A j, o : WasAt(j, o, new) /\ i > j => q > o
  BY <1>1, <1>4 DEF WasAt
<1>6. q > 1
  BY <1>1, <1>4
<1> QED BY <1>3, <1>5, <1>6

\* each to one place.
LEMMA WasOrder ==
  ASSUME NEW new, PaintMoves(new)
  PROVE  /\ \A j, o : WasAt(j, o, new) => j > Len(new) /\ o > 1 /\ o # 1 /\ o \in DOMAIN todo
                                          /\ o \in 2..Len(todo)
         /\ \A j, o, i, q : WasAt(j, o, new) /\ WasAt(i, q, new) /\ o = q => i = j
<1>1. /\ DOMAIN todo = 1..Len(todo) /\ Len(todo) \in Nat /\ Len(new) \in Nat
  BY DEF PaintMoves
<1> QED BY <1>1 DEF WasAt

\* The deferred draws come last, and each once.
LEMMA PaintRest ==
  ASSUME WindowInv, SeenInv, NEW K, NEW new, PaintStep(K, new),
         \A j \in NewEndDraws(new) : 1 \in PaintDraws /\ j = Len(new) /\ new[j].draw = Call.draw
  PROVE  /\ phase' = "paint" /\ Drawing /\ ~First /\ ~First' /\ Doing("deferred") = {}
            /\ Doing("deferred")' = {}
         /\ Len(todo') \in EndOfDraw' /\ \A i \in DOMAIN todo' \ {Len(todo')} : i \notin EndOfDraw'
         /\ \A i, j \in PaintDraws' \cup EndPaintDraws' : todo'[i].draw = todo'[j].draw => i = j
         /\ DeferredLast'
<1>1. PaintMoves(new) /\ phase = "paint" /\ phase' = "paint" /\ 1 \notin EndOfDraw
  BY PaintStepMoves DEF PaintStep
<1>2. /\ Doing("deferred") = {}
      /\ Len(todo) \in EndOfDraw /\ \A i \in DOMAIN todo \ {Len(todo)} : i \notin EndOfDraw
      /\ \A i, j \in PaintDraws \cup EndPaintDraws : todo[i].draw = todo[j].draw => i = j
      /\ DeferredLast
  BY <1>1 DEF SeenInv, PaintsOK
<1>3. Doing("deferred")' = {}
  <2>1. \A j \in DOMAIN todo' : todo'[j].do # "deferred"
    <3>1. DOMAIN todo' = Calls("paint")' \cup EndPaints' \cup PaintDraws' \cup EndPaintDraws' \cup EndOfDraw'
      BY <1>1, Zenon DEF PaintMoves
    <3>2. \A w \in {"paint", "end paint", "paint deferred", "end paint deferred", "end draw"} : w # "deferred"
      BY Zenon
    <3>3. \A j \in DOMAIN todo' : todo'[j].do \in {"paint", "end paint", "paint deferred", "end paint deferred", "end draw"}
      BY <3>1, Zenon DEF Calls, EndPaints, PaintDraws, EndPaintDraws, EndOfDraw
    <3> QED BY <3>2, <3>3, Zenon
  <2> QED BY <2>1 DEF Doing, All
<1>4. Drawing /\ ~First /\ ~First'
  BY <1>1 DEF Drawing, First
<1>5. Len(todo') \in EndOfDraw' /\ \A i \in DOMAIN todo' \ {Len(todo')} : i \notin EndOfDraw'
  <2>1. PICK l : l = Len(todo) /\ l \in EndOfDraw
    BY <1>2
  <2>2. l \in 2..Len(todo)
    <3>1. l \in DOMAIN todo
      BY <2>1 DEF EndOfDraw, Calls
    <3>2. l # 1
      BY <1>1, <2>1
    <3> QED BY <1>1, <3>1, <3>2 DEF PaintMoves
  <2>3. Len(new) + l - 1 = Len(todo')
    BY <1>1, <2>1 DEF PaintMoves
  <2>4. Len(new) + l - 1 \in EndOfDraw'
    BY <1>1, <2>1, <2>2 DEF PaintMoves
  <2>5. ASSUME NEW i \in EndOfDraw' PROVE i = Len(todo')
    <3>1. PICK o \in EndOfDraw : WasAt(i, o, new)
      BY <1>1, <2>5 DEF PaintMoves
    <3>2. o = l
      <4>1. o \in DOMAIN todo
        BY <1>1, <3>1, WasOrder
      <4> QED BY <1>2, <2>1, <3>1, <4>1
    <3> QED BY <2>3, <3>1, <3>2 DEF WasAt
  <2> QED BY <2>3, <2>4, <2>5
<1>6. ASSUME NEW j \in PaintDraws' \cup EndPaintDraws'
      PROVE  \/ 1 \in PaintDraws /\ j = Len(new) /\ todo'[j].draw = Call.draw
             \/ \E o \in PaintDraws \cup EndPaintDraws : WasAt(j, o, new)
  <2>1. CASE j \in NewEndDraws(new)
    <3>1. todo'[j] = new[j]
      BY <1>1, <2>1 DEF PaintMoves
    <3> QED BY <2>1, <3>1
  <2>2. CASE j \notin NewEndDraws(new)
    BY <1>1, <1>6, <2>2 DEF PaintMoves
  <2> QED BY <2>1, <2>2
<1>7. Call = todo[1]
  BY <1>1 DEF PaintMoves
<1>8. ASSUME NEW i \in PaintDraws' \cup EndPaintDraws', NEW j \in PaintDraws' \cup EndPaintDraws',
             todo'[i].draw = todo'[j].draw
      PROVE  i = j
  <2>1. ASSUME NEW a, NEW b, 1 \in PaintDraws, todo'[a].draw = Call.draw, todo'[a].draw = todo'[b].draw,
               NEW o \in PaintDraws \cup EndPaintDraws, WasAt(b, o, new)
        PROVE  FALSE
    <3>1. todo[o].draw = todo[1].draw
      BY <1>7, <2>1 DEF WasAt
    <3>2. o = 1
      BY <1>2, <2>1, <3>1
    <3> QED BY <1>1, <2>1, <3>2, WasOrder
  <2>2. ASSUME NEW o \in PaintDraws \cup EndPaintDraws, WasAt(i, o, new),
               NEW q \in PaintDraws \cup EndPaintDraws, WasAt(j, q, new)
        PROVE  i = j
    <3>1. o = q
      BY <1>2, <1>8, <2>2 DEF WasAt
    <3> QED BY <1>1, <2>2, <3>1, WasOrder
  <2>3. CASE 1 \in PaintDraws /\ i = Len(new) /\ todo'[i].draw = Call.draw
    BY <1>6, <1>8, <2>1, <2>3
  <2>4. CASE 1 \in PaintDraws /\ j = Len(new) /\ todo'[j].draw = Call.draw
    BY <1>6, <1>8, <2>1, <2>4
  <2> QED BY <1>6, <1>8, <2>2, <2>3, <2>4
<1>9. DeferredLast'
  <2>1. ASSUME NEW j \in PaintDraws' \cup EndPaintDraws', NEW i \in DOMAIN todo', i > j
               PROVE i \in PaintDraws' \cup EndOfDraw'
    <3>1. i > Len(new)
      <4>1. CASE j = Len(new)
        BY <2>1, <4>1
      <4>2. CASE \E o : WasAt(j, o, new)
        <5>1. j > Len(new) /\ j \in DOMAIN todo' /\ i \in DOMAIN todo'
          BY <1>1, <2>1, <4>2, WasOrder DEF PaintDraws, EndPaintDraws, Calls
        <5>2. i \in Int /\ j \in Int /\ Len(new) \in Int
          BY <1>1, <5>1 DEF PaintMoves
        <5> QED BY <2>1, <5>1, <5>2
      <4> QED BY <1>6, <2>1, <4>1, <4>2
    <3>2. PICK q \in DOMAIN todo : WasAt(i, q, new) /\ (\A k, o : WasAt(k, o, new) /\ i > k => q > o)
          /\ q > 1
      BY <1>1, <2>1, <3>1, WasAfter
    <3>3. q \in PaintDraws \cup EndOfDraw
      BY <1>2, <1>6, <2>1, <3>2 DEF DeferredLast
    <3>4. q \in 2..Len(todo) /\ i = Len(new) + q - 1
      BY <3>2 DEF WasAt
    <3> QED BY <1>1, <3>3, <3>4 DEF PaintMoves
  <2> QED BY <2>1 DEF DeferredLast
<1> QED BY <1>1, <1>2, <1>3, <1>4, <1>5, <1>8, <1>9

\* What is to be painted, and what of the deferred draws, is in the calls.
LEMMA ToPaintIs ==
  /\ ToPaint = {todo[i].view : i \in Calls("paint")} /\ ToPaint' = {todo'[i].view : i \in Calls("paint")'}
  /\ DrawsToPaint = {todo[i].draw : i \in PaintDraws} /\ DrawsToPaint' = {todo'[i].draw : i \in PaintDraws'}
<1>1. ToPaint = {todo[i].view : i \in Calls("paint")}
  BY DEF ToPaint, Doing, All, Calls
<1>2. ToPaint' = {todo'[i].view : i \in Calls("paint")'}
  BY DEF ToPaint, Doing, All, Calls
<1>3. PICK w : w = "paint deferred"
  OBVIOUS
<1>4. DrawsTo(w) = {todo[i].draw : i \in Calls(w)}
  BY DEF DrawsTo, Doing, All, Calls
<1>5. DrawsTo(w)' = {todo'[i].draw : i \in Calls(w)'}
  BY DEF DrawsTo, Doing, All, Calls
<1>6. DrawsToPaint = {todo[i].draw : i \in PaintDraws}
  BY <1>3, <1>4, Zenon DEF DrawsToPaint, PaintDraws
<1>7. DrawsToPaint' = {todo'[i].draw : i \in PaintDraws'}
  BY <1>3, <1>5, Zenon DEF DrawsToPaint, PaintDraws
<1> QED BY <1>1, <1>2, <1>6, <1>7

\* The deferred draws to be painted, but for the one that is called.
LEMMA PaintDrawsStay ==
  ASSUME WindowInv, NEW K, NEW new, PaintStep(K, new)
  PROVE  /\ DrawsToPaint' \subseteq DrawsToPaint
         /\ \A n \in DrawsToPaint : (1 \in PaintDraws => Call.draw # n) => n \in DrawsToPaint'
<1>1. PaintMoves(new)
  BY PaintStepMoves
<1>2. DrawsToPaint = {todo[i].draw : i \in PaintDraws}
                                     /\ DrawsToPaint' = {todo'[i].draw : i \in PaintDraws'}
  BY ToPaintIs
<1>3. ASSUME NEW j \in PaintDraws' PROVE todo'[j].draw \in DrawsToPaint
  <2>1. PICK o \in PaintDraws : WasAt(j, o, new)
    BY <1>1, <1>3 DEF PaintMoves
  <2> QED BY <1>2, <2>1 DEF WasAt
<1>4. ASSUME NEW n \in DrawsToPaint, 1 \in PaintDraws => Call.draw # n PROVE n \in DrawsToPaint'
  <2>1. PICK o \in PaintDraws : todo[o].draw = n
    BY <1>2, <1>4
  <2>2. o # 1 /\ o \in DOMAIN todo
    BY <1>1, <1>4, <2>1 DEF PaintMoves
  <2>3. Len(new) + o - 1 \in PaintDraws' /\ todo'[Len(new) + o - 1] = todo[o]
    BY <1>1, <2>1, <2>2 DEF PaintMoves, WasAt
  <2> QED BY <1>2, <2>1, <2>3
<1> QED BY <1>2, <1>3, <1>4

\* A deferred draw that is not called goes on.
LEMMA PaintSame ==
  ASSUME WindowInv, SeenInv, NEW K, NEW new, PaintStep(K, new), Doing("deferred")' = {},
         NEW n \in DOMAIN draws, draws'[n] = draws[n], draws[n].fresh \/ (1 \in PaintDraws => Call.draw # n)
  PROVE  DrawGoes(n)
<1>1. phase = "paint" /\ phase' = "paint" /\ Goes(<<>>, K)
  BY DEF PaintStep
<1>2. DrawList = draws /\ DrawList' = draws' /\ ~First /\ ~First' /\ Drawing
  BY <1>1 DEF DrawList, First, Drawing
<1>3. draws[n] \in DeferredDraws
  <2>1. draws \in Seq(DeferredDraws)
    BY DrawTypes
  <2>2. DOMAIN draws = 1..Len(draws)
    BY <2>1, LenProperties
  <2> QED BY <2>1, <2>2, ElementOfSeq
<1>4. Doing("deferred") = {}
  BY <1>1 DEF SeenInv, PaintsOK
<1>5. InNext(n) /\ InNext(n)'
  BY <1>2, <1>4 DEF InNext, DrawsTo
<1>6. PaintInNext(n)' <=> PaintInNext(n)
  <2>1. draws[n].fresh \/ (n \in DrawsToPaint' <=> n \in DrawsToPaint)
    BY PaintDrawsStay
  <2> QED BY <1>1, <1>2, <2>1 DEF PaintInNext
<1>7. SameDraw(n)
  BY <1>2, <1>5, <1>6 DEF SameDraw
<1>8. DrawOK(n)
  BY <1>2 DEF SeenInv, DeferredOK
<1>9. DrawOK(n)' /\ DrawItems(n)' = DrawItems(n)
  BY <1>1, <1>2, <1>3, <1>7, <1>8, DrawStays
<1> QED BY <1>2, <1>3, <1>9 DEF DrawGoes, DeferredDraws

\* The deferred draws are counted as before.
LEMMA PaintedDraws ==
  ASSUME WindowInv, phase = "paint", phase' = "paint", NEW l, l = Len(draws), Len(draws') = l,
         draws' \in Seq(DeferredDraws), \A n \in 1..l : DrawGoes(n)
  PROVE  DrawsGo(l)
<1>1. DrawList = draws /\ DrawList' = draws'
  BY DEF DrawList, First
<1>2. l \in Nat /\ DOMAIN draws = 1..l /\ DOMAIN draws' = 1..l
  <2>1. draws \in Seq(DeferredDraws)
    BY DrawTypes
  <2> QED BY <2>1, LenProperties
<1> QED BY <1>1, <1>2 DEF DrawsGo

\* None was painted.
LEMMA NoDrawPainted ==
  ASSUME WindowInv, SeenInv, NEW K, NEW new, PaintStep(K, new), Doing("deferred")' = {}, draws' = draws,
         1 \notin PaintDraws
  PROVE  DrawsGo(Len(draws))
<1>1. draws \in Seq(DeferredDraws) /\ DOMAIN draws = 1..Len(draws)
  BY DrawTypes, LenProperties
<1>2. PICK l : l = Len(draws)
  OBVIOUS
<1>3. \A n \in 1..l : DrawGoes(n)
  BY <1>1, <1>2, PaintSame
<1>4. phase = "paint" /\ phase' = "paint"
  BY DEF PaintStep
<1>5. DrawsGo(l)
  BY <1>1, <1>2, <1>3, <1>4, PaintedDraws
<1> QED BY <1>2, <1>5

\* The ends on the stack are of views, and from where something was in the frame.
LEMMA PaintEndTypes ==
  ASSUME WindowInv, phase = "paint"
  PROVE  /\ \A j \in EndPaints : todo[j].view \in WithState(next) /\ todo[j].view \in Views
                                 /\ todo[j].from.keys \in Nat /\ todo[j].from \in PaintPlaces
         /\ \A j \in EndPaintDraws : todo[j].draw \in 1..Len(draws) /\ draws[todo[j].draw].view \in Views
                                     /\ todo[j].from.keys \in Nat /\ todo[j].from \in PaintPlaces
         /\ \A j \in PaintDraws : todo[j].draw \in 1..Len(draws)
         /\ \A j \in Calls("paint") : todo[j].view \in Views
<1>1. \A i \in DOMAIN todo :
              /\ todo[i].do = "paint" => todo[i].view \in Views
              /\ todo[i].do = "end paint" => todo[i].view \in WithState(next)
              /\ todo[i].do \in {"paint deferred", "end paint deferred"} => todo[i].draw \in 1..Len(draws)
              /\ todo[i].do \in {"end paint", "end paint deferred"} => todo[i].from \in PaintPlaces
  BY PaintTodo, Zenon
<1>2. /\ \A j \in EndPaints : todo[j].view \in WithState(next) /\ todo[j].from \in PaintPlaces
      /\ \A j \in EndPaintDraws : todo[j].draw \in 1..Len(draws) /\ todo[j].from \in PaintPlaces
      /\ \A j \in PaintDraws : todo[j].draw \in 1..Len(draws)
      /\ \A j \in Calls("paint") : todo[j].view \in Views
  BY <1>1, Zenon DEF EndPaints, EndPaintDraws, PaintDraws, Calls
<1>3. \A n \in 1..Len(draws) : draws[n].view \in Views
  <2>1. draws \in Seq(DeferredDraws)
    BY DrawTypes
  <2>2. \A n \in 1..Len(draws) : draws[n] \in DeferredDraws
    BY <2>1, ElementOfSeq
  <2> QED BY <2>2 DEF DeferredDraws
<1>4. (\A p \in PaintPlaces : p.keys \in Nat) /\ WithState(next) \subseteq Views
  BY RangedIs DEF WithState
<1> QED BY <1>2, <1>3, <1>4

\* What is painted in a view that is being painted stays in it.
LEMMA PaintingEnds ==
  ASSUME WindowInv, SeenInv, NEW K, NEW new, PaintStep(K, new), draws' = draws,
         1 \in Calls("paint") \cup EndPaints, NEW v, v = Call.view, v \in Views,
         NewEndDraws(new) = {}, \A n \in DOMAIN new : new[n].view \in Sub(v),
         v \notin Cached => NewEnds(new) = {} /\ NoTops(All(K)),
         \A c \in Top : v \in Sub(c) \ {c} => NoTops(All(K)),
         \A j \in NewEnds(new) : EndPaintOK(j, new[j], new[j].view)'
  PROVE  /\ \A j \in EndPaints' : EndPaintOK(j, todo[j], todo[j].view)'
         /\ \A j \in EndPaintDraws' : EndPaintDrawOK(j, todo[j], draws[todo[j].draw].view)'
<1>1. PaintMoves(new) /\ phase = "paint" /\ fresh' = fresh /\ Goes(<<>>, K)
  BY PaintStepMoves DEF PaintStep
<1>2. /\ \A j \in EndPaints : EndPaintOK(j, todo[j], todo[j].view)
      /\ \A j \in EndPaintDraws : EndPaintDrawOK(j, todo[j], draws[todo[j].draw].view)
  BY <1>1 DEF SeenInv, PaintsOK
<1>3. IsWindowFrame(next) /\ More(next', next, <<>>, K)
  BY <1>1, DrawTypes DEF Goes
<1>4. ASSUME NEW a \in Nat, a <= Len(next.keys)
      PROVE  a <= Len(next'.keys) /\ KeysAfter(next', a) = KeysAfter(next, a) \cup All(K)
  <2>1. /\ KeysAfter(next', a) = KeysAfter(next, a) \cup All(K)
        /\ Len(next.keys) \in Nat /\ Len(K) \in Nat /\ Len(next'.keys) = Len(next.keys) + Len(K)
    BY <1>3, <1>4, AfterGrows
  <2> QED BY <1>4, <2>1, StillWithin
\* What is below a call that was there was below it, or is in what is called now.
<1>5. ASSUME NEW j, NEW o, WasAt(j, o, new), NEW i \in 1..(j - 1)
      PROVE  /\ 1 \in 1..(o - 1) /\ i \in DOMAIN todo'
             /\ \/ i \in DOMAIN new /\ todo'[i] = new[i] /\ (i \in NewPaints(new) \/ i \in NewEnds(new))
                \/ \E q \in 1..(o - 1) : WasAt(i, q, new)
  <2>1. /\ DOMAIN todo = 1..Len(todo) /\ Len(todo) \in Nat
        /\ DOMAIN new = 1..Len(new) /\ Len(new) \in Nat /\ Len(todo') = Len(new) + Len(todo) - 1
        /\ DOMAIN todo' = 1..Len(todo')
        /\ \A k \in DOMAIN todo' : (k \in DOMAIN new /\ todo'[k] = new[k]) \/ \E q \in DOMAIN todo : WasAt(k, q, new)
        /\ \A k \in 2..Len(todo) : 1 \in 1..(k - 1)
    BY <1>1 DEF PaintMoves
  <2>2. o \in 2..Len(todo) /\ j = Len(new) + o - 1
    BY <1>5 DEF WasAt
  <2>3. i \in DOMAIN todo' /\ 1 \in 1..(o - 1)
    BY <1>5, <2>1, <2>2
  <2>4. CASE i \in DOMAIN new /\ todo'[i] = new[i]
    <3>1. DOMAIN new = NewPaints(new) \cup NewEnds(new) \cup NewEndDraws(new)
      BY DEF PaintStep
    <3> QED BY <2>3, <2>4, <3>1
  <2>5. CASE \E q \in DOMAIN todo : WasAt(i, q, new)
    <3>1. PICK q \in DOMAIN todo : WasAt(i, q, new)
      BY <2>5
    <3>2. q \in 1..(o - 1)
      BY <1>5, <2>1, <2>2, <3>1, SMTT(30) DEF WasAt
    <3> QED BY <2>3, <3>1, <3>2
  <2> QED BY <2>1, <2>3, <2>4, <2>5
<1>6. Call = todo[1]
  BY <1>1 DEF PaintMoves
<1>7. ASSUME NEW j \in EndPaints', j \notin NewEnds(new) PROVE EndPaintOK(j, todo[j], todo[j].view)'
  <2>1. PICK o \in EndPaints : WasAt(j, o, new)
    BY <1>1, <1>7 DEF PaintMoves
  <2>2. PICK e, c : e = todo[o] /\ c = e.view
    OBVIOUS
  <2>3. EndPaintOK(o, e, c) /\ e.from.keys \in Nat /\ c \in Views /\ todo'[j] = e
    BY <1>1, <1>2, <2>1, <2>2, PaintEndTypes DEF WasAt
  <2>4. o \in 2..Len(todo) /\ 1 \in 1..(o - 1)
    BY <1>1, <2>1 DEF PaintMoves, WasAt
  <2>5. v \in Sub(c) \ {c}
    BY <1>6, <2>3, <2>4 DEF EndPaintOK
  <2>6. \A u \in Sub(v) : u \in Sub(c) \ {c}
    <3>1. Sub(v) \subseteq Sub(c)
      BY <2>3, <2>5, SubIs
    <3>2. c \notin Sub(v)
      BY <2>3, <2>5, SubIs
    <3> QED BY <3>1, <3>2
  <2>7. ASSUME NEW i \in 1..(j - 1)
               PROVE i \in Calls("paint")' \cup EndPaints' /\ todo'[i].view \in Sub(c) \ {c}
    <3>1. CASE i \in DOMAIN new /\ todo'[i] = new[i] /\ (i \in NewPaints(new) \/ i \in NewEnds(new))
      <4>1. i \in Calls("paint")' \cup EndPaints'
        BY <1>1, <3>1 DEF PaintMoves
      <4> QED BY <2>6, <3>1, <4>1
    <3>2. CASE \E q \in 1..(o - 1) : WasAt(i, q, new)
      <4>1. PICK q \in 1..(o - 1) : WasAt(i, q, new)
        BY <3>2
      <4>2. q \in Calls("paint") \cup EndPaints /\ todo[q].view \in Sub(c) \ {c}
        BY <2>3, <4>1 DEF EndPaintOK
      <4>3. q \in 2..Len(todo) /\ i = Len(new) + q - 1 /\ todo'[i] = todo[q]
        BY <4>1 DEF WasAt
      <4>4. i \in Calls("paint")' \cup EndPaints'
        BY <1>1, <4>2, <4>3 DEF PaintMoves
      <4> QED BY <4>2, <4>3, <4>4
    <3> QED BY <1>5, <2>1, <2>7, <3>1, <3>2
  <2>8. e.from.keys <= Len(next'.keys) /\ (c \in Top => NoTops(KeysAfter(next', e.from.keys)))
    BY <1>4, <2>3, <2>5 DEF EndPaintOK, NoTops
  <2>9. EndPaintOK(j, e, c)'
    BY <1>1, <2>3, <2>7, <2>8 DEF EndPaintOK
  <2> QED BY <2>2, <2>3, <2>9
<1>8. ASSUME NEW j \in EndPaintDraws' PROVE EndPaintDrawOK(j, todo[j], draws[todo[j].draw].view)'
  <2>1. PICK o \in EndPaintDraws : WasAt(j, o, new)
    BY <1>1, <1>8 DEF PaintMoves
  <2>2. PICK e, w : e = todo[o] /\ w = draws[e.draw].view
    OBVIOUS
  <2>3. EndPaintDrawOK(o, e, w) /\ e.from.keys \in Nat /\ w \in Views /\ todo'[j] = e
    BY <1>1, <1>2, <2>1, <2>2, PaintEndTypes DEF WasAt
  <2>4. o \in 2..Len(todo) /\ 1 \in 1..(o - 1)
    BY <1>1, <2>1 DEF PaintMoves, WasAt
  <2>5. v \in Sub(w) /\ 1 \in Calls("paint")
    BY <1>6, <2>3, <2>4 DEF EndPaintDrawOK
  <2>6. v \notin Cached /\ Sub(v) \subseteq Sub(w)
    <3>1. \E n \in DOMAIN draws : draws[n].fresh /\ draws[n].view = w
      <4>1. e.draw \in 1..Len(draws) /\ DOMAIN draws = 1..Len(draws)
        BY <1>1, <2>1, <2>2, PaintEndTypes, DrawTypes, LenProperties
      <4> QED BY <2>2, <2>3, <4>1 DEF EndPaintDrawOK
    <3>2. Sub(w) \cap Cached = {}
      BY <1>1, <3>1 DEF SeenInv, DeferredOK, Drawing, DrawOK, DrawList, First
    <3>3. Sub(v) \subseteq Sub(w)
      BY <2>3, <2>5, SubIs
    <3> QED BY <2>5, <3>2, <3>3
  <2>7. NewEnds(new) = {} /\ NoTops(All(K))
    BY <2>6
  <2>8. ASSUME NEW i \in 1..(j - 1) PROVE i \in Calls("paint")' /\ todo'[i].view \in Sub(w)
    <3>1. CASE i \in DOMAIN new /\ todo'[i] = new[i] /\ (i \in NewPaints(new) \/ i \in NewEnds(new))
      <4>1. i \in Calls("paint")'
        BY <1>1, <2>7, <3>1 DEF PaintMoves
      <4> QED BY <2>6, <3>1, <4>1
    <3>2. CASE \E q \in 1..(o - 1) : WasAt(i, q, new)
      <4>1. PICK q \in 1..(o - 1) : WasAt(i, q, new)
        BY <3>2
      <4>2. q \in Calls("paint") /\ todo[q].view \in Sub(w)
        BY <2>3, <4>1 DEF EndPaintDrawOK
      <4>3. q \in 2..Len(todo) /\ i = Len(new) + q - 1 /\ todo'[i] = todo[q]
        BY <4>1 DEF WasAt
      <4>4. i \in Calls("paint")'
        BY <1>1, <4>2, <4>3 DEF PaintMoves
      <4> QED BY <4>2, <4>3, <4>4
    <3> QED BY <1>5, <2>1, <2>8, <3>1, <3>2
  <2>9. e.from.keys <= Len(next'.keys) /\ NoTops(KeysAfter(next', e.from.keys))
    BY <1>4, <2>3, <2>7 DEF EndPaintDrawOK, NoTops
  <2>10. draws'[e.draw].fresh
    BY <2>3 DEF EndPaintDrawOK
  <2>11. EndPaintDrawOK(j, e, w)'
    BY <2>8, <2>9, <2>10 DEF EndPaintDrawOK
  <2> QED BY <2>2, <2>3, <2>11
<1>9. \A j \in NewEnds(new) : todo'[j] = new[j]
  BY <1>1 DEF PaintMoves
<1> QED BY <1>7, <1>8, <1>9

\* The caches that are in the frame are, if what is to be painted is in the same of them.
LEMMA CachesPainted ==
  ASSUME WindowInv, SeenInv, NEW K, NEW new, PaintStep(K, new), SameStates, NEW l, DrawsGo(l),
         \A c \in Top \cap WithState(next) : c \notin fresh => (Holders[c] \cap ToPaint = {} <=> Holders[c] \cap ToPaint' = {})
  PROVE  CachesOK'
<1>1. phase = "paint" /\ phase' = "paint" /\ Goes(<<>>, K) /\ fresh' = fresh
  BY DEF PaintStep
<1>2. \A c \in Top \cap WithState(next) : CacheInNext(c)' <=> CacheInNext(c)
  BY <1>1 DEF CacheInNext
<1> QED BY <1>1, <1>2, CachesGo DEF SeenInv, Drawing

\* What is called to be painted is apart from what is.
LEMMA PaintsApart ==
  ASSUME WindowInv, SeenInv, NEW K, NEW new, PaintStep(K, new),
         \A i, j \in NewPaints(new) : i # j => Sub(new[i].view) \cap Sub(new[j].view) = {},
         NewPaints(new) # {} => \/ 1 \in Calls("paint") /\ \A i \in NewPaints(new) : Sub(new[i].view) \subseteq Sub(Call.view)
                                \/ \A o \in Calls("paint") : o = 1
  PROVE  \A i, j \in Calls("paint")' : i # j => Sub(todo'[i].view) \cap Sub(todo'[j].view) = {}
<1>1. PaintMoves(new) /\ phase = "paint"
  BY PaintStepMoves DEF PaintStep
<1>2. \A i, j \in Calls("paint") : i # j => Sub(todo[i].view) \cap Sub(todo[j].view) = {}
  BY <1>1 DEF SeenInv, PaintsOK
<1>3. Call = todo[1]
  BY <1>1 DEF PaintMoves
<1>4. \A j \in Calls("paint")' : j \in NewPaints(new) \/ \E o \in Calls("paint") : WasAt(j, o, new)
  BY <1>1 DEF PaintMoves
<1>5. \A j \in NewPaints(new) : todo'[j] = new[j]
  BY <1>1 DEF PaintMoves
<1>6. ASSUME NEW i \in NewPaints(new), NEW j, NEW o \in Calls("paint"), WasAt(j, o, new)
      PROVE  Sub(todo'[i].view) \cap Sub(todo'[j].view) = {}
  <2>1. o # 1 /\ todo'[j] = todo[o] /\ todo'[i] = new[i]
    BY <1>1, <1>5, <1>6, WasOrder DEF WasAt
  <2>2. 1 \in Calls("paint") /\ Sub(new[i].view) \subseteq Sub(Call.view)
    BY <1>6, <2>1
  <2> QED BY <1>2, <1>3, <1>6, <2>1, <2>2
<1>7. ASSUME NEW i, NEW j, i # j, NEW o \in Calls("paint"), WasAt(i, o, new), NEW q \in Calls("paint"),
             WasAt(j, q, new)
      PROVE  Sub(todo'[i].view) \cap Sub(todo'[j].view) = {}
  <2>1. o # q
    BY <1>1, <1>7, WasOrder
  <2> QED BY <1>2, <1>7, <2>1 DEF WasAt
<1>8. ASSUME NEW i \in Calls("paint")', NEW j \in Calls("paint")', i # j
      PROVE  Sub(todo'[i].view) \cap Sub(todo'[j].view) = {}
  <2>1. CASE i \in NewPaints(new) /\ j \in NewPaints(new)
    BY <1>5, <1>8, <2>1
  <2>2. CASE i \in NewPaints(new) /\ \E o \in Calls("paint") : WasAt(j, o, new)
    BY <1>6, <2>2
  <2>3. CASE j \in NewPaints(new) /\ \E o \in Calls("paint") : WasAt(i, o, new)
    BY <1>6, <2>3
  <2>4. CASE (\E o \in Calls("paint") : WasAt(i, o, new)) /\ \E o \in Calls("paint") : WasAt(j, o, new)
    BY <1>7, <1>8, <2>4
  <2> QED BY <1>4, <1>8, <2>1, <2>2, <2>3, <2>4
<1> QED BY <1>8

\* A step that paints a view, or ends it.
LEMMA PaintsOn ==
  ASSUME WindowInv, SeenInv, NEW K, NEW new, PaintStep(K, new), draws' = draws, CachesOK',
         1 \in Calls("paint") \cup EndPaints, NEW v, v = Call.view, v \in Views,
         NewEndDraws(new) = {}, \A n \in DOMAIN new : new[n].view \in Sub(v),
         v \notin Cached => NewEnds(new) = {} /\ NoTops(All(K)),
         \A c \in Top : v \in Sub(c) \ {c} => NoTops(All(K)),
         \A j \in NewEnds(new) : EndPaintOK(j, new[j], new[j].view)',
         \A i, j \in NewPaints(new) : i # j => Sub(new[i].view) \cap Sub(new[j].view) = {},
         NewPaints(new) # {} => 1 \in Calls("paint")
  PROVE  SeenInv'
<1>1. /\ phase' = "paint" /\ Drawing /\ ~First /\ ~First' /\ Doing("deferred") = {}
         /\ Doing("deferred")' = {}
      /\ Len(todo') \in EndOfDraw' /\ \A i \in DOMAIN todo' \ {Len(todo')} : i \notin EndOfDraw'
      /\ \A i, j \in PaintDraws' \cup EndPaintDraws' : todo'[i].draw = todo'[j].draw => i = j
      /\ DeferredLast'
  BY PaintRest
<1>2. /\ \A j \in EndPaints' : EndPaintOK(j, todo[j], todo[j].view)'
      /\ \A j \in EndPaintDraws' : EndPaintDrawOK(j, todo[j], draws[todo[j].draw].view)'
  BY PaintingEnds
<1>3. \A i, j \in Calls("paint")' : i # j => Sub(todo'[i].view) \cap Sub(todo'[j].view) = {}
  <2>1. \A i \in NewPaints(new) : Sub(new[i].view) \subseteq Sub(Call.view)
    BY SubIs DEF NewPaints
  <2> QED BY <2>1, PaintsApart
<1>4. PaintsOK'
  BY <1>1, <1>2, <1>3 DEF PaintsOK
<1>5. 1 \notin PaintDraws
  <2>1. PICK w, x : w = "paint deferred" /\ x = "end paint"
    OBVIOUS
  <2>2. w # "paint" /\ w # x
    <3>1. "paint deferred" # "paint" /\ "paint deferred" # "end paint"
      BY Zenon
    <3> QED BY <2>1, <3>1, Zenon
  <2>3. \A u : 1 \in Calls(u) => todo[1].do = u
    BY DEF Calls
  <2> QED BY <2>1, <2>2, <2>3, Zenon DEF PaintDraws, EndPaints
<1>6. DrawsGo(Len(draws))
  BY <1>1, <1>5, NoDrawPainted
<1>7. /\ Goes(<<>>, K) /\ built' = built /\ fresh' = fresh /\ WithState(next') = WithState(next)
      /\ \A c \in Top : CacheKey(c) \in All(K) => c \in WithState(next)
  BY DEF PaintStep
<1> QED BY <1>1, <1>4, <1>6, <1>7, PaintKeeps

\* The calls that paint the first n of what is in a view.
PaintsUpTo(s, in, n) ==
  /\ s \in Seq([do : {"paint"}, view : Views])
  /\ \A i \in DOMAIN s : \E m \in 1..n : ~in[m].deferred /\ s[i].view = in[m].view
  /\ \A i, j \in DOMAIN s : i # j => s[i].view # s[j].view
  /\ \A m \in 1..n : ~in[m].deferred => \E i \in DOMAIN s : s[i].view = in[m].view

\* One more of the views in it is to be painted, if it is not deferred:
LEMMA PaintsOneMore ==
  ASSUME NEW in \in Seq(Nested), NEW n \in Nat, n + 1 \in 1..Len(in), NEW s, PaintsUpTo(s, in, n),
         \A m \in 1..n : in[m].view # in[n + 1].view
  PROVE  /\ in[n + 1].deferred => PaintsUpTo(s, in, n + 1)
         /\ ~in[n + 1].deferred => PaintsUpTo(Append(s, [do |-> "paint", view |-> in[n + 1].view]), in, n + 1)
<1> DEFINE C == [do : {"paint"}, view : Views]
           x == [do |-> "paint", view |-> in[n + 1].view]
           t == Append(s, x)
<1>1. in[n + 1].view \in Views
  <2>1. in[n + 1] \in Nested
    BY ElementOfSeq
  <2> QED BY <2>1 DEF Nested
<1>2. x \in C /\ x.view = in[n + 1].view
  BY <1>1
<1>3. s \in Seq(C)
  BY DEF PaintsUpTo
<1> HIDE DEF x, C
<1>4. /\ t \in Seq(C) /\ Len(s) \in Nat /\ DOMAIN s = 1..Len(s) /\ DOMAIN t = 1..(Len(s) + 1)
      /\ \A i \in 1..Len(s) : t[i] = s[i]
      /\ t[Len(s) + 1] = x
  <2>1. PICK y : y = x /\ y \in C
    BY <1>2
  <2>2. PICK r : r = Append(s, y)
    OBVIOUS
  <2>3. r \in Seq(C) /\ Len(r) = Len(s) + 1 /\ (\A i \in 1..Len(s) : r[i] = s[i]) /\ r[Len(s) + 1] = y
    BY <1>3, <2>1, <2>2, AppendProperties
  <2>4. Len(s) \in Nat /\ DOMAIN s = 1..Len(s) /\ DOMAIN r = 1..Len(r)
    BY <1>3, <2>3, LenProperties
  <2> QED BY <2>1, <2>2, <2>3, <2>4
<1>5. /\ DOMAIN t = DOMAIN s \cup {Len(s) + 1} /\ Len(s) + 1 \notin DOMAIN s
      /\ \A i \in DOMAIN s : t[i] = s[i]
  BY <1>4
<1>6. (\A m \in 1..(n + 1) : m \in 1..n \/ m = n + 1) /\ 1..n \subseteq 1..(n + 1) /\ n + 1 \in 1..(n + 1)
  OBVIOUS
<1>7. /\ \A i \in DOMAIN s : \E m \in 1..n : ~in[m].deferred /\ s[i].view = in[m].view
      /\ \A i, j \in DOMAIN s : i # j => s[i].view # s[j].view
      /\ \A m \in 1..n : ~in[m].deferred => \E i \in DOMAIN s : s[i].view = in[m].view
  BY DEF PaintsUpTo
<1>8. ASSUME in[n + 1].deferred PROVE PaintsUpTo(s, in, n + 1)
  <2>1. \A i \in DOMAIN s : \E m \in 1..(n + 1) : ~in[m].deferred /\ s[i].view = in[m].view
    BY <1>6, <1>7
  <2>2. \A m \in 1..(n + 1) : ~in[m].deferred => \E i \in DOMAIN s : s[i].view = in[m].view
    BY <1>6, <1>7, <1>8
  <2> QED BY <1>3, <1>7, <2>1, <2>2 DEF PaintsUpTo, C
<1>9. ASSUME ~in[n + 1].deferred PROVE PaintsUpTo(t, in, n + 1)
  <2> HIDE DEF t
  <2>1. \A i \in DOMAIN t : \E m \in 1..(n + 1) : ~in[m].deferred /\ t[i].view = in[m].view
    BY <1>2, <1>4, <1>5, <1>6, <1>7, <1>9
  <2>2. \A m \in 1..(n + 1) : ~in[m].deferred => \E i \in DOMAIN t : t[i].view = in[m].view
    <3>1. ASSUME NEW m \in 1..n, ~in[m].deferred PROVE \E i \in DOMAIN t : t[i].view = in[m].view
      <4>1. PICK i \in DOMAIN s : s[i].view = in[m].view
        BY <1>7, <3>1
      <4> QED BY <1>5, <4>1
    <3>2. \E i \in DOMAIN t : t[i].view = in[n + 1].view
      BY <1>2, <1>4, <1>5
    <3> QED BY <1>6, <3>1, <3>2
  <2>3. \A i, j \in DOMAIN t : i # j => t[i].view # t[j].view
    <3>1. \A i \in DOMAIN s : s[i].view # x.view
      BY <1>2, <1>7
    <3>2. ASSUME NEW i \in DOMAIN t, NEW j \in DOMAIN t, i # j PROVE t[i].view # t[j].view
      <4>1. CASE i \in DOMAIN s /\ j \in DOMAIN s
        BY <1>5, <1>7, <3>2, <4>1
      <4>2. CASE i \in DOMAIN s /\ j = Len(s) + 1
        BY <1>4, <1>5, <3>1, <4>2
      <4>3. CASE j \in DOMAIN s /\ i = Len(s) + 1
        BY <1>4, <1>5, <3>1, <4>3
      <4> QED BY <1>5, <3>2, <4>1, <4>2, <4>3
    <3> QED BY <3>2
  <2> QED BY <1>4, <2>1, <2>2, <2>3 DEF PaintsUpTo, C
<1> QED BY <1>8, <1>9 DEF t, x

\* The calls that paint what is in a view are of all that is not deferred, each once.
LEMMA PaintCallsAre ==
  ASSUME NEW v \in Views, built \in [Views -> 0..1]
  PROVE  PaintsUpTo(PaintCalls(v), Children[v][built[v]], Len(Children[v][built[v]]))
<1> DEFINE in == Children[v][built[v]]
           L == Len(in)
           C == Seq([do : {"paint"}, view : Views])
           call(i) == [do |-> "paint", view |-> in[i].view]
           put(i, s) == IF in[i].deferred THEN s ELSE Append(s, call(i))
           Body(f) == [i \in 0..L |-> IF i = 0 THEN <<>> ELSE put(i, f[i - 1])]
           stack == CHOOSE f : f = Body(f)
           step == [p \in (1..L) \X C |-> put(p[1], p[2])]
<1>1. in \in Seq(Nested)
  BY ChildrenAre
<1>2. PaintCalls(v) = stack[L]
  BY DEF PaintCalls
<1>a. ASSUME NEW m \in DOMAIN in, NEW n \in DOMAIN in, m # n PROVE in[m].view # in[n].view
  <2>1. built[v] \in 0..1
    OBVIOUS
  <2> QED BY <1>a, <2>1, PlacesAssumption
<1> HIDE DEF in
<1>3. L \in Nat /\ DOMAIN in = 1..L /\ \A i \in 1..L : in[i] \in Nested
  BY <1>1, ElementOfSeq, LenProperties
<1>4. \A i \in 1..L : call(i) \in [do : {"paint"}, view : Views]
  <2>1. \A i \in 1..L : in[i].view \in Views
    BY <1>3 DEF Nested
  <2> QED BY <2>1
<1>5. <<>> \in C
  OBVIOUS
<1> HIDE DEF call
<1>6. \A i \in 1..L, s \in C : put(i, s) \in C
  BY <1>4, AppendProperties
<1>7. \A i \in 1..L, s \in C : step[<<i, s>>] = put(i, s)
  OBVIOUS
<1> HIDE DEF put, step, C, L
<1>8. PICK f : Recurs(f, L, C, <<>>, step)
  BY <1>3, <1>5, <1>6, <1>7, Recursion
<1>9. f \in [0..L -> C] /\ f[0] = <<>> /\ \A i \in 1..L : f[i] = step[<<i, f[i - 1]>>]
  BY <1>8 DEF Recurs
<1>10. f = Body(f)
  <2>1. ASSUME NEW i \in 0..L PROVE f[i] = IF i = 0 THEN <<>> ELSE put(i, f[i - 1])
    <3>1. i = 0 \/ (i # 0 /\ i \in 1..L /\ i - 1 \in 0..L)
      BY <1>3
    <3>2. i # 0 => f[i - 1] \in C
      BY <1>9, <3>1
    <3> QED BY <1>7, <1>9, <3>1, <3>2
  <2>2. f = [i \in 0..L |-> f[i]]
    BY <1>9
  <2> QED BY <2>1, <2>2
<1>11. stack = Body(stack)
  BY <1>10
<1> HIDE DEF stack
<1> DEFINE P == {i \in 0..L : PaintsUpTo(stack[i], in, i)}
           b == Body(stack)
<1>12. b[0] = <<>> /\ (\A i \in 1..L : b[i] = put(i, stack[i - 1]))
  BY <1>3
<1> HIDE DEF b
<1>13. 0 \in P
  <2>1. stack[0] = <<>>
    BY <1>11, <1>12 DEF b
  <2>2. PaintsUpTo(<<>>, in, 0)
    BY <1>5, Empties DEF PaintsUpTo, C
  <2> QED BY <1>3, <2>1, <2>2
<1>14. ASSUME NEW i \in 0..(L - 1), i \in P PROVE i + 1 \in P
  <2>1. i + 1 \in 1..L /\ (i + 1) - 1 = i /\ i \in Nat /\ i + 1 \in 0..L
    BY <1>3
  <2>2. stack[i + 1] = put(i + 1, stack[i])
    BY <1>11, <1>12, <2>1 DEF b
  <2>3. \A m \in 1..i : in[m].view # in[i + 1].view
    <3>1. \A m \in 1..i : m \in 1..L /\ m # i + 1
      BY <1>3
    <3> QED BY <1>3, <1>a, <2>1, <3>1
  <2>4. PaintsUpTo(stack[i], in, i)
    BY <1>14
  <2>5. /\ in[i + 1].deferred => PaintsUpTo(stack[i], in, i + 1)
        /\ ~in[i + 1].deferred => PaintsUpTo(Append(stack[i], [do |-> "paint", view |-> in[i + 1].view]), in, i + 1)
    <3>1. i + 1 \in 1..Len(in)
      BY <2>1 DEF L
    <3> QED BY <1>1, <2>1, <2>3, <2>4, <3>1, PaintsOneMore
  <2>6. PaintsUpTo(stack[i + 1], in, i + 1)
    BY <2>2, <2>5 DEF put, call
  <2> QED BY <2>1, <2>6
<1> HIDE DEF P
<1>15. 0..L \subseteq P
  BY <1>3, <1>13, <1>14, UpTo
<1>16. L \in 0..L
  BY <1>3
<1>17. PaintsUpTo(stack[L], in, L)
  BY <1>15, <1>16 DEF P
<1> QED BY <1>2, <1>17 DEF L, in

\* A call that paints is the first of the stack.
LEMMA PaintHead ==
  ASSUME WindowInv, NEW what \in {"paint", "end paint", "paint deferred", "end paint deferred"},
         Calling(what)
  PROVE  /\ phase = "paint" /\ todo # <<>> /\ 1 \in Calls(what) /\ Call = todo[1] /\ Call.do = what
            /\ 1 \notin EndOfDraw
         /\ todo \in Seq(PaintStack(Len(draws), WithState(next))) /\ Len(draws) \in Nat
            /\ WithState(next) \subseteq Views
<1>1. phase = "paint" /\ Len(draws) \in Nat /\ WithState(next) \subseteq Views
  <2>1. what \in {"paint", "end draw", "end paint", "paint deferred", "end paint deferred"}
    BY Zenon
  <2> QED BY <2>1, InPaint, Zenon
<1>2. todo \in Seq(PaintStack(Len(draws), WithState(next))) /\ Len(todo) \in Nat
      /\ DOMAIN todo = 1..Len(todo)
  BY <1>1, PaintTodo, Zenon
<1>3. todo # <<>> /\ Call = todo[1] /\ Call.do = what
  BY HeadCall, Zenon DEF Calling
<1>4. 1 \in DOMAIN todo
  <2>1. Len(todo) # 0
    BY <1>2, <1>3, EmptySeq
  <2> QED BY <1>2, <2>1, OneOf
<1>5. 1 \in Calls(what)
  BY <1>3, <1>4 DEF Calls
<1>6. 1 \notin EndOfDraw
  <2>1. what # "end draw"
    BY Zenon
  <2> QED BY <1>3, <2>1, Zenon DEF EndOfDraw, Calls
<1> QED BY <1>1, <1>2, <1>3, <1>5, <1>6, Zenon

\* The paint of a view puts its key into the frame, if it is cached.
LEMMA PaintElementLists ==
  ASSUME WindowInv, PaintElement, NEW v, v = Call.view, v \in Views
  PROVE  \E K, start :
           /\ start = (IF v \in Cached THEN Accesses(next, CacheKey(v)) ELSE next)
           /\ K = (IF v \in Cached THEN <<CacheKey(v)>> ELSE <<>>)
           /\ More(next', next, <<>>, K) /\ next'.states = next.states
           /\ Len(next'.keys) = Len(start.keys) /\ PaintIndex(start) \in PaintPlaces
              /\ PaintIndex(start).keys = Len(next'.keys)
           /\ IsWindowFrame(next')
<1>1. PICK start, K, list :
        /\ start = (IF v \in Cached THEN Accesses(next, CacheKey(v)) ELSE next)
        /\ K = (IF v \in Cached THEN <<CacheKey(v)>> ELSE <<>>)
        /\ list = start.paint \o Shows(v, built[v])
  OBVIOUS
<1>2. next' = [start EXCEPT !.paint = list]
  BY <1>1, Zenon DEF PaintElement
<1>3. IsWindowFrame(next) /\ built[v] \in 0..1
  BY DrawTypes
<1>4. More(start, next, <<>>, K) /\ start.states = next.states /\ IsWindowFrame(start)
  <2>1. CASE v \in Cached
    <3>1. CacheKey(v) \in StateKeys /\ start = Accesses(next, CacheKey(v)) /\ K = <<CacheKey(v)>>
      BY <1>1, <2>1, KeysDiffer
    <3> QED BY <1>3, <3>1, AccessesLists DEF Longer
  <2>2. CASE v \notin Cached
    BY <1>1, <1>3, <2>2, NoLonger DEF Longer
  <2> QED BY <2>1, <2>2
<1>5. list \in Seq(Entry)
  <2>1. start.paint \in Seq(Entry)
    BY <1>4 DEF IsWindowFrame
  <2> QED BY <1>1, <1>3, <2>1, ShowsIs, ViewsOfConcat
<1>6. next'.items = start.items /\ next'.keys = start.keys /\ next'.states = start.states
      /\ IsWindowFrame(next')
  <2>1. next' = [FrameOf(start) EXCEPT !.paint = list]
    BY <1>2, <1>4 DEF IsWindowFrame
  <2>2. next'.items = start.items /\ next'.keys = start.keys /\ next'.states = start.states
    BY <2>1 DEF FrameOf
  <2>3. IsWindowFrame(next')
    BY <1>2, <1>4, <1>5, PaintedIs DEF LikeFrame
  <2> QED BY <2>2, <2>3
<1>7. More(next', next, <<>>, K)
  BY <1>4, <1>6 DEF More
<1>8. PaintIndex(start) \in PaintPlaces /\ PaintIndex(start).keys = Len(next'.keys)
  BY <1>4, <1>6, IndexIs DEF PaintIndex
<1> QED BY <1>1, <1>4, <1>6, <1>7, <1>8

\* What is painted of a view: what is in it, and its end if it is cached.
EndCall(e, v, p) == e = [do |-> "end paint", view |-> v, from |-> p]
PaintsIt(v, s, new, k) ==
  /\ PaintsUpTo(s, Children[v][built[v]], Len(Children[v][built[v]]))
  /\ Len(s) \in Nat /\ DOMAIN s = 1..Len(s) /\ NewPaints(new) = DOMAIN s
     /\ \A i \in DOMAIN s : new[i] = s[i]
  /\ NewEndDraws(new) = {} /\ DOMAIN new = NewPaints(new) \cup NewEnds(new)
  /\ v \notin Cached => NewEnds(new) = {}
  /\ \A j \in NewEnds(new) : v \in Cached /\ j = Len(s) + 1 /\ new[j].view = v /\ new[j].from.keys = k

\* of a view that is not cached,
LEMMA PaintsItPlain ==
  ASSUME NEW v \in Views, built \in [Views -> 0..1], v \notin Cached, NEW s, NEW k,
         PaintsUpTo(s, Children[v][built[v]], Len(Children[v][built[v]]))
  PROVE  PaintsIt(v, s, s, k)
<1>1. s \in Seq([do : {"paint"}, view : Views])
  BY DEF PaintsUpTo
<1>2. Len(s) \in Nat /\ DOMAIN s = 1..Len(s) /\ \A i \in 1..Len(s) : s[i] \in [do : {"paint"}, view : Views]
  <2> DEFINE C == [do : {"paint"}, view : Views]
  <2>1. s \in Seq(C)
    BY <1>1
  <2> HIDE DEF C
  <2>2. Len(s) \in Nat /\ DOMAIN s = 1..Len(s) /\ \A i \in 1..Len(s) : s[i] \in C
    BY <2>1, ElementOfSeq, LenProperties
  <2> QED BY <2>2 DEF C
<1>3. \A i \in DOMAIN s : s[i].do = "paint"
  BY <1>2
<1>4. "paint" # "end paint" /\ "paint" # "end paint deferred"
  BY Zenon
<1>5. NewPaints(s) = DOMAIN s
  BY <1>3 DEF NewPaints
<1>6. NewEnds(s) = {} /\ NewEndDraws(s) = {}
  BY <1>3, <1>4, Zenon DEF NewEnds, NewEndDraws
<1> QED BY <1>2, <1>5, <1>6 DEF PaintsIt

\* and of one that is, whose end is to be called.
LEMMA PaintsItCached ==
  ASSUME NEW v \in Views, built \in [Views -> 0..1], v \in Cached, NEW s, NEW k, NEW p, p.keys = k, NEW e,
         EndCall(e, v, p),
         PaintsUpTo(s, Children[v][built[v]], Len(Children[v][built[v]]))
  PROVE  PaintsIt(v, s, s \o <<e>>, k)
<1> DEFINE C == [do : {"paint"}, view : Views]
           new == s \o <<e>>
<1>1. s \in Seq(C)
  BY DEF PaintsUpTo
<1>a. \A x \in C : x.do = "paint"
  OBVIOUS
<1>b. <<e>> \in Seq({e}) /\ Len(<<e>>) = 1 /\ <<e>>[1] = e
  OBVIOUS
<1> HIDE DEF C
<1>2. Len(s) \in Nat /\ DOMAIN s = 1..Len(s) /\ (\A i \in 1..Len(s) : s[i] \in C)
  BY <1>1, ElementOfSeq, LenProperties
<1>3. PICK D : D = C \cup {e}
  OBVIOUS
<1>4. s \in Seq(D) /\ <<e>> \in Seq(D)
  BY <1>1, <1>3, <1>b, SeqMonotonic
<1>5. /\ Len(new) = Len(s) + 1 /\ (\A i \in 1..Len(s) : new[i] = s[i]) /\ new[Len(s) + 1] = e
      /\ DOMAIN new = 1..(Len(s) + 1) /\ \A i \in 1..(Len(s) + 1) : i \in 1..Len(s) \/ i = Len(s) + 1
  BY <1>2, <1>4, <1>b, Appended
<1> HIDE DEF new
<1>6. /\ \A i \in DOMAIN s : i \in DOMAIN new /\ new[i] = s[i] /\ new[i].do = "paint"
      /\ Len(s) + 1 \in DOMAIN new
      /\ \A i \in DOMAIN new : i \in DOMAIN s \/ i = Len(s) + 1
      /\ Len(s) + 1 \notin DOMAIN s
  BY <1>2, <1>5, <1>a
<1>7. e.do = "end paint" /\ e.view = v /\ e.from = p
  BY Zenon DEF EndCall
<1>8. "paint" # "end paint" /\ "paint" # "end paint deferred" /\ "end paint" # "end paint deferred"
  BY Zenon
<1>9. new[Len(s) + 1].do = "end paint"
  BY <1>5, <1>7, Zenon
<1>10. NewPaints(new) = DOMAIN s
  BY <1>6, <1>8, <1>9, Zenon DEF NewPaints
<1>11. NewEnds(new) = {Len(s) + 1} /\ NewEndDraws(new) = {}
  BY <1>6, <1>8, <1>9, Zenon DEF NewEnds, NewEndDraws
<1>12. DOMAIN new = NewPaints(new) \cup NewEnds(new)
  BY <1>6, <1>10, <1>11
<1>13. \A j \in NewEnds(new) : j = Len(s) + 1 /\ new[j].view = v /\ new[j].from.keys = k
  <2>1. e.from.keys = k
    BY <1>7
  <2> QED BY <1>5, <1>7, <1>11, <2>1
<1> QED BY <1>2, <1>6, <1>10, <1>11, <1>12, <1>13 DEF PaintsIt, new

\* A view is painted.
LEMMA PaintElementGoes ==
  ASSUME WindowInv, SeenInv, PaintElement, NEW v, v = Call.view
  PROVE  \E K, new, s :
           /\ PaintStep(K, new) /\ SameStates /\ draws' = draws /\ 1 \in Calls("paint") /\ Call = todo[1]
           /\ v \in Views /\ v \in fresh /\ phase = "paint"
           /\ PaintsIt(v, s, new, Len(next'.keys)) /\ IsWindowFrame(next')
           /\ K = (IF v \in Cached THEN <<CacheKey(v)>> ELSE <<>>)
<1>1. /\ phase = "paint" /\ todo # <<>> /\ 1 \in Calls("paint") /\ Call = todo[1] /\ 1 \notin EndOfDraw
      /\ todo \in Seq(PaintStack(Len(draws), WithState(next))) /\ Len(draws) \in Nat
         /\ WithState(next) \subseteq Views
  <2>1. Calling("paint") /\ "paint" \in {"paint", "end paint", "paint deferred", "end paint deferred"}
    BY Zenon DEF PaintElement
  <2> QED BY <2>1, PaintHead, Zenon
<1>2. v \in Views
  BY <1>1, PaintEndTypes
<1>3. /\ v \in fresh /\ (v \in Cached => CacheKey(v) \in DOMAIN next.states)
      /\ UNCHANGED <<phase, rendered, accessed, built, fresh, draws, owed, dirtyViews>>
  BY Zenon DEF PaintElement, invalidatorVars
<1>4. PICK K, start :
           /\ start = (IF v \in Cached THEN Accesses(next, CacheKey(v)) ELSE next)
           /\ K = (IF v \in Cached THEN <<CacheKey(v)>> ELSE <<>>)
           /\ More(next', next, <<>>, K) /\ next'.states = next.states
           /\ Len(next'.keys) = Len(start.keys) /\ PaintIndex(start) \in PaintPlaces
              /\ PaintIndex(start).keys = Len(next'.keys)
           /\ IsWindowFrame(next')
  BY <1>2, PaintElementLists
<1>5. PICK s, tail, e, p, k :
        /\ s = PaintCalls(v) /\ p = PaintIndex(start) /\ k = Len(next'.keys) /\ EndCall(e, v, p)
        /\ tail = (IF v \in Cached THEN <<e>> ELSE <<>>)
  BY Zenon DEF EndCall
<1>6. todo' = s \o tail \o Tail(todo)
  BY <1>4, <1>5, Zenon DEF PaintElement, EndCall
<1>7. PICK new, C : new = s \o tail /\ C = PaintStack(Len(draws), WithState(next))
  OBVIOUS
<1>8. built \in [Views -> 0..1] /\ IsWindowFrame(next)
  BY DrawTypes
<1>9. s \in Seq(C) /\ PaintsUpTo(s, Children[v][built[v]], Len(Children[v][built[v]]))
  BY <1>1, <1>2, <1>5, <1>7, <1>8, CallsOfPaint, PaintCallsAre
<1>10. tail \in Seq(C)
  <2>1. CASE v \in Cached
    <3>1. v \in WithState(next)
      BY <1>2, <1>3, <2>1 DEF WithState
    <3>2. p \in PaintPlaces
      BY <1>4, <1>5
    <3>3. e \in C
      BY <1>5, <1>7, <3>1, <3>2, Zenon DEF EndCall, PaintStack
    <3>4. <<e>> \in Seq(C)
      BY <3>3, FewCalls
    <3> QED BY <1>5, <2>1, <3>4
  <2>2. CASE v \notin Cached
    BY <1>5, <2>2, Empties
  <2> QED BY <2>1, <2>2
<1>11. new \in Seq(C) /\ todo' = new \o Tail(todo)
  BY <1>6, <1>7, <1>9, <1>10, Pushed
<1>12. PaintsIt(v, s, new, k)
  <2>1. CASE v \in Cached
    <3>1. p.keys = k
      BY <1>4, <1>5
    <3>2. new = s \o <<e>>
      BY <1>5, <1>7, <2>1
    <3>3. EndCall(e, v, p)
      BY <1>5
    <3> QED BY <1>2, <1>8, <1>9, <2>1, <3>1, <3>2, <3>3, PaintsItCached
  <2>2. CASE v \notin Cached
    <3>1. new = s
      BY <1>5, <1>7, <1>9, <2>2, ConcatEmptySeq
    <3> QED BY <1>2, <1>8, <1>9, <2>2, <3>1, PaintsItPlain
  <2> QED BY <2>1, <2>2
<1>13. Goes(<<>>, K) /\ SameStates /\ WithState(next') = WithState(next)
  <2>1. \A u \in Views : Unseen(u)' => Unseen(u)
    BY <1>3 DEF Unseen
  <2>2. Kept(rendered', rendered)
    BY <1>3 DEF Kept
  <2> QED BY <1>3, <1>4, <2>1, <2>2 DEF Goes, SameStates, WithState
<1>14. \A c \in Top : CacheKey(c) \in All(K) => c \in WithState(next)
  <2>1. \A x \in All(K) : v \in Cached /\ x = CacheKey(v)
    BY <1>4, Empties DEF All
  <2>2. v \in Cached => v \in WithState(next)
    BY <1>2, <1>3 DEF WithState
  <2>3. \A c \in Top : CacheKey(c) = CacheKey(v) => c = v
    BY DEF CacheKey
  <2> QED BY <2>1, <2>2, <2>3
<1>15. DOMAIN new = NewPaints(new) \cup NewEnds(new) \cup NewEndDraws(new)
  BY <1>12 DEF PaintsIt
<1>16. PaintStep(K, new)
  BY <1>1, <1>3, <1>7, <1>11, <1>13, <1>14, <1>15 DEF PaintStep
<1> QED BY <1>1, <1>2, <1>3, <1>4, <1>5, <1>12, <1>13, <1>16

\* The step is not of a deferred draw, and leaves them.
LEMMA NoDrawHere ==
  ASSUME WindowInv, SeenInv, NEW K, NEW new, PaintStep(K, new), draws' = draws,
         1 \in Calls("paint") \cup EndPaints, NewEndDraws(new) = {}
  PROVE  /\ 1 \notin PaintDraws /\ DrawsGo(Len(draws)) /\ PaintMoves(new) /\ Drawing /\ phase = "paint"
            /\ phase' = "paint"
         /\ ~First /\ ~First' /\ DrawList = draws /\ DrawList' = draws
<1>1. 1 \notin PaintDraws
  <2>1. PICK w, x : w = "paint deferred" /\ x = "end paint"
    OBVIOUS
  <2>2. w # "paint" /\ w # x
    <3>1. "paint deferred" # "paint" /\ "paint deferred" # "end paint"
      BY Zenon
    <3> QED BY <2>1, <3>1, Zenon
  <2>3. \A u : 1 \in Calls(u) => todo[1].do = u
    BY DEF Calls
  <2> QED BY <2>1, <2>2, <2>3, Zenon DEF PaintDraws, EndPaints
<1>2. phase' = "paint" /\ Drawing /\ ~First /\ ~First' /\ Doing("deferred") = {} /\ Doing("deferred")' = {}
  BY PaintRest
<1>3. DrawsGo(Len(draws))
  BY <1>1, <1>2, NoDrawPainted
<1> QED BY <1>1, <1>2, <1>3, PaintStepMoves DEF PaintStep, DrawList

\* What is in a view, as its paint calls it.
LEMMA PaintsIn ==
  ASSUME WindowInv, NEW v \in Views, NEW s, NEW new, NEW k, PaintsIt(v, s, new, k)
  PROVE  /\ \A i \in NewPaints(new) : /\ new[i].view \in Views /\ Holds(v, new[i].view) /\ new[i].view \in Sub(v)
                                      /\ v \notin Sub(new[i].view) /\ new[i].view # v
                                      /\ Sub(new[i].view) \subseteq Sub(v) /\ v \in Holders[new[i].view]
         /\ \A i, j \in NewPaints(new) : i # j => Sub(new[i].view) \cap Sub(new[j].view) = {}
         /\ \A m \in DOMAIN Children[v][built[v]] : ~Children[v][built[v]][m].deferred =>
              \E i \in NewPaints(new) : new[i].view = Children[v][built[v]][m].view
<1> DEFINE in == Children[v][built[v]]
<1>1. built \in [Views -> 0..1] /\ built[v] \in 0..1
  BY DrawTypes
<1>2. in \in Seq(Nested) /\ \A m \in DOMAIN in : in[m].view \in Views /\ Holds(v, in[m].view)
  <2>1. in \in Seq(Nested)
    BY <1>1, ChildrenAre
  <2>2. \A m \in DOMAIN in : in[m] \in Nested /\ Holds(v, in[m].view)
    BY <1>1, InsideHolds
  <2> QED BY <2>1, <2>2 DEF Nested
<1>3. DOMAIN in = 1..Len(in)
  BY <1>2, LenProperties
<1>4. /\ \A i \in DOMAIN s : \E m \in 1..Len(in) : ~in[m].deferred /\ s[i].view = in[m].view
      /\ \A i, j \in DOMAIN s : i # j => s[i].view # s[j].view
      /\ \A m \in 1..Len(in) : ~in[m].deferred => \E i \in DOMAIN s : s[i].view = in[m].view
      /\ NewPaints(new) = DOMAIN s /\ \A i \in DOMAIN s : new[i] = s[i]
  BY DEF PaintsIt, PaintsUpTo
<1>5. ASSUME NEW m \in DOMAIN in, NEW n \in DOMAIN in, m # n PROVE Sub(in[m].view) \cap Sub(in[n].view) = {}
  BY <1>1, <1>2, <1>5, SiblingsApart
<1> HIDE DEF in
<1>6. \A m \in DOMAIN in : /\ in[m].view \in Sub(v) /\ v \notin Sub(in[m].view) /\ in[m].view # v
                           /\ Sub(in[m].view) \subseteq Sub(v) /\ v \in Holders[in[m].view]
  BY <1>2, ChildSub DEF Sub
<1>7. ASSUME NEW i \in NewPaints(new), NEW j \in NewPaints(new), i # j
             PROVE Sub(new[i].view) \cap Sub(new[j].view) = {}
  <2>1. PICK m \in DOMAIN in : new[i].view = in[m].view
    BY <1>3, <1>4
  <2>2. PICK n \in DOMAIN in : new[j].view = in[n].view
    BY <1>3, <1>4
  <2>3. m # n
    BY <1>4, <1>7, <2>1, <2>2
  <2> QED BY <1>5, <2>1, <2>2, <2>3
<1>8. \A i \in NewPaints(new) : \E m \in DOMAIN in : new[i].view = in[m].view
  BY <1>3, <1>4
<1>9. \A m \in DOMAIN in : ~in[m].deferred => \E i \in NewPaints(new) : new[i].view = in[m].view
  BY <1>3, <1>4
<1> QED BY <1>2, <1>6, <1>7, <1>8, <1>9 DEF in

\* A cached view that was not rendered is still to be painted when what holds it was.
LEMMA StillToPaint ==
  ASSUME WindowInv, SeenInv, NEW K, NEW new, PaintStep(K, new), PaintMoves(new), NEW v, v = Call.view,
         v \in Views, v \in fresh,
         1 \in Calls("paint"), NEW s, NEW k, PaintsIt(v, s, new, k), Drawing,
         NEW c \in Top \cap WithState(next), c \notin fresh
  PROVE  Holders[c] \cap ToPaint = {} <=> Holders[c] \cap ToPaint' = {}
<1>1. /\ ToPaint = {todo[i].view : i \in Calls("paint")}
                                   /\ ToPaint' = {todo'[i].view : i \in Calls("paint")'}
  BY ToPaintIs
<1>2. c \in Views /\ Reached(c) /\ Call = todo[1]
  <2>1. Reached(c)
    BY DEF SeenInv, CachesOK, CacheOK
  <2> QED BY <2>1, TopIs DEF PaintMoves
<1>3. /\ \A j \in Calls("paint")' : j \in NewPaints(new) \/ \E o \in Calls("paint") : WasAt(j, o, new)
      /\ \A j \in NewPaints(new) : j \in Calls("paint")' /\ todo'[j] = new[j]
      /\ \A o \in 2..Len(todo) : o \in Calls("paint") => Len(new) + o - 1 \in Calls("paint")'
                                                         /\ WasAt(Len(new) + o - 1, o, new)
      /\ \A o \in DOMAIN todo : o = 1 \/ o \in 2..Len(todo)
  BY DEF PaintMoves
<1>4. /\ \A i \in NewPaints(new) : new[i].view \in Views /\ v \in Holders[new[i].view]
      /\ \A m \in DOMAIN Children[v][built[v]] : ~Children[v][built[v]][m].deferred =>
           \E i \in NewPaints(new) : new[i].view = Children[v][built[v]][m].view
  BY PaintsIn
<1>5. ASSUME NEW x \in Holders[c] \cap ToPaint PROVE Holders[c] \cap ToPaint' # {}
  <2>1. PICK o \in Calls("paint") : x = todo[o].view
    BY <1>1, <1>5
  <2>2. CASE o = 1
    <3>1. x = v /\ v \in Holders[c] \ {c}
      BY <1>2, <1>5, <2>1, <2>2
    <3>2. PICK m \in DOMAIN Children[v][built[v]] :
            ~Children[v][built[v]][m].deferred /\ Children[v][built[v]][m].view \in Holders[c]
      BY <1>2, <3>1 DEF Reached
    <3>3. PICK i \in NewPaints(new) : new[i].view = Children[v][built[v]][m].view
      BY <1>4, <3>2
    <3>4. i \in Calls("paint")' /\ todo'[i].view \in Holders[c]
      BY <1>3, <3>2, <3>3
    <3> QED BY <1>1, <3>4
  <2>3. CASE o # 1
    <3>1. o \in 2..Len(todo)
      BY <1>3, <2>1, <2>3 DEF Calls
    <3>2. PICK j \in Calls("paint")' : WasAt(j, o, new)
      BY <1>3, <3>1
    <3>3. todo'[j].view = x
      BY <2>1, <3>2 DEF WasAt
    <3> QED BY <1>1, <1>5, <3>3
  <2> QED BY <2>2, <2>3
<1>6. ASSUME NEW x \in Holders[c] \cap ToPaint' PROVE Holders[c] \cap ToPaint # {}
  <2>1. PICK j \in Calls("paint")' : x = todo'[j].view
    BY <1>1, <1>6
  <2>2. CASE j \in NewPaints(new)
    <3>1. x \in Views /\ v \in Holders[x]
      BY <1>3, <1>4, <2>1, <2>2
    <3>2. v \in Holders[c]
      BY <1>2, <1>6, <3>1, HoldersTransitive
    <3> QED BY <1>1, <1>2, <3>2
  <2>3. CASE \E o \in Calls("paint") : WasAt(j, o, new)
    <3>1. PICK o \in Calls("paint") : WasAt(j, o, new)
      BY <2>3
    <3>2. todo[o].view = x
      BY <2>1, <3>1 DEF WasAt
    <3> QED BY <1>1, <1>6, <3>2
  <2> QED BY <1>3, <2>1, <2>2, <2>3
<1> QED BY <1>5, <1>6

\* A view that was rendered is painted.
LEMMA PaintElementSeen == ASSUME WindowInv, SeenInv, PaintElement PROVE SeenInv'
<1>0. PICK v : v = Call.view
  OBVIOUS
<1>1. PICK K, new, s :
           /\ PaintStep(K, new) /\ SameStates /\ draws' = draws /\ 1 \in Calls("paint") /\ Call = todo[1]
           /\ v \in Views /\ v \in fresh /\ phase = "paint"
           /\ PaintsIt(v, s, new, Len(next'.keys)) /\ IsWindowFrame(next')
           /\ K = (IF v \in Cached THEN <<CacheKey(v)>> ELSE <<>>)
  BY <1>0, PaintElementGoes
<1>2. PICK k : k = Len(next'.keys) /\ PaintsIt(v, s, new, k)
  BY <1>1
<1>3. /\ DrawsGo(Len(draws)) /\ PaintMoves(new) /\ Drawing
      /\ NewEndDraws(new) = {} /\ DOMAIN new = NewPaints(new) \cup NewEnds(new)
      /\ Len(s) \in Nat /\ DOMAIN s = 1..Len(s) /\ NewPaints(new) = DOMAIN s
      /\ (v \notin Cached => NewEnds(new) = {})
      /\ \A j \in NewEnds(new) : v \in Cached /\ j = Len(s) + 1 /\ new[j].view = v /\ new[j].from.keys = k
  <2>1. NewEndDraws(new) = {}
    BY <1>2 DEF PaintsIt
  <2> QED BY <1>1, <1>2, <2>1, NoDrawHere DEF PaintsIt
<1>4. /\ \A i \in NewPaints(new) : new[i].view \in Sub(v) /\ new[i].view # v
      /\ \A i, j \in NewPaints(new) : i # j => Sub(new[i].view) \cap Sub(new[j].view) = {}
  BY <1>1, <1>2, PaintsIn
<1>5. \A n \in DOMAIN new : new[n].view \in Sub(v)
  <2>1. v \in Sub(v)
    BY <1>1, SubIs
  <2> QED BY <1>3, <1>4, <2>1
<1>6. CachesOK'
  <2>1. \A c \in Top \cap WithState(next) : c \notin fresh => (Holders[c] \cap ToPaint = {} <=> Holders[c] \cap ToPaint' = {})
    BY <1>0, <1>1, <1>2, <1>3, StillToPaint
  <2> QED BY <1>1, <1>3, <2>1, CachesPainted
<1>7. \A x \in All(K) : v \in Cached /\ x = CacheKey(v)
  BY <1>1, Empties DEF All
<1>8. v \notin Cached => NoTops(All(K))
  BY <1>7 DEF NoTops
<1>9. ASSUME NEW c \in Top, v \in Sub(c) \ {c} PROVE NoTops(All(K))
  <2>1. v \notin Top
    BY <1>9, TopIs
  <2>2. \A w \in Top : CacheKey(w) # CacheKey(v)
    BY <2>1 DEF CacheKey
  <2> QED BY <1>7, <2>2 DEF NoTops, TopKeys
<1>10. ASSUME NEW j \in NewEnds(new) PROVE EndPaintOK(j, new[j], new[j].view)'
  <2>1. PICK e : e = new[j]
    OBVIOUS
  <2>2. e.view = v /\ e.from.keys = k /\ v \in Cached /\ j = Len(s) + 1
    BY <1>3, <1>10, <2>1
  <2>3. ASSUME NEW i \in 1..(j - 1) PROVE i \in Calls("paint")' /\ todo'[i].view \in Sub(v) \ {v}
    <3>1. i \in NewPaints(new)
      BY <1>3, <2>2
    <3> QED BY <1>3, <1>4, <3>1 DEF PaintMoves
  <2>4. KeysAfter(next', k) = {} /\ k \in Nat
    <3>1. Len(next'.keys) \in Nat
      BY <1>1, LenProperties DEF IsWindowFrame
    <3> QED BY <1>1, <1>2, <3>1, RangeWithin
  <2>5. k <= Len(next'.keys)
    BY <1>2, <2>4, Within
  <2>6. fresh' = fresh
    BY <1>1 DEF PaintStep
  <2>7. EndPaintOK(j, e, v)'
    BY <1>1, <2>2, <2>3, <2>4, <2>5, <2>6 DEF EndPaintOK, NoTops
  <2> QED BY <2>1, <2>2, <2>7
<1> QED BY <1>0, <1>1, <1>3, <1>4, <1>5, <1>6, <1>8, <1>9, <1>10, PaintsOn

\* The paint of a cached view is noted in its state, or reused.
Painting(k, a, b) == [k EXCEPT !.paintFrom = a, !.paintTo = b]

\* A cache gets its paint's ranges.
LEMMA PaintOfCache ==
  ASSUME NEW k \in Caches, NEW a \in PaintPlaces, NEW b \in PaintPlaces
  PROVE  LET n == Painting(k, a, b) IN
         /\ n \in Caches /\ n.accessed = k.accessed /\ n.from = k.from /\ n.to = k.to
         /\ n.paintFrom = a /\ n.paintTo = b
<1> DEFINE m == [k EXCEPT !.paintFrom = a]
           n == Painting(k, a, b)
<1>1. m \in Caches /\ m.accessed = k.accessed /\ m.from = k.from /\ m.to = k.to /\ m.paintFrom = a
  BY DEF Caches
<1>2. n = [m EXCEPT !.paintTo = b]
  BY DEF Painting
<1> HIDE DEF m, n
<1>3. /\ n \in Caches /\ n.accessed = k.accessed /\ n.from = k.from /\ n.to = k.to
      /\ n.paintFrom = a /\ n.paintTo = b
  BY <1>1, <1>2 DEF Caches
<1> QED BY <1>3 DEF n

\* A cached view whose paint is noted, n, and the caches of the others.
Repaints(v, n) ==
  /\ v \in WithState(next) /\ CacheKey(v) \in DOMAIN next'.states /\ next'.states[CacheKey(v)] = n
     /\ n \in Caches
  /\ LET k == next.states[CacheKey(v)] IN n.accessed = k.accessed /\ n.from = k.from /\ n.to = k.to
  /\ \A u \in Views : u # v => /\ CacheKey(u) \in DOMAIN next'.states <=> CacheKey(u) \in DOMAIN next.states
                               /\ CacheKey(u) \in DOMAIN next.states => next'.states[CacheKey(u)] = next.states[CacheKey(u)]

\* The caches stay, but for the ranges of the one that is painted.
LEMMA CachesRepainted ==
  ASSUME WindowInv, SeenInv, Drawing, NEW K, NEW new, PaintStep(K, new), NEW l, DrawsGo(l),
         NEW v \in Views, NEW n, Repaints(v, n),
         v \in Top => CacheInNext(v)' /\ NoTops(PaintKeysOf(next', n)) /\ n.paintTo.keys <= Len(next'.keys),
         \A c \in Top \cap WithState(next) : c # v
                                             /\ c \notin fresh => (Holders[c] \cap ToPaint = {} <=> Holders[c] \cap ToPaint' = {})
  PROVE  CachesOK'
<1>1. ASSUME NEW c \in Top \cap WithState(next') PROVE CacheOK(c, next.states[CacheKey(c)])'
  <2>1. c \in Views /\ c \in WithState(next) /\ IsWindowFrame(next) /\ Goes(<<>>, K)
    BY <1>1, DrawTypes, TopIs DEF PaintStep
  <2>2. PICK k : k = next.states[CacheKey(c)]
    OBVIOUS
  <2>3. k \in Caches /\ CacheOK(c, k)
    BY <1>1, <2>1, <2>2 DEF WithState, IsWindowFrame, CachesTyped, SeenInv, CachesOK
  <2>4. /\ Len(DrawList) \in Nat /\ Len(DrawList') \in Nat /\ Len(DrawList) <= Len(DrawList')
        /\ DOMAIN DrawList = 1..Len(DrawList) /\ DOMAIN DrawList' = 1..Len(DrawList')
    BY Within DEF DrawsGo
  <2>5. \A m \in DOMAIN DrawList : /\ DrawList'[m].view = DrawList[m].view /\ DrawList[m].view \in Views
                                   /\ DrawItems(m)' \subseteq DrawItems(m) \cup (Sub(DrawList[m].view) \cap fresh)
    BY DEF DrawsGo, DrawGoes
  <2>6. fresh' \cap Sub(c) = fresh \cap Sub(c) /\ fresh' = fresh
    BY DEF PaintStep
  <2>7. CASE c # v
    <3>1. next'.states[CacheKey(c)] = k
      BY <2>1, <2>2, <2>7 DEF Repaints, WithState
    <3>2. CacheInNext(c)' <=> CacheInNext(c)
      BY <1>1, <2>1, <2>6, <2>7 DEF CacheInNext, PaintStep
    <3>3. CacheOK(c, k)'
      BY <1>1, <2>1, <2>3, <2>4, <2>5, <2>6, <3>2, CacheStays
    <3> QED BY <3>1, <3>3
  <2>8. CASE c = v
    <3>1. next'.states[CacheKey(c)] = n /\ n.accessed = k.accessed /\ n.from = k.from /\ n.to = k.to
      BY <2>2, <2>8 DEF Repaints
    <3>2. CachePlaceOK(c, k)'
      BY <1>1, <2>1, <2>3, <2>4, <2>5, <2>6, CachePlaceStays
    <3>3. CachePlaceOK(c, n)'
      BY <3>1, <3>2 DEF CachePlaceOK, ItemsOf, KeysOf, DeferredOf
    <3>4. CacheInNext(c)' /\ NoTops(PaintKeysOf(next', n)) /\ n.paintTo.keys <= Len(next'.keys)
      BY <1>1, <2>8
    <3>5. NoTops(CachePaintKeys(c, n))'
      BY <3>4 DEF CachePaintKeys, NoTops
    <3>6. CacheOK(c, n)'
      BY <3>3, <3>4, <3>5 DEF CacheOK, CachePlaceOK
    <3> QED BY <3>1, <3>6
  <2> QED BY <2>7, <2>8
<1> QED BY <1>1 DEF CachesOK

\* What is to be painted is in the same caches, when nothing is called.
LEMMA PaintPopped ==
  ASSUME WindowInv, NEW K, PaintStep(K, <<>>)
  PROVE  /\ ToPaint' \subseteq ToPaint
         /\ \A x \in ToPaint : x \in ToPaint' \/ (1 \in Calls("paint") /\ x = Call.view)
         /\ 1 \notin Calls("paint") => ToPaint' = ToPaint
<1>1. PaintMoves(<<>>)
  BY PaintStepMoves
<1>2. /\ ToPaint = {todo[i].view : i \in Calls("paint")}
                                   /\ ToPaint' = {todo'[i].view : i \in Calls("paint")'}
  BY ToPaintIs
<1>3. /\ \A j \in Calls("paint")' : \E o \in Calls("paint") : WasAt(j, o, <<>>)
      /\ \A o \in 2..Len(todo) : o \in Calls("paint") => \E j \in Calls("paint")' : WasAt(j, o, <<>>)
      /\ \A o \in DOMAIN todo : o = 1 \/ o \in 2..Len(todo)
      /\ Call = todo[1]
  <2>1. NewPaints(<<>>) = {}
    BY Empties DEF NewPaints
  <2> QED BY <1>1, <2>1 DEF PaintMoves
<1>4. ASSUME NEW x \in ToPaint' PROVE x \in ToPaint
  <2>1. PICK j \in Calls("paint")' : x = todo'[j].view
    BY <1>2, <1>4
  <2>2. PICK o \in Calls("paint") : WasAt(j, o, <<>>)
    BY <1>3
  <2> QED BY <1>2, <2>1, <2>2 DEF WasAt
<1>5. ASSUME NEW x \in ToPaint PROVE x \in ToPaint' \/ (1 \in Calls("paint") /\ x = Call.view)
  <2>1. PICK o \in Calls("paint") : x = todo[o].view
    BY <1>2, <1>5
  <2>2. CASE o = 1
    BY <1>3, <2>1, <2>2
  <2>3. CASE o # 1
    <3>1. o \in 2..Len(todo)
      BY <1>3, <2>1, <2>3 DEF Calls
    <3>2. PICK j \in Calls("paint")' : WasAt(j, o, <<>>)
      BY <1>3, <3>1
    <3> QED BY <1>2, <2>1, <3>2 DEF WasAt
  <2> QED BY <2>2, <2>3
<1> QED BY <1>4, <1>5

\* No call is added.
LEMMA NothingNew ==
  /\ NewPaints(<<>>) = {} /\ NewEnds(<<>>) = {} /\ NewEndDraws(<<>>) = {}
  /\ DOMAIN <<>> = NewPaints(<<>>) \cup NewEnds(<<>>) \cup NewEndDraws(<<>>)
  /\ All(<<>>) = {} /\ NoTops(All(<<>>)) /\ \A S : <<>> \in Seq(S)
BY Empties, Zenon DEF NewPaints, NewEnds, NewEndDraws, NoTops

\* The first call is taken from the stack.
LEMMA NothingCalled ==
  ASSUME WindowInv, phase = "paint", todo # <<>>, todo' = Tail(todo)
  PROVE  todo' = <<>> \o Tail(todo)
<1> DEFINE S == PaintStack(Len(draws), WithState(next))
<1>1. todo \in Seq(S)
  BY PaintTodo, Zenon
<1> HIDE DEF S
<1>2. Tail(todo) \in Seq(S)
  BY <1>1, Called
<1> QED BY <1>2, NoNewCalls

\* A view is done, and its paint noted.
LEMMA PaintsBack ==
  ASSUME WindowInv, SeenInv, NEW K, PaintStep(K, <<>>), draws' = draws, 1 \in Calls("paint") \cup EndPaints,
         NEW v, v = Call.view, v \in Views, v \in Cached, NEW n, Repaints(v, n),
         v \in Top => CacheInNext(v)' /\ NoTops(PaintKeysOf(next', n)) /\ n.paintTo.keys <= Len(next'.keys),
         \A c \in Top : v \in Sub(c) \ {c} => NoTops(All(K)),
         \A c \in Top \cap WithState(next) : c # v
                                             /\ c \notin fresh => (Holders[c] \cap ToPaint = {} <=> Holders[c] \cap ToPaint' = {})
  PROVE  SeenInv'
<1>1. DrawsGo(Len(draws)) /\ Drawing
  BY NothingNew, NoDrawHere
<1>2. CachesOK'
  BY <1>1, CachesRepainted
<1>3. PICK none : none = <<>>
  OBVIOUS
<1>4. NewPaints(none) = {} /\ NewEnds(none) = {} /\ NewEndDraws(none) = {} /\ DOMAIN none = {}
      /\ PaintStep(K, none)
  BY <1>3, NothingNew, Empties
<1> QED BY <1>2, <1>4, PaintsOn

\* A cached view was painted.
LEMMA EndPaintSeen == ASSUME WindowInv, SeenInv, EndPaint PROVE SeenInv'
<1>0. PICK e, v, k, p, n : e = Call /\ v = e.view /\ k = next.states[CacheKey(v)] /\ p = PaintIndex(next)
                           /\ n = Painting(k, e.from, p)
  OBVIOUS
<1>1. /\ phase = "paint" /\ todo # <<>> /\ 1 \in EndPaints /\ e = todo[1] /\ 1 \notin EndOfDraw
  <2>1. "end paint" \in {"paint", "end paint", "paint deferred", "end paint deferred"}
    BY Zenon
  <2>2. Calling("end paint")
    BY Zenon DEF EndPaint
  <2> QED BY <1>0, <2>1, <2>2, PaintHead, Zenon DEF EndPaints
<1>2. /\ next' = With(next, CacheKey(v), n) /\ todo' = Tail(todo)
      /\ UNCHANGED <<phase, rendered, accessed, built, fresh, draws, owed, dirtyViews>>
  BY <1>0 DEF EndPaint, Painting, invalidatorVars
<1>3. v \in WithState(next) /\ v \in Views /\ e.from \in PaintPlaces /\ e.from.keys \in Nat
  BY <1>0, <1>1, PaintEndTypes
<1>4. IsWindowFrame(next) /\ k \in Caches /\ p \in PaintPlaces /\ p.keys = Len(next.keys) /\ p.keys \in Nat
  <2>1. IsWindowFrame(next)
    BY DrawTypes
  <2>2. k \in Caches
    BY <1>0, <1>3, <2>1 DEF IsWindowFrame, CachesTyped, WithState
  <2>3. p \in PaintPlaces /\ p.keys = Len(next.keys)
    BY <1>0, <2>1, IndexIs DEF PaintIndex
  <2> QED BY <2>1, <2>2, <2>3, RangedIs
<1>5. n \in Caches /\ n.accessed = k.accessed /\ n.from = k.from /\ n.to = k.to /\ n.paintFrom = e.from
      /\ n.paintTo = p
  BY <1>0, <1>3, <1>4, PaintOfCache
<1>6. /\ next'.items = next.items /\ next'.keys = next.keys /\ next'.deferred = next.deferred
      /\ StatesBut(next', next, CacheKey(v)) /\ CacheKey(v) \in DOMAIN next'.states
         /\ next'.states[CacheKey(v)] = n
  BY <1>2, <1>4, WithStates
<1>7. \A u \in Views : u # v => CacheKey(u) # CacheKey(v)
  BY DEF CacheKey
<1>8. Repaints(v, n)
  BY <1>0, <1>3, <1>5, <1>6, <1>7 DEF Repaints, StatesBut
<1>9. WithState(next') = WithState(next)
  BY <1>3, <1>6, <1>7 DEF WithState, StatesBut
<1>10. Goes(<<>>, <<>>)
  <2>1. Longer(next', next, <<>>, <<>>, <<>>)
    BY <1>4, <1>6, NoLonger
  <2>2. \A u \in Views : Unseen(u)' => Unseen(u)
    BY <1>2 DEF Unseen
  <2>3. Kept(rendered', rendered)
    BY <1>2 DEF Kept
  <2> QED BY <1>2, <2>1, <2>2, <2>3 DEF Goes, Longer
<1>11. PaintStep(<<>>, <<>>)
  BY <1>1, <1>2, <1>9, <1>10, NothingNew, NothingCalled DEF PaintStep
<1>12. EndPaintOK(1, e, v)
  BY <1>0, <1>1 DEF SeenInv, PaintsOK
<1>13. v \in Cached /\ v \in fresh
  BY <1>12 DEF EndPaintOK
<1>14. v \in Top => CacheInNext(v)' /\ NoTops(PaintKeysOf(next', n)) /\ n.paintTo.keys <= Len(next'.keys)
  <2>1. CacheInNext(v)'
    BY <1>2, <1>13 DEF CacheInNext
  <2>2. PaintKeysOf(next', n) = KeysAfter(next, e.from.keys)
    BY <1>4, <1>5, <1>6 DEF PaintKeysOf, KeysAfter
  <2>3. n.paintTo.keys <= Len(next'.keys)
    BY <1>4, <1>5, <1>6, Within
  <2> QED BY <1>12, <2>1, <2>2, <2>3 DEF EndPaintOK
<1>15. ToPaint' = ToPaint
  <2>1. 1 \notin Calls("paint")
    <3>1. "paint" # "end paint"
      BY Zenon
    <3> QED BY <1>1, <3>1, Zenon DEF EndPaints, Calls
  <2> QED BY <1>11, <2>1, PaintPopped
<1> QED BY <1>0, <1>1, <1>2, <1>3, <1>8, <1>11, <1>13, <1>14, <1>15, NothingNew, PaintsBack

\* A view whose paint is reused is not to be painted again.
LEMMA PaintedOnce ==
  ASSUME WindowInv, SeenInv, NEW K, PaintStep(K, <<>>), 1 \in Calls("paint"), NEW v, v = Call.view,
         v \in Views
  PROVE  Holders[v] \cap ToPaint' = {} /\ v \in ToPaint
<1>1. PaintMoves(<<>>) /\ phase = "paint"
  BY PaintStepMoves DEF PaintStep
<1>2. /\ ToPaint = {todo[i].view : i \in Calls("paint")}
                                   /\ ToPaint' = {todo'[i].view : i \in Calls("paint")'}
  BY ToPaintIs
<1>3. /\ \A j \in Calls("paint")' : \E o \in Calls("paint") : WasAt(j, o, <<>>)
      /\ Call = todo[1]
  <2>1. NewPaints(<<>>) = {}
    BY NothingNew
  <2> QED BY <1>1, <2>1 DEF PaintMoves
<1>4. \A i, j \in Calls("paint") : i # j => Sub(todo[i].view) \cap Sub(todo[j].view) = {}
  BY <1>1 DEF SeenInv, PaintsOK
<1>5. ASSUME NEW x \in ToPaint', x \in Holders[v] PROVE FALSE
  <2>1. PICK j \in Calls("paint")' : x = todo'[j].view
    BY <1>2, <1>5
  <2>2. PICK o \in Calls("paint") : WasAt(j, o, <<>>)
    BY <1>3, <2>1
  <2>3. o # 1 /\ todo[o].view = x
    BY <1>1, <2>1, <2>2, WasOrder DEF WasAt
  <2>4. v \in Sub(v) /\ v \in Sub(x)
    BY <1>5, SubIs DEF Sub
  <2> QED BY <1>3, <1>4, <2>2, <2>3, <2>4
<1> QED BY <1>2, <1>3, <1>5

\* The paint of a cached view is reused.
LEMMA PaintReusedGoes ==
  ASSUME WindowInv, SeenInv, PaintReused, NEW v, v = Call.view
  PROVE  \E k, n, K, L :
           /\ phase = "paint" /\ todo # <<>> /\ 1 \in Calls("paint") /\ 1 \notin EndOfDraw
           /\ v \in Views /\ v \in Top /\ v \in WithState(next) /\ v \notin fresh
           /\ k = next.states[CacheKey(v)] /\ k \in Caches /\ n \in Caches
           /\ All(L) = PaintKeysOf(rendered, k) /\ All(K) = {CacheKey(v)} \cup All(L)
           /\ Goes(<<>>, K) /\ Repaints(v, n) /\ PaintKeysOf(next', n) = All(L)
              /\ n.paintTo.keys <= Len(next'.keys)
           /\ todo' = Tail(todo) /\ WithState(next') = WithState(next)
           /\ UNCHANGED <<phase, built, fresh, draws>>
<1>0. PICK k, start, end, n :
        /\ k = next.states[CacheKey(v)] /\ start = Accesses(next, CacheKey(v))
        /\ end = PaintAgain(start, k.paintFrom, k.paintTo)
           /\ n = Painting(k, PaintIndex(start), PaintIndex(end))
  OBVIOUS
<1>a. /\ k = next.states[CacheKey(v)] /\ v = Call.view
  BY <1>0
<1>b. start = Accesses(next, CacheKey(v))
  BY <1>0
<1>c. end = PaintAgain(start, k.paintFrom, k.paintTo)
  BY <1>0
<1>1. /\ phase = "paint" /\ todo # <<>> /\ 1 \in Calls("paint") /\ 1 \notin EndOfDraw /\ Call = todo[1]
  <2>1. "paint" \in {"paint", "end paint", "paint deferred", "end paint deferred"}
    BY Zenon
  <2>2. Calling("paint")
    BY Zenon DEF PaintReused
  <2> QED BY <2>1, <2>2, PaintHead, Zenon
<1>2. /\ v \notin fresh /\ CacheKey(v) \in DOMAIN next.states /\ next' = With(end, CacheKey(v), n)
         /\ todo' = Tail(todo)
      /\ UNCHANGED <<phase, rendered, accessed, built, fresh, draws, owed, dirtyViews>>
  BY <1>0 DEF PaintReused, Painting, invalidatorVars
<1>3. v \in Views /\ v \in WithState(next) /\ v \in Top
  <2>1. v \in Views /\ v \in WithState(next)
    BY <1>1, <1>2, PaintEndTypes DEF WithState
  <2> QED BY <1>1, <1>2, <2>1 DEF SeenInv, MovedOK, Drawing
<1>4. IsWindowFrame(next) /\ IsWindowFrame(rendered) /\ k \in Caches /\ k.paintFrom \in PaintPlaces
      /\ k.paintTo \in PaintPlaces
      /\ CacheKey(v) \in StateKeys
  <2>1. IsWindowFrame(next) /\ IsWindowFrame(rendered)
    BY DrawTypes
  <2>2. k \in Caches
    BY <1>a, <1>2, <1>3, <2>1 DEF IsWindowFrame, CachesTyped
  <2> QED BY <1>3, <2>1, <2>2, KeysDiffer, RangedIs DEF Ranged
<1>5. PICK J : J = <<CacheKey(v)>>
  OBVIOUS
<1>6. /\ Longer(start, next, <<>>, J, <<>>) /\ start.states = next.states /\ IsWindowFrame(start)
      /\ start.items = next.items /\ start.deferred = next.deferred
  <2>1. Longer(start, next, <<>>, <<CacheKey(v)>>, <<>>) /\ start.states = next.states
        /\ IsWindowFrame(start)
        /\ start.items = next.items /\ start.deferred = next.deferred
    BY <1>b, <1>4, AccessesLists
  <2> QED BY <1>5, <2>1
<1>7. PICK L : L = Between(rendered.keys, k.paintFrom.keys, k.paintTo.keys)
  OBVIOUS
<1>8. Longer(end, start, <<>>, L, <<>>) /\ end.states = start.states /\ IsWindowFrame(end)
  BY <1>c, <1>4, <1>6, <1>7, PaintAgainLists
<1>9. /\ next'.items = end.items /\ next'.keys = end.keys /\ next'.deferred = end.deferred
      /\ StatesBut(next', end, CacheKey(v)) /\ CacheKey(v) \in DOMAIN next'.states
         /\ next'.states[CacheKey(v)] = n
  BY <1>2, <1>8, WithStates
<1>10. Longer(end, next, <<>>, J \o L, <<>>) /\ All(J \o L) = All(J) \cup All(L)
  BY <1>4, <1>6, <1>8, LongerThen
<1>11. All(L) = PaintKeysOf(rendered, k)
  <2>1. rendered.keys \in Seq(StateKeys) /\ k.paintFrom.keys \in Nat /\ k.paintTo.keys \in Nat
    BY <1>4, RangedIs DEF IsWindowFrame
  <2> QED BY <1>7, <2>1, BetweenPart, ZenonT(30) DEF PaintKeysOf
<1>12. All(J) = {CacheKey(v)}
  BY <1>5 DEF All
<1>13. PICK p, q : p = PaintIndex(start) /\ q = PaintIndex(end)
  OBVIOUS
<1>14. p \in PaintPlaces /\ q \in PaintPlaces /\ p.keys = Len(start.keys) /\ q.keys = Len(end.keys)
       /\ p.keys \in Nat /\ q.keys \in Nat
  <2>1. p \in PaintPlaces /\ q \in PaintPlaces /\ p.keys = Len(start.keys) /\ q.keys = Len(end.keys)
    BY <1>6, <1>8, <1>13, IndexIs DEF PaintIndex
  <2> QED BY <2>1, RangedIs
<1>15. n \in Caches /\ n.accessed = k.accessed /\ n.from = k.from /\ n.to = k.to /\ n.paintFrom = p
       /\ n.paintTo = q
  <2>1. n = Painting(k, p, q)
    BY <1>0, <1>13
  <2>2. k \in Caches /\ p \in PaintPlaces /\ q \in PaintPlaces
    BY <1>4, <1>14
  <2> QED BY <2>1, <2>2, PaintOfCache
<1>16. \A u \in Views : u # v => CacheKey(u) # CacheKey(v)
  BY DEF CacheKey
<1>17. Repaints(v, n)
  BY <1>a, <1>3, <1>6, <1>8, <1>9, <1>15, <1>16 DEF Repaints, StatesBut
<1>18. WithState(next') = WithState(next)
  BY <1>3, <1>6, <1>8, <1>9, <1>16 DEF WithState, StatesBut
<1>19. PICK K : K = J \o L
  OBVIOUS
<1>20. Goes(<<>>, K)
  <2>1. \A u \in Views : Unseen(u)' => Unseen(u)
    BY <1>2 DEF Unseen
  <2>2. Kept(rendered', rendered)
    BY <1>2 DEF Kept
  <2>3. More(next', next, <<>>, K)
    BY <1>9, <1>10, <1>19 DEF Longer, More
  <2> QED BY <1>2, <2>1, <2>2, <2>3 DEF Goes
<1>21. PaintKeysOf(next', n) = All(L)
  <2>1. PaintKeysOf(next', n) = KeysAfter(end, p.keys)
    BY <1>9, <1>14, <1>15 DEF PaintKeysOf, KeysAfter
  <2>2. KeysAfter(start, p.keys) = {}
    BY <1>6, <1>14, RangeWithin
  <2>3. \A a \in Nat : a <= Len(start.keys) => KeysAfter(end, a) = KeysAfter(start, a) \cup All(L)
    BY <1>6, <1>8, AfterGrows DEF Longer
  <2>4. p.keys <= Len(start.keys)
    BY <1>14, Within
  <2> QED BY <1>14, <2>1, <2>2, <2>3, <2>4
<1>22. n.paintTo.keys <= Len(next'.keys)
  BY <1>9, <1>14, <1>15, Within
<1> QED BY <1>a, <1>1, <1>2, <1>3, <1>4, <1>10, <1>11, <1>12, <1>15, <1>17, <1>18, <1>19, <1>20, <1>21,
    <1>22

\* It brings no cache along that another view has.
LEMMA PaintReusedSeen == ASSUME WindowInv, SeenInv, PaintReused PROVE SeenInv'
<1>0. PICK v : v = Call.view
  OBVIOUS
<1>1. PICK k, n, K, L :
           /\ phase = "paint" /\ todo # <<>> /\ 1 \in Calls("paint") /\ 1 \notin EndOfDraw
           /\ v \in Views /\ v \in Top /\ v \in WithState(next) /\ v \notin fresh
           /\ k = next.states[CacheKey(v)] /\ k \in Caches /\ n \in Caches
           /\ All(L) = PaintKeysOf(rendered, k) /\ All(K) = {CacheKey(v)} \cup All(L)
           /\ Goes(<<>>, K) /\ Repaints(v, n) /\ PaintKeysOf(next', n) = All(L)
              /\ n.paintTo.keys <= Len(next'.keys)
           /\ todo' = Tail(todo) /\ WithState(next') = WithState(next)
           /\ UNCHANGED <<phase, built, fresh, draws>>
  BY <1>0, PaintReusedGoes, ZenonT(30)
<1>2. v \in ToPaint
  BY <1>0, <1>1, HeadCall DEF ToPaint, Doing, All, Calls
<1>3. NoTops(All(L))
  <2>1. CacheOK(v, k)
    BY <1>1 DEF SeenInv, CachesOK, Drawing
  <2>2. v \in Holders[v]
    BY <1>1, HoldersUpward
  <2>3. ~CacheInNext(v)
    BY <1>1, <1>2, <2>2 DEF CacheInNext
  <2> QED BY <1>1, <2>1, <2>3 DEF CacheOK, CachePaintKeys
<1>4. \A c \in Top : CacheKey(c) \in All(K) => c = v
  BY <1>1, <1>3 DEF NoTops, TopKeys, CacheKey
<1>5. PaintStep(K, <<>>)
  BY <1>1, <1>4, NothingNew, NothingCalled DEF PaintStep
<1>6. Holders[v] \cap ToPaint' = {}
  BY <1>0, <1>1, <1>5, PaintedOnce
<1>7. CacheInNext(v)' /\ NoTops(PaintKeysOf(next', n))
  BY <1>1, <1>3, <1>6 DEF CacheInNext
<1>8. ASSUME NEW c \in Top \cap WithState(next), c # v
      PROVE  Holders[c] \cap ToPaint = {} <=> Holders[c] \cap ToPaint' = {}
  <2>1. v \notin Holders[c]
    BY <1>1, <1>8, TopIs DEF Sub
  <2>2. ToPaint' \subseteq ToPaint /\ \A x \in ToPaint : x \in ToPaint' \/ x = v
    BY <1>0, <1>5, PaintPopped
  <2> QED BY <2>1, <2>2
<1>9. v \in Cached /\ \A c \in Top : v \notin Sub(c) \ {c}
  BY <1>1, TopIs
<1> QED BY <1>0, <1>1, <1>5, <1>7, <1>8, <1>9, PaintsBack

\* When a deferred draw is painted, all else is.
LEMMA DeferredAlone ==
  ASSUME WindowInv, SeenInv, phase = "paint", 1 \in PaintDraws \cup EndPaintDraws
  PROVE  EndPaints = {} /\ Calls("paint") = {} /\ \A j \in EndPaintDraws : j = 1
<1>1. DeferredLast /\ Len(todo) \in Nat /\ DOMAIN todo = 1..Len(todo)
  BY PaintTodo, Zenon DEF SeenInv, PaintsOK
<1>2. \A i \in DOMAIN todo : i = 1 \/ i > 1
  BY <1>1
<1>3. \A i \in DOMAIN todo : i = 1 \/ i \in PaintDraws \cup EndOfDraw
  BY <1>1, <1>2 DEF DeferredLast
<1>4. /\ \A i \in PaintDraws \cup EndOfDraw : i \notin EndPaints /\ i \notin Calls("paint")
                                              /\ i \notin EndPaintDraws
      /\ 1 \notin EndPaints /\ 1 \notin Calls("paint")
  <2>1. /\ "paint deferred" \notin {"end paint", "paint", "end paint deferred"}
        /\ "end draw" \notin {"end paint", "paint", "end paint deferred"}
        /\ "end paint deferred" \notin {"end paint", "paint"}
    BY Zenon
  <2>2. \A i \in PaintDraws \cup EndOfDraw : todo[i].do \notin {"end paint", "paint", "end paint deferred"}
    BY <2>1, Zenon DEF PaintDraws, EndOfDraw, Calls
  <2>3. todo[1].do \notin {"end paint", "paint"}
    BY <2>1, Zenon DEF PaintDraws, EndPaintDraws, Calls
  <2> QED BY <2>2, <2>3, Zenon DEF EndPaints, EndPaintDraws, Calls
<1>5. EndPaints \subseteq DOMAIN todo /\ Calls("paint") \subseteq DOMAIN todo
      /\ EndPaintDraws \subseteq DOMAIN todo
  BY Zenon DEF EndPaints, EndPaintDraws, Calls
<1> QED BY <1>3, <1>4, <1>5

\* It is not called again in this frame.
LEMMA DrawPaintedOnce ==
  ASSUME WindowInv, SeenInv, NEW K, NEW new, PaintStep(K, new), 1 \in PaintDraws \cup EndPaintDraws,
         NEW n, n = Call.draw
  PROVE  n \notin DrawsToPaint'
<1>1. PaintMoves(new) /\ phase = "paint"
  BY PaintStepMoves DEF PaintStep
<1>2. DrawsToPaint' = {todo'[i].draw : i \in PaintDraws'}
  BY ToPaintIs
<1>3. \A i, j \in PaintDraws \cup EndPaintDraws : todo[i].draw = todo[j].draw => i = j
  BY <1>1 DEF SeenInv, PaintsOK
<1>4. ASSUME NEW j \in PaintDraws', todo'[j].draw = n PROVE FALSE
  <2>1. PICK o \in PaintDraws : WasAt(j, o, new)
    BY <1>1, <1>4 DEF PaintMoves
  <2>2. todo[o].draw = todo[1].draw
    BY <1>1, <1>4, <2>1 DEF WasAt, PaintMoves
  <2>3. o = 1
    BY <1>3, <2>1, <2>2
  <2> QED BY <1>1, <2>1, <2>3, WasOrder
<1> QED BY <1>2, <1>4

\* A deferred draw is painted.
LEMMA DrawPainted ==
  ASSUME WindowInv, SeenInv, NEW K, NEW new, PaintStep(K, new), SameStates,
         1 \in PaintDraws \cup EndPaintDraws,
         NEW n, n = Call.draw, draws' \in Seq(DeferredDraws), Len(draws') = Len(draws),
         \A m \in 1..Len(draws) : m # n => draws'[m] = draws[m], DrawGoes(n),
         NewEnds(new) = {}, \A i, j \in NewPaints(new) : i = j,
         \A i \in NewPaints(new) : new[i].view \in Views /\ Sub(new[i].view) \cap Cached = {},
         \A j \in NewEndDraws(new) : /\ 1 \in PaintDraws /\ j = Len(new) /\ new[j].draw = n
                                     /\ EndPaintDrawOK(j, new[j], draws[new[j].draw].view)'
  PROVE  SeenInv'
<1>1. PaintMoves(new) /\ phase = "paint" /\ phase' = "paint" /\ Goes(<<>>, K) /\ built' = built
      /\ fresh' = fresh
      /\ WithState(next') = WithState(next)
         /\ \A c \in Top : CacheKey(c) \in All(K) => c \in WithState(next)
  BY PaintStepMoves DEF PaintStep
<1>2. EndPaints = {} /\ Calls("paint") = {} /\ \A j \in EndPaintDraws : j = 1
  BY <1>1, DeferredAlone
<1>3. /\ Drawing /\ Doing("deferred")' = {}
      /\ Len(todo') \in EndOfDraw' /\ \A i \in DOMAIN todo' \ {Len(todo')} : i \notin EndOfDraw'
      /\ \A i, j \in PaintDraws' \cup EndPaintDraws' : todo'[i].draw = todo'[j].draw => i = j
      /\ DeferredLast'
  BY PaintRest
<1>4. PICK l : l = Len(draws)
  OBVIOUS
<1>5. DrawsGo(l)
  <2>1. draws \in Seq(DeferredDraws) /\ DOMAIN draws = 1..l
    BY <1>4, DrawTypes, LenProperties
  <2>2. ASSUME NEW m \in 1..l PROVE DrawGoes(m)
    BY <1>3, <1>4, <2>1, <2>2, PaintSame
  <2> QED BY <1>1, <1>4, <2>2, PaintedDraws
<1>6. ToPaint = {} /\ ToPaint' = {new[i].view : i \in NewPaints(new)}
  <2>1. ToPaint = {todo[i].view : i \in Calls("paint")}
                                  /\ ToPaint' = {todo'[i].view : i \in Calls("paint")'}
    BY ToPaintIs
  <2>2. \A j \in Calls("paint")' : j \in NewPaints(new)
    BY <1>1, <1>2 DEF PaintMoves
  <2>3. \A j \in NewPaints(new) : j \in Calls("paint")' /\ todo'[j] = new[j]
    BY <1>1 DEF PaintMoves
  <2> QED BY <1>2, <2>1, <2>2, <2>3
<1>7. CachesOK'
  <2>1. ASSUME NEW c \in Top PROVE Holders[c] \cap ToPaint' = {}
    <3>1. c \in Cached /\ c \in Views
      BY <2>1, TopIs
    <3>2. ASSUME NEW i \in NewPaints(new), new[i].view \in Holders[c] PROVE FALSE
      <4>1. c \in Sub(new[i].view)
        BY <3>1, <3>2 DEF Sub
      <4> QED BY <3>1, <3>2, <4>1
    <3> QED BY <1>6, <3>2
  <2> QED BY <1>5, <1>6, <2>1, CachesPainted
<1>8. \A i, j \in Calls("paint")' : i # j => Sub(todo'[i].view) \cap Sub(todo'[j].view) = {}
  <2>1. \A o \in Calls("paint") : o = 1
    BY <1>2
  <2> QED BY <2>1, PaintsApart
<1>9. EndPaints' = {}
  BY <1>1, <1>2 DEF PaintMoves
<1>10. ASSUME NEW j \in EndPaintDraws' PROVE EndPaintDrawOK(j, todo[j], draws[todo[j].draw].view)'
  <2>1. j \in NewEndDraws(new)
    <3>1. ASSUME NEW o \in EndPaintDraws, WasAt(j, o, new) PROVE FALSE
      BY <1>1, <1>2, <3>1, WasOrder
    <3> QED BY <1>1, <1>10, <3>1 DEF PaintMoves
  <2>2. todo'[j] = new[j]
    BY <1>1, <2>1 DEF PaintMoves
  <2> QED BY <2>1, <2>2
<1>11. PaintsOK'
  BY <1>1, <1>3, <1>8, <1>9, <1>10 DEF PaintsOK
<1> QED BY <1>1, <1>3, <1>5, <1>7, <1>11, PaintKeeps

\* The deferred draw that is painted.
LEMMA DrawCalled ==
  ASSUME WindowInv, SeenInv, phase = "paint", 1 \in PaintDraws \cup EndPaintDraws, Call = todo[1], NEW n,
         n = Call.draw
  PROVE  /\ n \in 1..Len(draws) /\ n \in DOMAIN draws /\ draws \in Seq(DeferredDraws) /\ Len(draws) \in Nat
         /\ draws[n] \in DeferredDraws /\ draws[n].view \in Views /\ DrawList = draws /\ DrawOK(n)
            /\ IsWindowFrame(next) /\ IsWindowFrame(rendered)
         /\ ~First /\ Drawing /\ InNext(n)
<1>1. n \in 1..Len(draws)
  BY PaintEndTypes
<1>2. draws \in Seq(DeferredDraws) /\ IsWindowFrame(next) /\ IsWindowFrame(rendered)
  BY DrawTypes
<1>3. Len(draws) \in Nat /\ DOMAIN draws = 1..Len(draws)
  BY <1>2, LenProperties
<1>4. draws[n] \in DeferredDraws
  BY <1>1, <1>2, ElementOfSeq
<1>5. draws[n].view \in Views
  BY <1>4 DEF DeferredDraws
<1>6. DrawList = draws /\ ~First /\ Drawing
  BY DEF DrawList, First, Drawing
<1>7. DrawOK(n)
  BY <1>1, <1>3, <1>6 DEF SeenInv, DeferredOK
<1>8. InNext(n)
  <2>1. Doing("deferred") = {}
    BY DEF SeenInv, PaintsOK
  <2> QED BY <1>6, <2>1 DEF InNext, DrawsTo
<1> QED BY <1>1, <1>2, <1>3, <1>4, <1>5, <1>6, <1>7, <1>8

\* It is painted: its view is, and what comes then is its.
LEMMA PaintDeferredGoes ==
  ASSUME WindowInv, PaintDeferred, NEW n, n = Call.draw, n \in 1..Len(draws), Len(draws) \in Nat, NEW w,
         w = draws[n].view, w \in Views, IsWindowFrame(next)
  PROVE  \E new, a, e :
           /\ new \in Seq(PaintStack(Len(draws), WithState(next))) /\ todo' = new \o Tail(todo)
           /\ Len(new) = 2 /\ DOMAIN new = {1, 2} /\ new[1] = a /\ new[2] = e
           /\ NewPaints(new) = {1} /\ NewEnds(new) = {} /\ NewEndDraws(new) = {2} /\ a.view = w
           /\ e.draw = n /\ e.from = PaintIndex(next)
           /\ draws[n].fresh /\ UNCHANGED <<phase, rendered, next, accessed, built, fresh, draws, owed, dirtyViews>>
<1>1. PICK a, e, new, p, C :
        /\ p = PaintIndex(next) /\ C = PaintStack(Len(draws), WithState(next))
        /\ a = [do |-> "paint", view |-> w] /\ e = [do |-> "end paint deferred", draw |-> n, from |-> p]
        /\ new = <<a, e>>
  OBVIOUS
<1>2. todo' = new \o Tail(todo) /\ draws[n].fresh
  BY <1>1, Zenon DEF PaintDeferred
<1>3. UNCHANGED <<phase, rendered, next, accessed, built, fresh, draws, owed, dirtyViews>>
  BY Zenon DEF PaintDeferred, invalidatorVars
<1>4. p \in PaintPlaces
  BY <1>1, IndexIs, Zenon
<1>5. a \in C
  <2>1. a \in [do : {"paint"}, view : Views]
    BY <1>1, Zenon
  <2> QED BY <1>1, <2>1, Zenon DEF PaintStack
<1>6. e \in C
  <2>1. e \in [do : {"end paint deferred"}, draw : 1..Len(draws), from : PaintPlaces]
    BY <1>1, <1>4, Zenon
  <2> QED BY <1>1, <2>1, Zenon DEF PaintStack
<1>7. new \in Seq(C)
  <2>1. <<a, e>> \in Seq(C)
    BY <1>5, <1>6, FewCalls
  <2> QED BY <1>1, <2>1, Zenon
<1>8. DOMAIN new = {1, 2} /\ new[1] = a /\ new[2] = e /\ Len(new) = 2
  <2>1. new = <<a, e>>
    BY <1>1, Zenon
  <2> QED BY <2>1, TwoOf
<1>9. a.do = "paint" /\ a.view = w /\ e.do = "end paint deferred" /\ e.draw = n /\ e.from = p
  BY <1>1, Zenon
<1>10. "paint" # "end paint" /\ "paint" # "end paint deferred" /\ "end paint" # "end paint deferred"
  BY Zenon
<1>b. 1 # 2
  OBVIOUS
<1>11. \A i \in DOMAIN new : i = 1 \/ i = 2
  BY <1>8
<1>12. 1 \in DOMAIN new /\ 2 \in DOMAIN new
  BY <1>8
<1>13. NewPaints(new) = {1}
  BY <1>8, <1>9, <1>10, <1>11, <1>12, <1>b, Zenon DEF NewPaints
<1>14. NewEnds(new) = {}
  BY <1>8, <1>9, <1>10, <1>11, <1>12, <1>b, Zenon DEF NewEnds
<1>15. NewEndDraws(new) = {2}
  BY <1>8, <1>9, <1>10, <1>11, <1>12, <1>b, Zenon DEF NewEndDraws
<1>16. new \in Seq(PaintStack(Len(draws), WithState(next))) /\ e.from = PaintIndex(next) /\ e.draw = n
       /\ a.view = w
  <2>1. C = PaintStack(Len(draws), WithState(next)) /\ p = PaintIndex(next)
    BY <1>1, Zenon
  <2>2. new \in Seq(PaintStack(Len(draws), WithState(next)))
    BY <1>7, <2>1
  <2>3. e.from = p /\ e.draw = n /\ a.view = w
    BY <1>9, Zenon
  <2> QED BY <2>1, <2>2, <2>3
<1> QED BY <1>2, <1>3, <1>8, <1>13, <1>14, <1>15, <1>16, Zenon

\* A deferred view is painted.
LEMMA PaintDeferredSeen == ASSUME WindowInv, SeenInv, PaintDeferred PROVE SeenInv'
<1>0. PICK n, w : n = Call.draw /\ w = draws[n].view
  OBVIOUS
<1>1. /\ phase = "paint" /\ todo # <<>> /\ 1 \in PaintDraws /\ Call = todo[1] /\ 1 \notin EndOfDraw
  <2>1. "paint deferred" \in {"paint", "end paint", "paint deferred", "end paint deferred"}
    BY Zenon
  <2>2. Calling("paint deferred")
    BY Zenon DEF PaintDeferred
  <2> QED BY <2>1, <2>2, PaintHead, Zenon DEF PaintDraws
<1>2. 1 \in PaintDraws \cup EndPaintDraws
  BY <1>1
<1>3. /\ n \in 1..Len(draws) /\ n \in DOMAIN draws /\ draws \in Seq(DeferredDraws) /\ Len(draws) \in Nat
      /\ draws[n] \in DeferredDraws /\ w \in Views /\ DrawList = draws /\ DrawOK(n)
         /\ IsWindowFrame(next) /\ IsWindowFrame(rendered)
      /\ ~First /\ Drawing /\ InNext(n)
  BY <1>0, <1>1, <1>2, DrawCalled
<1>4. PICK new, a, e :
           /\ new \in Seq(PaintStack(Len(draws), WithState(next))) /\ todo' = new \o Tail(todo)
           /\ Len(new) = 2 /\ DOMAIN new = {1, 2} /\ new[1] = a /\ new[2] = e
           /\ NewPaints(new) = {1} /\ NewEnds(new) = {} /\ NewEndDraws(new) = {2} /\ a.view = w
           /\ e.draw = n /\ e.from = PaintIndex(next)
           /\ draws[n].fresh /\ UNCHANGED <<phase, rendered, next, accessed, built, fresh, draws, owed, dirtyViews>>
  BY <1>0, <1>3, PaintDeferredGoes, SMTT(30)
<1>5. w \in fresh /\ Sub(w) \cap Cached = {}
  BY <1>0, <1>3, <1>4 DEF DrawOK
<1>6. Goes(<<>>, <<>>) /\ SameStates
  BY <1>4, GoesNowhere
<1>7. PaintStep(<<>>, new)
  <2>1. All(<<>>) = {}
    BY Empties
  <2>2. WithState(next') = WithState(next)
    BY <1>4
  <2>3. DOMAIN new = NewPaints(new) \cup NewEnds(new) \cup NewEndDraws(new)
    BY <1>4
  <2> QED BY <1>1, <1>4, <1>6, <2>1, <2>2, <2>3 DEF PaintStep
<1>8. PaintMoves(new) /\ phase' = "paint"
  BY <1>1, <1>4, <1>7, PaintStepMoves
<1>9. Doing("deferred")' = {}
  <2>1. \A j \in NewEndDraws(new) : 1 \in PaintDraws /\ j = Len(new) /\ new[j].draw = Call.draw
    BY <1>0, <1>1, <1>4
  <2> QED BY <1>7, <2>1, PaintRest
<1>10. DrawGoes(n)
  BY <1>3, <1>4, <1>7, <1>9, PaintSame
<1>11. EndPaintDrawOK(2, e, w)'
  <2>1. todo'[1].view = w /\ 1 \in Calls("paint")'
    BY <1>4, <1>8 DEF PaintMoves
  <2>2. w \in Sub(w)
    BY <1>3, SubIs
  <2>3. \A i \in 1..(2 - 1) : i = 1
    OBVIOUS
  <2>4. e.from.keys = Len(next.keys) /\ Len(next.keys) \in Nat /\ KeysAfter(next, Len(next.keys)) = {}
    <3>1. e.from.keys = Len(next.keys)
      BY <1>4 DEF PaintIndex
    <3>2. next.keys \in Seq(StateKeys)
      BY <1>3 DEF IsWindowFrame
    <3> QED BY <1>3, <3>1, <3>2, RangeWithin, LenProperties
  <2>5. e.from.keys <= Len(next.keys)
    BY <2>4, Within
  <2>6. draws'[e.draw].fresh /\ next' = next
    BY <1>4
  <2>7. \A i \in 1..(2 - 1) : i \in Calls("paint")' /\ todo'[i].view \in Sub(w)
    BY <2>1, <2>2, <2>3
  <2> QED BY <2>4, <2>5, <2>6, <2>7 DEF EndPaintDrawOK, NoTops
<1>12. ASSUME NEW j \in NewEndDraws(new)
       PROVE  1 \in PaintDraws /\ j = Len(new) /\ new[j].draw = n
              /\ EndPaintDrawOK(j, new[j], draws[new[j].draw].view)'
  <2>1. j = 2 /\ new[j] = e /\ draws'[e.draw].view = w
    BY <1>0, <1>4, <1>12
  <2> QED BY <1>1, <1>4, <1>11, <2>1
<1>13. (\A i, j \in NewPaints(new) : i = j) /\ \A i \in NewPaints(new) : new[i].view \in Views
       /\ Sub(new[i].view) \cap Cached = {}
  BY <1>3, <1>4, <1>5
<1>14. draws' \in Seq(DeferredDraws) /\ Len(draws') = Len(draws)
       /\ \A m \in 1..Len(draws) : m # n => draws'[m] = draws[m]
  BY <1>3, <1>4
<1>15. NewEnds(new) = {}
  BY <1>4
<1> QED BY <1>0, <1>2, <1>6, <1>7, <1>10, <1>12, <1>13, <1>14, <1>15, DrawPainted

\* The range of what is painted is noted.
PaintNotes(s, n, a, b) == s = [draws EXCEPT ![n].paintFrom = a, ![n].paintTo = b]

\* A deferred draw gets its paint's ranges.
LEMMA PaintNotedIs ==
  ASSUME draws \in Seq(DeferredDraws), NEW n \in 1..Len(draws), NEW a \in PaintPlaces,
         NEW b \in PaintPlaces,
         NEW s, PaintNotes(s, n, a, b)
  PROVE  /\ s \in Seq(DeferredDraws) /\ Len(s) = Len(draws)
         /\ \A m \in 1..Len(draws) : m # n => s[m] = draws[m]
         /\ s[n] \in DeferredDraws /\ s[n].view = draws[n].view /\ s[n].fresh = draws[n].fresh
         /\ s[n].from = draws[n].from /\ s[n].to = draws[n].to
         /\ s[n].paintFrom = a /\ s[n].paintTo = b
<1> DEFINE q == [draws[n] EXCEPT !.paintFrom = a]
           r == [q EXCEPT !.paintTo = b]
<1>1. draws[n] \in DeferredDraws
  BY ElementOfSeq
<1>2. /\ q \in DeferredDraws /\ q.view = draws[n].view /\ q.fresh = draws[n].fresh /\ q.paintFrom = a
      /\ q.from = draws[n].from /\ q.to = draws[n].to
  BY <1>1 DEF DeferredDraws
<1> HIDE DEF q
<1>3. /\ r \in DeferredDraws /\ r.view = draws[n].view /\ r.fresh = draws[n].fresh /\ r.paintFrom = a
         /\ r.paintTo = b
      /\ r.from = draws[n].from /\ r.to = draws[n].to
  BY <1>2 DEF DeferredDraws
<1>4. s = [draws EXCEPT ![n] = r]
  BY DEF q, PaintNotes
<1> HIDE DEF r
<1>5. [draws EXCEPT ![n] = r] \in Seq(DeferredDraws) /\ Len([draws EXCEPT ![n] = r]) = Len(draws)
  BY <1>3, ExceptSeq
<1>6. DOMAIN draws = 1..Len(draws)
  BY LenProperties
<1>7. s[n] = r /\ \A m \in 1..Len(draws) : m # n => s[m] = draws[m]
  BY <1>4, <1>6
<1> QED BY <1>3, <1>4, <1>5, <1>7

\* It is done, with no cache of a view that draws by itself in the range.
LEMMA DrawNoted ==
  ASSUME WindowInv, SeenInv, NEW K, PaintStep(K, <<>>), SameStates, 1 \in PaintDraws \cup EndPaintDraws,
         Call = todo[1],
         NEW n, n = Call.draw, NEW a \in PaintPlaces, NEW b \in PaintPlaces, NEW s, s = draws',
         PaintNotes(s, n, a, b),
         b.keys = Len(next'.keys), NoTops(KeysAfter(next', a.keys))
  PROVE  SeenInv'
<1>0. PICK d, r : d = draws[n] /\ r = s[n]
  OBVIOUS
<1>1. phase = "paint" /\ phase' = "paint" /\ Goes(<<>>, K) /\ fresh' = fresh
  BY DEF PaintStep
<1>2. /\ n \in 1..Len(draws) /\ n \in DOMAIN draws /\ draws \in Seq(DeferredDraws) /\ Len(draws) \in Nat
      /\ d \in DeferredDraws /\ d.view \in Views /\ DrawList = draws /\ DrawOK(n) /\ IsWindowFrame(next)
         /\ IsWindowFrame(rendered)
      /\ ~First /\ Drawing /\ InNext(n)
  BY <1>0, <1>1, DrawCalled
<1>3. /\ s \in Seq(DeferredDraws) /\ Len(s) = Len(draws)
         /\ \A m \in 1..Len(draws) : m # n => s[m] = draws[m]
  BY <1>2, PaintNotedIs
<1>4. /\ r.view = d.view /\ r.fresh = d.fresh /\ r.from = d.from /\ r.to = d.to /\ r.paintFrom = a
         /\ r.paintTo = b
      /\ r \in DeferredDraws
  BY <1>0, <1>2, PaintNotedIs
<1>5. DrawList' = s /\ DrawList'[n] = r /\ ~First' /\ DrawList[n] = d
  BY <1>0, <1>1, <1>2 DEF DrawList, First
<1>6. Doing("deferred")' = {} /\ n \notin DrawsToPaint'
  <2>1. NewEndDraws(<<>>) = {}
    BY NothingNew
  <2> QED BY <2>1, PaintRest, DrawPaintedOnce
<1>7. InNext(n)' /\ PaintInNext(n)'
  BY <1>1, <1>5, <1>6 DEF InNext, PaintInNext, DrawsTo
<1>8. d.to.items <= Len(next.items) /\ d.to.keys <= Len(next.keys)
  BY <1>2, <1>5 DEF DrawOK
<1>9. DrawItems(n) = ItemsOf(next, d) /\ DrawKeys(n) = KeysOf(next, d)
  BY <1>2, <1>5 DEF DrawItems, DrawKeys
<1>10. ItemsOf(next', r) = ItemsOf(next, d) /\ KeysOf(next', r) = KeysOf(next, d)
  <2>1. ItemsOf(next', d) = ItemsOf(next, d) /\ KeysOf(next', d) = KeysOf(next, d)
    BY <1>1, <1>2, <1>8, RangesStay, RangedIs DEF Goes
  <2> QED BY <1>4, <2>1 DEF ItemsOf, KeysOf
<1>11. DrawItems(n)' = DrawItems(n) /\ DrawKeys(n)' = DrawKeys(n)
  BY <1>5, <1>7, <1>9, <1>10 DEF DrawItems, DrawKeys
<1>12. DrawPaintKeys(n)' = KeysAfter(next', a.keys)
  BY <1>4, <1>5, <1>7 DEF DrawPaintKeys, PaintKeysOf, KeysAfter
<1>13. /\ r.to.items <= Len(next'.items) /\ r.to.keys <= Len(next'.keys)
          /\ r.paintTo.keys <= Len(next'.keys)
  <2>1. /\ Len(next.items) <= Len(next'.items) /\ Len(next.keys) <= Len(next'.keys)
        /\ Len(next.items) \in Nat /\ Len(next.keys) \in Nat /\ Len(next'.items) \in Nat
           /\ Len(next'.keys) \in Nat
    BY <1>1, <1>2, AfterGrows DEF Goes
  <2>2. d.to.items \in Nat /\ d.to.keys \in Nat
    BY <1>2, RangedIs DEF Ranged
  <2>3. b.keys <= Len(next'.keys)
    BY <2>1, Within
  <2> QED BY <1>4, <1>8, <2>1, <2>2, <2>3
<1>14. Seen(DrawItems(n))' /\ accessed \subseteq accessed'
  <2>1. DrawItems(n) \subseteq Views
    <3>1. ItemsOf(next, d) \subseteq Views
      BY <1>2, RangeWithin, ViewsTyped
    <3> QED BY <1>9, <3>1
  <2>2. \A u \in Views : Unseen(u)' => Unseen(u)
    BY <1>1 DEF Goes
  <2>3. Seen(DrawItems(n))
    BY <1>2 DEF DrawOK
  <2> QED BY <1>1, <1>11, <2>1, <2>2, <2>3 DEF Seen, Goes
<1>15. DrawOK(n)'
  <2>1. /\ d.fresh => d.view \in fresh /\ Sub(d.view) \cap Cached = {}
        /\ DrawItems(n) \subseteq accessed /\ NoTops(DrawKeys(n))
    BY <1>2, <1>5 DEF DrawOK
  <2> QED BY <1>1, <1>4, <1>5, <1>11, <1>12, <1>13, <1>14, <2>1 DEF DrawOK, NoTops
<1>16. DrawGoes(n)
  BY <1>2, <1>4, <1>5, <1>11, <1>15 DEF DrawGoes
<1>17. PICK none : none = <<>>
  OBVIOUS
<1>18. NewPaints(none) = {} /\ NewEnds(none) = {} /\ NewEndDraws(none) = {} /\ PaintStep(K, none)
  BY <1>17, NothingNew
<1>19. draws' \in Seq(DeferredDraws) /\ Len(draws') = Len(draws)
       /\ \A m \in 1..Len(draws) : m # n => draws'[m] = draws[m]
  BY <1>3
<1> QED BY <1>16, <1>18, <1>19, DrawPainted

\* The paint of one of the last frame is reused.
LEMMA PaintDeferredAgainGoes ==
  ASSUME WindowInv, PaintDeferredAgain, NEW n, n = Call.draw, NEW d, d = draws[n], d \in DeferredDraws
  PROVE  \E L, s, a, b :
           /\ ~d.fresh /\ All(L) = PaintKeysOf(rendered, d) /\ Goes(<<>>, L) /\ SameStates
           /\ s = draws' /\ PaintNotes(s, n, a, b) /\ a \in PaintPlaces /\ b \in PaintPlaces
           /\ a.keys = Len(next.keys) /\ b.keys = Len(next'.keys)
           /\ todo' = Tail(todo) /\ UNCHANGED <<phase, built, fresh>>
<1>1. PICK end, a, b, s, L :
        /\ end = PaintAgain(next, d.paintFrom, d.paintTo) /\ a = PaintIndex(next) /\ b = PaintIndex(end)
           /\ s = draws'
        /\ L = Between(rendered.keys, d.paintFrom.keys, d.paintTo.keys)
  OBVIOUS
<1>2. /\ ~d.fresh /\ next' = end /\ todo' = Tail(todo)
      /\ UNCHANGED <<phase, rendered, accessed, built, fresh, owed, dirtyViews>>
  BY <1>1 DEF PaintDeferredAgain, invalidatorVars
<1>3. PaintNotes(s, n, a, b)
  BY <1>1 DEF PaintDeferredAgain, PaintNotes
<1>4. IsWindowFrame(next) /\ IsWindowFrame(rendered) /\ d.paintFrom \in PaintPlaces
      /\ d.paintTo \in PaintPlaces
  BY DrawTypes, RangedIs DEF Ranged
<1>5. Longer(end, next, <<>>, L, <<>>) /\ end.states = next.states /\ IsWindowFrame(end)
  BY <1>1, <1>4, PaintAgainLists, ZenonT(30)
<1>6. Goes(<<>>, L)
  <2>1. \A u \in Views : Unseen(u)' => Unseen(u)
    BY <1>2 DEF Unseen
  <2>2. Kept(rendered', rendered)
    BY <1>2 DEF Kept
  <2>3. More(next', next, <<>>, L)
    BY <1>2, <1>5 DEF Longer
  <2> QED BY <1>2, <2>1, <2>2, <2>3 DEF Goes
<1>7. SameStates
  BY <1>2, <1>5 DEF SameStates
<1>8. All(L) = PaintKeysOf(rendered, d)
  <2>1. rendered.keys \in Seq(StateKeys) /\ d.paintFrom.keys \in Nat /\ d.paintTo.keys \in Nat
    BY <1>4, RangedIs DEF IsWindowFrame
  <2>2. \A x, y \in Nat : All(Between(rendered.keys, x, y)) = Part(rendered.keys, x, y)
    BY <2>1, BetweenPart
  <2>3. L = Between(rendered.keys, d.paintFrom.keys, d.paintTo.keys)
    BY <1>1
  <2> QED BY <2>1, <2>2, <2>3 DEF PaintKeysOf
<1>9. a \in PaintPlaces /\ b \in PaintPlaces /\ a.keys = Len(next.keys) /\ b.keys = Len(next'.keys)
  <2>1. a \in PaintPlaces /\ b \in PaintPlaces
    BY <1>1, <1>4, <1>5, IndexIs
  <2> QED BY <1>1, <1>2, <2>1 DEF PaintIndex
<1> QED BY <1>1, <1>2, <1>3, <1>6, <1>7, <1>8, <1>9

\* It was in this frame's ranges, or is in the last one's.
LEMMA PaintDeferredAgainSeen == ASSUME WindowInv, SeenInv, PaintDeferredAgain PROVE SeenInv'
<1>0. PICK n, d : n = Call.draw /\ d = draws[n]
  OBVIOUS
<1>1. /\ phase = "paint" /\ todo # <<>> /\ 1 \in PaintDraws /\ Call = todo[1] /\ 1 \notin EndOfDraw
  <2>1. "paint deferred" \in {"paint", "end paint", "paint deferred", "end paint deferred"}
    BY Zenon
  <2>2. Calling("paint deferred")
    BY Zenon DEF PaintDeferredAgain
  <2> QED BY <2>1, <2>2, PaintHead, Zenon DEF PaintDraws
<1>2. 1 \in PaintDraws \cup EndPaintDraws
  BY <1>1
<1>3. /\ n \in 1..Len(draws) /\ n \in DOMAIN draws /\ draws \in Seq(DeferredDraws) /\ Len(draws) \in Nat
      /\ d \in DeferredDraws /\ DrawList = draws /\ DrawOK(n) /\ IsWindowFrame(next)
         /\ IsWindowFrame(rendered)
  BY <1>0, <1>1, <1>2, DrawCalled
<1>4. PICK L, s, a, b :
           /\ ~d.fresh /\ All(L) = PaintKeysOf(rendered, d) /\ Goes(<<>>, L) /\ SameStates
           /\ s = draws' /\ PaintNotes(s, n, a, b) /\ a \in PaintPlaces /\ b \in PaintPlaces
           /\ a.keys = Len(next.keys) /\ b.keys = Len(next'.keys)
           /\ todo' = Tail(todo) /\ UNCHANGED <<phase, built, fresh>>
  BY <1>0, <1>3, PaintDeferredAgainGoes
<1>5. NoTops(All(L))
  <2>1. n \in DrawsToPaint
    BY <1>0, <1>1, ToPaintIs
  <2>2. ~PaintInNext(n) /\ DrawList[n] = d
    BY <1>0, <1>3, <1>4, <2>1 DEF PaintInNext
  <2> QED BY <1>3, <1>4, <2>2 DEF DrawOK, DrawPaintKeys
<1>6. PaintStep(L, <<>>)
  <2>1. \A c \in Top : CacheKey(c) \notin All(L)
    BY <1>5 DEF NoTops, TopKeys
  <2>2. WithState(next') = WithState(next)
    BY <1>4 DEF WithState, SameStates
  <2> QED BY <1>1, <1>4, <2>1, <2>2, NothingNew, NothingCalled DEF PaintStep
<1>7. KeysAfter(next', a.keys) = All(L)
  <2>1. KeysAfter(next, Len(next.keys)) = {}
    BY <1>3, RangeWithin
  <2>2. /\ \A k \in Nat : k <= Len(next.keys) => KeysAfter(next', k) = KeysAfter(next, k) \cup All(L)
        /\ Len(next.keys) \in Nat
    BY <1>3, <1>4, AfterGrows DEF Goes
  <2> QED BY <1>4, <2>1, <2>2, Within
<1> QED BY <1>0, <1>1, <1>2, <1>4, <1>5, <1>6, <1>7, DrawNoted

\* A deferred view was painted.
LEMMA EndPaintDeferredSeen == ASSUME WindowInv, SeenInv, EndPaintDeferred PROVE SeenInv'
<1>0. PICK n, e, s, b : n = Call.draw /\ e = Call /\ s = draws' /\ b = PaintIndex(next)
  OBVIOUS
<1>1. /\ phase = "paint" /\ todo # <<>> /\ 1 \in EndPaintDraws /\ e = todo[1] /\ 1 \notin EndOfDraw
  <2>1. "end paint deferred" \in {"paint", "end paint", "paint deferred", "end paint deferred"}
    BY Zenon
  <2>2. Calling("end paint deferred")
    BY Zenon DEF EndPaintDeferred
  <2> QED BY <1>0, <2>1, <2>2, PaintHead, Zenon DEF EndPaintDraws
<1>2. PaintNotes(s, n, e.from, b)
  BY <1>0 DEF EndPaintDeferred, PaintNotes
<1>3. todo' = Tail(todo) /\ UNCHANGED <<phase, rendered, next, accessed, built, fresh, owed, dirtyViews>>
  BY DEF EndPaintDeferred, invalidatorVars
<1>4. Goes(<<>>, <<>>) /\ SameStates
  BY <1>3, GoesNowhere
<1>5. PaintStep(<<>>, <<>>)
  <2>1. WithState(next') = WithState(next)
    BY <1>3
  <2> QED BY <1>1, <1>3, <1>4, <2>1, NothingNew, NothingCalled DEF PaintStep
<1>6. e.from \in PaintPlaces /\ b \in PaintPlaces /\ b.keys = Len(next'.keys)
  <2>1. e.from \in PaintPlaces
    BY <1>0, <1>1, PaintEndTypes
  <2>2. b \in PaintPlaces
    BY <1>0, DrawTypes, IndexIs
  <2> QED BY <1>0, <1>3, <2>1, <2>2 DEF PaintIndex
<1>7. NoTops(KeysAfter(next', e.from.keys))
  <2>1. EndPaintDrawOK(1, e, draws[e.draw].view)
    BY <1>1 DEF SeenInv, PaintsOK
  <2> QED BY <1>3, <2>1 DEF EndPaintDrawOK
<1>8. 1 \in PaintDraws \cup EndPaintDraws /\ Call = todo[1]
  BY <1>0, <1>1
<1> QED BY <1>0, <1>2, <1>4, <1>5, <1>6, <1>7, <1>8, DrawNoted

\* Between draws there is no more to it than the last frame, and what was notified.
LEMMA NotInDraw ==
  ASSUME LastOK', NotifiedOK', phase' \in {"none", "focus"}
  PROVE  SeenInv'
<1>1. ~Drawing' /\ phase' # "prepaint" /\ phase' # "paint"
  BY DEF Drawing
<1>2. FreshOK' /\ MovedOK' /\ CachesOK' /\ DeferredOK'
  BY <1>1 DEF FreshOK, MovedOK, CachesOK, DeferredOK
<1>3. StackOK' /\ PendingOK' /\ EndsOK' /\ DrawsOK' /\ PaintsOK'
  BY <1>1 DEF StackOK, PendingOK, EndsOK, DrawsOK, PaintsOK
<1> QED BY <1>2, <1>3 DEF SeenInv

\* The frame that is finished has what was drawn, and the states that come along.
LEMMA FinishedFrame ==
  ASSUME WindowInv, FinishFrame
  PROVE  /\ rendered'.items = next.items /\ rendered'.keys = next.keys /\ rendered'.deferred = draws
         /\ DOMAIN rendered'.states = DOMAIN next.states \cup (All(next.keys) \cap DOMAIN rendered.states)
         /\ \A k \in DOMAIN next.states : k \notin DOMAIN rendered.states => rendered'.states[k] = next.states[k]
         /\ phase' = "focus" /\ UNCHANGED <<accessed, owed, dirtyViews>>
<1>1. PICK f : f = Finished(next, rendered)
  OBVIOUS
<1>2. /\ rendered' = [f EXCEPT !.deferred = draws, !.active = active]
      /\ phase' = "focus" /\ UNCHANGED <<accessed, owed, dirtyViews>>
  BY <1>1 DEF FinishFrame
<1>3. IsWindowFrame(next) /\ IsWindowFrame(rendered)
  BY DrawTypes
<1>4. f.items = next.items /\ f.keys = next.keys
      /\ DOMAIN f.states = DOMAIN next.states \cup (All(next.keys) \cap DOMAIN rendered.states)
      /\ \A k \in DOMAIN next.states : k \notin DOMAIN rendered.states => f.states[k] = next.states[k]
  BY <1>1, <1>3, FinishedStates
<1>5. f = FrameOf(f)
  BY <1>1, <1>3, FinishedIs DEF LikeFrame, IsWindowFrame
<1>6. rendered' = [FrameOf(f) EXCEPT !.deferred = draws, !.active = active]
  BY <1>2, <1>5
<1>7. rendered'.items = f.items /\ rendered'.keys = f.keys /\ rendered'.states = f.states
      /\ rendered'.deferred = draws
  BY <1>6 DEF FrameOf
<1> QED BY <1>2, <1>4, <1>7

\* There is nothing more to be painted.
LEMMA NothingLeft ==
  ASSUME WindowInv, SeenInv, FinishFrame
  PROVE  phase = "paint" /\ ToPaint = {} /\ DrawsToPaint = {} /\ Doing("deferred") = {}
<1>1. phase = "paint" /\ todo # <<>> /\ Call.do = "end draw"
  <2>1. "end draw" \in {"paint", "end draw", "end paint", "paint deferred", "end paint deferred"}
    BY Zenon
  <2>2. Calling("end draw")
    BY Zenon DEF FinishFrame
  <2> QED BY <2>1, <2>2, InPaint, Zenon DEF Calling
<1>2. /\ Doing("deferred") = {}
      /\ \A i \in DOMAIN todo \ {Len(todo)} : i \notin EndOfDraw
  BY <1>1 DEF SeenInv, PaintsOK
<1>3. DOMAIN todo = 1..Len(todo) /\ Len(todo) \in Nat /\ 1 \in DOMAIN todo /\ Call = todo[1]
  <2>1. DOMAIN todo = 1..Len(todo) /\ Len(todo) \in Nat
        /\ todo \in Seq(PaintStack(Len(draws), WithState(next)))
    BY <1>1, PaintTodo, Zenon
  <2>2. Len(todo) # 0
    BY <1>1, <2>1, EmptySeq
  <2> QED BY <1>1, <2>1, <2>2, OneOf, HeadCall
<1>4. 1 \in EndOfDraw
  BY <1>1, <1>3 DEF EndOfDraw, Calls
<1>5. DOMAIN todo = {1}
  BY <1>2, <1>3, <1>4
<1>6. Calls("paint") = {} /\ PaintDraws = {}
  <2>1. "paint" # "end draw" /\ "paint deferred" # "end draw"
    BY Zenon
  <2>2. \A i \in DOMAIN todo : todo[i].do = "end draw"
    BY <1>1, <1>3, <1>5
  <2> QED BY <2>1, <2>2, Zenon DEF Calls, PaintDraws
<1> QED BY <1>1, <1>2, <1>6, ToPaintIs

\* The frame is finished: what it shows was read, and seen.
LEMMA FinishFrameSeen == ASSUME WindowInv, SeenInv, FinishFrame PROVE SeenInv'
<1>1. /\ rendered'.items = next.items /\ rendered'.keys = next.keys /\ rendered'.deferred = draws
      /\ DOMAIN rendered'.states = DOMAIN next.states \cup (All(next.keys) \cap DOMAIN rendered.states)
      /\ \A k \in DOMAIN next.states : k \notin DOMAIN rendered.states => rendered'.states[k] = next.states[k]
      /\ phase' = "focus" /\ UNCHANGED <<accessed, owed, dirtyViews>>
  BY FinishedFrame
<1>2. phase = "paint" /\ ToPaint = {} /\ DrawsToPaint = {} /\ Doing("deferred") = {} /\ Drawing /\ ~First
      /\ DrawList = draws
  BY NothingLeft DEF Drawing, First, DrawList
<1>3. /\ \A n : InNext(n) /\ PaintInNext(n)
      /\ \A c : CacheInNext(c)
  BY <1>2 DEF InNext, PaintInNext, CacheInNext, DrawsTo
<1>4. ASSUME NEW c \in Top \cap WithState(rendered')
      PROVE  LastCacheOK(c, rendered.states[CacheKey(c)])'
  <2>1. CacheKey(c) \in DOMAIN next.states /\ CacheKey(c) \notin DOMAIN rendered.states /\ c \in Views
    <3>1. CacheKey(c) \in DOMAIN rendered'.states /\ c \in Views
      BY <1>4 DEF WithState
    <3>2. CacheKey(c) \in All(next.keys) \cup DOMAIN next.states => CacheKey(c) \notin DOMAIN rendered.states
      BY <1>2, <1>4 DEF SeenInv, MovedOK
    <3> QED BY <1>1, <3>1, <3>2
  <2>2. PICK k : k = next.states[CacheKey(c)] /\ k = rendered'.states[CacheKey(c)]
    BY <1>1, <2>1
  <2>3. CacheOK(c, k)
    BY <1>2, <1>4, <2>1, <2>2 DEF SeenInv, CachesOK, WithState
  <2>4. ItemsOf(rendered', k) = ItemsOf(next, k) /\ KeysOf(rendered', k) = KeysOf(next, k)
        /\ PaintKeysOf(rendered', k) = CachePaintKeys(c, k)
    BY <1>1, <1>3 DEF ItemsOf, KeysOf, PaintKeysOf, CachePaintKeys
  <2>5. ASSUME NEW n \in DeferredOf(draws, k), NEW d, d = draws[n]
        PROVE  LastDrawOK(c, k, d)'
    <3>1. DrawOK(n)
      BY <1>2, <2>5 DEF SeenInv, DeferredOK, DeferredOf
    <3>2. d.view \in Sub(c) /\ DrawItems(n) \subseteq Sub(c) \cap k.accessed
      BY <1>2, <2>3, <2>5 DEF CacheOK
    <3>3. ItemsOf(rendered', d) = DrawItems(n) /\ KeysOf(rendered', d) = DrawKeys(n)
          /\ PaintKeysOf(rendered', d) = DrawPaintKeys(n)
      BY <1>1, <1>2, <1>3, <2>5 DEF ItemsOf, KeysOf, PaintKeysOf, DrawItems, DrawKeys, DrawPaintKeys
    <3> QED BY <3>1, <3>2, <3>3 DEF LastDrawOK, DrawOK, NoTops
  <2>6. \A n \in DeferredOf(rendered'.deferred, k) : LastDrawOK(c, k, rendered.deferred[n])'
    BY <1>1, <2>5
  <2>7. LastCacheOK(c, k)'
    BY <2>3, <2>4, <2>6 DEF LastCacheOK, CacheOK, Apart, NoTops
  <2> QED BY <2>2, <2>7
<1>5. LastOK'
  BY <1>4 DEF LastOK
<1>6. NotifiedOK'
  <2>1. ViewsIn(next.items) \subseteq accessed /\ Seen(ViewsIn(next.items))
    BY <1>2 DEF SeenInv, FreshOK, Seen
  <2>2. Shown' = ViewsIn(next.items)
    BY <1>1 DEF Shown
  <2>3. \A u : Unseen(u)' <=> Unseen(u)
    BY <1>1 DEF Unseen
  <2>4. Shown' \subseteq accessed' /\ Seen(Shown)'
    BY <1>1, <2>1, <2>2, <2>3 DEF Seen
  <2> QED BY <1>1, <2>4 DEF NotifiedOK
<1> QED BY <1>1, <1>5, <1>6, NotInDraw

\* What was read is tracked, and what is notified of it is for the next draw.
LEMMA EndDrawSeen == ASSUME WindowInv, SeenInv, EndDraw PROVE SeenInv'
<1>1. /\ phase = "focus" /\ phase' = "none" /\ tracked' = accessed
      /\ UNCHANGED <<dirty, dirtyViews, rendered, owed>>
  BY DEF EndDraw
<1>2. LastOK'
  <2>1. Kept(rendered', rendered)
    BY <1>1 DEF Kept
  <2> QED BY <2>1, LastStays DEF SeenInv
<1>3. Shown \subseteq accessed /\ Seen(Shown)
  BY <1>1 DEF SeenInv, NotifiedOK
<1>4. NotifiedOK'
  <2>1. Shown' = Shown /\ Shown \subseteq Views
    BY <1>1, DrawTypes, ViewsTyped DEF Shown
  <2>2. \A v \in Shown : owed[v] # "asked" /\ (owed[v] = "late" => v \in dirtyViews)
                                                                   /\ owed[v] \in {"no", "asked", "late"}
    BY <1>3, <2>1 DEF Seen, Unseen, WindowInv, WindowTypeOK
  <2> QED BY <1>1, <1>3, <2>1, <2>2 DEF NotifiedOK
<1> QED BY <1>1, <1>2, <1>4, NotInDraw

-----------------------------------------------------------------------------
(* What the program does in the middle of a draw, and between two.         *)

\* The calls, the frames and what was drawn stay: so does what is made of them.
SameDrawing ==
  UNCHANGED <<phase, rendered, next, marked, refreshing, accessed, todo, built, fresh, draws>>

\* The calls stay while nothing is drawn,
LEMMA SameCalls ==
  ASSUME SameDrawing
  PROVE  /\ \A what : Calls(what)' = Calls(what) /\ Doing(what)' = Doing(what)
                      /\ DrawsTo(what)' = DrawsTo(what)
         /\ Pending' = Pending /\ EndCalls' = EndCalls /\ EndDraws' = EndDraws /\ EndPaints' = EndPaints
         /\ PaintDraws' = PaintDraws /\ EndPaintDraws' = EndPaintDraws /\ EndOfDraw' = EndOfDraw
         /\ ToPaint' = ToPaint /\ DrawsToPaint' = DrawsToPaint
         /\ (First' <=> First) /\ (Drawing' <=> Drawing) /\ DrawList' = DrawList
<1>1. todo' = todo /\ next' = next /\ draws' = draws /\ phase' = phase
  BY DEF SameDrawing
<1>2. \A what : Calls(what)' = Calls(what) /\ Doing(what)' = Doing(what)
  BY <1>1 DEF Calls, Doing, All
<1>3. \A what : DrawsTo(what)' = DrawsTo(what)
  BY <1>2 DEF DrawsTo
<1>4. ToPaint' = ToPaint
  BY <1>2 DEF ToPaint
<1>5. Pending' = Pending /\ EndCalls' = EndCalls /\ EndDraws' = EndDraws /\ EndPaints' = EndPaints
      /\ PaintDraws' = PaintDraws /\ EndPaintDraws' = EndPaintDraws /\ EndOfDraw' = EndOfDraw
         /\ DrawsToPaint' = DrawsToPaint
  BY <1>2, <1>3, Zenon DEF Pending, EndCalls, EndDraws, EndPaints, PaintDraws, EndPaintDraws, EndOfDraw,
     DrawsToPaint
<1>6. (First' <=> First) /\ (Drawing' <=> Drawing)
  BY <1>1, <1>2, Zenon DEF First, Drawing
<1>7. DrawList' = DrawList
  BY <1>1, <1>6 DEF DrawList
<1> QED BY <1>2, <1>3, <1>4, <1>5, <1>6, <1>7

\* and what the ranges are of.
LEMMA SameRanges ==
  ASSUME SameDrawing
  PROVE  /\ \A n : /\ (InNext(n)' <=> InNext(n)) /\ (PaintInNext(n)' <=> PaintInNext(n))
                   /\ DrawItems(n)' = DrawItems(n) /\ DrawKeys(n)' = DrawKeys(n)
                      /\ DrawPaintKeys(n)' = DrawPaintKeys(n)
         /\ \A c : (CacheInNext(c)' <=> CacheInNext(c)) /\ (Started(c)' <=> Started(c))
            /\ (Reached(c)' <=> Reached(c))
         /\ \A c, k : CachePaintKeys(c, k)' = CachePaintKeys(c, k)
<1>1. /\ todo' = todo /\ next' = next /\ rendered' = rendered /\ phase' = phase /\ fresh' = fresh
         /\ built' = built
  BY DEF SameDrawing
<1>2. /\ \A what : DrawsTo(what)' = DrawsTo(what)
      /\ ToPaint' = ToPaint /\ DrawsToPaint' = DrawsToPaint /\ (First' <=> First) /\ DrawList' = DrawList
  BY SameCalls
<1>3. \A n : (InNext(n)' <=> InNext(n)) /\ (PaintInNext(n)' <=> PaintInNext(n))
  BY <1>1, <1>2 DEF InNext, PaintInNext
<1>4. \A n : DrawItems(n)' = DrawItems(n) /\ DrawKeys(n)' = DrawKeys(n)
             /\ DrawPaintKeys(n)' = DrawPaintKeys(n)
  BY <1>1, <1>2, <1>3 DEF DrawItems, DrawKeys, DrawPaintKeys
<1>5. \A c : CacheInNext(c)' <=> CacheInNext(c)
  BY <1>1, <1>2 DEF CacheInNext
<1>6. \A c, k : CachePaintKeys(c, k)' = CachePaintKeys(c, k)
  BY <1>1, <1>5 DEF CachePaintKeys
<1>7. \A c : Started(c)' <=> Started(c)
  BY <1>1 DEF Started, LaidOutNext, Calling, Call
<1>8. \A c : Reached(c)' <=> Reached(c)
  BY <1>1 DEF Reached
<1> QED BY <1>3, <1>4, <1>5, <1>6, <1>7, <1>8

\* What the program does in the middle of a draw changes nothing of it.
LEMMA Aside ==
  ASSUME WindowInv, SeenInv, SameDrawing, phase # "none", \A v \in Views : Unseen(v)' => Unseen(v)
  PROVE  SeenInv'
<1>1. /\ phase' = phase /\ rendered' = rendered /\ next' = next /\ marked' = marked
         /\ refreshing' = refreshing
      /\ accessed' = accessed /\ todo' = todo /\ built' = built /\ fresh' = fresh /\ draws' = draws
  BY DEF SameDrawing
<1>2. /\ \A what : Calls(what)' = Calls(what) /\ Doing(what)' = Doing(what)
                   /\ DrawsTo(what)' = DrawsTo(what)
      /\ Pending' = Pending /\ EndCalls' = EndCalls /\ EndDraws' = EndDraws /\ EndPaints' = EndPaints
      /\ PaintDraws' = PaintDraws /\ EndPaintDraws' = EndPaintDraws /\ EndOfDraw' = EndOfDraw
      /\ ToPaint' = ToPaint /\ DrawsToPaint' = DrawsToPaint
      /\ (First' <=> First) /\ (Drawing' <=> Drawing) /\ DrawList' = DrawList
  BY SameCalls
<1>3. /\ \A n : /\ (InNext(n)' <=> InNext(n)) /\ (PaintInNext(n)' <=> PaintInNext(n))
                /\ DrawItems(n)' = DrawItems(n) /\ DrawKeys(n)' = DrawKeys(n)
                   /\ DrawPaintKeys(n)' = DrawPaintKeys(n)
      /\ \A c : (CacheInNext(c)' <=> CacheInNext(c)) /\ (Started(c)' <=> Started(c))
         /\ (Reached(c)' <=> Reached(c))
      /\ \A c, k : CachePaintKeys(c, k)' = CachePaintKeys(c, k)
  BY SameRanges
<1>4. \A S \in SUBSET Views : Seen(S) => Seen(S)'
  BY DEF Seen
<1>5. LastOK'
  BY <1>1, LastStays DEF SeenInv, Kept
<1>6. FreshOK'
  <2>1. CASE Drawing
    <3>1. /\ ViewsIn(next.items) \cup fresh \subseteq accessed /\ Seen(ViewsIn(next.items) \cup fresh)
          /\ \A v \in fresh : Inside(v, built) \ Cached \subseteq fresh
      BY <2>1 DEF SeenInv, FreshOK
    <3>2. accessed \subseteq Views
      BY DEF WindowInv, WindowTypeOK
    <3>3. Seen(ViewsIn(next.items) \cup fresh)'
      <4>1. PICK S : S = ViewsIn(next.items) \cup fresh
        OBVIOUS
      <4>2. Seen(S)'
        BY <1>4, <3>1, <3>2, <4>1
      <4> QED BY <1>1, <4>1, <4>2
    <3>4. \A v \in fresh' : Inside(v, built') \ Cached \subseteq fresh'
      BY <1>1, <3>1
    <3> QED BY <1>1, <3>1, <3>3, <3>4 DEF FreshOK
  <2>2. CASE ~Drawing
    BY <1>2, <2>2 DEF FreshOK
  <2> QED BY <2>1, <2>2
<1>7. MovedOK'
  BY <1>1, <1>2 DEF SeenInv, MovedOK
<1>8. CachesOK'
  <2>1. \A c, k : CacheOK(c, k)' <=> CacheOK(c, k)
    BY <1>1, <1>2, <1>3 DEF CacheOK
  <2> QED BY <1>1, <1>2, <2>1 DEF SeenInv, CachesOK
<1>9. DeferredOK'
  <2>1. \A n : DrawOK(n) => DrawOK(n)'
    <3>1. \A n : DrawItems(n) \subseteq accessed => DrawItems(n) \subseteq Views
      BY DEF WindowInv, WindowTypeOK
    <3>2. ASSUME NEW n, DrawOK(n) PROVE Seen(DrawItems(n))'
      <4>1. DrawItems(n) \subseteq Views /\ Seen(DrawItems(n))
        BY <3>1, <3>2 DEF DrawOK
      <4> QED BY <1>3, <4>1 DEF Seen
    <3> QED BY <1>1, <1>2, <1>3, <3>2 DEF DrawOK
  <2> QED BY <1>2, <2>1 DEF SeenInv, DeferredOK
<1>10. StackOK'
  <2>1. StackOK
    BY DEF SeenInv
  <2> QED BY <1>1, <1>2, <2>1, Zenon DEF StackOK
<1>11. PendingOK'
  <2>1. \A i, v : FirstPendingOK(i, v)' <=> FirstPendingOK(i, v)
    <3>1. \A w : NotYet(w)' <=> NotYet(w)
      BY <1>1 DEF NotYet
    <3> QED BY <1>1, <1>2, <1>3, <3>1 DEF FirstPendingOK
  <2> QED BY <1>1, <1>2, <2>1 DEF SeenInv, PendingOK
<1>12. EndsOK'
  <2>1. \A e, c : EndTopOK(e, c)' <=> EndTopOK(e, c)
    BY <1>1 DEF EndTopOK
  <2>2. \A j, e, c : EndOK(j, e, c)' <=> EndOK(j, e, c)
    BY <1>1, <1>2, <1>3, <2>1 DEF EndOK
  <2> QED BY <1>1, <1>2, <2>2 DEF SeenInv, EndsOK
<1>13. DrawsOK'
  <2>1. \A j, e, v : EndDrawOK(j, e, v)' <=> EndDrawOK(j, e, v)
    BY <1>1, <1>2 DEF EndDrawOK
  <2> QED BY <1>1, <1>2, <2>1 DEF SeenInv, DrawsOK
<1>14. PaintsOK'
  <2>1. \A j, e, v : (EndPaintOK(j, e, v)' <=> EndPaintOK(j, e, v))
                                               /\ (EndPaintDrawOK(j, e, v)' <=> EndPaintDrawOK(j, e, v))
    BY <1>1, <1>2 DEF EndPaintOK, EndPaintDrawOK
  <2>2. DeferredLast' <=> DeferredLast
    BY <1>1, <1>2 DEF DeferredLast
  <2> QED BY <1>1, <1>2, <2>1, <2>2 DEF SeenInv, PaintsOK
<1>15. NotifiedOK'
  <2>1. Shown' = Shown /\ Shown \subseteq Views
    BY <1>1, DrawTypes, ViewsTyped DEF Shown
  <2>2. phase = "prepaint" => \A v \in Shown : Unseen(v) => Holders[v] \subseteq marked
    BY DEF SeenInv, NotifiedOK
  <2>3. phase = "focus" => Shown \subseteq accessed /\ Seen(Shown)
    BY DEF SeenInv, NotifiedOK
  <2>4. phase' = "focus" => Seen(Shown)'
    BY <1>1, <2>1, <2>3 DEF Seen
  <2> QED BY <1>1, <2>1, <2>2, <2>3, <2>4 DEF NotifiedOK
<1> QED BY <1>5, <1>6, <1>7, <1>8, <1>9, <1>10, <1>11, <1>12, <1>13, <1>14, <1>15 DEF SeenInv

\* The draw begins with the layout of the root, its prepaint, and what is deferred then.
LEMMA BeginsWith ==
  ASSUME NEW forced, BeginDraw(forced)
  PROVE  /\ DOMAIN todo' = {1, 2, 3} /\ Len(todo') = 3 /\ todo'[1].view = Root /\ todo'[2].view = Root
         /\ todo'[1].do = "layout"
         /\ Calls("layout")' = {1} /\ Calls("prepaint")' = {2} /\ Calls("deferred draws")' = {3}
         /\ Calls("defer")' = {} /\ EndCalls' = {} /\ Calls("deferred")' = {} /\ EndDraws' = {}
         /\ Doing("deferred draws")' # {} /\ LaidOutNext(Root)'
<1>1. PICK a, b, e, s :
        /\ a = [do |-> "layout", view |-> Root] /\ b = [do |-> "prepaint", view |-> Root]
        /\ e = [do |-> "deferred draws"] /\ s = <<a, b, e>>
  OBVIOUS
<1>2. todo' = s
  BY <1>1, Zenon DEF BeginDraw
<1>3. DOMAIN s = {1, 2, 3} /\ s[1] = a /\ s[2] = b /\ s[3] = e /\ All(s) = {a, b, e} /\ Len(s) = 3
  <2>1. s = <<a, b, e>>
    BY <1>1, Zenon
  <2> QED BY <2>1, ThreeOf
<1>4. a.do = "layout" /\ a.view = Root /\ b.do = "prepaint" /\ b.view = Root /\ e.do = "deferred draws"
  BY <1>1, Zenon
<1>5. \A i \in DOMAIN s : i = 1 \/ i = 2 \/ i = 3
  BY <1>3
<1>6. 1 \in DOMAIN s /\ 2 \in DOMAIN s /\ 3 \in DOMAIN s
  BY <1>3
<1>7. /\ "layout" # "prepaint" /\ "layout" # "deferred draws" /\ "prepaint" # "deferred draws"
  BY Zenon
<1>8. Calls("layout")' = {1}
  BY <1>2, <1>3, <1>4, <1>5, <1>6, <1>7, Zenon DEF Calls
<1>9. Calls("prepaint")' = {2}
  BY <1>2, <1>3, <1>4, <1>5, <1>6, <1>7, Zenon DEF Calls
<1>10. Calls("deferred draws")' = {3}
  BY <1>2, <1>3, <1>4, <1>5, <1>6, <1>7, Zenon DEF Calls
<1>11. \A w : w \notin {"layout", "prepaint", "deferred draws"} => Calls(w)' = {}
  BY <1>2, <1>3, <1>4, <1>5, Zenon DEF Calls
<1>12. /\ "defer" \notin {"layout", "prepaint", "deferred draws"}
          /\ "end cached" \notin {"layout", "prepaint", "deferred draws"}
       /\ "deferred" \notin {"layout", "prepaint", "deferred draws"}
          /\ "end deferred" \notin {"layout", "prepaint", "deferred draws"}
  BY Zenon
<1>13. Calls("defer")' = {} /\ EndCalls' = {} /\ Calls("deferred")' = {} /\ EndDraws' = {}
  BY <1>11, <1>12, Zenon DEF EndCalls, EndDraws
<1>14. Doing("deferred draws")' # {}
  <2>1. e \in All(todo')
    BY <1>2, <1>3
  <2>2. e \in Doing("deferred draws")'
    BY <1>4, <2>1, Zenon DEF Doing
  <2> QED BY <2>2, Zenon
<1>15. LaidOutNext(Root)'
  <2>1. todo' # <<>>
    BY <1>2, <1>3
  <2>2. Call' = a
    BY <1>2, <1>3 DEF Call
  <2> QED BY <1>4, <2>1, <2>2, Zenon DEF LaidOutNext, Calling
<1>16. DOMAIN todo' = {1, 2, 3} /\ Len(todo') = 3
  BY <1>2, <1>3
<1>17. todo'[1].view = Root /\ todo'[2].view = Root /\ todo'[1].do = "layout"
  BY <1>2, <1>3, <1>4, Zenon
<1> QED BY <1>8, <1>9, <1>10, <1>13, <1>14, <1>15, <1>16, <1>17, Zenon

\* The root is in no other view.
LEMMA RootReached == Root \in Views /\ Holders[Root] = {Root} /\ Reached(Root) /\ Reached(Root)'
<1>1. Root \in Views
  BY ViewsAssumption
<1>2. \A p \in Views : ~Holds(p, Root)
  BY <1>1, HolderApart
<1>3. Holders[Root] = {Root}
  <2>1. PICK S : S = {Root}
    OBVIOUS
  <2>2. Holders[Root] \subseteq S
    BY <1>1, <1>2, <2>1, HoldersLeast
  <2> QED BY <1>1, <2>1, <2>2, HoldersUpward
<1> QED BY <1>1, <1>3 DEF Reached

\* A draw begins: what holds what was notified is marked.
LEMMA BeginDrawSeen == ASSUME WindowInv, SeenInv, NEW forced, BeginDraw(forced) PROVE SeenInv'
<1>1. /\ at = "callbacks" /\ marked' = UNION {Path(v, rendered) : v \in dirtyViews}
      /\ dirtyViews' = {} /\ phase' = "prepaint" /\ accessed' = {} /\ fresh' = {}
      /\ UNCHANGED <<rendered, next, built, draws, owed>>
  BY DEF BeginDraw
<1>2. /\ DOMAIN todo' = {1, 2, 3} /\ Len(todo') = 3 /\ todo'[1].view = Root /\ todo'[2].view = Root
      /\ todo'[1].do = "layout"
      /\ Calls("layout")' = {1} /\ Calls("prepaint")' = {2}
      /\ Calls("defer")' = {} /\ EndCalls' = {} /\ Calls("deferred")' = {} /\ EndDraws' = {}
      /\ LaidOutNext(Root)'
  BY BeginsWith
<1>3. 3 \in Calls("deferred draws")' /\ First'
  <2>1. Calls("deferred draws")' = {3} /\ Doing("deferred draws")' # {}
    BY BeginsWith, Zenon
  <2>2. phase' = "prepaint"
    BY <1>1
  <2>3. 3 \in {3}
    OBVIOUS
  <2> QED BY <2>1, <2>2, <2>3, Zenon DEF First
<1>4. phase = "none" /\ next = NoFrame /\ next' = NoFrame
  BY <1>1 DEF WindowInv, WindowTypeOK
<1>5. /\ next'.items = <<>> /\ next'.keys = <<>> /\ next'.deferred = <<>> /\ DOMAIN next'.states = {}
      /\ ViewsIn(next'.items) = {} /\ All(next'.keys) = {}
  BY <1>4, Empties DEF NoFrame
<1>6. Drawing' /\ DrawList' = <<>> /\ DOMAIN DrawList' = {}
  BY <1>1, <1>3, <1>5, Empties DEF Drawing, DrawList
<1>7. LastOK'
  BY <1>1, LastStays DEF SeenInv, Kept
<1>8. FreshOK' /\ MovedOK' /\ CachesOK' /\ DeferredOK'
  <2>1. FreshOK'
    BY <1>1, <1>5 DEF FreshOK, Seen
  <2>2. WithState(next') = {}
    BY <1>5 DEF WithState
  <2>3. MovedOK' /\ CachesOK'
    BY <1>5, <2>2 DEF MovedOK, CachesOK
  <2>4. DeferredOK'
    BY <1>6 DEF DeferredOK
  <2> QED BY <2>1, <2>3, <2>4
<1>9. StackOK'
  <2>1. \A i \in DOMAIN todo' \ {3} : todo'[i].do \in {"layout", "prepaint", "defer", "end cached"}
    <3>1. todo'[2].do = "prepaint"
      <4>1. 2 \in Calls("prepaint")'
        BY <1>2
      <4> QED BY <4>1 DEF Calls
    <3>2. \A i \in DOMAIN todo' \ {3} : i = 1 \/ i = 2
      BY <1>2
    <3>3. todo'[1].do = "layout"
      BY <1>2
    <3> QED BY <3>1, <3>2, <3>3, Zenon
  <2>2. ASSUME NEW i \in Calls("layout")'
        PROVE  /\ i = 1 /\ 2 \in Calls("prepaint")' /\ todo'[2].view = todo'[1].view
               /\ fresh' \cap Sub(todo'[1].view) = {}
               /\ todo'[1].view \in Cached \cup {Root}
    BY <1>1, <1>2, <2>2
  <2>3. Len(todo') = 3
    BY <1>2
  <2> QED BY <1>3, <2>1, <2>2, <2>3, Zenon DEF StackOK
<1>10. PendingOK'
  <2>1. FirstPendingOK(2, Root)'
    <3>1. Started(Root)'
      BY <1>2 DEF Started
    <3>2. Root \notin Cached
      BY ViewsAssumption
    <3>3. \A w \in Cached \cap Sub(Root) : NotYet(w)'
      BY <1>1, <1>5 DEF NotYet
    <3> QED BY <3>1, <3>2, <3>3, RootReached DEF FirstPendingOK
  <2>2. Pending' = {2}
    BY <1>2 DEF Pending
  <2>3. \A i \in Calls("prepaint")' : FirstPendingOK(i, todo[i].view)'
    BY <1>2, <2>1
  <2> QED BY <1>2, <1>3, <2>2, <2>3 DEF PendingOK
<1>11. EndsOK' /\ DrawsOK'
  BY <1>2 DEF EndsOK, DrawsOK
<1>12. PaintsOK'
  BY <1>1 DEF PaintsOK
<1>13. NotifiedOK'
  <2>1. Shown' = Shown /\ Shown \subseteq Views
    BY <1>1, DrawTypes, ViewsTyped DEF Shown
  <2>2. ASSUME NEW v \in Shown, Unseen(v)' PROVE Holders[v] \subseteq marked'
    <3>1. owed[v] # "no"
      BY <1>1, <2>2 DEF Unseen
    <3>2. v \in dirtyViews
      BY <1>4, <2>2, <3>1 DEF SeenInv, NotifiedOK
    <3>3. Path(v, rendered) = Holders[v]
      BY <2>2 DEF Path, Shown
    <3> QED BY <1>1, <3>2, <3>3
  <2> QED BY <1>1, <2>1, <2>2 DEF NotifiedOK
<1> QED BY <1>7, <1>8, <1>9, <1>10, <1>11, <1>12, <1>13 DEF SeenInv

\* Between two draws: what is notified is so for the next one.
LEMMA NotifiedMore ==
  ASSUME WindowInv, SeenInv, phase = "none", phase' = "none", rendered' = rendered, tracked' = tracked,
         dirtyViews \subseteq dirtyViews', dirty => dirty',
         \A u \in Views : owed'[u] = owed[u] \/ (u \in tracked => u \in dirtyViews' /\ dirty')
  PROVE  SeenInv'
<1>1. LastOK'
  BY LastStays DEF SeenInv, Kept
<1>2. Shown' = Shown /\ Shown \subseteq Views
  BY DrawTypes, ViewsTyped DEF Shown
<1>3. Shown \subseteq tracked /\ \A v \in Shown : owed[v] # "no" => v \in dirtyViews
                                                                    /\ (owed[v] = "asked" => dirty)
  BY DEF SeenInv, NotifiedOK
<1>4. NotifiedOK'
  BY <1>2, <1>3 DEF NotifiedOK
<1> QED BY <1>1, <1>4, NotInDraw

\* The callbacks of the frame notify their views.
LEMMA RunCallbacksSeen == ASSUME WindowInv, SeenInv, RunCallbacks PROVE SeenInv'
<1>1. /\ at = "idle" /\ Notified(callbacks) /\ UNCHANGED <<phase, rendered, tracked, owed>>
  BY DEF RunCallbacks
<1>2. phase = "none"
  BY <1>1 DEF WindowInv, WindowTypeOK
<1>3. dirtyViews \subseteq dirtyViews' /\ (dirty => dirty')
  BY <1>1 DEF Notified
<1> QED BY <1>1, <1>2, <1>3, NotifiedMore

\* Nothing is drawn, the frame is presented.
LEMMA PresentOnlySeen == ASSUME WindowInv, SeenInv, PresentOnly PROVE SeenInv'
<1>1. /\ at = "callbacks" /\ UNCHANGED <<phase, rendered, tracked, owed, dirty, dirtyViews>>
  BY DEF PresentOnly, invalidatorVars
<1>2. phase = "none"
  BY <1>1 DEF WindowInv, WindowTypeOK
<1> QED BY <1>1, <1>2, NotifiedMore

\* A change between two draws is asked for; one in a draw is seen by it, or the next.
LEMMA ChangeSeen == ASSUME WindowInv, SeenInv, NEW v \in Views, Change(v) PROVE SeenInv'
<1>1. /\ dirtyViews' = dirtyViews \cup ({v} \cap tracked)
      /\ dirty' = (dirty \/ (phase = "none" /\ {v} \cap tracked # {}))
      /\ owed' = [owed EXCEPT ![v] = IF phase = "none" THEN "asked"
                                     ELSE IF @ = "no" /\ v \in tracked THEN "late" ELSE @]
      /\ SameDrawing /\ phase' = phase /\ rendered' = rendered /\ tracked' = tracked
  BY DEF Change, Notified, SameDrawing, drawVars
<1>2. owed \in [Views -> {"no", "asked", "late"}]
  BY DEF WindowInv, WindowTypeOK
<1>3. CASE phase = "none"
  <2>1. \A u \in Views : owed'[u] = owed[u] \/ (u \in tracked => u \in dirtyViews' /\ dirty')
    BY <1>1, <1>2, <1>3
  <2> QED BY <1>1, <1>3, <2>1, NotifiedMore
<1>4. CASE phase # "none"
  <2>1. \A u \in Views : Unseen(u)' => Unseen(u)
    BY <1>1, <1>2, <1>4 DEF Unseen
  <2> QED BY <1>1, <1>4, <2>1, Aside
<1> QED BY <1>3, <1>4

\* The rest of what the program does notifies no view.
LEMMA NothingNotified ==
  ASSUME WindowInv, SeenInv, phase' = phase, rendered' = rendered, phase # "none" => SameDrawing,
         UNCHANGED <<tracked, dirtyViews, owed>>, dirty => dirty'
  PROVE  SeenInv'
<1>1. CASE phase = "none"
  BY <1>1, NotifiedMore
<1>2. CASE phase # "none"
  <2>1. \A u \in Views : Unseen(u)' => Unseen(u)
    BY DEF Unseen
  <2> QED BY <1>2, <2>1, Aside
<1> QED BY <1>1, <1>2

\* A view asks for an animation frame.
LEMMA RequestAnimationFrameSeen == ASSUME WindowInv, SeenInv, NEW v, RequestAnimationFrame(v) PROVE SeenInv'
BY NothingNotified DEF RequestAnimationFrame, SameDrawing, invalidatorVars, drawVars

\* The focus moves.
LEMMA FocusSeen == ASSUME WindowInv, SeenInv, NEW v, Focus(v) PROVE SeenInv'
<1>1. UNCHANGED <<phase, rendered, next, marked, accessed, todo, built, fresh, draws, tracked, dirtyViews, owed>>
  BY DEF Focus
<1>2. dirty' = (dirty \/ phase = "none") /\ refreshing' = (refreshing \/ phase = "none")
  <2>1. Refresh
    BY Zenon DEF Focus
  <2> QED BY <2>1, Zenon DEF Refresh
<1>3. dirty => dirty'
  BY <1>2, Zenon
<1>4. ASSUME phase # "none" PROVE SameDrawing
  <2>1. refreshing \in BOOLEAN
    BY DEF WindowInv, WindowTypeOK
  <2>2. refreshing' = refreshing
    BY <1>2, <1>4, <2>1, Zenon
  <2> QED BY <1>1, <2>2 DEF SameDrawing
<1> QED BY <1>1, <1>3, <1>4, NothingNotified

\* The window becomes active, or not.
LEMMA ActivateSeen == ASSUME WindowInv, SeenInv, Activate PROVE SeenInv'
<1>1. phase = "none" /\ UNCHANGED <<phase, rendered, tracked, dirtyViews, owed>>
  BY DEF Activate
<1>2. dirty' = (dirty \/ phase = "none")
  <2>1. Refresh
    BY Zenon DEF Activate
  <2> QED BY <2>1, Zenon DEF Refresh
<1>3. dirty => dirty'
  BY <1>2, Zenon
<1> QED BY <1>1, <1>3, NothingNotified

-----------------------------------------------------------------------------
(* The invariant holds, in the trees it is of.                             *)

\* Nothing was drawn when the window opens.
LEMMA SeenInit == Init => SeenInv
<1> SUFFICES ASSUME Init PROVE SeenInv
  OBVIOUS
<1>1. phase = "none" /\ rendered = NoFrame
  BY DEF Init
<1>2. FreshOK /\ MovedOK /\ CachesOK /\ DeferredOK
  BY <1>1 DEF Drawing, FreshOK, MovedOK, CachesOK, DeferredOK
<1>3. StackOK /\ PendingOK /\ EndsOK /\ DrawsOK /\ PaintsOK
  BY <1>1 DEF StackOK, PendingOK, EndsOK, DrawsOK, PaintsOK
<1>4. LastOK
  <2>1. DOMAIN rendered.states = {}
    BY <1>1 DEF NoFrame
  <2>2. WithState(rendered) = {}
    BY <2>1 DEF WithState
  <2> QED BY <2>2 DEF LastOK
<1>5. NotifiedOK
  <2>1. Shown = {}
    BY <1>1 DEF Shown, ViewsIn, NoFrame
  <2> QED BY <1>1, <2>1 DEF NotifiedOK
<1> QED BY <1>2, <1>3, <1>4, <1>5 DEF SeenInv

\* Every step keeps it,
LEMMA SeenNext == ASSUME ReadsApart, NothingCachedDeferred
PROVE WindowInv /\ SeenInv /\ [Next]_vars => SeenInv'
<1> SUFFICES ASSUME WindowInv, SeenInv, [Next]_vars PROVE SeenInv'
  OBVIOUS
<1>1. CASE FrameStep
  <2>1. CASE RunCallbacks
    BY <2>1, RunCallbacksSeen
  <2>2. CASE PresentOnly
    BY <2>2, PresentOnlySeen
  <2>3. CASE \E forced \in BOOLEAN : BeginDraw(forced)
    BY <2>3, BeginDrawSeen
  <2>4. CASE DrawStep
    <3>1. CASE \E same \in BOOLEAN : PrepaintCached(same)
      BY <3>1, PrepaintCachedSeen
    <3>2. CASE Layout \/ PrepaintReused \/ EndCached \/ BeginDeferred
      BY <3>2, LayoutSeen, PrepaintReusedSeen, EndCachedSeen, BeginDeferredSeen
    <3>3. CASE PrepaintDeferred \/ ReuseDeferred \/ EndDeferred \/ EndPrepaint
      BY <3>3, PrepaintDeferredSeen, ReuseDeferredSeen, EndDeferredSeen, EndPrepaintSeen
    <3>4. CASE PaintElement \/ EndPaint \/ PaintReused
      BY <3>4, PaintElementSeen, EndPaintSeen, PaintReusedSeen
    <3>5. CASE PaintDeferred \/ PaintDeferredAgain \/ EndPaintDeferred \/ FinishFrame \/ EndDraw
      BY <3>5, PaintDeferredSeen, PaintDeferredAgainSeen, EndPaintDeferredSeen, FinishFrameSeen, EndDrawSeen
    <3>6. CASE PrepaintElement
      <4>1. phase = "prepaint"
        BY <3>6, InPrepaint DEF PrepaintElement
      <4> QED BY <3>6, <4>1, PrepaintElementFirst, PrepaintElementSecond
    <3>7. CASE DeferDraw
      <4>1. phase = "prepaint"
        BY <3>7, InPrepaint DEF DeferDraw
      <4> QED BY <3>7, <4>1, DeferDrawFirst, DeferDrawSecond
    <3> QED BY <2>4, <3>1, <3>2, <3>3, <3>4, <3>5, <3>6, <3>7 DEF DrawStep
  <2> QED BY <1>1, <2>1, <2>2, <2>3, <2>4 DEF FrameStep
<1>2. CASE UserStep
  <2>1. Changing \subseteq Views
    BY ViewsAssumption
  <2> QED BY <1>2, <2>1, ChangeSeen, RequestAnimationFrameSeen, FocusSeen, ActivateSeen DEF UserStep
<1>3. CASE UNCHANGED vars
  BY <1>3, NothingNotified DEF vars, invalidatorVars, drawVars, focusVars, SameDrawing
<1> QED BY <1>1, <1>2, <1>3 DEF Next

\* so it always holds.
LEMMA SeenAlways == ASSUME ReadsApart, NothingCachedDeferred PROVE Spec => []SeenInv
<1>1. WindowInv /\ SeenInv /\ [Next]_vars => SeenInv'
  BY SeenNext
<1> QED BY <1>1, SeenInit, WindowAlways, PTL DEF Spec

\* A view that was notified between draws and is shown was drawn since, or will be: what is
\* reused of the last frame is of views that were not notified (dirty_views, reuse_prepaint).
THEOREM NotifiedAreDrawn == ASSUME ReadsApart, NothingCachedDeferred PROVE Spec => []NotifiedIsDrawn
<1>1. SeenInv => NotifiedIsDrawn
  <2> SUFFICES ASSUME SeenInv, Drawn, ~dirty, NEW v \in Shown PROVE owed[v] # "asked"
    BY DEF NotifiedIsDrawn
  <2>1. owed[v] # "no" => v \in dirtyViews /\ (owed[v] = "asked" => dirty)
    BY DEF SeenInv, NotifiedOK, Drawn
  <2>2. "asked" # "no"
    OBVIOUS
  <2> QED BY <2>1, <2>2
<1> QED BY <1>1, SeenAlways, PTL

\* No notification of a view that is shown gets lost: those in the middle of a draw are
\* remembered, and what the frame shows is tracked, though a cached view does not read again
\* what it shows (record_entities_accessed, extend_accessed).
THEOREM NotificationsAreKept == ASSUME ReadsApart, NothingCachedDeferred PROVE Spec => []NotificationsKept
<1>1. SeenInv => NotificationsKept
  <2> SUFFICES ASSUME SeenInv PROVE NotificationsKept
    OBVIOUS
  <2>1. LateIsRemembered
    <3> SUFFICES ASSUME phase = "none", NEW v \in Shown, owed[v] = "late" PROVE v \in dirtyViews
      BY DEF LateIsRemembered
    <3>1. owed[v] # "no" => v \in dirtyViews
      BY DEF SeenInv, NotifiedOK
    <3> QED BY <3>1
  <2>2. AllTracked
    BY DEF SeenInv, NotifiedOK, AllTracked, Drawn
  <2> QED BY <2>1, <2>2 DEF NotificationsKept
<1> QED BY <1>1, SeenAlways, PTL

==============================================================================
