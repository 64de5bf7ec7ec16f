--------------------------- MODULE AppEffectsProofs ---------------------------
(***************************************************************************)
(* Proofs about AppEffects, for any entities, observers and windows, any   *)
(* depth of calls and any length of the queue of effects.                  *)
(*                                                                         *)
(* What makes the properties inductive is the shape of the call stack:     *)
(* the loops of a flush run above it, and no update is below it.  The      *)
(* facts about the shape are stated for any stack (StackOK), so that a     *)
(* step that replaces the frame on top and calls on from there is a pop    *)
(* and one or two pushes.                                                  *)
(***************************************************************************)
EXTENDS AppEffects, FiniteSetTheorems, TLAPS

UpdateKinds == {"update", "lease", "window"}
CountedKinds == UpdateKinds \cup {"flush"}
LoopKinds == {"pass", "release"}

CountedIn(s) == {i \in DOMAIN s : s[i].kind \in CountedKinds}
Holds(s, kinds) == \E i \in DOMAIN s : s[i].kind \in kinds

Flushes(s) == Holds(s, {"flush"})

\* A stack s with the count u of updates, before or after (q) a quit.
StackOK(s, u, q) ==
  /\ s \in Seq(FrameType)
  /\ u \in Nat /\ u = Cardinality(CountedIn(s))
  /\ \A i, j \in DOMAIN s : s[i].kind = "flush" /\ s[j].kind = "flush" => i = j
  /\ \A i, j \in DOMAIN s :
       i < j /\ s[j].kind \in FlushKinds \cup {"release"} => s[i].kind \notin UpdateKinds
  /\ ~q => /\ ~Holds(s, {"shutdown"})
           /\ Holds(s, LoopKinds) => Flushes(s)
           /\ \A i, j \in DOMAIN s :
                i < j /\ s[i].kind \in LoopKinds => s[j].kind \notin FlushKinds \cup LoopKinds

\* A window that is taken out of its place is on the stack.
TakenOnStack ==
  \A w \in Windows : window[w] = "taken" =>
    \E i \in DOMAIN stack : stack[i].kind = "window" /\ stack[i].on = w

\* pending_notifications and the queue, without counting.
QueueMirrored ==
  /\ \A e \in Entities : e \in pending <=> \E i \in DOMAIN queue : queue[i] = NotifyEffect(e)
  /\ \A i, j \in DOMAIN queue : queue[i].kind = "notify" /\ queue[i] = queue[j] => i = j

\* Unseen: dropped, and not since take_dropped was empty.
Unseen == Dropped \ late

\* What was queued is flushed by an update that has not returned.
WorkAwaited == queue # <<>> \/ Unseen # {} => bare \/ updates > 0

\* A flush that saw no dropped entity missed only those dropped since.
AllSeen == looked => Unseen = {}

\* An active observer that is owed a notification has it queued, or a pass is on
\* its way to it.
DebtHeld ==
  ~quit => \A o \in Observers : debt[o] = "owed" =>
    /\ o \in active /\ target[o] # None
    /\ \/ target[o] \in pending
       \/ \E i \in DOMAIN stack :
            stack[i].kind = "pass" /\ stack[i].on = target[o] /\ o \in stack[i].todo

\* NoObserverOfReleased, by the index of the frame.
ReleasedSoon ==
  ~quit => \A o \in Observers : target[o] # None /\ life[target[o]] = "released" =>
    \E i \in DOMAIN stack : stack[i].kind = "release" /\ target[o] \in stack[i].todo

DataOK ==
  /\ queue \in Seq(Effects)
  /\ pending \subseteq Entities
  /\ life \in [Entities -> {"unborn", "alive", "dropped", "released"}]
  /\ target \in [Observers -> Entities \cup {None}]
  /\ active \subseteq Observers
  /\ window \in [Windows -> {"open", "taken", "closed"}]
  /\ removed \subseteq Windows
  /\ tracked \in [Windows -> SUBSET Entities]
  /\ quit \in BOOLEAN
  /\ looked \in BOOLEAN
  /\ bare \in BOOLEAN
  /\ late \subseteq Entities
  /\ debt \in [Observers -> {"none", "owed", "early"}]

ShapeOK ==
  /\ StackOK(stack, updates, quit)
  /\ flushing \in BOOLEAN /\ (flushing <=> Flushes(stack))

IInv ==
  /\ ShapeOK /\ DataOK
  /\ TakenOnStack /\ QueueMirrored /\ WorkAwaited /\ AllSeen /\ DebtHeld /\ ReleasedSoon

-----------------------------------------------------------------------------
(* Stacks.                                                                 *)

Beneath(s) == SubSeq(s, 1, Len(s) - 1)

\* Counting takes the indexes of a stack's frames, which are finitely many.
LEMMA CountedFinite ==
  ASSUME NEW s \in Seq(FrameType)
  PROVE  IsFiniteSet(CountedIn(s)) /\ Cardinality(CountedIn(s)) \in Nat
<1>1. CountedIn(s) \subseteq 1..Len(s)
  BY DEF CountedIn
<1>2. IsFiniteSet(1..Len(s))
  BY FS_Interval
<1> QED BY <1>1, <1>2, FS_Subset, FS_CardinalityType

\* A stack that is not empty is what is beneath its top, and the top.
LEMMA BeneathFacts ==
  ASSUME NEW s \in Seq(FrameType), s # <<>>
  PROVE  /\ Len(s) \in Nat /\ Len(s) > 0
         /\ s[Len(s)] \in FrameType
         /\ Beneath(s) \in Seq(FrameType)
         /\ Len(Beneath(s)) = Len(s) - 1
         /\ DOMAIN Beneath(s) = 1..(Len(s) - 1) /\ DOMAIN s = 1..Len(s)
         /\ \A i \in 1..(Len(s) - 1) : Beneath(s)[i] = s[i]
  BY DEF Beneath

LEMMA AppendFacts ==
  ASSUME NEW s \in Seq(FrameType), NEW f \in FrameType
  PROVE  /\ Append(s, f) \in Seq(FrameType)
         /\ Len(s) \in Nat
         /\ DOMAIN Append(s, f) = 1..(Len(s) + 1) /\ DOMAIN s = 1..Len(s)
         /\ Append(s, f)[Len(s) + 1] = f
         /\ \A i \in 1..Len(s) : Append(s, f)[i] = s[i]
  OBVIOUS

\* A frame that is pushed counts if it is an update or a flush.
LEMMA CountPushed ==
  ASSUME NEW s \in Seq(FrameType), NEW f \in FrameType
  PROVE  Cardinality(CountedIn(Append(s, f))) =
           IF f.kind \in CountedKinds THEN Cardinality(CountedIn(s)) + 1
                                      ELSE Cardinality(CountedIn(s))
<1>1. CASE f.kind \in CountedKinds
  <2>1. CountedIn(Append(s, f)) = CountedIn(s) \cup {Len(s) + 1}
    BY <1>1, AppendFacts DEF CountedIn
  <2>2. Len(s) + 1 \notin CountedIn(s)
    BY AppendFacts DEF CountedIn
  <2> QED BY <1>1, <2>1, <2>2, CountedFinite, FS_AddElement
<1>2. CASE f.kind \notin CountedKinds
  <2>1. CountedIn(Append(s, f)) = CountedIn(s)
    BY <1>2, AppendFacts DEF CountedIn
  <2> QED BY <1>2, <2>1
<1> QED BY <1>1, <1>2

LEMMA CountPopped ==
  ASSUME NEW s \in Seq(FrameType), s # <<>>
  PROVE  Cardinality(CountedIn(s)) =
           IF s[Len(s)].kind \in CountedKinds THEN Cardinality(CountedIn(Beneath(s))) + 1
                                              ELSE Cardinality(CountedIn(Beneath(s)))
<1>1. s = Append(Beneath(s), s[Len(s)])
  BY DEF Beneath
<1> QED BY <1>1, BeneathFacts, CountPushed

\* What a push leaves right.
LEMMA Pushed ==
  ASSUME NEW s, NEW u, NEW q \in BOOLEAN, StackOK(s, u, q),
         NEW f \in FrameType,
         f.kind = "flush" => ~Flushes(s),
         f.kind \in FlushKinds \cup {"release"} => ~Holds(s, UpdateKinds),
         ~q => /\ f.kind # "shutdown"
               /\ f.kind \in LoopKinds => Flushes(s)
               /\ f.kind \in FlushKinds \cup LoopKinds => ~Holds(s, LoopKinds)
  PROVE  /\ StackOK(Append(s, f), IF f.kind \in CountedKinds THEN u + 1 ELSE u, q)
         /\ Flushes(Append(s, f)) <=> Flushes(s) \/ f.kind = "flush"
<1> DEFINE t == Append(s, f)
<1>0. s \in Seq(FrameType) /\ u \in Nat
  BY DEF StackOK
<1>1. t \in Seq(FrameType)
  BY <1>0, AppendFacts
<1>2. (IF f.kind \in CountedKinds THEN u + 1 ELSE u) \in Nat
      /\ (IF f.kind \in CountedKinds THEN u + 1 ELSE u) = Cardinality(CountedIn(t))
  BY <1>0, CountPushed DEF StackOK
<1>3. Flushes(t) <=> Flushes(s) \/ f.kind = "flush"
  BY <1>0, AppendFacts DEF Flushes, Holds
<1>4. \A i, j \in DOMAIN t : t[i].kind = "flush" /\ t[j].kind = "flush" => i = j
  BY <1>0, AppendFacts DEF StackOK, Flushes, Holds
<1>5. \A i, j \in DOMAIN t :
        i < j /\ t[j].kind \in FlushKinds \cup {"release"} => t[i].kind \notin UpdateKinds
  BY <1>0, AppendFacts DEF StackOK, Holds
<1>6. ASSUME ~q
      PROVE  /\ ~Holds(t, {"shutdown"})
             /\ Holds(t, LoopKinds) => Flushes(t)
             /\ \A i, j \in DOMAIN t :
                  i < j /\ t[i].kind \in LoopKinds => t[j].kind \notin FlushKinds \cup LoopKinds
  BY <1>0, <1>6, AppendFacts DEF StackOK, Flushes, Holds
<1> QED BY <1>1, <1>2, <1>3, <1>4, <1>5, <1>6 DEF StackOK

\* What a pop leaves right.
LEMMA Popped ==
  ASSUME NEW s, NEW u, NEW q \in BOOLEAN, StackOK(s, u, q), s # <<>>
  PROVE  /\ StackOK(Beneath(s), IF s[Len(s)].kind \in CountedKinds THEN u - 1 ELSE u, q)
         /\ Flushes(Beneath(s)) <=> Flushes(s) /\ s[Len(s)].kind # "flush"
         /\ s[Len(s)].kind \in CountedKinds => u > 0
<1> DEFINE b == Beneath(s)
           k == s[Len(s)].kind
<1>0. s \in Seq(FrameType) /\ u \in Nat
  BY DEF StackOK
<1>1. /\ Len(s) \in Nat /\ Len(s) > 0
      /\ b \in Seq(FrameType)
      /\ DOMAIN b = 1..(Len(s) - 1) /\ DOMAIN s = 1..Len(s)
      /\ \A i \in 1..(Len(s) - 1) : b[i] = s[i]
  BY <1>0, BeneathFacts
<1>2. /\ (IF k \in CountedKinds THEN u - 1 ELSE u) \in Nat
      /\ (IF k \in CountedKinds THEN u - 1 ELSE u) = Cardinality(CountedIn(b))
      /\ k \in CountedKinds => u > 0
  BY <1>0, <1>1, CountPopped, CountedFinite DEF StackOK
<1> HIDE DEF b
<1>3. Flushes(b) <=> Flushes(s) /\ k # "flush"
  BY <1>0, <1>1 DEF StackOK, Flushes, Holds
<1>4. \A i, j \in DOMAIN b : b[i].kind = "flush" /\ b[j].kind = "flush" => i = j
  BY <1>0, <1>1 DEF StackOK
<1>5. \A i, j \in DOMAIN b :
        i < j /\ b[j].kind \in FlushKinds \cup {"release"} => b[i].kind \notin UpdateKinds
  BY <1>0, <1>1 DEF StackOK
<1>6. ASSUME ~q
      PROVE  /\ ~Holds(b, {"shutdown"})
             /\ Holds(b, LoopKinds) => Flushes(b)
             /\ \A i, j \in DOMAIN b :
                  i < j /\ b[i].kind \in LoopKinds => b[j].kind \notin FlushKinds \cup LoopKinds
  <2>1. ~Holds(s, {"shutdown"}) /\ (Holds(s, LoopKinds) => Flushes(s))
    BY <1>6 DEF StackOK
  <2>2. \A i, j \in DOMAIN s :
          i < j /\ s[i].kind \in LoopKinds => s[j].kind \notin FlushKinds \cup LoopKinds
    BY <1>6 DEF StackOK
  <2>3. ~Holds(b, {"shutdown"})
    BY <1>1, <2>1 DEF Holds
  <2>4. \A i, j \in DOMAIN b :
          i < j /\ b[i].kind \in LoopKinds => b[j].kind \notin FlushKinds \cup LoopKinds
    BY <1>1, <2>2
  <2>5. ASSUME Holds(b, LoopKinds) PROVE Flushes(b)
    <3>1. PICK i \in DOMAIN b : b[i].kind \in LoopKinds
      BY <2>5 DEF Holds
    <3>2. i \in DOMAIN s /\ Len(s) \in DOMAIN s /\ i < Len(s) /\ s[i].kind \in LoopKinds
      BY <1>1, <3>1
    <3>3. k # "flush"
      BY <2>2, <3>2 DEF FlushKinds
    <3>4. Flushes(s)
      BY <2>1, <3>2 DEF Holds
    <3> QED BY <1>3, <3>3, <3>4
  <2> QED BY <2>3, <2>4, <2>5
<1> USE DEF b
<1> QED BY <1>1, <1>2, <1>3, <1>4, <1>5, <1>6 DEF StackOK

\* Code of the user is called.
LEMMA UserPushed ==
  ASSUME NEW s, NEW u, NEW q \in BOOLEAN, StackOK(s, u, q),
         NEW f \in FrameType, f.kind \in UserKinds
  PROVE  /\ StackOK(Append(s, f), IF f.kind \in UpdateKinds THEN u + 1 ELSE u, q)
         /\ Flushes(Append(s, f)) <=> Flushes(s)
<1>1. f.kind \notin FlushKinds \cup LoopKinds /\ (f.kind \in CountedKinds <=> f.kind \in UpdateKinds)
  BY DEF UserKinds, FlushKinds, LoopKinds, CountedKinds, UpdateKinds
<1>2. (IF f.kind \in CountedKinds THEN u + 1 ELSE u) = (IF f.kind \in UpdateKinds THEN u + 1 ELSE u)
  BY <1>1
<1>3. /\ StackOK(Append(s, f), IF f.kind \in CountedKinds THEN u + 1 ELSE u, q)
      /\ Flushes(Append(s, f)) <=> Flushes(s) \/ f.kind = "flush"
  BY <1>1, Pushed DEF FlushKinds, LoopKinds
<1> QED BY <1>1, <1>2, <1>3 DEF FlushKinds

\* What is beneath a loop of a flush, or a flush.
LEMMA TopFlushes ==
  ASSUME NEW s, NEW u, NEW q \in BOOLEAN, StackOK(s, u, q),
         s # <<>>, s[Len(s)].kind \in FlushKinds \cup {"release"}
  PROVE  /\ ~Holds(s, UpdateKinds)
         /\ ~q => ~Holds(Beneath(s), LoopKinds)
         /\ ~q /\ s[Len(s)].kind \in FlushKinds => ~Holds(s, LoopKinds)
         /\ ~q /\ s[Len(s)].kind \in FlushKinds => s[Len(s)].kind = "flush" /\ Flushes(s)
<1>1. s \in Seq(FrameType) /\ Len(s) \in DOMAIN s /\ \A i \in DOMAIN s : i <= Len(s) /\ i \in Nat
  BY DEF StackOK
<1>2. ~Holds(s, UpdateKinds)
  BY <1>1 DEF StackOK, Holds, UpdateKinds, FlushKinds
<1>3. ASSUME ~q PROVE ~Holds(Beneath(s), LoopKinds)
  <2> DEFINE b == Beneath(s)
  <2>1. DOMAIN b = 1..(Len(s) - 1) /\ \A i \in 1..(Len(s) - 1) : b[i] = s[i]
    BY <1>1, BeneathFacts
  <2> HIDE DEF b
  <2>2. ASSUME NEW i \in DOMAIN b, b[i].kind \in LoopKinds PROVE FALSE
    <3>1. i \in DOMAIN s /\ i < Len(s) /\ s[i].kind \in LoopKinds
      BY <1>1, <2>1, <2>2 DEF StackOK
    <3>2. s[Len(s)].kind \notin FlushKinds \cup LoopKinds
      BY <1>1, <1>3, <3>1 DEF StackOK
    <3> QED BY <3>2 DEF FlushKinds, LoopKinds
  <2> QED BY <2>2 DEF b, Holds
<1>4. ASSUME ~q, s[Len(s)].kind \in FlushKinds PROVE ~Holds(s, LoopKinds)
  BY <1>1, <1>4 DEF StackOK, Holds, LoopKinds, FlushKinds
<1>5. ASSUME ~q, s[Len(s)].kind \in FlushKinds PROVE s[Len(s)].kind = "flush" /\ Flushes(s)
  BY <1>1, <1>5 DEF StackOK, Flushes, Holds, FlushKinds
<1> QED BY <1>2, <1>3, <1>4, <1>5

\* A flush releases entities or tells observers.
LEMMA LoopPushed ==
  ASSUME NEW s, NEW u, NEW q \in BOOLEAN, StackOK(s, u, q),
         s # <<>>, s[Len(s)].kind \in FlushKinds,
         NEW f \in FrameType, f.kind \in LoopKinds
  PROVE  StackOK(Append(s, f), u, q) /\ (Flushes(Append(s, f)) <=> Flushes(s))
<1>1. f.kind \notin FlushKinds /\ f.kind \notin CountedKinds
  BY DEF FlushKinds, LoopKinds, CountedKinds, UpdateKinds
<1>2. /\ StackOK(Append(s, f), IF f.kind \in CountedKinds THEN u + 1 ELSE u, q)
      /\ Flushes(Append(s, f)) <=> Flushes(s) \/ f.kind = "flush"
  BY <1>1, TopFlushes, Pushed DEF FlushKinds
<1> QED BY <1>1, <1>2 DEF FlushKinds

\* What is no update and no flush returns.
LEMMA OnePopped ==
  ASSUME NEW s, NEW u, NEW q \in BOOLEAN, StackOK(s, u, q),
         s # <<>>, s[Len(s)].kind \notin CountedKinds
  PROVE  StackOK(Beneath(s), u, q) /\ (Flushes(Beneath(s)) <=> Flushes(s))
  BY Popped DEF CountedKinds

\* An update returns.
LEMMA UpdatePopped ==
  ASSUME NEW s, NEW u, NEW q \in BOOLEAN, StackOK(s, u, q),
         s # <<>>, s[Len(s)].kind \in UpdateKinds
  PROVE  /\ StackOK(Beneath(s), u - 1, q) /\ u > 0 /\ u \in Nat
         /\ Flushes(Beneath(s)) <=> Flushes(s)
<1>1. s[Len(s)].kind # "flush" /\ s[Len(s)].kind \in CountedKinds
  BY DEF CountedKinds, UpdateKinds
<1> QED BY <1>1, Popped DEF StackOK

\* A flush ends.
LEMMA FlushPopped ==
  ASSUME NEW s, NEW u, NEW q \in BOOLEAN, StackOK(s, u, q),
         s # <<>>, s[Len(s)].kind = "flush"
  PROVE  StackOK(Beneath(s), u - 1, q) /\ ~Flushes(Beneath(s)) /\ u > 0
<1>1. s[Len(s)].kind \in CountedKinds
  BY DEF CountedKinds
<1> QED BY <1>1, Popped

\* The outermost update flushes.
LEMMA FlushPushed ==
  ASSUME NEW s, NEW q \in BOOLEAN, StackOK(s, 0, q), ~Flushes(s),
         NEW f \in FrameType, f.kind = "flush"
  PROVE  StackOK(Append(s, f), 1, q) /\ Flushes(Append(s, f))
<1>1. s \in Seq(FrameType) /\ CountedIn(s) = {}
  BY CountedFinite, FS_EmptySet DEF StackOK
<1>2. ~Holds(s, UpdateKinds)
  BY <1>1 DEF CountedIn, Holds, CountedKinds
<1>3. ~q => ~Holds(s, LoopKinds)
  BY DEF StackOK
<1>4. f.kind \in CountedKinds /\ f.kind \notin LoopKinds /\ 0 + 1 = 1
  BY DEF CountedKinds, LoopKinds
<1>5. /\ StackOK(Append(s, f), IF f.kind \in CountedKinds THEN 0 + 1 ELSE 0, q)
      /\ Flushes(Append(s, f)) <=> Flushes(s) \/ f.kind = "flush"
  BY <1>2, <1>3, <1>4, Pushed DEF FlushKinds
<1> QED BY <1>4, <1>5

\* A loop goes on: it is replaced by what it still has to visit.
LEMMA LoopSwapped ==
  ASSUME NEW s, NEW u, NEW q \in BOOLEAN, StackOK(s, u, q),
         s # <<>>, s[Len(s)].kind \in LoopKinds,
         NEW f \in FrameType, f.kind = s[Len(s)].kind
  PROVE  /\ StackOK(Append(Beneath(s), f), u, q)
         /\ Flushes(Append(Beneath(s), f)) <=> Flushes(s)
<1>1. f.kind \notin FlushKinds /\ f.kind \notin CountedKinds
  BY DEF FlushKinds, LoopKinds, CountedKinds, UpdateKinds
<1>2. StackOK(Beneath(s), u, q) /\ (Flushes(Beneath(s)) <=> Flushes(s))
  BY <1>1, OnePopped
<1>3. s \in Seq(FrameType)
  BY DEF StackOK
<1> DEFINE b == Beneath(s)
<1>a. /\ Len(s) \in Nat /\ Len(s) > 0 /\ DOMAIN s = 1..Len(s)
      /\ DOMAIN b = 1..(Len(s) - 1) /\ \A i \in 1..(Len(s) - 1) : b[i] = s[i]
  BY <1>3, BeneathFacts
<1>4. ASSUME f.kind = "release" PROVE ~Holds(b, UpdateKinds)
  <2>1. ~Holds(s, UpdateKinds)
    BY <1>4, TopFlushes
  <2> HIDE DEF b
  <2> QED BY <1>a, <2>1 DEF Holds
<1>5. ASSUME ~q PROVE Flushes(s) /\ ~Holds(b, LoopKinds)
  <2> HIDE DEF b
  <2>1. Len(s) \in DOMAIN s /\ s[Len(s)].kind \in LoopKinds
    BY <1>a
  <2>2. Flushes(s)
    BY <1>5, <2>1 DEF StackOK, Holds
  <2>3. ASSUME NEW i \in DOMAIN b, b[i].kind \in LoopKinds PROVE FALSE
    <3>1. i \in DOMAIN s /\ i < Len(s) /\ s[i].kind \in LoopKinds
      BY <1>a, <2>3
    <3> QED BY <1>5, <2>1, <3>1 DEF StackOK
  <2> QED BY <2>2, <2>3 DEF Holds
<1>6. /\ StackOK(Append(b, f), IF f.kind \in CountedKinds THEN u + 1 ELSE u, q)
      /\ Flushes(Append(b, f)) <=> Flushes(b) \/ f.kind = "flush"
  BY <1>1, <1>2, <1>4, <1>5, Pushed DEF FlushKinds
<1> QED BY <1>1, <1>2, <1>6 DEF FlushKinds

-----------------------------------------------------------------------------
(* The call stack.                                                         *)

LEMMA FrameTypes ==
  /\ \A k \in UserKinds \cup FlushKinds, on \in Entities \cup Windows \cup {None} :
       /\ Frame(k, on).kind = k /\ Frame(k, on).on = on
       /\ (k \in {"window", "draw"} => on \in Windows) => Frame(k, on) \in FrameType
  /\ \A ids \in SUBSET (Observers \cup Entities) : Release(ids) \in FrameType
       /\ Release(ids).kind = "release" /\ Release(ids).todo = ids
  /\ \A e \in Entities, obs \in SUBSET Observers :
       Pass(e, obs) \in FrameType /\ Pass(e, obs).kind = "pass" /\ Pass(e, obs).on = e
       /\ Pass(e, obs).todo = obs
  BY DEF Frame, Release, Pass, FrameType

LEMMA BelowIsBeneath == Below = Beneath(stack)
  BY DEF Below, Beneath

\* The end of an update: it flushes, or returns into another.
LEMMA Finishing ==
  ASSUME ShapeOK, quit \in BOOLEAN, TopIs(UpdateKinds), FinishUpdate, quit' = quit
  PROVE  ShapeOK' /\ updates' > 0
<1>0. stack # <<>> /\ stack[Len(stack)].kind \in UpdateKinds
  BY DEF TopIs, Top
<1>1. /\ StackOK(Below, updates - 1, quit) /\ updates > 0 /\ updates \in Nat
      /\ Flushes(Below) <=> flushing
  <2>1. StackOK(stack, updates, quit) /\ (flushing <=> Flushes(stack))
    BY DEF ShapeOK
  <2>2. /\ StackOK(Beneath(stack), updates - 1, quit) /\ updates > 0 /\ updates \in Nat
        /\ Flushes(Beneath(stack)) <=> Flushes(stack)
    BY <1>0, <2>1, UpdatePopped
  <2> QED BY <2>1, <2>2, BelowIsBeneath
<1>2. CASE ~flushing /\ updates = 1
  <2>1. flushing' = TRUE /\ stack' = Append(Below, Frame("flush", None)) /\ updates' = 1
    BY <1>2 DEF FinishUpdate
  <2>2. Frame("flush", None) \in FrameType /\ Frame("flush", None).kind = "flush"
    BY FrameTypes DEF FlushKinds
  <2>3. StackOK(Below, 0, quit)
    BY <1>1, <1>2
  <2>4. StackOK(stack', 1, quit) /\ Flushes(stack')
    BY <1>1, <1>2, <2>1, <2>2, <2>3, FlushPushed
  <2> QED BY <2>1, <2>4 DEF ShapeOK
<1>3. CASE ~(~flushing /\ updates = 1)
  <2>1. updates' = updates - 1 /\ stack' = Below /\ flushing' = flushing
    BY <1>3 DEF FinishUpdate, Pop
  <2>2. updates - 1 > 0
    <3>1. CASE flushing
      <4>1. PICK i \in DOMAIN Below : Below[i].kind = "flush"
        BY <1>1, <3>1 DEF Flushes, Holds
      <4>2. i \in CountedIn(Below)
        BY <4>1 DEF CountedIn, CountedKinds
      <4>3. Below \in Seq(FrameType) /\ updates - 1 = Cardinality(CountedIn(Below))
        BY <1>1 DEF StackOK
      <4> QED BY <1>1, <4>2, <4>3, CountedFinite, FS_EmptySet
    <3>2. CASE ~flushing
      BY <1>1, <1>3, <3>2
    <3> QED BY <3>1, <3>2
  <2> QED BY <1>1, <2>1, <2>2 DEF ShapeOK
<1> QED BY <1>2, <1>3

\* Code of the user calls, or is called.
LEMMA Calling ==
  ASSUME ShapeOK, quit \in BOOLEAN, NEW k \in UserKinds, NEW on \in Entities \cup Windows \cup {None},
         k \in {"window", "draw"} => on \in Windows, Push(Frame(k, on)),
         updates' = IF k \in UpdateKinds THEN updates + 1 ELSE updates,
         flushing' = flushing, quit' = quit
  PROVE  ShapeOK'
<1>1. Frame(k, on) \in FrameType /\ Frame(k, on).kind = k
  BY FrameTypes
<1>2. /\ StackOK(Append(stack, Frame(k, on)), IF k \in UpdateKinds THEN updates + 1 ELSE updates, quit)
      /\ Flushes(Append(stack, Frame(k, on))) <=> Flushes(stack)
  BY <1>1, UserPushed DEF ShapeOK
<1> QED BY <1>2 DEF ShapeOK, Push

\* A frame that counts for nothing returns.
LEMMA Returning ==
  ASSUME ShapeOK, quit \in BOOLEAN, TopIs({"bare", "draw", "callback", "pass", "release", "shutdown"}),
         Pop, UNCHANGED <<updates, flushing>>, quit' = quit
  PROVE  ShapeOK'
<1>1. stack # <<>> /\ stack[Len(stack)].kind \notin CountedKinds
  BY DEF TopIs, Top, CountedKinds, UpdateKinds
<1>2. StackOK(Below, updates, quit) /\ (Flushes(Below) <=> Flushes(stack))
  BY <1>1, OnePopped, BelowIsBeneath DEF ShapeOK
<1> QED BY <1>2 DEF ShapeOK, Pop

\* A loop goes on, and calls code of the user or not.
LEMMA GoingOn ==
  ASSUME ShapeOK, quit \in BOOLEAN, TopIs(LoopKinds), NEW f \in FrameType, f.kind = Top.kind,
         \/ stack' = Append(Below, f)
         \/ stack' = Append(Append(Below, f), Frame("callback", None)),
         UNCHANGED <<updates, flushing>>, quit' = quit
  PROVE  ShapeOK'
<1>1. StackOK(Append(Below, f), updates, quit) /\ (Flushes(Append(Below, f)) <=> Flushes(stack))
  BY LoopSwapped, BelowIsBeneath DEF ShapeOK, TopIs, Top
<1>2. /\ Frame("callback", None) \in FrameType /\ Frame("callback", None).kind \in UserKinds
      /\ Frame("callback", None).kind \notin UpdateKinds
  <2>1. "callback" \in UserKinds /\ "callback" \notin UpdateKinds
    BY DEF UserKinds, UpdateKinds
  <2> QED BY <2>1, FrameTypes
<1>3. /\ StackOK(Append(Append(Below, f), Frame("callback", None)), updates, quit)
      /\ Flushes(Append(Append(Below, f), Frame("callback", None))) <=> Flushes(Append(Below, f))
  BY <1>1, <1>2, UserPushed
<1> QED BY <1>1, <1>3 DEF ShapeOK

-----------------------------------------------------------------------------
(* The invariant holds at first.                                           *)

LEMMA InitInv == Init => IInv
<1> SUFFICES ASSUME Init PROVE IInv
  OBVIOUS
<1> USE DEF Init
<1>1. ShapeOK
  <2>1. CountedIn(stack) = {}
    BY DEF CountedIn
  <2>2. Cardinality(CountedIn(stack)) = 0
    BY <2>1, FS_EmptySet
  <2>3. stack \in Seq(FrameType) /\ DOMAIN stack = {}
    OBVIOUS
  <2>4. \A kinds : ~Holds(stack, kinds)
    BY <2>3 DEF Holds
  <2>5. StackOK(stack, updates, quit)
    BY <2>2, <2>3, <2>4 DEF StackOK
  <2> QED BY <2>4, <2>5 DEF ShapeOK, Flushes
<1>2. DataOK
  <2>1. queue \in Seq(Effects)
    OBVIOUS
  <2> QED BY <2>1 DEF DataOK
<1>3. TakenOnStack /\ QueueMirrored /\ WorkAwaited /\ AllSeen /\ DebtHeld /\ ReleasedSoon
  BY DEF TakenOnStack, QueueMirrored, WorkAwaited, AllSeen, Unseen, DebtHeld, ReleasedSoon, Dropped
<1> QED BY <1>1, <1>2, <1>3 DEF IInv

-----------------------------------------------------------------------------
(* The shape of the stack.                                                 *)

\* The calls and returns of user code.
LEMMA ShapeUser ==
  ASSUME IInv,
         \/ StartBare \/ EndBare \/ StartUpdate \/ EndUpdate \/ EndWindow \/ EndCallback
         \/ BeginDraw
         \/ \E e \in Entities : UpdateEntity(e)
         \/ \E w \in Windows : UpdateWindow(w)
         \/ \E ents \in SUBSET Entities : EndDraw(ents)
  PROVE  ShapeOK'
<1>0. ShapeOK /\ quit \in BOOLEAN
  BY DEF IInv, DataOK
<1> USE DEF endVars, lookVars
<1>1. CASE StartBare
  BY <1>0, <1>1, Calling DEF StartBare, UserKinds, UpdateKinds
<1>2. CASE EndBare
  BY <1>0, <1>2, Returning DEF EndBare, TopIs
<1>3. CASE StartUpdate
  BY <1>0, <1>3, Calling DEF StartUpdate, UserKinds, UpdateKinds
<1>4. CASE EndUpdate
  <2>1. TopIs(UpdateKinds) /\ FinishUpdate /\ quit' = quit
    BY <1>4 DEF EndUpdate, TopIs, UpdateKinds
  <2> QED BY <1>0, <2>1, Finishing
<1>5. CASE EndWindow
  <2>0. TopIs(UpdateKinds) /\ quit' = quit
    BY <1>5 DEF EndWindow, TopIs, UpdateKinds
  <2>1. CASE FinishUpdate
    BY <1>0, <2>0, <2>1, Finishing
  <2>2. CASE stack' = Append(Below, Frame("update", None)) /\ UNCHANGED <<updates, flushing>>
    <3>1. StackOK(stack, updates, quit) /\ (flushing <=> Flushes(stack))
          /\ stack # <<>> /\ stack[Len(stack)].kind \in UpdateKinds
      BY <1>0, <2>0 DEF ShapeOK, TopIs, Top
    <3>2. /\ StackOK(Below, updates - 1, quit) /\ updates \in Nat
          /\ Flushes(Below) <=> Flushes(stack)
      BY <1>0, <3>1, UpdatePopped, BelowIsBeneath
    <3>3. Frame("update", None) \in FrameType /\ Frame("update", None).kind = "update"
          /\ "update" \in UserKinds /\ "update" \in UpdateKinds
      BY FrameTypes DEF UserKinds, UpdateKinds
    <3>4. /\ StackOK(stack', (updates - 1) + 1, quit)
          /\ Flushes(stack') <=> Flushes(Below)
      BY <1>0, <2>2, <3>2, <3>3, UserPushed
    <3>5. (updates - 1) + 1 = updates
      BY <3>2
    <3>6. StackOK(stack', updates', quit')
      BY <2>0, <2>2, <3>4, <3>5
    <3>7. flushing' \in BOOLEAN /\ (flushing' <=> Flushes(stack'))
      BY <1>0, <2>2, <3>1, <3>2, <3>4 DEF ShapeOK
    <3> QED BY <3>6, <3>7 DEF ShapeOK
  <2> QED BY <1>5, <2>1, <2>2 DEF EndWindow
<1>6. CASE EndCallback
  BY <1>0, <1>6, Returning DEF EndCallback, TopIs
<1>7. CASE BeginDraw
  <2>1. Top.on \in Windows
    <3>1. stack \in Seq(FrameType) /\ stack # <<>> /\ Top.kind = "window"
      BY <1>0, <1>7 DEF ShapeOK, StackOK, BeginDraw, TopIs
    <3>2. Top \in FrameType
      BY <3>1 DEF Top
    <3> QED BY <3>1, <3>2 DEF FrameType
  <2> QED BY <1>0, <1>7, <2>1, Calling DEF BeginDraw, UserKinds, UpdateKinds
<1>8. ASSUME NEW e \in Entities, UpdateEntity(e) PROVE ShapeOK'
  BY <1>0, <1>8, Calling DEF UpdateEntity, UserKinds, UpdateKinds
<1>9. ASSUME NEW w \in Windows, UpdateWindow(w) PROVE ShapeOK'
  BY <1>0, <1>9, Calling DEF UpdateWindow, UserKinds, UpdateKinds
<1>10. ASSUME NEW ents \in SUBSET Entities, EndDraw(ents) PROVE ShapeOK'
  BY <1>0, <1>10, Returning DEF EndDraw, TopIs
<1> QED BY <1>1, <1>2, <1>3, <1>4, <1>5, <1>6, <1>7, <1>8, <1>9, <1>10

\* What a flush does.
LEMMA ShapeFlush ==
  ASSUME IInv,
         \/ TakeDropped \/ EndRelease \/ ApplyNotify \/ EndPass \/ EndFlush \/ Shutdown
         \/ \E observed \in BOOLEAN : ApplyCreated(observed)
         \/ \E e \in Entities, listened \in BOOLEAN : ReleaseEntity(e, listened)
         \/ \E o \in Observers : VisitObserver(o)
  PROVE  ShapeOK'
<1>0. ShapeOK /\ quit \in BOOLEAN /\ StackOK(stack, updates, quit)
      /\ flushing \in BOOLEAN /\ (flushing <=> Flushes(stack)) /\ queue \in Seq(Effects)
      /\ stack \in Seq(FrameType)
  BY DEF IInv, DataOK, ShapeOK, StackOK
<1> USE DEF endVars, lookVars
<1>t. ASSUME stack # <<>> PROVE Top \in FrameType
  BY <1>0, <1>t DEF Top
<1>l. ASSUME NEW f \in FrameType, f.kind \in LoopKinds, TopIs(FlushKinds), Push(f),
             UNCHANGED <<updates, flushing, quit>>
      PROVE  ShapeOK'
  <2>1. stack # <<>> /\ stack[Len(stack)].kind \in FlushKinds
    BY <1>l DEF TopIs, Top
  <2>2. StackOK(Append(stack, f), updates, quit) /\ (Flushes(Append(stack, f)) <=> Flushes(stack))
    BY <1>0, <1>l, <2>1, LoopPushed
  <2> QED BY <1>0, <1>l, <2>2 DEF ShapeOK, Push
<1>1. CASE TakeDropped
  <2>1. Release(Dropped) \in FrameType /\ Release(Dropped).kind \in LoopKinds
    BY FrameTypes DEF Dropped, LoopKinds
  <2> QED BY <1>1, <1>l, <2>1 DEF TakeDropped
<1>2. CASE EndRelease
  BY <1>0, <1>2, Returning DEF EndRelease, TopIs
<1>3. CASE ApplyNotify
  <2> DEFINE e == Head(queue).of
  <2>1. TopIs(FlushKinds) /\ UNCHANGED <<updates, flushing, quit>>
    BY <1>3 DEF ApplyNotify, Applies
  <2>2. CASE UNCHANGED stack
    BY <1>0, <2>1, <2>2 DEF ShapeOK
  <2>3. CASE Push(Pass(e, InMap(e)))
    <3>1. Head(queue) \in Effects /\ Head(queue).kind = "notify"
      BY <1>0, <1>3 DEF ApplyNotify, Applies
    <3>2. e \in Entities
      BY <3>1 DEF Effects, NotifyEffect, ActivateEffect, CreatedEffect
    <3>3. InMap(e) \in SUBSET Observers
      BY DEF InMap
    <3>4. Pass(e, InMap(e)) \in FrameType /\ Pass(e, InMap(e)).kind \in LoopKinds
      BY <3>2, <3>3, FrameTypes DEF LoopKinds
    <3> QED BY <1>l, <2>1, <2>3, <3>4
  <2> QED BY <1>3, <2>2, <2>3 DEF ApplyNotify
<1>4. CASE EndPass
  BY <1>0, <1>4, Returning DEF EndPass, TopIs
<1>5. CASE EndFlush
  <2>1. stack # <<>> /\ quit' = quit /\ stack' = Below
    BY <1>5 DEF EndFlush, TopIs, Pop
  <2>2. CASE Top.kind = "flush"
    <3>1. StackOK(Below, updates - 1, quit) /\ ~Flushes(Below)
      BY <1>0, <2>1, <2>2, FlushPopped, BelowIsBeneath DEF Top
    <3>2. flushing' = FALSE /\ updates' = updates - 1
      BY <1>5, <2>2 DEF EndFlush
    <3> QED BY <2>1, <3>1, <3>2 DEF ShapeOK
  <2>3. CASE Top.kind # "flush"
    <3>1. TopIs({"shutdown"}) /\ Pop /\ UNCHANGED <<updates, flushing>>
      BY <1>5, <2>3 DEF EndFlush, TopIs, FlushKinds
    <3> QED BY <1>0, <2>1, <3>1, Returning DEF TopIs
  <2> QED BY <2>2, <2>3
<1>6. CASE Shutdown
  <2> DEFINE f == Frame("shutdown", None)
  <2>1. f \in FrameType /\ f.kind = "shutdown"
    BY FrameTypes DEF FlushKinds
  <2>2. \A kinds : ~Holds(stack, kinds)
    BY <1>6 DEF Shutdown, Holds
  <2>3. StackOK(stack, updates, TRUE)
    BY <1>0 DEF StackOK
  <2> HIDE DEF f
  <2>4. /\ StackOK(Append(stack, f), IF f.kind \in CountedKinds THEN updates + 1 ELSE updates, TRUE)
        /\ Flushes(Append(stack, f)) <=> Flushes(stack) \/ f.kind = "flush"
    BY <2>1, <2>2, <2>3, Pushed
  <2>5. f.kind \notin CountedKinds /\ f.kind # "flush"
    BY <2>1 DEF CountedKinds, UpdateKinds
  <2>6. stack' = Append(stack, f) /\ UNCHANGED <<updates, flushing>> /\ quit' = TRUE
    BY <1>6 DEF Shutdown, Push, f
  <2> QED BY <1>0, <2>4, <2>5, <2>6 DEF ShapeOK
<1>7. ASSUME NEW observed \in BOOLEAN, ApplyCreated(observed) PROVE ShapeOK'
  <2>1. quit' = quit /\ flushing' = flushing
    BY <1>7 DEF ApplyCreated, Applies
  <2>2. CASE UNCHANGED <<stack, updates>>
    BY <1>0, <2>1, <2>2 DEF ShapeOK
  <2>3. CASE Push(Frame("callback", None)) /\ UNCHANGED updates
    BY <1>0, <2>1, <2>3, Calling DEF UserKinds, UpdateKinds
  <2>4. CASE Head(queue).win # None /\ Push(Frame("window", Head(queue).win)) /\ updates' = updates + 1
    <3>1. Head(queue) \in Effects /\ Head(queue).kind = "created"
      BY <1>0, <1>7 DEF ApplyCreated, Applies
    <3>2. Head(queue).win \in Windows \cup {None}
      BY <3>1 DEF Effects, NotifyEffect, ActivateEffect, CreatedEffect
    <3> QED BY <1>0, <2>1, <2>4, <3>2, Calling DEF UserKinds, UpdateKinds
  <2> QED BY <1>7, <2>2, <2>3, <2>4 DEF ApplyCreated
<1>8. ASSUME NEW e \in Entities, NEW listened \in BOOLEAN, ReleaseEntity(e, listened)
      PROVE  ShapeOK'
  <2> DEFINE f == Release(Top.todo \ {e})
  <2>1. TopIs(LoopKinds) /\ Top.kind = "release" /\ UNCHANGED <<updates, flushing, quit>>
    BY <1>8 DEF ReleaseEntity, TopIs, LoopKinds
  <2>2. Top \in FrameType
    BY <1>t, <2>1 DEF TopIs
  <2>3. Top.todo \ {e} \in SUBSET (Observers \cup Entities)
    BY <2>2 DEF FrameType
  <2>4. f \in FrameType /\ f.kind = Top.kind
    BY <2>1, <2>3, FrameTypes
  <2>5. stack' = Append(Below, f) \/ stack' = Append(Append(Below, f), Frame("callback", None))
    BY <1>8 DEF ReleaseEntity
  <2> QED BY <1>0, <2>1, <2>4, <2>5, GoingOn
<1>9. ASSUME NEW o \in Observers, VisitObserver(o) PROVE ShapeOK'
  <2> DEFINE f == [Top EXCEPT !.todo = @ \ {o}]
  <2>1. TopIs(LoopKinds) /\ UNCHANGED <<updates, flushing, quit>>
    BY <1>9 DEF VisitObserver, TopIs, LoopKinds
  <2>2. Top \in FrameType
    BY <1>t, <2>1 DEF TopIs
  <2>3. f \in FrameType /\ f.kind = Top.kind
    BY <2>2 DEF FrameType
  <2>4. stack' = Append(Below, f) \/ stack' = Append(Append(Below, f), Frame("callback", None))
    BY <1>9 DEF VisitObserver
  <2> QED BY <1>0, <2>1, <2>3, <2>4, GoingOn
<1> QED BY <1>1, <1>2, <1>3, <1>4, <1>5, <1>6, <1>7, <1>8, <1>9

\* The cases of a step.
LEMMA ShapeNext == IInv /\ [Next]_vars => ShapeOK'
<1> SUFFICES ASSUME IInv, [Next]_vars PROVE ShapeOK'
  OBVIOUS
<1>0. ShapeOK
  BY DEF IInv
<1>1. CASE UNCHANGED <<stack, updates, flushing, quit>>
  BY <1>0, <1>1 DEF ShapeOK
<1>2. CASE UNCHANGED vars
  BY <1>1, <1>2 DEF vars
<1>3. ASSUME NEW e \in Entities, NewEntity(e) \/ Notify(e) \/ DropEntity(e) PROVE ShapeOK'
  BY <1>1, <1>3 DEF NewEntity, Notify, DropEntity
<1>4. ASSUME NEW e \in Entities, NEW o \in Observers, Observe(o, e) PROVE ShapeOK'
  BY <1>1, <1>4 DEF Observe
<1>5. CASE RemoveWindow
  BY <1>1, <1>5 DEF RemoveWindow, endVars
<1>6. CASE ApplyActivate
  BY <1>1, <1>6 DEF ApplyActivate, Applies
<1>7. CASE FindNothingDropped
  BY <1>1, <1>7 DEF FindNothingDropped
<1> QED BY <1>2, <1>3, <1>4, <1>5, <1>6, <1>7, ShapeUser, ShapeFlush DEF Next

-----------------------------------------------------------------------------
(* What a step leaves on the stack.                                        *)

\* A push leaves every frame.
LEMMA PushKeeps ==
  ASSUME NEW s \in Seq(FrameType), NEW f, NEW i \in DOMAIN s
  PROVE  i \in DOMAIN Append(s, f) /\ Append(s, f)[i] = s[i]
  OBVIOUS

\* A step that takes the top off, and maybe puts one or two frames in its place,
\* leaves the frames beneath.
LEMMA PopKeeps ==
  ASSUME NEW s \in Seq(FrameType), NEW i \in DOMAIN s, i # Len(s)
  PROVE  /\ i \in DOMAIN Beneath(s) /\ Beneath(s)[i] = s[i]
         /\ \A f : i \in DOMAIN Append(Beneath(s), f) /\ Append(Beneath(s), f)[i] = s[i]
         /\ \A f, g : /\ i \in DOMAIN Append(Append(Beneath(s), f), g)
                      /\ Append(Append(Beneath(s), f), g)[i] = s[i]
<1>1. s # <<>> /\ i \in 1..(Len(s) - 1)
  OBVIOUS
<1>2. Beneath(s) \in Seq(FrameType) /\ i \in DOMAIN Beneath(s) /\ Beneath(s)[i] = s[i]
  BY <1>1, BeneathFacts
<1> DEFINE b == Beneath(s)
<1> HIDE DEF b
<1>3. ASSUME NEW f PROVE i \in DOMAIN Append(b, f) /\ Append(b, f)[i] = s[i]
  BY <1>2, PushKeeps DEF b
<1>4. ASSUME NEW f, NEW g
      PROVE  i \in DOMAIN Append(Append(b, f), g) /\ Append(Append(b, f), g)[i] = s[i]
  BY <1>2 DEF b
<1> QED BY <1>2, <1>3, <1>4 DEF b

Stays(i) == i \in DOMAIN stack' /\ stack'[i] = stack[i]

\* Every step leaves the frames beneath the top, and only the end of an update of a
\* window and the loops' own steps change the top if it is one of theirs.
LEMMA FramesStay ==
  ASSUME IInv, [Next]_vars, NEW i \in DOMAIN stack,
         \/ i # Len(stack)
         \/ /\ stack[i].kind \in {"window", "pass", "release"}
            /\ ~EndWindow /\ ~EndRelease /\ ~EndPass
            /\ \A o \in Observers : ~VisitObserver(o)
            /\ \A e \in Entities, listened \in BOOLEAN : ~ReleaseEntity(e, listened)
  PROVE  Stays(i)
<1>0. stack \in Seq(FrameType) /\ Below = Beneath(stack)
  BY BelowIsBeneath DEF IInv, ShapeOK, StackOK
<1>p. ASSUME NEW f, stack' = Append(stack, f) PROVE Stays(i)
  BY <1>0, <1>p, PushKeeps DEF Stays
<1>u. CASE UNCHANGED stack
  BY <1>u DEF Stays
<1>b. ASSUME i # Len(stack),
             \/ Pop
             \/ \E f : stack' = Append(Below, f)
             \/ \E f, g : stack' = Append(Append(Below, f), g)
      PROVE  Stays(i)
  <2>1. CASE Pop
    BY <1>0, <1>b, <2>1, PopKeeps DEF Stays, Pop
  <2>2. CASE \E f : stack' = Append(Below, f)
    BY <1>0, <1>b, <2>2, PopKeeps DEF Stays
  <2>3. CASE \E f, g : stack' = Append(Append(Below, f), g)
    BY <1>0, <1>b, <2>3, PopKeeps DEF Stays
  <2> QED BY <1>b, <2>1, <2>2, <2>3
<1>k. ASSUME stack[i].kind \in {"window", "pass", "release"},
             TopIs({"bare", "draw", "callback", "update", "lease", "flush", "shutdown"})
      PROVE  i # Len(stack)
  BY <1>k DEF TopIs, Top
<1>1. CASE StartBare \/ StartUpdate \/ BeginDraw \/ Shutdown \/ TakeDropped
  BY <1>1, <1>p DEF StartBare, StartUpdate, BeginDraw, Shutdown, TakeDropped, Push
<1>2. ASSUME NEW e \in Entities, UpdateEntity(e) PROVE Stays(i)
  BY <1>2, <1>p DEF UpdateEntity, Push
<1>3. ASSUME NEW w \in Windows, UpdateWindow(w) PROVE Stays(i)
  BY <1>3, <1>p DEF UpdateWindow, Push
<1>4. CASE EndBare \/ EndCallback
  <2>1. i # Len(stack)
    BY <1>4, <1>k DEF EndBare, EndCallback, TopIs
  <2> QED BY <1>4, <1>b, <2>1 DEF EndBare, EndCallback
<1>5. ASSUME FinishUpdate, i # Len(stack) PROVE Stays(i)
  BY <1>5, <1>b DEF FinishUpdate
<1>6. CASE EndUpdate
  <2>1. i # Len(stack)
    BY <1>6, <1>k DEF EndUpdate, TopIs
  <2> QED BY <1>6, <1>5, <2>1 DEF EndUpdate
<1>7. CASE EndWindow
  <2>1. i # Len(stack)
    BY <1>7
  <2> QED BY <1>7, <1>5, <1>b, <2>1 DEF EndWindow
<1>8. ASSUME NEW ents, EndDraw(ents) PROVE Stays(i)
  <2>1. i # Len(stack)
    BY <1>8, <1>k DEF EndDraw, TopIs
  <2> QED BY <1>8, <1>b, <2>1 DEF EndDraw
<1>9. CASE EndRelease \/ EndPass
  BY <1>9, <1>b DEF EndRelease, EndPass
<1>10. ASSUME NEW e \in Entities, NEW listened \in BOOLEAN, ReleaseEntity(e, listened)
       PROVE  Stays(i)
  <2>1. i # Len(stack)
    BY <1>10
  <2> QED BY <1>10, <1>b, <2>1 DEF ReleaseEntity
<1>11. ASSUME NEW o \in Observers, VisitObserver(o) PROVE Stays(i)
  <2>1. i # Len(stack)
    BY <1>11
  <2> QED BY <1>11, <1>b, <2>1 DEF VisitObserver
<1>12. CASE ApplyNotify
  BY <1>12, <1>p, <1>u DEF ApplyNotify, Push
<1>13. ASSUME NEW observed \in BOOLEAN, ApplyCreated(observed) PROVE Stays(i)
  BY <1>13, <1>p, <1>u DEF ApplyCreated, Push
<1>14. CASE EndFlush
  <2>1. i # Len(stack)
    BY <1>14, <1>k DEF EndFlush, TopIs, FlushKinds
  <2> QED BY <1>14, <1>b, <2>1 DEF EndFlush
<1>15. CASE ApplyActivate \/ RemoveWindow \/ FindNothingDropped \/ UNCHANGED vars
  BY <1>15, <1>u DEF ApplyActivate, RemoveWindow, FindNothingDropped, vars
<1>16. ASSUME NEW e \in Entities, NewEntity(e) \/ Notify(e) \/ DropEntity(e) PROVE Stays(i)
  BY <1>16, <1>u DEF NewEntity, Notify, DropEntity
<1>17. ASSUME NEW e \in Entities, NEW o \in Observers, Observe(o, e) PROVE Stays(i)
  BY <1>17, <1>u DEF Observe
<1> QED BY <1>1, <1>2, <1>3, <1>4, <1>6, <1>7, <1>8, <1>9, <1>10, <1>11, <1>12, <1>13,
           <1>14, <1>15, <1>16, <1>17 DEF Next

-----------------------------------------------------------------------------
(* Data.                                                                   *)

LEMMA EffectTypes ==
  /\ \A e \in Entities : NotifyEffect(e) \in Effects /\ NotifyEffect(e).kind = "notify"
                         /\ NotifyEffect(e).of = e
  /\ \A o \in Observers : ActivateEffect(o) \in Effects /\ ActivateEffect(o).kind = "activate"
  /\ \A e \in Entities, w \in Windows \cup {None} :
       CreatedEffect(e, w) \in Effects /\ CreatedEffect(e, w).kind = "created"
  /\ \A f \in Effects : f.kind = "notify" => f.of \in Entities /\ f = NotifyEffect(f.of)
  /\ \A f \in Effects : f.kind = "activate" => f.of \in Observers
  /\ \A f \in Effects : f.kind = "created" => f.win \in Windows \cup {None}
<1>1. \A e \in Entities : NotifyEffect(e) \in Effects /\ NotifyEffect(e).kind = "notify"
                          /\ NotifyEffect(e).of = e
  BY DEF Effects, NotifyEffect
<1>2. \A o \in Observers : ActivateEffect(o) \in Effects /\ ActivateEffect(o).kind = "activate"
                           /\ ActivateEffect(o).of = o
  BY DEF Effects, ActivateEffect
<1>3. \A e \in Entities, w \in Windows \cup {None} :
        CreatedEffect(e, w) \in Effects /\ CreatedEffect(e, w).kind = "created"
        /\ CreatedEffect(e, w).win = w
  BY DEF Effects, CreatedEffect
<1>4. ASSUME NEW f \in Effects
      PROVE  \/ \E e \in Entities : f = NotifyEffect(e)
             \/ \E o \in Observers : f = ActivateEffect(o)
             \/ \E e \in Entities, w \in Windows \cup {None} : f = CreatedEffect(e, w)
  <2>1. CASE f \in {NotifyEffect(e) : e \in Entities}
    BY <2>1
  <2>2. CASE f \in {ActivateEffect(o) : o \in Observers}
    BY <2>2
  <2>3. CASE f \in {CreatedEffect(e, w) : e \in Entities, w \in Windows \cup {None}}
    BY <2>3
  <2> QED BY <2>1, <2>2, <2>3 DEF Effects
<1> QED BY <1>1, <1>2, <1>3, <1>4

LEMMA TopTyped ==
  ASSUME IInv, stack # <<>>
  PROVE  Top \in FrameType /\ Len(stack) \in DOMAIN stack /\ Top = stack[Len(stack)]
  BY DEF IInv, ShapeOK, StackOK, Top

LEMMA DataNext == IInv /\ [Next]_vars => DataOK'
<1> SUFFICES ASSUME IInv, [Next]_vars PROVE DataOK'
  OBVIOUS
<1>0. DataOK
  BY DEF IInv
<1> USE <1>0 DEF DataOK, observerVars, windowVars, endVars, lookVars, BareNow
<1>p. ASSUME NEW f \in Effects, PushEffect(f) PROVE queue' \in Seq(Effects) /\ bare' \in BOOLEAN
  BY <1>p DEF PushEffect
<1>a. ASSUME NEW k, Applies(k)
      PROVE  /\ queue' \in Seq(Effects) /\ Head(queue) \in Effects /\ Head(queue).kind = k
             /\ looked' = FALSE /\ UNCHANGED <<quit, bare, late>>
  BY <1>a DEF Applies
<1>1. CASE \/ StartBare \/ EndBare \/ StartUpdate \/ EndUpdate \/ EndCallback
           \/ BeginDraw \/ EndRelease \/ EndPass \/ EndFlush \/ FindNothingDropped
           \/ UNCHANGED vars
  BY <1>1 DEF StartBare, EndBare, StartUpdate, EndUpdate, EndCallback, BeginDraw,
     EndRelease, EndPass, EndFlush, FindNothingDropped, vars
<1>2. CASE RemoveWindow
  <2>1. Top.on \in Windows
    BY <1>2, TopTyped DEF RemoveWindow, TopIs, FrameType
  <2> QED BY <1>2, <2>1 DEF RemoveWindow
<1>3. ASSUME NEW e \in Entities, UpdateEntity(e) PROVE DataOK'
  BY <1>3 DEF UpdateEntity
<1>4. ASSUME NEW w \in Windows, UpdateWindow(w) PROVE DataOK'
  BY <1>4 DEF UpdateWindow
<1>5. CASE EndWindow
  BY <1>5 DEF EndWindow
<1>6. ASSUME NEW e \in Entities, NewEntity(e) PROVE DataOK'
  <2>1. queue' \in Seq(Effects) /\ bare' \in BOOLEAN
    BY <1>6, <1>p, EffectTypes DEF NewEntity
  <2> QED BY <1>6, <2>1 DEF NewEntity
<1>7. ASSUME NEW e \in Entities, NEW o \in Observers, Observe(o, e) PROVE DataOK'
  <2>1. queue' \in Seq(Effects) /\ bare' \in BOOLEAN
    BY <1>7, <1>p, EffectTypes DEF Observe
  <2> QED BY <1>7, <2>1 DEF Observe
<1>8. ASSUME NEW e \in Entities, Notify(e) PROVE DataOK'
  <2>1. queue' \in Seq(Effects) /\ bare' \in BOOLEAN /\ pending' \subseteq Entities
    BY <1>8, <1>p, EffectTypes DEF Notify
  <2>2. debt' \in [Observers -> {"none", "owed", "early"}]
    BY <1>8 DEF Notify, DebtAfter
  <2> QED BY <1>8, <2>1, <2>2 DEF Notify
<1>9. ASSUME NEW e \in Entities, DropEntity(e) PROVE DataOK'
  BY <1>9 DEF DropEntity
<1>10. ASSUME NEW ents \in SUBSET Entities, EndDraw(ents) PROVE DataOK'
  BY <1>10 DEF EndDraw
<1>11. CASE TakeDropped
  BY <1>11 DEF TakeDropped
<1>12. ASSUME NEW e \in Entities, NEW listened \in BOOLEAN, ReleaseEntity(e, listened)
       PROVE  DataOK'
  BY <1>12 DEF ReleaseEntity
<1>13. CASE ApplyNotify
  BY <1>13, <1>a DEF ApplyNotify
<1>14. CASE ApplyActivate
  <2>1. /\ Head(queue) \in Effects /\ Head(queue).kind = "activate"
        /\ queue' \in Seq(Effects) /\ looked' = FALSE /\ UNCHANGED <<quit, bare, late>>
    BY <1>14, <1>a DEF ApplyActivate
  <2>2. Head(queue).of \in Observers
    BY <2>1, EffectTypes
  <2> QED BY <1>14, <2>1, <2>2 DEF ApplyActivate
<1>15. ASSUME NEW observed \in BOOLEAN, ApplyCreated(observed) PROVE DataOK'
  BY <1>15, <1>a DEF ApplyCreated
<1>16. ASSUME NEW o \in Observers, VisitObserver(o) PROVE DataOK'
  BY <1>16 DEF VisitObserver
<1>17. CASE Shutdown
  BY <1>17 DEF Shutdown
<1> QED BY <1>1, <1>2, <1>3, <1>4, <1>5, <1>6, <1>7, <1>8, <1>9, <1>10, <1>11, <1>12,
           <1>13, <1>14, <1>15, <1>16, <1>17 DEF Next

-----------------------------------------------------------------------------
(* The rest of the invariant.                                              *)

LEMMA TakenNext == IInv /\ [Next]_vars => TakenOnStack'
<1> SUFFICES ASSUME IInv, [Next]_vars,
                    NEW w \in Windows, window'[w] = "taken"
             PROVE  \E i \in DOMAIN stack' : stack'[i].kind = "window" /\ stack'[i].on = w
  BY DEF TakenOnStack
<1>0. /\ window \in [Windows -> {"open", "taken", "closed"}] /\ stack \in Seq(FrameType)
      /\ queue \in Seq(Effects)
  BY DEF IInv, DataOK, ShapeOK, StackOK
<1>p. ASSUME Push(Frame("window", w))
      PROVE  \E i \in DOMAIN stack' : stack'[i].kind = "window" /\ stack'[i].on = w
  <2> DEFINE f == Frame("window", w)
  <2>1. f \in FrameType /\ f.kind = "window" /\ f.on = w
    BY FrameTypes DEF UserKinds
  <2> HIDE DEF f
  <2>2. Len(stack) + 1 \in DOMAIN stack' /\ stack'[Len(stack) + 1] = f
    BY <1>0, <1>p, <2>1, AppendFacts DEF Push, f
  <2> QED BY <2>1, <2>2
<1>1. CASE EndWindow
  <2>1. window[w] = "taken" /\ w # Top.on
    BY <1>0, <1>1 DEF EndWindow
  <2>2. PICK i \in DOMAIN stack : stack[i].kind = "window" /\ stack[i].on = w
    BY <2>1 DEF IInv, TakenOnStack
  <2>3. i # Len(stack)
    BY <2>1, <2>2 DEF Top
  <2> QED BY <2>2, <2>3, FramesStay DEF Stays
<1>2. ASSUME ~EndWindow, window[w] = "taken"
      PROVE  \E i \in DOMAIN stack' : stack'[i].kind = "window" /\ stack'[i].on = w
  <2>1. PICK i \in DOMAIN stack : stack[i].kind = "window" /\ stack[i].on = w
    BY <1>2 DEF IInv, TakenOnStack
  <2>2. i # Len(stack) \/ TopIs({"window"})
    BY <2>1 DEF TopIs, Top
  <2>3. TopIs({"window"}) => /\ ~EndRelease /\ ~EndPass /\ \A o \in Observers : ~VisitObserver(o)
                             /\ \A e \in Entities, listened \in BOOLEAN : ~ReleaseEntity(e, listened)
    BY DEF TopIs, EndRelease, EndPass, VisitObserver, ReleaseEntity
  <2>4. Stays(i)
    BY <1>2, <2>1, <2>2, <2>3, FramesStay
  <2> QED BY <2>1, <2>4 DEF Stays
<1>3. ASSUME NEW v \in Windows, UpdateWindow(v), window[w] # "taken"
      PROVE  \E i \in DOMAIN stack' : stack'[i].kind = "window" /\ stack'[i].on = w
  <2>1. v = w
    BY <1>0, <1>3 DEF UpdateWindow
  <2> QED BY <1>3, <1>p, <2>1 DEF UpdateWindow
<1>4. ASSUME NEW observed \in BOOLEAN, ApplyCreated(observed), window[w] # "taken"
      PROVE  \E i \in DOMAIN stack' : stack'[i].kind = "window" /\ stack'[i].on = w
  <2>1. Head(queue).win = w /\ Push(Frame("window", Head(queue).win))
    BY <1>0, <1>4 DEF ApplyCreated
  <2> QED BY <1>p, <2>1
<1>5. ASSUME ~EndWindow, window[w] # "taken",
             \A v \in Windows : ~UpdateWindow(v),
             \A observed \in BOOLEAN : ~ApplyCreated(observed)
      PROVE  FALSE
  <2> USE DEF windowVars
  <2>1. CASE UNCHANGED window
    BY <1>5, <2>1
  <2>2. CASE Shutdown
    BY <2>2 DEF Shutdown
  <2> QED BY <1>5, <2>1, <2>2 DEF Next, vars, StartBare, EndBare, StartUpdate, EndUpdate,
        EndCallback, UpdateEntity, NewEntity, Notify, DropEntity, Observe, ReleaseEntity,
        RemoveWindow, BeginDraw, EndDraw, TakeDropped, EndRelease, ApplyNotify, ApplyActivate,
        VisitObserver, EndPass, EndFlush, FindNothingDropped
<1> QED BY <1>1, <1>2, <1>3, <1>4, <1>5

\* A queue of effects mirrors the set p of the entities with a notification in it.
Mirrors(q, p) ==
  /\ \A e \in Entities : e \in p <=> \E i \in DOMAIN q : q[i] = NotifyEffect(e)
  /\ \A i, j \in DOMAIN q : q[i].kind = "notify" /\ q[i] = q[j] => i = j

LEMMA MirrorNext == IInv /\ [Next]_vars => QueueMirrored'
<1> SUFFICES ASSUME IInv, [Next]_vars PROVE QueueMirrored'
  OBVIOUS
<1>0. queue \in Seq(Effects) /\ Mirrors(queue, pending)
  BY DEF IInv, DataOK, QueueMirrored, Mirrors
<1>1. QueueMirrored' <=> Mirrors(queue', pending')
  BY DEF QueueMirrored, Mirrors
<1>u. ASSUME UNCHANGED <<queue, pending>> PROVE QueueMirrored'
  BY <1>0, <1>1, <1>u
<1>a. ASSUME NEW f \in Effects, PushEffect(f),
             \/ f.kind # "notify" /\ pending' = pending
             \/ \E e \in Entities : f = NotifyEffect(e) /\ e \notin pending /\ pending' = pending \cup {e}
      PROVE  QueueMirrored'
  <2>1. /\ DOMAIN queue = 1..Len(queue) /\ Len(queue) \in Nat
        /\ DOMAIN queue' = 1..(Len(queue) + 1)
        /\ queue'[Len(queue) + 1] = f /\ \A i \in 1..Len(queue) : queue'[i] = queue[i]
    BY <1>0, <1>a DEF PushEffect
  <2>2. CASE f.kind # "notify" /\ pending' = pending
    <3>1. \A e \in Entities : f # NotifyEffect(e)
      BY <2>2, EffectTypes
    <3>2. \A e \in Entities : e \in pending' <=> \E i \in DOMAIN queue' : queue'[i] = NotifyEffect(e)
      BY <1>0, <2>1, <2>2, <3>1 DEF Mirrors
    <3>3. \A i, j \in DOMAIN queue' : queue'[i].kind = "notify" /\ queue'[i] = queue'[j] => i = j
      BY <1>0, <2>1, <2>2 DEF Mirrors
    <3> QED BY <1>1, <3>2, <3>3 DEF Mirrors
  <2>3. ASSUME NEW e \in Entities, f = NotifyEffect(e), e \notin pending, pending' = pending \cup {e}
        PROVE  QueueMirrored'
    <3>1. \A i \in DOMAIN queue : queue[i] # f
      BY <1>0, <2>3 DEF Mirrors
    <3>2. \A d \in Entities : d # e => f # NotifyEffect(d)
      BY <2>3, EffectTypes
    <3>3. \A d \in Entities : d \in pending' <=> \E i \in DOMAIN queue' : queue'[i] = NotifyEffect(d)
      BY <1>0, <2>1, <2>3, <3>2 DEF Mirrors
    <3>4. \A i, j \in DOMAIN queue' : queue'[i].kind = "notify" /\ queue'[i] = queue'[j] => i = j
      BY <1>0, <2>1, <3>1 DEF Mirrors
    <3> QED BY <1>1, <3>3, <3>4 DEF Mirrors
  <2> QED BY <1>a, <2>2, <2>3
<1>t. ASSUME NEW k, Applies(k),
             \/ k # "notify" /\ pending' = pending
             \/ k = "notify" /\ pending' = pending \ {Head(queue).of}
      PROVE  QueueMirrored'
  <2>1. /\ queue # <<>> /\ Head(queue) = queue[1] /\ queue[1].kind = k /\ queue[1] \in Effects
        /\ DOMAIN queue = 1..Len(queue) /\ Len(queue) \in Nat /\ 1 \in DOMAIN queue
        /\ DOMAIN queue' = 1..(Len(queue) - 1)
        /\ \A i \in 1..(Len(queue) - 1) : queue'[i] = queue[i + 1]
    BY <1>0, <1>t DEF Applies
  <2>2. ASSUME NEW i \in DOMAIN queue', NEW j \in DOMAIN queue',
               queue'[i].kind = "notify", queue'[i] = queue'[j]
        PROVE  i = j
    <3>1. i \in Nat /\ j \in Nat /\ i + 1 \in DOMAIN queue /\ j + 1 \in DOMAIN queue
          /\ queue'[i] = queue[i + 1] /\ queue'[j] = queue[j + 1]
      BY <2>1
    <3>2. i + 1 = j + 1
      BY <1>0, <2>2, <3>1 DEF Mirrors
    <3> QED BY <3>1, <3>2
  <2>3. ASSUME NEW e \in Entities
        PROVE  (\E i \in DOMAIN queue' : queue'[i] = NotifyEffect(e))
                 <=> \E i \in DOMAIN queue : i # 1 /\ queue[i] = NotifyEffect(e)
    <3>1. \A i \in DOMAIN queue : i # 1 => i - 1 \in DOMAIN queue' /\ queue'[i - 1] = queue[i]
      BY <2>1
    <3>2. \A i \in DOMAIN queue' : i + 1 \in DOMAIN queue /\ i + 1 # 1 /\ queue'[i] = queue[i + 1]
      BY <2>1
    <3> QED BY <3>1, <3>2
  <2>4. ASSUME NEW e \in Entities
        PROVE  e \in pending' <=> \E i \in DOMAIN queue : i # 1 /\ queue[i] = NotifyEffect(e)
    <3>1. CASE queue[1] = NotifyEffect(e)
      <4>1. e \notin pending'
        BY <1>t, <2>1, <3>1, EffectTypes
      <4>2. \A i \in DOMAIN queue : queue[i] = NotifyEffect(e) => i = 1
        BY <1>0, <2>1, <3>1, EffectTypes DEF Mirrors
      <4> QED BY <4>1, <4>2
    <3>2. CASE queue[1] # NotifyEffect(e)
      <4>1. e \in pending' <=> e \in pending
        BY <1>t, <2>1, <3>2, EffectTypes
      <4> QED BY <1>0, <3>2, <4>1 DEF Mirrors
    <3> QED BY <3>1, <3>2
  <2> QED BY <1>1, <2>2, <2>3, <2>4 DEF Mirrors
<1>2. ASSUME NEW e \in Entities, NewEntity(e) PROVE QueueMirrored'
  BY <1>2, <1>a, EffectTypes DEF NewEntity
<1>3. ASSUME NEW e \in Entities, NEW o \in Observers, Observe(o, e) PROVE QueueMirrored'
  BY <1>3, <1>a, EffectTypes DEF Observe
<1>4. ASSUME NEW e \in Entities, Notify(e) PROVE QueueMirrored'
  <2>1. CASE UNCHANGED <<queue, pending>>
    BY <1>u, <2>1
  <2>2. CASE PushEffect(NotifyEffect(e)) /\ e \notin pending /\ pending' = pending \cup {e}
    BY <1>a, <2>2, EffectTypes
  <2> QED BY <1>4, <2>1, <2>2 DEF Notify
<1>5. CASE ApplyNotify
  BY <1>5, <1>t DEF ApplyNotify
<1>6. CASE ApplyActivate
  BY <1>6, <1>t DEF ApplyActivate
<1>7. ASSUME NEW observed \in BOOLEAN, ApplyCreated(observed) PROVE QueueMirrored'
  BY <1>7, <1>t DEF ApplyCreated
<1> QED BY <1>2, <1>3, <1>4, <1>5, <1>6, <1>7, <1>u DEF Next, vars, StartBare, EndBare,
        StartUpdate, EndUpdate, EndWindow, EndCallback, UpdateEntity, UpdateWindow, DropEntity,
        ReleaseEntity, RemoveWindow, BeginDraw, EndDraw, TakeDropped, EndRelease,
        VisitObserver, EndPass, EndFlush, FindNothingDropped, Shutdown

LEMMA AwaitedNext == IInv /\ [Next]_vars => WorkAwaited'
<1> SUFFICES ASSUME IInv, [Next]_vars, ~(queue' = <<>> /\ Unseen' = {})
             PROVE  bare' \/ updates' > 0
  BY DEF WorkAwaited
<1>0. /\ updates \in Nat /\ queue \in Seq(Effects) /\ quit \in BOOLEAN /\ ShapeOK
      /\ queue # <<>> \/ Unseen # {} => bare \/ updates > 0
  BY DEF IInv, DataOK, ShapeOK, StackOK, WorkAwaited
<1> USE DEF windowVars, endVars, lookVars
<1>k. ASSUME queue # <<>> \/ Unseen # {}, bare' = bare,
             updates' = updates \/ updates' = updates + 1
      PROVE  bare' \/ updates' > 0
  BY <1>0, <1>k
<1>u. ASSUME UNCHANGED <<queue, life, late>>, bare' = bare,
             updates' = updates \/ updates' = updates + 1
      PROVE  bare' \/ updates' > 0
  BY <1>k, <1>u DEF Dropped, Unseen
<1>b. ASSUME bare' = BareNow, updates' = updates PROVE bare' \/ updates' > 0
  <2>1. updates = 0 => bare'
    BY <1>b DEF BareNow
  <2> QED BY <1>0, <1>b, <2>1
<1>1. CASE EndUpdate \/ (EndWindow /\ FinishUpdate)
  <2>1. TopIs(UpdateKinds) /\ FinishUpdate /\ quit' = quit
    BY <1>1 DEF EndUpdate, EndWindow, TopIs, UpdateKinds
  <2> QED BY <1>0, <2>1, Finishing
<1>2. CASE EndWindow /\ ~FinishUpdate
  BY <1>2, <1>u DEF EndWindow
<1>3. CASE EndFlush
  BY <1>3 DEF EndFlush, Dropped, Unseen, IInv, AllSeen
<1>4. ASSUME NEW e \in Entities, DropEntity(e) PROVE bare' \/ updates' > 0
  BY <1>4, <1>b DEF DropEntity
<1>5. ASSUME NEW e \in Entities, NewEntity(e) PROVE bare' \/ updates' > 0
  BY <1>5, <1>b DEF NewEntity, PushEffect
<1>6. ASSUME NEW e \in Entities, NEW o \in Observers, Observe(o, e) PROVE bare' \/ updates' > 0
  BY <1>6, <1>b DEF Observe, PushEffect
<1>7. ASSUME NEW e \in Entities, Notify(e) PROVE bare' \/ updates' > 0
  BY <1>7, <1>b, <1>u DEF Notify, PushEffect
<1>8. CASE TakeDropped \/ FindNothingDropped
  <2>1. Dropped' = {}
    BY <1>8 DEF TakeDropped, FindNothingDropped, Dropped
  <2>2. UNCHANGED <<queue, bare, updates>>
    BY <1>8 DEF TakeDropped, FindNothingDropped
  <2> QED BY <1>k, <2>1, <2>2 DEF Unseen
<1>9. CASE ApplyNotify \/ ApplyActivate
  BY <1>9, <1>k DEF ApplyNotify, ApplyActivate, Applies
<1>10. ASSUME NEW observed \in BOOLEAN, ApplyCreated(observed) PROVE bare' \/ updates' > 0
  BY <1>10, <1>k DEF ApplyCreated, Applies
<1> QED BY <1>1, <1>2, <1>3, <1>4, <1>5, <1>6, <1>7, <1>8, <1>9, <1>10, <1>u DEF Next, vars,
        StartBare, EndBare, StartUpdate, EndCallback, UpdateEntity, UpdateWindow, RemoveWindow,
        BeginDraw, EndDraw, ReleaseEntity, EndRelease, VisitObserver, EndPass, Shutdown

\* Only other threads drop entities between a look and the next step of the flush.
LEMMA SeenNext == IInv /\ [Next]_vars => AllSeen'
<1> SUFFICES ASSUME IInv, [Next]_vars, looked' PROVE Unseen' = {}
  BY DEF AllSeen
<1>0. looked => Dropped \subseteq late
  BY DEF IInv, AllSeen, Unseen
<1> USE DEF endVars, lookVars, Dropped, Unseen
<1>1. CASE FindNothingDropped
  BY <1>1 DEF FindNothingDropped
<1>2. CASE TakeDropped
  BY <1>2 DEF TakeDropped
<1>3. ASSUME NEW e \in Entities, DropEntity(e) PROVE Unseen' = {}
  BY <1>0, <1>3 DEF DropEntity
<1>4. ASSUME NEW e \in Entities, NewEntity(e) PROVE Unseen' = {}
  BY <1>0, <1>4 DEF NewEntity
<1>5. CASE UNCHANGED <<life, lookVars>>
  BY <1>0, <1>5
<1>6. CASE \E k : Applies(k)
  BY <1>6 DEF Applies
<1>7. CASE EndFlush
  BY <1>7 DEF EndFlush
<1>8. CASE ApplyNotify \/ ApplyActivate \/ \E observed \in BOOLEAN : ApplyCreated(observed)
  BY <1>6, <1>8 DEF ApplyNotify, ApplyActivate, ApplyCreated
<1> QED BY <1>1, <1>2, <1>3, <1>4, <1>5, <1>7, <1>8 DEF Next, vars, StartBare, EndBare,
        StartUpdate, EndUpdate, EndWindow, EndCallback, UpdateEntity, Notify, PushEffect, Observe,
        UpdateWindow, ReleaseEntity, RemoveWindow, BeginDraw, EndDraw, EndRelease,
        VisitObserver, EndPass, Shutdown

\* Until the quit no loop is beneath a flush or the release of entities.
LEMMA NoLoopBeneath ==
  ASSUME IInv, ~quit, TopIs(FlushKinds \cup {"release"}),
         NEW i \in DOMAIN stack, stack[i].kind \in LoopKinds
  PROVE  i = Len(stack) /\ Top.kind = "release"
<1>0. StackOK(stack, updates, quit) /\ quit \in BOOLEAN /\ stack # <<>>
      /\ stack[Len(stack)].kind \in FlushKinds \cup {"release"} /\ stack \in Seq(FrameType)
  BY DEF IInv, DataOK, ShapeOK, StackOK, TopIs, Top
<1>1. ASSUME i # Len(stack) PROVE FALSE
  <2>1. i \in 1..(Len(stack) - 1)
    BY <1>0, <1>1
  <2>2. Holds(Beneath(stack), LoopKinds)
    BY <1>0, <2>1, BeneathFacts DEF Holds
  <2> QED BY <1>0, <2>2, TopFlushes
<1> QED BY <1>0, <1>1 DEF Top, LoopKinds, FlushKinds

\* So nobody is out in a pass then.
LEMMA AllInMap ==
  ASSUME IInv, ~quit, TopIs(FlushKinds \cup {"release"}), NEW e
  PROVE  InMap(e) = {o \in Observers : target[o] = e}
<1>1. ASSUME NEW i \in DOMAIN stack PROVE stack[i].kind # "pass"
  BY <1>1, NoLoopBeneath DEF LoopKinds, Top
<1>2. {g \in Frames : g.kind = "pass" /\ g.on = e} = {}
  BY <1>1 DEF Frames
<1> QED BY <1>2 DEF InMap

LEMMA PushedFrame ==
  ASSUME IInv, NEW f, Push(f)
  PROVE  Len(stack) + 1 \in DOMAIN stack' /\ stack'[Len(stack) + 1] = f
<1>1. stack \in Seq(FrameType)
  BY DEF IInv, ShapeOK, StackOK
<1> QED BY <1>1 DEF Push

\* The frame that a loop leaves in its place.
LEMMA SwappedFrame ==
  ASSUME IInv, stack # <<>>, NEW f,
         \/ stack' = Append(Below, f)
         \/ stack' = Append(Append(Below, f), Frame("callback", None))
  PROVE  Len(stack) \in DOMAIN stack' /\ stack'[Len(stack)] = f
<1>1. stack \in Seq(FrameType)
  BY DEF IInv, ShapeOK, StackOK
<1>2. /\ Beneath(stack) \in Seq(FrameType) /\ Len(Beneath(stack)) = Len(stack) - 1
      /\ Len(stack) \in Nat
  BY <1>1, BeneathFacts
<1> DEFINE b == Beneath(stack)
<1> HIDE DEF b
<1>3. stack' = Append(b, f) \/ stack' = Append(Append(b, f), Frame("callback", None))
  BY BelowIsBeneath DEF b
<1>4. b \in Seq(FrameType) /\ Len(b) = Len(stack) - 1 /\ Len(stack) \in Nat
  BY <1>2 DEF b
<1> QED BY <1>3, <1>4

LEMMA DebtNext == IInv /\ [Next]_vars => DebtHeld'
<1> SUFFICES ASSUME IInv, [Next]_vars, ~quit', NEW o \in Observers, debt'[o] = "owed"
             PROVE  /\ o \in active' /\ target'[o] # None
                    /\ \/ target'[o] \in pending'
                       \/ \E i \in DOMAIN stack' : /\ stack'[i].kind = "pass"
                                                  /\ stack'[i].on = target'[o]
                                                  /\ o \in stack'[i].todo
  BY DEF DebtHeld
<1> DEFINE Waits(i) == stack[i].kind = "pass" /\ stack[i].on = target[o] /\ o \in stack[i].todo
           Goal == /\ o \in active' /\ target'[o] # None
                   /\ \/ target'[o] \in pending'
                      \/ \E i \in DOMAIN stack' : /\ stack'[i].kind = "pass"
                                                 /\ stack'[i].on = target'[o]
                                                 /\ o \in stack'[i].todo
<1> SUFFICES Goal
  OBVIOUS
<1> HIDE DEF Goal
<1>0. DataOK /\ ShapeOK /\ DebtHeld
  BY DEF IInv
<1>q. ~quit
  BY <1>0 DEF DataOK, Next, vars, endVars, Applies, FindNothingDropped, StartBare, EndBare, StartUpdate, EndUpdate, EndWindow,
     EndCallback, UpdateEntity, NewEntity, Notify, DropEntity, Observe, ReleaseEntity,
     UpdateWindow, RemoveWindow, BeginDraw, EndDraw, TakeDropped, EndRelease, ApplyNotify,
     ApplyActivate, ApplyCreated, VisitObserver, EndPass, EndFlush, Shutdown
\* What an observer was owed already.
<1>w. ASSUME debt[o] = "owed"
      PROVE  /\ o \in active /\ target[o] # None /\ target[o] \in Entities
             /\ target[o] \in pending \/ \E i \in DOMAIN stack : Waits(i)
  BY <1>0, <1>q, <1>w DEF DebtHeld, DataOK
<1>s. ASSUME debt[o] = "owed", o \in active', target'[o] = target[o],
             target[o] \in pending => target[o] \in pending',
             \A i \in DOMAIN stack : Waits(i) =>
               \E j \in DOMAIN stack' : /\ stack'[j].kind = "pass" /\ stack'[j].on = target[o]
                                        /\ o \in stack'[j].todo
      PROVE  Goal
  BY <1>w, <1>s DEF Goal
<1>k. ASSUME debt[o] = "owed", o \in active', target'[o] = target[o],
             target[o] \in pending => target[o] \in pending', ~TopIs({"pass"})
      PROVE  Goal
  <2>1. ASSUME NEW i \in DOMAIN stack, Waits(i) PROVE Stays(i)
    <3>1. i # Len(stack)
      BY <1>k, <2>1 DEF TopIs, Top
    <3> QED BY <3>1, FramesStay
  <2> QED BY <1>s, <1>k, <2>1 DEF Stays
<1>1. ASSUME NEW e \in Entities, Notify(e) PROVE Goal
  <2>1. stack' = stack /\ target' = target /\ active' = active /\ pending \subseteq pending'
    BY <1>1 DEF Notify
  <2>2. CASE debt[o] = "owed"
    BY <1>s, <1>w, <2>1, <2>2
  <2>3. CASE debt[o] # "owed"
    <3>1. target[o] = e /\ (Trackers(e) = {} \/ Listening(e) # {}) /\ o \in active
      BY <1>1, <2>3 DEF Notify, DebtAfter
    <3>2. e \in pending'
      BY <1>1, <3>1 DEF Notify
    <3> QED BY <2>1, <3>1, <3>2, NoneAssumption DEF Goal
  <2> QED BY <2>2, <2>3
<1>2. ASSUME NEW e \in Entities, NEW p \in Observers, Observe(p, e) PROVE Goal
  <2>1. debt[o] = "owed"
    BY <1>2 DEF Observe
  <2>2. target'[o] = target[o]
    BY <1>0, <1>2, <1>w, <2>1 DEF Observe, DataOK
  <2> QED BY <1>2, <1>s, <1>w, <2>1, <2>2 DEF Observe
<1>3. ASSUME NEW e \in Entities, NEW listened \in BOOLEAN, ReleaseEntity(e, listened) PROVE Goal
  <2>1. debt[o] = "owed" /\ target'[o] = target[o]
    BY <1>0, <1>3 DEF ReleaseEntity, DataOK
  <2>2. ~TopIs({"pass"}) /\ pending' = pending /\ active' = active
    BY <1>3 DEF ReleaseEntity, TopIs
  <2> QED BY <1>k, <1>w, <2>1, <2>2
<1>4. ASSUME NEW p \in Observers, VisitObserver(p) PROVE Goal
  <2> DEFINE f == [Top EXCEPT !.todo = @ \ {p}]
  <2>1. debt[o] = "owed" /\ pending' = pending /\ active' = active /\ stack # <<>>
        /\ TopIs({"pass"})
    BY <1>0, <1>4 DEF VisitObserver, DataOK, TopIs
  <2>2. p # o
    BY <1>0, <1>4, <1>w, <2>1 DEF VisitObserver, DataOK
  <2>3. target'[o] = target[o]
    BY <1>0, <1>4, <2>2 DEF VisitObserver, DataOK
  <2>4. Top \in FrameType /\ Top = stack[Len(stack)]
    BY <2>1, TopTyped
  <2>5. f.kind = Top.kind /\ f.on = Top.on /\ f.todo = Top.todo \ {p}
    BY <2>4 DEF FrameType
  <2>6. Len(stack) \in DOMAIN stack' /\ stack'[Len(stack)] = f
    <3>1. stack' = Append(Below, f) \/ stack' = Append(Append(Below, f), Frame("callback", None))
      BY <1>4 DEF VisitObserver
    <3> HIDE DEF f
    <3> QED BY <2>1, <3>1, SwappedFrame
  <2> HIDE DEF f
  <2>7. ASSUME NEW i \in DOMAIN stack, Waits(i)
        PROVE  \E j \in DOMAIN stack' : /\ stack'[j].kind = "pass" /\ stack'[j].on = target[o]
                                        /\ o \in stack'[j].todo
    <3>1. CASE i = Len(stack)
      BY <2>2, <2>4, <2>5, <2>6, <2>7, <3>1
    <3>2. CASE i # Len(stack)
      <4>1. Stays(i)
        BY <3>2, FramesStay
      <4> QED BY <2>7, <4>1 DEF Stays
    <3> QED BY <3>1, <3>2
  <2> QED BY <1>s, <1>w, <2>1, <2>3, <2>7
<1>5. CASE EndPass
  <2>1. debt' = debt /\ pending' = pending /\ active' = active /\ target' = target
        /\ stack # <<>> /\ Top.todo = {}
    BY <1>5 DEF EndPass, observerVars, TopIs
  <2>2. ASSUME NEW i \in DOMAIN stack, Waits(i) PROVE Stays(i)
    <3>1. i # Len(stack)
      BY <2>1, <2>2 DEF Top
    <3> QED BY <3>1, FramesStay
  <2> QED BY <1>s, <1>w, <2>1, <2>2 DEF Stays
<1>6. CASE ApplyNotify
  <2> DEFINE e == Head(queue).of
  <2>1. debt' = debt /\ active' = active /\ target' = target /\ pending' = pending \ {e}
        /\ TopIs(FlushKinds) /\ ~TopIs({"pass"})
    BY <1>6 DEF ApplyNotify, Applies, observerVars, TopIs, FlushKinds
  <2>2. CASE target[o] # e
    BY <1>k, <1>w, <2>1, <2>2
  <2>3. CASE target[o] = e
    <3>1. InMap(e) = {x \in Observers : target[x] = e}
      BY <1>q, <2>1, AllInMap DEF TopIs
    <3>2. Push(Pass(e, InMap(e)))
      BY <1>6, <2>3, <3>1 DEF ApplyNotify
    <3>3. Len(stack) + 1 \in DOMAIN stack' /\ stack'[Len(stack) + 1] = Pass(e, InMap(e))
      BY <3>2, PushedFrame
    <3>4. Pass(e, InMap(e)).kind = "pass" /\ Pass(e, InMap(e)).on = e /\ Pass(e, InMap(e)).todo = InMap(e)
      BY DEF Pass
    <3> QED BY <1>w, <2>1, <2>3, <3>1, <3>3, <3>4 DEF Goal
  <2> QED BY <2>2, <2>3
<1>7. CASE ApplyActivate
  BY <1>7, <1>k, <1>w DEF ApplyActivate, Applies, TopIs, FlushKinds
<1>8. CASE UNCHANGED stack /\ UNCHANGED <<observerVars, pending>>
  BY <1>s, <1>w, <1>8 DEF observerVars
<1>9. ASSUME ~TopIs({"pass"}), UNCHANGED <<observerVars, pending>> PROVE Goal
  BY <1>k, <1>w, <1>9 DEF observerVars
<1>10. ASSUME UserCode \/ TopIs({"release"}) \/ TopIs(FlushKinds) \/ stack = <<>>
       PROVE  ~TopIs({"pass"})
  BY <1>10 DEF UserCode, UserKinds, FlushKinds, TopIs
<1>11. CASE StartBare \/ StartUpdate \/ UNCHANGED vars \/ Shutdown
  BY <1>8, <1>9, <1>10, <1>11, <1>q DEF StartBare, StartUpdate, MayCall, vars, observerVars, Shutdown
<1>12. ASSUME NEW e \in Entities, UpdateEntity(e) \/ NewEntity(e) \/ DropEntity(e) PROVE Goal
  BY <1>8, <1>9, <1>10, <1>12 DEF UpdateEntity, NewEntity, DropEntity, MayCall, observerVars
<1>13. ASSUME NEW w \in Windows, UpdateWindow(w) PROVE Goal
  BY <1>9, <1>10, <1>13 DEF UpdateWindow, MayCall
<1>14. CASE EndBare \/ EndUpdate \/ EndWindow \/ EndCallback \/ RemoveWindow \/ BeginDraw
            \/ EndRelease \/ EndFlush \/ TakeDropped \/ FindNothingDropped
  BY <1>9, <1>14 DEF EndBare, EndUpdate, EndWindow, EndCallback, RemoveWindow, BeginDraw, EndRelease,
     EndFlush, TakeDropped, FindNothingDropped, TopIs, FlushKinds
<1>15. ASSUME NEW ents, EndDraw(ents) PROVE Goal
  BY <1>9, <1>15 DEF EndDraw, TopIs
<1>16. ASSUME NEW observed \in BOOLEAN, ApplyCreated(observed) PROVE Goal
  BY <1>9, <1>10, <1>16 DEF ApplyCreated, Applies
<1> QED BY <1>1, <1>2, <1>3, <1>4, <1>5, <1>6, <1>7, <1>11, <1>12, <1>13, <1>14, <1>15, <1>16
        DEF Next

LEMMA ReleasedNext == IInv /\ [Next]_vars => ReleasedSoon'
<1> SUFFICES ASSUME IInv, [Next]_vars, ~quit', NEW o \in Observers,
                    target'[o] # None, life'[target'[o]] = "released"
             PROVE  \E i \in DOMAIN stack' : /\ stack'[i].kind = "release"
                                             /\ target'[o] \in stack'[i].todo
  BY DEF ReleasedSoon
<1> DEFINE Due(i) == stack[i].kind = "release" /\ target[o] \in stack[i].todo
           Goal == \E i \in DOMAIN stack' : /\ stack'[i].kind = "release"
                                            /\ target'[o] \in stack'[i].todo
<1> SUFFICES Goal
  OBVIOUS
<1> HIDE DEF Goal
<1>0. DataOK /\ ShapeOK /\ ReleasedSoon
  BY DEF IInv
<1>q. ~quit
  BY <1>0 DEF DataOK, Next, vars, endVars, Applies, FindNothingDropped, StartBare, EndBare, StartUpdate, EndUpdate, EndWindow,
     EndCallback, UpdateEntity, NewEntity, Notify, DropEntity, Observe, ReleaseEntity,
     UpdateWindow, RemoveWindow, BeginDraw, EndDraw, TakeDropped, EndRelease, ApplyNotify,
     ApplyActivate, ApplyCreated, VisitObserver, EndPass, EndFlush, Shutdown
<1>w. ASSUME target'[o] = target[o], life[target[o]] = "released"
      PROVE  target[o] \in Entities /\ \E i \in DOMAIN stack : Due(i)
  BY <1>0, <1>q, <1>w DEF ReleasedSoon, DataOK
<1>s. ASSUME target'[o] = target[o], life[target[o]] = "released",
             \A i \in DOMAIN stack : Due(i) =>
               \E j \in DOMAIN stack' : stack'[j].kind = "release" /\ target[o] \in stack'[j].todo
      PROVE  Goal
  BY <1>w, <1>s DEF Goal
<1>k. ASSUME target'[o] = target[o], life[target[o]] = "released", ~TopIs({"release"})
      PROVE  Goal
  <2>1. ASSUME NEW i \in DOMAIN stack, Due(i) PROVE Stays(i)
    <3>1. i # Len(stack)
      BY <1>k, <2>1 DEF TopIs, Top
    <3> QED BY <3>1, FramesStay
  <2> QED BY <1>s, <1>k, <2>1 DEF Stays
<1>1. ASSUME NEW e \in Entities, NEW p \in Observers, Observe(p, e) PROVE Goal
  <2>1. life' = life /\ life[e] = "alive" /\ stack' = stack
    BY <1>1 DEF Observe
  <2>2. p # o
    BY <1>0, <1>1, <2>1 DEF Observe, DataOK
  <2>3. target'[o] = target[o]
    BY <1>0, <1>1, <2>2 DEF Observe, DataOK
  <2> QED BY <1>s, <2>1, <2>3
<1>2. ASSUME NEW e \in Entities, NEW listened \in BOOLEAN, ReleaseEntity(e, listened) PROVE Goal
  <2> DEFINE f == Release(Top.todo \ {e})
  <2>1. TopIs(FlushKinds \cup {"release"}) /\ stack # <<>> /\ life' = life
    BY <1>2 DEF ReleaseEntity, TopIs
  <2>2. InMap(e) = {x \in Observers : target[x] = e}
    BY <1>q, <2>1, AllInMap
  <2>3. target'[o] = target[o] /\ target[o] # e
    BY <1>0, <1>2, <2>2 DEF ReleaseEntity, DataOK
  <2>4. f.kind = "release" /\ f.todo = Top.todo \ {e}
    BY DEF Release
  <2>5. stack' = Append(Below, f) \/ stack' = Append(Append(Below, f), Frame("callback", None))
    BY <1>2 DEF ReleaseEntity
  <2> HIDE DEF f
  <2>6. Len(stack) \in DOMAIN stack' /\ stack'[Len(stack)] = f
    BY <2>1, <2>5, SwappedFrame
  <2>7. ASSUME NEW i \in DOMAIN stack, Due(i)
        PROVE  \E j \in DOMAIN stack' : stack'[j].kind = "release" /\ target[o] \in stack'[j].todo
    <3>1. CASE i = Len(stack)
      BY <2>3, <2>4, <2>6, <2>7, <3>1 DEF Top
    <3>2. CASE i # Len(stack)
      <4>1. Stays(i)
        BY <3>2, FramesStay
      <4> QED BY <2>7, <4>1 DEF Stays
    <3> QED BY <3>1, <3>2
  <2> QED BY <1>s, <2>1, <2>3, <2>7
<1>3. CASE EndRelease
  <2>1. target' = target /\ life' = life /\ Top.todo = {}
    BY <1>3 DEF EndRelease, observerVars
  <2>2. ASSUME NEW i \in DOMAIN stack, Due(i) PROVE Stays(i)
    <3>1. i # Len(stack)
      BY <2>1, <2>2 DEF Top
    <3> QED BY <3>1, FramesStay
  <2> QED BY <1>s, <2>1, <2>2 DEF Stays
<1>4. CASE TakeDropped
  <2>1. target' = target /\ ~TopIs({"release"}) /\ Push(Release(Dropped))
    BY <1>4 DEF TakeDropped, observerVars, TopIs, FlushKinds
  <2>2. CASE life[target[o]] = "released"
    BY <1>k, <2>1, <2>2
  <2>3. CASE life[target[o]] # "released"
    <3>1. target[o] \in Dropped
      BY <1>0, <1>4, <2>1, <2>3 DEF TakeDropped, DataOK
    <3>2. Len(stack) + 1 \in DOMAIN stack' /\ stack'[Len(stack) + 1] = Release(Dropped)
      BY <2>1, PushedFrame
    <3>3. Release(Dropped).kind = "release" /\ Release(Dropped).todo = Dropped
      BY DEF Release
    <3> QED BY <2>1, <3>1, <3>2, <3>3 DEF Goal
  <2> QED BY <2>2, <2>3
<1>5. ASSUME NEW p \in Observers, VisitObserver(p) PROVE Goal
  <2>1. life' = life /\ ~TopIs({"release"})
    BY <1>5 DEF VisitObserver, TopIs
  <2>2. target'[o] = target[o]
    BY <1>0, <1>5 DEF VisitObserver, DataOK
  <2> QED BY <1>k, <2>1, <2>2
<1>6. ASSUME UNCHANGED target, UNCHANGED stack \/ ~TopIs({"release"}),
             life'[target[o]] = "released" => life[target[o]] = "released"
      PROVE  Goal
  BY <1>s, <1>k, <1>6
<1>7. ASSUME NEW e \in Entities, NewEntity(e) \/ DropEntity(e) PROVE Goal
  <2>1. UNCHANGED <<target, stack>>
    BY <1>7 DEF NewEntity, DropEntity, observerVars
  <2>2. life'[target[o]] = "released" => life[target[o]] = "released"
    BY <1>0, <1>7, <2>1 DEF NewEntity, DropEntity, DataOK
  <2> QED BY <1>6, <2>1, <2>2
<1>8. ASSUME UNCHANGED <<target, life>>, UNCHANGED stack \/ ~TopIs({"release"}) PROVE Goal
  BY <1>6, <1>8
<1>9. ASSUME UserCode \/ TopIs(FlushKinds) \/ stack = <<>> PROVE ~TopIs({"release"})
  BY <1>9 DEF UserCode, UserKinds, FlushKinds, TopIs
<1> USE DEF observerVars
<1>10. CASE StartBare \/ StartUpdate \/ UNCHANGED vars \/ Shutdown
  BY <1>8, <1>9, <1>10 DEF StartBare, StartUpdate, MayCall, vars, Shutdown
<1>11. ASSUME NEW e \in Entities, UpdateEntity(e) \/ Notify(e) PROVE Goal
  BY <1>8, <1>9, <1>11 DEF UpdateEntity, Notify, MayCall
<1>12. ASSUME NEW w \in Windows, UpdateWindow(w) PROVE Goal
  BY <1>8, <1>9, <1>12 DEF UpdateWindow, MayCall
<1>13. CASE EndBare \/ EndUpdate \/ EndWindow \/ EndCallback \/ RemoveWindow \/ BeginDraw
            \/ EndPass \/ EndFlush \/ ApplyActivate \/ ApplyNotify \/ FindNothingDropped
  BY <1>8, <1>9, <1>13 DEF EndBare, EndUpdate, EndWindow, EndCallback, RemoveWindow, BeginDraw, EndPass,
     EndFlush, ApplyActivate, ApplyNotify, FindNothingDropped, Applies, TopIs
<1>14. ASSUME NEW ents, EndDraw(ents) PROVE Goal
  BY <1>8, <1>14 DEF EndDraw, TopIs
<1>15. ASSUME NEW observed \in BOOLEAN, ApplyCreated(observed) PROVE Goal
  BY <1>8, <1>9, <1>15 DEF ApplyCreated, Applies
<1> QED BY <1>1, <1>2, <1>3, <1>4, <1>5, <1>7, <1>10, <1>11, <1>12, <1>13, <1>14, <1>15 DEF Next

-----------------------------------------------------------------------------
(* The theorems.                                                           *)

LEMMA Invariance == Spec => []IInv
<1>1. IInv /\ [Next]_vars => IInv'
  BY ShapeNext, DataNext, TakenNext, MirrorNext, AwaitedNext, SeenNext, DebtNext, ReleasedNext DEF IInv
<1> QED BY <1>1, InitInv, PTL DEF Spec

\* pending_updates counts the updates that have not returned, and flushing_effects is
\* set exactly while the outermost flushes (App::finish_update), so that no inner update
\* flushes above a lease and no outer one ends without its flush.
THEOREM UpdatesAreCounted == Spec => []UpdatesCounted
<1>1. ASSUME IInv PROVE UpdatesCounted
  <2>1. DataOK /\ ShapeOK /\ StackOK(stack, updates, quit)
    BY <1>1 DEF IInv, ShapeOK
  <2>2. TypeOK
    BY <2>1 DEF TypeOK, DataOK, ShapeOK, StackOK
  <2>3. CountedIn(stack) = {i \in DOMAIN stack :
                              stack[i].kind \in {"update", "lease", "window", "flush"}}
    BY DEF CountedIn, CountedKinds, UpdateKinds
  <2>4. updates = Cardinality({i \in DOMAIN stack :
                                 stack[i].kind \in {"update", "lease", "window", "flush"}})
    BY <2>1, <2>3 DEF StackOK
  <2>5. flushing <=> \E f \in Frames : f.kind = "flush"
    <3>1. Flushes(stack) <=> \E f \in Frames : f.kind = "flush"
      BY DEF Flushes, Holds, Frames
    <3> QED BY <2>1, <3>1 DEF ShapeOK
  <2> QED BY <2>2, <2>4, <2>5 DEF UpdatesCounted
<1> QED BY <1>1, Invariance, PTL

\* App::notify queues at most one effect per entity, and pending_notifications never
\* holds an entity whose effect is not in the queue, which would swallow its next one.
THEOREM NotificationsQueuedOnce == Spec => []NotifyQueuedOnce
<1>1. ASSUME IInv PROVE NotifyQueuedOnce
  <2> DEFINE at(e) == {i \in DOMAIN queue : queue[i] = NotifyEffect(e)}
  <2>1. ASSUME NEW e \in Entities
        PROVE  Cardinality(at(e)) = IF e \in pending THEN 1 ELSE 0
    <3>1. CASE e \in pending
      <4>1. PICK i \in DOMAIN queue : queue[i] = NotifyEffect(e)
        BY <1>1, <3>1 DEF IInv, QueueMirrored
      <4>2. at(e) = {i}
        BY <1>1, <4>1, EffectTypes DEF IInv, QueueMirrored
      <4> QED BY <3>1, <4>2, FS_Singleton
    <3>2. CASE e \notin pending
      <4>1. at(e) = {}
        BY <1>1, <3>2 DEF IInv, QueueMirrored
      <4> QED BY <3>2, <4>1, FS_EmptySet
    <3> QED BY <3>1, <3>2
  <2> QED BY <2>1 DEF NotifyQueuedOnce
<1> QED BY <1>1, Invariance, PTL

\* While effects are applied or entities released, every entity is in the map and every
\* open window in its place: update_entity and update_window_id of a callback find them.
THEOREM FlushFindsAll == Spec => []NothingLeasedWhileFlushing
<1>1. ASSUME IInv PROVE NothingLeasedWhileFlushing
  <2>1. SUFFICES ASSUME TopIs(FlushKinds \cup {"release"})
                 PROVE  Leased = {} /\ \A w \in Windows : window[w] # "taken"
    BY DEF NothingLeasedWhileFlushing
  <2>2. StackOK(stack, updates, quit) /\ quit \in BOOLEAN
    BY <1>1 DEF IInv, ShapeOK, DataOK
  <2>3. ~Holds(stack, UpdateKinds)
    BY <2>1, <2>2, TopFlushes DEF TopIs, Top
  <2>4. \A i \in DOMAIN stack : stack[i].kind # "lease" /\ stack[i].kind # "window"
    BY <2>3 DEF Holds, UpdateKinds
  <2>5. Leased = {}
    BY <2>4 DEF Leased, Frames
  <2>6. \A w \in Windows : window[w] # "taken"
    BY <1>1, <2>4 DEF IInv, TakenOnStack
  <2> QED BY <2>5, <2>6
<1> QED BY <1>1, Invariance, PTL

\* No update is below an empty stack.
LEMMA IdleCountsNone ==
  ASSUME IInv, stack = <<>>
  PROVE  updates = 0 /\ DOMAIN stack = {}
<1>1. CountedIn(stack) = {} /\ DOMAIN stack = {}
  BY DEF CountedIn
<1>2. updates = Cardinality(CountedIn(stack))
  BY DEF IInv, ShapeOK, StackOK
<1> QED BY <1>1, <1>2, FS_EmptySet

\* The outermost update returns with nothing queued and nothing unreleased of what was
\* dropped before its flush last called take_dropped (App::flush_effects loops until
\* both are empty, and whatever is queued while it loops is queued under its count).
\* What other threads drop after that call is excepted: the next flush releases it.
THEOREM NothingLeftBehind == Spec => []Quiescent
<1>1. ASSUME IInv PROVE Quiescent
  BY <1>1, IdleCountsNone DEF Quiescent, Idle, IInv, WorkAwaited, Unseen
<1> QED BY <1>1, Invariance, PTL

\* Every active observer is told of a notify that reached the queue before the
\* outermost update returns, in whatever order the callbacks queue more.
THEOREM ObserversAreTold == Spec => []NotifyDelivered
<1>1. ASSUME IInv PROVE NotifyDelivered
  <2>1. SUFFICES ASSUME Idle, ~quit, NEW o \in Observers, debt[o] = "owed"
                 PROVE  FALSE
    BY DEF NotifyDelivered
  <2>2. stack = <<>> /\ ~bare
    BY <2>1 DEF Idle
  <2>3. updates = 0 /\ DOMAIN stack = {}
    BY <1>1, <2>2, IdleCountsNone
  <2>4. queue = <<>>
    BY <1>1, <2>2, <2>3 DEF IInv, WorkAwaited
  <2>5. target[o] # None /\ target[o] \in pending
    BY <1>1, <2>1, <2>3 DEF IInv, DebtHeld
  <2>6. target[o] \in Entities
    BY <1>1, <2>5 DEF IInv, DataOK
  <2>7. DOMAIN queue = {}
    BY <2>4
  <2> QED BY <1>1, <2>5, <2>6, <2>7 DEF IInv, QueueMirrored
<1> QED BY <1>1, Invariance, PTL

\* release_dropped_entities leaves no observer of an entity behind, also when the
\* callbacks of a pass dropped the entity.
THEOREM NoneObservesReleased == Spec => []NoObserverOfReleased
<1>1. ASSUME IInv PROVE NoObserverOfReleased
  <2>1. SUFFICES ASSUME ~quit, NEW o \in Observers, target[o] # None, life[target[o]] = "released"
                 PROVE  \E f \in Frames : f.kind = "release" /\ target[o] \in f.todo
    BY DEF NoObserverOfReleased
  <2>2. PICK i \in DOMAIN stack : stack[i].kind = "release" /\ target[o] \in stack[i].todo
    BY <1>1, <2>1 DEF IInv, ReleasedSoon
  <2> QED BY <2>2 DEF Frames
<1> QED BY <1>1, Invariance, PTL
=============================================================================
