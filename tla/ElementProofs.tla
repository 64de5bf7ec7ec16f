---------------------------- MODULE ElementProofs ----------------------------
(* Proofs about elements: the list, focus and Tab, and the mouse.             *)
(*                                                                            *)
(* The list (ListElement): whatever the client splices, resets and scrolls    *)
(* between two frames, a height that the list has cached is that of the row   *)
(* it is cached for, the rows that are laid out fill the viewport, what was   *)
(* asked to be in view is, a frame in which nothing changed shows what the    *)
(* one before did, and a splice keeps the row that the list was scrolled to.  *)
(* The argument is in three parts: what one run of layout_items leaves of the *)
(* items and makes of the viewport (LayoutSound, LayoutShows, LayoutRests),   *)
(* that a frame is one or more runs of it (DrawInv), and that the steps       *)
(* between frames keep the rows, the items and the scroll top together (the   *)
(* other lemmas named ...Inv).                                                *)
(*                                                                            *)
(* The focus (FocusTabs): handles are counted right, whatever views, threads, *)
(* paints and flushes do, for every set of entries; and Tab goes round all    *)
(* stops of a frame, in the order that cached views were painted in.          *)
(*                                                                            *)
(* The mouse (Pointer), for any number of elements and positions, any scenes  *)
(* and any order of events and frames: what clicks is captured, what is       *)
(* captured was released over its element in this frame, and what is pressed  *)
(* is owed a release or missed one; the hit test is that of the rendered      *)
(* frame at the mouse.                                                        *)
EXTENDS ListElement, FocusTabs, Pointer, SequenceTheorems, FiniteSetTheorems,
        WellFoundedInduction, TLAPS

-----------------------------------------------------------------------------
(* Numbers and recursion.                                                  *)

\* A set of numbers has a least one.
LEMMA LeastNumber ==
  ASSUME NEW T, T \subseteq Nat, T # {}
  PROVE  \E n \in T : \A m \in T : n <= m
<1> DEFINE R == OpToRel(<, Nat)
<1>1. IsWellFoundedOn(R, Nat)
  BY NatLessThanWellFounded
<1>2. \A x, y \in Nat : <<y, x>> \in R <=> y < x
  BY DEF OpToRel
<1> HIDE DEF R
<1>3. \E n \in T : \A m \in T : ~(<<m, n>> \in R)
  BY <1>1, WFMin
<1>4. PICK n \in T : \A m \in T : ~(m < n)
  BY <1>2, <1>3
<1> QED BY <1>4

\* What holds of 0, and of each number after one it holds of, holds up to n0.
LEMMA UpTo ==
  ASSUME NEW n0 \in Nat, NEW P, 0 \in P, \A n \in 0..(n0 - 1) : n \in P => n + 1 \in P
  PROVE  0..n0 \subseteq P
<1> DEFINE Bad == {n \in 0..n0 : n \notin P}
<1>1. SUFFICES ASSUME Bad # {} PROVE FALSE
  OBVIOUS
<1>2. PICK n \in Bad : \A m \in Bad : n <= m
  <2>1. Bad \subseteq Nat
    OBVIOUS
  <2> HIDE DEF Bad
  <2> QED BY <1>1, <2>1, LeastNumber
<1>3. n \in 0..n0 /\ n \notin P /\ n # 0
  OBVIOUS
<1>4. n - 1 \in 0..(n0 - 1) /\ ~(n <= n - 1) /\ (n - 1) + 1 = n /\ n - 1 \in 0..n0
  BY <1>3
<1>5. n - 1 \in P
  BY <1>2, <1>4
<1> QED BY <1>3, <1>4, <1>5

\* There is a function whose value at a number is what `step` makes of that at the one before.
Recurs(f, n, V, a, step) ==
  f \in [0..n -> V] /\ f[0] = a /\ \A k \in 1..n : f[k] = step[<<k, f[k - 1]>>]

\* Recursion over the numbers up to n has a solution.
LEMMA Recursion ==
  ASSUME NEW n \in Nat, NEW V, NEW a \in V, NEW step,
         \A k \in 1..n, v \in V : step[<<k, v>>] \in V
  PROVE  \E f : Recurs(f, n, V, a, step)
<1> DEFINE Upto(f, m) == /\ f \in [0..n -> V] /\ f[0] = a
                         /\ \A k \in 1..m : f[k] = step[<<k, f[k - 1]>>]
           P == {m \in 0..n : \E f : Upto(f, m)}
<1>1. 0 \in P
  <2> DEFINE f == [k \in 0..n |-> a]
  <2>1. f \in [0..n -> V] /\ f[0] = a
    OBVIOUS
  <2> HIDE DEF f
  <2>2. Upto(f, 0)
    BY <2>1
  <2> QED BY <2>2
<1>2. ASSUME NEW m \in 0..(n - 1), m \in P PROVE m + 1 \in P
  <2>1. PICK f : Upto(f, m)
    BY <1>2
  <2> DEFINE v == step[<<m + 1, f[m]>>]
             g == [f EXCEPT ![m + 1] = v]
  <2>2. m + 1 \in 1..n /\ f[m] \in V /\ m \in 0..n /\ m # m + 1 /\ 0 # m + 1
    BY <2>1
  <2>3. v \in V
    BY <2>2
  <2> HIDE DEF v
  <2>4. /\ g \in [0..n -> V] /\ g[m + 1] = v
        /\ \A k \in 0..n : k # m + 1 => g[k] = f[k]
    BY <2>1, <2>2, <2>3
  <2> HIDE DEF g
  <2>5. ASSUME NEW k \in 1..(m + 1) PROVE g[k] = step[<<k, g[k - 1]>>]
    <3>1. k - 1 \in 0..n /\ k - 1 # m + 1 /\ k \in 0..n
      OBVIOUS
    <3>2. g[k - 1] = f[k - 1]
      BY <2>4, <3>1
    <3>3. CASE k = m + 1
      BY <2>4, <3>2, <3>3 DEF v
    <3>4. CASE k # m + 1
      <4>1. k \in 1..m
        BY <3>4
      <4> QED BY <2>1, <2>4, <3>1, <3>2, <3>4, <4>1
    <3> QED BY <3>3, <3>4
  <2>6. g[0] = a
    BY <2>1, <2>2, <2>4
  <2>7. Upto(g, m + 1)
    BY <2>4, <2>5, <2>6
  <2> QED BY <2>2, <2>7
<1>3. n \in P
  <2> HIDE DEF P
  <2> QED BY <1>1, <1>2, UpTo
<1> QED BY <1>3 DEF Recurs

-----------------------------------------------------------------------------
(* Numbers, and sums.                                                      *)

\* The first number of a set, in a loop that ends at n.
LEMMA FirstIs ==
  ASSUME NEW n \in Nat, NEW S
  PROVE  /\ FirstIn(n, S) \in 0..n
         /\ FirstIn(n, S) = n \/ FirstIn(n, S) \in S
         /\ \A j \in 0..(FirstIn(n, S) - 1) : j \notin S
<1> DEFINE T == {k \in 0..n : k = n \/ k \in S}
<1>1. T \subseteq Nat /\ n \in T
  OBVIOUS
<1>2. PICK k \in T : \A m \in T : k <= m
  <2> HIDE DEF T
  <2> QED BY <1>1, LeastNumber
<1>3. k \in 0..n /\ (k = n \/ k \in S) /\ \A j \in 0..(k - 1) : j \notin S
  BY <1>2
<1> HIDE DEF T
<1> QED BY <1>3 DEF FirstIn

\* A set of numbers up to n, with each of which it has those before, is as many as its last.
LEMMA Beginning ==
  ASSUME NEW n \in Nat, NEW S, S \subseteq 1..n, \A i, j \in 1..n : i <= j /\ j \in S => i \in S
  PROVE  Cardinality(S) \in 0..n /\ S = 1..Cardinality(S)
<1> DEFINE T == {k \in 0..n : k = n \/ k + 1 \notin S}
<1>1. T \subseteq Nat /\ n \in T
  OBVIOUS
<1>2. PICK k \in T : \A m \in T : k <= m
  <2> HIDE DEF T
  <2> QED BY <1>1, LeastNumber
<1>3. ASSUME NEW i \in 1..n PROVE i \in S <=> i <= k
  <2>1. CASE i <= k
    <3>1. i - 1 \notin T /\ i - 1 \in 0..n /\ (i - 1) + 1 = i
      BY <1>2, <2>1
    <3> QED BY <2>1, <3>1
  <2>2. CASE ~(i <= k)
    <3>1. k + 1 \notin S /\ k + 1 \in 1..n /\ k + 1 <= i
      BY <1>2, <2>2
    <3> QED BY <2>2, <3>1
  <2> QED BY <2>1, <2>2
<1>4. k \in 0..n
  BY <1>2
<1> HIDE DEF T
<1>5. S = 1..k
  <2>1. ASSUME NEW i \in S PROVE i \in 1..k
    BY <1>3, <1>4
  <2>2. ASSUME NEW i \in 1..k PROVE i \in S
    BY <1>3, <1>4
  <2> QED BY <2>1, <2>2
<1>6. Cardinality(1..k) = k
  BY <1>4, FS_Interval
<1> QED BY <1>4, <1>5, <1>6

-----------------------------------------------------------------------------
(* The heights of items.                                                   *)

Item == [handle : FocusableRows \cup {NoRow}, measured : BOOLEAN, size : Nat]

\* What an item of a list of items is.
LEMMA ItemSizes ==
  ASSUME NEW its \in Seq(Item)
  PROVE  /\ Len(its) \in Nat /\ DOMAIN its = 1..Len(its)
         /\ \A k \in 1..Len(its) : /\ its[k] \in Item /\ its[k].size \in Nat
                                   /\ its[k].handle \in FocusableRows \cup {NoRow}
                                   /\ its[k].measured \in BOOLEAN
<1>1. \A k \in 1..Len(its) : its[k] \in Item
  BY ElementOfSeq
<1>2. \A item \in Item : /\ item.size \in Nat /\ item.handle \in FocusableRows \cup {NoRow}
                        /\ item.measured \in BOOLEAN
  BY DEF Item
<1> QED BY <1>1, <1>2

\* A sum that adds one height while it is below a limit, and another one after it.
Walk(f, n, a, lim, high, low) ==
  f = [k \in 0..n |-> IF k = 0 THEN a ELSE f[k - 1] + (IF f[k - 1] - lim[1] < lim[2] THEN high[k] ELSE low[k])]
Walks(f, n, a, lim, high, low) ==
  /\ f \in [0..n -> Int] /\ f[0] = a
  /\ \A k \in 1..n : f[k] = f[k - 1] + (IF f[k - 1] - lim[1] < lim[2] THEN high[k] ELSE low[k])

\* A sum that adds one height.
Sum(f, n, a, add) == f = [k \in 0..n |-> IF k = 0 THEN a ELSE f[k - 1] + add[k]]
Sums(f, n, a, add) ==
  f \in [0..n -> Int] /\ f[0] = a /\ \A k \in 1..n : f[k] = f[k - 1] + add[k]

\* There is such a sum,
LEMMA WalkExists ==
  ASSUME NEW n \in Nat, NEW a \in Int, NEW lim \in Int \X Int,
         NEW high \in [1..n -> Int], NEW low \in [1..n -> Int]
  PROVE  \E f : Walk(f, n, a, lim, high, low)
<1> DEFINE step == [p \in (1..n) \X Int |-> p[2] + (IF p[2] - lim[1] < lim[2] THEN high[p[1]] ELSE low[p[1]])]
<1>1. lim[1] \in Int /\ lim[2] \in Int
  OBVIOUS
<1>2. ASSUME NEW k \in 1..n, NEW v \in Int
      PROVE  /\ step[<<k, v>>] = v + (IF v - lim[1] < lim[2] THEN high[k] ELSE low[k])
             /\ step[<<k, v>>] \in Int
  <2>1. high[k] \in Int /\ low[k] \in Int
    OBVIOUS
  <2>2. step[<<k, v>>] = v + (IF v - lim[1] < lim[2] THEN high[k] ELSE low[k])
    OBVIOUS
  <2> HIDE DEF step
  <2> QED BY <2>1, <2>2
<1> HIDE DEF step
<1>3. PICK f : Recurs(f, n, Int, a, step)
  BY <1>2, Recursion
<1>4. f \in [0..n -> Int] /\ f[0] = a /\ f = [k \in 0..n |-> f[k]]
  BY <1>3 DEF Recurs
<1>5. ASSUME NEW k \in 1..n
      PROVE  f[k] = f[k - 1] + (IF f[k - 1] - lim[1] < lim[2] THEN high[k] ELSE low[k])
  <2>1. f[k] = step[<<k, f[k - 1]>>] /\ f[k - 1] \in Int
    BY <1>3 DEF Recurs
  <2> QED BY <1>2, <2>1
<1>6. ASSUME NEW k \in 0..n
      PROVE  f[k] = IF k = 0 THEN a ELSE f[k - 1] + (IF f[k - 1] - lim[1] < lim[2] THEN high[k] ELSE low[k])
  <2>1. k = 0 \/ k \in 1..n
    OBVIOUS
  <2> QED BY <1>4, <1>5, <2>1
<1> QED BY <1>4, <1>6 DEF Walk

\* and every one of them is a function to the integers with these values.
LEMMA WalkIs ==
  ASSUME NEW n \in Nat, NEW a \in Int, NEW lim \in Int \X Int,
         NEW high \in [1..n -> Int], NEW low \in [1..n -> Int],
         NEW f, Walk(f, n, a, lim, high, low)
  PROVE  Walks(f, n, a, lim, high, low)
<1> DEFINE g == [k \in 0..n |-> IF k = 0 THEN a ELSE f[k - 1] + (IF f[k - 1] - lim[1] < lim[2] THEN high[k] ELSE low[k])]
           P == {k \in 0..n : f[k] \in Int}
<1>1. /\ DOMAIN g = 0..n /\ g[0] = a /\ g = [k \in 0..n |-> g[k]]
      /\ \A k \in 1..n : g[k] = f[k - 1] + (IF f[k - 1] - lim[1] < lim[2] THEN high[k] ELSE low[k])
  OBVIOUS
<1>2. f = g
  BY DEF Walk
<1> HIDE DEF g
<1>3. 0 \in P
  BY <1>1, <1>2
<1>4. ASSUME NEW k \in 0..(n - 1), k \in P PROVE k + 1 \in P
  <2>1. k + 1 \in 1..n /\ (k + 1) - 1 = k
    OBVIOUS
  <2>2. high[k + 1] \in Int /\ low[k + 1] \in Int
    BY <2>1
  <2>3. f[k + 1] = f[k] + (IF f[k] - lim[1] < lim[2] THEN high[k + 1] ELSE low[k + 1])
    BY <1>1, <1>2, <2>1
  <2>4. f[k + 1] \in Int
    BY <1>4, <2>2, <2>3
  <2> QED BY <2>1, <2>4
<1>5. 0..n \subseteq P
  <2> HIDE DEF P
  <2> QED BY <1>3, <1>4, UpTo
<1>6. f \in [0..n -> Int]
  BY <1>1, <1>2, <1>5
<1> QED BY <1>1, <1>2, <1>6 DEF Walks

\* There is such a sum,
LEMMA SumExists ==
  ASSUME NEW n \in Nat, NEW a \in Int, NEW add \in [1..n -> Int]
  PROVE  \E f : Sum(f, n, a, add)
<1>1. PICK f : Walk(f, n, a, <<0, 0>>, add, add)
  <2>1. <<0, 0>> \in Int \X Int
    OBVIOUS
  <2> QED BY <2>1, WalkExists
<1> DEFINE g == [k \in 0..n |-> IF k = 0 THEN a ELSE f[k - 1] + (IF f[k - 1] - 0 < 0 THEN add[k] ELSE add[k])]
           h == [k \in 0..n |-> IF k = 0 THEN a ELSE f[k - 1] + add[k]]
<1>2. f = g
  BY <1>1 DEF Walk
<1>3. g = h
  OBVIOUS
<1>4. f = h
  BY <1>2, <1>3
<1> QED BY <1>4 DEF Sum

\* and every one of them is a function to the integers with these values.
LEMMA SumIs ==
  ASSUME NEW n \in Nat, NEW a \in Int, NEW add \in [1..n -> Int], NEW f, Sum(f, n, a, add)
  PROVE  Sums(f, n, a, add)
<1> DEFINE h == [k \in 0..n |-> IF k = 0 THEN a ELSE f[k - 1] + add[k]]
           g == [k \in 0..n |-> IF k = 0 THEN a ELSE f[k - 1] + (IF f[k - 1] - 0 < 0 THEN add[k] ELSE add[k])]
<1>1. f = h
  BY DEF Sum
<1>2. g = h
  OBVIOUS
<1>3. Walk(f, n, a, <<0, 0>>, add, add)
  BY <1>1, <1>2 DEF Walk
<1>4. Walks(f, n, a, <<0, 0>>, add, add)
  <2>1. <<0, 0>> \in Int \X Int
    OBVIOUS
  <2> QED BY <1>3, <2>1, WalkIs
<1> QED BY <1>4 DEF Walks, Sums

\* HeightBefore is one sum, whatever number it goes up to.
LEMMA HeightSum ==
  ASSUME NEW its \in Seq(Item)
  PROVE  /\ HeightBefore(its, 0) = 0
         /\ \A n \in 1..Len(its) : HeightBefore(its, n) = HeightBefore(its, n - 1) + its[n].size
         /\ \A n \in 0..Len(its) : HeightBefore(its, n) \in Nat
<1> DEFINE L == Len(its)
           Tall(n) == CHOOSE s : s = [k \in 0..n |-> IF k = 0 THEN 0 ELSE s[k - 1] + its[k].size]
           Body(s, n) == [k \in 0..n |-> IF k = 0 THEN 0 ELSE s[k - 1] + its[k].size]
<1>1. L \in Nat /\ \A k \in 1..L : its[k].size \in Nat
  BY ItemSizes
<1> HIDE DEF L
<1>2. ASSUME NEW n \in 0..L
      PROVE  /\ Tall(n) \in [0..n -> Int] /\ Tall(n)[0] = 0
             /\ \A k \in 1..n : Tall(n)[k] = Tall(n)[k - 1] + its[k].size
  <2> DEFINE add == [k \in 1..n |-> its[k].size]
             b(s) == [k \in 0..n |-> IF k = 0 THEN 0 ELSE s[k - 1] + add[k]]
  <2>1. n \in Nat /\ 0 \in Int /\ add \in [1..n -> Int]
    BY <1>1
  <2>2. \A s : b(s) = Body(s, n)
    OBVIOUS
  <2>3. \A k \in 1..n : add[k] = its[k].size
    OBVIOUS
  <2> HIDE DEF add
  <2>4. PICK f : Sum(f, n, 0, add)
    BY <2>1, SumExists
  <2>5. f = Body(f, n)
    BY <2>2, <2>4 DEF Sum
  <2>6. Tall(n) = Body(Tall(n), n)
    BY <2>5
  <2> HIDE DEF Tall
  <2>7. Sum(Tall(n), n, 0, add)
    BY <2>2, <2>6 DEF Sum
  <2>8. Sums(Tall(n), n, 0, add)
    BY <2>1, <2>7, SumIs
  <2> QED BY <2>3, <2>8 DEF Sums
<1>3. \A n \in 0..L : HeightBefore(its, n) = Tall(n)[n]
  BY DEF HeightBefore
<1> HIDE DEF Tall
<1>4. ASSUME NEW n \in 1..L PROVE Tall(n)[n - 1] = Tall(n - 1)[n - 1]
  <2>1. n \in 0..L /\ n - 1 \in 0..L /\ n - 1 \in Nat
    BY <1>1
  <2> DEFINE P == {k \in 0..(n - 1) : Tall(n)[k] = Tall(n - 1)[k]}
  <2>2. 0 \in P
    BY <1>2, <2>1
  <2>3. ASSUME NEW k \in 0..((n - 1) - 1), k \in P PROVE k + 1 \in P
    <3>1. k + 1 \in 1..n /\ k + 1 \in 1..(n - 1) /\ (k + 1) - 1 = k
      BY <2>1
    <3>2. Tall(n)[k + 1] = Tall(n)[k] + its[k + 1].size /\ Tall(n - 1)[k + 1] = Tall(n - 1)[k] + its[k + 1].size
      BY <1>2, <2>1, <3>1
    <3> QED BY <2>3, <3>1, <3>2
  <2>4. 0..(n - 1) \subseteq P
    <3> HIDE DEF P
    <3> QED BY <2>1, <2>2, <2>3, UpTo
  <2> QED BY <2>1, <2>4
<1>5. HeightBefore(its, 0) = 0
  BY <1>1, <1>2, <1>3
<1>6. ASSUME NEW n \in 1..L PROVE HeightBefore(its, n) = HeightBefore(its, n - 1) + its[n].size
  <2>1. n \in 0..L /\ n - 1 \in 0..L /\ n \in 1..n
    BY <1>1
  <2>2. Tall(n)[n] = Tall(n)[n - 1] + its[n].size
    BY <1>2, <2>1
  <2> QED BY <1>3, <1>4, <2>1, <2>2
<1> DEFINE P == {n \in 0..L : HeightBefore(its, n) \in Nat}
<1>7. 0 \in P
  BY <1>1, <1>5
<1>8. ASSUME NEW n \in 0..(L - 1), n \in P PROVE n + 1 \in P
  <2>1. n + 1 \in 1..L /\ (n + 1) - 1 = n
    BY <1>1
  <2>2. its[n + 1].size \in Nat /\ HeightBefore(its, n) \in Nat /\ n + 1 \in 0..L
    BY <1>1, <1>8, <2>1
  <2>3. HeightBefore(its, n + 1) = HeightBefore(its, n) + its[n + 1].size
    BY <1>6, <2>1
  <2>4. HeightBefore(its, n + 1) \in Nat
    BY <2>2, <2>3
  <2> QED BY <2>2, <2>4
<1>9. 0..L \subseteq P
  <2> HIDE DEF P
  <2> QED BY <1>1, <1>7, <1>8, UpTo
<1> QED BY <1>5, <1>6, <1>9 DEF L

\* More items are no less high.
LEMMA HeightMonotone ==
  ASSUME NEW its \in Seq(Item), NEW i \in 0..Len(its), NEW j \in 0..Len(its), i <= j
  PROVE  HeightBefore(its, i) <= HeightBefore(its, j)
<1> DEFINE L == Len(its)
           P == {d \in 0..(L - i) : HeightBefore(its, i) <= HeightBefore(its, i + d)}
<1>1. L \in Nat /\ \A k \in 1..L : its[k].size \in Nat
  BY ItemSizes
<1>2. /\ \A n \in 1..L : HeightBefore(its, n) = HeightBefore(its, n - 1) + its[n].size
      /\ \A n \in 0..L : HeightBefore(its, n) \in Nat
  BY HeightSum
<1>3. 0 \in P
  BY <1>1, <1>2
<1>4. ASSUME NEW d \in 0..((L - i) - 1), d \in P PROVE d + 1 \in P
  <2>1. i + d \in 0..L /\ i + (d + 1) \in 1..L /\ (i + (d + 1)) - 1 = i + d
    BY <1>1
  <2>2. HeightBefore(its, i + (d + 1)) = HeightBefore(its, i + d) + its[i + (d + 1)].size
    BY <1>2, <2>1
  <2>3. /\ HeightBefore(its, i + d) \in Nat /\ its[i + (d + 1)].size \in Nat
        /\ HeightBefore(its, i) \in Nat /\ HeightBefore(its, i) <= HeightBefore(its, i + d)
    BY <1>1, <1>2, <1>4, <2>1
  <2>4. HeightBefore(its, i) <= HeightBefore(its, i + (d + 1))
    BY <2>2, <2>3, SMTT(30)
  <2> QED BY <2>1, <2>4, <1>4
<1>5. 0..(L - i) \subseteq P
  <2>1. L - i \in Nat
    BY <1>1
  <2> HIDE DEF P, L
  <2> QED BY <1>3, <1>4, <2>1, UpTo
<1>6. j - i \in 0..(L - i) /\ i + (j - i) = j
  BY <1>1
<1> QED BY <1>5, <1>6

\* A seek finds the last item that begins at the height or above it.
LEMMA SeekSound ==
  ASSUME NEW its \in Seq(Item), NEW y \in Nat
  PROVE  /\ SeekRight(its, y) \in 0..Len(its) /\ HeightBefore(its, SeekRight(its, y)) <= y
         /\ SeekLeft(its, y) \in 0..Len(its) /\ HeightBefore(its, SeekLeft(its, y)) <= y
         /\ \A k \in 1..Len(its) : k <= SeekLeft(its, y) <=> HeightBefore(its, k) < y
<1> DEFINE L == Len(its)
           R == {i \in DOMAIN its : HeightBefore(its, i) <= y}
           S == {i \in DOMAIN its : HeightBefore(its, i) < y}
<1>1. L \in Nat /\ DOMAIN its = 1..L
  OBVIOUS
<1>2. HeightBefore(its, 0) = 0 /\ \A n \in 0..L : HeightBefore(its, n) \in Nat
  BY HeightSum
<1>3. \A i, j \in 1..L : i <= j => HeightBefore(its, i) <= HeightBefore(its, j)
  BY HeightMonotone
<1>4. Cardinality(R) \in 0..L /\ R = 1..Cardinality(R)
  <2>1. R \subseteq 1..L
    BY <1>1
  <2>2. \A i, j \in 1..L : i <= j /\ j \in R => i \in R
    BY <1>1, <1>2, <1>3
  <2> HIDE DEF R, L
  <2> QED BY <1>1, <2>1, <2>2, Beginning
<1>5. Cardinality(S) \in 0..L /\ S = 1..Cardinality(S)
  <2>1. S \subseteq 1..L
    BY <1>1
  <2>2. \A i, j \in 1..L : i <= j /\ j \in S => i \in S
    BY <1>1, <1>2, <1>3
  <2> HIDE DEF S, L
  <2> QED BY <1>1, <2>1, <2>2, Beginning
<1>6. HeightBefore(its, Cardinality(R)) <= y
  <2>1. CASE Cardinality(R) = 0
    BY <1>2, <2>1
  <2>2. CASE Cardinality(R) # 0
    <3>1. Cardinality(R) \in R
      <4> HIDE DEF R
      <4> QED BY <1>4, <2>2
    <3> QED BY <3>1
  <2> QED BY <2>1, <2>2
<1>7. HeightBefore(its, Cardinality(S)) <= y
  <2>1. CASE Cardinality(S) = 0
    BY <1>2, <2>1
  <2>2. CASE Cardinality(S) # 0
    <3>1. Cardinality(S) \in S
      <4> HIDE DEF S
      <4> QED BY <1>5, <2>2
    <3>2. HeightBefore(its, Cardinality(S)) < y /\ HeightBefore(its, Cardinality(S)) \in Nat
      BY <1>2, <1>5, <3>1
    <3> QED BY <3>2
  <2> QED BY <2>1, <2>2
<1>8. ASSUME NEW k \in 1..L PROVE k <= Cardinality(S) <=> HeightBefore(its, k) < y
  <2> DEFINE c == Cardinality(S)
  <2>1. k \in S <=> HeightBefore(its, k) < y
    BY <1>1
  <2>2. c \in 0..L /\ S = 1..c
    BY <1>5
  <2> HIDE DEF S, c
  <2> QED BY <1>1, <2>1, <2>2 DEF c
<1> QED BY <1>4, <1>5, <1>6, <1>7, <1>8 DEF SeekRight, SeekLeft

-----------------------------------------------------------------------------
(* Layout.                                                                 *)

AllWidths == Widths \cup {MinWidth}
Real(rs, i, width) == RowHeight[rs[i], width]

\* The rows with their real heights, and the height of the first k of them.
RealItems(rs, width) == [i \in DOMAIN rs |-> Measured(Unmeasured(NoRow), Real(rs, i, width))]
RealTo(rs, width, k) == HeightBefore(RealItems(rs, width), k)

\* What measuring an item, and forgetting its height, leaves of it.
LEMMA MeasuredIs ==
  ASSUME NEW item \in Item, NEW size \in Nat
  PROVE  /\ Measured(item, size) \in Item /\ Measured(item, size).size = size
         /\ Measured(item, size).handle = item.handle /\ Measured(item, size).measured
         /\ (item.measured /\ item.size = size => Measured(item, size) = item)
BY DEF Measured, Item

\* An item that was never measured.
LEMMA UnmeasuredIs ==
  ASSUME NEW handle \in FocusableRows \cup {NoRow}
  PROVE  /\ Unmeasured(handle) \in Item /\ Unmeasured(handle).handle = handle
         /\ ~Unmeasured(handle).measured
BY DEF Unmeasured, Item

\* The real heights of rows are a sum of numbers.
LEMMA RealHeights ==
  ASSUME rows \in Seq(Rows), NEW width \in AllWidths
  PROVE  /\ Len(rows) \in Nat /\ RealTo(rows, width, 0) = 0
         /\ \A k \in 1..Len(rows) : /\ Real(rows, k, width) \in Nat
                                    /\ RealTo(rows, width, k) = RealTo(rows, width, k - 1) + Real(rows, k, width)
         /\ \A k \in 0..Len(rows) : RealTo(rows, width, k) \in Nat
         /\ \A j, k \in 0..Len(rows) : j <= k => RealTo(rows, width, j) <= RealTo(rows, width, k)
<1> DEFINE its == RealItems(rows, width)
           n == Len(rows)
<1>1. n \in Nat /\ DOMAIN rows = 1..n
  OBVIOUS
<1>2. \A k \in 1..n : Real(rows, k, width) \in Nat
  <2>1. \A k \in 1..n : rows[k] \in Rows
    BY ElementOfSeq
  <2> QED BY <2>1, ListAssumption DEF Real, AllWidths
<1>3. Unmeasured(NoRow) \in Item
  BY UnmeasuredIs
<1>4. its = [k \in 1..n |-> Measured(Unmeasured(NoRow), Real(rows, k, width))]
  BY <1>1 DEF RealItems
<1>5. ASSUME NEW k \in 1..n PROVE its[k] \in Item /\ its[k].size = Real(rows, k, width)
  <2>1. its[k] = Measured(Unmeasured(NoRow), Real(rows, k, width))
    BY <1>4
  <2>2. Real(rows, k, width) \in Nat
    BY <1>2
  <2> DEFINE item == Unmeasured(NoRow)
             height == Real(rows, k, width)
  <2>3. item \in Item /\ height \in Nat /\ its[k] = Measured(item, height)
    BY <1>3, <2>1, <2>2
  <2> HIDE DEF its, n, item, height
  <2>4. its[k] \in Item /\ its[k].size = height
    BY <2>3, MeasuredIs
  <2> QED BY <2>4 DEF height
<1>6. its \in Seq(Item) /\ Len(its) = n
  <2>1. its \in [1..n -> Item]
    BY <1>4, <1>5
  <2> HIDE DEF its
  <2> QED BY <1>1, <2>1
<1> HIDE DEF its, n
<1> QED BY <1>1, <1>2, <1>5, <1>6, HeightSum, HeightMonotone DEF its, n, RealTo

\* The loop of layout_items that goes down from the scroll top.
GoesDown(width, ix, off, height, high, low, y, down, seen) ==
  LET m == Len(rows) - ix IN
  /\ ix \in 0..Len(rows) /\ off \in Int
  /\ high = [k \in 1..m |-> Real(rows, ix + k, width)] /\ low \in [1..m -> Nat]
  /\ Walks(y, m, PadTop, <<off, height>>, high, low)
  /\ down = FirstIn(m, {k \in 0..m : y[k] - off >= height + Overdraw})
  /\ seen = Cardinality({k \in 1..down : y[k - 1] - off < height})

\* The way down from the scroll top: as far as it is seen it measures real heights, and it
\* ends with the rows, or below the viewport.
LEMMA WayDown ==
  ASSUME rows \in Seq(Rows), NEW width \in AllWidths, NEW height \in Nat,
         NEW ix, NEW off, NEW high, NEW low, NEW y, NEW down, NEW seen,
         GoesDown(width, ix, off, height, high, low, y, down, seen)
  PROVE  /\ down \in 0..(Len(rows) - ix) /\ seen \in 0..down
         /\ \A k \in 0..(Len(rows) - ix) : y[k] \in Int
         /\ y[seen] = PadTop + RealTo(rows, width, ix + seen) - RealTo(rows, width, ix)
         /\ y[seen] <= y[down]
         /\ \/ seen = down /\ down = Len(rows) - ix
            \/ y[seen] - off >= height
<1> DEFINE m == Len(rows) - ix
           S == {k \in 1..down : y[k - 1] - off < height}
<1>1. /\ high = [k \in 1..m |-> Real(rows, ix + k, width)] /\ low \in [1..m -> Nat]
       /\ Walks(y, m, PadTop, <<off, height>>, high, low)
       /\ down = FirstIn(m, {k \in 0..m : y[k] - off >= height + Overdraw})
       /\ seen = Cardinality(S)
  BY DEF GoesDown
<1>2. ix \in 0..Len(rows) /\ off \in Int
  BY DEF GoesDown
<1>3. /\ Len(rows) \in Nat
      /\ \A k \in 1..Len(rows) : /\ Real(rows, k, width) \in Nat
                                 /\ RealTo(rows, width, k) = RealTo(rows, width, k - 1) + Real(rows, k, width)
      /\ \A k \in 0..Len(rows) : RealTo(rows, width, k) \in Nat
  BY RealHeights
<1>4. m \in Nat /\ PadTop \in Nat /\ Overdraw \in Nat
  BY <1>2, <1>3, ListAssumption
<1>5. \A k \in 1..m : ix + k \in 1..Len(rows) /\ high[k] = Real(rows, ix + k, width) /\ high[k] \in Nat /\ low[k] \in Nat
  <2>1. ASSUME NEW k \in 1..m
        PROVE  ix + k \in 1..Len(rows) /\ high[k] = Real(rows, ix + k, width) /\ low[k] \in Nat
    <3>1. ix + k \in 1..Len(rows)
      BY <1>2, <1>3
    <3> QED BY <1>1, <3>1
  <2> QED BY <1>2, <1>3, <2>1
<1>6. /\ y \in [0..m -> Int] /\ y[0] = PadTop
      /\ \A k \in 1..m : y[k] = y[k - 1] + (IF y[k - 1] - off < height THEN high[k] ELSE low[k])
  BY <1>1 DEF Walks
<1>7. /\ down \in 0..m /\ (down = m \/ y[down] - off >= height + Overdraw)
  BY <1>1, <1>4, FirstIs
<1> HIDE DEF m
<1>8. ASSUME NEW k \in 1..m PROVE y[k - 1] <= y[k]
  <2>1. k - 1 \in 0..m
    BY <1>2, <1>4
  <2>2. high[k] \in Nat /\ low[k] \in Nat
    BY <1>5
  <2>3. y[k] = y[k - 1] + high[k] \/ y[k] = y[k - 1] + low[k]
    BY <1>2, <1>6
  <2>4. y[k - 1] \in Int
    BY <1>2, <1>6, <2>1
  <2> QED BY <2>2, <2>3, <2>4
<1>9. ASSUME NEW i \in 0..m PROVE \A j \in i..m : y[i] <= y[j]
  <2> DEFINE Q == {d \in 0..(m - i) : y[i] <= y[i + d]}
  <2>1. 0 \in Q
    <3>1. y[i] \in Int /\ i + 0 = i /\ 0 \in 0..(m - i)
      BY <1>2, <1>4, <1>6
    <3> QED BY <3>1
  <2>2. ASSUME NEW d \in 0..((m - i) - 1), d \in Q PROVE d + 1 \in Q
    <3>1. i + (d + 1) \in 1..m /\ (i + (d + 1)) - 1 = i + d /\ i + d \in 0..m /\ i + (d + 1) \in 0..m
      BY <1>2, <1>4
    <3>2. y[i + d] <= y[i + (d + 1)]
      BY <1>8, <3>1
    <3>3. y[i] \in Int /\ y[i + d] \in Int /\ y[i + (d + 1)] \in Int
      BY <1>2, <1>6, <3>1
    <3>4. y[i] <= y[i + d]
      BY <2>2
    <3>5. y[i] <= y[i + (d + 1)] /\ d + 1 \in 0..(m - i)
      BY <1>2, <1>4, <3>2, <3>3, <3>4
    <3> QED BY <3>5
  <2>3. 0..(m - i) \subseteq Q
    <3>1. m - i \in Nat
      BY <1>2, <1>4
    <3> HIDE DEF Q
    <3> QED BY <2>1, <2>2, <3>1, UpTo
  <2>4. ASSUME NEW j \in i..m PROVE y[i] <= y[j]
    <3>1. j - i \in 0..(m - i) /\ i + (j - i) = j
      BY <1>2, <1>4
    <3> QED BY <2>3, <3>1
  <2> QED BY <2>4
<1>10. seen \in 0..down /\ S = 1..seen
  <2>1. S \subseteq 1..down /\ down \in Nat
    BY <1>2, <1>4, <1>7
  <2>2. ASSUME NEW i \in 1..down, NEW j \in 1..down, i <= j, j \in S PROVE i \in S
    <3>1. i - 1 \in 0..m /\ j - 1 \in (i - 1)..m /\ j - 1 \in 0..m
      BY <1>2, <1>4, <1>7, <2>2
    <3>2. y[i - 1] <= y[j - 1] /\ y[i - 1] \in Int /\ y[j - 1] \in Int /\ y[j - 1] - off < height
      BY <1>2, <1>6, <1>9, <2>2, <3>1
    <3>3. y[i - 1] - off < height
      BY <1>2, <3>2
    <3> QED BY <3>3
  <2>3. seen = Cardinality(S)
    BY <1>1
  <2>4. \A i, j \in 1..down : i <= j /\ j \in S => i \in S
    <3> HIDE DEF S
    <3> QED BY <2>2
  <2> HIDE DEF S
  <2>5. Cardinality(S) \in 0..down /\ S = 1..Cardinality(S)
    BY <2>1, <2>4, Beginning
  <2> QED BY <2>3, <2>5
<1>11. \A k \in 1..seen : y[k - 1] - off < height
  BY <1>10
<1>12. seen = down \/ y[seen] - off >= height
  <2> SUFFICES ASSUME seen # down, ~(y[seen] - off >= height) PROVE FALSE
    OBVIOUS
  <2>1. seen + 1 \in 1..down /\ (seen + 1) - 1 = seen /\ seen \in 0..m
    BY <1>2, <1>4, <1>7, <1>10
  <2>2. y[seen] \in Int
    BY <1>2, <1>6, <2>1
  <2>3. seen + 1 \in S
    <3>1. y[(seen + 1) - 1] - off < height
      BY <1>2, <2>1, <2>2
    <3> QED BY <2>1, <3>1
  <2>4. seen + 1 \in 1..seen
    BY <1>10, <2>3
  <2> QED BY <1>10, <2>4
<1> HIDE DEF S
<1>13. y[seen] = PadTop + RealTo(rows, width, ix + seen) - RealTo(rows, width, ix)
  <2> DEFINE Q == {k \in 0..seen : y[k] = PadTop + RealTo(rows, width, ix + k) - RealTo(rows, width, ix)}
  <2>1. 0 \in Q
    <3>1. RealTo(rows, width, ix) \in Nat /\ ix + 0 = ix /\ 0 \in 0..seen
      BY <1>2, <1>3, <1>4, <1>7, <1>10
    <3> QED BY <1>2, <1>4, <1>6, <3>1
  <2>2. ASSUME NEW k \in 0..(seen - 1), k \in Q PROVE k + 1 \in Q
    <3>1. k + 1 \in 1..seen /\ (k + 1) - 1 = k /\ k + 1 \in 1..m /\ k + 1 \in 0..seen
      BY <1>2, <1>4, <1>7, <1>10
    <3>2. /\ k + 1 \in 1..seen /\ (k + 1) - 1 = k /\ k + 1 \in 1..m /\ ix + (k + 1) \in 1..Len(rows)
          /\ (ix + (k + 1)) - 1 = ix + k /\ ix + k \in 0..Len(rows) /\ k + 1 \in 0..seen
      <4>1. ix + (k + 1) \in 1..Len(rows)
        BY <1>5, <3>1
      <4> QED BY <1>2, <1>3, <3>1, <4>1
    <3>3. y[k + 1] = y[k] + Real(rows, ix + (k + 1), width)
      BY <1>5, <1>6, <1>11, <3>2
    <3>4. RealTo(rows, width, ix + (k + 1)) = RealTo(rows, width, ix + k) + Real(rows, ix + (k + 1), width)
      BY <1>2, <1>3, <3>2
    <3>5. /\ RealTo(rows, width, ix) \in Nat /\ RealTo(rows, width, ix + k) \in Nat
          /\ Real(rows, ix + (k + 1), width) \in Nat
      BY <1>2, <1>3, <3>2
    <3>6. y[k + 1] = PadTop + RealTo(rows, width, ix + (k + 1)) - RealTo(rows, width, ix)
      BY <1>2, <1>4, <2>2, <3>3, <3>4, <3>5
    <3> QED BY <3>2, <3>6
  <2>3. 0..seen \subseteq Q
    <3>1. seen \in Nat
      BY <1>10
    <3> HIDE DEF Q
    <3> QED BY <2>1, <2>2, <3>1, UpTo
  <2>4. seen \in 0..seen
    BY <1>10
  <2> QED BY <2>3, <2>4
<1>14. y[seen] <= y[down]
  BY <1>2, <1>4, <1>7, <1>9, <1>10
<1>15. y[down] - off >= height + Overdraw => (seen = down => y[seen] - off >= height)
  <2>1. y[down] \in Int
    BY <1>2, <1>6, <1>7
  <2> QED BY <1>2, <1>4, <2>1
<1> QED BY <1>2, <1>6, <1>7, <1>10, <1>12, <1>13, <1>14, <1>15 DEF m

\* The way up adds the real heights of the rows above.
LEMMA WayUp ==
  ASSUME rows \in Seq(Rows), NEW width \in AllWidths, NEW ix \in 0..Len(rows), NEW extent \in Int,
         NEW add, add = [k \in 1..ix |-> Real(rows, ix - k + 1, width)],
         NEW filled, Sums(filled, ix, extent, add)
  PROVE  \A k \in 0..ix : /\ filled[k] \in Int
                          /\ filled[k] = extent + RealTo(rows, width, ix) - RealTo(rows, width, ix - k)
<1> DEFINE Q == {k \in 0..ix : filled[k] = extent + RealTo(rows, width, ix) - RealTo(rows, width, ix - k)}
<1>1. /\ Len(rows) \in Nat
      /\ \A k \in 1..Len(rows) : /\ Real(rows, k, width) \in Nat
                                 /\ RealTo(rows, width, k) = RealTo(rows, width, k - 1) + Real(rows, k, width)
      /\ \A k \in 0..Len(rows) : RealTo(rows, width, k) \in Nat
  BY RealHeights
<1>2. /\ filled \in [0..ix -> Int] /\ filled[0] = extent
      /\ \A k \in 1..ix : filled[k] = filled[k - 1] + Real(rows, ix - k + 1, width)
  BY DEF Sums
<1>3. 0 \in Q
  <2>1. RealTo(rows, width, ix) \in Nat /\ ix - 0 = ix /\ 0 \in 0..ix
    BY <1>1
  <2> QED BY <1>2, <2>1
<1>4. ASSUME NEW k \in 0..(ix - 1), k \in Q PROVE k + 1 \in Q
  <2>1. /\ k + 1 \in 1..ix /\ (k + 1) - 1 = k /\ ix - (k + 1) + 1 = ix - k /\ ix - k \in 1..Len(rows)
        /\ (ix - k) - 1 = ix - (k + 1) /\ ix - (k + 1) \in 0..Len(rows) /\ k + 1 \in 0..ix
    BY <1>1
  <2>2. filled[k + 1] = filled[k] + Real(rows, ix - k, width)
    BY <1>2, <2>1
  <2>3. RealTo(rows, width, ix - k) = RealTo(rows, width, ix - (k + 1)) + Real(rows, ix - k, width)
    BY <1>1, <2>1
  <2>4. /\ RealTo(rows, width, ix) \in Nat /\ RealTo(rows, width, ix - (k + 1)) \in Nat
        /\ Real(rows, ix - k, width) \in Nat
    BY <1>1, <2>1
  <2>5. filled[k] = extent + RealTo(rows, width, ix) - RealTo(rows, width, ix - k)
    BY <1>4
  <2>6. filled[k + 1] = extent + RealTo(rows, width, ix) - RealTo(rows, width, ix - (k + 1))
    BY <2>2, <2>3, <2>4, <2>5
  <2> QED BY <2>1, <2>6
<1>5. 0..ix \subseteq Q
  <2>1. ix \in Nat
    BY <1>1
  <2> HIDE DEF Q
  <2> QED BY <1>3, <1>4, <2>1, UpTo
<1> QED BY <1>2, <1>5

\* The focused row is rendered, and no row that there is none of.
ShowsAll(shown, focusedAt, numbers) ==
  shown \in Seq(numbers) /\ \A i \in focusedAt : \E k \in DOMAIN shown : shown[k] = i - 1

\* The rows that layout_items returns are rows of the list and hold the focused one.
LEMMA WithFocusedIs ==
  ASSUME NEW n \in Nat, NEW numbers, numbers = 0..(n - 1), NEW visible \in Seq(numbers),
         NEW focusedAt, focusedAt \subseteq 1..n, \A i, j \in focusedAt : i = j
  PROVE  ShowsAll(WithFocused(visible, focusedAt), focusedAt, numbers)
<1>1. CASE focusedAt = {}
  BY <1>1 DEF WithFocused, ShowsAll
<1>2. CASE focusedAt # {} /\ \E k \in DOMAIN visible : visible[k] + 1 \in focusedAt
  <2>1. PICK k \in DOMAIN visible : visible[k] + 1 \in focusedAt
    BY <1>2
  <2>2. WithFocused(visible, focusedAt) = visible /\ visible[k] \in 0..(n - 1)
    BY <1>2 DEF WithFocused
  <2>3. \A i \in focusedAt : visible[k] = i - 1
    <3> SUFFICES ASSUME NEW i \in focusedAt PROVE visible[k] = i - 1
      OBVIOUS
    <3>1. i = visible[k] + 1
      BY <2>1
    <3> QED BY <2>2, <3>1
  <2> QED BY <2>1, <2>2, <2>3 DEF ShowsAll
<1>3. CASE focusedAt # {} /\ ~\E k \in DOMAIN visible : visible[k] + 1 \in focusedAt
  <2>1. PICK f \in focusedAt : TRUE
    BY <1>3
  <2>2. focusedAt = {f} /\ f \in 1..n
    BY <2>1
  <2> DEFINE c == CHOOSE i \in focusedAt : \A j \in focusedAt : i <= j
  <2>3. c = f
    <3>1. \E i \in focusedAt : \A j \in focusedAt : i <= j
      BY <2>2
    <3>2. c \in focusedAt
      BY <3>1
    <3> QED BY <2>2, <3>2
  <2>4. WithFocused(visible, focusedAt) = Append(visible, c - 1)
    BY <1>3 DEF WithFocused
  <2> HIDE DEF c
  <2>5. WithFocused(visible, focusedAt) = Append(visible, f - 1) /\ f - 1 \in 0..(n - 1)
    <3>1. f - 1 \in 0..(n - 1)
      BY <2>2
    <3> QED BY <2>3, <2>4, <3>1
  <2>6. /\ Append(visible, f - 1) \in Seq(0..(n - 1))
        /\ Len(visible) + 1 \in DOMAIN Append(visible, f - 1)
        /\ Append(visible, f - 1)[Len(visible) + 1] = f - 1
    BY <2>5
  <2> QED BY <2>2, <2>5, <2>6 DEF ShowsAll
<1> QED BY <1>1, <1>2, <1>3

\* Where the rows of a layout that are seen end.
EdgeOf(rs, layout, width) ==
  PadTop - layout.top.offset + RealTo(rs, width, layout.top.ix + layout.visible)
    - RealTo(rs, width, layout.top.ix)

Position == [ix : 0..Len(rows), offset : Int]

\* What a layout is to be.
KeepsItems(its, new, width) ==
  /\ new \in Seq(Item) /\ Len(new) = Len(rows)
  /\ \A i \in 1..Len(rows) : new[i] = its[i] \/ new[i] = Measured(its[i], Real(rows, i, width))
Places(layout) ==
  /\ layout.scroll = NoOffset \/ layout.scroll \in Position
  /\ layout.top \in Position /\ layout.visible \in Nat
  /\ layout.top.ix + layout.visible <= Len(rows)
  /\ layout.shown \in Seq(0..(Len(rows) - 1))
Fills(rs, layout, width, height) ==
  /\ layout.top.ix + layout.visible = Len(rs) \/ EdgeOf(rs, layout, width) >= height
  /\ layout.top.ix = 0 \/ EdgeOf(rs, layout, width) + PadBottom >= height
AtEnd(rs, layout, width, height) ==
  layout.top.ix + layout.visible = Len(rs) /\ EdgeOf(rs, layout, width) + PadBottom = height
Pinned(layout, width, height) ==
  alignment # "Top" /\ layout.scroll = NoOffset /\ height >= PadTop + PadBottom =>
    AtEnd(rows, layout, width, height)
ShowsFocused(layout, its) ==
  \A i \in 1..Len(rows) : ContainsFocused(its[i]) => \E k \in DOMAIN layout.shown : layout.shown[k] = i - 1

GoodItems(rs, its) ==
  /\ its \in Seq(Item) /\ Len(its) = Len(rs)
  /\ \A i \in 1..Len(rs) : its[i].handle \in {NoRow, rs[i]}
GoodRows(rs) == rs \in Seq(Rows) /\ Ordered(rs)

IsLayout(layout, its, width, height) ==
  /\ KeepsItems(its, layout.items, width) /\ Places(layout) /\ Fills(rows, layout, width, height)
  /\ Pinned(layout, width, height) /\ ShowsFocused(layout, its)

FocusedIn(its) == {i \in 1..Len(rows) : ContainsFocused(its[i])}

\* Where a row begins in a viewport that has `top` at its top.
RowAt(rs, top, i, width) ==
  PadTop - top.offset + RealTo(rs, width, i) - RealTo(rs, width, top.ix)

\* The rows that are seen are laid out first, in their order.
InOrder(layout) ==
  /\ layout.visible <= Len(layout.shown)
  /\ \A k \in 1..layout.visible : layout.shown[k] = layout.top.ix + k - 1

\* Rows that fill the viewport are left where they are; others are moved down, to the end of
\* the viewport or as far as there are rows.
Reaches(rs, top, width, height) == RowAt(rs, top, Len(rs), width) + PadBottom >= height
Stays(layout, start, scroll, width, height) ==
  layout.top = start /\ layout.scroll = scroll /\ Reaches(rows, start, width, height)
Moves(layout, start, width, height) ==
  /\ layout.top.ix <= start.ix /\ layout.top.ix + layout.visible = Len(rows)
  /\ layout.scroll = Adjusted(layout.top)
  /\ layout.top.ix = 0 \/ layout.top.offset >= 0
  /\ alignment = "Top" => layout.top.offset >= 0
  /\ RowAt(rows, start, Len(rows), width) + PadBottom < height
  /\ \/ RowAt(rows, layout.top, Len(rows), width) + PadBottom = height
     \/ /\ alignment = "Top" /\ layout.top.ix = 0 /\ layout.top.offset = 0
        /\ RowAt(rows, layout.top, Len(rows), width) + PadBottom <= height

\* The places of the rows, from any place at the top of the viewport.
LEMMA RowsAt ==
  ASSUME rows \in Seq(Rows), NEW width \in AllWidths, NEW top \in Position
  PROVE  /\ \A i \in 0..Len(rows) : /\ RowAt(rows, top, i, width) \in Int
                                    /\ RowAt(rows, top, i, width) - RowAt(rows, top, 0, width) = RealTo(rows, width, i)
         /\ \A i, j \in 0..Len(rows) : i <= j => RowAt(rows, top, i, width) <= RowAt(rows, top, j, width)
         /\ \A i \in 0..(Len(rows) - 1) :
              RowAt(rows, top, i + 1, width) = RowAt(rows, top, i, width) + Real(rows, i + 1, width)
         /\ RowAt(rows, top, top.ix, width) = PadTop - top.offset
         /\ top.offset \in Int /\ top.ix \in 0..Len(rows) /\ Len(rows) \in Nat
<1> DEFINE R(i) == RealTo(rows, width, i)
           n == Len(rows)
<1>1. /\ top.ix \in 0..n /\ top.offset \in Int /\ n \in Nat /\ PadTop \in Nat
  BY ListAssumption DEF Position
<1>2. /\ \A i \in 0..n : R(i) \in Nat
      /\ R(0) = 0
      /\ \A i, j \in 0..n : i <= j => R(i) <= R(j)
      /\ \A i \in 1..n : R(i) = R(i - 1) + Real(rows, i, width) /\ Real(rows, i, width) \in Nat
  BY RealHeights
<1>3. \A i : RowAt(rows, top, i, width) = PadTop - top.offset + R(i) - R(top.ix)
  BY DEF RowAt
<1> HIDE DEF R, n
<1>4. ASSUME NEW i \in 0..(n - 1) PROVE R(i + 1) = R(i) + Real(rows, i + 1, width) /\ Real(rows, i + 1, width) \in Nat
  <2>1. i + 1 \in 1..n /\ (i + 1) - 1 = i
    BY <1>1
  <2> QED BY <1>2, <2>1
<1>5. ASSUME NEW i \in 0..n
      PROVE  /\ RowAt(rows, top, i, width) \in Int
             /\ RowAt(rows, top, i, width) - RowAt(rows, top, 0, width) = R(i)
  <2>1. R(i) \in Nat /\ R(top.ix) \in Nat /\ 0 \in 0..n
    BY <1>1, <1>2
  <2>2. R(0) = 0
    BY <1>2
  <2> QED BY <1>1, <1>3, <2>1, <2>2, SMTT(30)
<1>6. ASSUME NEW i \in 0..n, NEW j \in 0..n, i <= j
      PROVE  RowAt(rows, top, i, width) <= RowAt(rows, top, j, width)
  <2>1. R(i) \in Nat /\ R(j) \in Nat /\ R(top.ix) \in Nat /\ R(i) <= R(j)
    BY <1>1, <1>2, <1>6
  <2> QED BY <1>1, <1>3, <2>1, SMTT(30)
<1>7. ASSUME NEW i \in 0..(n - 1)
      PROVE  RowAt(rows, top, i + 1, width) = RowAt(rows, top, i, width) + Real(rows, i + 1, width)
  <2>1. R(i) \in Nat /\ R(top.ix) \in Nat
    BY <1>1, <1>2
  <2> QED BY <1>1, <1>3, <1>4, <2>1, SMTT(30)
<1>8. RowAt(rows, top, top.ix, width) = PadTop - top.offset
  <2>1. R(top.ix) \in Nat
    BY <1>1, <1>2
  <2> QED BY <1>1, <1>3, <2>1
<1> QED BY <1>1, <1>5, <1>6, <1>7, <1>8 DEF R, n

\* There is one focused row at most, as the rows and so their handles are different.
LEMMA ShownIs ==
  ASSUME GoodRows(rows), NEW its, GoodItems(rows, its), NEW visible \in Seq(0..(Len(rows) - 1))
  PROVE  LET shown == WithFocused(visible, FocusedIn(its))
         IN /\ shown \in Seq(0..(Len(rows) - 1))
            /\ \A i \in 1..Len(rows) :
                 ContainsFocused(its[i]) => \E k \in DOMAIN shown : shown[k] = i - 1
<1> DEFINE n == Len(rows)
           focusedAt == FocusedIn(its)
           shown == WithFocused(visible, focusedAt)
<1>1. n \in Nat /\ rows \in Seq(Rows) /\ Ordered(rows) /\ DOMAIN rows = 1..n /\ Rows \subseteq Nat
  BY ListAssumption DEF GoodRows
<1>2. focusedAt \subseteq 1..n /\ \A i \in 1..n : ContainsFocused(its[i]) => i \in focusedAt
  BY DEF FocusedIn
<1>3. ASSUME NEW i \in focusedAt, NEW j \in focusedAt PROVE i = j
  <2>1. /\ i \in 1..n /\ j \in 1..n /\ its[i].handle = its[j].handle /\ its[i].handle # NoRow
    BY DEF ContainsFocused, FocusedIn
  <2>2. its[i].handle = rows[i] /\ its[j].handle = rows[j]
    BY <2>1 DEF GoodItems
  <2>3. rows[i] \in Nat /\ rows[i] = rows[j]
    <3>1. rows[i] \in Rows
      BY <1>1, <2>1, ElementOfSeq
    <3> QED BY <1>1, <2>1, <2>2, <3>1
  <2>4. ~(rows[i] < rows[j]) /\ ~(rows[j] < rows[i])
    BY <2>3
  <2>5. (i < j => rows[i] < rows[j]) /\ (j < i => rows[j] < rows[i])
    BY <1>1, <2>1 DEF Ordered
  <2> HIDE DEF n
  <2> QED BY <1>1, <2>1, <2>4, <2>5
<1> HIDE DEF n, focusedAt
<1>4. visible \in Seq(0..(n - 1))
  BY DEF n
<1>5. \A i, j \in focusedAt : i = j
  BY <1>3
<1>6. ShowsAll(shown, focusedAt, 0..(n - 1))
  BY <1>1, <1>2, <1>4, <1>5, WithFocusedIs
<1> QED BY <1>2, <1>6 DEF n, focusedAt, ShowsAll

\* What one run of layout_items makes of rows, items and viewport: it keeps the items but for
\* real heights, lays out rows of the list, fills the viewport and shows the focused row.
LEMMA LayoutSound ==
  ASSUME GoodRows(rows), NEW its, GoodItems(rows, its), NEW width \in AllWidths, NEW height \in Nat,
         NEW scroll, scroll = NoOffset \/ scroll \in Position
  PROVE  LET layout == LayoutItems(its, scroll, width, height)
             start == LogicalTop(its, scroll)
         IN /\ IsLayout(layout, its, width, height) /\ InOrder(layout)
            /\ Stays(layout, start, scroll, width, height) \/ Moves(layout, start, width, height)
<1> DEFINE n == Len(its)
           start == LogicalTop(its, scroll)
           ix == Min2(start.ix, n)
           Known(i) == IF its[i].measured THEN its[i].size ELSE RowHeight[rows[i], width]
           Below(i, h) == IF h - start.offset < height THEN RowHeight[rows[i], width] ELSE Known(i)
           y == CHOOSE f : f = [k \in 0..(n - ix) |->
                  IF k = 0 THEN PadTop ELSE LET above == f[k - 1] IN above + Below(ix + k, above)]
           down == FirstIn(n - ix, {k \in 0..(n - ix) : y[k] - start.offset >= height + Overdraw})
           seen == Cardinality({k \in 1..down : y[k - 1] - start.offset < height})
           extent == y[down] + PadBottom
           short == FallsShort(extent, start.offset, height)
           filled == CHOOSE f : f = [k \in 0..ix |->
                       IF k = 0 THEN extent ELSE f[k - 1] + RowHeight[rows[ix - k + 1], width]]
           up == IF short THEN FirstIn(ix, {k \in 0..ix : filled[k] >= height}) ELSE 0
           top == IF ~short THEN start ELSE [ix |-> ix - up, offset |-> StartsAt(filled[up] - height)]
           first == ix - up
           led == CHOOSE f : f = [k \in 0..first |->
                    IF k = 0 THEN top.offset ELSE f[k - 1] + Known(first - k + 1)]
           lead == FirstIn(first, {k \in 0..first : led[k] >= Overdraw})
           size(i) == CASE i <= first -> Known(i)
                        [] i \in (first + 1)..ix -> RowHeight[rows[i], width]
                        [] OTHER -> Below(i, y[i - ix - 1])
           new == [i \in 1..n |-> IF i \in (first - lead + 1)..(ix + down)
                                  THEN Measured(its[i], size(i)) ELSE its[i]]
           visible == [k \in 1..(up + seen) |-> first + k - 1]
           layout == LayoutItems(its, scroll, width, height)
<1>1. layout = [items |-> new,
                scroll |-> IF short THEN Adjusted(top) ELSE scroll,
                top |-> top,
                visible |-> Len(visible),
                shown |-> WithFocused(visible, {i \in 1..n : ContainsFocused(its[i])})]
  BY DEF LayoutItems
<1>2. /\ n = Len(rows) /\ n \in Nat /\ PadTop \in Nat /\ PadBottom \in Nat /\ Overdraw \in Nat
      /\ \A i \in 1..n : its[i] \in Item /\ its[i].size \in Nat /\ its[i].measured \in BOOLEAN
  BY ItemSizes, ListAssumption DEF GoodItems
<1>3. start \in Position /\ ix = start.ix /\ ix \in 0..n /\ start.offset \in Int
  <2>1. start \in Position
    BY <1>2 DEF LogicalTop, Position
  <2> HIDE DEF start
  <2> QED BY <1>2, <2>1 DEF Position, Min2
<1>4. \A i \in 1..n : Real(rows, i, width) \in Nat /\ Known(i) \in Nat
  <2>1. \A i \in 1..n : Real(rows, i, width) \in Nat
    BY <1>2, RealHeights DEF GoodRows
  <2> QED BY <1>2, <2>1 DEF Real
<1> DEFINE high == [k \in 1..(n - ix) |-> Real(rows, ix + k, width)]
           low == [k \in 1..(n - ix) |-> Known(ix + k)]
<1> HIDE DEF start, n, ix
<1>5. high \in [1..(n - ix) -> Nat] /\ low \in [1..(n - ix) -> Nat] /\ n - ix \in Nat
  <2>1. n - ix \in Nat
    BY <1>2, <1>3
  <2>2. ASSUME NEW k \in 1..(n - ix) PROVE Real(rows, ix + k, width) \in Nat /\ Known(ix + k) \in Nat
    <3>1. ix + k \in 1..n
      BY <1>2, <1>3
    <3> HIDE DEF Known
    <3> QED BY <1>4, <3>1
  <2> HIDE DEF Known
  <2> QED BY <2>1, <2>2
<1>6. Walks(y, n - ix, PadTop, <<start.offset, height>>, high, low)
  <2> DEFINE m == n - ix
             lim == <<start.offset, height>>
             body(f) == [k \in 0..m |->
               IF k = 0 THEN PadTop ELSE LET above == f[k - 1] IN above + Below(ix + k, above)]
             walk(f) == [k \in 0..m |-> IF k = 0 THEN PadTop
               ELSE f[k - 1] + (IF f[k - 1] - lim[1] < lim[2] THEN high[k] ELSE low[k])]
  <2>1. m \in Nat /\ PadTop \in Int
    <3> HIDE DEF high, low
    <3> QED BY <1>2, <1>5
  <2>2. \A f : body(f) = walk(f)
    <3> SUFFICES ASSUME NEW f PROVE body(f) = walk(f)
      OBVIOUS
    <3>1. ASSUME NEW k \in 1..m
          PROVE  high[k] = RowHeight[rows[ix + k], width] /\ low[k] = Known(ix + k)
      BY DEF Real
    <3>2. ASSUME NEW k \in 0..m, k # 0
          PROVE  LET above == f[k - 1] IN above + Below(ix + k, above)
                  = f[k - 1] + (IF f[k - 1] - lim[1] < lim[2] THEN high[k] ELSE low[k])
      <4>1. k \in 1..m
        <5> HIDE DEF m
        <5> QED BY <2>1, <3>2
      <4>2. high[k] = RowHeight[rows[ix + k], width] /\ low[k] = Known(ix + k)
        <5> HIDE DEF high, low, m, Known
        <5> QED BY <3>1, <4>1
      <4>3. lim[1] = start.offset /\ lim[2] = height
        OBVIOUS
      <4> HIDE DEF high, low, Known, lim, m
      <4> QED BY <4>2, <4>3
    <3> HIDE DEF high, low, Below, Known, lim, m
    <3> QED BY <3>2
  <2>3. lim \in Int \X Int
    BY <1>3
  <2>4. high \in [1..m -> Int] /\ low \in [1..m -> Int]
    <3> HIDE DEF high, low
    <3> QED BY <1>5
  <2> HIDE DEF high, low, lim, m
  <2>5. PICK f : Walk(f, m, PadTop, lim, high, low)
    BY <2>1, <2>3, <2>4, WalkExists
  <2>6. f = walk(f)
    BY <2>5 DEF Walk
  <2>7. f = body(f)
    <3> HIDE DEF body, walk
    <3> QED BY <2>2, <2>6
  <2>8. y = body(y)
    BY <2>7 DEF m
  <2>9. y = walk(y)
    <3> HIDE DEF body, walk, y
    <3> QED BY <2>2, <2>8
  <2> HIDE DEF y, body
  <2>10. Walk(y, m, PadTop, lim, high, low)
    BY <2>9 DEF Walk
  <2> HIDE DEF walk
  <2>11. Walks(y, m, PadTop, lim, high, low)
    BY <2>1, <2>3, <2>4, <2>10, WalkIs
  <2> QED BY <2>11 DEF m, lim
<1> DEFINE off == start.offset
<1>7. /\ down \in 0..(n - ix) /\ seen \in 0..down
      /\ \A k \in 0..(n - ix) : y[k] \in Int
      /\ y[seen] = PadTop + RealTo(rows, width, ix + seen) - RealTo(rows, width, ix)
      /\ y[seen] <= y[down]
      /\ \/ seen = down /\ down = n - ix
         \/ y[seen] - off >= height
  <2>1. GoesDown(width, ix, off, height, high, low, y, down, seen)
    <3> HIDE DEF y, low
    <3> QED BY <1>2, <1>3, <1>5, <1>6 DEF GoesDown
  <2> HIDE DEF y, high, low, down, seen, off
  <2> QED BY <1>2, <2>1, WayDown DEF GoodRows
<1> HIDE DEF y, high, low, down, seen, off, Known, Below
<1>8. /\ extent \in Int /\ y[down] \in Int /\ extent = y[down] + PadBottom
      /\ off \in Int /\ height \in Int
      /\ short <=> extent - off < height
  <2>1. y[down] \in Int
    BY <1>7
  <2>2. short <=> extent - off < height
    BY DEF FallsShort, off
  <2> QED BY <1>2, <1>3, <2>1, <2>2 DEF off
<1> HIDE DEF extent, short
<1>9. \A k \in 0..ix : /\ filled[k] \in Int
                       /\ filled[k] = extent + RealTo(rows, width, ix) - RealTo(rows, width, ix - k)
  <2> DEFINE add == [k \in 1..ix |-> Real(rows, ix - k + 1, width)]
             body(f) == [k \in 0..ix |->
               IF k = 0 THEN extent ELSE f[k - 1] + RowHeight[rows[ix - k + 1], width]]
             sum(f) == [k \in 0..ix |-> IF k = 0 THEN extent ELSE f[k - 1] + add[k]]
  <2>1. ix \in Nat /\ ix \in 0..Len(rows) /\ rows \in Seq(Rows)
    BY <1>2, <1>3 DEF GoodRows
  <2>2. ASSUME NEW k \in 1..ix PROVE add[k] = RowHeight[rows[ix - k + 1], width] /\ add[k] \in Int
    <3>1. ix - k + 1 \in 1..n
      BY <1>2, <1>3
    <3>2. Real(rows, ix - k + 1, width) \in Nat
      BY <1>4, <3>1
    <3>3. add[k] = Real(rows, ix - k + 1, width)
      OBVIOUS
    <3> HIDE DEF add
    <3>4. add[k] \in Int
      BY <3>2, <3>3
    <3> QED BY <3>3, <3>4 DEF Real
  <2>3. add = [k \in 1..ix |-> Real(rows, ix - k + 1, width)]
    OBVIOUS
  <2>4. add \in [1..ix -> Int]
    <3>1. DOMAIN add = 1..ix /\ add = [k \in 1..ix |-> add[k]]
      OBVIOUS
    <3> HIDE DEF add
    <3> QED BY <2>2, <3>1
  <2> HIDE DEF add
  <2>5. \A f : body(f) = sum(f)
    <3> SUFFICES ASSUME NEW f PROVE body(f) = sum(f)
      OBVIOUS
    <3>1. ASSUME NEW k \in 0..ix, k # 0
          PROVE  f[k - 1] + RowHeight[rows[ix - k + 1], width] = f[k - 1] + add[k]
      <4>1. k \in 1..ix
        BY <2>1, <3>1
      <4> QED BY <2>2, <4>1
    <3> QED BY <3>1
  <2>6. PICK f : Sum(f, ix, extent, add)
    BY <1>8, <2>1, <2>4, SumExists
  <2>7. f = sum(f)
    BY <2>6 DEF Sum
  <2>8. f = body(f)
    <3> HIDE DEF body, sum
    <3> QED BY <2>5, <2>7
  <2>9. filled = body(filled)
    BY <2>8
  <2>10. filled = sum(filled)
    <3> HIDE DEF body, sum, filled
    <3> QED BY <2>5, <2>9
  <2> HIDE DEF filled, body
  <2>11. Sum(filled, ix, extent, add)
    BY <2>10 DEF Sum
  <2> HIDE DEF sum
  <2>12. Sums(filled, ix, extent, add)
    BY <1>8, <2>1, <2>4, <2>11, SumIs
  <2> QED BY <1>8, <2>1, <2>3, <2>12, WayUp
<1> HIDE DEF filled
<1>10. /\ up \in 0..ix /\ (~short => up = 0) /\ (short => up = ix \/ filled[up] >= height)
       /\ filled[up] \in Int
  <2>1. CASE short
    <3> DEFINE S == {k \in 0..ix : filled[k] >= height}
    <3>1. up = FirstIn(ix, S)
      BY <2>1
    <3>2. up \in 0..ix /\ (up = ix \/ up \in S)
      <4>1. ix \in Nat
        BY <1>2, <1>3
      <4> HIDE DEF S, up
      <4> QED BY <3>1, <4>1, FirstIs
    <3> HIDE DEF up
    <3> QED BY <1>9, <2>1, <3>2
  <2>2. CASE ~short
    <3>1. up = 0 /\ 0 \in 0..ix
      BY <1>2, <1>3, <2>2
    <3> HIDE DEF up
    <3> QED BY <1>9, <2>2, <3>1
  <2> QED BY <2>1, <2>2
<1> HIDE DEF up
<1>11. /\ top \in Position /\ top.ix = ix - up /\ top.offset \in Int
       /\ ~short => top = start /\ top.offset = off
       /\ short => top.offset = StartsAt(filled[up] - height)
  <2>1. CASE short
    <3> DEFINE o == StartsAt(filled[up] - height)
    <3>1. o \in Int
      BY <1>8, <1>10 DEF StartsAt, Max2
    <3>2. top = [ix |-> ix - up, offset |-> o]
      BY <2>1
    <3>3. ix - up \in 0..Len(rows)
      BY <1>2, <1>3, <1>10
    <3> HIDE DEF top, o
    <3>4. top \in Position /\ top.ix = ix - up /\ top.offset = o
      BY <3>1, <3>2, <3>3 DEF Position
    <3> QED BY <2>1, <3>1, <3>4 DEF o
  <2>2. CASE ~short
    <3>1. top = start
      BY <2>2
    <3> HIDE DEF top
    <3> QED BY <1>2, <1>3, <1>10, <2>2, <3>1 DEF off
  <2> QED BY <2>1, <2>2
<1> HIDE DEF top
<1>12. /\ visible \in Seq(0..(n - 1)) /\ Len(visible) = up + seen /\ up + seen \in Nat
       /\ (ix - up) + (up + seen) <= n /\ first \in 0..n
  <2>1. /\ up + seen \in Nat /\ (ix - up) + (up + seen) <= n /\ first \in 0..n
        /\ first + (up + seen) <= n
    BY <1>2, <1>3, <1>7, <1>10, SMTT(30)
  <2> DEFINE len == up + seen
             numbers == 0..(n - 1)
  <2> HIDE DEF first
  <2>2. ASSUME NEW k \in 1..len PROVE first + k - 1 \in numbers
    BY <1>2, <2>1
  <2>3. len \in Nat
    BY <2>1
  <2>4. visible \in [1..len -> numbers]
    <3> HIDE DEF numbers
    <3>1. visible = [k \in 1..len |-> first + k - 1]
      OBVIOUS
    <3> HIDE DEF len, visible
    <3> QED BY <2>2, <3>1
  <2>5. visible \in Seq(numbers) /\ Len(visible) = len
    <3> HIDE DEF visible, numbers, len
    <3> QED BY <2>3, <2>4
  <2> QED BY <2>1, <2>5
<1> DEFINE focusedAt == {i \in 1..n : ContainsFocused(its[i])}
<1>13. /\ layout.items = new /\ layout.top = top /\ layout.visible = up + seen
       /\ layout.scroll = (IF short THEN Adjusted(top) ELSE scroll)
       /\ layout.shown = WithFocused(visible, focusedAt)
  <2>1. Len(visible) = up + seen
    BY <1>12
  <2> HIDE DEF new, visible, focusedAt, layout
  <2> QED BY <1>1, <2>1 DEF n, focusedAt
<1> HIDE DEF layout
<1>14. KeepsItems(its, layout.items, width)
  <2>1. ASSUME NEW i \in 1..n
        PROVE  new[i] \in Item /\ (new[i] = its[i] \/ new[i] = Measured(its[i], Real(rows, i, width)))
    <3> DEFINE item == its[i]
               real == Real(rows, i, width)
               s == size(i)
    <3>1. item \in Item /\ real \in Nat
      BY <1>2, <1>4
    <3>2. s = real \/ (item.measured /\ s = item.size)
      <4>1. s = Known(i) \/ s = real
        BY DEF Below, Real
      <4> HIDE DEF s, real
      <4> QED BY <4>1 DEF Known, real, Real
    <3>3. new[i] = item \/ new[i] = Measured(item, s)
      <4> HIDE DEF size, lead
      <4> QED OBVIOUS
    <3> HIDE DEF new, s, real, item
    <3>4. CASE s = real
      <4>1. Measured(item, s) \in Item
        BY <3>1, <3>4, MeasuredIs
      <4>2. new[i] \in Item /\ (new[i] = item \/ new[i] = Measured(item, real))
        BY <3>1, <3>3, <3>4, <4>1
      <4> QED BY <4>2 DEF item, real
    <3>5. CASE item.measured /\ s = item.size
      <4>1. item.size \in Nat
        BY <3>1 DEF Item
      <4>2. Measured(item, s) = item
        BY <3>1, <3>5, <4>1, MeasuredIs
      <4>3. new[i] = item
        BY <3>3, <4>2
      <4> QED BY <3>1, <4>3 DEF item
    <3> QED BY <3>2, <3>4, <3>5
  <2>2. new \in [1..n -> Item]
    <3>1. DOMAIN new = 1..n /\ new = [i \in 1..n |-> new[i]]
      OBVIOUS
    <3> HIDE DEF new
    <3> QED BY <2>1, <3>1
  <2> HIDE DEF new
  <2>3. new \in Seq(Item) /\ Len(new) = n
    BY <1>2, <2>2
  <2> QED BY <1>2, <1>13, <2>1, <2>3 DEF KeepsItems
<1>15. layout.shown \in Seq(0..(Len(rows) - 1)) /\ ShowsFocused(layout, its)
  <2>1. visible \in Seq(0..(Len(rows) - 1)) /\ layout.shown = WithFocused(visible, FocusedIn(its))
    BY <1>2, <1>12, <1>13 DEF FocusedIn
  <2> HIDE DEF visible, focusedAt
  <2> QED BY <2>1, ShownIs DEF ShowsFocused
<1>15a. InOrder(layout)
  <2>1. WithFocused(visible, focusedAt) = visible \/ \E i : WithFocused(visible, focusedAt) = Append(visible, i)
    <3> HIDE DEF visible, focusedAt
    <3> QED BY DEF WithFocused
  <2>2. \A k \in 1..(up + seen) : visible[k] = first + k - 1
    OBVIOUS
  <2>3. layout.visible = up + seen /\ layout.top.ix = first /\ layout.shown = WithFocused(visible, focusedAt)
    BY <1>11, <1>13
  <2>4. visible \in Seq(0..(n - 1)) /\ Len(visible) = up + seen /\ up + seen \in Nat
    BY <1>12
  <2> DEFINE shown == WithFocused(visible, focusedAt)
             len == up + seen
  <2> HIDE DEF visible, first, focusedAt, len
  <2>5. Len(shown) >= len /\ \A k \in 1..len : shown[k] = visible[k]
    <3>1. CASE shown = visible
      BY <2>4, <3>1 DEF len
    <3>2. CASE \E i : shown = Append(visible, i)
      <4>1. PICK i : shown = Append(visible, i)
        BY <3>2
      <4> QED BY <2>4, <4>1 DEF len
    <3> QED BY <2>1, <3>1, <3>2
  <2> HIDE DEF shown
  <2>6. layout.visible = len /\ layout.shown = shown
    BY <2>3 DEF shown, len
  <2>7. \A k \in 1..len : layout.shown[k] = layout.top.ix + k - 1
    BY <2>2, <2>3, <2>5, <2>6 DEF len
  <2>8. len \in Nat
    BY <2>4 DEF len
  <2> QED BY <2>5, <2>6, <2>7 DEF InOrder
<1> HIDE DEF new, visible, focusedAt
<1>16. Places(layout)
  <2>1. layout.scroll = NoOffset \/ layout.scroll \in Position
    BY <1>11, <1>13 DEF Adjusted
  <2>2. (ix - up) + (up + seen) <= n
    BY <1>12
  <2> QED BY <1>2, <1>11, <1>12, <1>13, <1>15, <2>1 DEF Places
<1> DEFINE edge == EdgeOf(rows, layout, width)
<1>17. n \in Nat /\ ix \in 0..n /\ PadTop \in Nat /\ PadBottom \in Nat
  BY <1>2, <1>3
<1>18. seen \in 0..down /\ down \in 0..(n - ix) /\ up \in 0..ix
  BY <1>7, <1>10
<1>19. y[seen] \in Int /\ y[down] \in Int /\ y[seen] <= y[down] /\ filled[up] \in Int
  <2>1. seen \in 0..(n - ix)
    BY <1>17, <1>18
  <2> QED BY <1>7, <1>8, <1>10, <2>1
<1>20. off \in Int /\ height \in Int /\ top.offset \in Int /\ extent \in Int
  BY <1>8, <1>11
<1>21. (seen = down /\ down = n - ix) \/ y[seen] - off >= height
  BY <1>7
<1>22. extent = y[down] + PadBottom /\ (short <=> extent - off < height)
  BY <1>8
<1>23. /\ edge = y[seen] + (filled[up] - extent) - top.offset
       /\ y[seen] \in Int /\ filled[up] \in Int /\ extent \in Int /\ top.offset \in Int /\ edge \in Int
       /\ (ix - up) + (up + seen) = ix + seen
       /\ up = 0 => filled[up] = extent
  <2>1. edge = PadTop - top.offset + RealTo(rows, width, (ix - up) + (up + seen)) - RealTo(rows, width, ix - up)
    BY <1>11, <1>13 DEF EdgeOf
  <2>2. /\ ix \in 0..n /\ ix + seen \in 0..n /\ ix - up \in 0..n /\ (ix - up) + (up + seen) = ix + seen
        /\ seen \in 0..(n - ix) /\ up \in 0..ix
    BY <1>17, <1>18
  <2>3. RealTo(rows, width, ix) \in Nat /\ RealTo(rows, width, ix + seen) \in Nat /\ RealTo(rows, width, ix - up) \in Nat
    BY <1>2, <2>2, RealHeights DEF GoodRows
  <2>4. y[seen] = PadTop + RealTo(rows, width, ix + seen) - RealTo(rows, width, ix)
    BY <1>7
  <2>5. filled[up] = extent + RealTo(rows, width, ix) - RealTo(rows, width, ix - up)
    BY <1>9, <2>2
  <2>6. up = 0 => ix - up = ix
    BY <2>2
  <2> HIDE DEF edge
  <2>7. edge = PadTop - top.offset + RealTo(rows, width, ix + seen) - RealTo(rows, width, ix - up)
    BY <2>1, <2>2
  <2>8. edge = y[seen] + (filled[up] - extent) - top.offset /\ edge \in Int
    BY <1>17, <1>20, <2>3, <2>4, <2>5, <2>7
  <2>9. up = 0 => filled[up] = extent
    BY <1>20, <2>3, <2>5, <2>6
  <2> QED BY <1>19, <1>20, <2>2, <2>8, <2>9
<1> HIDE DEF edge
<1>24. ASSUME short PROVE Fills(rows, layout, width, height) /\ Pinned(layout, width, height)
  <2>1. seen = down /\ down = n - ix /\ ix + seen = n
    <3>1. extent - off < height
      BY <1>24, <1>22
    <3>2. y[seen] - off < height
      BY <1>17, <1>19, <1>20, <1>22, <3>1
    <3>3. seen = down /\ down = n - ix
      BY <1>19, <1>20, <1>21, <3>2
    <3> QED BY <1>17, <3>3
  <2>2. edge + PadBottom = filled[up] - top.offset
    <3>1. edge = y[down] + (filled[up] - extent) - top.offset
      BY <1>23, <2>1
    <3> QED BY <1>17, <1>19, <1>20, <1>22, <3>1
  <2>3. top.offset = StartsAt(filled[up] - height)
    BY <1>11, <1>24
  <2>4. ix - up = 0 \/ edge + PadBottom >= height
    <3>1. CASE up = ix
      BY <1>17, <3>1
    <3>2. CASE filled[up] >= height
      <4>1. top.offset = filled[up] - height
        BY <1>19, <1>20, <2>3, <3>2 DEF StartsAt, Max2
      <4> QED BY <1>17, <1>19, <1>20, <2>2, <4>1
    <3> QED BY <1>10, <1>24, <3>1, <3>2
  <2>5. alignment # "Top" => edge + PadBottom = height
    <3>1. alignment # "Top" => top.offset = filled[up] - height
      BY <2>3 DEF StartsAt
    <3> QED BY <1>17, <1>19, <1>20, <2>2, <3>1
  <2>6. /\ layout.top.ix = ix - up /\ layout.top.ix + layout.visible = Len(rows)
    <3>1. layout.top.ix = ix - up /\ layout.visible = up + seen
      BY <1>11, <1>13
    <3>2. (ix - up) + (up + seen) = Len(rows)
      BY <1>2, <1>23, <2>1
    <3> QED BY <3>1, <3>2
  <2> QED BY <2>4, <2>5, <2>6 DEF Fills, Pinned, AtEnd, edge
<1>25. ASSUME ~short
       PROVE  Fills(rows, layout, width, height) /\ Pinned(layout, width, height) /\ edge + PadBottom >= height
  <2>1. /\ up = 0 /\ filled[up] = extent /\ top.offset = off
        /\ layout.scroll = scroll /\ extent - off >= height
    <3>1. up = 0 /\ filled[up] = extent /\ top.offset = off /\ layout.scroll = scroll
      BY <1>10, <1>11, <1>13, <1>23, <1>25
    <3> QED BY <1>25, <1>20, <1>22, <3>1
  <2>2. edge = y[seen] - off
    <3>1. edge = y[seen] + (filled[up] - extent) - off
      BY <1>23, <2>1
    <3> QED BY <1>19, <1>20, <2>1, <3>1
  <2>3. ix + seen = n \/ edge >= height
    BY <1>17, <1>18, <1>21, <2>2
  <2>4. edge + PadBottom >= height
    <3>1. CASE seen = down
      <4>1. edge = y[down] - off
        BY <2>2, <3>1
      <4> QED BY <1>17, <1>19, <1>20, <1>22, <2>1, <4>1
    <3>2. CASE y[seen] - off >= height
      BY <1>17, <1>19, <1>20, <2>2, <3>2
    <3> QED BY <1>21, <3>1, <3>2
  <2>5. /\ layout.top.ix = ix /\ layout.top.ix + layout.visible = ix + seen
    <3>1. layout.top.ix = ix - up /\ layout.visible = up + seen
      BY <1>11, <1>13
    <3>2. ix - up = ix /\ up + seen = seen
      BY <1>17, <1>18, <2>1
    <3> QED BY <3>1, <3>2
  <2>6. ASSUME alignment # "Top", scroll = NoOffset, height >= PadTop + PadBottom
        PROVE  ix + seen = n /\ edge + PadBottom = height
    <3>1. start.ix = n /\ start.offset = 0
      BY <2>6 DEF start, LogicalTop, n
    <3>2. ix = n /\ off = 0
      BY <1>3, <3>1 DEF off
    <3>3. seen = 0 /\ down = 0 /\ ix + seen = n
      BY <1>17, <1>18, <3>2
    <3>4. y[seen] = PadTop
      <4>1. RealTo(rows, width, n) \in Nat /\ n + 0 = n
        BY <1>2, RealHeights DEF GoodRows
      <4>2. y[0] = PadTop + RealTo(rows, width, n + 0) - RealTo(rows, width, n)
        <5>1. y[seen] = PadTop + RealTo(rows, width, ix + seen) - RealTo(rows, width, ix)
          BY <1>7
        <5> QED BY <3>2, <3>3, <5>1
      <4>3. RealTo(rows, width, n + 0) = RealTo(rows, width, n)
        BY <4>1
      <4> QED BY <1>17, <3>3, <4>1, <4>2, <4>3
    <3>5. extent = PadTop + PadBottom
      <4>1. y[down] = PadTop
        BY <3>3, <3>4
      <4> QED BY <1>22, <4>1
    <3>6. PadTop + PadBottom >= height
      BY <1>17, <1>20, <2>1, <3>2, <3>5
    <3>7. height = PadTop + PadBottom
      BY <1>17, <1>20, <2>6, <3>6
    <3>8. edge = PadTop
      BY <1>17, <2>2, <3>2, <3>4
    <3> QED BY <3>3, <3>7, <3>8
  <2>7. ix + seen = Len(rows) <=> ix + seen = n
    BY <1>2
  <2> QED BY <2>1, <2>3, <2>4, <2>5, <2>6, <2>7 DEF Fills, Pinned, AtEnd, edge
<1>26. Fills(rows, layout, width, height) /\ Pinned(layout, width, height)
  BY <1>24, <1>25
<1>27. ASSUME short PROVE Moves(layout, start, width, height)
  <2>1. seen = down /\ down = n - ix /\ ix + seen = n
    <3>1. extent - off < height
      BY <1>27, <1>22
    <3>2. y[seen] - off < height
      BY <1>17, <1>19, <1>20, <1>22, <3>1
    <3>3. seen = down /\ down = n - ix
      BY <1>19, <1>20, <1>21, <3>2
    <3> QED BY <1>17, <3>3
  <2>2. edge + PadBottom = filled[up] - top.offset
    <3>1. edge = y[down] + (filled[up] - extent) - top.offset
      BY <1>23, <2>1
    <3> QED BY <1>17, <1>19, <1>20, <1>22, <3>1
  <2>3. top.offset = StartsAt(filled[up] - height)
    BY <1>11, <1>27
  <2>4. layout.top = top /\ layout.top.ix = ix - up /\ layout.top.ix + layout.visible = Len(rows)
    <3>1. layout.top = top /\ layout.top.ix = ix - up /\ layout.visible = up + seen
      BY <1>11, <1>13
    <3>2. (ix - up) + (up + seen) = Len(rows)
      BY <1>2, <1>23, <2>1
    <3> QED BY <3>1, <3>2
  <2>5. layout.top.ix <= start.ix /\ layout.scroll = Adjusted(layout.top)
    BY <1>3, <1>13, <1>17, <1>18, <1>27, <2>4
  <2>6. RowAt(rows, layout.top, Len(rows), width) = edge
    BY <2>4 DEF RowAt, EdgeOf, edge
  <2>7. RowAt(rows, start, Len(rows), width) + PadBottom < height
    <3>1. y[down] = PadTop + RealTo(rows, width, Len(rows)) - RealTo(rows, width, ix)
      BY <1>2, <1>7, <2>1
    <3>2. RowAt(rows, start, Len(rows), width) = PadTop - off + RealTo(rows, width, Len(rows)) - RealTo(rows, width, ix)
      BY <1>3 DEF RowAt, off
    <3>3. RealTo(rows, width, Len(rows)) \in Nat /\ RealTo(rows, width, ix) \in Nat
      BY <1>2, <1>17, RealHeights DEF GoodRows
    <3>4. RowAt(rows, start, Len(rows), width) = y[down] - off
      BY <1>17, <1>20, <3>1, <3>2, <3>3
    <3> QED BY <1>17, <1>19, <1>20, <1>22, <1>27, <3>4
  <2>8. CASE filled[up] >= height
    <3>1. top.offset = filled[up] - height /\ top.offset >= 0
      BY <1>19, <1>20, <2>3, <2>8 DEF StartsAt, Max2
    <3>2. edge + PadBottom = height
      BY <1>19, <1>20, <2>2, <3>1
    <3> QED BY <2>4, <2>5, <2>6, <2>7, <3>1, <3>2 DEF Moves
  <2>9. CASE ~(filled[up] >= height)
    <3>1. ix - up = 0
      BY <1>10, <1>17, <1>27, <2>9
    <3>2. CASE alignment = "Top"
      <4>1. top.offset = 0
        BY <1>19, <1>20, <2>3, <2>9, <3>2 DEF StartsAt, Max2
      <4>2. edge + PadBottom <= height
        BY <1>19, <1>20, <2>2, <2>9, <4>1
      <4> QED BY <2>4, <2>5, <2>6, <2>7, <3>1, <3>2, <4>1, <4>2 DEF Moves
    <3>3. CASE alignment # "Top"
      <4>1. top.offset = filled[up] - height
        BY <2>3, <3>3 DEF StartsAt
      <4>2. edge + PadBottom = height
        BY <1>19, <1>20, <2>2, <4>1
      <4> QED BY <2>4, <2>5, <2>6, <2>7, <3>1, <3>3, <4>2 DEF Moves
    <3> QED BY <3>2, <3>3
  <2> QED BY <2>8, <2>9
<1>28. Stays(layout, start, scroll, width, height) \/ Moves(layout, start, width, height)
  <2>1. CASE ~short
    <3>1. layout.top = start /\ layout.scroll = scroll
      BY <1>11, <1>13, <2>1
    <3>2. edge + PadBottom >= height
      BY <1>25, <2>1
    <3>3. edge = RowAt(rows, start, start.ix + layout.visible, width)
      BY <3>1 DEF edge, EdgeOf, RowAt
    <3>4. RowAt(rows, start, start.ix + layout.visible, width) <= RowAt(rows, start, Len(rows), width)
      <4>1. start.ix + layout.visible \in 0..Len(rows) /\ Len(rows) \in 0..Len(rows)
        BY <1>2, <1>3, <1>16, <3>1 DEF Places, Position
      <4> QED BY <1>3, <4>1, RowsAt DEF GoodRows
    <3>5. RowAt(rows, start, Len(rows), width) \in Int
      <4>1. Len(rows) \in 0..Len(rows)
        BY <1>2
      <4> QED BY <1>3, <4>1, RowsAt DEF GoodRows
    <3>6. Reaches(rows, start, width, height)
      BY <1>17, <1>20, <1>23, <3>2, <3>3, <3>4, <3>5 DEF Reaches
    <3> QED BY <3>1, <3>6 DEF Stays
  <2> QED BY <1>27, <2>1
<1> QED BY <1>14, <1>15, <1>16, <1>26, <1>28, <1>15a DEF IsLayout, layout, start

-----------------------------------------------------------------------------
(* Where a layout puts a row.                                              *)

\* DrawnAt of the rows that are laid out, from this offset in the first of them.
PlacedAt(rs, shown, offset, width, k) ==
  LET sum[j \in 0..(k - 1)] ==
        IF j = 0 THEN 0 ELSE sum[j - 1] + RowHeight[rs[shown[j] + 1], width]
  IN PadTop - offset + sum[k - 1]

\* A part of a row is in the viewport.
Sees(rs, layout, i, part, width, height) ==
  \E k \in DOMAIN layout.shown :
    /\ layout.shown[k] = i
    /\ PlacedAt(rs, layout.shown, layout.top.offset, width, k) + part[1] >= 0
    /\ PlacedAt(rs, layout.shown, layout.top.offset, width, k) + part[2] <= height

\* Every laid out row is somewhere, and those that are seen are where their heights put them.
LEMMA PlacedAtIs ==
  ASSUME rows \in Seq(Rows), NEW width \in AllWidths, NEW shown \in Seq(0..(Len(rows) - 1)),
         NEW top \in Position, NEW k \in DOMAIN shown
  PROVE  /\ PlacedAt(rows, shown, top.offset, width, k) \in Int
         /\ (\A j \in 1..k : shown[j] = top.ix + j - 1)
              => PlacedAt(rows, shown, top.offset, width, k) = RowAt(rows, top, top.ix + k - 1, width)
<1> DEFINE m == k - 1
           n == Len(rows)
           body(f) == [j \in 0..(k - 1) |->
             IF j = 0 THEN 0 ELSE f[j - 1] + RowHeight[rows[shown[j] + 1], width]]
           sums == CHOOSE f : f = body(f)
           add == [j \in 1..m |-> Real(rows, shown[j] + 1, width)]
           sum(f) == [j \in 0..m |-> IF j = 0 THEN 0 ELSE f[j - 1] + add[j]]
<1>1. /\ n \in Nat /\ m \in Nat /\ k \in 1..Len(shown) /\ Len(shown) \in Nat /\ PadTop \in Nat
      /\ top.ix \in 0..n /\ top.offset \in Int
  BY ListAssumption DEF Position
<1>2. PlacedAt(rows, shown, top.offset, width, k) = PadTop - top.offset + sums[k - 1]
  BY DEF PlacedAt
<1> HIDE DEF sums
<1>3. \A j \in 1..k : shown[j] \in 0..(n - 1) /\ shown[j] + 1 \in 1..n
  <2>1. ASSUME NEW j \in 1..k PROVE shown[j] \in 0..(n - 1) /\ shown[j] + 1 \in 1..n
    <3>1. shown[j] \in 0..(n - 1)
      BY <1>1, ElementOfSeq, SMTT(30)
    <3> DEFINE number == shown[j]
    <3>2. number \in 0..(n - 1) /\ n \in Nat
      BY <1>1, <3>1
    <3> HIDE DEF number, n, m
    <3>3. number + 1 \in 1..n
      BY <3>2
    <3> QED BY <3>2, <3>3 DEF number
  <2> QED BY <2>1
<1>4. ASSUME NEW j \in 1..m PROVE add[j] = Real(rows, shown[j] + 1, width) /\ add[j] \in Int
  <2>1. j \in 1..k
    BY <1>1
  <2>2. Real(rows, shown[j] + 1, width) \in Nat
    BY <1>3, <2>1, RealHeights
  <2> QED BY <2>2
<1>5. DOMAIN add = 1..m /\ add = [j \in 1..m |-> add[j]]
  OBVIOUS
<1> HIDE DEF add
<1>6. \A f : body(f) = sum(f)
  <2> SUFFICES ASSUME NEW f PROVE body(f) = sum(f)
    OBVIOUS
  <2>1. ASSUME NEW j \in 0..m, j # 0
        PROVE  f[j - 1] + RowHeight[rows[shown[j] + 1], width] = f[j - 1] + add[j]
    <3>1. j \in 1..m
      BY <1>1, <2>1
    <3> QED BY <1>4, <3>1 DEF Real
  <2> QED BY <2>1
<1> HIDE DEF body, sum
<1>7. add \in [1..m -> Int]
  BY <1>4, <1>5
<1>7a. m \in Nat /\ 0 \in Int
  BY <1>1
<1> HIDE DEF m
<1>8. PICK f : Sum(f, m, 0, add)
  BY <1>7, <1>7a, SumExists
<1>9. f = body(f)
  BY <1>6, <1>8 DEF Sum, sum
<1>10. sums = body(sums)
  BY <1>9 DEF sums
<1>11. Sum(sums, m, 0, add)
  BY <1>6, <1>10 DEF Sum, sum
<1>12. Sums(sums, m, 0, add)
  BY <1>7, <1>7a, <1>11, SumIs
<1>13. sums[m] \in Int
  BY <1>1, <1>12 DEF Sums
<1>14. PlacedAt(rows, shown, top.offset, width, k) = PadTop - top.offset + sums[m]
  BY <1>2 DEF m
<1>15. ASSUME \A j \in 1..k : shown[j] = top.ix + j - 1
       PROVE  sums[m] = RealTo(rows, width, top.ix + m) - RealTo(rows, width, top.ix)
  <2> DEFINE ix == top.ix
             Q == {j \in 0..m : sums[j] = RealTo(rows, width, ix + j) - RealTo(rows, width, ix)}
  <2>1. ASSUME NEW j \in 0..m PROVE ix + j \in 0..n
    <3>1. j + 1 \in 1..k
      BY <1>1 DEF m
    <3>2. shown[j + 1] = ix + (j + 1) - 1 /\ shown[j + 1] \in 0..(n - 1)
      BY <1>3, <1>15, <3>1
    <3> HIDE DEF n, ix
    <3> QED BY <1>1, <3>2, SMTT(30) DEF ix
  <2>2. \A j \in 0..n : RealTo(rows, width, j) \in Nat
    BY RealHeights
  <2> HIDE DEF ix
  <2>3. 0 \in Q
    <3>1. 0 \in 0..m /\ ix + 0 = ix /\ sums[0] = 0
      BY <1>1, <1>12 DEF Sums, ix
    <3>2. RealTo(rows, width, ix) \in Nat
      BY <2>1, <2>2, <3>1
    <3> QED BY <3>1, <3>2
  <2>4. ASSUME NEW j \in 0..(m - 1), j \in Q PROVE j + 1 \in Q
    <3>1. /\ j + 1 \in 1..m /\ (j + 1) - 1 = j /\ j \in 0..m /\ j + 1 \in 0..m /\ 0 \in 0..m
          /\ j + 1 \in 1..k /\ ix \in 0..n /\ ix + 0 = ix
      BY <1>1, SMTT(60) DEF m, ix
    <3>2. ix + (j + 1) \in 1..n /\ (ix + (j + 1)) - 1 = ix + j
      <4>1. ix + (j + 1) \in 0..n
        BY <2>1, <3>1
      <4> QED BY <1>1, <3>1, <4>1
    <3>3. add[j + 1] = Real(rows, ix + (j + 1), width)
      <4>1. shown[j + 1] = ix + (j + 1) - 1
        BY <1>15, <3>1 DEF ix
      <4>2. shown[j + 1] + 1 = ix + (j + 1)
        BY <1>1, <3>1, <4>1
      <4> QED BY <1>4, <3>1, <4>2
    <3>4. sums[j + 1] = sums[j] + Real(rows, ix + (j + 1), width)
      BY <1>12, <3>1, <3>3 DEF Sums
    <3>5. /\ RealTo(rows, width, ix + (j + 1)) = RealTo(rows, width, ix + j) + Real(rows, ix + (j + 1), width)
          /\ Real(rows, ix + (j + 1), width) \in Nat
      BY <3>2, RealHeights
    <3>6. /\ RealTo(rows, width, ix + j) \in Nat /\ RealTo(rows, width, ix) \in Nat
          /\ sums[j] = RealTo(rows, width, ix + j) - RealTo(rows, width, ix)
      BY <2>1, <2>2, <2>4, <3>1
    <3>7. sums[j + 1] = RealTo(rows, width, ix + (j + 1)) - RealTo(rows, width, ix)
      BY <3>4, <3>5, <3>6
    <3> QED BY <3>1, <3>7
  <2>5. 0..m \subseteq Q
    <3> HIDE DEF Q
    <3> QED BY <1>1, <2>3, <2>4, UpTo
  <2> QED BY <1>1, <2>5 DEF ix
<1>16. ASSUME \A j \in 1..k : shown[j] = top.ix + j - 1
       PROVE  PlacedAt(rows, shown, top.offset, width, k) = RowAt(rows, top, top.ix + k - 1, width)
  <2>1. top.ix + k - 1 = top.ix + m /\ k \in 1..k
    BY <1>1 DEF m
  <2>2. top.ix + m \in 0..n
    <3>1. shown[k] = top.ix + k - 1 /\ shown[k] \in 0..(n - 1)
      BY <1>3, <1>16, <2>1
    <3> QED BY <1>1, <2>1, <3>1
  <2>3. RealTo(rows, width, top.ix + m) \in Nat /\ RealTo(rows, width, top.ix) \in Nat
    BY <1>1, <2>2, RealHeights
  <2>4. RowAt(rows, top, top.ix + k - 1, width) =
          PadTop - top.offset + RealTo(rows, width, top.ix + m) - RealTo(rows, width, top.ix)
    BY <2>1 DEF RowAt
  <2> QED BY <1>1, <1>14, <1>15, <1>16, <2>3, <2>4
<1> QED BY <1>1, <1>13, <1>14, <1>16, SMTT(30)

\* A row that is seen is where its height puts it.
LEMMA SeenRow ==
  ASSUME rows \in Seq(Rows), NEW width \in AllWidths, NEW layout, Places(layout), InOrder(layout),
         NEW i \in Nat, layout.top.ix <= i, i < layout.top.ix + layout.visible
  PROVE  \E k \in DOMAIN layout.shown :
           /\ layout.shown[k] = i
           /\ PlacedAt(rows, layout.shown, layout.top.offset, width, k) = RowAt(rows, layout.top, i, width)
<1> DEFINE top == layout.top
           shown == layout.shown
           n == layout.visible
           k == i - top.ix + 1
<1>1. /\ top \in Position /\ shown \in Seq(0..(Len(rows) - 1)) /\ n \in Nat /\ n <= Len(shown)
      /\ \A j \in 1..n : shown[j] = top.ix + j - 1
  BY DEF Places, InOrder
<1>2. top.ix \in Nat /\ top.ix <= i /\ i < top.ix + n
  BY <1>1 DEF Position
<1> HIDE DEF top, shown, n
<1>3. k \in 1..n /\ top.ix + k - 1 = i /\ Len(shown) \in Nat /\ DOMAIN shown = 1..Len(shown)
  BY <1>1, <1>2, SMTT(30)
<1>4. k \in DOMAIN shown /\ \A j \in 1..k : shown[j] = top.ix + j - 1
  <2> HIDE DEF k
  <2> QED BY <1>1, <1>3
<1>5. shown[k] = i
  BY <1>1, <1>3
<1> HIDE DEF k
<1>6. PlacedAt(rows, shown, top.offset, width, k) = RowAt(rows, top, i, width)
  BY <1>1, <1>3, <1>4, PlacedAtIs
<1> QED BY <1>4, <1>5, <1>6 DEF top, shown

\* A list that is moved down shows what it would have shown of the row where it was.
LEMMA MovedDown ==
  ASSUME rows \in Seq(Rows), NEW width \in AllWidths, NEW height \in Nat, NEW start \in Position,
         NEW layout, layout.top \in Position, Moves(layout, start, width, height),
         NEW i \in 0..(Len(rows) - 1)
  PROVE  /\ \/ RowAt(rows, layout.top, i, width) >= RowAt(rows, start, i, width)
            \/ RowAt(rows, layout.top, i, width) >= PadTop
         /\ RowAt(rows, layout.top, i + 1, width) + PadBottom <= height
<1> DEFINE n == Len(rows)
           A(k) == RowAt(rows, layout.top, k, width)
           P(k) == RowAt(rows, start, k, width)
           R(k) == RealTo(rows, width, k)
<1>1. /\ \A k \in 0..n : A(k) \in Int /\ P(k) \in Int /\ A(k) - A(0) = R(k) /\ P(k) - P(0) = R(k)
      /\ \A j, k \in 0..n : j <= k => A(j) <= A(k)
      /\ A(layout.top.ix) = PadTop - layout.top.offset /\ n \in Nat
  BY RowsAt
<1>2. PadTop \in Nat /\ PadBottom \in Nat
  BY ListAssumption
<1>3. \/ A(n) + PadBottom = height /\ P(n) + PadBottom < height
      \/ layout.top.ix = 0 /\ layout.top.offset = 0 /\ A(n) + PadBottom <= height
  BY DEF Moves
<1> HIDE DEF n, A, P, R
<1>4. i \in 0..n /\ i + 1 \in 0..n /\ 0 \in 0..n /\ n \in 0..n /\ i + 1 <= n /\ 0 <= i
  BY <1>1 DEF n
<1>5. A(i + 1) <= A(n) /\ A(i + 1) \in Int /\ A(n) \in Int /\ A(0) <= A(i)
  BY <1>1, <1>4
<1>6. A(i + 1) + PadBottom <= height
  BY <1>2, <1>3, <1>5
<1>7. CASE A(n) + PadBottom = height /\ P(n) + PadBottom < height
  <2>1. A(i) - A(0) = P(i) - P(0) /\ A(n) - A(0) = P(n) - P(0)
    BY <1>1, <1>4
  <2>2. A(i) \in Int /\ A(0) \in Int /\ P(i) \in Int /\ P(0) \in Int /\ A(n) \in Int /\ P(n) \in Int
    BY <1>1, <1>4
  <2>3. A(i) >= P(i)
    BY <1>2, <1>7, <2>1, <2>2, SMTT(30)
  <2> QED BY <1>6, <2>3 DEF A, P
<1>8. CASE layout.top.ix = 0 /\ layout.top.offset = 0
  <2>1. A(0) = PadTop
    BY <1>1, <1>2, <1>8
  <2>2. A(i) \in Int
    BY <1>1, <1>4
  <2>3. A(i) >= PadTop
    BY <1>2, <1>5, <2>1, <2>2
  <2> QED BY <1>6, <2>3 DEF A
<1> QED BY <1>3, <1>7, <1>8

\* What shows of a row when a place is scrolled to shows in the layout, whichever rows follow.
LEMMA LayoutShows ==
  ASSUME GoodRows(rows), NEW its, GoodItems(rows, its), NEW width \in AllWidths, NEW height \in Nat,
         NEW start \in Position, NEW i \in 0..(Len(rows) - 1), start.ix <= i,
         NEW part \in Nat \X Nat, part[1] < part[2], part[2] <= Real(rows, i + 1, width),
         RowAt(rows, start, i, width) + part[1] >= 0, RowAt(rows, start, i, width) + part[2] <= height
  PROVE  Sees(rows, LayoutItems(its, start, width, height), i, part, width, height)
<1> DEFINE layout == LayoutItems(its, start, width, height)
           n == Len(rows)
           P(k) == RowAt(rows, start, k, width)
           A(k) == RowAt(rows, layout.top, k, width)
<1>1. rows \in Seq(Rows) /\ n \in Nat /\ i \in 0..n /\ i + 1 \in 0..n /\ PadTop \in Nat /\ PadBottom \in Nat
  BY ListAssumption, SMTT(30) DEF GoodRows
<1>2. LogicalTop(its, start) = start
  <2>1. start \in [ix : Nat, offset : Int]
    BY DEF Position
  <2> QED BY <2>1, NonesApart DEF LogicalTop
<1>3. /\ IsLayout(layout, its, width, height) /\ InOrder(layout)
      /\ Stays(layout, start, start, width, height) \/ Moves(layout, start, width, height)
  BY <1>2, LayoutSound
<1> HIDE DEF layout
<1>4. Places(layout) /\ Fills(rows, layout, width, height) /\ layout.top \in Position
  BY <1>3 DEF IsLayout, Places
<1>5. /\ \A k \in 0..n : P(k) \in Int
      /\ \A j, k \in 0..n : j <= k => P(j) <= P(k)
  BY <1>1, RowsAt
<1>6. /\ \A k \in 0..n : A(k) \in Int
      /\ \A k \in 0..(n - 1) : A(k + 1) = A(k) + Real(rows, k + 1, width)
  BY <1>1, <1>4, RowsAt
<1>7. part[1] \in Nat /\ part[2] \in Nat /\ Real(rows, i + 1, width) \in Nat
  <2>1. i + 1 \in 1..n
    BY <1>1
  <2> QED BY <1>1, <2>1, RealHeights
<1> HIDE DEF n
<1>8. A(i) + part[1] >= 0 /\ A(i) + part[2] <= height
  <2>1. CASE Stays(layout, start, start, width, height)
    BY <2>1 DEF Stays
  <2>2. CASE Moves(layout, start, width, height)
    <3>1. (A(i) >= P(i) \/ A(i) >= PadTop) /\ A(i + 1) + PadBottom <= height
      BY <1>1, <1>4, <2>2, MovedDown DEF n
    <3>2. A(i + 1) = A(i) + Real(rows, i + 1, width) /\ A(i) \in Int /\ P(i) \in Int
      BY <1>1, <1>5, <1>6 DEF n
    <3> HIDE DEF A, P
    <3>3. A(i) + part[1] >= 0
      BY <1>1, <1>7, <3>1, <3>2, SMTT(30) DEF P
    <3>4. A(i) + part[2] <= height
      BY <1>1, <1>7, <3>1, <3>2, SMTT(30)
    <3> QED BY <3>3, <3>4
  <2> QED BY <1>3, <2>1, <2>2
<1>9. layout.top.ix <= i /\ i < layout.top.ix + layout.visible
  <2>1. layout.top.ix \in Nat /\ layout.visible \in Nat /\ start.ix \in Nat /\ layout.top.ix + layout.visible <= n
    BY <1>4 DEF Places, Position, n
  <2>2. CASE Moves(layout, start, width, height)
    BY <1>1, <2>1, <2>2, SMTT(30) DEF Moves, n
  <2>3. CASE Stays(layout, start, start, width, height)
    <3> DEFINE end == layout.top.ix + layout.visible
    <3>1. layout.top = start /\ end \in 0..n
      BY <2>1, <2>3 DEF Stays
    <3>2. end = n \/ P(end) >= height
      <4>1. EdgeOf(rows, layout, width) = P(end)
        BY <3>1 DEF EdgeOf, RowAt
      <4> QED BY <1>4, <4>1 DEF Fills, n
    <3> HIDE DEF end
    <3>3. P(i) < height
      <4>1. P(i) \in Int
        BY <1>1, <1>5
      <4> HIDE DEF P
      <4> QED BY <1>7, <4>1 DEF P
    <3>4. i < end
      <4> SUFFICES ASSUME end <= i PROVE FALSE
        BY <1>1, <3>1
      <4>1. P(end) <= P(i) /\ P(end) \in Int /\ P(i) \in Int
        BY <1>1, <1>5, <3>1
      <4>2. end # n
        BY <1>1 DEF n
      <4> HIDE DEF P
      <4> QED BY <3>2, <3>3, <4>1, <4>2
    <3> QED BY <3>1, <3>4 DEF end
  <2> QED BY <1>3, <2>2, <2>3
<1>10. PICK k \in DOMAIN layout.shown :
         layout.shown[k] = i /\ PlacedAt(rows, layout.shown, layout.top.offset, width, k) = A(i)
  BY <1>1, <1>3, <1>4, <1>9, SeenRow
<1> QED BY <1>8, <1>10 DEF Sees, layout

\* A row is between the paddings of the viewport when it is scrolled to this place; in a list
\* that is pinned to its end, the rows from it on fit between them.
InPlace(rs, scroll, i, width, height) ==
  \/ /\ scroll \in [ix : 0..Len(rs), offset : Int] /\ scroll.ix <= i
     /\ RowAt(rs, scroll, i, width) >= PadTop
     /\ RowAt(rs, scroll, i + 1, width) + PadBottom <= height
  \/ /\ scroll = NoOffset /\ alignment # "Top"
     /\ PadTop + PadBottom + RealTo(rs, width, Len(rs)) - RealTo(rs, width, i) <= height

\* A layout shows such a row, and leaves it there for the next one.
LEMMA LayoutKeepsPlace ==
  ASSUME GoodRows(rows), NEW its, GoodItems(rows, its), NEW width \in AllWidths, NEW height \in Nat,
         NEW scroll, NEW i \in 0..(Len(rows) - 1), Real(rows, i + 1, width) > 0,
         InPlace(rows, scroll, i, width, height)
  PROVE  LET layout == LayoutItems(its, scroll, width, height)
         IN /\ Sees(rows, layout, i, <<0, Real(rows, i + 1, width)>>, width, height)
            /\ InPlace(rows, layout.scroll, i, width, height)
            /\ height > PadTop + PadBottom
<1> DEFINE layout == LayoutItems(its, scroll, width, height)
           start == LogicalTop(its, scroll)
           n == Len(rows)
           real == Real(rows, i + 1, width)
           A(k) == RowAt(rows, layout.top, k, width)
           P(k) == RowAt(rows, start, k, width)
           R(k) == RealTo(rows, width, k)
<1>1. /\ rows \in Seq(Rows) /\ n \in Nat /\ i \in 0..n /\ i + 1 \in 0..n /\ n \in 0..n /\ i + 1 \in 1..n
      /\ PadTop \in Nat /\ PadBottom \in Nat /\ Len(its) = n
  BY ListAssumption DEF GoodRows, GoodItems
<1>2. real \in Nat /\ real > 0 /\ \A k \in 0..n : R(k) \in Nat
  BY <1>1, RealHeights
<1>3. scroll = NoOffset \/ scroll \in Position
  BY DEF InPlace, Position
<1>4. start \in Position
  BY <1>1, <1>3 DEF LogicalTop, Position
<1>5. /\ IsLayout(layout, its, width, height) /\ InOrder(layout)
      /\ Stays(layout, start, scroll, width, height) \/ Moves(layout, start, width, height)
  BY <1>3, LayoutSound
<1> HIDE DEF layout
<1>6. Places(layout) /\ Pinned(layout, width, height) /\ layout.top \in Position
  BY <1>5 DEF IsLayout, Places
<1>7. /\ \A k \in 0..n : P(k) \in Int
      /\ \A k \in 0..(n - 1) : P(k + 1) = P(k) + Real(rows, k + 1, width)
  BY <1>1, <1>4, RowsAt
<1>8. /\ \A k \in 0..n : A(k) \in Int /\ A(k) - A(0) = R(k)
      /\ \A j, k \in 0..n : j <= k => A(j) <= A(k)
      /\ \A k \in 0..(n - 1) : A(k + 1) = A(k) + Real(rows, k + 1, width)
      /\ A(layout.top.ix) = PadTop - layout.top.offset
      /\ layout.top.ix \in 0..n /\ layout.top.offset \in Int
  BY <1>1, <1>6, RowsAt
<1> DEFINE part == <<0, real>>
<1>9. part \in Nat \X Nat /\ part[1] = 0 /\ part[2] = real
  BY <1>2
<1>10. A(i + 1) = A(i) + real /\ A(i) \in Int /\ A(i + 1) \in Int /\ A(i + 1) <= A(n) /\ A(n) \in Int
  <2>1. i + 1 <= n /\ i \in 0..(n - 1)
    BY <1>1
  <2> QED BY <1>1, <1>8, <2>1
<1> HIDE DEF n, part, P
<1>11. CASE scroll # NoOffset
  <2>1. /\ scroll \in Position /\ scroll.ix <= i
        /\ P(i) >= PadTop /\ P(i + 1) + PadBottom <= height /\ start = scroll
    BY <1>1, <1>11 DEF InPlace, Position, LogicalTop, P, n
  <2>2. P(i) \in Int /\ P(i + 1) = P(i) + real
    BY <1>1, <1>7 DEF n
  <2> HIDE DEF start, real
  <2>3. P(i) + part[1] >= 0 /\ P(i) + part[2] <= height /\ height > PadTop + PadBottom
    BY <1>1, <1>2, <1>9, <2>1, <2>2, SMTT(60)
  <2>4. Sees(rows, LayoutItems(its, start, width, height), i, part, width, height)
    <3>1. /\ part \in Nat \X Nat /\ part[1] < part[2] /\ part[2] <= Real(rows, i + 1, width)
          /\ start \in Position /\ start.ix <= i
          /\ RowAt(rows, start, i, width) + part[1] >= 0 /\ RowAt(rows, start, i, width) + part[2] <= height
      BY <1>2, <1>9, <2>1, <2>3 DEF P, real
    <3> HIDE DEF P
    <3> QED BY <3>1, LayoutShows
  <2>5. InPlace(rows, layout.scroll, i, width, height)
    <3>1. CASE Stays(layout, start, scroll, width, height)
      <4>1. layout.scroll = scroll
        BY <3>1 DEF Stays
      <4> QED BY <4>1
    <3>2. CASE Moves(layout, start, width, height)
      <4>1. A(i) >= PadTop /\ A(i + 1) + PadBottom <= height
        <5>1. (A(i) >= P(i) \/ A(i) >= PadTop) /\ A(i + 1) + PadBottom <= height
          BY <1>1, <1>4, <1>6, <3>2, MovedDown DEF P
        <5> HIDE DEF A
        <5> QED BY <1>1, <1>10, <2>1, <2>2, <5>1
      <4>2. layout.top.ix <= i /\ layout.scroll = Adjusted(layout.top)
        <5>1. layout.top.ix <= start.ix /\ start.ix <= i /\ start.ix \in Nat /\ layout.top.ix \in Nat
          BY <1>1, <1>8, <2>1, <3>2, SMTT(30) DEF Moves, Position
        <5> QED BY <1>1, <3>2, <5>1 DEF Moves
      <4>3. CASE alignment = "Top"
        <5>1. layout.scroll = layout.top
          BY <4>2, <4>3 DEF Adjusted
        <5> QED BY <1>6, <4>1, <4>2, <5>1 DEF InPlace, Position
      <4>4. CASE alignment # "Top"
        <5>1. layout.scroll = NoOffset
          BY <4>2, <4>4 DEF Adjusted
        <5>2. A(n) + PadBottom <= height
          BY <1>10, <3>2 DEF Moves, n
        <5>3. A(n) - A(0) = R(n) /\ A(i) - A(0) = R(i) /\ A(0) \in Int /\ R(n) \in Nat /\ R(i) \in Nat
          <6>1. 0 \in 0..n
            BY <1>1
          <6> QED BY <1>1, <1>2, <1>8, <6>1
        <5>4. A(i) \in Int /\ A(n) \in Int /\ A(i) >= PadTop
          BY <1>10, <4>1
        <5>5. PadTop \in Nat /\ PadBottom \in Nat
          BY <1>1
        <5> HIDE DEF A, R
        <5>6. PadTop + PadBottom + R(n) - R(i) <= height
          BY <5>2, <5>3, <5>4, <5>5, SMTT(30)
        <5> QED BY <4>4, <5>1, <5>6 DEF InPlace, R, n
      <4> QED BY <4>3, <4>4
    <3> QED BY <1>5, <3>1, <3>2
  <2>6. layout = LayoutItems(its, start, width, height)
    BY <2>1 DEF layout
  <2> QED BY <2>3, <2>4, <2>5, <2>6 DEF part, real, layout
<1>12. CASE scroll = NoOffset
  <2>1. /\ alignment # "Top" /\ PadTop + PadBottom + R(n) - R(i) <= height
        /\ start.ix = n /\ start.offset = 0
    <3>1. scroll \notin [ix : 0..Len(rows), offset : Int]
      <4>1. NoOffset \notin [ix : Nat, offset : Int] /\ 0..Len(rows) \subseteq Nat
        BY NonesApart
      <4>2. [ix : 0..Len(rows), offset : Int] \subseteq [ix : Nat, offset : Int]
        BY <4>1
      <4> QED BY <1>12, <4>1, <4>2
    <3>2. alignment # "Top" /\ PadTop + PadBottom + R(n) - R(i) <= height
      BY <3>1 DEF InPlace, n
    <3> QED BY <1>1, <1>12, <3>2 DEF LogicalTop
  <2>2. R(n) \in Nat /\ R(i) \in Nat /\ R(i + 1) \in Nat /\ R(i + 1) = R(i) + real /\ R(i + 1) <= R(n)
    <3>1. i + 1 <= n /\ (i + 1) - 1 = i
      BY <1>1
    <3> QED BY <1>1, <3>1, RealHeights DEF n
  <2>3. layout.scroll = NoOffset /\ (layout.top.ix = 0 \/ layout.top.offset >= 0)
    <3>1. CASE Stays(layout, start, scroll, width, height)
      BY <1>12, <2>1, <3>1 DEF Stays
    <3>2. CASE Moves(layout, start, width, height)
      BY <2>1, <3>2 DEF Moves, Adjusted
    <3> QED BY <1>5, <3>1, <3>2
  <2> HIDE DEF start, R, real
  <2>4. height >= PadTop + PadBottom /\ height > PadTop + PadBottom
    BY <1>1, <1>2, <2>1, <2>2, SMTT(30)
  <2>5. layout.top.ix + layout.visible = n /\ A(n) + PadBottom = height
    <3>1. AtEnd(rows, layout, width, height)
      BY <1>6, <2>1, <2>3, <2>4 DEF Pinned
    <3>2. layout.top.ix + layout.visible = n /\ EdgeOf(rows, layout, width) + PadBottom = height
      BY <3>1 DEF AtEnd, n
    <3> QED BY <3>2 DEF EdgeOf, RowAt
  <2>6. A(i) >= PadTop
    <3>1. A(n) - A(0) = R(n) /\ A(i) - A(0) = R(i) /\ A(0) \in Int
      <4>1. 0 \in 0..n
        BY <1>1
      <4> QED BY <1>1, <1>8, <4>1
    <3>2. A(i) \in Int /\ A(n) \in Int /\ PadTop \in Nat /\ PadBottom \in Nat
      BY <1>1, <1>10
    <3>3. R(n) \in Nat /\ R(i) \in Nat /\ PadTop + PadBottom + R(n) - R(i) <= height
      BY <2>1, <2>2
    <3>4. A(n) + PadBottom = height
      BY <2>5
    <3> HIDE DEF A
    <3> QED BY <3>1, <3>2, <3>3, <3>4, SMTT(30)
  <2>7. layout.top.ix <= i
    <3> SUFFICES ASSUME ~(layout.top.ix <= i) PROVE FALSE
      OBVIOUS
    <3>1. i + 1 <= layout.top.ix /\ layout.top.ix # 0
      <4>1. i \in Nat /\ layout.top.ix \in Nat
        BY <1>1, <1>8, SMTT(30)
      <4> QED BY <4>1
    <3>2. A(i + 1) <= A(layout.top.ix)
      BY <1>1, <1>8, <3>1
    <3>3. A(layout.top.ix) = PadTop - layout.top.offset /\ layout.top.offset >= 0 /\ layout.top.offset \in Int
      BY <1>8, <2>3, <3>1
    <3>4. A(i + 1) = A(i) + real /\ A(i) \in Int /\ A(i) >= PadTop /\ PadTop \in Nat
      BY <1>1, <1>10, <2>6
    <3>5. real \in Nat /\ real > 0
      BY <1>2
    <3> HIDE DEF A
    <3> QED BY <3>2, <3>3, <3>4, <3>5
  <2>8. i < layout.top.ix + layout.visible
    BY <1>1, <2>5
  <2>9. PICK k \in DOMAIN layout.shown :
          layout.shown[k] = i /\ PlacedAt(rows, layout.shown, layout.top.offset, width, k) = A(i)
    BY <1>1, <1>5, <1>6, <2>7, <2>8, SeenRow
  <2>10. A(i) + part[1] >= 0 /\ A(i) + part[2] <= height
    <3> HIDE DEF A
    <3> QED BY <1>1, <1>2, <1>9, <1>10, <2>5, <2>6, SMTT(60)
  <2>11. Sees(rows, layout, i, part, width, height)
    BY <2>9, <2>10 DEF Sees
  <2> QED BY <1>12, <2>3, <2>4, <2>11 DEF part, real, layout
<1> QED BY <1>11, <1>12

-----------------------------------------------------------------------------
(* A frame.                                                                *)

\* A height that was measured is that of the row.
HeightsRight(rs, its, width) ==
  \A i \in 1..Len(rs) : its[i].measured => its[i].size = Real(rs, i, width)
SameHandles(rs, new, its) == \A i \in 1..Len(rs) : new[i].handle = its[i].handle

\* What a step of the frame leaves of the items.
Carried(new, its) == GoodItems(rows, new) /\ SameHandles(rows, new, its)

\* Items that layout_items keeps are still those of the rows, with right heights.
LEMMA LayoutKeeps ==
  ASSUME GoodRows(rows), NEW its, GoodItems(rows, its), NEW width \in AllWidths,
         NEW new, KeepsItems(its, new, width)
  PROVE  Carried(new, its) /\ (HeightsRight(rows, its, width) => HeightsRight(rows, new, width))
<1>1. \A i \in 1..Len(rows) : its[i] \in Item /\ Real(rows, i, width) \in Nat
  BY ItemSizes, RealHeights DEF GoodItems, GoodRows
<1>2. ASSUME NEW i \in 1..Len(rows)
      PROVE  /\ new[i].handle = its[i].handle
             /\ new[i] = its[i] \/ new[i].size = Real(rows, i, width)
  <2> DEFINE item == its[i]
             real == Real(rows, i, width)
  <2>1. item \in Item /\ real \in Nat /\ (new[i] = item \/ new[i] = Measured(item, real))
    BY <1>1 DEF KeepsItems
  <2> HIDE DEF item, real
  <2>2. new[i].handle = item.handle /\ (new[i] = item \/ new[i].size = real)
    BY <2>1, MeasuredIs, SMTT(30)
  <2> QED BY <2>2 DEF item, real
<1>3. new \in Seq(Item) /\ Len(new) = Len(rows)
  BY DEF KeepsItems
<1>4. GoodItems(rows, new)
  <2>1. \A i \in 1..Len(rows) : its[i].handle \in {NoRow, rows[i]}
    BY DEF GoodItems
  <2> QED BY <1>2, <1>3, <2>1 DEF GoodItems
<1>5. SameHandles(rows, new, its)
  BY <1>2 DEF SameHandles
<1>6. HeightsRight(rows, its, width) => HeightsRight(rows, new, width)
  BY <1>2 DEF HeightsRight
<1> QED BY <1>4, <1>5, <1>6 DEF Carried

\* The heights that hold for the width.
LEMMA ForWidthKeeps ==
  ASSUME GoodRows(rows), NEW its, GoodItems(rows, its), NEW width \in AllWidths
  PROVE  /\ Carried(ForWidth(its, width), its)
         /\ (bounds # NotYet => HeightsRight(rows, its, bounds.width))
              => HeightsRight(rows, ForWidth(its, width), width)
<1>1. CASE bounds # NotYet /\ bounds.width = width
  <2>1. ForWidth(its, width) = its
    BY <1>1 DEF ForWidth
  <2> QED BY <1>1, <2>1 DEF Carried, SameHandles
<1>2. CASE ~(bounds # NotYet /\ bounds.width = width)
  <2> DEFINE new == [i \in 1..Len(rows) |-> Unmeasured(its[i].handle)]
  <2>1. ForWidth(its, width) = new
    <3>1. DOMAIN its = 1..Len(rows)
      BY DEF GoodItems
    <3> QED BY <1>2, <3>1 DEF ForWidth
  <2>2. ASSUME NEW i \in 1..Len(rows)
        PROVE  new[i] \in Item /\ new[i].handle = its[i].handle /\ ~new[i].measured
    <3>1. its[i].handle \in FocusableRows \cup {NoRow}
      BY ItemSizes DEF GoodItems
    <3>2. new[i] = Unmeasured(its[i].handle)
      OBVIOUS
    <3> HIDE DEF new
    <3> QED BY <3>1, <3>2, UnmeasuredIs
  <2>3. Len(rows) \in Nat /\ new = [i \in 1..Len(rows) |-> new[i]] /\ DOMAIN new = 1..Len(rows)
    BY DEF GoodRows
  <2> HIDE DEF new
  <2>4. new \in [1..Len(rows) -> Item]
    BY <2>2, <2>3
  <2>5. new \in Seq(Item) /\ Len(new) = Len(rows)
    BY <2>3, <2>4
  <2>6. GoodItems(rows, new)
    <3>1. \A i \in 1..Len(rows) : its[i].handle \in {NoRow, rows[i]}
      BY DEF GoodItems
    <3> QED BY <2>2, <2>5, <3>1 DEF GoodItems
  <2> QED BY <2>1, <2>2, <2>6 DEF Carried, SameHandles, HeightsRight
<1> QED BY <1>1, <1>2

\* The heights that layout_items of prepaint finds.
LEMMA ToLayOutKeeps ==
  ASSUME GoodRows(rows), NEW its, GoodItems(rows, its), NEW width \in AllWidths
  PROVE  /\ Carried(ToLayOut(its, width), its)
         /\ HeightsRight(rows, its, width) => HeightsRight(rows, ToLayOut(its, width), width)
<1>1. CASE measuring # "pending"
  <2>1. ToLayOut(its, width) = its
    BY <1>1 DEF ToLayOut
  <2> QED BY <1>1, <2>1 DEF Carried, SameHandles
<1>2. CASE measuring = "pending"
  <2> DEFINE new == [i \in 1..Len(rows) |-> IF its[i].measured THEN its[i]
                                            ELSE Measured(its[i], RowHeight[rows[i], width])]
  <2>1. ToLayOut(its, width) = new
    <3>1. DOMAIN its = 1..Len(rows)
      BY DEF GoodItems
    <3> QED BY <1>2, <3>1 DEF ToLayOut, MeasureAll
  <2>2. ASSUME NEW i \in 1..Len(rows)
        PROVE  new[i] \in Item /\ (new[i] = its[i] \/ new[i] = Measured(its[i], Real(rows, i, width)))
    <3>1. its[i] \in Item /\ Real(rows, i, width) \in Nat
      BY ItemSizes, RealHeights DEF GoodItems, GoodRows
    <3>2. new[i] = its[i] \/ new[i] = Measured(its[i], Real(rows, i, width))
      BY DEF Real
    <3> DEFINE item == its[i]
               real == Real(rows, i, width)
    <3>3. item \in Item /\ real \in Nat /\ (new[i] = item \/ new[i] = Measured(item, real))
      <4> HIDE DEF new
      <4> QED BY <3>1, <3>2
    <3> HIDE DEF new, item, real
    <3>4. new[i] \in Item
      BY <3>3, MeasuredIs
    <3> QED BY <3>2, <3>4
  <2>3. Len(rows) \in Nat /\ new = [i \in 1..Len(rows) |-> new[i]] /\ DOMAIN new = 1..Len(rows)
    BY DEF GoodRows
  <2> HIDE DEF new
  <2>4. new \in [1..Len(rows) -> Item]
    BY <2>2, <2>3
  <2>5. KeepsItems(its, new, width)
    BY <2>2, <2>3, <2>4 DEF KeepsItems
  <2> QED BY <2>1, <2>5, LayoutKeeps
<1> QED BY <1>1, <1>2

\* request_layout.
LEMMA SizedKeeps ==
  ASSUME GoodRows(rows), NEW its, GoodItems(rows, its), NEW scroll, scroll = NoOffset \/ scroll \in Position,
         bounds = NotYet \/ bounds \in [width : Widths, height : Heights]
  PROVE  /\ Carried(Sized(its, scroll).items, its)
         /\ Sized(its, scroll).scroll = NoOffset \/ Sized(its, scroll).scroll \in Position
         /\ sizing # "Infer" => Sized(its, scroll).items = its
<1>1. CASE sizing # "Infer"
  <2>1. Sized(its, scroll) = [items |-> its, scroll |-> scroll]
    BY <1>1 DEF Sized
  <2>2. Sized(its, scroll).items = its /\ Sized(its, scroll).scroll = scroll
    BY <2>1
  <2> QED BY <2>2 DEF Carried, SameHandles
<1>2. CASE sizing = "Infer"
  <2> DEFINE height == IF bounds = NotYet THEN Overdraw ELSE bounds.height
             layout == LayoutItems(its, scroll, MinWidth, height)
  <2>1. Sized(its, scroll) = layout
    BY <1>2 DEF Sized
  <2>2. height \in Nat
    BY ListAssumption
  <2>3. MinWidth \in AllWidths
    BY DEF AllWidths
  <2> HIDE DEF height
  <2>4. IsLayout(layout, its, MinWidth, height)
    BY <2>2, <2>3, LayoutSound
  <2> HIDE DEF layout
  <2>5. Carried(layout.items, its)
    BY <2>3, <2>4, LayoutKeeps DEF IsLayout
  <2>6. layout.scroll = NoOffset \/ layout.scroll \in Position
    BY <2>4 DEF IsLayout, Places
  <2> QED BY <1>2, <2>1, <2>5, <2>6
<1> QED BY <1>1, <1>2

\* What is left of a room when one height after the other is taken from it.
Left(f, n, a, sub) == f = [k \in 0..n |-> IF k = 0 THEN a ELSE f[k - 1] - sub[k]]

\* There is such a function,
LEMMA LeftExists ==
  ASSUME NEW n \in Nat, NEW a \in Int, NEW sub \in [1..n -> Int]
  PROVE  \E f : Left(f, n, a, sub)
<1> DEFINE step == [p \in (1..n) \X Int |-> p[2] - sub[p[1]]]
<1>1. ASSUME NEW k \in 1..n, NEW v \in Int
      PROVE  step[<<k, v>>] = v - sub[k] /\ step[<<k, v>>] \in Int
  <2>1. step[<<k, v>>] = v - sub[k] /\ sub[k] \in Int
    OBVIOUS
  <2> HIDE DEF step
  <2> QED BY <2>1
<1> HIDE DEF step
<1>2. PICK f : Recurs(f, n, Int, a, step)
  BY <1>1, Recursion
<1>3. f[0] = a /\ f = [k \in 0..n |-> f[k]]
  BY <1>2 DEF Recurs
<1>4. ASSUME NEW k \in 0..n
      PROVE  f[k] = IF k = 0 THEN a ELSE f[k - 1] - sub[k]
  <2>1. CASE k = 0
    BY <1>3, <2>1
  <2>2. CASE k \in 1..n
    <3>1. f[k] = step[<<k, f[k - 1]>>] /\ f[k - 1] \in Int
      BY <1>2, <2>2 DEF Recurs
    <3> QED BY <1>1, <2>2, <3>1
  <2> QED BY <2>1, <2>2
<1> QED BY <1>3, <1>4 DEF Left

\* and the values of every one of them are integers.
LEMMA LeftIs ==
  ASSUME NEW n \in Nat, NEW a \in Int, NEW sub \in [1..n -> Int], NEW f, Left(f, n, a, sub)
  PROVE  \A k \in 0..n : f[k] \in Int
<1> DEFINE g == [k \in 0..n |-> IF k = 0 THEN a ELSE f[k - 1] - sub[k]]
           P == {k \in 0..n : f[k] \in Int}
<1>1. g[0] = a /\ \A k \in 1..n : g[k] = f[k - 1] - sub[k]
  OBVIOUS
<1>2. f = g
  BY DEF Left
<1> HIDE DEF g
<1>3. 0 \in P
  BY <1>1, <1>2
<1>4. ASSUME NEW k \in 0..(n - 1), k \in P PROVE k + 1 \in P
  <2>1. k + 1 \in 1..n /\ (k + 1) - 1 = k
    OBVIOUS
  <2>2. sub[k + 1] \in Int /\ f[k + 1] = f[k] - sub[k + 1]
    BY <1>1, <1>2, <2>1
  <2> QED BY <1>4, <2>1, <2>2
<1>5. 0..n \subseteq P
  <2> HIDE DEF P
  <2> QED BY <1>3, <1>4, UpTo
<1> QED BY <1>5

TakesRows(sub, ix, width) == \A j \in 1..ix : sub[j] = Real(rows, ix - j + 1, width)

\* With right heights, it is less by the rows between.
LEMMA LeftOver ==
  ASSUME rows \in Seq(Rows), NEW width \in AllWidths, NEW ix \in 0..Len(rows), NEW room \in Int,
         NEW sub, TakesRows(sub, ix, width), NEW f, Left(f, ix, room, sub)
  PROVE  \A j \in 0..ix : f[j] = room - RealTo(rows, width, ix) + RealTo(rows, width, ix - j)
<1> DEFINE Q == {j \in 0..ix : f[j] = room - RealTo(rows, width, ix) + RealTo(rows, width, ix - j)}
           g == [j \in 0..ix |-> IF j = 0 THEN room ELSE f[j - 1] - sub[j]]
<1>1. /\ Len(rows) \in Nat
      /\ \A k \in 1..Len(rows) : /\ Real(rows, k, width) \in Nat
                                 /\ RealTo(rows, width, k) = RealTo(rows, width, k - 1) + Real(rows, k, width)
      /\ \A k \in 0..Len(rows) : RealTo(rows, width, k) \in Nat
  BY RealHeights
<1>2. g[0] = room /\ \A j \in 1..ix : g[j] = f[j - 1] - sub[j]
  OBVIOUS
<1>2a. \A j \in 1..ix : sub[j] = Real(rows, ix - j + 1, width)
  BY DEF TakesRows
<1>3. f = g
  BY DEF Left
<1> HIDE DEF g
<1>4. 0 \in Q
  <2>1. RealTo(rows, width, ix) \in Nat /\ ix - 0 = ix /\ 0 \in 0..ix
    BY <1>1
  <2> QED BY <1>2, <1>3, <2>1
<1>5. ASSUME NEW j \in 0..(ix - 1), j \in Q PROVE j + 1 \in Q
  <2>1. /\ j + 1 \in 1..ix /\ (j + 1) - 1 = j /\ ix - (j + 1) + 1 = ix - j /\ ix - j \in 1..Len(rows)
        /\ (ix - j) - 1 = ix - (j + 1) /\ ix - (j + 1) \in 0..Len(rows) /\ j + 1 \in 0..ix
    BY <1>1
  <2>2. f[j + 1] = f[j] - Real(rows, ix - j, width)
    BY <1>2, <1>2a, <1>3, <2>1
  <2>3. RealTo(rows, width, ix - j) = RealTo(rows, width, ix - (j + 1)) + Real(rows, ix - j, width)
    BY <1>1, <2>1
  <2>4. /\ RealTo(rows, width, ix) \in Nat /\ RealTo(rows, width, ix - (j + 1)) \in Nat
        /\ Real(rows, ix - j, width) \in Nat
    BY <1>1, <2>1
  <2>5. f[j] = room - RealTo(rows, width, ix) + RealTo(rows, width, ix - j)
    BY <1>5
  <2>6. f[j + 1] = room - RealTo(rows, width, ix) + RealTo(rows, width, ix - (j + 1))
    BY <2>2, <2>3, <2>4, <2>5
  <2> QED BY <2>1, <2>6
<1>6. 0..ix \subseteq Q
  <2>1. ix \in Nat
    BY <1>1
  <2> HIDE DEF Q
  <2> QED BY <1>4, <1>5, <2>1, UpTo
<1> QED BY <1>6

\* The row of the list that a request is about is in view, or it is where it is scrolled to.
Serves(layout, request, auto, width, height) ==
  \E i \in 0..(Len(rows) - 1) :
    /\ rows[i + 1] = auto.row
    /\ IF request = NotYet THEN Sees(rows, layout, i, <<auto.top, auto.bottom>>, width, height)
       ELSE /\ request \in Position /\ request.ix <= i
            /\ HeightsRight(rows, layout.items, width)
                 /\ auto.bottom - auto.top <= height - PadTop - PadBottom =>
                 /\ RowAt(rows, request, i, width) + auto.top >= 0
                 /\ RowAt(rows, request, i, width) + auto.bottom <= height

\* A part that fits between the paddings is in the viewport when its row is drawn with the part
\* at one of the paddings, or the whole of it in between.
LEMMA PartFits ==
  ASSUME NEW from, NEW top \in Nat, NEW bottom \in Nat, NEW height \in Nat,
         bottom - top <= height - PadTop - PadBottom,
         \/ from = PadTop - top
         \/ from = height - PadBottom - bottom
         \/ from \in Nat /\ from + bottom <= height
  PROVE  from + top >= 0 /\ from + bottom <= height
<1>1. PadTop \in Nat /\ PadBottom \in Nat
  BY ListAssumption
<1> QED BY <1>1

\* A request to scroll is for a place in the list, from which the part of the row shows.
LEMMA AutoscrollIs ==
  ASSUME GoodRows(rows), NEW width \in AllWidths, NEW height \in Nat,
         NEW layout, GoodItems(rows, layout.items), layout.shown \in Seq(0..(Len(rows) - 1)),
         layout.top \in Position,
         NEW auto \in Requests, \E k \in DOMAIN layout.shown : rows[layout.shown[k] + 1] = auto.row
  PROVE  LET request == Autoscroll(layout, auto, width, height)
         IN /\ request = NotYet \/ (request \in Position /\ request.offset >= 0)
            /\ Serves(layout, request, auto, width, height)
<1> DEFINE its == layout.items
           k == CHOOSE j \in DOMAIN layout.shown : rows[layout.shown[j] + 1] = auto.row
           ix == layout.shown[k]
           y == DrawnAt(layout, width, k)
           Known(i) == IF its[i].measured THEN its[i].size ELSE RowHeight[rows[i], width]
           left == CHOOSE f : f = [j \in 0..ix |-> IF j = 0 THEN RoomAbove(auto, height)
                                                   ELSE f[j - 1] - Known(ix - j + 1)]
           up == FirstIn(ix, {j \in 0..ix : left[j] <= 0})
<1>1. Autoscroll(layout, auto, width, height) =
        CASE y + auto.top < 0 -> [ix |-> ix, offset |-> auto.top]
          [] y + auto.top >= 0 /\ y + auto.bottom > height ->
               [ix |-> ix - up, offset |-> Max2(0, -left[up])]
          [] OTHER -> NotYet
  BY DEF Autoscroll
<1>2. ix \in 0..(Len(rows) - 1) /\ Len(rows) \in Nat
  <2>1. k \in DOMAIN layout.shown
    OBVIOUS
  <2> HIDE DEF k
  <2> QED BY <2>1 DEF GoodRows
<1>2a. k \in DOMAIN layout.shown /\ rows[layout.shown[k] + 1] = auto.row /\ layout.shown[k] = ix
  OBVIOUS
<1> HIDE DEF k, ix, y
<1>3. auto.top \in Nat /\ auto.bottom \in Nat /\ RoomAbove(auto, height) \in Int
  BY ListAssumption DEF RoomAbove
<1>4. ASSUME NEW i \in 1..Len(rows) PROVE Known(i) \in Int
  <2> DEFINE real == Real(rows, i, width)
             size == its[i].size
  <2>1. size \in Nat /\ real \in Nat
    BY ItemSizes, RealHeights DEF GoodItems, GoodRows
  <2>2. Known(i) = size \/ Known(i) = real
    BY DEF Real
  <2> HIDE DEF Known, real, size
  <2> QED BY <2>1, <2>2
<1> DEFINE room == RoomAbove(auto, height)
           sub == [j \in 1..ix |-> Known(ix - j + 1)]
<1>5. /\ left[up] \in Int /\ up \in 0..ix /\ (up = ix \/ left[up] <= 0)
      /\ Left(left, ix, room, sub)
  <2> DEFINE body(f) == [j \in 0..ix |-> IF j = 0 THEN RoomAbove(auto, height)
                                         ELSE f[j - 1] - Known(ix - j + 1)]
             lessened(f) == [j \in 0..ix |-> IF j = 0 THEN room ELSE f[j - 1] - sub[j]]
  <2> HIDE DEF Known
  <2>1. ix \in Nat /\ room \in Int
    BY <1>2, <1>3
  <2>2. sub \in [1..ix -> Int]
    <3>1. ASSUME NEW j \in 1..ix PROVE Known(ix - j + 1) \in Int
      <4>1. ix - j + 1 \in 1..Len(rows)
        BY <1>2
      <4> QED BY <1>4, <4>1
    <3> QED BY <3>1
  <2>3. \A f : body(f) = lessened(f)
    <3> SUFFICES ASSUME NEW f PROVE body(f) = lessened(f)
      OBVIOUS
    <3>1. ASSUME NEW j \in 0..ix, j # 0 PROVE f[j - 1] - Known(ix - j + 1) = f[j - 1] - sub[j]
      <4>1. j \in 1..ix
        BY <2>1, <3>1
      <4> QED BY <4>1
    <3> HIDE DEF sub
    <3> QED BY <3>1
  <2> HIDE DEF sub, room
  <2>4. PICK f : Left(f, ix, room, sub)
    BY <2>1, <2>2, LeftExists
  <2>5. f = lessened(f)
    BY <2>4 DEF Left
  <2>6. f = body(f)
    <3> HIDE DEF body, lessened
    <3> QED BY <2>3, <2>5
  <2>7. left = body(left)
    BY <2>6
  <2>8. left = lessened(left)
    <3> HIDE DEF body, lessened, left
    <3> QED BY <2>3, <2>7
  <2> HIDE DEF left, body
  <2>9. Left(left, ix, room, sub)
    BY <2>8 DEF Left
  <2> HIDE DEF lessened
  <2>10. \A j \in 0..ix : left[j] \in Int
    BY <2>1, <2>2, <2>9, LeftIs
  <2>11. up \in 0..ix /\ (up = ix \/ left[up] <= 0)
    <3> DEFINE stops == {j \in 0..ix : left[j] <= 0}
    <3>1. up = FirstIn(ix, stops)
      OBVIOUS
    <3> HIDE DEF stops, up
    <3>2. up \in 0..ix /\ (up = ix \/ up \in stops)
      BY <2>1, <3>1, FirstIs
    <3> QED BY <3>2 DEF stops
  <2> QED BY <2>9, <2>10, <2>11 DEF room
<1> HIDE DEF left, up, room, sub
<1> DEFINE shown == layout.shown
           n == Len(rows)
           toTop == [ix |-> ix, offset |-> auto.top]
           toEnd == [ix |-> ix - up, offset |-> Max2(0, -left[up])]
           R(j) == RealTo(rows, width, j)
<1>6. toTop \in Position /\ toTop.ix = ix /\ toTop.offset = auto.top
  BY <1>2, <1>3 DEF Position
<1>7. /\ toEnd \in Position /\ toEnd.ix = ix - up /\ toEnd.offset = Max2(0, -left[up])
      /\ toEnd.offset >= 0 /\ toEnd.ix <= ix
  <2>1. ix - up \in 0..Len(rows) /\ Max2(0, -left[up]) \in Int /\ Max2(0, -left[up]) >= 0 /\ ix - up <= ix
    BY <1>2, <1>5, SMTT(30) DEF Max2
  <2> QED BY <2>1 DEF Position
<1>8. toTop # NotYet /\ toEnd # NotYet
  <2>1. Position \subseteq [ix : Nat, offset : Int]
    BY DEF Position
  <2> QED BY <1>6, <1>7, <2>1, NonesApart
<1>9. ix \in 0..(n - 1) /\ rows[ix + 1] = auto.row
  BY <1>2, <1>2a
<1>10. /\ rows \in Seq(Rows) /\ n \in Nat /\ PadTop \in Nat /\ PadBottom \in Nat
       /\ ix \in 0..n /\ ix + 1 \in 0..n
  BY <1>2, ListAssumption DEF GoodRows
<1>11. \A j \in 0..n : R(j) \in Nat
  BY <1>10, RealHeights
<1>12. room = height - PadTop - PadBottom - auto.bottom
  BY DEF room, RoomAbove
<1>12a. y = PlacedAt(rows, layout.shown, layout.top.offset, width, k) /\ y \in Int
  <2>1. y = PlacedAt(rows, layout.shown, layout.top.offset, width, k)
    BY DEF y, DrawnAt, PlacedAt
  <2> QED BY <1>2a, <1>10, <2>1, PlacedAtIs
<1>13. CASE y + auto.top < 0
  <2>1. RowAt(rows, toTop, ix, width) = PadTop - auto.top
    BY <1>6, <1>10, RowsAt
  <2>2. auto.bottom - auto.top <= height - PadTop - PadBottom =>
          RowAt(rows, toTop, ix, width) + auto.top >= 0 /\ RowAt(rows, toTop, ix, width) + auto.bottom <= height
    <3> HIDE DEF toTop
    <3> QED BY <1>3, <2>1, PartFits
  <2>3. Autoscroll(layout, auto, width, height) = toTop
    <3>1. ~(y + auto.top >= 0)
      BY <1>3, <1>12a, <1>13
    <3> QED BY <1>1, <1>13, <3>1
  <2> HIDE DEF toTop
  <2>4. toTop.ix <= ix
    BY <1>6, <1>9
  <2>5. Serves(layout, toTop, auto, width, height)
    <3> HIDE DEF n
    <3> QED BY <1>6, <1>8, <1>9, <2>2, <2>4 DEF Serves, n
  <2> QED BY <1>3, <1>6, <2>3, <2>5
<1>14. CASE ~(y + auto.top < 0) /\ y + auto.top >= 0 /\ y + auto.bottom > height
  <2>1. ASSUME HeightsRight(rows, layout.items, width), auto.bottom - auto.top <= height - PadTop - PadBottom
        PROVE  RowAt(rows, toEnd, ix, width) + auto.top >= 0 /\ RowAt(rows, toEnd, ix, width) + auto.bottom <= height
    <3>1. TakesRows(sub, ix, width)
      <4>1. ASSUME NEW j \in 1..ix PROVE Known(ix - j + 1) = Real(rows, ix - j + 1, width)
        <5>1. ix - j + 1 \in 1..n
          BY <1>10, SMTT(30)
        <5> QED BY <2>1, <5>1 DEF HeightsRight, Real
      <4> HIDE DEF Known
      <4> QED BY <4>1 DEF sub, TakesRows
    <3>2. left[up] = room - R(ix) + R(ix - up)
      <4>1. room \in Int
        BY <1>3 DEF room
      <4>2. \A j \in 0..ix : left[j] = room - R(ix) + R(ix - j)
        BY <1>5, <1>10, <3>1, <4>1, LeftOver
      <4> QED BY <1>5, <4>2
    <3>3. ix - up \in 0..n /\ R(ix) \in Nat /\ R(ix - up) \in Nat
      <4>1. ix - up \in 0..n
        BY <1>5, <1>10
      <4> QED BY <1>10, <1>11, <4>1
    <3>4. RowAt(rows, toEnd, ix, width) = PadTop - toEnd.offset + R(ix) - R(ix - up)
      BY <1>7 DEF RowAt
    <3> DEFINE edge == RowAt(rows, toEnd, ix, width)
    <3> HIDE DEF R, toEnd, edge
    <3>5. edge = PadTop - toEnd.offset + R(ix) - R(ix - up)
      BY <3>4 DEF edge
    <3>6. CASE left[up] <= 0
      <4>1. toEnd.offset = -left[up]
        BY <1>5, <1>7, <3>6 DEF Max2
      <4> DEFINE a == R(ix)
                 b == R(ix - up)
      <4>2. a \in Nat /\ b \in Nat /\ left[up] = room - a + b /\ edge = PadTop - toEnd.offset + a - b
        BY <3>2, <3>3, <3>5
      <4> HIDE DEF a, b
      <4>3. edge = height - PadBottom - auto.bottom
        <5> DEFINE bottom == auto.bottom
                   l == left[up]
                   offset == toEnd.offset
        <5>1. /\ bottom \in Nat /\ l \in Int /\ l = room - a + b /\ offset = -l
              /\ edge = PadTop - offset + a - b /\ room = height - PadTop - PadBottom - bottom
          BY <1>3, <1>5, <1>12, <4>1, <4>2
        <5> HIDE DEF bottom, l, offset
        <5>1a. a \in Nat /\ b \in Nat /\ PadTop \in Nat /\ PadBottom \in Nat /\ height \in Nat
          BY <1>10, <4>2
        <5>1b. room \in Int /\ PadTop - offset + a - b = PadTop + room
          BY <5>1, <5>1a
        <5>2. edge = height - PadBottom - bottom
          BY <5>1, <5>1a, <5>1b
        <5> QED BY <5>2 DEF bottom
      <4>4. edge + auto.top >= 0 /\ edge + auto.bottom <= height
        BY <1>3, <2>1, <4>3, PartFits
      <4> QED BY <4>4 DEF edge
    <3>7. CASE ~(left[up] <= 0)
      <4>1. toEnd.offset = 0 /\ up = ix
        BY <1>5, <1>7, <3>7 DEF Max2
      <4>2. ix - up = 0
        BY <1>10, <4>1
      <4>3. R(ix - up) = 0
        BY <1>10, <4>2, RealHeights DEF R
      <4> DEFINE a == R(ix)
                 b == R(ix - up)
      <4>4. a \in Nat /\ b \in Nat /\ b = 0 /\ left[up] = room - a + b /\ edge = PadTop - toEnd.offset + a - b
        BY <3>2, <3>3, <3>5, <4>3
      <4> HIDE DEF a, b
      <4>5. edge \in Nat /\ edge + auto.bottom <= height
        <5> DEFINE bottom == auto.bottom
                   l == left[up]
                   offset == toEnd.offset
        <5>1. /\ bottom \in Nat /\ l \in Int /\ l = room - a + b /\ offset = 0 /\ ~(l <= 0)
              /\ edge = PadTop - offset + a - b /\ room = height - PadTop - PadBottom - bottom
          BY <1>3, <1>5, <1>12, <3>7, <4>1, <4>4
        <5> HIDE DEF bottom, l, offset
        <5>1a. a \in Nat /\ b = 0 /\ PadTop \in Nat /\ PadBottom \in Nat /\ height \in Nat
          BY <1>10, <4>4
        <5>1b. edge = PadTop + a /\ room - a > 0
          BY <5>1, <5>1a
        <5>2. edge \in Nat /\ edge + bottom <= height
          BY <5>1, <5>1a, <5>1b
        <5> QED BY <5>2 DEF bottom
      <4>6. edge + auto.top >= 0 /\ edge + auto.bottom <= height
        BY <1>3, <2>1, <4>5, PartFits
      <4> QED BY <4>6 DEF edge
    <3> QED BY <3>6, <3>7
  <2>2. Autoscroll(layout, auto, width, height) = toEnd
    BY <1>1, <1>14
  <2> HIDE DEF toEnd
  <2>3. Serves(layout, toEnd, auto, width, height)
    BY <1>7, <1>8, <1>9, <2>1 DEF Serves
  <2> QED BY <1>7, <2>2, <2>3
<1>15. CASE ~(y + auto.top < 0) /\ ~(y + auto.top >= 0 /\ y + auto.bottom > height)
  <2>3. y + auto.top >= 0 /\ y + auto.bottom <= height
    BY <1>3, <1>12a, <1>15, SMTT(30)
  <2>4. Autoscroll(layout, auto, width, height) = NotYet
    BY <1>1, <1>15
  <2> DEFINE part == <<auto.top, auto.bottom>>
  <2>5. part[1] = auto.top /\ part[2] = auto.bottom
    OBVIOUS
  <2> HIDE DEF part
  <2>6. Sees(rows, layout, ix, part, width, height)
    BY <1>2a, <1>12a, <2>3, <2>5 DEF Sees
  <2>7. Serves(layout, NotYet, auto, width, height)
    BY <1>9, <2>6 DEF Serves, part
  <2> QED BY <2>4, <2>7
<1> QED BY <1>13, <1>14, <1>15

\* What prepaint leaves of the items, and paints.
IsFrame(made, its, width, height) ==
  /\ Carried(made.items, its)
  /\ HeightsRight(rows, its, width) => HeightsRight(rows, made.items, width)
  /\ Places(made) /\ Fills(rows, made, width, height) /\ Pinned(made, width, height)
  /\ height > PadTop + PadBottom => ShowsFocused(made, its)

\* A place for the top of the viewport at which layout_items leaves it: the rows fill the
\* viewport from there, or they are all there.
Rests(rs, top, width, height) ==
  \/ Reaches(rs, top, width, height)
  \/ /\ alignment = "Top" /\ top.ix = 0 /\ top.offset = 0
     /\ RowAt(rs, top, Len(rs), width) + PadBottom <= height

\* What is remembered of a layout leads the next one to the same place.
AtRest(layout, its, scroll, width, height) ==
  /\ layout.top.ix = 0 \/ layout.top.offset >= 0
  /\ \/ alignment # "Top" /\ scroll = NoOffset
     \/ layout.top = LogicalTop(its, scroll) /\ Rests(rows, layout.top, width, height)

\* Rows are rendered if the paddings leave something of the viewport.
OnlyRoomy(layout, height) ==
  IF height > PadTop + PadBottom THEN InOrder(layout) ELSE layout.shown = <<>>

\* Where the list is scrolled to, no row begins below the top padding.
Forth(scroll) == scroll = NoOffset \/ scroll.offset >= 0

\* The part of a row that was asked for is in view.
ShowsPart(rs, layout, auto, width, height) ==
  \E i \in 0..(Len(rs) - 1) :
    rs[i + 1] = auto.row /\ Sees(rs, layout, i, <<auto.top, auto.bottom>>, width, height)

\* Two steps of a frame carry the items on.
LEMMA CarriedOn ==
  ASSUME NEW a, NEW b, NEW c, Carried(a, b), Carried(b, c)
  PROVE  Carried(a, c)
BY DEF Carried, SameHandles

\* The focused rows are those of the items that were carried here.
LEMMA ShowsCarried ==
  ASSUME NEW layout, NEW its, NEW old, SameHandles(rows, its, old), ShowsFocused(layout, its)
  PROVE  ShowsFocused(layout, old)
BY DEF SameHandles, ShowsFocused, ContainsFocused

\* One run of layout_items is a frame,
LEMMA LayoutIsFrame ==
  ASSUME GoodRows(rows), NEW its, GoodItems(rows, its), NEW width \in AllWidths, NEW height \in Nat,
         NEW scroll, scroll = NoOffset \/ scroll \in Position
  PROVE  IsFrame(LayoutItems(its, scroll, width, height), its, width, height)
<1> DEFINE layout == LayoutItems(its, scroll, width, height)
<1>1. IsLayout(layout, its, width, height)
  BY LayoutSound
<1> HIDE DEF layout
<1>2. /\ Carried(layout.items, its)
      /\ HeightsRight(rows, its, width) => HeightsRight(rows, layout.items, width)
  BY <1>1, LayoutKeeps DEF IsLayout
<1>3. IsFrame(layout, its, width, height)
  BY <1>1, <1>2 DEF IsLayout, IsFrame
<1> QED BY <1>3 DEF layout

\* it does not scroll the list up beyond the first row it shows,
LEMMA LayoutForth ==
  ASSUME GoodRows(rows), NEW its, GoodItems(rows, its), NEW width \in AllWidths, NEW height \in Nat,
         NEW scroll, scroll = NoOffset \/ scroll \in Position, Forth(scroll)
  PROVE  Forth(LayoutItems(its, scroll, width, height).scroll)
<1> DEFINE layout == LayoutItems(its, scroll, width, height)
           start == LogicalTop(its, scroll)
<1>1. Stays(layout, start, scroll, width, height) \/ Moves(layout, start, width, height)
  BY LayoutSound
<1> HIDE DEF layout, start
<1>2. CASE Stays(layout, start, scroll, width, height)
  BY <1>2 DEF Stays, layout
<1>3. CASE Moves(layout, start, width, height)
  <2>1. Forth(layout.scroll)
    BY <1>3 DEF Moves, Adjusted, Forth
  <2> QED BY <2>1 DEF layout
<1> QED BY <1>1, <1>2, <1>3

\* and rests where it is;
LEMMA LayoutRests ==
  ASSUME GoodRows(rows), NEW its, GoodItems(rows, its), NEW width \in AllWidths, NEW height \in Nat,
         NEW scroll, scroll = NoOffset \/ scroll \in Position, Forth(scroll)
  PROVE  LET layout == LayoutItems(its, scroll, width, height)
         IN InOrder(layout) /\ AtRest(layout, layout.items, layout.scroll, width, height)
<1> DEFINE layout == LayoutItems(its, scroll, width, height)
           start == LogicalTop(its, scroll)
<1>1. /\ Stays(layout, start, scroll, width, height) \/ Moves(layout, start, width, height)
      /\ InOrder(layout) /\ IsLayout(layout, its, width, height)
  BY LayoutSound
<1> HIDE DEF layout
<1>2. Len(layout.items) = Len(its) /\ layout.top \in Position /\ Len(rows) \in Nat
  BY <1>1 DEF IsLayout, KeepsItems, Places, GoodItems, GoodRows
<1>3. start.offset >= 0
  BY DEF LogicalTop, Forth
<1>4. ASSUME Stays(layout, start, scroll, width, height)
      PROVE  AtRest(layout, layout.items, layout.scroll, width, height)
  <2>1. layout.top = start /\ layout.scroll = scroll /\ Reaches(rows, layout.top, width, height)
    BY <1>4 DEF Stays
  <2>2. LogicalTop(layout.items, layout.scroll) = start
    BY <1>2, <2>1 DEF LogicalTop
  <2> HIDE DEF start
  <2> QED BY <1>3, <2>1, <2>2 DEF AtRest, Rests
<1>5. ASSUME Moves(layout, start, width, height)
      PROVE  AtRest(layout, layout.items, layout.scroll, width, height)
  <2>1. /\ layout.scroll = Adjusted(layout.top)
        /\ layout.top.ix = 0 \/ layout.top.offset >= 0
        /\ \/ RowAt(rows, layout.top, Len(rows), width) + PadBottom = height
           \/ /\ alignment = "Top" /\ layout.top.ix = 0 /\ layout.top.offset = 0
              /\ RowAt(rows, layout.top, Len(rows), width) + PadBottom <= height
    BY <1>5 DEF Moves
  <2>2. Rests(rows, layout.top, width, height)
    BY <2>1 DEF Rests, Reaches
  <2>3. CASE alignment = "Top"
    <3>1. layout.scroll = layout.top
      BY <2>1, <2>3 DEF Adjusted
    <3>2. layout.top # NoOffset
      BY <1>2, NonesApart DEF Position
    <3>3. LogicalTop(layout.items, layout.scroll) = layout.top
      BY <3>1, <3>2 DEF LogicalTop
    <3> QED BY <2>1, <2>2, <3>3 DEF AtRest
  <2>4. CASE alignment # "Top"
    BY <2>1, <2>4 DEF AtRest, Adjusted
  <2> QED BY <2>3, <2>4
<1>6. InOrder(layout) /\ AtRest(layout, layout.items, layout.scroll, width, height)
  BY <1>1, <1>4, <1>5
<1> QED BY <1>6 DEF layout

\* nor does request_layout scroll it up,
LEMMA SizedForth ==
  ASSUME GoodRows(rows), NEW its, GoodItems(rows, its), NEW scroll, scroll = NoOffset \/ scroll \in Position,
         bounds = NotYet \/ bounds \in [width : Widths, height : Heights], Forth(scroll)
  PROVE  Forth(Sized(its, scroll).scroll)
<1>1. CASE sizing # "Infer"
  BY <1>1 DEF Sized
<1>2. CASE sizing = "Infer"
  <2> DEFINE height == IF bounds = NotYet THEN Overdraw ELSE bounds.height
  <2>1. MinWidth \in AllWidths /\ height \in Nat
    BY ListAssumption DEF AllWidths
  <2>2. Sized(its, scroll) = LayoutItems(its, scroll, MinWidth, height)
    BY <1>2 DEF Sized
  <2> HIDE DEF height
  <2> QED BY <2>1, <2>2, LayoutForth
<1> QED BY <1>1, <1>2

\* and so is what prepaint_items makes of it, with or without one more run for a request.
LEMMA RenderedIsFrame ==
  ASSUME GoodRows(rows), NEW its, GoodItems(rows, its), NEW width \in AllWidths, NEW height \in Nat,
         NEW layout, IsFrame(layout, its, width, height),
         NEW auto \in Requests \cup {NotYet}
  PROVE  IsFrame(Rendered(layout, width, height, auto), its, width, height)
<1> DEFINE roomy == height > PadTop + PadBottom
           asks == auto # NotYet /\ roomy /\ \E k \in DOMAIN layout.shown : rows[layout.shown[k] + 1] = auto.row
           request == IF asks THEN Autoscroll(layout, auto, width, height) ELSE NotYet
           final == IF request = NotYet THEN layout ELSE LayoutItems(layout.items, request, width, height)
           shown == IF roomy THEN final.shown ELSE <<>>
           told == IF asks THEN auto ELSE NotYet
           made == Rendered(layout, width, height, auto)
<1>1. made = [items |-> final.items, scroll |-> final.scroll, top |-> final.top,
               visible |-> final.visible, shown |-> shown, auto |-> told]
  BY DEF Rendered
<1> HIDE DEF made
<1>2. request = NotYet \/ request \in Position
  <2>1. CASE asks
    <3>1. auto \in Requests /\ \E k \in DOMAIN layout.shown : rows[layout.shown[k] + 1] = auto.row
      BY <2>1
    <3>2. /\ GoodItems(rows, layout.items) /\ layout.shown \in Seq(0..(Len(rows) - 1))
          /\ layout.top \in Position
      BY DEF IsFrame, Carried, Places
    <3>3. request = Autoscroll(layout, auto, width, height)
      BY <2>1
    <3> HIDE DEF request
    <3> QED BY <3>1, <3>2, <3>3, AutoscrollIs
  <2>2. CASE ~asks
    BY <2>2
  <2> QED BY <2>1, <2>2
<1> HIDE DEF request, told
<1>3. IsFrame(final, its, width, height)
  <2>1. CASE request = NotYet
    BY <2>1
  <2>2. CASE request # NotYet
    <3> DEFINE mid == layout.items
    <3>1. Carried(mid, its) /\ (HeightsRight(rows, its, width) => HeightsRight(rows, mid, width))
      BY DEF IsFrame
    <3>2. GoodItems(rows, mid) /\ SameHandles(rows, mid, its)
      BY <3>1 DEF Carried
    <3>3. final = LayoutItems(mid, request, width, height)
      BY <2>2
    <3> HIDE DEF mid, final
    <3>4. IsFrame(final, mid, width, height)
      BY <1>2, <2>2, <3>2, <3>3, LayoutIsFrame
    <3>5. Carried(final.items, its)
      BY <3>1, <3>4, CarriedOn DEF IsFrame
    <3>6. height > PadTop + PadBottom => ShowsFocused(final, its)
      BY <3>2, <3>4, ShowsCarried DEF IsFrame
    <3> QED BY <3>1, <3>4, <3>5, <3>6 DEF IsFrame
  <2> QED BY <2>1, <2>2
<1> HIDE DEF final
<1>4. /\ made.items = final.items /\ made.scroll = final.scroll /\ made.top = final.top
      /\ made.visible = final.visible /\ made.shown = shown
  <2> HIDE DEF shown
  <2> QED BY <1>1
<1>5. Places(made) /\ Fills(rows, made, width, height) /\ Pinned(made, width, height)
  <2>1. shown \in Seq(0..(Len(rows) - 1))
    <3>1. final.shown \in Seq(0..(Len(rows) - 1))
      BY <1>3 DEF IsFrame, Places
    <3> DEFINE numbers == 0..(Len(rows) - 1)
    <3>2. final.shown \in Seq(numbers) /\ <<>> \in Seq(numbers)
      BY <3>1
    <3> HIDE DEF numbers, roomy
    <3>3. shown \in Seq(numbers)
      BY <3>2
    <3> QED BY <3>3 DEF numbers
  <2> HIDE DEF shown
  <2> QED BY <1>3, <1>4, <2>1 DEF IsFrame, Places, Fills, Pinned, EdgeOf, AtEnd
<1>6. height > PadTop + PadBottom => ShowsFocused(made, its)
  <2>1. height > PadTop + PadBottom => made.shown = final.shown
    BY <1>4
  <2> QED BY <1>3, <2>1 DEF IsFrame, ShowsFocused
<1>7. IsFrame(made, its, width, height)
  BY <1>3, <1>4, <1>5, <1>6 DEF IsFrame
<1> QED BY <1>7 DEF made

\* A request is served by the frame it is made in, and a frame without one is the layout.
LEMMA RenderedServes ==
  ASSUME GoodRows(rows), NEW its, GoodItems(rows, its), NEW width \in Widths, NEW height \in Nat,
         NEW layout, IsFrame(layout, its, width, height), Forth(layout.scroll),
         NEW auto \in Requests \cup {NotYet}
  PROVE  LET made == Rendered(layout, width, height, auto)
         IN /\ Forth(made.scroll)
            /\ HeightsRight(rows, layout.items, width) /\ made.auto # NotYet
                 /\ made.auto.bottom - made.auto.top <= height - PadTop - PadBottom =>
                 ShowsPart(rows, made, made.auto, width, height)
            /\ auto = NotYet =>
                 /\ made.auto = NotYet /\ made.scroll = layout.scroll /\ made.top = layout.top
                 /\ height > PadTop + PadBottom => made.shown = layout.shown
<1> DEFINE roomy == height > PadTop + PadBottom
           asks == auto # NotYet /\ roomy /\ \E k \in DOMAIN layout.shown : rows[layout.shown[k] + 1] = auto.row
           request == IF asks THEN Autoscroll(layout, auto, width, height) ELSE NotYet
           final == IF request = NotYet THEN layout ELSE LayoutItems(layout.items, request, width, height)
           shown == IF roomy THEN final.shown ELSE <<>>
           told == IF asks THEN auto ELSE NotYet
           made == Rendered(layout, width, height, auto)
<1>1. made = [items |-> final.items, scroll |-> final.scroll, top |-> final.top,
               visible |-> final.visible, shown |-> shown, auto |-> told]
  BY DEF Rendered
<1> HIDE DEF made
<1>2. /\ made.scroll = final.scroll /\ made.top = final.top /\ made.shown = shown /\ made.auto = told
  <2> HIDE DEF final, shown, told
  <2> QED BY <1>1
<1>3. /\ GoodItems(rows, layout.items) /\ layout.shown \in Seq(0..(Len(rows) - 1))
      /\ layout.top \in Position /\ width \in AllWidths
  BY DEF IsFrame, Carried, Places, AllWidths
<1>4. asks => /\ auto \in Requests /\ request = Autoscroll(layout, auto, width, height)
              /\ request = NotYet \/ (request \in Position /\ request.offset >= 0)
              /\ Serves(layout, request, auto, width, height)
  <2> SUFFICES ASSUME asks
               PROVE  /\ auto \in Requests /\ request = Autoscroll(layout, auto, width, height)
                      /\ request = NotYet \/ (request \in Position /\ request.offset >= 0)
                      /\ Serves(layout, request, auto, width, height)
    OBVIOUS
  <2>1. auto \in Requests /\ \E k \in DOMAIN layout.shown : rows[layout.shown[k] + 1] = auto.row
    OBVIOUS
  <2>2. request = Autoscroll(layout, auto, width, height)
    OBVIOUS
  <2> HIDE DEF request, asks
  <2> QED BY <1>3, <2>1, <2>2, AutoscrollIs
<1>5. ~asks => request = NotYet /\ told = NotYet
  OBVIOUS
<1>6. asks => roomy /\ told = auto
  OBVIOUS
<1>7. auto = NotYet => ~asks
  OBVIOUS
<1> HIDE DEF asks, request, told
<1>8. Forth(made.scroll)
  <2>1. CASE request = NotYet
    BY <1>2, <2>1
  <2>2. CASE request # NotYet
    <3>1. request \in Position /\ Forth(request)
      BY <1>4, <1>5, <2>2 DEF Forth
    <3>2. final = LayoutItems(layout.items, request, width, height)
      BY <2>2
    <3> HIDE DEF final
    <3>3. Forth(final.scroll)
      BY <1>3, <3>1, <3>2, LayoutForth
    <3> QED BY <1>2, <3>3
  <2> QED BY <2>1, <2>2
<1>9. auto = NotYet =>
        /\ made.auto = NotYet /\ made.scroll = layout.scroll /\ made.top = layout.top
        /\ height > PadTop + PadBottom => made.shown = layout.shown
  BY <1>2, <1>5, <1>7
<1>10. ASSUME HeightsRight(rows, layout.items, width), made.auto # NotYet,
              made.auto.bottom - made.auto.top <= height - PadTop - PadBottom
       PROVE  ShowsPart(rows, made, made.auto, width, height)
  <2>1. asks /\ roomy /\ made.auto = auto /\ made.shown = final.shown
    BY <1>2, <1>5, <1>6, <1>10
  <2> DEFINE part == <<auto.top, auto.bottom>>
  <2>2. PICK i \in 0..(Len(rows) - 1) :
          /\ rows[i + 1] = auto.row
          /\ IF request = NotYet THEN Sees(rows, layout, i, part, width, height)
             ELSE /\ request \in Position /\ request.ix <= i
                  /\ HeightsRight(rows, layout.items, width)
                       /\ auto.bottom - auto.top <= height - PadTop - PadBottom =>
                       /\ RowAt(rows, request, i, width) + auto.top >= 0
                       /\ RowAt(rows, request, i, width) + auto.bottom <= height
    BY <1>4, <2>1 DEF Serves
  <2>3. /\ part \in Nat \X Nat /\ part[1] = auto.top /\ part[2] = auto.bottom
        /\ part[1] < part[2] /\ part[2] <= Real(rows, i + 1, width)
    <3>1. auto \in Requests /\ auto.top \in Nat /\ auto.bottom \in Nat
      BY <1>4, <2>1, ListAssumption
    <3>2. auto.top < auto.bottom /\ auto.bottom <= RowHeight[auto.row, width]
      BY <3>1, RequestsFit
    <3> QED BY <2>2, <3>1, <3>2 DEF Real
  <2> HIDE DEF part
  <2>4. Sees(rows, final, i, part, width, height)
    <3>1. CASE request = NotYet
      BY <2>2, <3>1
    <3>2. CASE request # NotYet
      <4>1. /\ request \in Position /\ request.ix <= i
            /\ RowAt(rows, request, i, width) + part[1] >= 0
            /\ RowAt(rows, request, i, width) + part[2] <= height
        BY <1>10, <2>1, <2>2, <2>3, <3>2
      <4>2. final = LayoutItems(layout.items, request, width, height)
        BY <3>2
      <4> HIDE DEF final
      <4> QED BY <1>3, <2>3, <4>1, <4>2, LayoutShows
    <3> QED BY <3>1, <3>2
  <2> HIDE DEF final
  <2>5. Sees(rows, made, i, part, width, height)
    BY <1>2, <2>1, <2>4 DEF Sees
  <2> QED BY <2>1, <2>2, <2>5 DEF ShowsPart, part
<1> HIDE DEF final, shown
<1>11. /\ Forth(made.scroll)
       /\ HeightsRight(rows, layout.items, width) /\ made.auto # NotYet
            /\ made.auto.bottom - made.auto.top <= height - PadTop - PadBottom =>
            ShowsPart(rows, made, made.auto, width, height)
       /\ auto = NotYet =>
            /\ made.auto = NotYet /\ made.scroll = layout.scroll /\ made.top = layout.top
            /\ height > PadTop + PadBottom => made.shown = layout.shown
  BY <1>8, <1>9, <1>10
<1> QED BY <1>11 DEF made

\* A frame rests where its last run of layout_items does.
LEMMA RenderedRests ==
  ASSUME GoodRows(rows), NEW its, GoodItems(rows, its), NEW width \in Widths, NEW height \in Nat,
         NEW layout, IsFrame(layout, its, width, height),
         InOrder(layout), AtRest(layout, layout.items, layout.scroll, width, height),
         NEW auto \in Requests \cup {NotYet}
  PROVE  LET made == Rendered(layout, width, height, auto)
         IN /\ OnlyRoomy(made, height)
            /\ AtRest(made, made.items, made.scroll, width, height)
            /\ auto = NotYet => made.top = layout.top /\ made.visible = layout.visible
<1> DEFINE roomy == height > PadTop + PadBottom
           asks == auto # NotYet /\ roomy /\ \E k \in DOMAIN layout.shown : rows[layout.shown[k] + 1] = auto.row
           request == IF asks THEN Autoscroll(layout, auto, width, height) ELSE NotYet
           final == IF request = NotYet THEN layout ELSE LayoutItems(layout.items, request, width, height)
           shown == IF roomy THEN final.shown ELSE <<>>
           told == IF asks THEN auto ELSE NotYet
           made == Rendered(layout, width, height, auto)
<1>1. made = [items |-> final.items, scroll |-> final.scroll, top |-> final.top,
               visible |-> final.visible, shown |-> shown, auto |-> told]
  BY DEF Rendered
<1> HIDE DEF made
<1>2. /\ made.items = final.items /\ made.scroll = final.scroll /\ made.top = final.top
      /\ made.visible = final.visible /\ made.shown = shown
  <2> HIDE DEF final, shown, told
  <2> QED BY <1>1
<1>3. /\ GoodItems(rows, layout.items) /\ layout.shown \in Seq(0..(Len(rows) - 1))
      /\ layout.top \in Position /\ width \in AllWidths
  BY DEF IsFrame, Carried, Places, AllWidths
<1>4. request = NotYet \/ (request \in Position /\ request.offset >= 0)
  <2>1. CASE asks
    <3>1. auto \in Requests /\ \E k \in DOMAIN layout.shown : rows[layout.shown[k] + 1] = auto.row
      BY <2>1
    <3>2. request = Autoscroll(layout, auto, width, height)
      BY <2>1
    <3> HIDE DEF request, asks
    <3> QED BY <1>3, <3>1, <3>2, AutoscrollIs
  <2>2. CASE ~asks
    BY <2>2
  <2> QED BY <2>1, <2>2
<1>5. auto = NotYet => request = NotYet
  OBVIOUS
<1> HIDE DEF request, told
<1>6. InOrder(final) /\ AtRest(final, final.items, final.scroll, width, height)
  <2>1. CASE request = NotYet
    BY <2>1
  <2>2. CASE request # NotYet
    <3>1. request \in Position /\ Forth(request)
      BY <1>4, <2>2 DEF Forth
    <3>2. final = LayoutItems(layout.items, request, width, height)
      BY <2>2
    <3> HIDE DEF final
    <3> QED BY <1>3, <3>1, <3>2, LayoutRests
  <2> QED BY <2>1, <2>2
<1>7. auto = NotYet => made.top = layout.top /\ made.visible = layout.visible
  BY <1>2, <1>5
<1> HIDE DEF final
<1>8. OnlyRoomy(made, height)
  BY <1>2, <1>6 DEF OnlyRoomy, InOrder
<1>9. AtRest(made, made.items, made.scroll, width, height)
  BY <1>2, <1>6 DEF AtRest
<1>10. /\ OnlyRoomy(made, height)
       /\ AtRest(made, made.items, made.scroll, width, height)
       /\ auto = NotYet => made.top = layout.top /\ made.visible = layout.visible
  BY <1>7, <1>8, <1>9
<1> QED BY <1>10 DEF made

\* Layouts of two places with the same row heights above the end are laid out alike.
LEMMA SamePlaces ==
  ASSUME rows \in Seq(Rows), NEW width \in AllWidths, NEW a \in Position, NEW b \in Position,
         NEW j \in 0..Len(rows), RowAt(rows, a, j, width) = RowAt(rows, b, j, width)
  PROVE  \A i \in 0..Len(rows) : RowAt(rows, a, i, width) = RowAt(rows, b, i, width)
<1> DEFINE n == Len(rows)
           A(k) == RowAt(rows, a, k, width)
           B(k) == RowAt(rows, b, k, width)
           R(k) == RealTo(rows, width, k)
<1>1. n \in Nat /\ \A k \in 0..n : A(k) \in Int /\ B(k) \in Int /\ A(k) - A(0) = R(k) /\ B(k) - B(0) = R(k)
  BY RowsAt
<1>2. A(j) = B(j) /\ 0 \in 0..n
  BY <1>1
<1> HIDE DEF A, B, R
<1>3. ASSUME NEW i \in 0..n PROVE A(i) = B(i)
  <2>1. A(i) - A(0) = B(i) - B(0) /\ A(j) - A(0) = B(j) - B(0)
    BY <1>1
  <2>2. A(i) \in Int /\ B(i) \in Int /\ A(0) \in Int /\ B(0) \in Int /\ A(j) \in Int
    BY <1>1, <1>2
  <2> QED BY <1>2, <2>1, <2>2
<1> QED BY <1>3 DEF A, B, n

\* A layout that rests is laid out at the same place again.
LEMMA LaidOutAgain ==
  ASSUME GoodRows(rows), NEW its, GoodItems(rows, its), NEW width \in AllWidths, NEW height \in Nat,
         height > PadTop + PadBottom,
         NEW scroll, scroll = NoOffset \/ scroll \in Position,
         NEW old, old.top \in Position, AtRest(old, its, scroll, width, height),
         alignment # "Top" /\ scroll = NoOffset => AtEnd(rows, old, width, height)
  PROVE  \A i \in 0..Len(rows) :
           RowAt(rows, LayoutItems(its, scroll, width, height).top, i, width) = RowAt(rows, old.top, i, width)
<1> DEFINE layout == LayoutItems(its, scroll, width, height)
           start == LogicalTop(its, scroll)
           n == Len(rows)
           A(k) == RowAt(rows, layout.top, k, width)
           P(k) == RowAt(rows, old.top, k, width)
<1>1. /\ IsLayout(layout, its, width, height)
      /\ Stays(layout, start, scroll, width, height) \/ Moves(layout, start, width, height)
  BY LayoutSound
<1> HIDE DEF layout
<1>2. layout.top \in Position /\ Pinned(layout, width, height) /\ rows \in Seq(Rows)
      /\ PadTop \in Nat /\ PadBottom \in Nat /\ n \in Nat
  BY <1>1, ListAssumption DEF IsLayout, Places, GoodRows
<1> HIDE DEF start
<1>3. n \in 0..n /\ 0 \in 0..n
  BY <1>2
<1>4. ASSUME NEW j \in 0..n, A(j) = P(j) PROVE \A i \in 0..n : A(i) = P(i)
  BY <1>2, <1>4, SamePlaces
<1>5. ASSUME alignment # "Top", scroll = NoOffset PROVE A(n) = P(n)
  <2>1. layout.scroll = NoOffset
    <3>1. CASE Stays(layout, start, scroll, width, height)
      BY <1>5, <3>1 DEF Stays
    <3>2. CASE Moves(layout, start, width, height)
      BY <1>5, <3>2 DEF Moves, Adjusted
    <3> QED BY <1>1, <3>1, <3>2
  <2>2. AtEnd(rows, layout, width, height) /\ AtEnd(rows, old, width, height)
    <3>1. height >= PadTop + PadBottom
      BY <1>2
    <3> QED BY <1>2, <1>5, <2>1, <3>1 DEF Pinned
  <2>3. A(n) + PadBottom = height /\ P(n) + PadBottom = height
    BY <2>2 DEF AtEnd, EdgeOf, RowAt
  <2>4. A(n) \in Int /\ P(n) \in Int
    BY <1>2, <1>3, RowsAt
  <2> HIDE DEF A, P
  <2> QED BY <1>2, <2>3, <2>4
<1>6. ASSUME old.top = start, Rests(rows, old.top, width, height) PROVE \A i \in 0..n : A(i) = P(i)
  <2>1. CASE Stays(layout, start, scroll, width, height)
    BY <1>6, <2>1 DEF Stays
  <2>2. CASE Moves(layout, start, width, height)
    <3>1. P(n) + PadBottom < height /\ P(n) \in Int /\ A(n) \in Int /\ A(0) \in Int
      BY <1>2, <1>3, <1>6, <2>2, RowsAt DEF Moves
    <3>2. ~Reaches(rows, old.top, width, height)
      <4> HIDE DEF P
      <4>1. ~(P(n) + PadBottom >= height)
        BY <1>2, <3>1
      <4> QED BY <4>1 DEF Reaches, P
    <3>3. alignment = "Top" /\ old.top.ix = 0 /\ old.top.offset = 0
      BY <1>6, <3>2 DEF Rests
    <3>4. layout.top.ix = 0 /\ layout.top.offset >= 0 /\ layout.top.offset \in Int
      <4>1. layout.top.ix <= start.ix /\ layout.top.offset >= 0
        BY <2>2, <3>3 DEF Moves
      <4>2. layout.top.ix \in Nat /\ layout.top.offset \in Int
        BY <1>2 DEF Position
      <4> QED BY <1>6, <3>3, <4>1, <4>2
    <3>5. A(0) = PadTop - layout.top.offset /\ P(0) = PadTop - 0
      BY <1>2, <3>3, <3>4, RowsAt, ZenonT(30)
    <3>6. A(n) - A(0) = P(n) - P(0)
      <4>1. /\ A(n) - A(0) = RealTo(rows, width, n) /\ P(n) - P(0) = RealTo(rows, width, n)
        BY <1>2, <1>3, RowsAt
      <4> QED BY <4>1
    <3>7. A(n) + PadBottom = height \/ layout.top.offset = 0
      BY <2>2 DEF Moves
    <3>8. A(0) = P(0)
      <4> DEFINE off == layout.top.offset
                 end == A(n)
                 oldEnd == P(n)
      <4>1. /\ off \in Int /\ off >= 0 /\ end \in Int /\ oldEnd \in Int /\ oldEnd + PadBottom < height
            /\ A(0) = PadTop - off /\ P(0) = PadTop - 0 /\ end - A(0) = oldEnd - P(0)
            /\ end + PadBottom = height \/ off = 0
        BY <3>1, <3>4, <3>5, <3>6, <3>7
      <4> HIDE DEF A, P, off, end, oldEnd
      <4>2. CASE off = 0
        BY <1>2, <4>1, <4>2
      <4>3. CASE end + PadBottom = height
        <5>1. end - (PadTop - off) = oldEnd - (PadTop - 0)
          BY <4>1
        <5>2. end > oldEnd
          BY <1>2, <4>1, <4>3
        <5> QED BY <1>2, <4>1, <5>1, <5>2
      <4> QED BY <4>1, <4>2, <4>3
    <3> QED BY <1>3, <1>4, <3>8
  <2> QED BY <1>1, <2>1, <2>2
<1>7. \A i \in 0..n : A(i) = P(i)
  <2>1. CASE alignment # "Top" /\ scroll = NoOffset
    BY <1>3, <1>4, <1>5, <2>1
  <2>2. CASE ~(alignment # "Top" /\ scroll = NoOffset)
    BY <1>6, <2>2 DEF AtRest, start
  <2> QED BY <2>1, <2>2
<1> QED BY <1>7 DEF layout

-----------------------------------------------------------------------------
(* The invariant.                                                          *)

Viewport == [width : Widths, height : Heights]
PaintRecord == [top : [ix : Nat, offset : Int], delta : Int, shown : Seq(Nat), visible : Nat,
          settled : BOOLEAN, revealed : Rows \cup {NoRow}, auto : Requests \cup {NotYet}]

RowsOK == GoodRows(rows) /\ Len(rows) <= Cardinality(Rows)
ItemsOK == GoodItems(rows, items)
FlagsOK ==
  /\ focusedRow \in FocusableRows \cup {NoRow}
  /\ measuring \in {"visible", "pending", "done"} /\ wasReset \in BOOLEAN
TopOK == scrollTop = NoOffset \/ (scrollTop \in Offset /\ scrollTop.ix <= Len(rows) /\ scrollTop.offset >= 0)
BoundsOK == bounds = NotYet \/ bounds \in Viewport
DragOK == dragHeight = NotYet \/ dragHeight \in Nat
PaintOK == painted = NotYet \/ (painted \in PaintRecord /\ bounds \in Viewport)
HeightsOK == sizing = "Auto" /\ bounds # NotYet => HeightsRight(rows, items, bounds.width)

\* What holds of a layout until something changes.
DrawnOK ==
  Settled =>
    /\ painted.top.ix \in Nat /\ painted.top.offset \in Int /\ painted.visible \in Nat
    /\ painted.top.ix + painted.visible <= Len(rows)
    /\ painted.top \in Position /\ painted.shown \in Seq(0..(Len(rows) - 1))
    /\ Fills(rows, painted, bounds.width, bounds.height)
    /\ alignment # "Top" /\ scrollTop = NoOffset /\ bounds.height >= PadTop + PadBottom =>
         AtEnd(rows, painted, bounds.width, bounds.height)
    /\ bounds.height > PadTop + PadBottom => ShowsFocused(painted, items)

\* The frame after it will be the same.
RestOK ==
  Settled => /\ OnlyRoomy(painted, bounds.height)
             /\ AtRest(painted, items, scrollTop, bounds.width, bounds.height)

\* What a frame was asked to show it shows, and a row that is to be revealed stays in place.
AutoOK ==
  sizing = "Auto" /\ Settled /\ painted.auto # NotYet
    /\ painted.auto.bottom - painted.auto.top <= bounds.height - PadTop - PadBottom =>
    ShowsPart(rows, painted, painted.auto, bounds.width, bounds.height)
Awaited(i) ==
  LET real == Real(rows, i + 1, bounds.width) IN
  /\ rows[i + 1] = painted.revealed /\ real > 0
  /\ InPlace(rows, scrollTop, i, bounds.width, bounds.height)
  /\ painted.settled => Sees(rows, painted, i, <<0, real>>, bounds.width, bounds.height)
RevealOK ==
  painted # NotYet /\ painted.revealed # NoRow =>
    sizing = "Auto" /\ \E i \in 0..(Len(rows) - 1) : Awaited(i)

ListInv ==
  /\ RowsOK /\ ItemsOK /\ FlagsOK /\ TopOK /\ BoundsOK /\ DragOK /\ PaintOK /\ HeightsOK /\ DrawnOK
  /\ RestOK /\ AutoOK /\ RevealOK

-----------------------------------------------------------------------------
(* Rows and items after a step.                                            *)

\* What a splice makes of a sequence.
SpliceOf(s, from, to, new) == SubSeq(s, 1, from) \o new \o SubSeq(s, to + 1, Len(s))

IsSplice(t, s, from, to, new) ==
  /\ Len(t) = Len(s) - (to - from) + Len(new)
  /\ \A i \in 1..Len(t) :
       t[i] = IF i <= from THEN s[i]
              ELSE IF i <= from + Len(new) THEN new[i - from] ELSE s[i - Len(new) + (to - from)]

\* The rows before the splice, the new ones, and those after it.
LEMMA SpliceIs ==
  ASSUME NEW S, NEW s \in Seq(S), NEW new \in Seq(S),
         NEW to \in 0..Len(s), NEW from \in 0..to
  PROVE  SpliceOf(s, from, to, new) \in Seq(S) /\ IsSplice(SpliceOf(s, from, to, new), s, from, to, new)
<1> DEFINE n == Len(s)
           m == Len(new)
           a == SubSeq(s, 1, from)
           b == a \o new
           c == SubSeq(s, to + 1, n)
           t == SpliceOf(s, from, to, new)
<1>1. n \in Nat /\ m \in Nat /\ from \in Nat /\ to \in Nat /\ from <= to /\ to <= n
      /\ \A i \in 1..n : s[i] \in S
  BY ElementOfSeq
<1> HIDE DEF n, m
<1>2. a \in Seq(S) /\ Len(a) = from /\ \A i \in 1..from : a[i] = s[i]
  <2>1. \A i \in 1..from : s[i] \in S
    BY <1>1
  <2>2. /\ a \in Seq(S) /\ Len(a) = IF 1 <= from THEN from - 1 + 1 ELSE 0
        /\ \A i \in 1..(from - 1 + 1) : a[i] = s[1 + i - 1]
    BY <1>1, <2>1, SubSeqProperties
  <2>3. Len(a) = from
    BY <1>1, <2>2
  <2>4. ASSUME NEW i \in 1..from PROVE a[i] = s[i]
    <3>1. i \in 1..(from - 1 + 1) /\ 1 + i - 1 = i
      BY <1>1
    <3>2. a[i] = s[1 + i - 1]
      BY <2>2, <3>1
    <3> HIDE DEF a
    <3> QED BY <3>1, <3>2
  <2> QED BY <2>2, <2>3, <2>4
<1>3. c \in Seq(S) /\ Len(c) = n - to /\ \A i \in 1..(n - to) : c[i] = s[to + i]
  <2>1. \A i \in (to + 1)..n : s[i] \in S
    BY <1>1
  <2>2. /\ c \in Seq(S) /\ Len(c) = IF to + 1 <= n THEN n - (to + 1) + 1 ELSE 0
        /\ \A i \in 1..(n - (to + 1) + 1) : c[i] = s[to + 1 + i - 1]
    BY <1>1, <2>1, SubSeqProperties
  <2>3. Len(c) = n - to
    BY <1>1, <2>2
  <2>4. ASSUME NEW i \in 1..(n - to) PROVE c[i] = s[to + i]
    <3>1. i \in 1..(n - (to + 1) + 1) /\ to + 1 + i - 1 = to + i
      BY <1>1
    <3>2. c[i] = s[to + 1 + i - 1]
      BY <2>2, <3>1
    <3> HIDE DEF c
    <3> QED BY <3>1, <3>2
  <2> QED BY <2>2, <2>3, <2>4
<1> HIDE DEF a, c
<1>4. /\ b \in Seq(S) /\ Len(b) = from + m
      /\ \A i \in 1..(from + m) : b[i] = IF i <= from THEN a[i] ELSE new[i - from]
  BY <1>2, ConcatProperties DEF m
<1>5. t = b \o c
  BY DEF SpliceOf, a, c, n
<1> HIDE DEF b, t
<1>6. /\ t \in Seq(S) /\ Len(t) = (from + m) + (n - to)
      /\ \A i \in 1..((from + m) + (n - to)) : t[i] = IF i <= from + m THEN b[i] ELSE c[i - (from + m)]
  BY <1>3, <1>4, <1>5, ConcatProperties, SMTT(30)
<1>7. Len(t) = n - (to - from) + m
  BY <1>1, <1>6
<1>8. ASSUME NEW i \in 1..Len(t)
      PROVE  t[i] = IF i <= from THEN s[i]
                    ELSE IF i <= from + m THEN new[i - from] ELSE s[i - m + (to - from)]
  <2>1. i \in 1..((from + m) + (n - to)) /\ i \in Nat
    BY <1>6
  <2>2. CASE i <= from
    <3>1. i \in 1..from /\ i \in 1..(from + m) /\ i <= from + m
      BY <1>1, <2>1, <2>2
    <3> QED BY <1>2, <1>4, <1>6, <2>1, <2>2, <3>1
  <2>3. CASE ~(i <= from) /\ i <= from + m
    <3>1. i \in 1..(from + m)
      BY <1>1, <2>1, <2>3
    <3> QED BY <1>4, <1>6, <2>1, <2>3, <3>1
  <2>4. CASE ~(i <= from) /\ ~(i <= from + m)
    <3>1. i - (from + m) \in 1..(n - to) /\ to + (i - (from + m)) = i - m + (to - from)
      BY <1>1, <2>1, <2>4
    <3>2. t[i] = c[i - (from + m)] /\ c[i - (from + m)] = s[to + (i - (from + m))]
      BY <1>3, <1>6, <2>1, <2>4, <3>1
    <3> QED BY <2>4, <3>1, <3>2
  <2> QED BY <2>2, <2>3, <2>4
<1>9. t \in Seq(S) /\ IsSplice(t, s, from, to, new)
  BY <1>6, <1>7, <1>8 DEF IsSplice, n, m
<1> QED BY <1>9 DEF t

\* The rows in their order are a list, of which there are no more than rows.
LEMMA NotTooMany ==
  ASSUME NEW rs, GoodRows(rs)
  PROVE  Len(rs) \in Nat /\ Len(rs) <= Cardinality(Rows) /\ Cardinality(Rows) \in Nat
         /\ \A i, j \in 1..Len(rs) : rs[i] = rs[j] => i = j
<1> DEFINE n == Len(rs)
<1>1. n \in Nat /\ rs \in [1..n -> Rows] /\ DOMAIN rs = 1..n /\ Rows \subseteq Nat /\ IsFiniteSet(Rows)
  BY LenProperties, ListAssumption DEF GoodRows
<1> HIDE DEF n
<1>2. ASSUME NEW i \in 1..n, NEW j \in 1..n, rs[i] = rs[j] PROVE i = j
  <2>1. rs[i] \in Nat /\ rs[j] \in Nat
    BY <1>1
  <2>2. (i < j => rs[i] < rs[j]) /\ (j < i => rs[j] < rs[i])
    BY <1>1 DEF GoodRows, Ordered
  <2>3. ~(i < j) /\ ~(j < i)
    BY <1>2, <2>1, <2>2
  <2> QED BY <1>1, <2>3
<1>3. rs \in Injection(1..n, Rows)
  BY <1>1, <1>2 DEF Injection, IsInjective
<1>4. Cardinality(1..n) <= Cardinality(Rows)
  BY <1>1, <1>3, FS_Injection
<1>5. Cardinality(1..n) = n
  BY <1>1, FS_Interval
<1>6. Cardinality(Rows) \in Nat
  BY <1>1, FS_CardinalityType
<1> QED BY <1>1, <1>2, <1>4, <1>5, <1>6 DEF n

\* The lists of rows that the client can show.
LEMMA RowListsAre ==
  ASSUME NEW rs
  PROVE  rs \in RowLists <=> GoodRows(rs)
<1>1. ASSUME rs \in RowLists PROVE GoodRows(rs)
  <2>1. PICK k \in 0..Cardinality(Rows) : rs \in [1..k -> Rows]
    BY <1>1 DEF RowLists
  <2>2. k \in Nat
    BY <2>1, ListAssumption, FS_CardinalityType
  <2>3. rs \in Seq(Rows)
    BY <2>1, <2>2, SeqDef
  <2> QED BY <1>1, <2>3 DEF RowLists, GoodRows
<1>2. ASSUME GoodRows(rs) PROVE rs \in RowLists
  <2>1. Len(rs) \in 0..Cardinality(Rows) /\ rs \in [1..Len(rs) -> Rows]
    BY <1>2, NotTooMany, LenProperties DEF GoodRows
  <2> QED BY <1>2, <2>1 DEF RowLists, GoodRows
<1> QED BY <1>1, <1>2

-----------------------------------------------------------------------------
(* The steps.                                                              *)

\* The invariant holds of a new list (ListState::new).
LEMMA InitInv == ListInit => ListInv
<1> SUFFICES ASSUME ListInit PROVE ListInv
  OBVIOUS
<1>1. GoodRows(rows)
  BY RowListsAre DEF ListInit
<1>2. RowsOK
  BY <1>1, NotTooMany DEF RowsOK
<1>3. items = [i \in 1..Len(rows) |-> Unmeasured(NoRow)] /\ Len(rows) \in Nat
  BY <1>1 DEF ListInit, GoodRows
<1>4. Unmeasured(NoRow) \in Item /\ Unmeasured(NoRow).handle = NoRow
  BY UnmeasuredIs
<1>5. items \in Seq(Item) /\ Len(items) = Len(rows) /\ \A i \in 1..Len(rows) : items[i].handle = NoRow
  BY <1>3, <1>4
<1>6. ItemsOK
  BY <1>5 DEF ItemsOK, GoodItems
<1>7. FlagsOK
  BY ListAssumption DEF ListInit, FlagsOK
<1>8. TopOK /\ BoundsOK /\ DragOK /\ PaintOK /\ HeightsOK /\ DrawnOK /\ RestOK /\ AutoOK /\ RevealOK
  BY DEF ListInit, TopOK, BoundsOK, DragOK, PaintOK, HeightsOK, DrawnOK, RestOK, AutoOK, RevealOK, Settled
<1> QED BY <1>2, <1>6, <1>7, <1>8 DEF ListInv

\* A step of the client leaves no settled layout.
LEMMA Unsettles ==
  ASSUME ListInv, NEW row \in Rows \cup {NoRow}, UnsettledFor(row), UNCHANGED bounds
  PROVE  PaintOK' /\ DrawnOK' /\ RestOK' /\ BoundsOK' /\ AutoOK' /\ (row = NoRow => RevealOK')
<1>1. BoundsOK'
  BY DEF ListInv, BoundsOK, Viewport
<1>2. CASE painted = NotYet
  BY <1>1, <1>2 DEF UnsettledFor, PaintOK, DrawnOK, RestOK, AutoOK, RevealOK, Settled
<1>3. CASE painted # NotYet
  <2>1. painted \in PaintRecord /\ bounds \in Viewport
    BY <1>3 DEF ListInv, PaintOK
  <2>2. painted' = Stale(painted, row)
    BY <1>3 DEF UnsettledFor
  <2>3. NotYet \in Requests \cup {NotYet} /\ <<>> \in Seq(Nat)
    OBVIOUS
  <2>4. painted' \in PaintRecord /\ ~painted'.settled /\ painted'.revealed = row
    BY <2>1, <2>2, <2>3 DEF Stale, PaintRecord
  <2>5. bounds' \in Viewport
    BY <2>1 DEF Viewport
  <2> QED BY <1>1, <2>4, <2>5 DEF PaintOK, DrawnOK, RestOK, AutoOK, RevealOK, Settled
<1> QED BY <1>2, <1>3

\* A step that leaves rows, items and flags alone.
LEMMA RowsStay ==
  ASSUME ListInv, UNCHANGED <<rows, focusedRow, items, sizing, measuring, wasReset, bounds>>
  PROVE  RowsOK' /\ ItemsOK' /\ FlagsOK' /\ HeightsOK'
<1>1. RowsOK'
  BY DEF ListInv, RowsOK
<1>2. ItemsOK'
  BY DEF ListInv, ItemsOK
<1>3. FlagsOK'
  BY DEF ListInv, FlagsOK
<1>4. HeightsOK'
  BY DEF ListInv, HeightsOK
<1> QED BY <1>1, <1>2, <1>3, <1>4

\* A step that leaves rows, viewport, scroll top and layout alone.
LEMMA AskedStays ==
  ASSUME ListInv, UNCHANGED <<rows, items, scrollTop, alignment, sizing, bounds, painted>>
  PROVE  RestOK' /\ AutoOK' /\ RevealOK'
<1>1. AutoOK'
  BY DEF ListInv, AutoOK, Settled, ShowsPart, Sees
<1>2. ASSUME NEW i, Awaited(i) PROVE Awaited(i)'
  BY <1>2 DEF Awaited, InPlace, RowAt, Sees
<1>3. RevealOK'
  BY <1>2 DEF ListInv, RevealOK
<1>4. RestOK'
  <2>1. AtRest(painted, items, scrollTop, bounds.width, bounds.height)' <=>
          AtRest(painted, items, scrollTop, bounds.width, bounds.height)
    BY DEF AtRest, Rests, Reaches, RowAt, LogicalTop
  <2>2. OnlyRoomy(painted, bounds.height)' <=> OnlyRoomy(painted, bounds.height)
    BY DEF OnlyRoomy, InOrder
  <2> QED BY <2>1, <2>2 DEF ListInv, RestOK, Settled
<1> QED BY <1>1, <1>3, <1>4

\* A place that a seek finds is one of the list.
LEMMA OffsetFound ==
  ASSUME ListInv, NEW y \in Nat, OffsetAt(items, y).offset <= MaxOffset
  PROVE  OffsetAt(items, y) \in Offset /\ OffsetAt(items, y).ix <= Len(rows) /\ OffsetAt(items, y).offset >= 0
<1> DEFINE ix == SeekRight(items, y)
           above == HeightBefore(items, ix)
<1>1. /\ items \in Seq(Item) /\ Len(items) = Len(rows) /\ Len(rows) \in Nat
      /\ Len(rows) <= Cardinality(Rows) /\ Cardinality(Rows) \in Nat /\ MaxOffset \in Nat
  BY NotTooMany, ListAssumption DEF ListInv, ItemsOK, RowsOK, GoodItems
<1>2. ix \in 0..Len(rows) /\ above <= y /\ above \in Nat
  BY <1>1, SeekSound, HeightSum
<1>3. OffsetAt(items, y) = [ix |-> ix, offset |-> y - above]
  BY DEF OffsetAt
<1> HIDE DEF ix, above
<1>4. y - above \in (-MaxOffset)..MaxOffset /\ y - above >= 0 /\ ix \in 0..Cardinality(Rows) /\ ix <= Len(rows)
  <2>1. y - above <= MaxOffset
    BY <1>3
  <2> QED BY <1>1, <1>2, <2>1
<1> QED BY <1>3, <1>4 DEF Offset

\* The logical scroll top is a place in the list, and its height is a number.
LEMMA LogicalTopIs ==
  ASSUME ListInv
  PROVE  LET top == LogicalTop(items, scrollTop)
         IN /\ top \in Offset /\ top.ix \in 0..Len(rows) /\ top.offset \in Int /\ top.offset >= 0
            /\ HeightBefore(items, Min2(top.ix, Len(items))) \in Nat
<1> DEFINE top == LogicalTop(items, scrollTop)
<1>1. /\ items \in Seq(Item) /\ Len(items) = Len(rows) /\ Len(rows) \in Nat
      /\ Len(rows) <= Cardinality(Rows) /\ Cardinality(Rows) \in Nat /\ MaxOffset \in Nat
  BY NotTooMany, ListAssumption DEF ListInv, ItemsOK, RowsOK, GoodItems
<1>2. top \in Offset /\ top.ix <= Len(rows) /\ top.offset >= 0
  <2>1. CASE scrollTop = NoOffset
    <3>1. top = [ix |-> 0, offset |-> 0] \/ top = [ix |-> Len(rows), offset |-> 0]
      BY <1>1, <2>1 DEF LogicalTop
    <3> HIDE DEF top
    <3> QED BY <1>1, <3>1 DEF Offset
  <2>2. CASE scrollTop # NoOffset
    <3>1. top = scrollTop
      BY <2>2 DEF LogicalTop
    <3> HIDE DEF top
    <3> QED BY <2>2, <3>1 DEF ListInv, TopOK
  <2> QED BY <2>1, <2>2
<1> HIDE DEF top
<1>3. top.ix \in 0..Len(rows) /\ top.offset \in Int
  BY <1>1, <1>2 DEF Offset
<1>4. Min2(top.ix, Len(items)) \in 0..Len(items)
  BY <1>1, <1>3 DEF Min2
<1>5. HeightBefore(items, Min2(top.ix, Len(items))) \in Nat
  BY <1>1, <1>4, HeightSum
<1> QED BY <1>2, <1>3, <1>5 DEF top

\* A step that only moves the scroll top.
LEMMA MovesTop ==
  ASSUME ListInv, NEW row \in Rows \cup {NoRow}, UnsettledFor(row), row = NoRow \/ RevealOK',
         \/ scrollTop' = NoOffset
         \/ scrollTop' \in Offset /\ scrollTop'.ix <= Len(rows) /\ scrollTop'.offset >= 0,
         UNCHANGED <<rows, focusedRow, items, alignment, sizing, measuring, wasReset, bounds, dragHeight>>
  PROVE  ListInv'
<1>1. PaintOK' /\ DrawnOK' /\ RestOK' /\ BoundsOK' /\ AutoOK' /\ RevealOK'
  BY Unsettles
<1>2. RowsOK' /\ ItemsOK' /\ FlagsOK' /\ HeightsOK'
  BY RowsStay
<1>3. TopOK' /\ DragOK'
  BY DEF ListInv, TopOK, DragOK
<1> QED BY <1>1, <1>2, <1>3 DEF ListInv

\* scroll_by keeps the invariant.
LEMMA ScrollByInv ==
  ASSUME ListInv, NEW d \in Deltas, ScrollBy(d)
  PROVE  ListInv'
<1> DEFINE top == LogicalTop(items, scrollTop)
           above == HeightBefore(items, Min2(top.ix, Len(items)))
           new == Max2(above + top.offset + d, 0)
<1>1. above \in Nat /\ top.offset \in Int /\ d \in Int
  BY LogicalTopIs, ListAssumption
<1>2. OffsetAt(items, new).offset <= MaxOffset /\ scrollTop' = OffsetAt(items, new)
  BY DEF ScrollBy
<1> HIDE DEF above, top
<1>3. new \in Nat
  BY <1>1 DEF Max2
<1> HIDE DEF new
<1>4. scrollTop' \in Offset /\ scrollTop'.ix <= Len(rows) /\ scrollTop'.offset >= 0
  BY <1>2, <1>3, OffsetFound
<1>5. /\ UnsettledFor(NoRow)
      /\ UNCHANGED <<rows, focusedRow, items, alignment, sizing, measuring, wasReset, bounds, dragHeight>>
  BY DEF ScrollBy, Unsettled
<1> QED BY <1>4, <1>5, MovesTop

\* scroll_to keeps the invariant.
LEMMA ScrollToInv ==
  ASSUME ListInv, NEW ix \in 0..Cardinality(Rows), NEW offset \in ScrollOffsets, ScrollTo(ix, offset)
  PROVE  ListInv'
<1>1. /\ Len(items) = Len(rows) /\ Len(rows) \in Nat
      /\ Len(rows) <= Cardinality(Rows) /\ Cardinality(Rows) \in Nat /\ MaxOffset \in Nat
      /\ offset \in 0..MaxOffset
  BY NotTooMany, ListAssumption DEF ListInv, ItemsOK, RowsOK, GoodItems
<1>2. scrollTop' \in Offset /\ scrollTop'.ix <= Len(rows) /\ scrollTop'.offset >= 0
  <2>1. CASE ix >= Len(rows)
    <3>1. scrollTop' = [ix |-> Len(rows), offset |-> 0]
      BY <1>1, <2>1 DEF ScrollTo
    <3> QED BY <1>1, <3>1 DEF Offset
  <2>2. CASE ~(ix >= Len(rows))
    <3>1. scrollTop' = [ix |-> ix, offset |-> offset]
      BY <1>1, <2>2 DEF ScrollTo
    <3>2. ix <= Len(rows) /\ offset \in (-MaxOffset)..MaxOffset /\ offset >= 0
      BY <1>1, <2>2
    <3> QED BY <3>1, <3>2 DEF Offset
  <2> QED BY <2>1, <2>2
<1>3. /\ UnsettledFor(NoRow)
      /\ UNCHANGED <<rows, focusedRow, items, alignment, sizing, measuring, wasReset, bounds, dragHeight>>
  BY DEF ScrollTo, Unsettled
<1> QED BY <1>2, <1>3, MovesTop

\* Heights that were all measured add up to those of the rows.
LEMMA KnownHeights ==
  ASSUME rows \in Seq(Rows), NEW its \in Seq(Item), Len(its) = Len(rows), NEW width \in AllWidths,
         HeightsRight(rows, its, width), NEW m \in 0..Len(rows), \A i \in 1..m : its[i].measured
  PROVE  \A k \in 0..m : HeightBefore(its, k) = RealTo(rows, width, k)
<1> DEFINE P == {k \in 0..m : HeightBefore(its, k) = RealTo(rows, width, k)}
           n == Len(rows)
<1>1. /\ n \in Nat /\ RealTo(rows, width, 0) = 0 /\ HeightBefore(its, 0) = 0
      /\ \A k \in 1..n : HeightBefore(its, k) = HeightBefore(its, k - 1) + its[k].size
      /\ \A k \in 1..n : RealTo(rows, width, k) = RealTo(rows, width, k - 1) + Real(rows, k, width)
  BY HeightSum, RealHeights
<1>2. \A k \in 1..m : its[k].size = Real(rows, k, width)
  BY <1>1 DEF HeightsRight
<1>3. 0 \in P
  BY <1>1
<1>4. ASSUME NEW k \in 0..(m - 1), k \in P PROVE k + 1 \in P
  <2>1. k + 1 \in 1..m /\ k + 1 \in 1..n /\ (k + 1) - 1 = k /\ k + 1 \in 0..m
    BY <1>1
  <2>2. HeightBefore(its, k + 1) = HeightBefore(its, k) + Real(rows, k + 1, width)
    BY <1>1, <1>2, <2>1
  <2>3. RealTo(rows, width, k + 1) = RealTo(rows, width, k) + Real(rows, k + 1, width)
    BY <1>1, <2>1
  <2> QED BY <1>4, <2>1, <2>2, <2>3
<1>5. m \in Nat
  BY <1>1
<1>6. 0..m \subseteq P
  <2> HIDE DEF P
  <2> QED BY <1>3, <1>4, <1>5, UpTo
<1> QED BY <1>6

\* scroll_to_reveal_item scrolls to where the row is between the paddings.
LEMMA RevealedPlace ==
  ASSUME ListInv, NEW ix \in 0..Cardinality(Rows), Reveal(ix), Revealable(ix)
  PROVE  /\ Real(rows, ix + 1, bounds.width) > 0
         /\ InPlace(rows, scrollTop', ix, bounds.width, bounds.height)
<1> DEFINE top == LogicalTop(items, scrollTop)
           width == bounds.width
           height == bounds.height
           n == Len(rows)
           H(k) == HeightBefore(items, k)
           R(k) == RealTo(rows, width, k)
           real == Real(rows, ix + 1, width)
           goal == Max2(0, H(ix + 1) + PadTop - height + PadBottom)
           start == SeekLeft(items, goal)
           new == Revealing(ix)
<1>1. /\ rows \in Seq(Rows) /\ items \in Seq(Item) /\ Len(items) = n /\ n \in Nat
      /\ ix \in Nat /\ ix \in 0..(n - 1) /\ ix + 1 \in 1..n /\ PadTop \in Nat /\ PadBottom \in Nat
  BY NotTooMany, ListAssumption DEF ListInv, RowsOK, ItemsOK, GoodRows, GoodItems, Reveal
<1>2. /\ bounds # NotYet /\ sizing = "Auto" /\ \A i \in 1..(ix + 1) : items[i].measured
      /\ items[ix + 1].size > 0 /\ items[ix + 1].size + PadTop + PadBottom <= height
  BY DEF Revealable, Knowable
<1>3. width \in AllWidths /\ height \in Nat /\ HeightsRight(rows, items, width)
  BY <1>2, ListAssumption DEF ListInv, BoundsOK, Viewport, HeightsOK, AllWidths
<1>4. scrollTop' = new
  BY DEF Reveal
<1>5. new = IF ix <= top.ix THEN [ix |-> ix, offset |-> 0]
            ELSE IF start >= top.ix THEN [ix |-> start, offset |-> goal - H(start)] ELSE top
  <2> DEFINE tall == IF bounds = NotYet THEN 0 ELSE bounds.height
             pads == IF bounds = NotYet THEN <<0, 0>> ELSE <<PadTop, PadBottom>>
             edge == Min2(ix + 1, Len(items))
             bottom == H(edge) + pads[1]
             aim == Max2(0, bottom - tall + pads[2])
             first == SeekLeft(items, aim)
  <2>1. new = IF ix <= top.ix THEN [ix |-> ix, offset |-> 0]
              ELSE IF first >= top.ix THEN [ix |-> first, offset |-> aim - H(first)] ELSE top
    BY DEF Revealing
  <2>2. edge = ix + 1
    BY <1>1 DEF Min2
  <2>3. tall = height /\ pads[1] = PadTop /\ pads[2] = PadBottom
    BY <1>2
  <2> HIDE DEF tall, pads, edge, H
  <2>4. H(ix + 1) \in Nat
    <3>1. ix + 1 \in 0..Len(items)
      BY <1>1
    <3> QED BY <1>1, <3>1, HeightSum DEF H
  <2>5. aim = goal
    BY <1>1, <1>3, <2>2, <2>3, <2>4
  <2> HIDE DEF aim, goal, top, new
  <2> QED BY <2>1, <2>5
<1>6. top.ix \in 0..n /\ top.offset \in Int /\ top.offset >= 0 /\ top \in [ix : Nat, offset : Int]
  <2>1. Cardinality(Rows) \in Nat /\ MaxOffset \in Nat
    BY ListAssumption, FS_CardinalityType
  <2> QED BY <2>1, LogicalTopIs DEF Offset
<1>7. top.ix < n => top.offset <= items[top.ix + 1].size
  BY <1>1 DEF Revealable, TopInItsRow
<1> HIDE DEF new, top, width, height
<1>8. \A k \in 0..(ix + 1) : H(k) = R(k)
  <2>1. ix + 1 \in 0..n
    BY <1>1
  <2> QED BY <1>1, <1>2, <1>3, <2>1, KnownHeights
<1>9. /\ \A k \in 0..n : H(k) \in Nat
      /\ \A k \in 1..n : H(k) = H(k - 1) + items[k].size
      /\ \A j, k \in 0..n : j <= k => H(j) <= H(k)
      /\ \A k \in 1..n : items[k].size \in Nat
  BY <1>1, HeightSum, HeightMonotone, ItemSizes
<1>10. /\ real \in Nat /\ real > 0 /\ real + PadTop + PadBottom <= height
       /\ H(ix + 1) = H(ix) + real /\ H(ix) \in Nat
  <2>1. items[ix + 1].size = real /\ items[ix + 1].size \in Nat
    BY <1>1, <1>2, <1>3, <1>9 DEF HeightsRight
  <2>2. (ix + 1) - 1 = ix /\ ix \in 0..n
    BY <1>1
  <2>3. H(ix + 1) = H(ix) + items[ix + 1].size /\ H(ix) \in Nat
    BY <1>1, <1>9, <2>2
  <2> HIDE DEF H, real
  <2> QED BY <1>2, <2>1, <2>3 DEF height
<1> HIDE DEF H, R, real
<1>11. goal \in Nat /\ goal <= H(ix) /\ H(ix + 1) + PadTop + PadBottom - goal <= height
  BY <1>1, <1>3, <1>10, SMTT(30) DEF Max2
<1> HIDE DEF goal
<1>12. /\ start \in 0..n /\ H(start) <= goal
       /\ \A k \in 1..n : k <= start <=> H(k) < goal
  BY <1>1, <1>11, SeekSound DEF H
<1> HIDE DEF start
<1>13. ASSUME NEW place, place \in [ix : Nat, offset : Int], place.ix <= ix,
              goal <= H(place.ix) + place.offset, H(place.ix) + place.offset <= H(ix)
       PROVE  InPlace(rows, place, ix, width, height)
  <2>1. place.ix \in 0..(ix + 1) /\ place.ix \in 0..n /\ ix \in 0..(ix + 1) /\ ix + 1 \in 0..(ix + 1)
    BY <1>1, <1>13
  <2>2. R(place.ix) = H(place.ix) /\ R(ix) = H(ix) /\ R(ix + 1) = H(ix + 1) /\ H(place.ix) \in Nat
    BY <1>8, <1>9, <2>1
  <2>3. place.offset \in Int /\ place \in [ix : 0..n, offset : Int]
    BY <1>13, <2>1
  <2>4. /\ RowAt(rows, place, ix, width) = PadTop - place.offset + R(ix) - R(place.ix)
        /\ RowAt(rows, place, ix + 1, width) = PadTop - place.offset + R(ix + 1) - R(place.ix)
    BY DEF RowAt, R
  <2> DEFINE offset == place.offset
             above == H(place.ix)
             low == H(ix)
             high == H(ix + 1)
             edge == RowAt(rows, place, ix, width)
             end == RowAt(rows, place, ix + 1, width)
  <2>5. /\ offset \in Int /\ above \in Nat /\ low \in Nat /\ high \in Nat /\ goal <= above + offset
        /\ above + offset <= low /\ high + PadTop + PadBottom - goal <= height
        /\ edge = PadTop - offset + low - above /\ end = PadTop - offset + high - above
    BY <1>10, <1>11, <1>13, <2>2, <2>3, <2>4
  <2> HIDE DEF offset, above, low, high, edge, end
  <2>6. edge >= PadTop /\ end + PadBottom <= height
    BY <1>1, <1>3, <1>11, <2>5
  <2> QED BY <1>13, <2>3, <2>6 DEF InPlace, edge, end, n
<1>14. InPlace(rows, new, ix, width, height)
  <2>1. CASE ix <= top.ix
    <3> DEFINE place == [ix |-> ix, offset |-> 0]
    <3>1. place \in [ix : Nat, offset : Int] /\ place.ix = ix /\ place.offset = 0 /\ new = place
      BY <1>1, <1>5, <2>1
    <3> HIDE DEF place
    <3>2. goal <= H(place.ix) + place.offset /\ H(place.ix) + place.offset <= H(ix) /\ place.ix <= ix
      BY <1>1, <1>10, <1>11, <3>1
    <3> QED BY <1>13, <3>1, <3>2
  <2>2. CASE ~(ix <= top.ix) /\ start >= top.ix
    <3> DEFINE place == [ix |-> start, offset |-> goal - H(start)]
               above == H(start)
    <3>1. above \in Nat /\ above <= goal
      BY <1>9, <1>12
    <3>2. /\ place \in [ix : Nat, offset : Int] /\ place.ix = start /\ place.offset = goal - above /\ new = place
      BY <1>5, <1>11, <1>12, <2>2, <3>1
    <3>3. start <= ix
      <4>1. ix \in 1..n /\ ~(H(ix) < goal)
        BY <1>1, <1>6, <1>10, <1>11, <2>2, SMTT(30)
      <4>2. ~(ix <= start)
        BY <1>12, <4>1
      <4> QED BY <1>1, <1>12, <4>2
    <3> HIDE DEF place, above
    <3>4. above + (goal - above) = goal
      BY <1>11, <3>1
    <3>5. goal <= H(place.ix) + place.offset /\ H(place.ix) + place.offset <= H(ix)
      BY <1>10, <1>11, <3>2, <3>4 DEF above
    <3> QED BY <1>13, <3>2, <3>3, <3>5
  <2>3. CASE ~(ix <= top.ix) /\ ~(start >= top.ix)
    <3>1. new = top /\ top.ix < ix /\ start < top.ix /\ top.ix \in 1..n
      BY <1>1, <1>5, <1>6, <1>12, <2>3
    <3>2. ~(H(top.ix) < goal)
      <4>1. ~(top.ix <= start)
        BY <1>12, <3>1
      <4> QED BY <1>12, <3>1, <4>1
    <3> DEFINE offset == top.offset
               above == H(top.ix)
               after == H(top.ix + 1)
               size == items[top.ix + 1].size
    <3>3. above \in Nat /\ offset \in Nat /\ ~(above < goal) /\ after \in Nat /\ size \in Nat
      <4>1. top.ix \in 0..n /\ top.ix + 1 \in 0..n /\ top.ix + 1 \in 1..n
        BY <1>1, <3>1
      <4> QED BY <1>6, <1>9, <3>2, <4>1
    <3>4. offset <= size /\ after = above + size /\ after <= H(ix)
      <4>1. /\ top.ix + 1 \in 1..n /\ top.ix + 1 \in 0..n /\ (top.ix + 1) - 1 = top.ix
            /\ top.ix + 1 <= ix /\ ix \in 0..n /\ top.ix < n
        BY <1>1, <3>1
      <4> QED BY <1>7, <1>9, <4>1
    <3> HIDE DEF offset, above, after, size
    <3>5. goal <= above + offset /\ above + offset <= H(ix)
      BY <1>10, <1>11, <3>3, <3>4
    <3>6. goal <= H(top.ix) + top.offset /\ H(top.ix) + top.offset <= H(ix) /\ top.ix <= ix
      BY <1>1, <3>1, <3>5 DEF above, offset
    <3> QED BY <1>6, <1>13, <3>1, <3>6
  <2> QED BY <2>1, <2>2, <2>3
<1> QED BY <1>4, <1>10, <1>14 DEF width, height, real

\* scroll_to_reveal_item keeps the invariant.
LEMMA RevealInv ==
  ASSUME ListInv, NEW ix \in 0..Cardinality(Rows), Reveal(ix)
  PROVE  ListInv'
<1> DEFINE top == LogicalTop(items, scrollTop)
           height == IF bounds = NotYet THEN 0 ELSE bounds.height
           pads == IF bounds = NotYet THEN <<0, 0>> ELSE <<PadTop, PadBottom>>
           bottom == HeightBefore(items, Min2(ix + 1, Len(items))) + pads[1]
           goal == Max2(0, bottom - height + pads[2])
           start == SeekLeft(items, goal)
           above == HeightBefore(items, start)
           new == Revealing(ix)
<1>1. /\ items \in Seq(Item) /\ Len(items) = Len(rows) /\ Len(rows) \in Nat
      /\ Len(rows) <= Cardinality(Rows) /\ Cardinality(Rows) \in Nat /\ MaxOffset \in Nat
      /\ PadTop \in Nat /\ PadBottom \in Nat /\ Heights \subseteq Nat /\ Rows \subseteq Nat
  BY NotTooMany, ListAssumption DEF ListInv, ItemsOK, RowsOK, GoodItems
<1>2. new = IF ix <= top.ix THEN [ix |-> ix, offset |-> 0]
            ELSE IF start >= top.ix THEN [ix |-> start, offset |-> goal - above] ELSE top
  BY DEF Revealing
<1>3. ix < Len(rows) /\ new.offset <= MaxOffset /\ scrollTop' = new
  BY <1>1 DEF Reveal
<1> HIDE DEF new
<1>4. top \in Offset /\ top.ix \in 0..Len(rows) /\ top.offset >= 0
  BY LogicalTopIs
<1> HIDE DEF top
<1>5. goal \in Nat
  <2>1. height \in Nat /\ pads[1] \in Nat /\ pads[2] \in Nat
    BY <1>1 DEF ListInv, BoundsOK, Viewport
  <2>2. bottom \in Nat
    <3>1. Min2(ix + 1, Len(items)) \in 0..Len(items)
      BY <1>1 DEF Min2
    <3>2. HeightBefore(items, Min2(ix + 1, Len(items))) \in Nat
      BY <1>1, <3>1, HeightSum
    <3> HIDE DEF pads
    <3> QED BY <2>1, <3>2
  <2> HIDE DEF bottom, height, pads
  <2> QED BY <2>1, <2>2 DEF Max2
<1> HIDE DEF goal
<1>6. start \in 0..Len(rows) /\ above \in Nat /\ above <= goal
  BY <1>1, <1>5, SeekSound, HeightSum
<1> HIDE DEF start, above
<1>7. new \in Offset /\ new.ix <= Len(rows) /\ new.offset >= 0
  <2>1. CASE ix <= top.ix
    <3>1. new = [ix |-> ix, offset |-> 0] /\ 0 \in (-MaxOffset)..MaxOffset
      BY <1>1, <1>2, <2>1
    <3> QED BY <1>1, <1>3, <3>1 DEF Offset
  <2>2. CASE ~(ix <= top.ix) /\ start >= top.ix
    <3>1. new = [ix |-> start, offset |-> goal - above]
      BY <1>2, <2>2
    <3>2. goal - above <= MaxOffset
      BY <1>3, <3>1
    <3>3. goal - above \in (-MaxOffset)..MaxOffset /\ goal - above >= 0 /\ start \in 0..Cardinality(Rows) /\ start <= Len(rows)
      BY <1>1, <1>5, <1>6, <3>2
    <3> QED BY <3>1, <3>3 DEF Offset
  <2>3. CASE ~(ix <= top.ix) /\ ~(start >= top.ix)
    <3>1. new = top
      BY <1>2, <2>3
    <3> QED BY <1>1, <1>4, <3>1
  <2> QED BY <2>1, <2>2, <2>3
<1>8. UNCHANGED <<rows, focusedRow, items, alignment, sizing, measuring, wasReset, bounds, dragHeight>>
  BY DEF Reveal
<1> DEFINE row == IF Revealable(ix) THEN rows[ix + 1] ELSE NoRow
<1>9. row \in Rows \cup {NoRow} /\ UnsettledFor(row)
  <2>1. rows[ix + 1] \in Rows
    <3>1. ix + 1 \in 1..Len(rows) /\ rows \in Seq(Rows)
      BY <1>1, <1>3 DEF ListInv, RowsOK, GoodRows
    <3> QED BY <3>1, ElementOfSeq
  <2> QED BY <2>1 DEF Reveal
<1>10. Revealable(ix) => RevealOK'
  <2> SUFFICES ASSUME Revealable(ix) PROVE RevealOK'
    OBVIOUS
  <2>1. /\ Real(rows, ix + 1, bounds.width) > 0
        /\ InPlace(rows, scrollTop', ix, bounds.width, bounds.height)
    BY RevealedPlace
  <2>2. painted' = IF painted = NotYet THEN NotYet ELSE Stale(painted, rows[ix + 1])
    BY DEF Reveal, UnsettledFor
  <2>3. CASE painted = NotYet
    BY <2>2, <2>3 DEF RevealOK
  <2>4. CASE painted # NotYet
    <3>1. painted' = Stale(painted, rows[ix + 1]) /\ painted \in PaintRecord
      BY <2>2, <2>4 DEF ListInv, PaintOK
    <3>2. painted'.revealed = rows[ix + 1] /\ ~painted'.settled
      BY <3>1 DEF Stale, PaintRecord
    <3>3. Awaited(ix)'
      BY <1>8, <2>1, <3>2 DEF Awaited, InPlace
    <3>4. sizing' = "Auto" /\ ix \in 0..(Len(rows') - 1)
      BY <1>1, <1>3, <1>8 DEF Revealable, Knowable
    <3> QED BY <3>3, <3>4 DEF RevealOK
  <2> QED BY <2>3, <2>4
<1> QED
  <2>1. row = NoRow \/ RevealOK'
    BY <1>10
  <2> HIDE DEF row
  <2> QED BY <1>3, <1>7, <1>8, <1>9, <2>1, MovesTop

\* Where a drag or the wheel scrolls to.
LEMMA ScrolledToIs ==
  ASSUME ListInv, NEW y \in Nat, NEW max, OffsetAt(items, y).offset <= MaxOffset
  PROVE  \/ ScrolledTo(y, max) = NoOffset
         \/ /\ ScrolledTo(y, max) \in Offset
            /\ ScrolledTo(y, max).ix <= Len(rows) /\ ScrolledTo(y, max).offset >= 0
BY OffsetFound DEF ScrolledTo

\* The height of the content, and how far it scrolls, are numbers.
LEMMA ContentIs ==
  ASSUME ListInv, NEW height \in Nat
  PROVE  ContentHeight(items) \in Nat /\ ScrollMax(items, height) \in Nat
<1>1. items \in Seq(Item) /\ Len(items) \in Nat
  BY DEF ListInv, ItemsOK, GoodItems
<1>2. ContentHeight(items) \in Nat
  <2>1. Len(items) \in 0..Len(items)
    BY <1>1
  <2> QED BY <1>1, <2>1, HeightSum DEF ContentHeight
<1> QED BY <1>2, ListAssumption DEF ScrollMax, Max2

\* set_offset_from_scrollbar keeps the invariant.
LEMMA DragToInv ==
  ASSUME ListInv, NEW y \in (-MaxOffset)..0, DragTo(y)
  PROVE  ListInv'
<1> DEFINE content == ContentHeight(items)
           max == ScrollMax(items, bounds.height)
           drift == IF dragHeight = NotYet THEN 0 ELSE content - dragHeight
           moved == IF y - drift < 0 THEN drift - y ELSE y - drift
           new == Min2(moved, max)
<1>1. bounds.height \in Nat
  BY ListAssumption DEF DragTo, ListInv, BoundsOK, Viewport
<1>2. content \in Nat /\ max \in Nat
  BY <1>1, ContentIs
<1>3. OffsetAt(items, new).offset <= MaxOffset /\ scrollTop' = ScrolledTo(new, max)
  BY DEF DragTo
<1> HIDE DEF content, max
<1>4. drift \in Int /\ y \in Int
  BY <1>2, ListAssumption DEF ListInv, DragOK
<1> HIDE DEF drift
<1>5. new \in Nat
  BY <1>2, <1>4 DEF Min2
<1> HIDE DEF new
<1>6. scrollTop' = NoOffset \/ (scrollTop' \in Offset /\ scrollTop'.ix <= Len(rows) /\ scrollTop'.offset >= 0)
  BY <1>3, <1>5, ScrolledToIs
<1>7. /\ UnsettledFor(NoRow)
      /\ UNCHANGED <<rows, focusedRow, items, alignment, sizing, measuring, wasReset, bounds, dragHeight>>
  BY DEF DragTo, Unsettled
<1> QED BY <1>6, <1>7, MovesTop

\* StateInner::scroll keeps the invariant, with a layout of an earlier frame.
LEMMA WheelInv ==
  ASSUME ListInv, NEW d \in Deltas, Wheel(d)
  PROVE  ListInv'
<1> DEFINE sum == Coalesce(painted.delta, d)
           top == painted.top
           above == HeightBefore(items, Min2(top.ix, Len(items)))
           max == ScrollMax(items, bounds.height)
           new == Min2(Max2(above + top.offset - sum, 0), max)
<1>1. /\ painted \in PaintRecord /\ bounds \in Viewport /\ bounds.height \in Nat
      /\ items \in Seq(Item) /\ Len(items) \in Nat
  <2>1. painted \in PaintRecord /\ bounds \in Viewport
    BY DEF Wheel, ListInv, PaintOK
  <2>2. bounds.height \in Nat
    BY <2>1, ListAssumption DEF Viewport
  <2>3. items \in Seq(Item) /\ Len(items) \in Nat
    BY DEF ListInv, ItemsOK, GoodItems
  <2> QED BY <2>1, <2>2, <2>3
<1>2. top.ix \in Nat /\ top.offset \in Int /\ painted.delta \in Int /\ d \in Int
  BY <1>1, ListAssumption DEF PaintRecord
<1>3. sum \in Int
  BY <1>2 DEF Coalesce
<1>4. above \in Nat /\ max \in Nat
  <2>1. Min2(top.ix, Len(items)) \in 0..Len(items)
    BY <1>1, <1>2 DEF Min2
  <2> QED BY <1>1, <2>1, ContentIs, HeightSum
<1>5. painted' = [Stale(painted, NoRow) EXCEPT !.delta = sum]
  BY DEF Wheel
<1>6. UNCHANGED <<scrollTop, scrolled>> \/ (OffsetAt(items, new).offset <= MaxOffset /\ scrollTop' = ScrolledTo(new, max))
  BY DEF Wheel
<1>7. UNCHANGED <<rows, focusedRow, items, alignment, sizing, measuring, wasReset, bounds, dragHeight>>
  BY DEF Wheel
<1> HIDE DEF sum, above, max
<1>8. new \in Nat
  <2>1. Max2(above + top.offset - sum, 0) \in Nat
    BY <1>2, <1>3, <1>4 DEF Max2
  <2> QED BY <1>4, <2>1 DEF Min2
<1> HIDE DEF new, top
<1>9. TopOK'
  <2>1. scrollTop' = NoOffset \/ (scrollTop' \in Offset /\ scrollTop'.ix <= Len(rows) /\ scrollTop'.offset >= 0)
    BY <1>6, <1>8, ScrolledToIs DEF ListInv, TopOK
  <2> QED BY <1>7, <2>1 DEF TopOK
<1>10. PaintOK' /\ DrawnOK' /\ RestOK' /\ AutoOK' /\ RevealOK'
  <2>1. NotYet \in Requests \cup {NotYet} /\ <<>> \in Seq(Nat) /\ NoRow \in Rows \cup {NoRow}
    OBVIOUS
  <2>2. painted' \in PaintRecord /\ ~painted'.settled /\ painted'.revealed = NoRow
    BY <1>1, <1>3, <1>5, <2>1 DEF Stale, PaintRecord
  <2>3. bounds' \in Viewport
    BY <1>1, <1>7 DEF Viewport
  <2> QED BY <2>2, <2>3 DEF PaintOK, DrawnOK, RestOK, AutoOK, RevealOK, Settled
<1>11. RowsOK' /\ ItemsOK' /\ FlagsOK' /\ HeightsOK'
  BY <1>7, RowsStay
<1>12. DragOK' /\ BoundsOK'
  BY <1>7 DEF ListInv, DragOK, BoundsOK, Viewport
<1> QED BY <1>9, <1>10, <1>11, <1>12 DEF ListInv

\* scrollbar_drag_started and scrollbar_drag_ended keep the invariant.
LEMMA DragInv ==
  ASSUME ListInv, DragStarted \/ DragEnded
  PROVE  ListInv'
<1>1. DragOK'
  <2>1. CASE DragStarted
    BY <2>1, ContentIs DEF DragStarted, DragOK
  <2>2. CASE DragEnded
    BY <2>2 DEF DragEnded, DragOK
  <2> QED BY <2>1, <2>2
<1>2. UNCHANGED <<rows, focusedRow, items, scrollTop, alignment, sizing, measuring, wasReset, bounds, painted>>
  BY DEF DragStarted, DragEnded
<1>3. RowsOK' /\ ItemsOK' /\ FlagsOK' /\ HeightsOK'
  BY <1>2, RowsStay
<1>4. TopOK' /\ BoundsOK' /\ PaintOK'
  BY <1>2 DEF ListInv, TopOK, BoundsOK, PaintOK, Viewport
<1>5. DrawnOK'
  BY <1>2 DEF ListInv, DrawnOK, Settled, Position, Fills, EdgeOf, AtEnd, ShowsFocused,
                          ContainsFocused
<1>6. RestOK' /\ AutoOK' /\ RevealOK'
  BY <1>2, AskedStays
<1> QED BY <1>1, <1>3, <1>4, <1>5, <1>6 DEF ListInv

\* A change of the focus keeps the invariant.
LEMMA FocusRowInv ==
  ASSUME ListInv, NEW row \in FocusableRows, FocusRow(row)
  PROVE  ListInv'
<1>1. /\ UnsettledFor(NoRow)
      /\ UNCHANGED <<rows, items, scrollTop, alignment, sizing, measuring, wasReset, bounds, dragHeight>>
  BY DEF FocusRow, Unsettled
<1>2. PaintOK' /\ DrawnOK' /\ RestOK' /\ BoundsOK' /\ AutoOK' /\ RevealOK'
  BY <1>1, Unsettles
<1>3. FlagsOK'
  BY <1>1 DEF FocusRow, ListInv, FlagsOK
<1>4. RowsOK' /\ ItemsOK' /\ HeightsOK'
  BY <1>1 DEF ListInv, RowsOK, ItemsOK, HeightsOK
<1>5. TopOK' /\ DragOK'
  BY <1>1 DEF ListInv, TopOK, DragOK
<1> QED BY <1>2, <1>3, <1>4, <1>5 DEF ListInv

\* reset keeps the invariant.
LEMMA ResetInv ==
  ASSUME ListInv, NEW new \in RowLists, Reset(new)
  PROVE  ListInv'
<1>1. /\ rows' = new /\ items' = [i \in DOMAIN new |-> Unmeasured(NoRow)] /\ scrollTop' = NoOffset
      /\ dragHeight' = NotYet /\ UnsettledFor(NoRow) /\ UNCHANGED <<focusedRow, alignment, sizing, bounds>>
      /\ wasReset' = TRUE /\ measuring' = IF measuring = "done" THEN "pending" ELSE measuring
  BY DEF Reset, Unsettled
<1>2. GoodRows(new)
  BY RowListsAre
<1>3. RowsOK'
  BY <1>1, <1>2, NotTooMany DEF RowsOK
<1>4. Len(new) \in Nat /\ items' = [i \in 1..Len(new) |-> Unmeasured(NoRow)]
  BY <1>1, <1>2 DEF GoodRows
<1>5. Unmeasured(NoRow) \in Item /\ Unmeasured(NoRow).handle = NoRow /\ ~Unmeasured(NoRow).measured
  BY UnmeasuredIs
<1>6. /\ items' \in Seq(Item) /\ Len(items') = Len(new)
      /\ \A i \in 1..Len(new) : items'[i].handle = NoRow /\ ~items'[i].measured
  BY <1>4, <1>5
<1>7. ItemsOK' /\ HeightsOK'
  BY <1>1, <1>6 DEF ItemsOK, GoodItems, HeightsOK, HeightsRight
<1>8. PaintOK' /\ DrawnOK' /\ RestOK' /\ BoundsOK' /\ AutoOK' /\ RevealOK'
  BY <1>1, Unsettles
<1>9. FlagsOK' /\ TopOK' /\ DragOK'
  BY <1>1 DEF ListInv, FlagsOK, TopOK, DragOK
<1> QED BY <1>3, <1>7, <1>8, <1>9 DEF ListInv

\* The rows and items of a splice, and where the rows that stay are after it.
LEMMA SplicedRows ==
  ASSUME ListInv, NEW from \in 0..Len(rows), NEW to \in 0..Len(rows), NEW new \in Fresh, Splice(from, to, new)
  PROVE  LET m == Len(new)
             gone == to - from
         IN /\ m \in Nat /\ from <= to /\ rows' \in Seq(Rows) /\ Ordered(rows')
            /\ Len(rows') = Len(rows) - gone + m
            /\ items' \in Seq(Item) /\ Len(items') = Len(rows')
            /\ \A i \in 1..Len(rows') :
                 \/ i <= from /\ rows'[i] = rows[i] /\ items'[i] = items[i]
                 \/ /\ i > from /\ i <= from + m /\ rows'[i] = new[i - from]
                    /\ items'[i] = Unmeasured(HandleOf(new[i - from])) /\ i - from \in 1..m
                 \/ /\ i > from + m /\ rows'[i] = rows[i - m + gone] /\ items'[i] = items[i - m + gone]
                    /\ i - m + gone \in (to + 1)..Len(rows)
<1> DEFINE m == Len(new)
           gone == to - from
           n == Len(rows)
           its == NewItems(new)
<1>1. /\ from \in 0..to /\ to \in 0..n /\ n \in Nat /\ rows \in Seq(Rows) /\ items \in Seq(Item) /\ Len(items) = n
  BY DEF Splice, ListInv, RowsOK, GoodRows, ItemsOK, GoodItems
<1>2. new \in Seq(Rows) /\ m \in Nat /\ DOMAIN new = 1..m
  BY RowListsAre DEF Fresh, GoodRows
<1>3. its \in Seq(Item) /\ Len(its) = m /\ \A i \in 1..m : its[i] = Unmeasured(HandleOf(new[i]))
  <2>1. its = [i \in 1..m |-> Unmeasured(HandleOf(new[i]))]
    BY <1>2 DEF NewItems
  <2>2. ASSUME NEW i \in 1..m PROVE Unmeasured(HandleOf(new[i])) \in Item
    <3>1. HandleOf(new[i]) \in FocusableRows \cup {NoRow}
      BY DEF HandleOf
    <3> QED BY <3>1, UnmeasuredIs
  <2> HIDE DEF m, its
  <2> QED BY <1>2, <2>1, <2>2
<1>4. rows' = SpliceOf(rows, from, to, new) /\ Ordered(rows')
  BY DEF Splice, SpliceOf
<1>5. items' = SpliceOf(items, from, to, its)
  BY <1>1 DEF Splice, SpliceOf
<1> HIDE DEF its
<1>6. /\ rows' \in Seq(Rows) /\ Len(rows') = n - gone + m
      /\ \A i \in 1..Len(rows') :
           rows'[i] = IF i <= from THEN rows[i] ELSE IF i <= from + m THEN new[i - from] ELSE rows[i - m + gone]
  <2>1. rows' \in Seq(Rows) /\ IsSplice(rows', rows, from, to, new)
    BY <1>1, <1>2, <1>4, SpliceIs
  <2> QED BY <2>1 DEF IsSplice
<1>7. /\ items' \in Seq(Item) /\ Len(items') = n - gone + m
      /\ \A i \in 1..Len(items') :
           items'[i] = IF i <= from THEN items[i] ELSE IF i <= from + m THEN its[i - from] ELSE items[i - m + gone]
  <2>1. items' \in Seq(Item) /\ IsSplice(items', items, from, to, its)
    BY <1>1, <1>3, <1>5, SpliceIs
  <2>2. Len(items) = n /\ Len(its) = m
    BY <1>1, <1>3
  <2> HIDE DEF n, m
  <2> QED BY <2>1, <2>2 DEF IsSplice
<1> HIDE DEF n, m, gone
<1>8. ASSUME NEW i \in 1..Len(rows')
      PROVE  \/ i <= from /\ rows'[i] = rows[i] /\ items'[i] = items[i]
             \/ /\ i > from /\ i <= from + m /\ rows'[i] = new[i - from]
                /\ items'[i] = Unmeasured(HandleOf(new[i - from])) /\ i - from \in 1..m
             \/ /\ i > from + m /\ rows'[i] = rows[i - m + gone] /\ items'[i] = items[i - m + gone]
                /\ i - m + gone \in (to + 1)..n
  <2>1. i \in 1..Len(items') /\ i \in Nat /\ i <= n - gone + m /\ gone = to - from
    BY <1>6, <1>7 DEF gone
  <2>2. CASE i <= from
    BY <1>6, <1>7, <2>1, <2>2
  <2>3. CASE ~(i <= from) /\ i <= from + m
    <3>1. i - from \in 1..m /\ i > from
      BY <1>1, <1>2, <2>1, <2>3
    <3>2. rows'[i] = new[i - from] /\ items'[i] = its[i - from]
      BY <1>6, <1>7, <2>1, <2>3
    <3> QED BY <1>3, <2>3, <3>1, <3>2
  <2>4. CASE ~(i <= from) /\ ~(i <= from + m)
    <3>1. i > from + m /\ i - m + gone \in (to + 1)..n
      BY <1>1, <1>2, <2>1, <2>4
    <3>2. rows'[i] = rows[i - m + gone] /\ items'[i] = items[i - m + gone]
      BY <1>6, <1>7, <2>1, <2>4
    <3> QED BY <3>1, <3>2
  <2> QED BY <2>2, <2>3, <2>4
<1> QED BY <1>1, <1>2, <1>4, <1>6, <1>7, <1>8 DEF n, m, gone

\* splice_focusable keeps the invariant.
LEMMA SpliceInv ==
  ASSUME ListInv, NEW from \in 0..Len(rows), NEW to \in 0..Len(rows), NEW new \in Fresh, Splice(from, to, new)
  PROVE  ListInv'
<1> DEFINE m == Len(new)
           gone == to - from
           n == Len(rows)
<1>1. /\ m \in Nat /\ n \in Nat /\ from \in Nat /\ to \in Nat /\ from <= to /\ to <= n /\ gone = to - from
      /\ rows' \in Seq(Rows) /\ Ordered(rows') /\ Len(rows') = n - gone + m
      /\ items' \in Seq(Item) /\ Len(items') = Len(rows') /\ Len(items) = n
  <2>1. n \in Nat /\ Len(items) = n
    BY DEF ListInv, RowsOK, GoodRows, ItemsOK, GoodItems
  <2>2. /\ m \in Nat /\ from <= to /\ rows' \in Seq(Rows) /\ Ordered(rows')
        /\ Len(rows') = n - gone + m /\ items' \in Seq(Item) /\ Len(items') = Len(rows')
    BY SplicedRows
  <2> QED BY <2>1, <2>2
<1>2. ASSUME NEW i \in 1..Len(rows')
      PROVE  \/ \E j \in 1..n : rows'[i] = rows[j] /\ items'[i] = items[j]
             \/ \E row \in Rows : rows'[i] = row /\ items'[i] = Unmeasured(HandleOf(row))
  <2>1. \/ i <= from /\ rows'[i] = rows[i] /\ items'[i] = items[i]
        \/ /\ i > from /\ i <= from + m /\ rows'[i] = new[i - from]
           /\ items'[i] = Unmeasured(HandleOf(new[i - from])) /\ i - from \in 1..m
        \/ /\ i > from + m /\ rows'[i] = rows[i - m + gone] /\ items'[i] = items[i - m + gone]
           /\ i - m + gone \in (to + 1)..n
    BY SplicedRows
  <2> HIDE DEF m, gone, n
  <2>2. CASE i <= from /\ rows'[i] = rows[i] /\ items'[i] = items[i]
    <3>1. i \in 1..n
      BY <1>1, <2>2
    <3> QED BY <2>2, <3>1
  <2>3. CASE rows'[i] = new[i - from] /\ items'[i] = Unmeasured(HandleOf(new[i - from]))
    <3>1. rows'[i] \in Rows
      BY <1>1, ElementOfSeq
    <3> QED BY <2>3, <3>1
  <2>4. CASE /\ rows'[i] = rows[i - m + gone] /\ items'[i] = items[i - m + gone]
             /\ i - m + gone \in (to + 1)..n
    <3>1. i - m + gone \in 1..n
      BY <1>1, <2>4, SMTT(30)
    <3> QED BY <2>4, <3>1
  <2> QED BY <2>1, <2>2, <2>3, <2>4
<1>3. /\ scrollTop' = Spliced(scrollTop, from, to, m) /\ UnsettledFor(NoRow)
      /\ UNCHANGED <<focusedRow, alignment, sizing, measuring, wasReset, bounds, dragHeight>>
  BY DEF Splice, Unsettled
<1> HIDE DEF n, m, gone
<1>4. RowsOK'
  BY <1>1, NotTooMany DEF RowsOK, GoodRows
<1>5. ASSUME NEW i \in 1..Len(rows')
      PROVE  items'[i].handle \in {NoRow, rows'[i]}
  <2>1. CASE \E j \in 1..n : rows'[i] = rows[j] /\ items'[i] = items[j]
    BY <2>1 DEF ListInv, ItemsOK, GoodItems, n
  <2>2. CASE \E row \in Rows : rows'[i] = row /\ items'[i] = Unmeasured(HandleOf(row))
    BY <2>2 DEF Unmeasured, HandleOf
  <2> QED BY <1>2, <2>1, <2>2
<1>6. ItemsOK'
  BY <1>1, <1>5 DEF ItemsOK, GoodItems
<1>7. HeightsOK'
  <2> SUFFICES ASSUME sizing = "Auto", bounds # NotYet, NEW i \in 1..Len(rows'), items'[i].measured
               PROVE  items'[i].size = Real(rows', i, bounds.width)
    BY <1>3 DEF HeightsOK, HeightsRight
  <2>1. CASE \E j \in 1..n : rows'[i] = rows[j] /\ items'[i] = items[j]
    <3>1. PICK j \in 1..n : rows'[i] = rows[j] /\ items'[i] = items[j]
      BY <2>1
    <3>2. items[j].size = Real(rows, j, bounds.width)
      BY <3>1 DEF ListInv, HeightsOK, HeightsRight, n
    <3> QED BY <3>1, <3>2 DEF Real
  <2>2. CASE \E row \in Rows : rows'[i] = row /\ items'[i] = Unmeasured(HandleOf(row))
    BY <2>2 DEF Unmeasured
  <2> QED BY <1>2, <2>1, <2>2
<1>8. PaintOK' /\ DrawnOK' /\ RestOK' /\ BoundsOK' /\ AutoOK' /\ RevealOK'
  BY <1>3, Unsettles
<1>9. FlagsOK' /\ DragOK'
  BY <1>3 DEF ListInv, FlagsOK, DragOK
<1>10. TopOK'
  <2>1. CASE scrollTop = NoOffset
    BY <1>3, <2>1 DEF Spliced, TopOK
  <2>2. CASE scrollTop # NoOffset
    <3>1. scrollTop \in Offset /\ scrollTop.ix <= n /\ scrollTop.ix \in Nat /\ scrollTop.offset >= 0
      BY <2>2, ListAssumption, FS_CardinalityType DEF ListInv, TopOK, Offset, n
    <3>2. Len(rows') <= Cardinality(Rows) /\ Cardinality(Rows) \in Nat /\ Len(rows') \in Nat /\ MaxOffset \in Nat
      BY <1>1, <1>4, ListAssumption, FS_CardinalityType DEF RowsOK
    <3>3. CASE scrollTop.ix \in from..(to - 1)
      <4>1. scrollTop' = [ix |-> from, offset |-> 0]
        BY <1>3, <2>2, <3>3 DEF Spliced
      <4>2. from <= Len(rows') /\ 0 \in (-MaxOffset)..MaxOffset /\ from \in 0..Cardinality(Rows)
        BY <1>1, <3>2
      <4> QED BY <4>1, <4>2 DEF TopOK, Offset
    <3>4. CASE to <= scrollTop.ix
      <4>1. ~(scrollTop.ix \in from..(to - 1))
        BY <1>1, <3>1, <3>4
      <4> DEFINE ix == scrollTop.ix - gone + m
      <4>2. scrollTop' = [scrollTop EXCEPT !.ix = ix]
        BY <1>3, <2>2, <3>4, <4>1 DEF Spliced, gone
      <4>3. ix <= Len(rows') /\ ix \in 0..Cardinality(Rows)
        <5> DEFINE x == scrollTop.ix
        <5>1. x \in Nat /\ x <= n /\ to <= x /\ ix = x - gone + m
          BY <3>1, <3>4
        <5>2. /\ n \in Nat /\ m \in Nat /\ from \in Nat /\ to \in Nat /\ from <= to /\ gone = to - from
              /\ Len(rows') = n - gone + m /\ Len(rows') <= Cardinality(Rows) /\ Cardinality(Rows) \in Nat
          BY <1>1, <3>2
        <5> HIDE DEF x, ix
        <5>3. ix \in Nat /\ ix <= Len(rows')
          BY <5>1, <5>2
        <5> QED BY <5>2, <5>3
      <4> HIDE DEF ix
      <4> QED BY <3>1, <4>2, <4>3 DEF TopOK, Offset
    <3>5. CASE ~(scrollTop.ix \in from..(to - 1)) /\ ~(to <= scrollTop.ix)
      <4>1. scrollTop' = scrollTop
        BY <1>3, <2>2, <3>5 DEF Spliced
      <4>2. scrollTop.ix <= Len(rows')
        BY <1>1, <3>1, <3>5
      <4> QED BY <3>1, <4>1, <4>2 DEF TopOK, Offset
    <3> QED BY <3>3, <3>4, <3>5
  <2> QED BY <2>1, <2>2
<1> QED BY <1>4, <1>6, <1>7, <1>8, <1>9, <1>10 DEF ListInv

\* A frame leaves the heights right and the viewport filled.
LEMMA DrawInv ==
  ASSUME ListInv, NEW width \in Widths, NEW height \in Heights, NEW auto \in Requests \cup {NotYet},
         Draw(width, height, auto)
  PROVE  ListInv'
<1> DEFINE list == Sized(items, scrollTop)
           known == ForWidth(list.items, width)
           its == ToLayOut(known, width)
           layout == LayoutItems(its, list.scroll, width, height)
           made == Rendered(layout, width, height, auto)
<1>1. /\ GoodRows(rows) /\ GoodItems(rows, items) /\ width \in AllWidths /\ height \in Nat
      /\ bounds = NotYet \/ bounds \in Viewport
  BY ListAssumption DEF ListInv, RowsOK, ItemsOK, BoundsOK, AllWidths
<1>2. scrollTop = NoOffset \/ scrollTop \in Position
  <2>1. CASE scrollTop # NoOffset
    <3>1. scrollTop \in Offset /\ scrollTop.ix <= Len(rows) /\ Len(rows) \in Nat
      BY <2>1 DEF ListInv, TopOK, RowsOK, GoodRows
    <3>2. Cardinality(Rows) \in Nat /\ MaxOffset \in Nat
      BY ListAssumption, FS_CardinalityType
    <3> QED BY <3>1, <3>2 DEF Offset, Position
  <2> QED BY <2>1
<1>3. /\ Carried(list.items, items)
      /\ list.scroll = NoOffset \/ list.scroll \in Position
      /\ sizing # "Infer" => list.items = items
  BY <1>1, <1>2, SizedKeeps DEF Viewport
<1>4. PICK drawn \in {Prepaint(items, scrollTop, width, height, auto)} :
        /\ drawn.scroll \in Offset \cup {NoOffset}
        /\ items' = drawn.items /\ scrollTop' = drawn.scroll /\ wasReset' = FALSE
        /\ measuring' = IF measuring = "pending" THEN "done" ELSE measuring
        /\ bounds' = [width |-> width, height |-> height]
        /\ painted' = [top |-> drawn.top, delta |-> 0,
                       shown |-> drawn.shown, visible |-> drawn.visible, settled |-> TRUE,
                       revealed |-> IF painted # NotYet /\ bounds = bounds' /\ auto = NotYet
                                    THEN painted.revealed ELSE NoRow,
                       auto |-> drawn.auto]
        /\ UNCHANGED <<rows, focusedRow, alignment, sizing, dragHeight>>
  BY DEF Draw
<1>5. drawn = made
  BY <1>4, SMTT(30) DEF Prepaint, LaidOut
<1>6. drawn.auto \in Requests \cup {NotYet}
  BY <1>5 DEF Rendered
<1> HIDE DEF made
<1>7. GoodItems(rows, list.items)
  BY <1>3 DEF Carried
<1> HIDE DEF list
<1>8. /\ Carried(known, list.items)
      /\ (bounds # NotYet => HeightsRight(rows, list.items, bounds.width)) => HeightsRight(rows, known, width)
  BY <1>1, <1>7, ForWidthKeeps
<1>9. GoodItems(rows, known)
  BY <1>8 DEF Carried
<1> HIDE DEF known
<1>10. /\ Carried(its, known)
       /\ HeightsRight(rows, known, width) => HeightsRight(rows, its, width)
  BY <1>1, <1>9, ToLayOutKeeps
<1>11. GoodItems(rows, its)
  BY <1>10 DEF Carried
<1> HIDE DEF its
<1>12. IsFrame(layout, its, width, height)
  BY <1>1, <1>3, <1>11, LayoutIsFrame
<1> HIDE DEF layout
<1>12a. /\ Forth(layout.scroll) /\ InOrder(layout)
        /\ AtRest(layout, layout.items, layout.scroll, width, height)
  <2>1. Forth(scrollTop) /\ Forth(list.scroll)
    BY <1>1, <1>2, SizedForth DEF ListInv, TopOK, Forth, Viewport, list
  <2>2. Forth(layout.scroll)
    BY <1>1, <1>3, <1>11, <2>1, LayoutForth DEF layout
  <2>3. InOrder(layout) /\ AtRest(layout, layout.items, layout.scroll, width, height)
    BY <1>1, <1>3, <1>11, <2>1, LayoutRests DEF layout
  <2> QED BY <2>2, <2>3
<1>13. IsFrame(drawn, its, width, height)
  <2>1. IsFrame(Rendered(layout, width, height, auto), its, width, height)
    BY <1>1, <1>11, <1>12, RenderedIsFrame
  <2> QED BY <1>5, <2>1 DEF made
<1>12b. /\ Forth(drawn.scroll)
        /\ HeightsRight(rows, layout.items, width) /\ drawn.auto # NotYet
             /\ drawn.auto.bottom - drawn.auto.top <= height - PadTop - PadBottom =>
             ShowsPart(rows, drawn, drawn.auto, width, height)
        /\ auto = NotYet =>
             /\ drawn.auto = NotYet /\ drawn.scroll = layout.scroll /\ drawn.top = layout.top
             /\ height > PadTop + PadBottom => drawn.shown = layout.shown
  <2>1. drawn = Rendered(layout, width, height, auto)
    BY <1>5 DEF made
  <2> QED BY <1>1, <1>11, <1>12, <1>12a, <2>1, RenderedServes
<1>12c. OnlyRoomy(drawn, height) /\ AtRest(drawn, drawn.items, drawn.scroll, width, height)
  <2>1. drawn = Rendered(layout, width, height, auto)
    BY <1>5 DEF made
  <2> QED BY <1>1, <1>11, <1>12, <1>12a, <2>1, RenderedRests
<1>14. Carried(its, items)
  BY <1>3, <1>8, <1>10, CarriedOn
<1>15. Carried(drawn.items, items)
  BY <1>13, <1>14, CarriedOn DEF IsFrame
<1>16. sizing = "Auto" => HeightsRight(rows, drawn.items, width) /\ HeightsRight(rows, layout.items, width)
  <2> SUFFICES ASSUME sizing = "Auto"
               PROVE  HeightsRight(rows, drawn.items, width) /\ HeightsRight(rows, layout.items, width)
    OBVIOUS
  <2>1. bounds # NotYet => HeightsRight(rows, list.items, bounds.width)
    BY <1>3 DEF ListInv, HeightsOK
  <2> QED BY <1>8, <1>10, <1>12, <1>13, <2>1 DEF IsFrame
<1>17. /\ Places(drawn) /\ Fills(rows, drawn, width, height) /\ Pinned(drawn, width, height)
       /\ height > PadTop + PadBottom => ShowsFocused(drawn, items)
  <2>1. ShowsFocused(drawn, its) => ShowsFocused(drawn, items)
    BY <1>14, ShowsCarried DEF Carried
  <2> QED BY <1>13, <2>1 DEF IsFrame
<1>18. RowsOK'
  BY <1>4 DEF ListInv, RowsOK
<1>19. ItemsOK' /\ HeightsOK'
  <2>1. GoodItems(rows, drawn.items)
    BY <1>15 DEF Carried
  <2>2. bounds'.width = width
    BY <1>4
  <2> QED BY <1>4, <1>16, <2>1, <2>2 DEF ItemsOK, HeightsOK
<1>20. FlagsOK' /\ DragOK'
  BY <1>4 DEF ListInv, FlagsOK, DragOK
<1>21. bounds' \in Viewport /\ bounds'.width = width /\ bounds'.height = height
  BY <1>4 DEF Viewport
<1>22. TopOK'
  <2>1. drawn.scroll # NoOffset => drawn.scroll \in Offset /\ drawn.scroll.ix <= Len(rows)
    BY <1>1, <1>4, <1>17 DEF Places, Position, GoodRows
  <2>2. Forth(drawn.scroll)
    BY <1>12b
  <2> QED BY <1>4, <2>1, <2>2 DEF TopOK, Forth
<1>23. /\ drawn.top.ix \in Nat /\ drawn.top.offset \in Int /\ drawn.visible \in Nat
       /\ drawn.top \in [ix : Nat, offset : Int] /\ drawn.shown \in Seq(Nat)
       /\ drawn.top.ix + drawn.visible <= Len(rows)
  <2>1. drawn.top \in Position /\ Len(rows) \in Nat
    BY <1>1, <1>17 DEF Places, GoodRows
  <2>2. drawn.top.ix \in Nat /\ drawn.top.offset \in Int /\ drawn.top \in [ix : Nat, offset : Int]
    BY <2>1 DEF Position
  <2>3. drawn.shown \in Seq(Nat)
    <3>1. drawn.shown \in Seq(0..(Len(rows) - 1)) /\ 0..(Len(rows) - 1) \subseteq Nat
      BY <1>17, <2>1 DEF Places
    <3> QED BY <3>1, SeqMonotonic
  <2> QED BY <1>17, <2>2, <2>3 DEF Places
<1>24. PaintOK'
  <2> DEFINE row == IF painted # NotYet /\ bounds = bounds' /\ auto = NotYet
                    THEN painted.revealed ELSE NoRow
  <2>1. row \in Rows \cup {NoRow}
    BY DEF ListInv, PaintOK, PaintRecord
  <2>2. painted' = [top |-> drawn.top, delta |-> 0, shown |-> drawn.shown, visible |-> drawn.visible,
                    settled |-> TRUE, revealed |-> row, auto |-> drawn.auto]
    BY <1>4
  <2> HIDE DEF row
  <2>3. painted' \in PaintRecord
    BY <1>6, <1>23, <2>1, <2>2 DEF PaintRecord
  <2> QED BY <1>21, <2>3 DEF PaintOK
<1>25. painted'.top = drawn.top /\ painted'.visible = drawn.visible /\ painted'.shown = drawn.shown
  BY <1>4
<1>26. DrawnOK'
  <2>1. Fills(rows', painted', width, height)
    BY <1>4, <1>17, <1>25 DEF Fills, EdgeOf
  <2>2. alignment' # "Top" /\ scrollTop' = NoOffset /\ height >= PadTop + PadBottom =>
          AtEnd(rows', painted', width, height)
    BY <1>4, <1>17, <1>25 DEF Pinned, AtEnd, EdgeOf
  <2>3. height > PadTop + PadBottom => ShowsFocused(painted, items)'
    <3> SUFFICES ASSUME height > PadTop + PadBottom PROVE ShowsFocused(painted, items)'
      OBVIOUS
    <3>1. ShowsFocused(drawn, items) /\ SameHandles(rows, drawn.items, items)
      BY <1>15, <1>17 DEF Carried
    <3> QED BY <1>4, <1>25, <3>1 DEF ShowsFocused, ContainsFocused, SameHandles
  <2>4. painted'.top \in Position' /\ painted'.shown \in Seq(0..(Len(rows') - 1))
    BY <1>4, <1>17, <1>25 DEF Places, Position
  <2> QED BY <1>4, <1>21, <1>23, <1>25, <2>1, <2>2, <2>3, <2>4 DEF DrawnOK
<1>26a. RestOK'
  <2>1. AtRest(painted, items, scrollTop, bounds.width, bounds.height)'
    <3>1. /\ painted'.top = drawn.top /\ items' = drawn.items /\ scrollTop' = drawn.scroll
          /\ bounds'.width = width /\ bounds'.height = height /\ UNCHANGED <<rows, alignment>>
      BY <1>4, <1>21, <1>25
    <3> QED BY <1>12c, <3>1 DEF AtRest, Rests, Reaches, RowAt, LogicalTop
  <2>2. OnlyRoomy(painted, bounds.height)'
    BY <1>12c, <1>21, <1>25 DEF OnlyRoomy, InOrder
  <2> QED BY <2>1, <2>2 DEF RestOK
<1>27. BoundsOK'
  BY <1>21 DEF BoundsOK
<1>28. AutoOK'
  <2> SUFFICES ASSUME sizing' = "Auto", painted'.auto # NotYet,
                      painted'.auto.bottom - painted'.auto.top <= bounds'.height - PadTop - PadBottom
               PROVE  ShowsPart(rows', painted', painted'.auto, bounds'.width, bounds'.height)
    BY DEF AutoOK
  <2>1. painted'.auto = drawn.auto /\ sizing = "Auto" /\ rows' = rows
    BY <1>4
  <2>2. ShowsPart(rows, drawn, drawn.auto, width, height)
    BY <1>12b, <1>16, <1>21, <2>1
  <2> QED BY <1>21, <1>25, <2>1, <2>2 DEF ShowsPart, Sees
<1>29. RevealOK'
  <2> SUFFICES ASSUME painted' # NotYet, painted'.revealed # NoRow
               PROVE  sizing' = "Auto" /\ \E i \in 0..(Len(rows') - 1) : Awaited(i)'
    BY DEF RevealOK
  <2>1. painted # NotYet /\ bounds = bounds' /\ auto = NotYet /\ painted'.revealed = painted.revealed
    BY <1>4
  <2>2. /\ rows' = rows /\ alignment' = alignment /\ sizing' = sizing
        /\ bounds.width = width /\ bounds.height = height
    BY <1>4, <1>21, <2>1
  <2>3. sizing = "Auto" /\ \E i \in 0..(Len(rows) - 1) : Awaited(i)
    BY <2>1 DEF ListInv, RevealOK
  <2>4. PICK i \in 0..(Len(rows) - 1) : Awaited(i)
    BY <2>3
  <2> DEFINE real == Real(rows, i + 1, width)
  <2>5. rows[i + 1] = painted.revealed /\ real > 0 /\ InPlace(rows, scrollTop, i, width, height)
    BY <2>2, <2>4 DEF Awaited
  <2>6. layout = LayoutItems(its, scrollTop, width, height)
    BY <2>3 DEF layout, list, Sized
  <2> HIDE DEF real
  <2>7. /\ Sees(rows, layout, i, <<0, real>>, width, height)
        /\ InPlace(rows, layout.scroll, i, width, height)
        /\ height > PadTop + PadBottom
    BY <1>1, <1>11, <2>5, <2>6, LayoutKeepsPlace DEF real
  <2>8. /\ drawn.scroll = layout.scroll /\ painted'.top = layout.top /\ painted'.shown = layout.shown
        /\ scrollTop' = layout.scroll
    BY <1>4, <1>12b, <1>25, <2>1, <2>7
  <2>9. Awaited(i)'
    <3>1. Sees(rows', painted', i, <<0, real>>, width, height)
      BY <2>2, <2>7, <2>8 DEF Sees
    <3>2. InPlace(rows, scrollTop, i, width, height)'
      BY <2>2, <2>7, <2>8 DEF InPlace
    <3>3. Real(rows', i + 1, bounds'.width) = real
      BY <1>21, <2>2 DEF real
    <3> QED BY <1>21, <2>1, <2>2, <2>5, <3>1, <3>2, <3>3 DEF Awaited, real
  <2> QED BY <2>2, <2>3, <2>9
<1> QED BY <1>18, <1>19, <1>20, <1>22, <1>24, <1>26, <1>26a, <1>27, <1>28, <1>29 DEF ListInv

\* Every step keeps the invariant,
LEMMA NextInv == ListInv /\ [ListNext]_lvars => ListInv'
<1> SUFFICES ASSUME ListInv, [ListNext]_lvars PROVE ListInv'
  OBVIOUS
<1>1. CASE \E from, to \in 0..Len(rows) : \E new \in Fresh : Splice(from, to, new)
  BY <1>1, SpliceInv
<1>2. CASE \E new \in RowLists : Reset(new)
  BY <1>2, ResetInv
<1>3. CASE \E d \in Deltas : ScrollBy(d) \/ Wheel(d)
  BY <1>3, ScrollByInv, WheelInv
<1>4. CASE \E ix \in 0..Cardinality(Rows), offset \in ScrollOffsets : ScrollTo(ix, offset)
  BY <1>4, ScrollToInv
<1>5. CASE \E ix \in 0..Cardinality(Rows) : Reveal(ix)
  BY <1>5, RevealInv
<1>6. CASE DragStarted \/ DragEnded
  BY <1>6, DragInv
<1>7. CASE \E y \in (-MaxOffset)..0 : DragTo(y)
  BY <1>7, DragToInv
<1>8. CASE \E row \in FocusableRows : FocusRow(row)
  BY <1>8, FocusRowInv
<1>9. CASE \E width \in Widths, height \in Heights, auto \in Requests \cup {NotYet} :
             Draw(width, height, auto)
  BY <1>9, DrawInv
<1>10. CASE UNCHANGED lvars
  <2>1. UNCHANGED <<rows, focusedRow, items, scrollTop, alignment, sizing, measuring, wasReset, bounds,
                    dragHeight, painted>>
    BY <1>10 DEF lvars
  <2>2. RowsOK' /\ ItemsOK' /\ FlagsOK' /\ HeightsOK'
    BY <2>1, RowsStay
  <2>3. TopOK' /\ BoundsOK' /\ DragOK' /\ PaintOK'
    BY <2>1 DEF ListInv, TopOK, BoundsOK, DragOK, PaintOK, Viewport
  <2>4. DrawnOK'
    BY <2>1 DEF ListInv, DrawnOK, Settled, Position, Fills, EdgeOf, AtEnd, ShowsFocused,
                          ContainsFocused
  <2>5. RestOK' /\ AutoOK' /\ RevealOK'
    BY <2>1, AskedStays
  <2> QED BY <2>2, <2>3, <2>4, <2>5 DEF ListInv
<1> QED BY <1>1, <1>2, <1>3, <1>4, <1>5, <1>6, <1>7, <1>8, <1>9, <1>10 DEF ListNext

\* which therefore always holds.
LEMMA AlwaysInv == ListSpec => []ListInv
<1>1. ListInit => ListInv
  BY InitInv
<1>2. ListInv /\ [ListNext]_lvars => ListInv'
  BY NextInv
<1> QED BY <1>1, <1>2, PTL DEF ListSpec

-----------------------------------------------------------------------------
(* Theorems.                                                               *)

\* What the invariant says of types, of heights, of the viewport and of the focus.
LEMMA TypesOf == ListInv => TypeOK
<1> SUFFICES ASSUME ListInv PROVE TypeOK
  OBVIOUS
<1>1. rows \in RowLists
  BY RowListsAre DEF ListInv, RowsOK
<1>2. /\ items \in Seq(Item) /\ Len(items) = Len(rows) /\ rows \in Seq(Rows)
      /\ \A i \in 1..Len(rows) : items[i].handle \in {NoRow, rows[i]}
  BY DEF ListInv, ItemsOK, GoodItems, RowsOK, GoodRows
<1>3. DOMAIN items = DOMAIN rows /\ DOMAIN items = 1..Len(rows)
  BY <1>2
<1>4. \A i \in DOMAIN items : items[i].handle \in {NoRow, rows[i]} /\ items[i].size \in Nat
  BY <1>2, <1>3, ItemSizes
<1>5. scrollTop = NoOffset \/ (scrollTop \in Offset /\ scrollTop.ix <= Len(items))
  BY <1>2 DEF ListInv, TopOK
<1> QED BY <1>1, <1>3, <1>4, <1>5 DEF ListInv, FlagsOK, TypeOK

\* A cached height is right.
LEMMA HeightsOf == ListInv => MeasuredRight
<1> SUFFICES ASSUME ListInv, sizing = "Auto", bounds # NotYet, NEW i \in DOMAIN items, items[i].measured
             PROVE  items[i].size = RowIn(i)
  BY DEF MeasuredRight
<1>1. i \in 1..Len(rows)
  BY DEF ListInv, ItemsOK, GoodItems
<1> QED BY <1>1 DEF ListInv, HeightsOK, HeightsRight, Real, RowIn

\* The lower edge of the rows in the viewport is that of the real heights.
LEMMA LastEdgeIs ==
  ASSUME ListInv, Settled
  PROVE  LastEdge = EdgeOf(rows, painted, bounds.width) /\ LastEdge \in Int
<1> DEFINE n == painted.visible
           ix == painted.top.ix
           width == bounds.width
           body(f) == [k \in 0..painted.visible |-> IF k = 0 THEN 0 ELSE f[k - 1] + RowIn(painted.top.ix + k)]
           heights == CHOOSE f : f = body(f)
           add == [k \in 1..n |-> Real(rows, ix + k, width)]
           sum(f) == [k \in 0..n |-> IF k = 0 THEN 0 ELSE f[k - 1] + add[k]]
<1>1. /\ n \in Nat /\ ix \in Nat /\ painted.top.offset \in Int /\ ix + n <= Len(rows)
      /\ width \in AllWidths /\ rows \in Seq(Rows) /\ Len(rows) \in Nat /\ PadTop \in Nat
  <2>1. n \in Nat /\ ix \in Nat /\ painted.top.offset \in Int /\ ix + n <= Len(rows)
    BY DEF ListInv, DrawnOK
  <2>2. bounds \in Viewport
    BY DEF ListInv, PaintOK, Settled
  <2>3. width \in AllWidths
    BY <2>2 DEF Viewport, AllWidths
  <2>4. rows \in Seq(Rows)
    BY DEF ListInv, RowsOK, GoodRows
  <2> HIDE DEF n, ix, width
  <2> QED BY <2>1, <2>3, <2>4, ListAssumption
<1>2. LastEdge = PadTop - painted.top.offset + heights[n]
  BY DEF LastEdge
<1> HIDE DEF heights
<1>3. ASSUME NEW k \in 1..n PROVE add[k] = RowIn(painted.top.ix + k)
  BY DEF Real, RowIn
<1>4. DOMAIN add = 1..n /\ add = [k \in 1..n |-> add[k]] /\ \A k \in 1..n : add[k] = Real(rows, ix + k, width)
  OBVIOUS
<1> HIDE DEF add
<1>5. \A f : body(f) = sum(f)
  <2> SUFFICES ASSUME NEW f PROVE body(f) = sum(f)
    OBVIOUS
  <2>1. ASSUME NEW k \in 0..n, k # 0
        PROVE  f[k - 1] + RowIn(painted.top.ix + k) = f[k - 1] + add[k]
    <3>1. k \in 1..n
      BY <1>1, <2>1
    <3> QED BY <1>3, <3>1
  <2> QED BY <2>1
<1> HIDE DEF body, sum
<1>6. /\ \A k \in 1..n : Real(rows, ix + k, width) \in Nat
      /\ \A k \in 1..n : RealTo(rows, width, ix + k) = RealTo(rows, width, ix + (k - 1)) + Real(rows, ix + k, width)
      /\ \A k \in 0..n : RealTo(rows, width, ix + k) \in Nat
  <2> HIDE DEF n, ix, width
  <2>1. ASSUME NEW k \in 1..n PROVE ix + k \in 1..Len(rows) /\ (ix + k) - 1 = ix + (k - 1)
    BY <1>1
  <2>2. ASSUME NEW k \in 0..n PROVE ix + k \in 0..Len(rows)
    BY <1>1
  <2>3. /\ \A i \in 1..Len(rows) : /\ Real(rows, i, width) \in Nat
                                   /\ RealTo(rows, width, i) = RealTo(rows, width, i - 1) + Real(rows, i, width)
        /\ \A i \in 0..Len(rows) : RealTo(rows, width, i) \in Nat
    BY <1>1, RealHeights
  <2>4. ASSUME NEW k \in 1..n
        PROVE  RealTo(rows, width, ix + k) = RealTo(rows, width, ix + (k - 1)) + Real(rows, ix + k, width)
    <3>1. RealTo(rows, width, ix + k) = RealTo(rows, width, (ix + k) - 1) + Real(rows, ix + k, width)
      BY <2>1, <2>3
    <3> QED BY <2>1, <3>1
  <2> QED BY <2>1, <2>2, <2>3, <2>4
<1> HIDE DEF n, ix, width
<1>7. add \in [1..n -> Int]
  BY <1>4, <1>6
<1>8. PICK f : Sum(f, n, 0, add)
  BY <1>1, <1>7, SumExists
<1>9. f = body(f)
  BY <1>5, <1>8 DEF Sum, sum
<1>10. heights = body(heights)
  BY <1>9 DEF heights
<1>11. Sum(heights, n, 0, add)
  BY <1>5, <1>10 DEF Sum, sum
<1>12. Sums(heights, n, 0, add)
  BY <1>1, <1>7, <1>11, SumIs
<1> DEFINE Q == {k \in 0..n : heights[k] = RealTo(rows, width, ix + k) - RealTo(rows, width, ix)}
<1>13. 0 \in Q
  <2>1. ix + 0 = ix /\ 0 \in 0..n /\ heights[0] = 0
    BY <1>1, <1>12 DEF Sums
  <2>2. RealTo(rows, width, ix + 0) \in Nat
    BY <1>6, <2>1
  <2>3. RealTo(rows, width, ix) \in Nat /\ RealTo(rows, width, ix + 0) = RealTo(rows, width, ix)
    BY <2>1, <2>2
  <2> QED BY <2>1, <2>3
<1>14. ASSUME NEW k \in 0..(n - 1), k \in Q PROVE k + 1 \in Q
  <2>1. k + 1 \in 1..n /\ (k + 1) - 1 = k /\ k \in 0..n /\ k + 1 \in 0..n /\ 0 \in 0..n /\ ix + 0 = ix
    BY <1>1
  <2>2. heights[k + 1] = heights[k] + Real(rows, ix + (k + 1), width)
    <3>1. heights[k + 1] = heights[(k + 1) - 1] + add[k + 1]
      BY <1>12, <2>1 DEF Sums
    <3> QED BY <1>4, <2>1, <3>1
  <2>3. RealTo(rows, width, ix + (k + 1)) = RealTo(rows, width, ix + k) + Real(rows, ix + (k + 1), width)
    <3>1. RealTo(rows, width, ix + (k + 1)) = RealTo(rows, width, ix + ((k + 1) - 1)) + Real(rows, ix + (k + 1), width)
      BY <1>6, <2>1
    <3> QED BY <2>1, <3>1
  <2>4. RealTo(rows, width, ix + k) \in Nat /\ Real(rows, ix + (k + 1), width) \in Nat
    BY <1>6, <2>1
  <2>5. RealTo(rows, width, ix) \in Nat
    <3>1. RealTo(rows, width, ix + 0) \in Nat
      BY <1>6, <2>1
    <3> QED BY <2>1, <3>1
  <2>6. heights[k] = RealTo(rows, width, ix + k) - RealTo(rows, width, ix)
    BY <1>14
  <2>7. heights[k + 1] = RealTo(rows, width, ix + (k + 1)) - RealTo(rows, width, ix)
    BY <2>2, <2>3, <2>4, <2>5, <2>6
  <2> QED BY <2>1, <2>7
<1>15. 0..n \subseteq Q
  <2> HIDE DEF Q
  <2> QED BY <1>1, <1>13, <1>14, UpTo
<1>16. heights[n] = RealTo(rows, width, ix + n) - RealTo(rows, width, ix)
  BY <1>1, <1>15
<1>17. RealTo(rows, width, ix + n) \in Nat /\ RealTo(rows, width, ix) \in Nat
  <2>1. n \in 0..n /\ 0 \in 0..n /\ ix + 0 = ix
    BY <1>1
  <2>2. RealTo(rows, width, ix + n) \in Nat /\ RealTo(rows, width, ix + 0) \in Nat
    BY <1>6, <2>1
  <2> QED BY <2>1, <2>2
<1>18. EdgeOf(rows, painted, width) = PadTop - painted.top.offset + RealTo(rows, width, ix + n) - RealTo(rows, width, ix)
  BY DEF EdgeOf, ix, n
<1>19. LastEdge = EdgeOf(rows, painted, width) /\ LastEdge \in Int
  BY <1>1, <1>2, <1>16, <1>17, <1>18
<1> QED BY <1>19 DEF width

\* The viewport is filled.
LEMMA FilledOf == ListInv => ViewportFilled
<1> SUFFICES ASSUME ListInv PROVE NoGap /\ PinnedToEnd
  BY DEF ViewportFilled
<1>1. NoGap
  <2> SUFFICES ASSUME Settled
               PROVE  /\ painted.top.ix + painted.visible = Len(rows) \/ LastEdge >= bounds.height
                      /\ painted.top.ix = 0 \/ LastEdge + PadBottom >= bounds.height
    BY DEF NoGap
  <2>1. Fills(rows, painted, bounds.width, bounds.height)
    BY DEF ListInv, DrawnOK
  <2> QED BY <2>1, LastEdgeIs DEF Fills
<1>2. PinnedToEnd
  <2> SUFFICES ASSUME Settled, alignment = "Bottom", scrollTop = NoOffset, bounds.height >= PadTop + PadBottom
               PROVE  /\ painted.top.ix + painted.visible = Len(rows)
                      /\ LastEdge + PadBottom = bounds.height
    BY DEF PinnedToEnd
  <2>1. AtEnd(rows, painted, bounds.width, bounds.height)
    BY DEF ListInv, DrawnOK
  <2> QED BY <2>1, LastEdgeIs DEF AtEnd
<1> QED BY <1>1, <1>2

\* The focused row is rendered.
LEMMA FocusedOf == ListInv => FocusedShown
<1> SUFFICES ASSUME ListInv, Settled, bounds.height > PadTop + PadBottom,
                    NEW i \in DOMAIN items, items[i].handle # NoRow, items[i].handle = focusedRow
             PROVE  \E k \in DOMAIN painted.shown : painted.shown[k] = i - 1
  BY DEF FocusedShown
<1>1. i \in 1..Len(rows)
  BY DEF ListInv, ItemsOK, GoodItems
<1> QED BY <1>1 DEF ListInv, DrawnOK, ShowsFocused, ContainsFocused

\* What a frame was asked for is in view, and a row to be revealed from then on.
LEMMA BroughtOf == ListInv => BroughtIntoView
<1> SUFFICES ASSUME ListInv PROVE BroughtIntoView
  OBVIOUS
<1>1. \A k : TopEdge(painted, k) = PlacedAt(rows, painted.shown, painted.top.offset, bounds.width, k)
  BY DEF TopEdge, DrawnAt, PlacedAt
<1>2. AutoscrollShown
  <2> SUFFICES ASSUME sizing = "Auto", Settled, painted.auto # NotYet,
                      painted.auto.bottom - painted.auto.top <= bounds.height - PadTop - PadBottom
               PROVE  \E k \in DOMAIN painted.shown :
                        /\ rows[painted.shown[k] + 1] = painted.auto.row
                        /\ TopEdge(painted, k) + painted.auto.top >= 0
                        /\ TopEdge(painted, k) + painted.auto.bottom <= bounds.height
    BY DEF AutoscrollShown, AutoscrollServed
  <2> DEFINE part == <<painted.auto.top, painted.auto.bottom>>
  <2>1. part[1] = painted.auto.top /\ part[2] = painted.auto.bottom
    OBVIOUS
  <2>2. PICK i \in 0..(Len(rows) - 1) :
          rows[i + 1] = painted.auto.row /\ Sees(rows, painted, i, part, bounds.width, bounds.height)
    BY DEF ListInv, AutoOK, ShowsPart
  <2> HIDE DEF part
  <2> QED BY <1>1, <2>1, <2>2 DEF Sees
<1>3. RevealedShown
  <2> SUFFICES ASSUME Settled, painted.revealed # NoRow
               PROVE  \E k \in DOMAIN painted.shown :
                        /\ rows[painted.shown[k] + 1] = painted.revealed
                        /\ TopEdge(painted, k) >= 0 /\ BottomEdge(painted, k) <= bounds.height
    BY DEF RevealedShown
  <2>1. PICK i \in 0..(Len(rows) - 1) : Awaited(i)
    BY DEF ListInv, RevealOK, Settled
  <2> DEFINE real == Real(rows, i + 1, bounds.width)
             part == <<0, real>>
  <2>2. rows[i + 1] = painted.revealed /\ Sees(rows, painted, i, part, bounds.width, bounds.height)
    BY <2>1 DEF Awaited, Settled
  <2>3. part[1] = 0 /\ part[2] = real
    OBVIOUS
  <2> HIDE DEF part
  <2>4. PICK k \in DOMAIN painted.shown :
          painted.shown[k] = i /\ TopEdge(painted, k) + 0 >= 0 /\ TopEdge(painted, k) + real <= bounds.height
    BY <1>1, <2>2, <2>3 DEF Sees
  <2>5. TopEdge(painted, k) \in Int
    <3>1. /\ rows \in Seq(Rows) /\ painted.top \in Position /\ painted.shown \in Seq(0..(Len(rows) - 1))
          /\ bounds.width \in AllWidths
      BY DEF ListInv, RowsOK, GoodRows, DrawnOK, Settled, PaintOK, Viewport, AllWidths
    <3> QED BY <1>1, <3>1, PlacedAtIs
  <2>6. BottomEdge(painted, k) = TopEdge(painted, k) + real
    BY <2>4 DEF BottomEdge, RowIn, Real
  <2> HIDE DEF real
  <2> QED BY <2>2, <2>4, <2>5, <2>6
<1> QED BY <1>2, <1>3, FocusedOf DEF BroughtIntoView

\* The rows that show from a place on, and where.
Window(rs, top, width, height) ==
  {<<i, RowAt(rs, top, i, width)>> :
     i \in {j \in 0..(Len(rs) - 1) : RowAt(rs, top, j + 1, width) > PadTop /\ RowAt(rs, top, j, width) < height}}

\* What shows of a layout is what shows from its place on.
LEMMA InViewIs ==
  ASSUME rows \in Seq(Rows), bounds \in Viewport, NEW layout,
         layout.top \in Position, layout.visible \in Nat, layout.shown \in Seq(0..(Len(rows) - 1)),
         layout.top.ix + layout.visible <= Len(rows),
         InOrder(layout), Fills(rows, layout, bounds.width, bounds.height),
         layout.top.ix = 0 \/ layout.top.offset >= 0
  PROVE  InView(layout) = Window(rows, layout.top, bounds.width, bounds.height)
<1> DEFINE n == Len(rows)
           ix == layout.top.ix
           seen == layout.visible
           shown == layout.shown
           A(i) == RowAt(rows, layout.top, i, bounds.width)
           shows == {j \in DOMAIN shown : j <= seen /\ RowIsSeen(layout, j)}
           there == {i \in 0..(n - 1) : A(i + 1) > PadTop /\ A(i) < bounds.height}
<1>1. /\ n \in Nat /\ ix \in 0..n /\ seen \in Nat /\ ix + seen <= n /\ layout.top.offset \in Int
      /\ PadTop \in Nat /\ bounds.height \in Nat /\ bounds.width \in AllWidths
  <2>1. n \in Nat /\ ix \in 0..n /\ layout.top.offset \in Int
    BY DEF Position
  <2>2. bounds.height \in Heights /\ bounds.width \in Widths
    BY DEF Viewport
  <2>3. bounds.height \in Nat /\ bounds.width \in AllWidths /\ PadTop \in Nat
    BY <2>2, ListAssumption DEF AllWidths
  <2> QED BY <2>1, <2>3
<1>2. /\ \A i \in 0..n : A(i) \in Int
      /\ \A i, j \in 0..n : i <= j => A(i) <= A(j)
      /\ \A i \in 0..(n - 1) : A(i + 1) = A(i) + Real(rows, i + 1, bounds.width)
      /\ A(ix) = PadTop - layout.top.offset
  BY <1>1, RowsAt
<1>3. /\ Len(shown) \in Nat /\ seen <= Len(shown) /\ DOMAIN shown = 1..Len(shown)
      /\ \A k \in 1..seen : shown[k] = ix + k - 1
  BY DEF InOrder
<1>4. ix + seen = n \/ A(ix + seen) >= bounds.height
  <2>1. EdgeOf(rows, layout, bounds.width) = A(ix + seen)
    BY DEF EdgeOf, RowAt
  <2> QED BY <2>1 DEF Fills
<1>5. ASSUME NEW k \in 1..seen
      PROVE  /\ k \in DOMAIN shown /\ ix + k - 1 \in 0..(n - 1)
             /\ TopEdge(layout, k) = A(ix + k - 1) /\ BottomEdge(layout, k) = A((ix + k - 1) + 1)
  <2>1. k \in DOMAIN shown /\ ix + k - 1 \in 0..(n - 1) /\ (ix + k - 1) + 1 \in 0..n
    <3> HIDE DEF n, ix, seen, shown
    <3> QED BY <1>1, <1>3
  <2>2. \A j \in 1..k : shown[j] = ix + j - 1
    <3>1. 1..k \subseteq 1..seen
      BY <1>1
    <3> QED BY <1>3, <3>1
  <2>3. TopEdge(layout, k) = PlacedAt(rows, shown, layout.top.offset, bounds.width, k)
    BY DEF TopEdge, DrawnAt, PlacedAt
  <2>4. TopEdge(layout, k) = A(ix + k - 1)
    BY <1>1, <2>1, <2>2, <2>3, PlacedAtIs
  <2>5. BottomEdge(layout, k) = A(ix + k - 1) + Real(rows, (ix + k - 1) + 1, bounds.width)
    BY <1>3, <2>4 DEF BottomEdge, RowIn, Real
  <2> HIDE DEF A, ix, n, seen, shown
  <2> QED BY <1>2, <2>1, <2>4, <2>5
<1>6. InView(layout) = {<<shown[k], TopEdge(layout, k)>> : k \in shows}
  BY DEF InView
<1>7. Window(rows, layout.top, bounds.width, bounds.height) = {<<i, A(i)>> : i \in there}
  BY DEF Window
<1>8. ASSUME NEW k \in shows
      PROVE  ix + k - 1 \in there /\ shown[k] = ix + k - 1 /\ TopEdge(layout, k) = A(ix + k - 1)
  <2>1. k \in 1..seen
    <3>1. k \in 1..Len(shown) /\ k <= seen
      BY <1>3
    <3> QED BY <1>1, <1>3, <3>1
  <2>2. A((ix + k - 1) + 1) > PadTop /\ A(ix + k - 1) < bounds.height
    BY <1>5, <2>1 DEF RowIsSeen
  <2> QED BY <1>3, <1>5, <2>1, <2>2
<1>9. ASSUME NEW i \in there
      PROVE  i - ix + 1 \in shows /\ ix + (i - ix + 1) - 1 = i
  <2> DEFINE k == i - ix + 1
  <2>1. i \in 0..(n - 1) /\ A(i + 1) > PadTop /\ A(i) < bounds.height
    OBVIOUS
  <2> HIDE DEF n, ix, seen, shown, A, there, k
  <2>2. ix <= i
    <3> SUFFICES ASSUME ~(ix <= i) PROVE FALSE
      OBVIOUS
    <3>1. i + 1 <= ix /\ i + 1 \in 0..n /\ ix # 0
      BY <1>1, <2>1
    <3>2. A(i + 1) <= A(ix) /\ A(i + 1) \in Int /\ A(ix) \in Int
      BY <1>1, <1>2, <3>1
    <3>3. layout.top.offset >= 0
      BY <3>1 DEF ix
    <3> QED BY <1>1, <1>2, <2>1, <3>2, <3>3, SMTT(60)
  <2>3. i < ix + seen
    <3> SUFFICES ASSUME ~(i < ix + seen) PROVE FALSE
      OBVIOUS
    <3>1. ix + seen <= i /\ i \in 0..n /\ ix + seen \in 0..n /\ ix + seen # n
      BY <1>1, <2>1
    <3>2. A(ix + seen) <= A(i) /\ A(ix + seen) \in Int /\ A(i) \in Int
      BY <1>2, <3>1
    <3> QED BY <1>1, <1>4, <2>1, <3>1, <3>2, SMTT(30)
  <2>4. k \in 1..seen /\ ix + k - 1 = i
    BY <1>1, <2>1, <2>2, <2>3 DEF k
  <2>5. RowIsSeen(layout, k)
    BY <1>5, <2>1, <2>4 DEF RowIsSeen
  <2> QED BY <1>5, <2>4, <2>5 DEF k
<1>10. {<<shown[k], TopEdge(layout, k)>> : k \in shows} \subseteq {<<i, A(i)>> : i \in there}
  <2> HIDE DEF shows, there, A, shown, ix
  <2> QED BY <1>8
<1>11. {<<i, A(i)>> : i \in there} \subseteq {<<shown[k], TopEdge(layout, k)>> : k \in shows}
  <2> SUFFICES ASSUME NEW i \in there
               PROVE  \E k \in shows : <<i, A(i)>> = <<shown[k], TopEdge(layout, k)>>
    OBVIOUS
  <2> DEFINE k == i - ix + 1
  <2>1. k \in shows /\ ix + k - 1 = i
    BY <1>9
  <2> HIDE DEF shows, there, A, shown, ix, k
  <2>2. shown[k] = i /\ TopEdge(layout, k) = A(i)
    BY <1>8, <2>1
  <2> QED BY <2>1, <2>2
<1> QED BY <1>6, <1>7, <1>10, <1>11

\* The next frame shows what this one does.
LEMMA SettlesOf == ListInv => DrawSettles
<1> SUFFICES ASSUME ListInv, Settled, sizing = "Auto"
             PROVE  InView(Prepaint(items, scrollTop, bounds.width, bounds.height, NotYet)) = InView(painted)
  BY DEF DrawSettles
<1> DEFINE width == bounds.width
           height == bounds.height
           its == ToLayOut(ForWidth(items, width), width)
           layout == LayoutItems(its, scrollTop, width, height)
           made == Rendered(layout, width, height, NotYet)
<1>1. /\ GoodRows(rows) /\ rows \in Seq(Rows) /\ GoodItems(rows, items) /\ Len(rows) \in Nat
      /\ bounds \in Viewport /\ width \in Widths /\ width \in AllWidths /\ height \in Nat
  <2>1. GoodRows(rows) /\ GoodItems(rows, items) /\ bounds \in Viewport
    BY DEF ListInv, RowsOK, ItemsOK, PaintOK, Settled
  <2>2. bounds.height \in Heights /\ bounds.width \in Widths
    BY <2>1 DEF Viewport
  <2>3. bounds.height \in Nat /\ bounds.width \in AllWidths
    BY <2>2, ListAssumption DEF AllWidths
  <2> QED BY <2>1, <2>2, <2>3 DEF GoodRows
<1>2. (scrollTop = NoOffset \/ scrollTop \in Position) /\ Forth(scrollTop)
  <2>1. CASE scrollTop # NoOffset
    <3>1. scrollTop \in Offset /\ scrollTop.ix <= Len(rows) /\ scrollTop.offset >= 0
      BY <2>1 DEF ListInv, TopOK
    <3>2. Cardinality(Rows) \in Nat /\ MaxOffset \in Nat
      BY ListAssumption, FS_CardinalityType
    <3> QED BY <1>1, <3>1, <3>2 DEF Offset, Position, Forth
  <2>2. CASE scrollTop = NoOffset
    BY <2>2 DEF Forth
  <2> QED BY <2>1, <2>2
<1>3. Prepaint(items, scrollTop, width, height, NotYet) = made
  <2>1. Sized(items, scrollTop) = [items |-> items, scroll |-> scrollTop]
    BY DEF Sized
  <2>2. Sized(items, scrollTop).items = items /\ Sized(items, scrollTop).scroll = scrollTop
    BY <2>1
  <2> HIDE DEF its
  <2>3. LaidOut(Sized(items, scrollTop), width, height) = layout
    BY <2>2 DEF LaidOut, its
  <2> QED BY <2>3 DEF Prepaint
<1> HIDE DEF width, height
<1>4. GoodItems(rows, its)
  <2>1. GoodItems(rows, ForWidth(items, width))
    BY <1>1, ForWidthKeeps DEF Carried
  <2> QED BY <1>1, <2>1, ToLayOutKeeps DEF Carried
<1> HIDE DEF its
<1>5. /\ OnlyRoomy(painted, height) /\ AtRest(painted, items, scrollTop, width, height)
      /\ painted.top \in Position /\ painted.shown \in Seq(0..(Len(rows) - 1)) /\ painted.visible \in Nat
      /\ painted.top.ix + painted.visible <= Len(rows) /\ Fills(rows, painted, width, height)
      /\ alignment # "Top" /\ scrollTop = NoOffset /\ height >= PadTop + PadBottom =>
           AtEnd(rows, painted, width, height)
  BY DEF ListInv, RestOK, DrawnOK, width, height
<1>6. AtRest(painted, its, scrollTop, width, height)
  <2>1. Len(its) = Len(items)
    BY <1>1, <1>4 DEF GoodItems
  <2>2. LogicalTop(its, scrollTop) = LogicalTop(items, scrollTop)
    BY <2>1 DEF LogicalTop
  <2> QED BY <1>5, <2>2 DEF AtRest
<1>7. /\ IsFrame(layout, its, width, height)
      /\ InOrder(layout) /\ AtRest(layout, layout.items, layout.scroll, width, height)
  BY <1>1, <1>2, <1>4, LayoutIsFrame, LayoutRests
<1>8. height > PadTop + PadBottom =>
        \A i \in 0..Len(rows) : RowAt(rows, layout.top, i, width) = RowAt(rows, painted.top, i, width)
  <2> SUFFICES ASSUME height > PadTop + PadBottom
               PROVE  \A i \in 0..Len(rows) :
                        RowAt(rows, layout.top, i, width) = RowAt(rows, painted.top, i, width)
    OBVIOUS
  <2>1. height >= PadTop + PadBottom
    BY <1>1, ListAssumption
  <2> HIDE DEF layout
  <2>2. \A i \in 0..Len(rows) :
          RowAt(rows, LayoutItems(its, scrollTop, width, height).top, i, width) = RowAt(rows, painted.top, i, width)
    BY <1>1, <1>2, <1>4, <1>5, <1>6, <2>1, LaidOutAgain
  <2> QED BY <2>2 DEF layout
<1> HIDE DEF layout
<1>9. /\ OnlyRoomy(made, height) /\ AtRest(made, made.items, made.scroll, width, height)
      /\ made.top = layout.top /\ IsFrame(made, its, width, height)
  <2>1. NotYet \in Requests \cup {NotYet}
    OBVIOUS
  <2> QED BY <1>1, <1>4, <1>7, <2>1, RenderedRests, RenderedIsFrame
<1> HIDE DEF made
<1>10. CASE height > PadTop + PadBottom
  <2>1. InOrder(painted) /\ InOrder(made)
    BY <1>5, <1>9, <1>10 DEF OnlyRoomy
  <2>2. InView(painted) = Window(rows, painted.top, width, height)
    BY <1>1, <1>5, <2>1, InViewIs DEF AtRest, width, height
  <2>3. InView(made) = Window(rows, made.top, width, height)
    <3>1. /\ Places(made) /\ Fills(rows, made, width, height)
          /\ made.top.ix = 0 \/ made.top.offset >= 0
      BY <1>9 DEF IsFrame, AtRest
    <3> QED BY <1>1, <2>1, <3>1, InViewIs DEF Places, width, height
  <2>4. Window(rows, made.top, width, height) = Window(rows, painted.top, width, height)
    <3>1. ASSUME NEW i \in 0..(Len(rows) - 1)
          PROVE  /\ RowAt(rows, made.top, i, width) = RowAt(rows, painted.top, i, width)
                 /\ RowAt(rows, made.top, i + 1, width) = RowAt(rows, painted.top, i + 1, width)
      <4>1. i \in 0..Len(rows) /\ i + 1 \in 0..Len(rows)
        BY <1>1
      <4> QED BY <1>8, <1>9, <1>10, <4>1
    <3> QED BY <3>1 DEF Window
  <2> QED BY <1>3, <2>2, <2>3, <2>4 DEF width, height
<1>11. CASE ~(height > PadTop + PadBottom)
  <2>1. painted.shown = <<>> /\ made.shown = <<>>
    BY <1>5, <1>9, <1>11 DEF OnlyRoomy
  <2>2. InView(painted) = {} /\ InView(made) = {}
    BY <2>1 DEF InView
  <2> QED BY <1>3, <2>2 DEF width, height
<1> QED BY <1>10, <1>11

\* An item for each row, with the height the row has in the width of the last frame or with
\* none: what splice, reset, layout_items and prepaint do to the sum tree of items.
THEOREM HeightsAreKnown == ListSpec => []HeightsKnown
<1>1. ListInv => HeightsKnown
  BY TypesOf, HeightsOf DEF HeightsKnown
<1> QED BY <1>1, AlwaysInv, PTL

\* layout_items leaves no gap below the rows, nor above the end of a list that is pinned to it.
THEOREM ViewportIsFilled == ListSpec => []ViewportFilled
<1>1. ListInv => ViewportFilled
  BY FilledOf
<1> QED BY <1>1, AlwaysInv, PTL

\* What is asked to be in view is there: the part of a row that a frame was asked to scroll to
\* (prepaint_items), a row that scroll_to_reveal_item was called for, and the focused row.
THEOREM BroughtIntoViewAll == ListSpec => []BroughtIntoView
<1>1. ListInv => BroughtIntoView
  BY BroughtOf
<1> QED BY <1>1, AlwaysInv, PTL

\* A frame in which nothing changed shows the rows that the frame before showed, at the same
\* places: layout_items finds the scroll position at which it left the list.
THEOREM DrawsSettle == ListSpec => []DrawSettles
<1>1. ListInv => DrawSettles
  BY SettlesOf
<1> QED BY <1>1, AlwaysInv, PTL

\* A splice keeps the row that the list was scrolled to at the scroll top (splice_focusable).
THEOREM SpliceKeepsTopRow == ListSpec => SpliceKeepsTop
<1> DEFINE Kept ==
      rows' # rows /\ scrollTop # NoOffset /\ scrollTop' # NoOffset =>
        \A i \in DOMAIN rows, j \in DOMAIN rows' :
          scrollTop.ix = i - 1 /\ rows'[j] = rows[i] =>
            scrollTop' = [ix |-> j - 1, offset |-> scrollTop.offset]
<1>1. ASSUME ListInv, [ListNext]_lvars PROVE Kept
  <2> SUFFICES ASSUME rows' # rows, scrollTop # NoOffset, scrollTop' # NoOffset,
                      NEW i \in DOMAIN rows, NEW j \in DOMAIN rows',
                      scrollTop.ix = i - 1, rows'[j] = rows[i]
               PROVE  scrollTop' = [ix |-> j - 1, offset |-> scrollTop.offset]
    OBVIOUS
  <2>1. PICK from \in 0..Len(rows), to \in 0..Len(rows), new \in Fresh : Splice(from, to, new)
    <3>1. ~\E new \in RowLists : Reset(new)
      BY DEF Reset
    <3> QED BY <1>1, <3>1 DEF ListNext, lvars, ScrollBy, Wheel, ScrollTo, Reveal, DragStarted, DragEnded,
                              DragTo, FocusRow, Draw
  <2> DEFINE m == Len(new)
             gone == to - from
             n == Len(rows)
  <2>2. /\ m \in Nat /\ n \in Nat /\ from \in Nat /\ to \in Nat /\ from <= to /\ to <= n /\ gone = to - from
        /\ rows' \in Seq(Rows) /\ Ordered(rows') /\ Len(rows') = n - gone + m
        /\ rows \in Seq(Rows) /\ Ordered(rows)
    BY <1>1, <2>1, SplicedRows DEF ListInv, RowsOK, GoodRows
  <2>3. i \in 1..n /\ j \in 1..Len(rows')
    BY <2>2
  <2>4. \/ j <= from /\ rows'[j] = rows[j]
        \/ j > from /\ j <= from + m /\ rows'[j] = new[j - from] /\ j - from \in 1..m
        \/ /\ j > from + m /\ rows'[j] = rows[j - m + gone]
           /\ j - m + gone \in (to + 1)..n
    <3>1. \/ j <= from /\ rows'[j] = rows[j] /\ items'[j] = items[j]
          \/ /\ j > from /\ j <= from + m /\ rows'[j] = new[j - from]
             /\ items'[j] = Unmeasured(HandleOf(new[j - from])) /\ j - from \in 1..m
          \/ /\ j > from + m /\ rows'[j] = rows[j - m + gone] /\ items'[j] = items[j - m + gone]
             /\ j - m + gone \in (to + 1)..n
      BY <1>1, <2>1, <2>3, SplicedRows
    <3> HIDE DEF m, gone, n
    <3> QED BY <3>1
  <2>5. \A k \in 1..m : new[k] # rows[i]
    <3>1. Range(new) \cap Range(rows) = {} /\ new \in Seq(Rows)
      BY RowListsAre DEF Fresh, GoodRows
    <3>2. \A k \in 1..m : new[k] \in Range(new)
      BY <3>1 DEF Range
    <3>3. rows[i] \in Range(rows)
      BY DEF Range
    <3> QED BY <3>1, <3>2, <3>3
  <2>6. scrollTop' = Spliced(scrollTop, from, to, m)
    BY <2>1 DEF Splice
  <2>7. \A a, b \in 1..n : rows[a] = rows[b] => a = b
    BY <2>2, NotTooMany DEF GoodRows
  <2>8. scrollTop \in Offset
    BY <1>1 DEF ListInv, TopOK
  <2> HIDE DEF m, gone, n
  <2>9. CASE j <= from /\ rows'[j] = rows[j]
    <3>1. j = i
      <4>1. j \in 1..n
        BY <2>2, <2>3, <2>9
      <4> QED BY <2>3, <2>7, <2>9, <4>1
    <3>2. ~(scrollTop.ix \in from..(to - 1)) /\ ~(to <= scrollTop.ix)
      BY <2>2, <2>3, <2>9, <3>1
    <3>3. scrollTop' = scrollTop
      BY <2>6, <3>2 DEF Spliced
    <3> QED BY <2>8, <3>1, <3>3 DEF Offset
  <2>10. CASE j > from /\ j <= from + m /\ rows'[j] = new[j - from] /\ j - from \in 1..m
    BY <2>5, <2>10
  <2>11. CASE j > from + m /\ rows'[j] = rows[j - m + gone] /\ j - m + gone \in (to + 1)..n
    <3>1. j - m + gone = i /\ i \in (to + 1)..n
      <4>1. j - m + gone \in 1..n
        BY <2>2, <2>11
      <4>2. rows[j - m + gone] = rows[i]
        BY <2>11
      <4>3. j - m + gone = i
        BY <2>3, <2>7, <4>1, <4>2
      <4> QED BY <2>11, <4>3
    <3>2. ~(scrollTop.ix \in from..(to - 1)) /\ to <= scrollTop.ix /\ scrollTop.ix - gone + m = j - 1
      <4>1. to <= i - 1 /\ ~(i - 1 \in from..(to - 1)) /\ (i - 1) - gone + m = j - 1
        <5>1. i \in Int /\ j \in Int /\ m \in Int /\ gone \in Int /\ to \in Int /\ i >= to + 1
          BY <2>2, <2>3, <3>1
        <5>2. (i - 1) - gone + m = j - 1
          BY <3>1, <5>1, SMTT(30)
        <5>3. to <= i - 1
          BY <5>1
        <5>4. ~(i - 1 \in from..(to - 1))
          BY <2>2, <5>1
        <5> QED BY <5>2, <5>3, <5>4
      <4> QED BY <4>1
    <3>3. scrollTop' = [scrollTop EXCEPT !.ix = scrollTop.ix - gone + m]
      BY <2>6, <3>2 DEF Spliced, gone
    <3>4. scrollTop' = [scrollTop EXCEPT !.ix = j - 1]
      BY <3>2, <3>3
    <3> QED BY <2>8, <3>4 DEF Offset
  <2> QED BY <2>4, <2>9, <2>10, <2>11
<1> QED BY <1>1, AlwaysInv, PTL DEF ListSpec, SpliceKeepsTop

------------------------------------------------------------------------------
(* Handles of the focus.                                                       *)

Ids(hist) == {hist[k].id : k \in NodesOf(hist)}

\* A window whose focus was disabled has none.
DisabledHasNone == focus # NoFocus => enabled

FocusInv == FocusTypeOK /\ HandlesAreCounted /\ FocusExists /\ DisabledHasNone

------------------------------------------------------------------------------
(* What histories hold.                                                        *)

LEMMA InHistoryIds ==
  ASSUME NEW hist, NEW h
  PROVE  InHistory(hist, h) = IF h \in Ids(hist) THEN 1 ELSE 0
<1>1. NodesOfId(hist, h) = {} <=> h \notin Ids(hist)
  BY DEF NodesOfId, Ids
<1> QED BY <1>1 DEF InHistory

LEMMA EmptyIds == Ids(<<>>) = {}
BY DEF Ids, NodesOf

LEMMA AppendIds ==
  ASSUME NEW hist \in Seq(Ops), NEW o \in Ops
  PROVE  Ids(Append(hist, o)) = Ids(hist) \cup (IF o.op = "insert" THEN {o.id} ELSE {})
<1> DEFINE s == Append(hist, o)
<1>1. /\ Len(s) = Len(hist) + 1 /\ s[Len(hist) + 1] = o
      /\ \A k \in 1..Len(hist) : s[k] = hist[k]
      /\ s \in Seq(Ops)
  BY AppendProperties
<1>2. DOMAIN s = 1..(Len(hist) + 1) /\ DOMAIN hist = 1..Len(hist) /\ Len(hist) \in Nat
  BY <1>1
<1> HIDE DEF s
<1>3. NodesOf(s) = NodesOf(hist) \cup (IF o.op = "insert" THEN {Len(hist) + 1} ELSE {})
  BY <1>1, <1>2 DEF NodesOf
<1>4. \A k \in NodesOf(hist) : s[k].id = hist[k].id
  BY <1>1, <1>2 DEF NodesOf
<1>5. Ids(s) = Ids(hist) \cup (IF o.op = "insert" THEN {o.id} ELSE {})
  BY <1>1, <1>3, <1>4, Zenon DEF Ids
<1> QED BY <1>5 DEF s

LEMMA ConcatIds ==
  ASSUME NEW s \in Seq(Ops), NEW t \in Seq(Ops)
  PROVE  Ids(s \o t) = Ids(s) \cup Ids(t)
<1> DEFINE u == s \o t
<1>1. /\ u \in Seq(Ops) /\ Len(u) = Len(s) + Len(t)
      /\ \A k \in 1..Len(s) : u[k] = s[k]
      /\ \A k \in 1..Len(t) : u[Len(s) + k] = t[k]
  BY ConcatProperties
<1>2. /\ DOMAIN u = 1..(Len(s) + Len(t)) /\ DOMAIN s = 1..Len(s) /\ DOMAIN t = 1..Len(t)
      /\ Len(s) \in Nat /\ Len(t) \in Nat
  BY <1>1
<1> HIDE DEF u
<1>3. ASSUME NEW x \in Ids(u) PROVE x \in Ids(s) \cup Ids(t)
  <2>1. PICK k \in NodesOf(u) : x = u[k].id
    BY <1>3 DEF Ids
  <2>2. CASE k \in 1..Len(s)
    BY <2>1, <2>2, <1>1, <1>2 DEF Ids, NodesOf
  <2>3. CASE k \notin 1..Len(s)
    <3>1. k - Len(s) \in 1..Len(t) /\ u[Len(s) + (k - Len(s))] = t[k - Len(s)]
      BY <2>1, <2>3, <1>1, <1>2 DEF NodesOf
    <3>2. Len(s) + (k - Len(s)) = k
      BY <2>1, <1>2 DEF NodesOf
    <3> QED BY <2>1, <3>1, <3>2, <1>2 DEF Ids, NodesOf
  <2> QED BY <2>2, <2>3
<1>4. Ids(s) \subseteq Ids(u)
  BY <1>1, <1>2 DEF Ids, NodesOf
<1>5. ASSUME NEW k \in NodesOf(t) PROVE t[k].id \in Ids(u)
  <2>1. k \in 1..Len(t) /\ t[k].op = "insert"
    BY <1>2, <1>5 DEF NodesOf
  <2>2. Len(s) + k \in DOMAIN u /\ u[Len(s) + k] = t[k]
    BY <2>1, <1>1, <1>2
  <2> QED BY <2>1, <2>2 DEF Ids, NodesOf
<1>6. Ids(t) \subseteq Ids(u)
  BY <1>5 DEF Ids
<1> QED BY <1>3, <1>4, <1>6 DEF u

LEMMA SubSeqIds ==
  ASSUME NEW s \in Seq(Ops), NEW a \in DOMAIN s, NEW b \in DOMAIN s
  PROVE  SubSeq(s, a, b) \in Seq(Ops) /\ Ids(SubSeq(s, a, b)) \subseteq Ids(s)
<1> DEFINE t == SubSeq(s, a, b)
<1>1. a \in 1..Len(s) /\ b \in 1..Len(s) /\ Len(s) \in Nat
  OBVIOUS
<1>2. t \in Seq(Ops)
  BY <1>1, SubSeqProperties
<1>3. \A k \in DOMAIN t : a + k - 1 \in DOMAIN s /\ t[k] = s[a + k - 1]
  BY <1>1, SubSeqProperties, SMTT(30)
<1> HIDE DEF t
<1>4. Ids(t) \subseteq Ids(s)
  BY <1>3 DEF Ids, NodesOf
<1> QED BY <1>2, <1>4 DEF t

------------------------------------------------------------------------------
(* The invariant.                                                              *)

\* An entry counts the handles of the histories by what their inserts name.
Total(h) == held[h] + (IF h \in Ids(rendered) THEN 1 ELSE 0) + (IF h \in Ids(next) THEN 1 ELSE 0)

LEMMA CountedByIds ==
  HandlesAreCounted <=>
    \A h \in Handles : IF h \in DOMAIN refs THEN refs[h].count = Total(h) ELSE Total(h) = 0
BY InHistoryIds, Zenon DEF HandlesAreCounted, Total

LEMMA CountedByIdsNext ==
  HandlesAreCounted' <=>
    \A h \in Handles : IF h \in DOMAIN refs' THEN refs'[h].count = Total(h)' ELSE Total(h)' = 0
BY InHistoryIds, Zenon DEF HandlesAreCounted, Total

\* Whatever has a handle has its entry.
LEMMA HandlesExist ==
  ASSUME FocusInv, NEW h \in Handles, held[h] > 0 \/ h \in Ids(rendered) \/ h \in Ids(next)
  PROVE  h \in DOMAIN refs /\ refs[h].count > 0 /\ refs[h].count \in Nat
<1>1. held[h] \in Nat /\ (h \in DOMAIN refs => refs[h].count \in Nat)
  BY DEF FocusInv, FocusTypeOK
<1>2. Total(h) > 0
  BY <1>1 DEF Total
<1> QED BY <1>1, <1>2, CountedByIds DEF FocusInv

LEMMA FocusInitInv == ASSUME FocusAssumption PROVE FocusInit => FocusInv
<1> SUFFICES ASSUME FocusInit PROVE FocusInv
  OBVIOUS
<1>1. FocusTypeOK
  <2>1. DOMAIN refs = {} /\ refs = [h \in DOMAIN refs |-> refs[h]] /\ created = {}
    BY DEF FocusInit
  <2>2. /\ <<>> \in Seq(Ops) /\ held \in [Handles -> Nat]
        /\ carried \in [Handles -> SUBSET TabType] /\ retabs \in Nat
    BY DEF FocusInit
  <2>3. /\ focus = NoFocus /\ enabled = TRUE /\ drawing = FALSE /\ rendered = <<>> /\ next = <<>>
    BY DEF FocusInit
  <2> QED BY <2>1, <2>2, <2>3 DEF FocusTypeOK
<1>2. HandlesAreCounted
  BY CountedByIds, EmptyIds DEF FocusInit, Total
<1> QED BY <1>1, <1>2 DEF FocusInit, FocusInv, FocusExists, DisabledHasNone

\* What the handles of an entry carry is a place in the tab order, when one goes as well.
LEMMA CarriedTabs ==
  ASSUME FocusTypeOK, NEW h \in Handles
  PROVE  /\ \A t \in carried[h] : t \in TabType /\ \A F \in Without(h, t) : F \subseteq TabType
         /\ h \in DOMAIN refs => TabOf(h) \in TabType
<1>1. carried[h] \subseteq TabType
  BY DEF FocusTypeOK
<1>2. \A t \in carried[h] : \A F \in Without(h, t) : F \subseteq carried[h]
  BY DEF Without
<1>3. h \in DOMAIN refs => TabOf(h) \in TabType
  BY DEF FocusTypeOK, TabOf, Tab, TabType
<1> QED BY <1>1, <1>2, <1>3

\* Steps of handles alone: the histories and the focus stay.
LEMMA HandleSteps ==
  ASSUME FocusAssumption, FocusInv, NEW h \in Handles,
         Upgrade(h) \/ Drop(h) \/ \E t \in Tabs[h] : NewHandle(h, t)
  PROVE  FocusInv'
<1> USE DEF FocusInv
<1>1. CASE Upgrade(h)
  <2>1. h \in DOMAIN refs /\ refs[h].count \in Nat /\ TabOf(h) \in TabType
    BY <1>1, CarriedTabs DEF Upgrade, ForId, FocusTypeOK
  <2>2. carried' \in [Handles -> SUBSET TabType]
    BY <1>1, <2>1 DEF Upgrade, FocusTypeOK
  <2>3. FocusTypeOK'
    BY <1>1, <2>1, <2>2 DEF Upgrade, Counted, Counting, FocusTypeOK
  <2>4. \A g \in Handles : Total(g)' = IF g = h THEN Total(g) + 1 ELSE Total(g)
    BY <1>1 DEF Upgrade, Total, FocusTypeOK
  <2>5. HandlesAreCounted'
    BY <1>1, <2>1, <2>4, CountedByIds, CountedByIdsNext DEF Upgrade, Counted, Counting, FocusTypeOK
  <2> QED BY <1>1, <2>1, <2>3, <2>5 DEF Upgrade, Counted, Counting, FocusExists, DisabledHasNone
<1>2. CASE Drop(h)
  <2>1. h \in DOMAIN refs /\ refs[h].count \in Nat /\ refs[h].count > 0
    BY <1>2, HandlesExist DEF Drop
  <2>2. carried' \in [Handles -> SUBSET TabType]
    <3>1. PICK t \in carried[h] : \E F \in Without(h, t) : carried' = [carried EXCEPT ![h] = F]
      BY <1>2 DEF Drop
    <3>2. PICK F \in Without(h, t) : carried' = [carried EXCEPT ![h] = F]
      BY <3>1
    <3>3. F \subseteq TabType
      BY CarriedTabs
    <3> QED BY <3>2, <3>3 DEF FocusTypeOK
  <2>3. FocusTypeOK'
    BY <1>2, <2>1, <2>2 DEF Drop, Counted, Counting, FocusTypeOK
  <2>4. \A g \in Handles : Total(g)' = IF g = h THEN Total(g) - 1 ELSE Total(g)
    BY <1>2 DEF Drop, Total, FocusTypeOK
  <2>5. HandlesAreCounted'
    BY <1>2, <2>1, <2>4, CountedByIds, CountedByIdsNext DEF Drop, Counted, Counting, FocusTypeOK
  <2> QED BY <1>2, <2>1, <2>3, <2>5 DEF Drop, Counted, Counting, FocusExists, DisabledHasNone
<1>3. CASE \E t \in Tabs[h] : NewHandle(h, t)
  <2>1. PICK t \in Tabs[h] : NewHandle(h, t)
    BY <1>3
  <2>2. t \in TabType /\ t.index \in Int /\ t.stop \in BOOLEAN
    BY DEF FocusAssumption, TabType
  <2>3. h \notin DOMAIN refs /\ Total(h) = 0 /\ held[h] = 0
    BY <2>1, CountedByIds DEF NewHandle, FocusTypeOK, Total
  <2>4. FocusTypeOK'
    BY <2>1, <2>2 DEF NewHandle, FocusTypeOK
  <2>5. \A g \in Handles : Total(g)' = IF g = h THEN 1 ELSE Total(g)
    BY <2>1, <2>3 DEF NewHandle, Total, FocusTypeOK
  <2>6. HandlesAreCounted'
    BY <2>1, <2>3, <2>5, CountedByIds, CountedByIdsNext DEF NewHandle, FocusTypeOK
  <2> QED BY <2>1, <2>4, <2>6 DEF NewHandle, FocusExists, DisabledHasNone
<1> QED BY <1>1, <1>2, <1>3

\* tab_index and tab_stop leave the counts.
LEMMA RetabSteps ==
  ASSUME FocusAssumption, FocusInv, NEW h \in Handles, NEW t \in carried[h], NEW new \in Retabs[h],
         SetTabIndex(h, t, new.index) \/ SetTabStop(h, t, new.stop)
  PROVE  /\ FocusInv' /\ UNCHANGED <<rendered, next>> /\ DOMAIN refs' = DOMAIN refs
         /\ \A g \in DOMAIN refs : refs'[g].count = refs[g].count
<1> USE DEF FocusInv
<1>1. new.index \in Int /\ new.stop \in BOOLEAN /\ t.index \in Int /\ t.stop \in BOOLEAN
  <2>1. new \in TabType /\ t \in TabType
    BY CarriedTabs DEF FocusAssumption, TabType
  <2> QED BY <2>1 DEF TabType
<1>2. PICK tab \in TabType : SetTab(h, t, tab)
  BY <1>1 DEF SetTabIndex, SetTabStop, Tab, TabType
<1>3. UNCHANGED <<held, created, focus, enabled, drawing, rendered, next>>
  BY <1>2 DEF SetTab
<1>4. /\ DOMAIN refs' = DOMAIN refs /\ refs' = [g \in DOMAIN refs' |-> refs'[g]]
      /\ \A g \in DOMAIN refs : /\ refs'[g] \in [count : Nat, index : Int, stop : BOOLEAN]
                                /\ refs'[g].count = refs[g].count
  <2>1. PICK i \in Int, b \in BOOLEAN :
          refs' = [g \in DOMAIN refs |->
                     IF g = h THEN [refs[g] EXCEPT !.index = i] ELSE refs[g]]
          \/ refs' = [g \in DOMAIN refs |->
                        IF g = h THEN [refs[g] EXCEPT !.stop = b] ELSE refs[g]]
    BY <1>1 DEF SetTabIndex, SetTabStop
  <2>2. \A g \in DOMAIN refs : refs[g] \in [count : Nat, index : Int, stop : BOOLEAN]
    BY DEF FocusTypeOK
  <2>3. DOMAIN refs' = DOMAIN refs /\ refs' = [g \in DOMAIN refs' |-> refs'[g]]
    BY <2>1
  <2>4. \A g \in DOMAIN refs :
          \/ refs'[g] = refs[g]
          \/ refs'[g] = [refs[g] EXCEPT !.index = i] \/ refs'[g] = [refs[g] EXCEPT !.stop = b]
    BY <2>1
  <2> QED BY <2>2, <2>3, <2>4
<1>5. carried' \in [Handles -> SUBSET TabType] /\ retabs' \in Nat
  <2>1. PICK F \in Without(h, t) : carried' = [carried EXCEPT ![h] = F \cup {tab}]
    BY <1>2 DEF SetTab
  <2>2. F \cup {tab} \subseteq TabType
    BY CarriedTabs
  <2>3. retabs' = retabs + 1
    BY <1>2 DEF SetTab
  <2> QED BY <2>1, <2>2, <2>3 DEF FocusTypeOK
<1>6. FocusTypeOK'
  BY <1>3, <1>4, <1>5 DEF FocusTypeOK
<1>7. \A g \in Handles : Total(g)' = Total(g)
  BY <1>3 DEF Total
<1>8. HandlesAreCounted'
  BY <1>4, <1>7, CountedByIds, CountedByIdsNext
<1> QED BY <1>3, <1>4, <1>6, <1>8 DEF FocusExists, DisabledHasNone

\* A flush: what it takes out of the map has no handle, and is not focused then.
LEMMA ReleaseStep ==
  ASSUME FocusAssumption, FocusInv, Release
  PROVE  FocusInv'
<1> DEFINE gone == {h \in DOMAIN refs : refs[h].count = 0}
<1>1. refs' = [h \in DOMAIN refs \ gone |-> refs[h]] /\ focus' = Unfocused(gone)
  BY DEF Release
<1>2. UNCHANGED <<held, carried, retabs, created, enabled, drawing, rendered, next>>
  BY DEF Release
<1>3. FocusTypeOK'
  <2>1. DOMAIN refs' \subseteq DOMAIN refs /\ refs' = [h \in DOMAIN refs' |-> refs'[h]]
    BY <1>1
  <2>2. \A h \in DOMAIN refs' : refs'[h] = refs[h]
    BY <1>1
  <2>3. focus' \in Handles \cup {NoFocus}
    BY <1>1 DEF FocusInv, FocusTypeOK, Unfocused
  <2> HIDE DEF gone
  <2>4. /\ held' \in [Handles -> Nat] /\ created' \subseteq Handles /\ DOMAIN refs' \subseteq created'
        /\ carried' \in [Handles -> SUBSET TabType] /\ retabs' \in Nat
    BY <1>2, <2>1 DEF FocusInv, FocusTypeOK
  <2>5. /\ rendered' \in Seq(Ops) /\ next' \in Seq(Ops) /\ (drawing' \/ next' = <<>>)
        /\ enabled' \in BOOLEAN /\ drawing' \in BOOLEAN
    BY <1>2 DEF FocusInv, FocusTypeOK
  <2>6. \A h \in DOMAIN refs' : refs'[h] \in [count : Nat, index : Int, stop : BOOLEAN]
    BY <2>1, <2>2 DEF FocusInv, FocusTypeOK
  <2> QED BY <2>1, <2>3, <2>4, <2>5, <2>6 DEF FocusTypeOK
<1>4. \A h \in Handles : Total(h)' = Total(h)
  BY <1>2 DEF Total
<1>5. HandlesAreCounted'
  BY <1>1, <1>4, CountedByIds, CountedByIdsNext DEF FocusInv
<1>6. FocusExists' /\ DisabledHasNone'
  BY <1>1, <1>2 DEF FocusInv, FocusExists, DisabledHasNone, Unfocused
<1> QED BY <1>3, <1>5, <1>6 DEF FocusInv

\* Moving the focus: to an entry that has a handle, a view's or the frame's.
LEMMA FocusSteps ==
  ASSUME FocusAssumption, FocusInv,
         (\E h \in Handles : Focus(h)) \/ FocusNext \/ FocusPrev \/ Blur \/ DisableFocus
  PROVE  FocusInv'
<1>1. UNCHANGED <<refs, held, carried, retabs, created, drawing, rendered, next>>
  BY DEF Focus, FocusNext, FocusPrev, Blur, DisableFocus
<1>2. HandlesAreCounted'
  BY <1>1 DEF FocusInv, HandlesAreCounted
<1>3. Ids(rendered) \cap Handles \subseteq DOMAIN refs
  BY HandlesExist
<1>4. ASSUME NEW S, S \subseteq StopsOf(rendered), NEW h \in {rendered[k].id : k \in S}
      PROVE  h \in Ids(rendered)
  BY <1>4 DEF Ids, StopsOf
<1>5. NextOf(rendered, focus) \subseteq Ids(rendered)
  BY <1>4 DEF NextOf, Following, Ids, StopsOf
<1>6. PrevOf(rendered, focus) \subseteq Ids(rendered)
  BY <1>4 DEF PrevOf, Preceding, Ids, StopsOf
<1>7. Ids(rendered) \subseteq Handles \cup {NoFocus}
  <2>1. \A k \in DOMAIN rendered : rendered[k] \in Ops
    BY DEF FocusInv, FocusTypeOK
  <2> QED BY <2>1 DEF Ids, NodesOf, Ops
<1>8. focus' # NoFocus => focus' \in DOMAIN refs /\ enabled'
  BY <1>1, <1>3, <1>5, <1>6, <1>7, HandlesExist
     DEF Focus, FocusNext, FocusPrev, Blur, DisableFocus, FocusInv, FocusExists, DisabledHasNone
<1>9. FocusTypeOK'
  <2>1. focus' \in Handles \cup {NoFocus}
    BY <1>1, <1>8 DEF FocusInv, FocusTypeOK
  <2>2. enabled' \in BOOLEAN
    BY DEF Focus, FocusNext, FocusPrev, Blur, DisableFocus, FocusInv, FocusTypeOK
  <2> QED BY <1>1, <2>1, <2>2 DEF FocusInv, FocusTypeOK
<1> QED BY <1>1, <1>2, <1>8, <1>9 DEF FocusInv, FocusExists, DisabledHasNone

LEMMA InsertType ==
  ASSUME FocusTypeOK, NEW h \in Handles, h \in DOMAIN refs, NEW t, t \in carried[h] \/ t \in TabType
  PROVE  Insert(h, t) \in Ops /\ Insert(h, t).op = "insert" /\ Insert(h, t).id = h
<1>1. t \in TabType /\ TabOf(h) \in TabType
  BY CarriedTabs
<1> QED BY <1>1 DEF Insert, Ops, TabType

\* What the two frames hold is of handles that are there.
LEMMA IdsAreHandles == ASSUME NEW hist \in Seq(Ops) PROVE Ids(hist) \subseteq Handles
<1>1. \A k \in DOMAIN hist : hist[k] \in Ops
  OBVIOUS
<1> QED BY <1>1 DEF Ids, NodesOf, Ops

\* A replay has the operations of what it replays, with other indexes and stops at most.
LEMMA ReplayedOps ==
  ASSUME FocusTypeOK, NEW ops \in Seq(Ops), Ids(ops) \subseteq DOMAIN refs
  PROVE  /\ Replayed(ops) \in Seq(Ops) /\ Len(Replayed(ops)) = Len(ops)
         /\ DOMAIN Replayed(ops) = DOMAIN ops
         /\ \A k \in DOMAIN ops :
              /\ Replayed(ops)[k] = Again(ops[k])
              /\ Replayed(ops)[k].op = ops[k].op /\ Replayed(ops)[k].id = ops[k].id
              /\ ops[k].op # "insert" => Replayed(ops)[k] = ops[k]
         /\ NodesOf(Replayed(ops)) = NodesOf(ops) /\ Ids(Replayed(ops)) = Ids(ops)
<1> DEFINE r == Replayed(ops)
<1>1. DOMAIN ops = 1..Len(ops) /\ Len(ops) \in Nat
  OBVIOUS
<1>2. r = [k \in 1..Len(ops) |-> Again(ops[k])] /\ DOMAIN r = DOMAIN ops
  BY <1>1 DEF Replayed
<1>3. ASSUME NEW k \in DOMAIN ops
      PROVE  /\ Again(ops[k]) \in Ops /\ Again(ops[k]).op = ops[k].op /\ Again(ops[k]).id = ops[k].id
             /\ ops[k].op # "insert" => Again(ops[k]) = ops[k]
  <2>1. ops[k] \in Ops
    BY <1>1, <1>3
  <2>2. CASE ops[k].op = "insert"
    <3>1. ops[k].id \in Handles /\ ops[k].id \in DOMAIN refs /\ ops[k].kept \in TabType
      BY <2>1, <2>2 DEF Ops, Ids, NodesOf
    <3> QED BY <2>2, <3>1, InsertType DEF Again
  <2>3. CASE ops[k].op # "insert"
    BY <2>1, <2>3 DEF Again
  <2> QED BY <2>2, <2>3
<1>4. r \in Seq(Ops) /\ Len(r) = Len(ops)
  <2>1. r \in [1..Len(ops) -> Ops]
    BY <1>1, <1>2, <1>3
  <2> HIDE DEF r
  <2> QED BY <1>1, <2>1, SeqDef, LenProperties
<1>5. \A k \in DOMAIN ops : r[k] = Again(ops[k])
  BY <1>1, <1>2
<1> HIDE DEF r
<1>6. NodesOf(r) = NodesOf(ops) /\ Ids(r) = Ids(ops)
  <2>1. NodesOf(r) = NodesOf(ops)
    BY <1>2, <1>3, <1>5 DEF NodesOf
  <2>2. \A k \in NodesOf(ops) : r[k].id = ops[k].id
    BY <1>3, <1>5 DEF NodesOf
  <2> QED BY <2>1, <2>2, Zenon DEF Ids
<1> QED BY <1>2, <1>3, <1>4, <1>5, <1>6 DEF r

\* Painting: each handle that a history gets is counted, and uncounted when the frame goes.
LEMMA PaintOneSteps ==
  ASSUME FocusAssumption, FocusInv,
         \/ BeginPaint \/ EndGroup \/ \E i \in Indexes : BeginGroup(i)
         \/ \E h \in Handles : \E t \in carried[h] : PaintHandle(h, t)
  PROVE  FocusInv'
<1> USE DEF FocusInv
<1>1. CASE BeginPaint
  <2>1. next = <<>> /\ next' = <<>>
    BY <1>1 DEF BeginPaint, FocusTypeOK
  <2>2. FocusTypeOK'
    BY <1>1, <2>1 DEF BeginPaint, FocusTypeOK
  <2>3. UNCHANGED <<refs, held, rendered, next, focus, enabled>>
    BY <1>1, <2>1 DEF BeginPaint
  <2> QED BY <2>2, <2>3 DEF HandlesAreCounted, FocusExists, DisabledHasNone
<1>2. ASSUME NEW o \in Ops, o.op # "insert", drawing, next' = Append(next, o),
             UNCHANGED <<refs, held, carried, retabs, created, focus, enabled, drawing, rendered>>
      PROVE  FocusInv'
  <2>1. Ids(next') = Ids(next)
    BY <1>2, AppendIds DEF FocusTypeOK
  <2>2. FocusTypeOK'
    BY <1>2 DEF FocusTypeOK
  <2>3. \A h \in Handles : Total(h)' = Total(h)
    BY <1>2, <2>1 DEF Total
  <2>4. HandlesAreCounted'
    BY <1>2, <2>3, CountedByIds, CountedByIdsNext
  <2> QED BY <1>2, <2>2, <2>4 DEF FocusExists, DisabledHasNone
<1>3. CASE EndGroup
  <2>1. GroupEnd \in Ops /\ GroupEnd.op # "insert"
    BY DEF GroupEnd, Ops, Tab, TabType
  <2> QED BY <1>2, <1>3, <2>1 DEF EndGroup
<1>4. CASE \E i \in Indexes : BeginGroup(i)
  <2>1. PICK i \in Indexes : BeginGroup(i)
    BY <1>4
  <2>2. Group(i) \in Ops /\ Group(i).op # "insert"
    BY DEF Group, Ops, Tab, TabType, FocusAssumption
  <2> QED BY <1>2, <2>1, <2>2 DEF BeginGroup
<1>5. CASE \E h \in Handles : \E t \in carried[h] : PaintHandle(h, t)
  <2>0. PICK h \in Handles : \E t \in carried[h] : PaintHandle(h, t)
    BY <1>5
  <2>1. PICK t \in carried[h] : PaintHandle(h, t)
    BY <2>0
  <2>2. h \in DOMAIN refs /\ refs[h].count \in Nat /\ refs[h].index \in Int /\ refs[h].stop \in BOOLEAN
    BY <2>1, HandlesExist DEF PaintHandle, FocusTypeOK
  <2>3. Insert(h, t) \in Ops /\ Insert(h, t).op = "insert" /\ Insert(h, t).id = h
    BY <2>2, InsertType
  <2>4. Ids(next') = Ids(next) \cup {h} /\ next' \in Seq(Ops)
    BY <2>1, <2>3, AppendIds DEF PaintHandle, FocusTypeOK
  <2>5. h \notin Ids(next)
    BY <2>1 DEF PaintHandle, Ids, NodesOfId
  <2>6. FocusTypeOK'
    <3>1. /\ DOMAIN refs' = DOMAIN refs
          /\ refs' = [g \in DOMAIN refs' |-> refs'[g]]
      BY <2>1 DEF PaintHandle, Counted
    <3>2. ASSUME NEW g \in DOMAIN refs'
          PROVE  refs'[g] \in [count : Nat, index : Int, stop : BOOLEAN]
      <4>1. CASE g = h
        BY <2>1, <2>2, <4>1 DEF PaintHandle, Counted, Counting
      <4>2. CASE g # h
        BY <2>1, <3>1, <4>2 DEF PaintHandle, Counted, FocusTypeOK
      <4> QED BY <4>1, <4>2
    <3>3. /\ drawing' = drawing /\ drawing
          /\ UNCHANGED <<held, carried, retabs, created, focus, enabled, rendered>>
      BY <2>1 DEF PaintHandle
    <3> QED BY <2>4, <3>1, <3>2, <3>3 DEF FocusTypeOK
  <2>7. \A g \in Handles : Total(g)' = IF g = h THEN Total(g) + 1 ELSE Total(g)
    BY <2>1, <2>4, <2>5 DEF PaintHandle, Total, FocusTypeOK
  <2>8. HandlesAreCounted'
    BY <2>1, <2>2, <2>7, CountedByIds, CountedByIdsNext DEF PaintHandle, Counted, Counting, FocusTypeOK
  <2> QED BY <2>1, <2>2, <2>6, <2>8 DEF PaintHandle, Counted, FocusExists, DisabledHasNone
<1> QED BY <1>1, <1>3, <1>4, <1>5

LEMMA ReuseStep ==
  ASSUME FocusAssumption, FocusInv, NEW a \in DOMAIN rendered, NEW b \in DOMAIN rendered, Reuse(a, b)
  PROVE  FocusInv'
<1> DEFINE ops == SubSeq(rendered, a, b)
           ids == Ids(ops)
           new == Replayed(ops)
<1>1. ops \in Seq(Ops) /\ ids \subseteq Ids(rendered)
  BY SubSeqIds DEF FocusInv, FocusTypeOK
<1>2. {o.id : o \in {ops[k] : k \in NodesOf(ops)}} = ids
  BY DEF Ids
<1>3. /\ drawing /\ next' = next \o new
      /\ \A h \in ids : NodesOfId(next, h) = {}
      /\ refs' = [h \in DOMAIN refs |-> IF h \in ids THEN Counting(h, refs[h].count + 1) ELSE refs[h]]
      /\ UNCHANGED <<held, carried, retabs, created, focus, enabled, drawing, rendered>>
  BY <1>2, Zenon DEF Reuse
<1> HIDE DEF ops, ids, new
<1>0. ids \subseteq DOMAIN refs
  <2>1. ids \subseteq Handles
    BY <1>1, IdsAreHandles DEF ids
  <2> QED BY <1>1, <2>1, HandlesExist
<1>4. Ids(next') = Ids(next) \cup ids /\ next' \in Seq(Ops)
  <2>1. new \in Seq(Ops) /\ Ids(new) = ids
    BY <1>0, <1>1, ReplayedOps DEF FocusInv, new, ids
  <2> QED BY <1>3, <2>1, ConcatIds, ConcatProperties DEF FocusInv, FocusTypeOK
<1>5. ids \cap Ids(next) = {}
  BY <1>3 DEF Ids, NodesOfId
<1>6. ids \cap Handles \subseteq DOMAIN refs
  BY <1>0
<1>7. FocusTypeOK'
  BY <1>3, <1>4 DEF FocusInv, FocusTypeOK, Counting
<1>8. \A h \in Handles : Total(h)' = Total(h) + (IF h \in ids THEN 1 ELSE 0)
  BY <1>3, <1>4, <1>5 DEF FocusInv, Total, FocusTypeOK
<1>9. HandlesAreCounted'
  BY <1>3, <1>6, <1>8, CountedByIds, CountedByIdsNext DEF FocusInv, Counting, FocusTypeOK
<1> QED BY <1>3, <1>7, <1>9 DEF FocusInv, FocusExists, DisabledHasNone

LEMMA EndPaintStep ==
  ASSUME FocusAssumption, FocusInv, EndPaint
  PROVE  FocusInv'
<1>1. /\ rendered' = next /\ next' = <<>>
      /\ refs' = [h \in DOMAIN refs |-> Counting(h, refs[h].count - Dropped(h))]
      /\ UNCHANGED <<held, carried, retabs, created, focus, enabled>>
  BY DEF EndPaint
<1>2. \A h : Dropped(h) = IF h \in Ids(rendered) THEN 1 ELSE 0
  BY InHistoryIds DEF Dropped
<1>3. \A h \in DOMAIN refs : refs[h].count \in Nat /\ refs[h].count >= Dropped(h)
  <2>1. \A h \in DOMAIN refs : h \in Handles /\ refs[h].count \in Nat /\ (h \in Ids(rendered) => refs[h].count > 0)
    BY HandlesExist DEF FocusInv, FocusTypeOK
  <2> QED BY <1>2, <2>1
<1>4. FocusTypeOK'
  <2>1. \A h \in DOMAIN refs : Dropped(h) \in {0, 1}
    BY <1>2
  <2>2. DOMAIN refs' = DOMAIN refs /\ refs' = [h \in DOMAIN refs' |-> refs'[h]]
    BY <1>1
  <2>3. ASSUME NEW h \in DOMAIN refs
        PROVE  refs'[h] \in [count : Nat, index : Int, stop : BOOLEAN]
    <3>1. refs[h].index \in Int /\ refs[h].stop \in BOOLEAN
      BY DEF FocusInv, FocusTypeOK
    <3>2. refs[h].count - Dropped(h) \in Nat
      BY <1>3, <2>1
    <3>3. refs'[h] = Counting(h, refs[h].count - Dropped(h))
      BY <1>1
    <3> QED BY <3>1, <3>2, <3>3 DEF Counting
  <2>4. drawing' \in BOOLEAN
    BY DEF EndPaint
  <2> QED BY <1>1, <2>2, <2>3, <2>4 DEF FocusInv, FocusTypeOK
<1>5. \A h \in Handles : Total(h)' = Total(h) - Dropped(h)
  BY <1>1, <1>2, EmptyIds DEF FocusInv, FocusTypeOK, Total
<1>6. HandlesAreCounted'
  <2>1. \A h \in Handles \ DOMAIN refs : h \notin Ids(rendered)
    BY HandlesExist
  <2> QED BY <1>1, <1>2, <1>5, <2>1, CountedByIds, CountedByIdsNext DEF FocusInv, Counting, FocusTypeOK
<1> QED BY <1>1, <1>4, <1>6 DEF FocusInv, FocusExists, DisabledHasNone

LEMMA FocusNextInv == ASSUME FocusAssumption PROVE FocusInv /\ [FocusAction]_fvars => FocusInv'
<1> SUFFICES ASSUME FocusInv, [FocusAction]_fvars PROVE FocusInv'
  OBVIOUS
<1>1. CASE UNCHANGED fvars
  BY <1>1 DEF fvars, FocusInv, FocusTypeOK, HandlesAreCounted, FocusExists, DisabledHasNone
<1>2. CASE FocusAction
  <2>1. CASE Release
    BY <2>1, ReleaseStep
  <2>2. CASE (\E h \in Handles : Focus(h)) \/ FocusNext \/ FocusPrev \/ Blur \/ DisableFocus
    BY <2>2, FocusSteps
  <2>3. CASE \/ BeginPaint \/ EndGroup \/ \E i \in Indexes : BeginGroup(i)
             \/ \E h \in Handles : \E t \in carried[h] : PaintHandle(h, t)
    BY <2>3, PaintOneSteps
  <2>4. CASE EndPaint
    BY <2>4, EndPaintStep
  <2>5. CASE \E a, b \in DOMAIN rendered : a <= b /\ Reuse(a, b)
    BY <2>5, ReuseStep
  <2>6. CASE \E h \in Handles : Upgrade(h) \/ Drop(h) \/ \E t \in Tabs[h] : NewHandle(h, t)
    BY <2>6, HandleSteps
  <2>7. CASE \E h \in Handles : \E t \in carried[h] : \E new \in Retabs[h] :
               SetTabIndex(h, t, new.index) \/ SetTabStop(h, t, new.stop)
    BY <2>7, RetabSteps
  <2> QED BY <1>2, <2>1, <2>2, <2>3, <2>4, <2>5, <2>6, <2>7, Zenon DEF FocusAction
<1> QED BY <1>1, <1>2

------------------------------------------------------------------------------
(* Theorems.                                                                   *)

\* The strengthened invariant holds for any entries, threads' handles, groups and indexes.
THEOREM FocusInvariance == FocusSpec => []FocusInv
<1>1. FocusInit => FocusInv
  BY FocusInitInv, FocusAssumption
<1>2. FocusInv /\ [FocusAction]_fvars => FocusInv'
  BY FocusNextInv, FocusAssumption
<1> QED BY <1>1, <1>2, PTL DEF FocusSpec

\* Every variable keeps its type: the count of an entry is never taken below zero.
THEOREM FocusTypeCorrect == FocusSpec => []FocusTypeOK
<1>1. FocusInv => FocusTypeOK
  BY DEF FocusInv
<1> QED BY <1>1, FocusInvariance, PTL

\* Entries count the handles there are, in hands and in frames: clone and drop of a handle
\* find its entry (the unwraps in FocusHandle::clone and in its Drop do not fail).
THEOREM HandlesCounted == FocusSpec => []HandlesAreCounted
<1>1. FocusInv => HandlesAreCounted
  BY DEF FocusInv
<1> QED BY <1>1, FocusInvariance, PTL

\* The focus is on an entry that exists (release_dropped_focus_handles).
THEOREM FocusSafe == FocusSpec => []FocusExists
<1>1. FocusInv => FocusExists
  BY DEF FocusInv
<1> QED BY <1>1, FocusInvariance, PTL

\* A released entry is not revived by a weak handle, a paint, or the replay of a cached view
\* (atomic_incr_if_not_zero; the clone in TabStopMap::insert).
THEOREM NoRevival == FocusSpec => NeverRevived
<1>1. FocusInv /\ [FocusAction]_fvars =>
        [\A h \in created : ~Live(h) => ~(h \in DOMAIN refs' /\ refs'[h].count > 0)]_fvars
  <2> SUFFICES ASSUME FocusInv, FocusAction, NEW h \in created, ~Live(h), h \in DOMAIN refs', refs'[h].count > 0
               PROVE  FALSE
    BY Zenon DEF Live
  <2>1. h \in Handles /\ (h \in DOMAIN refs => refs[h].count = 0)
    BY DEF FocusInv, FocusTypeOK, Live
  <2>2. h \notin Ids(rendered) /\ h \notin Ids(next) /\ ~(held[h] > 0)
    BY <2>1, HandlesExist DEF Live
  <2>3. CASE UNCHANGED refs
    BY <2>1, <2>3
  <2>4. CASE Release
    BY <2>1, <2>4 DEF Release
  <2>5. ASSUME NEW g \in Handles, NEW t \in Tabs[g], NewHandle(g, t) PROVE FALSE
    BY <2>1, <2>5 DEF NewHandle
  <2>6. ASSUME NEW g \in Handles, Upgrade(g) PROVE FALSE
    BY <2>1, <2>6 DEF Upgrade, ForId, Counted
  <2>7. ASSUME NEW g \in Handles, Drop(g) PROVE FALSE
    BY <2>1, <2>2, <2>7 DEF Drop, Counted
  <2>8. ASSUME NEW g \in Handles, NEW t \in carried[g], PaintHandle(g, t) PROVE FALSE
    BY <2>1, <2>2, <2>8 DEF PaintHandle, Counted
  <2>9. ASSUME NEW a \in DOMAIN rendered, NEW b \in DOMAIN rendered, Reuse(a, b) PROVE FALSE
    <3>1. {o.id : o \in {SubSeq(rendered, a, b)[k] : k \in NodesOf(SubSeq(rendered, a, b))}}
            = Ids(SubSeq(rendered, a, b))
      BY DEF Ids
    <3>2. h \notin Ids(SubSeq(rendered, a, b))
      BY <2>2, SubSeqIds DEF FocusInv, FocusTypeOK
    <3>3. refs' = [g \in DOMAIN refs |-> IF g \in Ids(SubSeq(rendered, a, b))
                                         THEN Counting(g, refs[g].count + 1) ELSE refs[g]]
      BY <2>9, <3>1, Zenon DEF Reuse
    <3> QED BY <2>1, <3>2, <3>3
  <2>10. CASE EndPaint
    <3>1. refs'[h] = Counting(h, refs[h].count - Dropped(h)) /\ h \in DOMAIN refs
      BY <2>10 DEF EndPaint
    <3>2. Dropped(h) = 0
      BY <2>2, InHistoryIds DEF Dropped
    <3> QED BY <2>1, <3>1, <3>2 DEF Counting
  <2>12. ASSUME NEW g \in Handles, NEW t \in carried[g], NEW new \in Retabs[g],
                SetTabIndex(g, t, new.index) \/ SetTabStop(g, t, new.stop)
         PROVE FALSE
    BY <2>1, <2>12, RetabSteps, FocusAssumption
  <2>11. ASSUME ~(UNCHANGED refs), ~Release, ~EndPaint PROVE
           \/ \E g \in Handles : Upgrade(g) \/ Drop(g) \/ \E t \in carried[g] : PaintHandle(g, t)
           \/ \E g \in Handles : \E t \in carried[g] : \E new \in Retabs[g] :
                SetTabIndex(g, t, new.index) \/ SetTabStop(g, t, new.stop)
           \/ \E g \in Handles : \E t \in Tabs[g] : NewHandle(g, t)
           \/ \E a, b \in DOMAIN rendered : Reuse(a, b)
    BY <2>11, Zenon DEF FocusAction, FocusNext, FocusPrev, Blur, DisableFocus, BeginPaint, EndGroup, BeginGroup, Focus
  <2> QED BY <2>3, <2>4, <2>5, <2>6, <2>7, <2>8, <2>9, <2>10, <2>11, <2>12, Zenon
<1> QED BY <1>1, FocusInvariance, PTL DEF FocusSpec, NeverRevived
------------------------------------------------------------------------------
(* Orders.                                                                     *)

LEMMA MaxIsThere ==
  ASSUME NEW n \in Nat, NEW S, S \subseteq 1..n, S # {}
  PROVE  Max(S) \in S /\ \A j \in S : j <= Max(S)
<1> DEFINE T == {n - k : k \in S}
<1>1. T \subseteq Nat /\ T # {}
  <2>1. \A k \in S : n - k \in Nat
    OBVIOUS
  <2> QED BY <2>1
<1> HIDE DEF T
<1>2. PICK m \in T : \A l \in T : m <= l
  BY <1>1, LeastNumber
<1>3. PICK x \in S : m = n - x
  BY DEF T
<1>4. \A j \in S : x >= j
  <2>1. ASSUME NEW j \in S PROVE x >= j
    <3>1. n - j \in T
      BY DEF T
    <3>2. n - x <= n - j
      BY <1>2, <1>3, <3>1
    <3> QED BY <3>2
  <2> QED BY <2>1
<1>5. Max(S) \in S /\ \A j \in S : Max(S) >= j
  BY <1>4 DEF Max
<1>6. \A j \in S : j \in Int
  OBVIOUS
<1> QED BY <1>5, <1>6

\* A finite set has a least element in any total order.
LEMMA LeastOfOrder ==
  ASSUME NEW S, IsFiniteSet(S), S # {}, NEW R,
         \A x, y, z \in S : <<x, y>> \in R /\ <<y, z>> \in R => <<x, z>> \in R,
         \A x, y \in S : x # y => <<x, y>> \in R \/ <<y, x>> \in R
  PROVE  \E x \in S : \A y \in S \ {x} : <<x, y>> \in R
<1> DEFINE Least(T) == \E x \in T : \A y \in T \ {x} : <<x, y>> \in R
           Bad == {T \in SUBSET S : T # {} /\ ~Least(T)}
<1>1. \A T \in SUBSET S : IsFiniteSet(T) /\ Cardinality(T) \in Nat
  BY FS_Subset, FS_CardinalityType
<1>2. SUFFICES ASSUME Bad # {} PROVE FALSE
  OBVIOUS
<1>3. PICK T \in Bad : \A U \in Bad : Cardinality(T) <= Cardinality(U)
  <2> DEFINE Sizes == {Cardinality(U) : U \in Bad}
  <2>1. Sizes \subseteq Nat /\ Sizes # {}
    BY <1>1, <1>2
  <2>2. \A U \in Bad : Cardinality(U) \in Sizes
    OBVIOUS
  <2>3. \A n \in Sizes : \E T \in Bad : n = Cardinality(T)
    OBVIOUS
  <2> HIDE DEF Sizes, Bad
  <2>4. PICK n \in Sizes : \A m \in Sizes : n <= m
    BY <2>1, LeastNumber
  <2> QED BY <2>2, <2>3, <2>4
<1>4. PICK x \in T : TRUE
  BY <1>3
<1>5. ~(Cardinality(T) <= Cardinality(T \ {x})) /\ T \ {x} \in SUBSET S
  <2>1. IsFiniteSet(T) /\ Cardinality(T) \in Nat /\ T \in SUBSET S
    BY <1>1, <1>3
  <2>2. Cardinality(T \ {x}) = Cardinality(T) - 1
    BY <1>4, <2>1, FS_RemoveElement
  <2> QED BY <2>1, <2>2
<1>6. T \ {x} \notin Bad
  <2> HIDE DEF Bad
  <2> QED BY <1>3, <1>5
<1>7. T \ {x} # {}
  BY <1>3, <1>4
<1>8. PICK y \in T \ {x} : \A z \in T \ {x, y} : <<y, z>> \in R
  BY <1>5, <1>6, <1>7
<1>9. CASE <<x, y>> \in R
  <2>1. \A z \in T \ {x} : <<x, z>> \in R
    BY <1>3, <1>8, <1>9
  <2> QED BY <1>3, <1>4, <2>1
<1>10. CASE <<y, x>> \in R
  <2>1. \A z \in T \ {y} : <<y, z>> \in R
    BY <1>8, <1>10
  <2> QED BY <1>3, <1>8, <2>1
<1> QED BY <1>3, <1>4, <1>8, <1>9, <1>10

------------------------------------------------------------------------------
(* The order of paths.                                                         *)

LEMMA PathsOrdered ==
  /\ \A p \in Seq(Int) : ~PathBefore(p, p)
  /\ \A p, q, r \in Seq(Int) : PathBefore(p, q) /\ PathBefore(q, r) => PathBefore(p, r)
  /\ \A p, q \in Seq(Int) : p # q => PathBefore(p, q) \/ PathBefore(q, p)
<1>1. ASSUME NEW p \in Seq(Int) PROVE ~PathBefore(p, p)
  BY DEF PathBefore
<1>2. ASSUME NEW p \in Seq(Int), NEW q \in Seq(Int), NEW r \in Seq(Int),
             PathBefore(p, q), PathBefore(q, r)
      PROVE  PathBefore(p, r)
  <2> DEFINE At(s, t, n) ==
        /\ n \in 0..Len(s) /\ n <= Len(t) /\ \A d \in 1..n : s[d] = t[d]
        /\ IF n = Len(s) THEN n < Len(t) ELSE n < Len(t) /\ s[n + 1] < t[n + 1]
  <2>1. PICK n : At(p, q, n)
    BY <1>2 DEF PathBefore
  <2>2. PICK m : At(q, r, m)
    BY <1>2 DEF PathBefore
  <2>3. CASE n <= m
    <3>1. At(p, r, n)
      BY <2>1, <2>2, <2>3, SMTT(30)
    <3> QED BY <3>1 DEF PathBefore
  <2>4. CASE m < n
    <3>1. At(p, r, m)
      BY <2>1, <2>2, <2>4, SMTT(30)
    <3> QED BY <3>1 DEF PathBefore
  <2> QED BY <2>1, <2>2, <2>3, <2>4
<1>3. ASSUME NEW p \in Seq(Int), NEW q \in Seq(Int), p # q
      PROVE  PathBefore(p, q) \/ PathBefore(q, p)
  <2> DEFINE D == {d \in Nat : d <= Len(p) /\ d <= Len(q) /\ (d = Len(p) \/ d = Len(q) \/ p[d + 1] # q[d + 1])}
  <2>1. D \subseteq Nat /\ D # {}
    <3>1. Len(p) \in Nat /\ Len(q) \in Nat
      OBVIOUS
    <3>2. (IF Len(p) <= Len(q) THEN Len(p) ELSE Len(q)) \in D
      BY <3>1
    <3> QED BY <3>2
  <2>2. PICK n \in D : \A m \in D : n <= m
    BY <2>1, LeastNumber
  <2>3. \A d \in 1..n : p[d] = q[d]
    <3>1. ASSUME NEW d \in 1..n PROVE p[d] = q[d]
      <4>1. d - 1 \in Nat /\ d - 1 < n /\ (d - 1) + 1 = d /\ n <= Len(p) /\ n <= Len(q) /\ n \in Nat
        BY <2>2
      <4>2. d - 1 \notin D
        <5> HIDE DEF D
        <5>1. ~(n <= d - 1)
          BY <4>1
        <5> QED BY <2>2, <5>1
      <4> QED BY <4>1, <4>2
    <3> QED BY <3>1
  <2>4. ~(n = Len(p) /\ n = Len(q))
    BY <1>3, <2>3
  <2>5. n \in Nat /\ n <= Len(p) /\ n <= Len(q) /\ (n = Len(p) \/ n = Len(q) \/ p[n + 1] # q[n + 1])
    BY <2>2
  <2>6. n < Len(p) /\ n < Len(q) => p[n + 1] \in Int /\ q[n + 1] \in Int
    BY <2>5
  <2> QED BY <2>3, <2>4, <2>5, <2>6 DEF PathBefore
<1> QED BY <1>1, <1>2, <1>3
------------------------------------------------------------------------------
(* Groups and paths of a history.                                              *)

GroupsTo(hist, k) == {j \in 1..k : hist[j].op = "group"}
EndsTo(hist, k) == {j \in 1..k : hist[j].op = "end"}

LEMMA DepthSteps ==
  ASSUME NEW hist
  PROVE  /\ Depth(hist, 0) = 0
         /\ \A k \in Nat : Depth(hist, k) \in Int
         /\ \A k \in Nat : Depth(hist, k + 1) =
              Depth(hist, k) + (IF hist[k + 1].op = "group" THEN 1 ELSE 0)
                             - (IF hist[k + 1].op = "end" THEN 1 ELSE 0)
<1>0. \A k : Depth(hist, k) = Cardinality(GroupsTo(hist, k)) - Cardinality(EndsTo(hist, k))
  BY DEF Depth, GroupsTo, EndsTo
<1>1. GroupsTo(hist, 0) = {} /\ EndsTo(hist, 0) = {}
  BY DEF GroupsTo, EndsTo
<1>2. \A k \in Nat : IsFiniteSet(GroupsTo(hist, k)) /\ IsFiniteSet(EndsTo(hist, k))
  <2>1. ASSUME NEW k \in Nat PROVE IsFiniteSet(GroupsTo(hist, k)) /\ IsFiniteSet(EndsTo(hist, k))
    <3>1. IsFiniteSet(1..k)
      BY FS_Interval
    <3>2. GroupsTo(hist, k) \in SUBSET (1..k) /\ EndsTo(hist, k) \in SUBSET (1..k)
      BY DEF GroupsTo, EndsTo
    <3> QED BY <3>1, <3>2, FS_Subset
  <2> QED BY <2>1
<1>3. \A k \in Nat : Cardinality(GroupsTo(hist, k)) \in Nat /\ Cardinality(EndsTo(hist, k)) \in Nat
  BY <1>2, FS_CardinalityType
<1>4. ASSUME NEW k \in Nat
      PROVE  /\ Cardinality(GroupsTo(hist, k + 1)) =
                  Cardinality(GroupsTo(hist, k)) + (IF hist[k + 1].op = "group" THEN 1 ELSE 0)
             /\ Cardinality(EndsTo(hist, k + 1)) =
                  Cardinality(EndsTo(hist, k)) + (IF hist[k + 1].op = "end" THEN 1 ELSE 0)
  <2>1. k + 1 \notin GroupsTo(hist, k) /\ k + 1 \notin EndsTo(hist, k) /\ 1..(k + 1) = (1..k) \cup {k + 1}
    BY DEF GroupsTo, EndsTo
  <2>2. GroupsTo(hist, k + 1) =
          IF hist[k + 1].op = "group" THEN GroupsTo(hist, k) \cup {k + 1} ELSE GroupsTo(hist, k)
    BY <2>1 DEF GroupsTo
  <2>3. EndsTo(hist, k + 1) =
          IF hist[k + 1].op = "end" THEN EndsTo(hist, k) \cup {k + 1} ELSE EndsTo(hist, k)
    BY <2>1 DEF EndsTo
  <2>4. Cardinality(GroupsTo(hist, k) \cup {k + 1}) = Cardinality(GroupsTo(hist, k)) + 1
    BY <1>2, <2>1, FS_AddElement
  <2>5. Cardinality(EndsTo(hist, k) \cup {k + 1}) = Cardinality(EndsTo(hist, k)) + 1
    BY <1>2, <2>1, FS_AddElement
  <2> QED BY <1>3, <2>2, <2>3, <2>4, <2>5
<1>5. Depth(hist, 0) = 0
  BY <1>0, <1>1, FS_EmptySet
<1>6. \A k \in Nat : Depth(hist, k) \in Int
  BY <1>0, <1>3
<1>7. ASSUME NEW k \in Nat
      PROVE  Depth(hist, k + 1) =
              Depth(hist, k) + (IF hist[k + 1].op = "group" THEN 1 ELSE 0)
                             - (IF hist[k + 1].op = "end" THEN 1 ELSE 0)
  <2>1. k + 1 \in Nat
    OBVIOUS
  <2>2. /\ Depth(hist, k) = Cardinality(GroupsTo(hist, k)) - Cardinality(EndsTo(hist, k))
        /\ Depth(hist, k + 1) = Cardinality(GroupsTo(hist, k + 1)) - Cardinality(EndsTo(hist, k + 1))
    BY <1>0
  <2> QED BY <1>3, <1>4, <2>1, <2>2
<1> QED BY <1>5, <1>6, <1>7

\* Depth grows by ones: there is a group at every depth on the way.
LEMMA GroupAtEveryDepth ==
  ASSUME NEW hist, NEW k \in Nat, NEW d \in Nat \ {0}, d <= Depth(hist, k)
  PROVE  \E j \in 1..k : hist[j].op = "group" /\ Depth(hist, j) = d
<1> DEFINE D == {n \in Nat : d <= Depth(hist, n)}
<1>1. D \subseteq Nat /\ D # {}
  OBVIOUS
<1> DEFINE IsLeast(n) == n \in D /\ \A m \in D : n <= m
<1>2. PICK n : IsLeast(n)
  <2> HIDE DEF D
  <2> QED BY <1>1, LeastNumber
<1>3. n \in Nat /\ d <= Depth(hist, n) /\ n <= k
  BY <1>2
<1>4. n # 0
  BY <1>3, DepthSteps
<1>5. n - 1 \in Nat /\ (n - 1) + 1 = n /\ ~(n <= n - 1)
  BY <1>3, <1>4
<1>6. n - 1 \notin D
  <2> HIDE DEF D
  <2> QED BY <1>2, <1>5
<1>7. Depth(hist, n - 1) \in Int /\ Depth(hist, n) \in Int /\ Depth(hist, n - 1) < d
  <2>1. Depth(hist, n - 1) \in Int /\ Depth(hist, n) \in Int
    BY <1>3, <1>5, DepthSteps
  <2>2. ~(d <= Depth(hist, n - 1))
    BY <1>5, <1>6
  <2> QED BY <2>1, <2>2
<1>8. Depth(hist, n) = Depth(hist, n - 1) + (IF hist[n].op = "group" THEN 1 ELSE 0)
                                          - (IF hist[n].op = "end" THEN 1 ELSE 0)
  BY <1>5, DepthSteps
<1>9. hist[n].op = "group" /\ Depth(hist, n) = d
  BY <1>3, <1>7, <1>8
<1> QED BY <1>3, <1>4, <1>9

LEMMA GroupAtIsThere ==
  ASSUME NEW hist, NEW k \in Nat, NEW d \in Nat \ {0}, d <= Depth(hist, k)
  PROVE  /\ GroupAt(hist, k, d) \in 1..k
         /\ hist[GroupAt(hist, k, d)].op = "group"
         /\ Depth(hist, GroupAt(hist, k, d)) = d
         /\ \A j \in 1..k : hist[j].op = "group" /\ Depth(hist, j) = d => j <= GroupAt(hist, k, d)
<1> DEFINE S == {j \in 1..k : hist[j].op = "group" /\ Depth(hist, j) = d}
<1>1. S \subseteq 1..k /\ S # {}
  BY GroupAtEveryDepth
<1>2. Max(S) \in S /\ \A j \in S : j <= Max(S)
  <2> HIDE DEF S
  <2> QED BY <1>1, MaxIsThere
<1>3. GroupAt(hist, k, d) = Max(S)
  BY DEF GroupAt
<1> QED BY <1>2, <1>3

LEMMA PathType ==
  ASSUME NEW hist \in Seq(Ops), NEW k \in DOMAIN hist
  PROVE  /\ Path(hist, k) \in Seq(Int)
         /\ Depth(hist, k) >= 0 => Len(Path(hist, k)) = Depth(hist, k) + 1
<1> DEFINE D == Depth(hist, k)
           J == IF D + 1 >= 0 THEN D + 1 ELSE 0
           p == Path(hist, k)
<1>0. DOMAIN hist = 1..Len(hist) /\ Len(hist) \in Nat
  OBVIOUS
<1>1. k \in Nat /\ k \in 1..Len(hist) /\ D \in Int
  BY <1>0, DepthSteps, SMTT(30)
<1>2. \A j \in 1..Len(hist) : hist[j].index \in Int
  <2>1. \A j \in 1..Len(hist) : hist[j] \in Ops
    BY <1>0
  <2> QED BY <2>1 DEF Ops
<1>3. p = [d \in 1..(D + 1) |->
             IF d = D + 1 THEN hist[k].index ELSE hist[GroupAt(hist, k, d)].index]
  BY DEF Path
<1>4. \A d \in 1..(D + 1) : p[d] \in Int
  <2>1. ASSUME NEW d \in 1..(D + 1), d # D + 1 PROVE hist[GroupAt(hist, k, d)].index \in Int
    <3>1. d \in Nat \ {0} /\ d <= D
      BY <1>1, <2>1
    <3>2. GroupAt(hist, k, d) \in 1..k
      BY <1>1, <3>1, GroupAtIsThere
    <3> QED BY <1>1, <1>2, <3>2
  <2> QED BY <1>1, <1>2, <1>3, <2>1
<1>5. J \in Nat /\ 1..(D + 1) = 1..J
  BY <1>1
<1>6. p \in [1..J -> Int]
  <2>1. p = [d \in 1..J |-> p[d]]
    BY <1>3, <1>5
  <2> QED BY <1>4, <1>5, <2>1
<1>7. p \in Seq(Int) /\ Len(p) = J
  <2> HIDE DEF p, J
  <2> QED BY <1>5, <1>6, SeqDef, LenProperties
<1> QED BY <1>1, <1>5, <1>7

\* Precedes is a total order of a history's places (TabStopNode::cmp is an Ord).
LEMMA PlacesOrdered ==
  ASSUME NEW hist \in Seq(Ops)
  PROVE  /\ \A i \in DOMAIN hist : ~Precedes(hist, i, i)
         /\ \A i, j, k \in DOMAIN hist :
              Precedes(hist, i, j) /\ Precedes(hist, j, k) => Precedes(hist, i, k)
         /\ \A i, j \in DOMAIN hist : i # j => Precedes(hist, i, j) \/ Precedes(hist, j, i)
<1>1. \A i \in DOMAIN hist : i \in Nat /\ Path(hist, i) \in Seq(Int)
  BY PathType
<1>2. \A i, j : Precedes(hist, i, j) <=>
          \/ PathBefore(Path(hist, i), Path(hist, j))
          \/ Path(hist, i) = Path(hist, j) /\ i < j
  BY DEF Precedes
<1>3. \A i \in DOMAIN hist : ~Precedes(hist, i, i)
  BY <1>1, <1>2, PathsOrdered
<1>4. ASSUME NEW i \in DOMAIN hist, NEW j \in DOMAIN hist, NEW k \in DOMAIN hist,
             Precedes(hist, i, j), Precedes(hist, j, k)
      PROVE  Precedes(hist, i, k)
  <2>1. PathBefore(Path(hist, i), Path(hist, j)) /\ PathBefore(Path(hist, j), Path(hist, k))
          => PathBefore(Path(hist, i), Path(hist, k))
    BY <1>1, PathsOrdered
  <2>2. i \in Nat /\ j \in Nat /\ k \in Nat
    BY <1>1
  <2> QED BY <1>2, <1>4, <2>1, <2>2
<1>5. ASSUME NEW i \in DOMAIN hist, NEW j \in DOMAIN hist, i # j
      PROVE  Precedes(hist, i, j) \/ Precedes(hist, j, i)
  <2>1. i \in Nat /\ j \in Nat
    BY <1>1
  <2>2. Path(hist, i) # Path(hist, j) =>
          PathBefore(Path(hist, i), Path(hist, j)) \/ PathBefore(Path(hist, j), Path(hist, i))
    BY <1>1, PathsOrdered
  <2> QED BY <1>2, <1>5, <2>1, <2>2
<1> QED BY <1>3, <1>4, <1>5

\* Hence any stops have a first and a last one.
LEMMA FirstIsThere ==
  ASSUME NEW hist \in Seq(Ops), NEW S, S \subseteq DOMAIN hist, S # {}
  PROVE  /\ \E i \in S : \A j \in S \ {i} : Precedes(hist, i, j)
         /\ \E i \in S : \A j \in S \ {i} : Precedes(hist, j, i)
<1> DEFINE Rises == {x \in S \X S : Precedes(hist, x[1], x[2])}
           Falls == {x \in S \X S : Precedes(hist, x[2], x[1])}
<1>1. IsFiniteSet(S)
  <2>1. DOMAIN hist = 1..Len(hist) /\ Len(hist) \in Nat
    OBVIOUS
  <2>2. IsFiniteSet(DOMAIN hist) /\ S \in SUBSET (DOMAIN hist)
    BY <2>1, FS_Interval
  <2> QED BY <2>2, FS_Subset
<1>2. \A x, y \in S : (<<x, y>> \in Rises <=> Precedes(hist, x, y)) /\ (<<x, y>> \in Falls <=> Precedes(hist, y, x))
  OBVIOUS
<1> HIDE DEF Rises, Falls
<1>3. /\ \A x, y, z \in S : Precedes(hist, x, y) /\ Precedes(hist, y, z) => Precedes(hist, x, z)
      /\ \A x, y \in S : x # y => Precedes(hist, x, y) \/ Precedes(hist, y, x)
  BY PlacesOrdered
<1>4. /\ \A x, y, z \in S : <<x, y>> \in Rises /\ <<y, z>> \in Rises => <<x, z>> \in Rises
      /\ \A x, y \in S : x # y => <<x, y>> \in Rises \/ <<y, x>> \in Rises
  BY <1>2, <1>3
<1>5. /\ \A x, y, z \in S : <<x, y>> \in Falls /\ <<y, z>> \in Falls => <<x, z>> \in Falls
      /\ \A x, y \in S : x # y => <<x, y>> \in Falls \/ <<y, x>> \in Falls
  BY <1>2, <1>3
<1>6. \E i \in S : \A j \in S \ {i} : <<i, j>> \in Rises
  BY <1>1, <1>4, LeastOfOrder
<1>7. \E i \in S : \A j \in S \ {i} : <<i, j>> \in Falls
  BY <1>1, <1>5, LeastOfOrder
<1> QED BY <1>2, <1>6, <1>7
------------------------------------------------------------------------------
(* Where Tab and Shift-Tab go.                                                 *)

\* A handle is in one place of a frame at most.
PaintedOnce(hist) == \A j, k \in NodesOf(hist) : hist[j].id = hist[k].id => j = k

IsFirst(hist, S, i) == i \in S /\ \A j \in S \ {i} : Precedes(hist, i, j)
IsLast(hist, S, i) == i \in S /\ \A j \in S \ {i} : Precedes(hist, j, i)

\* The stops of which Tab takes the first and Shift-Tab the last.
Later(hist, k) == IF Following(hist, k) = {} THEN StopsOf(hist) ELSE Following(hist, k)
Earlier(hist, k) == IF Preceding(hist, k) = {} THEN StopsOf(hist) ELSE Preceding(hist, k)

LEMMA EndsAreThere ==
  ASSUME NEW hist \in Seq(Ops), NEW S, S \subseteq DOMAIN hist, S # {}
  PROVE  /\ \E i : IsFirst(hist, S, i)
         /\ \E i : IsLast(hist, S, i)
         /\ \A i, j : IsFirst(hist, S, i) /\ IsFirst(hist, S, j) => i = j
         /\ \A i, j : IsLast(hist, S, i) /\ IsLast(hist, S, j) => i = j
<1>1. (\E i : IsFirst(hist, S, i)) /\ (\E i : IsLast(hist, S, i))
  BY FirstIsThere DEF IsFirst, IsLast
<1>2. \A i, j \in S : ~(Precedes(hist, i, j) /\ Precedes(hist, j, i))
  BY PlacesOrdered
<1> QED BY <1>1, <1>2 DEF IsFirst, IsLast

LEMMA StopsInHistory ==
  ASSUME NEW hist
  PROVE  /\ StopsOf(hist) \subseteq NodesOf(hist) /\ NodesOf(hist) \subseteq DOMAIN hist
         /\ \A k : Following(hist, k) \subseteq StopsOf(hist)
         /\ \A k : Preceding(hist, k) \subseteq StopsOf(hist)
BY DEF StopsOf, NodesOf, Following, Preceding

\* From anywhere Tab goes to one stop.
LEMMA TabGoesSomewhere ==
  ASSUME NEW hist \in Seq(Ops), NEW f, StopsOf(hist) # {}
  PROVE  \E i \in StopsOf(hist) : NextOf(hist, f) = {hist[i].id}
<1> DEFINE nodes == NodesOfId(hist, f)
           after == IF nodes = {} THEN {} ELSE Following(hist, Max(nodes))
           S == IF after = {} THEN StopsOf(hist) ELSE after
<1>1. S \subseteq StopsOf(hist) /\ S # {}
  BY StopsInHistory
<1>2. NextOf(hist, f) = {hist[k].id : k \in {i \in S : \A j \in S \ {i} : Precedes(hist, i, j)}}
  BY DEF NextOf
<1> HIDE DEF S
<1>3. PICK i : IsFirst(hist, S, i) /\ \A j : IsFirst(hist, S, j) => j = i
  BY <1>1, StopsInHistory, EndsAreThere
<1>4. {k \in S : \A j \in S \ {k} : Precedes(hist, k, j)} = {i}
  BY <1>3 DEF IsFirst
<1> QED BY <1>1, <1>2, <1>3, <1>4 DEF IsFirst

LEMMA TabFromNode ==
  ASSUME NEW hist \in Seq(Ops), PaintedOnce(hist), NEW k \in NodesOf(hist), StopsOf(hist) # {}
  PROVE  /\ \E i : IsFirst(hist, Later(hist, k), i)
         /\ \E i : IsLast(hist, Earlier(hist, k), i)
         /\ \A i : IsFirst(hist, Later(hist, k), i) => NextOf(hist, hist[k].id) = {hist[i].id}
         /\ \A i : IsLast(hist, Earlier(hist, k), i) => PrevOf(hist, hist[k].id) = {hist[i].id}
<1>1. /\ Later(hist, k) \subseteq DOMAIN hist /\ Later(hist, k) # {}
      /\ Earlier(hist, k) \subseteq DOMAIN hist /\ Earlier(hist, k) # {}
  BY StopsInHistory DEF Later, Earlier
<1>2. NodesOfId(hist, hist[k].id) = {k}
  BY DEF NodesOfId, PaintedOnce
<1>3. Max({k}) = k
  <2>1. k \in Nat
    BY StopsInHistory
  <2> QED BY <2>1 DEF Max
<1>4. ASSUME NEW i, IsFirst(hist, Later(hist, k), i) PROVE NextOf(hist, hist[k].id) = {hist[i].id}
  <2> DEFINE S == Later(hist, k)
  <2>1. NextOf(hist, hist[k].id) = {hist[m].id : m \in {n \in S : \A j \in S \ {n} : Precedes(hist, n, j)}}
    BY <1>2, <1>3 DEF NextOf, Later
  <2>2. \A n : IsFirst(hist, S, n) <=> n = i
    BY <1>1, <1>4, EndsAreThere
  <2> HIDE DEF S
  <2>3. {n \in S : \A j \in S \ {n} : Precedes(hist, n, j)} = {i}
    BY <2>2 DEF IsFirst
  <2> QED BY <2>1, <2>3
<1>5. ASSUME NEW i, IsLast(hist, Earlier(hist, k), i) PROVE PrevOf(hist, hist[k].id) = {hist[i].id}
  <2> DEFINE S == Earlier(hist, k)
  <2>1. PrevOf(hist, hist[k].id) = {hist[m].id : m \in {n \in S : \A j \in S \ {n} : Precedes(hist, j, n)}}
    BY <1>2, <1>3 DEF PrevOf, Earlier
  <2>2. \A n : IsLast(hist, S, n) <=> n = i
    BY <1>1, <1>5, EndsAreThere
  <2> HIDE DEF S
  <2>3. {n \in S : \A j \in S \ {n} : Precedes(hist, j, n)} = {i}
    BY <2>2 DEF IsLast
  <2> QED BY <2>1, <2>3
<1> QED BY <1>1, <1>4, <1>5, EndsAreThere

\* What Tab does not lead out of is all of the stops.
LEMMA TabIsOneCycle ==
  ASSUME NEW hist \in Seq(Ops), PaintedOnce(hist),
         NEW J, J \subseteq StopsOf(hist), J # {},
         \A k \in J : \A i : IsFirst(hist, Later(hist, k), i) => i \in J
  PROVE  J = StopsOf(hist)
<1>1. StopsOf(hist) \subseteq DOMAIN hist /\ StopsOf(hist) \subseteq NodesOf(hist) /\ StopsOf(hist) # {}
  BY StopsInHistory
<1>2. /\ \A i, j \in StopsOf(hist) : ~(Precedes(hist, i, j) /\ Precedes(hist, j, i))
      /\ \A i \in StopsOf(hist) : ~Precedes(hist, i, i)
  BY <1>1, PlacesOrdered
<1>3. \A k, i \in StopsOf(hist) : i \in Following(hist, k) <=> Precedes(hist, k, i)
  BY DEF Following
<1>4. ASSUME NEW k \in J, Following(hist, k) # {}
      PROVE  \E i \in J : IsFirst(hist, Following(hist, k), i)
  <2>1. PICK i : IsFirst(hist, Later(hist, k), i)
    BY <1>1, TabFromNode
  <2> QED BY <1>4, <2>1 DEF Later
<1>5. PICK l : IsLast(hist, J, l)
  BY <1>1, EndsAreThere
<1>6. Following(hist, l) = {}
  <2>1. SUFFICES ASSUME Following(hist, l) # {} PROVE FALSE
    OBVIOUS
  <2>2. l \in J
    BY <1>5 DEF IsLast
  <2>3. PICK i \in J : IsFirst(hist, Following(hist, l), i)
    BY <1>4, <2>1, <2>2
  <2>4. Precedes(hist, l, i)
    BY <1>3, <2>2, <2>3 DEF IsFirst
  <2> QED BY <1>2, <1>5, <2>2, <2>4 DEF IsLast
<1>7. PICK f : IsFirst(hist, StopsOf(hist), f) /\ f \in J
  <2>1. PICK f : IsFirst(hist, StopsOf(hist), f)
    BY <1>1, EndsAreThere
  <2> QED BY <1>5, <1>6, <2>1 DEF Later, IsLast
<1>8. SUFFICES ASSUME StopsOf(hist) \ J # {} PROVE FALSE
  OBVIOUS
<1>9. PICK m : IsFirst(hist, StopsOf(hist) \ J, m)
  BY <1>1, <1>8, EndsAreThere
<1> DEFINE P == {j \in J : Precedes(hist, j, m)}
<1>10. m \in StopsOf(hist) /\ m \notin J /\ f \in P
  BY <1>7, <1>9 DEF IsFirst
<1>11. PICK p : IsLast(hist, P, p)
  <2>1. P \subseteq DOMAIN hist /\ P # {}
    BY <1>1, <1>10
  <2> QED BY <2>1, EndsAreThere
<1>12. p \in J /\ m \in Following(hist, p)
  BY <1>3, <1>10, <1>11 DEF IsLast
<1>13. PICK i \in J : IsFirst(hist, Following(hist, p), i)
  BY <1>4, <1>12
<1>14. Precedes(hist, p, i) /\ Precedes(hist, i, m)
  BY <1>3, <1>10, <1>12, <1>13 DEF IsFirst
<1>15. i = p \/ Precedes(hist, i, p)
  BY <1>11, <1>14 DEF IsLast
<1> QED BY <1>2, <1>12, <1>14, <1>15

\* Shift-Tab goes back to where Tab came from, and the other way round.
LEMMA ShiftTabGoesBack ==
  ASSUME NEW hist \in Seq(Ops), NEW j \in StopsOf(hist), NEW k \in StopsOf(hist)
  PROVE  IsFirst(hist, Later(hist, j), k) <=> IsLast(hist, Earlier(hist, k), j)
<1>1. /\ \A i, n \in StopsOf(hist) : ~(Precedes(hist, i, n) /\ Precedes(hist, n, i))
      /\ \A i, n \in StopsOf(hist) : i # n => Precedes(hist, i, n) \/ Precedes(hist, n, i)
      /\ \A i \in StopsOf(hist) : ~Precedes(hist, i, i)
  BY PlacesOrdered, StopsInHistory
<1>2. /\ \A i, n \in StopsOf(hist) : i \in Following(hist, n) <=> Precedes(hist, n, i)
      /\ \A i, n \in StopsOf(hist) : i \in Preceding(hist, n) <=> Precedes(hist, i, n)
      /\ Following(hist, j) \subseteq StopsOf(hist) /\ Preceding(hist, k) \subseteq StopsOf(hist)
  BY StopsInHistory DEF Following, Preceding
<1>3. ASSUME IsFirst(hist, Later(hist, j), k) PROVE IsLast(hist, Earlier(hist, k), j)
  <2>1. CASE Following(hist, j) = {}
    <3>1. IsFirst(hist, StopsOf(hist), k)
      BY <1>3, <2>1 DEF Later
    <3>2. Preceding(hist, k) = {}
      BY <1>1, <1>2, <3>1 DEF IsFirst
    <3>3. \A i \in StopsOf(hist) \ {j} : Precedes(hist, i, j)
      BY <1>1, <1>2, <2>1
    <3> QED BY <3>2, <3>3 DEF IsLast, Earlier
  <2>2. CASE Following(hist, j) # {}
    <3>1. IsFirst(hist, Following(hist, j), k)
      BY <1>3, <2>2 DEF Later
    <3>2. j \in Preceding(hist, k)
      BY <1>2, <3>1 DEF IsFirst
    <3>3. ASSUME NEW i \in Preceding(hist, k), i # j PROVE Precedes(hist, i, j)
      <4>1. i \in StopsOf(hist) /\ Precedes(hist, i, k) /\ i # k
        BY <1>1, <1>2, <3>3
      <4>2. i \notin Following(hist, j)
        BY <1>1, <3>1, <4>1 DEF IsFirst
      <4> QED BY <1>1, <1>2, <3>3, <4>1, <4>2
    <3> QED BY <3>2, <3>3 DEF IsLast, Earlier
  <2> QED BY <2>1, <2>2
<1>4. ASSUME IsLast(hist, Earlier(hist, k), j) PROVE IsFirst(hist, Later(hist, j), k)
  <2>1. CASE Preceding(hist, k) = {}
    <3>1. IsLast(hist, StopsOf(hist), j)
      BY <1>4, <2>1 DEF Earlier
    <3>2. Following(hist, j) = {}
      BY <1>1, <1>2, <3>1 DEF IsLast
    <3>3. \A i \in StopsOf(hist) \ {k} : Precedes(hist, k, i)
      BY <1>1, <1>2, <2>1
    <3> QED BY <3>2, <3>3 DEF IsFirst, Later
  <2>2. CASE Preceding(hist, k) # {}
    <3>1. IsLast(hist, Preceding(hist, k), j)
      BY <1>4, <2>2 DEF Earlier
    <3>2. k \in Following(hist, j)
      BY <1>2, <3>1 DEF IsLast
    <3>3. ASSUME NEW i \in Following(hist, j), i # k PROVE Precedes(hist, k, i)
      <4>1. i \in StopsOf(hist) /\ Precedes(hist, j, i) /\ i # j
        BY <1>1, <1>2, <3>3
      <4>2. i \notin Preceding(hist, k)
        BY <1>1, <3>1, <4>1 DEF IsLast
      <4> QED BY <1>1, <1>2, <3>3, <4>1, <4>2
    <3> QED BY <3>2, <3>3 DEF IsFirst, Later
  <2> QED BY <2>1, <2>2
<1> QED BY <1>3, <1>4

LEMMA FrameGoesRound ==
  ASSUME rendered \in Seq(Ops), PaintedOnce(rendered)
  PROVE  TabGoesRound
<1> DEFINE K == StopsOf(rendered)
           stops == {rendered[k].id : k \in K}
           tab == [h \in Handles \cup {NoFocus} |-> NextOf(rendered, h)]
<1>1. K \subseteq NodesOf(rendered) /\ K \subseteq DOMAIN rendered
  BY StopsInHistory
<1>2. stops \subseteq Handles \cup {NoFocus}
  <2>1. \A k \in DOMAIN rendered : rendered[k] \in Ops
    OBVIOUS
  <2> QED BY <1>1, <2>1 DEF Ops
<1>3. ASSUME stops # {}, NEW h \in Handles \cup {NoFocus}
      PROVE  \E s \in stops : tab[h] = {s}
  <2>1. PICK i \in K : NextOf(rendered, h) = {rendered[i].id}
    BY <1>3, TabGoesSomewhere
  <2>2. tab[h] = {rendered[i].id} /\ rendered[i].id \in stops
    BY <2>1
  <2> QED BY <2>2
<1>4. ASSUME NEW S \in (SUBSET stops) \ {{}}, \A h \in S : tab[h] \subseteq S
      PROVE  S = stops
  <2> DEFINE J == {k \in K : rendered[k].id \in S}
  <2>1. J \subseteq K /\ J # {}
    <3>1. PICK s \in S : s \in stops
      <4> HIDE DEF stops
      <4>1. S # {} /\ S \subseteq stops
        OBVIOUS
      <4> QED BY <4>1
    <3>2. PICK k \in K : s = rendered[k].id
      BY <3>1
    <3> QED BY <3>1, <3>2
  <2>2. ASSUME NEW k \in J, NEW i, IsFirst(rendered, Later(rendered, k), i) PROVE i \in J
    <3>1. NextOf(rendered, rendered[k].id) = {rendered[i].id} /\ i \in K
      BY <1>1, <2>2, TabFromNode, StopsInHistory DEF IsFirst, Later
    <3>2. tab[rendered[k].id] = NextOf(rendered, rendered[k].id)
      BY <1>2
    <3> QED BY <1>4, <3>1, <3>2
  <2>3. J = K
    <3> HIDE DEF J, K
    <3> QED BY <2>1, <2>2, TabIsOneCycle DEF K
  <2> QED BY <1>4, <2>3
<1>5. TabVisitsEveryStop
  BY <1>3, <1>4, Zenon DEF TabVisitsEveryStop
<1>6. ASSUME NEW h \in stops, NEW g \in stops
      PROVE  NextOf(rendered, h) = {g} <=> PrevOf(rendered, g) = {h}
  <2>1. PICK j \in K : h = rendered[j].id
    OBVIOUS
  <2>2. PICK k \in K : g = rendered[k].id
    OBVIOUS
  <2>3. \A i \in K : (rendered[i].id = g => i = k) /\ (rendered[i].id = h => i = j)
    BY <1>1, <2>1, <2>2 DEF PaintedOnce
  <2>4. NextOf(rendered, h) = {g} <=> IsFirst(rendered, Later(rendered, j), k)
    <3>1. PICK i : IsFirst(rendered, Later(rendered, j), i)
      BY <1>1, TabFromNode
    <3>2. i \in K /\ NextOf(rendered, h) = {rendered[i].id}
      BY <1>1, <2>1, <3>1, TabFromNode, StopsInHistory DEF IsFirst, Later
    <3>3. ASSUME IsFirst(rendered, Later(rendered, j), k) PROVE NextOf(rendered, h) = {g}
      BY <1>1, <2>1, <2>2, <3>3, TabFromNode
    <3> QED BY <2>3, <3>1, <3>2, <3>3
  <2>5. PrevOf(rendered, g) = {h} <=> IsLast(rendered, Earlier(rendered, k), j)
    <3>1. PICK i : IsLast(rendered, Earlier(rendered, k), i)
      BY <1>1, TabFromNode
    <3>2. i \in K /\ PrevOf(rendered, g) = {rendered[i].id}
      BY <1>1, <2>2, <3>1, TabFromNode, StopsInHistory DEF IsLast, Earlier
    <3>3. ASSUME IsLast(rendered, Earlier(rendered, k), j) PROVE PrevOf(rendered, g) = {h}
      BY <1>1, <2>1, <2>2, <3>3, TabFromNode
    <3> QED BY <2>3, <3>1, <3>2, <3>3
  <2> QED BY <2>4, <2>5, ShiftTabGoesBack
<1>7. PrevUndoesNext
  BY <1>6, Zenon DEF PrevUndoesNext
<1> QED BY <1>5, <1>7 DEF TabGoesRound
------------------------------------------------------------------------------
(* A part of a history in another place: t is in u, behind the first c places, *)
(* with the same groups, and inserts of the same handles.                      *)

Copied(t, n, u, c) ==
  \A m \in 1..n : /\ u[c + m].op = t[m].op /\ u[c + m].id = t[m].id
                  /\ t[m].op = "group" => u[c + m].index = t[m].index

LEMMA DepthShift ==
  ASSUME NEW t, NEW u, NEW n \in Nat, NEW c \in Nat, Copied(t, n, u, c)
  PROVE  \A m \in 0..n : Depth(u, c + m) = Depth(u, c) + Depth(t, m)
<1> DEFINE Holds(m) == Depth(u, c + m) = Depth(u, c) + Depth(t, m)
           Bad == {m \in 0..n : ~Holds(m)}
<1>1. SUFFICES ASSUME Bad # {} PROVE FALSE
  OBVIOUS
<1>2. PICK m \in Bad : \A l \in Bad : m <= l
  <2>1. Bad \subseteq Nat
    OBVIOUS
  <2> HIDE DEF Bad
  <2> QED BY <1>1, <2>1, LeastNumber
<1>3. m \in 0..n /\ ~Holds(m)
  OBVIOUS
<1>4. m # 0
  <2>1. c + 0 = c /\ Depth(u, c) \in Int /\ Depth(t, 0) = 0
    BY DepthSteps
  <2>2. Depth(u, c + 0) = Depth(u, c) + Depth(t, 0)
    BY <2>1
  <2> QED BY <1>3, <2>2
<1>5. m - 1 \in 0..n /\ (m - 1) + 1 = m /\ (c + (m - 1)) + 1 = c + m /\ c + (m - 1) \in Nat /\ m - 1 \in Nat
      /\ m \in 1..n /\ ~(m <= m - 1)
  BY <1>3, <1>4
<1>6. Holds(m - 1)
  <2>1. m - 1 \notin Bad
    <3> HIDE DEF Bad
    <3> QED BY <1>2, <1>5
  <2> QED BY <1>5, <2>1
<1>7. u[c + m].op = t[m].op
  BY <1>5 DEF Copied
<1>8. /\ Depth(u, c + m) = Depth(u, c + (m - 1)) + (IF u[c + m].op = "group" THEN 1 ELSE 0)
                                                 - (IF u[c + m].op = "end" THEN 1 ELSE 0)
      /\ Depth(t, m) = Depth(t, m - 1) + (IF t[m].op = "group" THEN 1 ELSE 0)
                                       - (IF t[m].op = "end" THEN 1 ELSE 0)
  BY <1>5, DepthSteps
<1>9. Depth(u, c) \in Int /\ Depth(t, m - 1) \in Int /\ Depth(u, c + (m - 1)) = Depth(u, c) + Depth(t, m - 1)
  BY <1>5, <1>6, DepthSteps
<1> QED BY <1>3, <1>7, <1>8, <1>9

LEMMA SamePrefixDepth ==
  ASSUME NEW t, NEW u, NEW n \in Nat, \A m \in 1..n : u[m] = t[m]
  PROVE  \A m \in 0..n : Depth(u, m) = Depth(t, m)
<1>1. Copied(t, n, u, 0)
  <2>1. \A m \in 1..n : 0 + m = m
    OBVIOUS
  <2> QED BY <2>1 DEF Copied
<1>2. \A m \in 0..n : Depth(u, 0 + m) = Depth(u, 0) + Depth(t, m)
  BY <1>1, DepthShift
<1>3. \A m \in 0..n : 0 + m = m /\ m \in Nat
  OBVIOUS
<1> QED BY <1>2, <1>3, DepthSteps

\* The part is closed to what is before it: no end in it ends a group from outside.
Closed(t, n) == \A m \in 0..n : Depth(t, m) >= 0

LEMMA GroupAtShift ==
  ASSUME NEW t, NEW u, NEW n \in Nat, NEW c \in Nat, Copied(t, n, u, c), Closed(t, n),
         NEW m \in 1..n, NEW d \in Nat \ {0}, d <= Depth(u, c) + Depth(t, m), Depth(u, c) >= 0
  PROVE  GroupAt(u, c + m, d) = IF d <= Depth(u, c) THEN GroupAt(u, c, d)
                                                    ELSE c + GroupAt(t, m, d - Depth(u, c))
<1> DEFINE D == Depth(u, c)
           g == GroupAt(u, c + m, d)
<1>1. D \in Nat /\ m \in Nat /\ c + m \in Nat /\ Depth(t, m) \in Nat
  <2>1. D \in Int
    BY DepthSteps
  <2>2. m \in Nat /\ m \in 0..n
    OBVIOUS
  <2>3. Depth(t, m) \in Int
    BY <2>2, DepthSteps
  <2> QED BY <2>1, <2>2, <2>3 DEF Closed
<1>2. /\ \A l \in 0..n : Depth(u, c + l) = D + Depth(t, l)
      /\ \A l \in 1..n : u[c + l].op = t[l].op
  <2>1. \A l \in 0..n : Depth(u, c + l) = D + Depth(t, l)
    BY DepthShift
  <2>2. \A l \in 1..n : u[c + l].op = t[l].op
    BY DEF Copied
  <2> QED BY <2>1, <2>2
<1>3. d <= Depth(u, c + m)
  BY <1>1, <1>2
<1>4. /\ g \in 1..(c + m) /\ u[g].op = "group" /\ Depth(u, g) = d
      /\ \A j \in 1..(c + m) : u[j].op = "group" /\ Depth(u, j) = d => j <= g
  BY <1>1, <1>3, GroupAtIsThere
\* A group in the part is deeper than all that is open before it.
<1>5. ASSUME NEW l \in 1..m, t[l].op = "group" PROVE Depth(t, l) >= 1 /\ Depth(t, l) \in Int
  <2>1. l - 1 \in 0..n /\ l - 1 \in Nat /\ (l - 1) + 1 = l
    OBVIOUS
  <2>2. /\ Depth(t, l - 1) \in Int
        /\ Depth(t, l) = Depth(t, l - 1) + (IF t[l].op = "group" THEN 1 ELSE 0)
                                         - (IF t[l].op = "end" THEN 1 ELSE 0)
    BY <2>1, DepthSteps
  <2>3. Depth(t, l) = Depth(t, l - 1) + 1
    BY <1>5, <2>2
  <2> QED BY <2>1, <2>2, <2>3 DEF Closed
<1>6. CASE d <= D
  <2> DEFINE h == GroupAt(u, c, d)
  <2>1. /\ h \in 1..c /\ u[h].op = "group" /\ Depth(u, h) = d
        /\ \A j \in 1..c : u[j].op = "group" /\ Depth(u, j) = d => j <= h
    BY <1>6, GroupAtIsThere
  <2>2. g \in 1..c
    <3>1. SUFFICES ASSUME g \notin 1..c PROVE FALSE
      OBVIOUS
    <3>2. g - c \in 1..m /\ c + (g - c) = g
      BY <1>1, <1>4, <3>1
    <3>3. t[g - c].op = "group" /\ Depth(u, g) = D + Depth(t, g - c)
      BY <1>2, <1>4, <3>2
    <3> QED BY <1>1, <1>4, <1>5, <1>6, <3>2, <3>3
  <2>3. g <= h /\ h <= g
    BY <1>1, <1>4, <2>1, <2>2
  <2> QED BY <1>6, <2>1, <2>2, <2>3
<1>7. CASE ~(d <= D)
  <2> DEFINE e == d - D
             h == GroupAt(t, m, e)
  <2>1. e \in Nat \ {0} /\ e <= Depth(t, m) /\ D + e = d
    BY <1>1, <1>7
  <2>2. /\ h \in 1..m /\ t[h].op = "group" /\ Depth(t, h) = e
        /\ \A j \in 1..m : t[j].op = "group" /\ Depth(t, j) = e => j <= h
    BY <1>1, <2>1, GroupAtIsThere
  <2>3. u[c + h].op = "group" /\ Depth(u, c + h) = d /\ c + h \in 1..(c + m)
    BY <1>1, <1>2, <2>1, <2>2
  <2>4. c + h <= g
    BY <1>4, <2>3
  <2>5. g - c \in 1..m /\ c + (g - c) = g
    BY <1>1, <1>4, <2>2, <2>4
  <2>6. t[g - c].op = "group" /\ Depth(u, g) = D + Depth(t, g - c)
    BY <1>2, <1>4, <2>5
  <2>7. Depth(t, g - c) = e
    BY <1>1, <1>4, <1>5, <2>1, <2>5, <2>6
  <2>8. g - c <= h
    BY <2>2, <2>5, <2>6, <2>7
  <2>9. g = c + h
    BY <1>1, <1>4, <2>2, <2>4, <2>8
  <2> QED BY <1>7, <2>9
<1> QED BY <1>6, <1>7

\* The path of a node that was moved: that of the groups it came into, then its own.
LEMMA PathShift ==
  ASSUME NEW t \in Seq(Ops), NEW u \in Seq(Ops), NEW n \in Nat, NEW c \in Nat,
         n <= Len(t), c + n <= Len(u), Copied(t, n, u, c), Closed(t, n), Depth(u, c) >= 0,
         NEW m \in 1..n, u[c + m].index = t[m].index
  PROVE  /\ Path(u, c + m) \in Seq(Int) /\ Path(t, m) \in Seq(Int)
         /\ Len(Path(u, c + m)) = Depth(u, c) + Len(Path(t, m))
         /\ \A d \in 1..Depth(u, c) : Path(u, c + m)[d] = u[GroupAt(u, c, d)].index
         /\ \A d \in 1..Len(Path(t, m)) : Path(u, c + m)[Depth(u, c) + d] = Path(t, m)[d]
<1> DEFINE D == Depth(u, c)
           E == Depth(t, m)
<1>1. D \in Nat /\ m \in Nat /\ c + m \in Nat /\ E \in Nat
  <2>1. D \in Int
    BY DepthSteps
  <2>2. m \in Nat /\ m \in 0..n
    OBVIOUS
  <2>3. E \in Int
    BY <2>2, DepthSteps
  <2> QED BY <2>1, <2>2, <2>3 DEF Closed
<1>2. m \in DOMAIN t /\ c + m \in DOMAIN u
  <2>1. DOMAIN t = 1..Len(t) /\ DOMAIN u = 1..Len(u) /\ Len(t) \in Nat /\ Len(u) \in Nat
    OBVIOUS
  <2> QED BY <1>1, <2>1
<1>3. Depth(u, c + m) = D + E
  <2>1. m \in 0..n
    OBVIOUS
  <2>2. \A x \in 0..n : Depth(u, c + x) = D + Depth(t, x)
    BY DepthShift
  <2> QED BY <2>1, <2>2
<1>4. /\ Path(u, c + m) \in Seq(Int) /\ Path(t, m) \in Seq(Int)
      /\ Len(Path(u, c + m)) = D + E + 1 /\ Len(Path(t, m)) = E + 1
  BY <1>1, <1>2, <1>3, PathType, SMTT(30)
<1>5. /\ Path(u, c + m) = [d \in 1..(D + E + 1) |->
           IF d = D + E + 1 THEN u[c + m].index ELSE u[GroupAt(u, c + m, d)].index]
      /\ Path(t, m) = [d \in 1..(E + 1) |->
           IF d = E + 1 THEN t[m].index ELSE t[GroupAt(t, m, d)].index]
  BY <1>3 DEF Path
<1>6. ASSUME NEW d \in 1..D PROVE Path(u, c + m)[d] = u[GroupAt(u, c, d)].index
  <2>1. d \in Nat \ {0} /\ d <= D /\ d <= D + E /\ d \in 1..(D + E + 1) /\ d # D + E + 1
    BY <1>1
  <2>2. GroupAt(u, c + m, d) = GroupAt(u, c, d)
    BY <2>1, GroupAtShift, ZenonT(30)
  <2> QED BY <1>5, <2>1, <2>2
<1>7. ASSUME NEW d \in 1..(E + 1) PROVE Path(u, c + m)[D + d] = Path(t, m)[d]
  <2>1. D + d \in 1..(D + E + 1)
    BY <1>1
  <2>2. CASE d = E + 1
    <3>1. D + d = D + E + 1 /\ d \in 1..(E + 1)
      BY <1>1, <2>2
    <3>2. Path(u, c + m)[D + d] = u[c + m].index
      BY <1>5, <2>1, <3>1
    <3>3. Path(t, m)[d] = t[m].index
      BY <1>5, <2>2, <3>1
    <3> QED BY <3>2, <3>3
  <2>3. CASE d # E + 1
    <3>1. D + d \in Nat \ {0} /\ D + d <= D + E /\ ~(D + d <= D) /\ (D + d) - D = d /\ D + d # D + E + 1
      BY <1>1, <2>3
    <3>2. GroupAt(u, c + m, D + d) = c + GroupAt(t, m, d)
      BY <3>1, GroupAtShift
    <3>3. GroupAt(t, m, d) \in 1..m /\ t[GroupAt(t, m, d)].op = "group"
      <4>1. d \in Nat \ {0} /\ d <= Depth(t, m)
        BY <1>1, <2>3
      <4> QED BY <1>1, <4>1, GroupAtIsThere
    <3>4. u[c + GroupAt(t, m, d)].index = t[GroupAt(t, m, d)].index
      <4>1. GroupAt(t, m, d) \in 1..n
        BY <1>1, <3>3
      <4> QED BY <3>3, <4>1 DEF Copied
    <3>5. Path(u, c + m)[D + d] = u[c + GroupAt(t, m, d)].index
      BY <1>5, <2>1, <3>1, <3>2
    <3>6. Path(t, m)[d] = t[GroupAt(t, m, d)].index
      BY <1>5, <2>3
    <3> QED BY <3>4, <3>5, <3>6
  <2> QED BY <2>2, <2>3
<1>8. Len(Path(u, c + m)) = D + Len(Path(t, m))
  <2> DEFINE L == Len(Path(u, c + m))
             M == Len(Path(t, m))
  <2>1. L = D + E + 1 /\ M = E + 1
    BY <1>4
  <2> HIDE DEF D, E, L, M
  <2>2. L = D + M
    BY <1>1, <2>1
  <2> QED BY <2>2 DEF L, M
<1>9. \A d \in 1..Len(Path(t, m)) : Path(u, c + m)[D + d] = Path(t, m)[d]
  BY <1>4, <1>7
<1> QED BY <1>4, <1>6, <1>8, <1>9

\* Two paths that begin alike for D steps, and go on as p and q.
Behind(D, P, Q, p, q) ==
  /\ P \in Seq(Int) /\ Q \in Seq(Int) /\ p \in Seq(Int) /\ q \in Seq(Int)
  /\ Len(P) = D + Len(p) /\ Len(Q) = D + Len(q)
  /\ \A d \in 1..D : P[d] = Q[d]
  /\ \A d \in 1..Len(p) : P[D + d] = p[d]
  /\ \A d \in 1..Len(q) : Q[D + d] = q[d]

\* They are ordered by what follows.
LEMMA PathsBehind ==
  ASSUME NEW D \in Nat, NEW P, NEW Q, NEW p, NEW q, Behind(D, P, Q, p, q)
  PROVE  (PathBefore(P, Q) <=> PathBefore(p, q)) /\ (P = Q <=> p = q)
<1>1. D \in Nat
  OBVIOUS
<1>2. /\ P \in Seq(Int) /\ Q \in Seq(Int) /\ p \in Seq(Int) /\ q \in Seq(Int)
      /\ Len(P) = D + Len(p) /\ Len(Q) = D + Len(q)
      /\ \A d \in 1..D : P[d] = Q[d]
      /\ \A d \in 1..Len(p) : P[D + d] = p[d]
      /\ \A d \in 1..Len(q) : Q[D + d] = q[d]
  BY DEF Behind
<1>0. /\ D \in Nat /\ Len(P) \in Nat /\ Len(Q) \in Nat /\ Len(p) \in Nat /\ Len(q) \in Nat
      /\ Len(P) = D + Len(p) /\ Len(Q) = D + Len(q)
  BY <1>1, <1>2
<1>5. PathBefore(P, Q) => PathBefore(p, q)
  <2>1. SUFFICES ASSUME PathBefore(P, Q) PROVE PathBefore(p, q)
    OBVIOUS
  <2>2. PICK l \in 0..Len(P) :
          /\ l <= Len(Q) /\ \A d \in 1..l : P[d] = Q[d]
          /\ IF l = Len(P) THEN l < Len(Q) ELSE l < Len(Q) /\ P[l + 1] < Q[l + 1]
    BY <2>1 DEF PathBefore
  <2>3. l >= D
    <3>1. SUFFICES ASSUME l < D PROVE FALSE
      BY <1>1, <1>2
    <3>2. l + 1 \in 1..D /\ l # Len(P) /\ l \in Nat
      BY <1>1, <1>2, <3>1
    <3>3. P[l + 1] = Q[l + 1] /\ P[l + 1] \in Int
      BY <1>1, <1>2, <3>2, SMTT(30)
    <3> QED BY <2>2, <3>2, <3>3
  <2>4. l - D \in 0..Len(p) /\ l - D <= Len(q)
    BY <1>0, <2>2, <2>3
  <2>5. \A d \in 1..(l - D) : p[d] = q[d]
    <3>1. ASSUME NEW d \in 1..(l - D) PROVE p[d] = q[d]
      <4>1. d \in 1..Len(p) /\ d \in 1..Len(q) /\ D + d \in 1..l
        BY <1>0, <2>4
      <4>2. P[D + d] = Q[D + d]
        BY <2>2, <4>1
      <4> QED BY <1>2, <4>1, <4>2
    <3> QED BY <3>1
  <2>6. l = Len(P) <=> l - D = Len(p)
    BY <1>1, <1>2, <2>4
  <2>7. l < Len(Q) <=> l - D < Len(q)
    BY <1>1, <1>2, <2>4
  <2>8. CASE l = Len(P)
    BY <2>2, <2>4, <2>5, <2>6, <2>7, <2>8 DEF PathBefore
  <2>9. CASE l # Len(P)
    <3>1. (l - D) + 1 \in 1..Len(p) /\ (l - D) + 1 \in 1..Len(q) /\ D + ((l - D) + 1) = l + 1
      BY <1>0, <2>2, <2>4, <2>7, <2>9
    <3>2. P[D + ((l - D) + 1)] < Q[D + ((l - D) + 1)]
      BY <2>2, <2>9, <3>1
    <3>3. p[(l - D) + 1] < q[(l - D) + 1]
      BY <1>2, <3>1, <3>2
    <3> QED BY <2>2, <2>4, <2>5, <2>6, <2>7, <2>9, <3>3 DEF PathBefore
  <2> QED BY <2>8, <2>9
<1>6. PathBefore(p, q) => PathBefore(P, Q)
  <2>1. SUFFICES ASSUME PathBefore(p, q) PROVE PathBefore(P, Q)
    OBVIOUS
  <2>2. PICK l \in 0..Len(p) :
          /\ l <= Len(q) /\ \A d \in 1..l : p[d] = q[d]
          /\ IF l = Len(p) THEN l < Len(q) ELSE l < Len(q) /\ p[l + 1] < q[l + 1]
    BY <2>1 DEF PathBefore
  <2>3. D + l \in 0..Len(P) /\ D + l <= Len(Q)
    BY <1>0, <2>2
  <2>4. \A d \in 1..(D + l) : P[d] = Q[d]
    <3>1. ASSUME NEW d \in 1..(D + l), ~(d \in 1..D) PROVE P[d] = Q[d]
      <4>1. d - D \in 1..l /\ d - D \in 1..Len(p) /\ d - D \in 1..Len(q) /\ D + (d - D) = d
        BY <1>0, <2>2, <3>1
      <4>2. p[d - D] = q[d - D]
        BY <2>2, <4>1
      <4>3. P[D + (d - D)] = p[d - D] /\ Q[D + (d - D)] = q[d - D]
        BY <1>2, <4>1
      <4> QED BY <4>1, <4>2, <4>3
    <3> QED BY <1>2, <3>1
  <2>5. (D + l = Len(P) <=> l = Len(p)) /\ (D + l < Len(Q) <=> l < Len(q))
    <3> DEFINE x == Len(p)
               y == Len(q)
               X == Len(P)
               Y == Len(Q)
    <3>1. /\ D \in Nat /\ l \in Nat /\ x \in Nat /\ y \in Nat /\ X \in Nat /\ Y \in Nat
          /\ X = D + x /\ Y = D + y
      BY <1>0
    <3> HIDE DEF x, y, X, Y
    <3>2. (D + l = X <=> l = x) /\ (D + l < Y <=> l < y)
      BY <3>1
    <3> QED BY <3>2 DEF x, y, X, Y
  <2>6. CASE l = Len(p)
    BY <2>2, <2>3, <2>4, <2>5, <2>6 DEF PathBefore
  <2>7. CASE l # Len(p)
    <3>1. l + 1 \in 1..Len(p) /\ l + 1 \in 1..Len(q) /\ D + (l + 1) = (D + l) + 1
      BY <1>0, <2>2, <2>7
    <3>2. P[D + (l + 1)] = p[l + 1] /\ Q[D + (l + 1)] = q[l + 1]
      BY <1>2, <3>1
    <3>3. P[(D + l) + 1] < Q[(D + l) + 1]
      BY <2>2, <2>7, <3>1, <3>2
    <3> QED BY <2>2, <2>3, <2>4, <2>5, <2>7, <3>3 DEF PathBefore
  <2> QED BY <2>6, <2>7
<1>7. P = Q <=> p = q
  <2>1. ASSUME p = q PROVE P = Q
    <3>1. \A d \in 1..Len(P) : P[d] = Q[d]
      <4>1. ASSUME NEW d \in 1..Len(P), ~(d \in 1..D) PROVE P[d] = Q[d]
        <5>1. d - D \in 1..Len(p) /\ D + (d - D) = d
          BY <1>1, <1>2, <4>1
        <5> QED BY <1>2, <2>1, <5>1, ZenonT(30)
      <4> QED BY <1>2, <4>1
    <3> QED BY <1>2, <2>1, <3>1, SeqEqual
  <2>2. ASSUME P = Q PROVE p = q
    <3>1. Len(p) = Len(q)
      BY <1>1, <1>2, <2>2
    <3>2. \A d \in 1..Len(p) : p[d] = q[d]
      BY <1>2, <2>2, <3>1
    <3> QED BY <1>2, <3>1, <3>2, SeqEqual
  <2> QED BY <2>1, <2>2
<1> QED BY <1>5, <1>6, <1>7

\* So what it precedes in its part stays the same (TabStopMap::replay).
LEMMA PrecedesShift ==
  ASSUME NEW t \in Seq(Ops), NEW u \in Seq(Ops), NEW n \in Nat, NEW c \in Nat,
         n <= Len(t), c + n <= Len(u), Copied(t, n, u, c), Closed(t, n), Depth(u, c) >= 0,
         NEW j \in 1..n, NEW k \in 1..n,
         u[c + j].index = t[j].index, u[c + k].index = t[k].index
  PROVE  Precedes(u, c + j, c + k) <=> Precedes(t, j, k)
<1> DEFINE D == Depth(u, c)
           p == Path(t, j)
           q == Path(t, k)
           P == Path(u, c + j)
           Q == Path(u, c + k)
<1>1. D \in Nat
  BY DepthSteps
<1>2. /\ P \in Seq(Int) /\ Q \in Seq(Int) /\ p \in Seq(Int) /\ q \in Seq(Int)
      /\ Len(P) = D + Len(p) /\ Len(Q) = D + Len(q)
      /\ \A d \in 1..D : P[d] = Q[d]
      /\ \A d \in 1..Len(p) : P[D + d] = p[d]
      /\ \A d \in 1..Len(q) : Q[D + d] = q[d]
  <2>1. \A m \in 1..n : u[c + m].index = t[m].index =>
          /\ Path(u, c + m) \in Seq(Int) /\ Path(t, m) \in Seq(Int)
          /\ Len(Path(u, c + m)) = Depth(u, c) + Len(Path(t, m))
          /\ \A d \in 1..Depth(u, c) : Path(u, c + m)[d] = u[GroupAt(u, c, d)].index
          /\ \A d \in 1..Len(Path(t, m)) : Path(u, c + m)[Depth(u, c) + d] = Path(t, m)[d]
    BY PathShift, ZenonT(30)
  <2>2. /\ P \in Seq(Int) /\ p \in Seq(Int) /\ Len(P) = D + Len(p)
        /\ \A d \in 1..D : P[d] = u[GroupAt(u, c, d)].index
        /\ \A d \in 1..Len(p) : P[D + d] = p[d]
    BY <2>1, Zenon
  <2>3. /\ Q \in Seq(Int) /\ q \in Seq(Int) /\ Len(Q) = D + Len(q)
        /\ \A d \in 1..D : Q[d] = u[GroupAt(u, c, d)].index
        /\ \A d \in 1..Len(q) : Q[D + d] = q[d]
    BY <2>1, Zenon
  <2> HIDE DEF D, p, q, P, Q
  <2> QED BY <2>2, <2>3
<1>3. Precedes(u, c + j, c + k) <=> PathBefore(P, Q) \/ (P = Q /\ c + j < c + k)
  BY DEF Precedes
<1>4. Precedes(t, j, k) <=> PathBefore(p, q) \/ (p = q /\ j < k)
  BY DEF Precedes
<1> HIDE DEF P, Q, p, q, D
<1>5. (PathBefore(P, Q) <=> PathBefore(p, q)) /\ (P = Q <=> p = q)
  <2>1. Behind(D, P, Q, p, q)
    BY <1>2 DEF Behind
  <2> QED BY <1>1, <2>1, PathsBehind
<1>8. c + j < c + k <=> j < k
  OBVIOUS
<1> QED BY <1>3, <1>4, <1>5, <1>8
------------------------------------------------------------------------------
(* What a paint leaves in the histories.                                       *)

\* Groups end that were begun, and no handle is in two places.
Sound(hist) == PaintedOnce(hist) /\ Closed(hist, Len(hist))
Painted == Sound(rendered) /\ Sound(next)

LEMMA EmptySound == Sound(<<>>)
<1>1. Len(<<>>) = 0 /\ NodesOf(<<>>) = {}
  BY DEF NodesOf
<1>2. \A m \in 0..0 : m = 0
  OBVIOUS
<1> QED BY <1>1, <1>2, DepthSteps DEF Sound, PaintedOnce, Closed

LEMMA AppendSound ==
  ASSUME NEW hist \in Seq(Ops), NEW o \in Ops, Sound(hist),
         o.op = "end" => Depth(hist, Len(hist)) > 0,
         o.op = "insert" => NodesOfId(hist, o.id) = {}
  PROVE  Sound(Append(hist, o))
<1> DEFINE s == Append(hist, o)
           n == Len(hist)
<1>1. /\ Len(s) = n + 1 /\ n \in Nat /\ s[n + 1] = o
      /\ \A k \in 1..n : s[k] = hist[k]
      /\ s \in Seq(Ops) /\ DOMAIN s = 1..(n + 1) /\ DOMAIN hist = 1..n
  BY AppendProperties
<1> HIDE DEF s, n
<1>2. \A m \in 0..n : Depth(s, m) = Depth(hist, m)
  BY <1>1, SamePrefixDepth
<1>3. \A m \in 0..n : Depth(hist, m) >= 0
  BY DEF Sound, Closed, n
<1>4. Depth(s, n + 1) >= 0
  <2>1. /\ Depth(s, n + 1) = Depth(s, n) + (IF s[n + 1].op = "group" THEN 1 ELSE 0)
                                         - (IF s[n + 1].op = "end" THEN 1 ELSE 0)
        /\ Depth(s, n) \in Int
    BY <1>1, DepthSteps
  <2>2. Depth(s, n) = Depth(hist, n) /\ Depth(s, n) >= 0
    BY <1>1, <1>2, <1>3
  <2>3. o.op = "end" => Depth(hist, n) > 0
    BY DEF n
  <2> QED BY <1>1, <2>1, <2>2, <2>3
<1>5. Closed(s, Len(s))
  <2>1. ASSUME NEW m \in 0..(n + 1) PROVE m \in 0..n \/ m = n + 1
    BY <1>1
  <2> QED BY <1>1, <1>2, <1>3, <1>4, <2>1 DEF Closed
<1>6. PaintedOnce(s)
  <2>1. NodesOf(s) \subseteq NodesOf(hist) \cup {n + 1}
    BY <1>1 DEF NodesOf
  <2>2. \A k \in NodesOf(hist) : s[k].id = hist[k].id
    BY <1>1 DEF NodesOf
  <2>3. n + 1 \in NodesOf(s) => \A k \in NodesOf(hist) : hist[k].id # o.id
    BY <1>1 DEF NodesOf, NodesOfId
  <2> QED BY <1>1, <2>1, <2>2, <2>3 DEF Sound, PaintedOnce
<1> QED BY <1>5, <1>6 DEF Sound, s

LEMMA SubSeqSound ==
  ASSUME NEW hist \in Seq(Ops), PaintedOnce(hist), NEW a \in DOMAIN hist, NEW b \in DOMAIN hist, a <= b
  PROVE  LET t == SubSeq(hist, a, b)
         IN  /\ t \in Seq(Ops) /\ Len(t) = b - a + 1 /\ PaintedOnce(t)
             /\ Copied(t, Len(t), hist, a - 1) /\ a - 1 \in Nat /\ (a - 1) + Len(t) <= Len(hist)
             /\ \A m \in 1..Len(t) : hist[(a - 1) + m] = t[m]
<1> DEFINE t == SubSeq(hist, a, b)
<1>1. a \in 1..Len(hist) /\ b \in 1..Len(hist) /\ Len(hist) \in Nat
  OBVIOUS
<1>2. t \in Seq(Ops) /\ Len(t) = b - a + 1 /\ DOMAIN t = 1..(b - a + 1)
  BY <1>1, SubSeqProperties
<1>3. \A k \in 1..(b - a + 1) : t[k] = hist[a + k - 1]
  BY <1>1, SubSeqProperties, SMTT(30)
<1>4. \A k \in 1..(b - a + 1) : a + k - 1 = (a - 1) + k /\ (a - 1) + k \in DOMAIN hist
  BY <1>1
<1> HIDE DEF t
<1>5. Copied(t, Len(t), hist, a - 1) /\ \A m \in 1..Len(t) : hist[(a - 1) + m] = t[m]
  BY <1>2, <1>3, <1>4 DEF Copied
<1>6. PaintedOnce(t)
  <2>1. ASSUME NEW j \in NodesOf(t), NEW k \in NodesOf(t), t[j].id = t[k].id PROVE j = k
    <3>1. j \in 1..(b - a + 1) /\ k \in 1..(b - a + 1)
      BY <1>2 DEF NodesOf
    <3>2. (a - 1) + j \in NodesOf(hist) /\ (a - 1) + k \in NodesOf(hist)
      BY <1>3, <1>4, <2>1, <3>1 DEF NodesOf
    <3>3. (a - 1) + j = (a - 1) + k
      BY <1>3, <1>4, <2>1, <3>1, <3>2, ZenonT(30) DEF PaintedOnce
    <3> QED BY <1>1, <3>1, <3>3
  <2> QED BY <2>1 DEF PaintedOnce
<1>7. a - 1 \in Nat /\ (a - 1) + Len(t) <= Len(hist)
  BY <1>1, <1>2
<1> QED BY <1>2, <1>5, <1>6, <1>7 DEF t

LEMMA ConcatSound ==
  ASSUME NEW s \in Seq(Ops), NEW t \in Seq(Ops), Sound(s), PaintedOnce(t), Closed(t, Len(t)),
         \A k \in NodesOf(t) : NodesOfId(s, t[k].id) = {}
  PROVE  /\ Sound(s \o t) /\ Depth(s \o t, Len(s)) >= 0
         /\ \A m \in 1..Len(t) : (s \o t)[Len(s) + m] = t[m]
<1> DEFINE u == s \o t
           c == Len(s)
           n == Len(t)
<1>1. /\ u \in Seq(Ops) /\ Len(u) = c + n /\ c \in Nat /\ n \in Nat
      /\ DOMAIN u = 1..(c + n) /\ DOMAIN s = 1..c /\ DOMAIN t = 1..n
      /\ \A k \in 1..(c + n) : u[k] = IF k <= c THEN s[k] ELSE t[k - c]
  BY ConcatProperties
<1> HIDE DEF u
<1>2. Copied(t, n, u, c) /\ \A m \in 1..n : u[c + m] = t[m]
  <2>1. \A k \in 1..n : c + k \in 1..(c + n) /\ ~(c + k <= c) /\ (c + k) - c = k
    BY <1>1
  <2> QED BY <1>1, <2>1 DEF Copied
<1>3. \A k \in 1..c : u[k] = s[k]
  BY <1>1
<1>4. \A m \in 0..c : Depth(u, m) = Depth(s, m) /\ Depth(u, m) >= 0
  BY <1>1, <1>3, SamePrefixDepth, ZenonT(30) DEF Sound, Closed
<1>5. Depth(u, c) >= 0 /\ Depth(u, c) \in Int
  BY <1>1, <1>4, DepthSteps
<1>6. \A m \in 0..n : Depth(u, c + m) = Depth(u, c) + Depth(t, m) /\ Depth(t, m) >= 0
  BY <1>1, <1>2, DepthShift DEF Closed
<1>7. Closed(u, Len(u))
  <2>1. ASSUME NEW m \in 0..(c + n), ~(m \in 0..c) PROVE Depth(u, m) >= 0
    <3>1. m - c \in 0..n /\ c + (m - c) = m /\ m - c \in Nat
      BY <1>1, <2>1
    <3>2. Depth(t, m - c) \in Int
      BY <3>1, DepthSteps
    <3> QED BY <1>5, <1>6, <3>1, <3>2
  <2> QED BY <1>1, <1>4, <2>1 DEF Closed
<1>8. PaintedOnce(u)
  <2>1. ASSUME NEW k \in NodesOf(u) PROVE \/ k \in NodesOf(s) /\ u[k] = s[k]
                                          \/ k - c \in NodesOf(t) /\ u[k] = t[k - c]
    <3>1. CASE k <= c
      BY <1>1, <2>1, <3>1 DEF NodesOf
    <3>2. CASE ~(k <= c)
      <4>1. k \in 1..(c + n) /\ k - c \in 1..n /\ u[k] = t[k - c]
        BY <1>1, <2>1, <3>2 DEF NodesOf
      <4> QED BY <1>1, <2>1, <4>1 DEF NodesOf
    <3> QED BY <3>1, <3>2
  <2>2. \A j \in NodesOf(s), k \in NodesOf(t) : s[j].id # t[k].id
    BY DEF NodesOfId
  <2>3. ASSUME NEW j \in NodesOf(u), NEW k \in NodesOf(u), u[j].id = u[k].id PROVE j = k
    <3>0. j \in Int /\ k \in Int
      BY <1>1 DEF NodesOf
    <3>1. CASE j \in NodesOf(s) /\ u[j] = s[j] /\ k \in NodesOf(s) /\ u[k] = s[k]
      BY <2>3, <3>1 DEF Sound, PaintedOnce
    <3>2. CASE j - c \in NodesOf(t) /\ u[j] = t[j - c] /\ k - c \in NodesOf(t) /\ u[k] = t[k - c]
      <4>1. j - c = k - c
        BY <2>3, <3>2 DEF PaintedOnce
      <4> QED BY <1>1, <3>0, <4>1
    <3> QED BY <2>1, <2>2, <2>3, <3>1, <3>2
  <2> QED BY <2>3 DEF PaintedOnce
<1> QED BY <1>2, <1>5, <1>7, <1>8 DEF Sound, u

\* Reuse in terms of the part that is replayed.
LEMMA ReusedPart ==
  ASSUME FocusInv, Painted, NEW a \in DOMAIN rendered, NEW b \in DOMAIN rendered, a <= b, Reuse(a, b)
  PROVE  LET t == SubSeq(rendered, a, b)
         IN  /\ t \in Seq(Ops) /\ Closed(t, Len(t)) /\ Len(t) = b - a + 1
             /\ Copied(t, Len(t), rendered, a - 1) /\ a - 1 \in Nat /\ (a - 1) + Len(t) <= Len(rendered)
             /\ \A m \in 1..Len(t) : /\ rendered[(a - 1) + m] = t[m]
                                      /\ next'[Len(next) + m] = Again(t[m])
             /\ next' \in Seq(Ops) /\ Len(next') = Len(next) + Len(t) /\ rendered' = rendered
             /\ Sound(next') /\ Copied(t, Len(t), next', Len(next)) /\ Depth(next', Len(next)) >= 0
<1> DEFINE t == SubSeq(rendered, a, b)
           r == Replayed(t)
<1>1. /\ t \in Seq(Ops) /\ PaintedOnce(t) /\ Len(t) = b - a + 1
      /\ Copied(t, Len(t), rendered, a - 1) /\ a - 1 \in Nat /\ (a - 1) + Len(t) <= Len(rendered)
      /\ \A m \in 1..Len(t) : rendered[(a - 1) + m] = t[m]
  BY SubSeqSound DEF FocusInv, FocusTypeOK, Painted, Sound
<1>2. /\ next' = next \o r /\ rendered' = rendered
      /\ \A k \in DOMAIN t : Depth(t, k) >= 0
      /\ \A h \in {o.id : o \in {t[k] : k \in NodesOf(t)}} : NodesOfId(next, h) = {}
  BY Zenon DEF Reuse
<1>3. Ids(t) \subseteq DOMAIN refs
  <2>1. Ids(t) \subseteq Ids(rendered) /\ Ids(t) \subseteq Handles
    BY <1>1, SubSeqIds, IdsAreHandles DEF FocusInv, FocusTypeOK
  <2> QED BY <2>1, HandlesExist
<1> HIDE DEF t
<1>4. /\ r \in Seq(Ops) /\ Len(r) = Len(t) /\ DOMAIN t = 1..Len(t) /\ Len(t) \in Nat
      /\ \A m \in 1..Len(t) :
           /\ r[m] = Again(t[m]) /\ r[m].op = t[m].op /\ r[m].id = t[m].id
           /\ t[m].op # "insert" => r[m] = t[m]
      /\ NodesOf(r) = NodesOf(t)
  <2>1. DOMAIN t = 1..Len(t) /\ Len(t) \in Nat
    BY <1>1
  <2> HIDE DEF r
  <2> QED BY <1>1, <1>3, <2>1, ReplayedOps DEF FocusInv, r
<1> HIDE DEF r
<1>5. Closed(t, Len(t))
  <2>1. ASSUME NEW m \in 0..Len(t), m # 0 PROVE Depth(t, m) >= 0
    <3>1. m \in DOMAIN t
      BY <1>4, <2>1
    <3> QED BY <1>2, <3>1
  <2> QED BY <2>1, DepthSteps DEF Closed
<1>6. Closed(r, Len(r))
  <2>1. Copied(t, Len(t), r, 0)
    <3>1. \A m \in 1..Len(t) : 0 + m = m
      BY <1>4
    <3> QED BY <1>4, <3>1 DEF Copied
  <2>2. \A m \in 0..Len(t) : Depth(r, 0 + m) = Depth(r, 0) + Depth(t, m)
    BY <1>4, <2>1, DepthShift
  <2>3. \A m \in 0..Len(t) : 0 + m = m /\ m \in Nat
    BY <1>4
  <2> QED BY <1>4, <1>5, <2>2, <2>3, DepthSteps DEF Closed
<1>7. PaintedOnce(r) /\ \A k \in NodesOf(r) : NodesOfId(next, r[k].id) = {}
  <2>1. \A k \in NodesOf(t) : r[k].id = t[k].id
    BY <1>4 DEF NodesOf
  <2>2. \A k \in NodesOf(t) : NodesOfId(next, t[k].id) = {}
    BY <1>2
  <2> QED BY <1>1, <1>4, <2>1, <2>2 DEF PaintedOnce
<1>8. /\ Sound(next') /\ Depth(next', Len(next)) >= 0
      /\ \A m \in 1..Len(r) : next'[Len(next) + m] = r[m]
  <2>1. next \in Seq(Ops) /\ Sound(next)
    BY DEF FocusInv, FocusTypeOK, Painted
  <2>2. /\ Sound(next \o r) /\ Depth(next \o r, Len(next)) >= 0
        /\ \A m \in 1..Len(r) : (next \o r)[Len(next) + m] = r[m]
    BY <1>4, <1>6, <1>7, <2>1, ConcatSound
  <2> QED BY <1>2, <2>2
<1>9. next' \in Seq(Ops) /\ Len(next') = Len(next) + Len(t)
  <2>1. next \in Seq(Ops) /\ r \in Seq(Ops) /\ next' = next \o r /\ Len(r) = Len(t)
    BY <1>2, <1>4 DEF FocusInv, FocusTypeOK
  <2>2. next \o r \in Seq(Ops) /\ Len(next \o r) = Len(next) + Len(r)
    BY <2>1, ConcatProperties
  <2> QED BY <2>1, <2>2
<1>10. Copied(t, Len(t), next', Len(next)) /\ \A m \in 1..Len(t) : next'[Len(next) + m] = Again(t[m])
  BY <1>4, <1>8 DEF Copied
<1> QED BY <1>1, <1>2, <1>5, <1>8, <1>9, <1>10 DEF t

LEMMA PaintedStep ==
  ASSUME FocusAssumption, FocusInv, Painted, [FocusAction]_fvars
  PROVE  Painted'
<1>1. CASE UNCHANGED <<rendered, next>>
  BY <1>1 DEF Painted
<1>2. CASE BeginPaint
  BY <1>2, EmptySound DEF BeginPaint, Painted
<1>3. CASE EndPaint
  BY <1>3, EmptySound DEF EndPaint, Painted
<1>4. CASE EndGroup
  <2>1. GroupEnd \in Ops /\ GroupEnd.op = "end"
    BY DEF GroupEnd, Ops, Tab, TabType
  <2> QED BY <1>4, <2>1, AppendSound DEF EndGroup, Painted, FocusInv, FocusTypeOK
<1>5. ASSUME NEW i \in Indexes, BeginGroup(i) PROVE Painted'
  <2>1. Group(i) \in Ops /\ Group(i).op = "group"
    BY DEF Group, Ops, Tab, TabType, FocusAssumption
  <2> QED BY <1>5, <2>1, AppendSound DEF BeginGroup, Painted, FocusInv, FocusTypeOK
<1>6. ASSUME NEW h \in Handles, NEW t \in carried[h], PaintHandle(h, t) PROVE Painted'
  <2>1. h \in DOMAIN refs
    BY <1>6, HandlesExist DEF PaintHandle
  <2>2. Insert(h, t) \in Ops /\ Insert(h, t).op = "insert" /\ Insert(h, t).id = h
    BY <2>1, InsertType DEF FocusInv
  <2> QED BY <1>6, <2>2, AppendSound DEF PaintHandle, Painted, FocusInv, FocusTypeOK
<1>7. ASSUME NEW a \in DOMAIN rendered, NEW b \in DOMAIN rendered, a <= b, Reuse(a, b) PROVE Painted'
  <2>1. Sound(next') /\ rendered' = rendered
    BY <1>7, ReusedPart
  <2> QED BY <2>1 DEF Painted
<1>8. CASE UNCHANGED fvars
  BY <1>1, <1>8 DEF fvars
<1>9. CASE Release \/ FocusNext \/ FocusPrev \/ Blur \/ DisableFocus
  BY <1>1, <1>9 DEF Release, FocusNext, FocusPrev, Blur, DisableFocus
<1>10. CASE \E h \in Handles : Upgrade(h) \/ Drop(h) \/ Focus(h) \/ \E t \in Tabs[h] : NewHandle(h, t)
  BY <1>1, <1>10 DEF Upgrade, Drop, Focus, NewHandle
<1>11. CASE \E h \in Handles : \E t \in carried[h] : \E new \in Retabs[h] :
             SetTabIndex(h, t, new.index) \/ SetTabStop(h, t, new.stop)
  BY <1>1, <1>11, RetabSteps
<1> QED BY <1>2, <1>3, <1>4, <1>5, <1>6, <1>7, <1>8, <1>9, <1>10, <1>11, Zenon DEF FocusAction

\* What is replayed keeps its order.
LEMMA ReplayStep ==
  ASSUME FocusInv, Painted, FocusAction, Len(next') > Len(next) + 1,
         NEW j \in NodesOf(next') \ DOMAIN next, NEW k \in NodesOf(next') \ DOMAIN next,
         Current(rendered, NodeOf(rendered, next'[j].id)),
         Current(rendered, NodeOf(rendered, next'[k].id))
  PROVE  KeptOrder(j, k)
<1>1. PICK a \in DOMAIN rendered, b \in DOMAIN rendered : a <= b /\ Reuse(a, b)
  <2>0. next \in Seq(Ops) /\ Len(next) \in Nat
    BY DEF FocusInv, FocusTypeOK
  <2>1. CASE UNCHANGED next
    BY <2>0, <2>1
  <2>2. CASE BeginPaint \/ EndPaint
    <3>1. Len(next') = 0
      BY <2>2 DEF BeginPaint, EndPaint
    <3> QED BY <2>0, <3>1
  <2>3. CASE \E o : next' = Append(next, o)
    <3>1. Len(next') = Len(next) + 1
      BY <2>0, <2>3
    <3> QED BY <2>0, <3>1
  <2>4. \/ UNCHANGED next \/ BeginPaint \/ EndPaint \/ \E o : next' = Append(next, o)
        \/ \E x, y \in DOMAIN rendered : x <= y /\ Reuse(x, y)
    BY Zenon DEF FocusAction, FocusNext, FocusPrev, Blur, DisableFocus, EndGroup, BeginGroup, Focus,
             Release, Upgrade, Drop, NewHandle, PaintHandle, SetTabIndex, SetTabStop, SetTab
  <2> QED BY <2>1, <2>2, <2>3, <2>4
<1> DEFINE t == SubSeq(rendered, a, b)
           n == Len(t)
           c == Len(next)
           e == a - 1
<1>2. /\ t \in Seq(Ops) /\ Closed(t, n)
      /\ Copied(t, n, rendered, e) /\ e \in Nat /\ e + n <= Len(rendered)
      /\ \A m \in 1..n : rendered[e + m] = t[m] /\ next'[c + m] = Again(t[m])
      /\ next' \in Seq(Ops) /\ Len(next') = c + n
      /\ Copied(t, n, next', c) /\ Depth(next', c) >= 0
  <2> HIDE DEF t, n, c, e
  <2>1. a <= b /\ Reuse(a, b)
    BY <1>1
  <2> QED BY <2>1, ReusedPart DEF t, n, c, e
<1>3. /\ c \in Nat /\ n \in Nat /\ DOMAIN next' = 1..(c + n) /\ DOMAIN next = 1..c
  <2> HIDE DEF t
  <2>1. next \in Seq(Ops) /\ t \in Seq(Ops) /\ next' \in Seq(Ops) /\ Len(next') = c + n
    BY <1>2 DEF FocusInv, FocusTypeOK
  <2> QED BY <2>1
<1>4. rendered \in Seq(Ops) /\ DOMAIN rendered = 1..Len(rendered) /\ Len(rendered) \in Nat
  BY DEF FocusInv, FocusTypeOK
<1> HIDE DEF t, n, c, e
<1>5. Depth(rendered, e) >= 0
  <2>1. e \in 0..Len(rendered)
    BY <1>2, <1>3, <1>4
  <2> QED BY <2>1 DEF Painted, Sound, Closed
\* Where a replayed node was.
<1>6. ASSUME NEW i \in NodesOf(next') \ DOMAIN next
      PROVE  /\ i - c \in 1..n /\ c + (i - c) = i
             /\ NodeOf(rendered, next'[i].id) = e + (i - c)
             /\ t[i - c].op = "insert" /\ next'[i] = Again(t[i - c])
             /\ rendered[e + (i - c)] = t[i - c]
  <2>0. i \in 1..(c + n) /\ ~(i \in 1..c) /\ next'[i].op = "insert"
    BY <1>3 DEF NodesOf
  <2>1. i - c \in 1..n /\ c + (i - c) = i
    BY <1>3, <2>0
  <2>2. /\ next'[i].op = t[i - c].op /\ next'[i].id = t[i - c].id
        /\ next'[i] = Again(t[i - c]) /\ rendered[e + (i - c)] = t[i - c]
    <3>1. next'[c + (i - c)].op = t[i - c].op /\ next'[c + (i - c)].id = t[i - c].id
      BY <1>2, <2>1 DEF Copied
    <3>2. next'[c + (i - c)] = Again(t[i - c]) /\ rendered[e + (i - c)] = t[i - c]
      BY <1>2, <2>1
    <3> QED BY <2>1, <3>1, <3>2
  <2> DEFINE r == e + (i - c)
  <2>3. r \in 1..Len(rendered) /\ r \in Nat
    <3> DEFINE x == i - c
               l == Len(rendered)
    <3>1. x \in 1..n /\ e \in Nat /\ e + n <= l /\ l \in Nat /\ n \in Nat
      BY <1>2, <1>3, <1>4, <2>1
    <3> HIDE DEF x, l
    <3>2. e + x \in 1..l /\ e + x \in Nat
      BY <3>1
    <3> QED BY <3>2 DEF x, l
  <2>4. NodesOfId(rendered, next'[i].id) = {r}
    <3>1. r \in NodesOf(rendered) /\ rendered[r].id = next'[i].id
      BY <1>4, <2>0, <2>2, <2>3 DEF NodesOf
    <3> QED BY <3>1 DEF NodesOfId, Painted, Sound, PaintedOnce
  <2> HIDE DEF r
  <2>5. Max({r}) = r
    BY <2>3 DEF Max
  <2> QED BY <2>0, <2>1, <2>2, <2>4, <2>5 DEF r, NodeOf
<1>7. /\ j - c \in 1..n /\ c + (j - c) = j
      /\ k - c \in 1..n /\ c + (k - c) = k
  BY <1>6
\* What was kept of it is what it was ordered by.
<1>8. ASSUME NEW i \in NodesOf(next') \ DOMAIN next, Current(rendered, NodeOf(rendered, next'[i].id))
      PROVE  next'[i].index = t[i - c].index /\ next'[i].stop = t[i - c].stop
  <2>1. rendered[e + (i - c)] = t[i - c] /\ next'[i] = Again(t[i - c]) /\ t[i - c].op = "insert"
    BY <1>6
  <2>2. t[i - c].kept = Tab(t[i - c].index, t[i - c].stop)
    BY <1>6, <1>8, <2>1 DEF Current
  <2> QED BY <2>1, <2>2 DEF Again, Insert, Tab
<1>9. Precedes(next', c + (j - c), c + (k - c)) <=> Precedes(t, j - c, k - c)
  <2>1. n <= Len(t) /\ c + n <= Len(next')
    BY <1>2, <1>3 DEF n
  <2>2. /\ next'[c + (j - c)].index = t[j - c].index
        /\ next'[c + (k - c)].index = t[k - c].index
    BY <1>7, <1>8
  <2> QED BY <1>2, <1>3, <1>7, <2>1, <2>2, PrecedesShift
<1>10. Precedes(rendered, e + (j - c), e + (k - c)) <=> Precedes(t, j - c, k - c)
  <2>1. n <= Len(t)
    BY <1>3 DEF n
  <2>2. /\ rendered[e + (j - c)].index = t[j - c].index
        /\ rendered[e + (k - c)].index = t[k - c].index
    BY <1>6
  <2> QED BY <1>2, <1>3, <1>4, <1>5, <1>7, <2>1, <2>2, PrecedesShift
<1>11. next'[j].stop = rendered[NodeOf(rendered, next'[j].id)].stop
  BY <1>6, <1>8
<1> QED BY <1>6, <1>7, <1>9, <1>10, <1>11 DEF KeptOrder

LEMMA PaintedHolds == FocusSpec => []Painted
<1>1. FocusInit => Painted
  BY EmptySound DEF FocusInit, Painted
<1>2. FocusInv /\ Painted /\ [FocusAction]_fvars => Painted'
  BY PaintedStep, FocusAssumption
<1> QED BY <1>1, <1>2, FocusInvariance, PTL DEF FocusSpec

\* However groups, indexes and cached views are painted, Tab and Shift-Tab go round all stops of
\* the frame on the screen, each undoing the other (TabStopMap::next and prev).
THEOREM TabGoesRoundAll == FocusSpec => []TabGoesRound
<1>1. FocusInv /\ Painted => TabGoesRound
  BY FrameGoesRound DEF FocusInv, FocusTypeOK, Painted, Sound
<1> QED BY <1>1, FocusInvariance, PaintedHolds, PTL

\* A part that is replayed keeps its order and its stops, in whatever groups it comes to be, as
\* far as no index and no stop of it was changed between the clone of a handle and its insertion
\* (reuse_paint; TabStopMap::replay inserts the clones that insert kept).
THEOREM ReplayIsFaithful == FocusSpec => ReplayKeepsOrder
<1>1. FocusInv /\ Painted /\ [FocusAction]_fvars =>
        [Len(next') > Len(next) + 1 =>
           \A j, k \in NodesOf(next') \ DOMAIN next :
             /\ Current(rendered, NodeOf(rendered, next'[j].id))
             /\ Current(rendered, NodeOf(rendered, next'[k].id))
             => KeptOrder(j, k)]_fvars
  BY ReplayStep, Zenon
<1> QED BY <1>1, FocusInvariance, PaintedHolds, PTL DEF FocusSpec, ReplayKeepsOrder

------------------------------------------------------------------------------
(* The mouse.                                                                  *)

\* The well-ordering of numbers, turned round.
LEMMA GreatestIsThere ==
  ASSUME NEW S, S \subseteq Elements, S # {}
  PROVE  Greatest(S) \in S /\ \A d \in S : d <= Greatest(S)
<1>0. N \in Nat
  BY PointerAssumption
<1> DEFINE T == {N - e : e \in S}
           R == OpToRel(<, Nat)
<1>1. IsWellFoundedOn(R, Nat)
  BY NatLessThanWellFounded
<1>2. T \subseteq Nat /\ T # {}
  <2>1. ASSUME NEW e \in S PROVE N - e \in Nat
    <3>1. e \in 1..N
      BY DEF Elements
    <3> HIDE DEF T, R
    <3> QED BY <1>0, <3>1
  <2>2. T \subseteq Nat
    BY ONLY <2>1
  <2>3. PICK e \in S : TRUE
    OBVIOUS
  <2>4. N - e \in T
    BY ONLY <2>3
  <2> QED BY <2>2, <2>4, Zenon
<1>3. \A x, y \in Nat : <<y, x>> \in R <=> y < x
  BY DEF OpToRel
<1> HIDE DEF T, R
<1>4. \E x \in T : \A y \in T : ~(<<y, x>> \in R)
  BY <1>1, <1>2, WFMin
<1>5. PICK x \in T : \A y \in T : ~(y < x)
  BY <1>2, <1>3, <1>4
<1>6. PICK e \in S : x = N - e
  BY DEF T
<1>7. \A d \in S : d <= e
  <2>1. ASSUME NEW d \in S PROVE d <= e
    <3>1. N - d \in T
      BY DEF T
    <3>2. d \in Nat /\ e \in Nat
      BY DEF Elements
    <3>3. ~((N - d) < (N - e))
      BY <1>5, <1>6, <3>1
    <3> QED BY <1>0, <3>2, <3>3
  <2> QED BY <2>1
<1> QED BY <1>7 DEF Greatest

------------------------------------------------------------------------------
(* The invariant.                                                              *)

SceneType == [shown : SUBSET Elements, hidden : SUBSET Elements,
              area : [Elements -> SUBSET Positions], hoverable : SUBSET Tipped]
FrameType == [scene : SceneType, resets : SUBSET Elements, was : SUBSET Elements,
              captured : SUBSET Elements, spent : SUBSET Elements, drag : Values \cup {None}]
TipType == [state : {"none", "waiting", "visible", "hiding"}, at : Positions \cup {None},
            over : SUBSET Positions, hoverable : BOOLEAN]
Typed == frame \in FrameType /\ tip \in [Elements -> TipType]

\* Every dispatch and every frame tests the hitboxes of the rendered frame at the mouse.
HitIsCurrent == hit = HitTest(frame.scene, pos)

\* A press is owed its release, or has missed it.
PressesOwed == \A e \in Elements : pending[e] # None => e \in owed \cup missed

\* What a click listener still holds was released over its element in this frame.
CapturedIsDue == frame.captured \subseteq due

\* ButtonHeld, also of what is not painted.
PressesHeld ==
  \A e \in Elements \ missed : drag = e \/ pending[e] # None => "left" \in buttons

PointerInv ==
  /\ PointerTypeOK /\ Typed /\ HitIsCurrent
  /\ PressesOwed /\ CapturedIsDue /\ NoGhostClick /\ PressesHeld
  /\ ActiveIsReset /\ HoverIsPainted /\ DragShown /\ TooltipIsCurrent

LEMMA PointerInitInv == PointerInit => PointerInv
<1> SUFFICES ASSUME PointerInit PROVE PointerInv
  OBVIOUS
<1> USE DEF PointerInit
<1>1. frame.scene.shown = {} /\ frame.scene.hidden = {}
  OBVIOUS
<1>2. Typed
  <2>1. frame \in FrameType
    BY DEF FrameType, SceneType
  <2>2. tip \in [Elements -> TipType]
    BY DEF TipType, NoTip
  <2> QED BY <2>1, <2>2 DEF Typed
<1>3. PointerTypeOK
  BY <1>1, PointerAssumption DEF PointerTypeOK, Drawn, Listening, NoTip
<1>4. HitIsCurrent
  BY <1>1 DEF HitIsCurrent, HitTest, Drawn
<1>5. PressesOwed /\ CapturedIsDue /\ NoGhostClick /\ PressesHeld
  BY PointerAssumption DEF PressesOwed, CapturedIsDue, NoGhostClick, PressesHeld
<1>6. ActiveIsReset /\ HoverIsPainted /\ DragShown /\ TooltipIsCurrent
  BY DEF ActiveIsReset, HoverIsPainted, DragShown, TooltipIsCurrent
<1> QED BY <1>2, <1>3, <1>4, <1>5, <1>6 DEF PointerInv

LEMMA HitAmongDrawn ==
  ASSUME NEW s, NEW p
  PROVE  HitTest(s, p) \subseteq Drawn(s)
  BY DEF HitTest

\* Elements, values and what is none are different things.
LEMMA Nones ==
  /\ None \notin Elements /\ None \notin Positions /\ None # Files /\ Files \notin Elements
  /\ None \notin Values /\ Tipped \subseteq Elements /\ Clickable \subseteq Elements
  /\ Draggable \subseteq Elements /\ Focusable \subseteq Elements /\ Styled \subseteq Elements
  BY PointerAssumption DEF Values

------------------------------------------------------------------------------
(* Timers, the client, files that leave, and the end of a drag.                *)

LEMMA SmallSteps ==
  ASSUME PointerInv,
         \/ \E s \in Scenes : Change(s)
         \/ FilesExited \/ StopDrag
         \/ \E e \in Tipped : ShowTip(e) \/ HideTip(e)
         \/ UNCHANGED pvars
  PROVE  PointerInv'
<1> USE DEF PointerInv
<1>0. PointerTypeOK /\ Typed
  OBVIOUS
<1>1. ASSUME NEW s \in Scenes, Change(s) PROVE PointerInv'
  <2> USE <1>1 DEF Change
  <2>1. PointerTypeOK' /\ Typed'
    BY DEF PointerTypeOK, Typed, Listening
  <2>2. HitIsCurrent' /\ PressesOwed' /\ CapturedIsDue' /\ NoGhostClick' /\ PressesHeld'
    BY DEF HitIsCurrent, PressesOwed, CapturedIsDue, NoGhostClick, PressesHeld
  <2>3. ActiveIsReset' /\ HoverIsPainted' /\ DragShown' /\ TooltipIsCurrent'
    BY DEF ActiveIsReset, HoverIsPainted, DragShown, TooltipIsCurrent
  <2> QED BY <2>1, <2>2, <2>3
<1>2. CASE FilesExited
  <2> USE <1>2 DEF FilesExited
  <2>1. PointerTypeOK' /\ Typed'
    BY HitAmongDrawn DEF PointerTypeOK, Typed, Listening
  <2>2. HitIsCurrent' /\ PressesOwed' /\ CapturedIsDue' /\ NoGhostClick'
    BY DEF HitIsCurrent, PressesOwed, CapturedIsDue, NoGhostClick
  <2>3. PressesHeld'
    BY Nones DEF PressesHeld
  <2>4. ActiveIsReset' /\ HoverIsPainted' /\ DragShown' /\ TooltipIsCurrent'
    BY DEF ActiveIsReset, HoverIsPainted, HitIsCurrent, DragShown, TooltipIsCurrent, Listening
  <2> QED BY <2>1, <2>2, <2>3, <2>4
<1>3. CASE StopDrag
  <2> USE <1>3 DEF StopDrag
  <2>1. PointerTypeOK' /\ Typed'
    BY DEF PointerTypeOK, Typed, Listening
  <2>2. HitIsCurrent' /\ PressesOwed' /\ CapturedIsDue' /\ NoGhostClick'
    BY DEF HitIsCurrent, PressesOwed, CapturedIsDue, NoGhostClick
  <2>3. PressesHeld'
    BY Nones DEF PressesHeld
  <2>4. ActiveIsReset' /\ HoverIsPainted' /\ DragShown' /\ TooltipIsCurrent'
    BY DEF ActiveIsReset, HoverIsPainted, DragShown, TooltipIsCurrent
  <2> QED BY <2>1, <2>2, <2>3, <2>4
<1>4. ASSUME NEW e \in Tipped, ShowTip(e) \/ HideTip(e) PROVE PointerInv'
  <2>0. /\ UNCHANGED <<scene, pos, buttons, hit, frame, pending, clicked, focused, drag, tooltip,
                       outside, owed, due, missed, ghosts, leftOver, jumped>>
        /\ dirty' = TRUE /\ e \in Elements
    BY <1>4, Nones DEF ShowTip, HideTip
  <2>1. tip' \in [Elements -> TipType]
    <3>1. CASE ShowTip(e)
      BY <3>1, <2>0, SMTT(30) DEF ShowTip, PointerTypeOK, Typed, TipType
    <3>2. CASE HideTip(e)
      BY <3>2, <2>0 DEF HideTip, PointerTypeOK, Typed, TipType, NoTip
    <3> QED BY <1>4, <3>1, <3>2
  <2>2. ASSUME NEW d \in Elements
        PROVE  /\ tip'[d].state = "hiding" => tip'[d].hoverable
               /\ IF tip'[d].state \in {"visible", "hiding"} THEN tip'[d].at \in Positions
                                                             ELSE tip'[d].at = None
    <3>1. CASE d # e
      BY <1>4, <2>0, <3>1 DEF ShowTip, HideTip, PointerTypeOK, Typed
    <3>2. CASE ShowTip(e) /\ d = e
      BY <3>2, <2>0 DEF ShowTip, PointerTypeOK, Typed, TipType
    <3>3. CASE HideTip(e) /\ d = e
      BY <3>3, <2>0 DEF HideTip, PointerTypeOK, Typed, NoTip
    <3> QED BY <1>4, <3>1, <3>2, <3>3
  <2>3. Typed' /\ PointerTypeOK'
    BY <2>0, <2>1, <2>2 DEF PointerTypeOK, Typed, TipType, Listening
  <2>4. HitIsCurrent' /\ PressesOwed' /\ CapturedIsDue' /\ NoGhostClick' /\ PressesHeld'
    BY <2>0 DEF HitIsCurrent, PressesOwed, CapturedIsDue, NoGhostClick, PressesHeld
  <2>5. ActiveIsReset' /\ HoverIsPainted' /\ DragShown' /\ TooltipIsCurrent'
    BY <2>0 DEF ActiveIsReset, HoverIsPainted, DragShown, TooltipIsCurrent
  <2> QED BY <2>3, <2>4, <2>5
<1>5. CASE UNCHANGED pvars
  BY <1>5 DEF pvars, PointerTypeOK, Typed, Listening, HitIsCurrent, PressesOwed, CapturedIsDue,
     NoGhostClick, PressesHeld, ActiveIsReset, HoverIsPainted, DragShown, TooltipIsCurrent
<1> QED BY <1>1, <1>2, <1>3, <1>4, <1>5

------------------------------------------------------------------------------
(* Moves.                                                                      *)

\* A tooltip's state after a move: nothing that is shown changes.
LEMMA TipMovedFacts ==
  ASSUME PointerTypeOK, Typed, NEW e \in Elements, NEW over, NEW reached
  PROVE  /\ TipMoved(e, over, reached) \in TipType
         /\ tip[e].state \in {"visible", "hiding"} => TipMoved(e, over, reached) = tip[e]
         /\ tip[e].state \notin {"visible", "hiding"} =>
              /\ TipMoved(e, over, reached).state \in {"none", "waiting"}
              /\ TipMoved(e, over, reached).at = None
<1>1. tip[e] \in TipType /\ frame.scene.area[e] \in SUBSET Positions
  BY DEF Typed, FrameType, SceneType
<1>2. tip[e].state \notin {"visible", "hiding"} => tip[e].at = None
  BY DEF PointerTypeOK
<1>3. NoTip \in TipType /\ NoTip.state = "none" /\ NoTip.at = None
  BY DEF NoTip, TipType
<1> DEFINE w == [state |-> "waiting", at |-> None, over |-> frame.scene.area[e],
                 hoverable |-> e \in frame.scene.hoverable]
<1>4. w \in TipType /\ w.state = "waiting" /\ w.at = None
  BY <1>1 DEF TipType
<1> HIDE DEF w
<1>5. \/ tip[e].state = "waiting" /\ TipMoved(e, over, reached) = NoTip
      \/ tip[e].state = "none" /\ TipMoved(e, over, reached) = w
      \/ TipMoved(e, over, reached) = tip[e]
  BY DEF TipMoved, w
<1> QED BY <1>1, <1>2, <1>3, <1>4, <1>5 DEF TipType

\* A move, with what is dragged before it or the files that come in.
LEMMA MovedSteps ==
  ASSUME PointerInv, NEW p \in Positions, NEW d \in Values \cup {None},
         d = drag \/ (drag = None /\ d = Files), Moved(p, d), outside' \in BOOLEAN
  PROVE  PointerInv'
<1> DEFINE over == HitTest(frame.scene, p)
           starting == IF d = None THEN {e \in Elements : StartsDrag(e, p)} ELSE {}
           first == IF starting = {} THEN {} ELSE {Greatest(starting)}
           reached == {e \in Listening : \A f \in first : e >= f}
<1>0. PointerTypeOK /\ Typed
  BY DEF PointerInv
<1>1. first \subseteq starting /\ first \subseteq Elements
  BY GreatestIsThere
<1>2. ASSUME NEW e \in first PROVE d = None /\ StartsDrag(e, p) /\ drag' = e
  <2>1. e \in starting /\ first = {e}
    BY <1>1
  <2>2. d = None /\ StartsDrag(e, p)
    BY <2>1
  <2>3. drag' = Greatest(first)
    BY <2>1 DEF Moved
  <2>4. Greatest(first) \in first
    BY <1>1, <2>1, GreatestIsThere
  <2> QED BY <2>1, <2>2, <2>3, <2>4
<1>3. first = {} => drag' = d
  BY DEF Moved
<1>4. /\ pos' = p /\ hit' = over /\ jumped' = FALSE
      /\ clicked' = clicked \ first /\ owed' = owed \ first
      /\ pending' = [e \in Elements |-> IF e \in first THEN None ELSE pending[e]]
      /\ frame' = [frame EXCEPT !.spent = @ \cup first]
      /\ tip' = [e \in Elements |-> IF e \in Listening \cap Tipped
                                    THEN TipMoved(e, over, reached) ELSE tip[e]]
      /\ dirty' = \/ dirty \/ drag' # None
                  \/ \E e \in Styled \cap Listening : (e \in over) # (e \in frame.was)
      /\ UNCHANGED <<scene, buttons, focused, tooltip, due, missed, ghosts, leftOver>>
  BY DEF Moved
<1>5. \A e \in first : e \in Listening /\ pending[e] # None
  BY <1>2 DEF StartsDrag
<1> HIDE DEF over, first, reached, starting
<1>6. /\ frame' \in FrameType
      /\ frame'.scene = frame.scene /\ frame'.resets = frame.resets /\ frame'.was = frame.was
      /\ frame'.captured = frame.captured /\ frame'.drag = frame.drag
      /\ frame'.spent = frame.spent \cup first
      /\ Listening' = Listening
  BY <1>0, <1>1, <1>4 DEF Typed, FrameType, Listening
<1>7. drag' \in Values \cup {None} /\ (first # {} => drag' \in first)
  BY <1>1, <1>2, <1>3 DEF Values
<1>8. dirty' \in BOOLEAN
      /\ (~dirty' => ~dirty /\ drag' = None
                     /\ \A e \in Styled \cap Listening : (e \in over) = (e \in frame.was))
  BY <1>0, <1>4 DEF PointerTypeOK
<1>9. /\ tip' \in [Elements -> TipType]
      /\ \A e \in Elements :
           /\ tip[e].state \in {"visible", "hiding"} => tip'[e] = tip[e]
           /\ tip[e].state \notin {"visible", "hiding"} =>
                tip'[e].state \in {"none", "waiting"} /\ tip'[e].at = None
  BY <1>0, <1>4, TipMovedFacts DEF Typed, PointerTypeOK, TipType
<1>10. Typed'
  BY <1>6, <1>9 DEF Typed
<1>11. PointerTypeOK'
  <2>1. hit' \subseteq Drawn(frame'.scene)
    BY <1>4, <1>6, HitAmongDrawn DEF over
  <2>2. frame'.captured \cup frame'.spent \subseteq Listening'
        /\ frame'.resets \subseteq Listening' /\ frame'.drag \in Values \cup {None}
    BY <1>0, <1>5, <1>6 DEF PointerTypeOK
  <2>3. pending' \in [Elements -> Positions \cup {None}]
    BY <1>0, <1>4 DEF PointerTypeOK
  <2>4. {e \in Elements : pending'[e] # None} \cup clicked' \subseteq Drawn(frame'.scene)
    BY <1>0, <1>4, <1>6 DEF PointerTypeOK
  <2>5. \A e \in Elements :
          /\ tip'[e].state \in {"none", "waiting", "visible", "hiding"}
          /\ tip'[e].over \subseteq Positions /\ tip'[e].hoverable \in BOOLEAN
          /\ tip'[e].state = "hiding" => tip'[e].hoverable
          /\ IF tip'[e].state \in {"visible", "hiding"} THEN tip'[e].at \in Positions
                                                       ELSE tip'[e].at = None
    <3>1. ASSUME NEW e \in Elements
          PROVE  /\ tip'[e].state \in {"none", "waiting", "visible", "hiding"}
                 /\ tip'[e].over \subseteq Positions /\ tip'[e].hoverable \in BOOLEAN
      BY <1>9 DEF TipType
    <3>2. ASSUME NEW e \in Elements
          PROVE  /\ tip'[e].state = "hiding" => tip'[e].hoverable
                 /\ IF tip'[e].state \in {"visible", "hiding"} THEN tip'[e].at \in Positions
                                                              ELSE tip'[e].at = None
      <4>1. CASE tip[e].state \in {"visible", "hiding"}
        BY <1>0, <1>9, <4>1 DEF PointerTypeOK
      <4>2. CASE tip[e].state \notin {"visible", "hiding"}
        BY <1>9, <4>2
      <4> QED BY <4>1, <4>2
    <3> QED BY <3>1, <3>2
  <2>6. owed' \cup due' \cup missed' \cup ghosts' \subseteq Elements
    BY <1>0, <1>4 DEF PointerTypeOK
  <2>7. scene' \in Scenes /\ pos' \in Positions /\ buttons' \subseteq {"left", "right"}
        /\ leftOver' \in BOOLEAN /\ jumped' \in BOOLEAN /\ focused' \in Focusable \cup {None}
        /\ tooltip' \in Tipped \cup {None}
    BY <1>0, <1>4 DEF PointerTypeOK
  <2> QED BY <1>7, <1>8, <2>1, <2>2, <2>3, <2>4, <2>5, <2>6, <2>7 DEF PointerTypeOK
<1>12. HitIsCurrent'
  BY <1>4, <1>6 DEF HitIsCurrent, over
<1>13. PressesOwed'
  BY <1>4 DEF PointerInv, PressesOwed
<1>14. CapturedIsDue' /\ NoGhostClick'
  BY <1>4, <1>6 DEF PointerInv, CapturedIsDue, NoGhostClick
<1>15. PressesHeld'
  <2>1. SUFFICES ASSUME NEW e \in Elements \ missed, drag' = e \/ pending'[e] # None
                 PROVE  "left" \in buttons
    BY <1>4 DEF PressesHeld
  <2>2. CASE drag = e \/ pending[e] # None
    BY <2>2 DEF PointerInv, PressesHeld
  <2>3. CASE ~(drag = e \/ pending[e] # None)
    <3>1. drag' = e
      BY <1>4, <2>1, <2>3
    <3>2. first # {}
      BY <1>3, <2>3, <3>1, Nones
    <3> QED BY <1>5, <1>7, <2>3, <3>1, <3>2
  <2> QED BY <2>2, <2>3
<1>16. ActiveIsReset'
  BY <1>4, <1>6, <1>8 DEF PointerInv, ActiveIsReset
<1>17. HoverIsPainted'
  BY <1>4, <1>6, <1>8 DEF HoverIsPainted
<1>18. DragShown'
  <2>1. ~dirty' => drag' = None /\ ~dirty /\ drag = None
    <3>1. ASSUME drag' = None PROVE drag = None
      <4>1. first = {}
        BY <1>1, <1>7, <3>1, Nones
      <4> QED BY <1>3, <3>1, <4>1, Nones
    <3> QED BY <1>8, <3>1
  <2> QED BY <1>4, <1>6, <2>1 DEF PointerInv, DragShown
<1>19. TooltipIsCurrent'
  <2>1. SUFFICES ASSUME tooltip # None, ~dirty'
                 PROVE  /\ tip'[tooltip].state \in {"visible", "hiding"} /\ drag' = None
                        /\ ~tip'[tooltip].hoverable => pending'[tooltip] = None
    BY <1>4 DEF TooltipIsCurrent
  <2>2. tooltip \in Elements
    BY <1>0, <2>1, Nones DEF PointerTypeOK
  <2>3. /\ tip[tooltip].state \in {"visible", "hiding"}
        /\ ~tip[tooltip].hoverable => pending[tooltip] = None
    BY <1>8, <2>1 DEF PointerInv, TooltipIsCurrent
  <2>4. tip'[tooltip] = tip[tooltip]
    BY <1>9, <2>2, <2>3
  <2> QED BY <1>4, <1>8, <2>1, <2>2, <2>3, <2>4
<1> QED BY <1>10, <1>11, <1>12, <1>13, <1>14, <1>15, <1>16, <1>17, <1>18, <1>19 DEF PointerInv

------------------------------------------------------------------------------
(* Presses.                                                                    *)

\* An event from where the mouse is keeps the hit test, and the style that goes with it.
LEMMA HoverAfter ==
  ASSUME PointerInv, NEW p \in Positions, PositionFrom(p), hit' = HitTest(frame.scene, p),
         frame'.scene = frame.scene, frame'.was = frame.was, ~dirty' => ~dirty
  PROVE  HoverIsPainted' /\ pos' = p /\ jumped' \in BOOLEAN
<1>1. pos' = p /\ jumped' \in BOOLEAN /\ (~jumped' => ~jumped /\ p = pos)
  BY DEF PositionFrom, PointerInv, PointerTypeOK
<1>2. Listening' = Listening
  BY DEF Listening
<1> QED BY <1>1, <1>2 DEF PointerInv, HoverIsPainted, HitIsCurrent

LEMMA DownSteps ==
  ASSUME PointerInv, NEW button \in {"left", "right"}, NEW p \in Positions, Down(button, p)
  PROVE  PointerInv'
<1> DEFINE over == HitTest(frame.scene, p)
           there == over \cap Listening
           focusable == there \cap Focusable
           first == IF focusable = {} THEN None ELSE Greatest(focusable)
           active == {e \in there \ frame.resets : first # None => e >= first}
           pressed == IF button = "left" THEN there \cap (Clickable \cup Draggable) ELSE {}
           cleared == {e \in Tipped : ClearedByPress(e, p)}
<1>0. PointerTypeOK /\ Typed
  BY DEF PointerInv
<1>1. /\ active \subseteq Listening \ frame.resets /\ pressed \subseteq Listening
      /\ cleared \subseteq Tipped /\ (pressed # {} => button = "left")
      /\ Listening \subseteq Elements
  BY <1>0 DEF Typed, FrameType, SceneType, Listening
<1>2. first \in Focusable \cup {None}
  <2>1. focusable \subseteq Elements
    BY <1>1
  <2> QED BY <2>1, GreatestIsThere
<1>3. /\ buttons' = buttons \cup {button} /\ PositionFrom(p) /\ hit' = over
      /\ clicked' = clicked \cup active
      /\ pending' = [e \in Elements |-> IF e \in pressed THEN p ELSE pending[e]]
      /\ focused' = IF first = None THEN focused ELSE first
      /\ tip' = [e \in Elements |-> IF e \in cleared THEN NoTip ELSE tip[e]]
      /\ dirty' = (dirty \/ active \cup pressed \cup cleared # {} \/ focused' # focused)
      /\ owed' = owed \cup pressed /\ missed' = missed \ pressed
      /\ UNCHANGED <<scene, frame, drag, tooltip, outside, due, ghosts, leftOver>>
  BY DEF Down, FrameAfterDown
<1> HIDE DEF over, there, focusable, first, active, pressed, cleared
<1>4. dirty' \in BOOLEAN
      /\ (~dirty' => ~dirty /\ active = {} /\ pressed = {} /\ cleared = {})
  BY <1>0, <1>3 DEF PointerTypeOK
<1>5. Listening' = Listening /\ Listening \subseteq Drawn(frame.scene)
  BY <1>3 DEF Listening, Drawn
<1>12. HoverIsPainted' /\ pos' = p /\ jumped' \in BOOLEAN
  BY <1>3, <1>4, HoverAfter DEF over
<1>6. Typed'
  <2>1. NoTip \in TipType
    BY DEF NoTip, TipType
  <2> QED BY <1>0, <1>3, <2>1 DEF Typed
<1>7. PointerTypeOK'
  <2>1. hit' \subseteq Drawn(frame'.scene)
    BY <1>3, HitAmongDrawn DEF over
  <2>2. pending' \in [Elements -> Positions \cup {None}]
    BY <1>0, <1>3 DEF PointerTypeOK
  <2>3. {e \in Elements : pending'[e] # None} \cup clicked' \subseteq Drawn(frame'.scene)
    BY <1>0, <1>1, <1>3, <1>5 DEF PointerTypeOK
  <2>4. ASSUME NEW e \in Elements
        PROVE  /\ tip'[e].state \in {"none", "waiting", "visible", "hiding"}
               /\ tip'[e].over \subseteq Positions /\ tip'[e].hoverable \in BOOLEAN
               /\ tip'[e].state = "hiding" => tip'[e].hoverable
               /\ IF tip'[e].state \in {"visible", "hiding"} THEN tip'[e].at \in Positions
                                                            ELSE tip'[e].at = None
    BY <1>0, <1>3 DEF PointerTypeOK, NoTip
  <2>5. owed' \cup due' \cup missed' \cup ghosts' \subseteq Elements
    BY <1>0, <1>1, <1>3 DEF PointerTypeOK
  <2>6. scene' \in Scenes /\ pos' \in Positions /\ buttons' \subseteq {"left", "right"}
        /\ outside' \in BOOLEAN /\ leftOver' \in BOOLEAN /\ focused' \in Focusable \cup {None}
        /\ tooltip' \in Tipped \cup {None} /\ drag' \in Values \cup {None}
    BY <1>0, <1>2, <1>3, <1>12 DEF PointerTypeOK
  <2>7. /\ frame'.resets \subseteq Listening' /\ frame'.captured \cup frame'.spent \subseteq Listening'
        /\ frame'.drag \in Values \cup {None}
    BY <1>0, <1>3, <1>5 DEF PointerTypeOK
  <2> QED BY <1>4, <1>12, <2>1, <2>2, <2>3, <2>4, <2>5, <2>6, <2>7 DEF PointerTypeOK
<1>8. HitIsCurrent'
  BY <1>3, <1>12 DEF HitIsCurrent, over
<1>9. PressesOwed' /\ CapturedIsDue' /\ NoGhostClick'
  BY <1>3 DEF PointerInv, PressesOwed, CapturedIsDue, NoGhostClick
<1>10. PressesHeld'
  BY <1>1, <1>3 DEF PointerInv, PressesHeld
<1>11. ActiveIsReset' /\ DragShown'
  BY <1>3, <1>4, <1>5 DEF PointerInv, ActiveIsReset, DragShown
<1>13. TooltipIsCurrent'
  <2>1. SUFFICES ASSUME tooltip # None, ~dirty'
                 PROVE  /\ tip'[tooltip].state \in {"visible", "hiding"} /\ drag' = None
                        /\ ~tip'[tooltip].hoverable => pending'[tooltip] = None
    BY <1>3 DEF TooltipIsCurrent
  <2>2. tooltip \in Elements
    BY <1>0, <2>1, Nones DEF PointerTypeOK
  <2>3. tip'[tooltip] = tip[tooltip] /\ pending'[tooltip] = pending[tooltip]
    BY <1>3, <1>4, <2>1, <2>2
  <2> QED BY <1>3, <1>4, <2>1, <2>3 DEF PointerInv, TooltipIsCurrent
<1> QED BY <1>6, <1>7, <1>8, <1>9, <1>10, <1>11, <1>12, <1>13 DEF PointerInv

\* A wheel clears tooltips and may change what is drawn, a pinch neither.
LEMMA WheelSteps ==
  ASSUME PointerInv, NEW p \in Positions,
         (\E s \in Scenes : WheelAt(p, s)) \/ Magnify(p)
  PROVE  PointerInv'
<1>0. PointerTypeOK /\ Typed
  BY DEF PointerInv
<1>1. /\ PositionFrom(p) /\ hit' = HitTest(frame.scene, p)
      /\ scene' \in Scenes /\ dirty' \in BOOLEAN /\ (~dirty' => ~dirty)
      /\ UNCHANGED <<buttons, frame, pending, clicked, focused, drag, tooltip, outside, owed, due,
                     missed, ghosts, leftOver>>
  BY <1>0 DEF WheelAt, Magnify, PointerTypeOK
<1>2. /\ tip' \in [Elements -> TipType]
      /\ \A e \in Elements : tip'[e] = NoTip \/ tip'[e] = tip[e]
      /\ ~dirty' => tip' = tip
  <2>1. NoTip \in TipType
    BY DEF NoTip, TipType
  <2>2. ASSUME NEW s \in Scenes, WheelAt(p, s)
        PROVE  /\ tip' \in [Elements -> TipType]
               /\ \A e \in Elements : tip'[e] = NoTip \/ tip'[e] = tip[e]
               /\ ~dirty' => tip' = tip
    <3> DEFINE gone == {e \in Tipped : ClearedByPress(e, p)}
    <3>1. /\ tip' = [e \in Elements |-> IF e \in gone THEN NoTip ELSE tip[e]]
          /\ ~dirty' => gone = {}
      BY <1>0, <2>2 DEF WheelAt, PointerTypeOK
    <3> HIDE DEF gone
    <3>2. tip \in [Elements -> TipType]
      BY <1>0 DEF Typed
    <3>3. ~dirty' => tip' = [e \in Elements |-> tip[e]]
      BY <3>1
    <3>4. [e \in Elements |-> tip[e]] = tip
      BY <3>2
    <3>5. ASSUME NEW e \in Elements PROVE tip'[e] = NoTip \/ tip'[e] = tip[e]
      BY <3>1
    <3>6. tip' \in [Elements -> TipType]
      BY <2>1, <3>1, <3>2
    <3> QED BY <3>3, <3>4, <3>5, <3>6
  <2>3. CASE Magnify(p)
    BY <1>0, <2>3 DEF Magnify, Typed
  <2> QED BY <2>2, <2>3
<1>3. HoverIsPainted' /\ pos' = p /\ jumped' \in BOOLEAN
  BY <1>1, HoverAfter
<1>4. Listening' = Listening
  BY <1>1 DEF Listening
<1>5. Typed'
  BY <1>0, <1>1, <1>2 DEF Typed
<1>6. PointerTypeOK'
  <2>1. hit' \subseteq Drawn(frame'.scene)
    BY <1>1, HitAmongDrawn
  <2>2. ASSUME NEW e \in Elements
        PROVE  /\ tip'[e].state \in {"none", "waiting", "visible", "hiding"}
               /\ tip'[e].over \subseteq Positions /\ tip'[e].hoverable \in BOOLEAN
               /\ tip'[e].state = "hiding" => tip'[e].hoverable
               /\ IF tip'[e].state \in {"visible", "hiding"} THEN tip'[e].at \in Positions
                                                            ELSE tip'[e].at = None
    <3>1. CASE tip'[e] = tip[e]
      BY <1>0, <3>1 DEF PointerTypeOK
    <3>2. CASE tip'[e] = NoTip
      BY <3>2 DEF NoTip
    <3> QED BY <1>2, <3>1, <3>2
  <2> QED BY <1>0, <1>1, <1>3, <1>4, <2>1, <2>2 DEF PointerTypeOK
<1>7. HitIsCurrent' /\ PressesOwed' /\ CapturedIsDue' /\ NoGhostClick' /\ PressesHeld'
  BY <1>1, <1>3 DEF PointerInv, HitIsCurrent, PressesOwed, CapturedIsDue, NoGhostClick, PressesHeld
<1>8. ActiveIsReset' /\ DragShown' /\ TooltipIsCurrent'
  BY <1>1, <1>2, <1>4 DEF PointerInv, ActiveIsReset, DragShown, TooltipIsCurrent
<1> QED BY <1>3, <1>5, <1>6, <1>7, <1>8 DEF PointerInv

------------------------------------------------------------------------------
(* Releases.                                                                   *)

LEMMA ReleasedSteps ==
  ASSUME PointerInv, NEW p \in Positions, Released(p), buttons' \subseteq buttons,
         outside' \in BOOLEAN
  PROVE  PointerInv'
<1> DEFINE over == HitTest(frame.scene, p)
           heard == Heard(over)
           captured == frame.captured \cup (heard \cap over)
           reset == frame.resets \cap Listening
           takers == {e \in Listening \cap over : drag \in Droppable[e]}
           taker == IF takers = {} THEN {} ELSE {Greatest(takers)}
           stops == (captured \cap StopsClick) \cup (taker \ Refuses)
           reached == {e \in Listening : \A d \in stops : e >= d}
           fired == captured \cap reached
           offered == (taker \cap reached) \ (fired \cap StopsClick)
           dropped == offered # {} /\ offered \cap Refuses = {}
           cancelled == drag # None /\ offered = {}
           released == due \cup ((owed \cup missed) \cap over)
<1>0. PointerTypeOK /\ Typed
  BY DEF PointerInv
<1>1. /\ PositionFrom(p) /\ hit' = over /\ drag' = None
      /\ clicked' = clicked \ reset
      /\ pending' = [e \in Elements |-> IF e \in heard THEN None ELSE pending[e]]
      /\ frame' = [frame EXCEPT !.captured = captured \ fired]
      /\ dirty' = (dirty \/ (heard # {} \/ reset # {} \/ dropped \/ cancelled))
      /\ owed' = {}
      /\ due' = released \ fired
      /\ missed' = (missed \ Listening) \cup {e \in Elements \ Listening : pending[e] # None}
      /\ ghosts' = ghosts \cup ((fired \cap Clickable) \ released)
      /\ leftOver' = (leftOver \/ offered \cap Refuses # {})
      /\ UNCHANGED <<scene, focused, tip, tooltip>>
  BY DEF Released, Uncollected, FrameAfterUp
<1>2. /\ heard = {e \in Listening : pending[e] # None}
      /\ Listening \subseteq Elements /\ frame.captured \subseteq Listening
      /\ fired \subseteq captured
  BY <1>0 DEF Heard, Typed, FrameType, SceneType, Listening, PointerTypeOK
<1>3. captured \subseteq released /\ captured \subseteq Listening
  BY <1>2, SMTT(30) DEF PointerInv, PressesOwed, CapturedIsDue
<1>4. dirty' \in BOOLEAN
      /\ (~dirty' => ~dirty /\ ~dropped /\ ~cancelled)
  BY <1>0, <1>1 DEF PointerTypeOK
<1>5. leftOver' \in BOOLEAN /\ (leftOver \/ offered \cap Refuses # {} => leftOver')
  BY <1>0, <1>1 DEF PointerTypeOK
<1>6. drag # None => dropped \/ cancelled \/ offered \cap Refuses # {}
  OBVIOUS
<1> HIDE DEF over, heard, captured, reset, takers, taker, stops, reached, fired, offered, dropped,
             cancelled, released
<1>7. /\ frame' \in FrameType
      /\ frame'.scene = frame.scene /\ frame'.resets = frame.resets /\ frame'.was = frame.was
      /\ frame'.captured = captured \ fired /\ frame'.drag = frame.drag
      /\ frame'.spent = frame.spent /\ Listening' = Listening
  BY <1>0, <1>1, <1>2, <1>3 DEF Typed, FrameType, Listening
<1>17. HoverIsPainted' /\ pos' = p /\ jumped' \in BOOLEAN
  BY <1>1, <1>4, <1>7, HoverAfter DEF over
<1>8. Typed'
  BY <1>0, <1>1, <1>7 DEF Typed
<1>9. PointerTypeOK'
  <2>1. hit' \subseteq Drawn(frame'.scene)
    BY <1>1, <1>7, HitAmongDrawn DEF over
  <2>2. pending' \in [Elements -> Positions \cup {None}]
    BY <1>0, <1>1 DEF PointerTypeOK
  <2>3. {e \in Elements : pending'[e] # None} \cup clicked' \subseteq Drawn(frame'.scene)
    BY <1>0, <1>1, <1>7 DEF PointerTypeOK
  <2>4. ASSUME NEW e \in Elements
        PROVE  /\ tip'[e].state \in {"none", "waiting", "visible", "hiding"}
               /\ tip'[e].over \subseteq Positions /\ tip'[e].hoverable \in BOOLEAN
               /\ tip'[e].state = "hiding" => tip'[e].hoverable
               /\ IF tip'[e].state \in {"visible", "hiding"} THEN tip'[e].at \in Positions
                                                            ELSE tip'[e].at = None
    BY <1>0, <1>1 DEF PointerTypeOK
  <2>5. owed' \cup due' \cup missed' \cup ghosts' \subseteq Elements
    <3>1. released \subseteq Elements
      BY <1>0 DEF PointerTypeOK, released
    <3>2. fired \subseteq Elements
      BY <1>2, <1>3
    <3> QED BY <1>0, <1>1, <3>1, <3>2 DEF PointerTypeOK
  <2>6. scene' \in Scenes /\ pos' \in Positions /\ buttons' \subseteq {"left", "right"}
        /\ focused' \in Focusable \cup {None}
        /\ tooltip' \in Tipped \cup {None} /\ drag' \in Values \cup {None}
        /\ jumped' \in BOOLEAN
    BY <1>0, <1>1, <1>17 DEF PointerTypeOK
  <2>7. /\ frame'.resets \subseteq Listening' /\ frame'.captured \cup frame'.spent \subseteq Listening'
        /\ frame'.drag \in Values \cup {None}
    BY <1>0, <1>3, <1>7 DEF PointerTypeOK
  <2> QED BY <1>4, <1>5, <2>1, <2>2, <2>3, <2>4, <2>5, <2>6, <2>7 DEF PointerTypeOK
<1>10. HitIsCurrent'
  BY <1>1, <1>7, <1>17 DEF HitIsCurrent, over
<1>11. PressesOwed'
  BY <1>1, <1>2 DEF PressesOwed
<1>12. CapturedIsDue' /\ NoGhostClick'
  BY <1>1, <1>2, <1>3, <1>7 DEF PointerInv, CapturedIsDue, NoGhostClick
<1>13. PressesHeld'
  BY <1>1, <1>2, Nones DEF PressesHeld
<1>14. ActiveIsReset'
  BY <1>1, <1>4, <1>7 DEF PointerInv, ActiveIsReset
<1>15. DragShown'
  <2>1. SUFFICES ASSUME ~dirty', ~leftOver' PROVE frame.drag = None
    BY <1>1, <1>7 DEF DragShown
  <2>2. drag = None /\ ~dirty /\ ~leftOver
    BY <1>4, <1>5, <1>6, <2>1
  <2> QED BY <2>2 DEF PointerInv, DragShown
<1>16. TooltipIsCurrent'
  <2>1. SUFFICES ASSUME tooltip # None, ~dirty'
                 PROVE  /\ tip[tooltip].state \in {"visible", "hiding"}
                        /\ ~tip[tooltip].hoverable => pending'[tooltip] = None
    BY <1>1 DEF TooltipIsCurrent
  <2>2. tooltip \in Elements
    BY <1>0, <2>1, Nones DEF PointerTypeOK
  <2> QED BY <1>1, <1>4, <2>1, <2>2 DEF PointerInv, TooltipIsCurrent
<1> QED BY <1>8, <1>9, <1>10, <1>11, <1>12, <1>13, <1>14, <1>15, <1>16,
       <1>17 DEF PointerInv

------------------------------------------------------------------------------
(* Frames.                                                                     *)

\* What the check of a shown tooltip makes of it.
LEMMA CheckedFacts ==
  ASSUME PointerTypeOK, Typed, NEW e \in Elements, NEW leftHeld, leftHeld \in BOOLEAN,
         tip[e].state \in {"visible", "hiding"}
  PROVE  /\ Checked(e, leftHeld) = NoTip
            \/ /\ Checked(e, leftHeld) \in TipType
               /\ Checked(e, leftHeld).state \in {"visible", "hiding"}
               /\ Checked(e, leftHeld).at \in Positions
               /\ Checked(e, leftHeld).hoverable = tip[e].hoverable
               /\ Checked(e, leftHeld).state = "hiding" => tip[e].hoverable
               /\ ~tip[e].hoverable => ~leftHeld
<1>1. tip[e] \in TipType /\ tip[e].at \in Positions
  BY DEF Typed, PointerTypeOK
<1> DEFINE v == [tip[e] EXCEPT !.state = "visible"]
           h == [tip[e] EXCEPT !.state = "hiding"]
<1>2. /\ v \in TipType /\ v.state = "visible" /\ v.at = tip[e].at /\ v.hoverable = tip[e].hoverable
      /\ h \in TipType /\ h.state = "hiding" /\ h.at = tip[e].at /\ h.hoverable = tip[e].hoverable
  BY <1>1 DEF TipType
<1> HIDE DEF v, h
<1>3. \/ TipHovered(e, leftHeld) /\ Checked(e, leftHeld) = v
      \/ tip[e].hoverable /\ Checked(e, leftHeld) = h
      \/ Checked(e, leftHeld) = NoTip
  BY DEF Checked, v, h
<1>4. TipHovered(e, leftHeld) /\ ~tip[e].hoverable => ~leftHeld
  BY DEF TipHovered
<1> QED BY <1>1, <1>2, <1>3, <1>4

LEMMA DrawSteps ==
  ASSUME PointerInv, DrawFrame
  PROVE  PointerInv'
<1> DEFINE kept == Drawn(scene)
           pressed == KeptPresses(kept)
           hovered == HitTest(scene, pos)
           asked == {e \in kept \cap Tipped : tip[e].state \in {"visible", "hiding"}}
           After(e) == Checked(e, pending[e] # None)
           stay == {e \in asked : After(e) # NoTip}
           front == IF drag # None \/ stay = {} THEN None ELSE Greatest(stay)
           checked == IF drag # None THEN {} ELSE {e \in asked : front # None => e >= front}
<1>0. PointerTypeOK /\ Typed /\ scene \in SceneType
  BY PointerAssumption DEF PointerInv, PointerTypeOK, SceneType
<1>1. /\ dirty' = FALSE /\ hit' = hovered
      /\ clicked' = clicked \cap pressed
      /\ pending' = [e \in Elements |-> IF e \in pressed THEN pending[e] ELSE None]
      /\ tip' = [e \in Elements |-> IF e \in checked THEN After(e)
                                    ELSE IF e \in kept THEN tip[e] ELSE NoTip]
      /\ tooltip' = front
      /\ frame' = Paint(scene, clicked \cap pressed, hovered)
      /\ missed' = missed \cap (pressed \cup {drag})
      /\ owed' = IF drag # None THEN {} ELSE owed
      /\ due' = {} /\ leftOver' = FALSE /\ jumped' = FALSE
      /\ UNCHANGED <<scene, pos, buttons, focused, drag, outside, ghosts>>
  BY DEF DrawFrame
<1>2. pressed \subseteq kept /\ (drag # None => pressed = {}) /\ kept \subseteq Elements
  BY <1>0 DEF KeptPresses, Drawn, SceneType
<1>3. /\ frame'.scene = scene /\ frame'.resets = clicked \cap pressed \cap scene.shown
      /\ frame'.was = hovered /\ frame'.captured = {} /\ frame'.spent = {} /\ frame'.drag = drag
      /\ frame' \in FrameType /\ Listening' = scene.shown /\ Drawn(frame'.scene) = kept
  <2>1. frame' = [scene |-> scene, resets |-> clicked \cap pressed \cap scene.shown,
                  was |-> hovered, captured |-> {}, spent |-> {}, drag |-> drag]
    BY <1>1 DEF Paint, ActiveResets
  <2>2. hovered \subseteq Elements /\ clicked \cap pressed \subseteq Elements
    BY <1>2, HitAmongDrawn
  <2>3. drag \in Values \cup {None}
    BY <1>0 DEF PointerTypeOK
  <2> QED BY <1>0, <2>1, <2>2, <2>3 DEF FrameType, Listening, SceneType
<1>4. /\ asked \subseteq Elements /\ asked \subseteq Tipped /\ asked \subseteq kept
      /\ stay \subseteq asked /\ checked \subseteq asked
      /\ \A e \in asked : tip[e].state \in {"visible", "hiding"}
  BY <1>2
<1>5. front # None => drag = None /\ front \in stay /\ front \in checked
  <2>1. SUFFICES ASSUME front # None PROVE drag = None /\ front \in stay /\ front \in checked
    OBVIOUS
  <2>2. drag = None /\ stay # {} /\ front = Greatest(stay)
    BY <2>1
  <2>3. front \in stay
    BY <1>4, <2>2, GreatestIsThere
  <2>4. front \in Elements /\ front >= front
    BY <1>4, <2>3 DEF Elements
  <2> QED BY <1>4, <2>2, <2>3, <2>4
<1>6. ASSUME NEW e \in asked
      PROVE  \/ After(e) = NoTip
             \/ /\ After(e) \in TipType
                /\ After(e).state \in {"visible", "hiding"} /\ After(e).at \in Positions
                /\ After(e).hoverable = tip[e].hoverable
                /\ After(e).state = "hiding" => tip[e].hoverable
                /\ ~tip[e].hoverable => pending[e] = None
  <2>1. e \in Elements /\ tip[e].state \in {"visible", "hiding"}
    BY <1>4
  <2> QED BY <1>0, <2>1, CheckedFacts
<1>7. stay = {e \in asked : After(e) # NoTip}
  OBVIOUS
<1> HIDE DEF kept, pressed, hovered, asked, After, stay, front, checked
<1>8. NoTip \in TipType /\ NoTip.state = "none" /\ NoTip.at = None
  BY DEF NoTip, TipType
<1>9. ASSUME NEW e \in Elements
      PROVE  /\ tip'[e] \in TipType
             /\ tip'[e].state = "hiding" => tip'[e].hoverable
             /\ IF tip'[e].state \in {"visible", "hiding"} THEN tip'[e].at \in Positions
                                                          ELSE tip'[e].at = None
  <2>1. CASE e \in checked
    <3>1. tip'[e] = After(e) /\ e \in asked
      BY <1>1, <1>4, <2>1
    <3> QED BY <1>6, <1>8, <3>1
  <2>2. CASE e \notin checked
    BY <1>0, <1>1, <1>8, <2>2 DEF PointerTypeOK, Typed
  <2> QED BY <2>1, <2>2
<1>10. Typed'
  BY <1>1, <1>3, <1>9 DEF Typed
<1>11. PointerTypeOK'
  <2>1. hit' \subseteq Drawn(frame'.scene)
    BY <1>1, <1>3, HitAmongDrawn DEF hovered
  <2>2. pending' \in [Elements -> Positions \cup {None}]
    BY <1>0, <1>1 DEF PointerTypeOK
  <2>3. {e \in Elements : pending'[e] # None} \cup clicked' \subseteq Drawn(frame'.scene)
    BY <1>1, <1>2, <1>3
  <2>4. ASSUME NEW e \in Elements
        PROVE  /\ tip'[e].state \in {"none", "waiting", "visible", "hiding"}
               /\ tip'[e].over \subseteq Positions /\ tip'[e].hoverable \in BOOLEAN
    BY <1>9 DEF TipType
  <2>5. owed' \cup due' \cup missed' \cup ghosts' \subseteq Elements
    BY <1>0, <1>1 DEF PointerTypeOK
  <2>6. scene' \in Scenes /\ pos' \in Positions /\ buttons' \subseteq {"left", "right"}
        /\ outside' \in BOOLEAN /\ leftOver' \in BOOLEAN /\ jumped' \in BOOLEAN
        /\ dirty' \in BOOLEAN
        /\ focused' \in Focusable \cup {None} /\ drag' \in Values \cup {None}
    BY <1>0, <1>1 DEF PointerTypeOK
  <2>7. tooltip' \in Tipped \cup {None}
    BY <1>1, <1>4, <1>5
  <2>8. /\ frame'.resets \subseteq Listening' /\ frame'.captured \cup frame'.spent \subseteq Listening'
        /\ frame'.drag \in Values \cup {None}
    BY <1>0, <1>3 DEF PointerTypeOK
  <2> QED BY <1>9, <2>1, <2>2, <2>3, <2>4, <2>5, <2>6, <2>7, <2>8 DEF PointerTypeOK
<1>12. HitIsCurrent'
  BY <1>1, <1>3 DEF HitIsCurrent, hovered
<1>13. PressesOwed'
  BY <1>1, <1>2 DEF PointerInv, PressesOwed
<1>14. CapturedIsDue' /\ NoGhostClick'
  BY <1>1, <1>3 DEF PointerInv, CapturedIsDue, NoGhostClick
<1>15. PressesHeld'
  BY <1>1 DEF PointerInv, PressesHeld
<1>16. ActiveIsReset' /\ HoverIsPainted' /\ DragShown'
  BY <1>1, <1>3 DEF ActiveIsReset, HoverIsPainted, DragShown
<1>17. TooltipIsCurrent'
  <2>1. SUFFICES ASSUME front # None
                 PROVE  /\ tip'[front].state \in {"visible", "hiding"} /\ drag = None
                        /\ ~tip'[front].hoverable => pending'[front] = None
    BY <1>1 DEF TooltipIsCurrent
  <2>2. front \in asked /\ front \in Elements /\ After(front) # NoTip /\ front \in checked
    BY <1>4, <1>5, <1>7, <2>1
  <2>3. tip'[front] = After(front)
    BY <1>1, <2>2
  <2>4. /\ After(front).state \in {"visible", "hiding"}
        /\ After(front).hoverable = tip[front].hoverable
        /\ ~tip[front].hoverable => pending[front] = None
    BY <1>6, <2>2
  <2>5. pending'[front] = pending[front] \/ pending'[front] = None
    BY <1>1, <2>2
  <2> QED BY <1>5, <2>1, <2>3, <2>4, <2>5
<1> QED BY <1>10, <1>11, <1>12, <1>13, <1>14, <1>15, <1>16, <1>17 DEF PointerInv

------------------------------------------------------------------------------
(* The theorems.                                                               *)

LEMMA PointerNextInv == PointerInv /\ [PointerNext]_pvars => PointerInv'
<1> SUFFICES ASSUME PointerInv, [PointerNext]_pvars PROVE PointerInv'
  OBVIOUS
<1>0. /\ drag \in Values \cup {None} /\ outside \in BOOLEAN /\ Files \in Values
      /\ buttons \subseteq {"left", "right"}
  BY DEF PointerInv, PointerTypeOK, Values
<1>1. CASE DrawFrame
  BY <1>1, DrawSteps
<1>2. ASSUME NEW b \in {"left", "right"}, NEW p \in Positions, Down(b, p) PROVE PointerInv'
  BY <1>2, DownSteps
<1>3. ASSUME NEW b \in {"left", "right"}, NEW p \in Positions, Up(b, p) PROVE PointerInv'
  <2>1. Released(p) /\ buttons' \subseteq buttons /\ outside' \in BOOLEAN
    BY <1>0, <1>3 DEF Up
  <2> QED BY <2>1, ReleasedSteps
<1>4. ASSUME NEW p \in Positions, Move(p) \/ FilesMoved(p) PROVE PointerInv'
  <2>1. Moved(p, drag) /\ outside' \in BOOLEAN
    BY <1>0, <1>4 DEF Move, FilesMoved
  <2> QED BY <1>0, <2>1, MovedSteps
<1>5. ASSUME NEW p \in Positions, FilesEntered(p) PROVE PointerInv'
  <2> DEFINE d == IF drag = None THEN Files ELSE drag
  <2>1. Moved(p, d) /\ outside' \in BOOLEAN
    BY <1>5 DEF FilesEntered
  <2>2. d \in Values \cup {None} /\ (d = drag \/ (drag = None /\ d = Files))
    BY <1>0
  <2> HIDE DEF d
  <2> QED BY <2>1, <2>2, MovedSteps
<1>6. ASSUME NEW p \in Positions, FilesSubmitted(p) PROVE PointerInv'
  <2>1. Released(p) /\ buttons' \subseteq buttons /\ outside' \in BOOLEAN
    BY <1>6 DEF FilesSubmitted
  <2> QED BY <2>1, ReleasedSteps
<1>7. CASE \/ \E s \in Scenes : Change(s)
           \/ FilesExited \/ StopDrag
           \/ \E e \in Tipped : ShowTip(e) \/ HideTip(e)
           \/ UNCHANGED pvars
  BY <1>7, SmallSteps
<1>8. ASSUME NEW p \in Positions, (\E s \in Scenes : WheelAt(p, s)) \/ Magnify(p)
      PROVE  PointerInv'
  BY <1>8, WheelSteps
<1> QED BY <1>1, <1>2, <1>3, <1>4, <1>5, <1>6, <1>7, <1>8 DEF PointerNext

LEMMA PointerInvariance == PointerSpec => []PointerInv
  BY PointerInitInv, PointerNextInv, PTL DEF PointerSpec

\* Nothing clicks but for a press of its own that was released over it, nothing stays pressed or
\* dragged without a button, and nothing is kept of what is not drawn (paint_mouse_listeners,
\* with_optional_element_state of elements/div.rs), whatever is drawn between the events.
THEOREM ClicksAreOfPresses == PointerSpec => []ClicksArePresses
<1>1. PointerInv => ClicksArePresses
  <2>1. PressesHeld => ButtonHeld
    BY DEF PressesHeld, ButtonHeld
  <2> QED BY <2>1 DEF PointerInv, ClicksArePresses
<1> QED BY <1>1, PointerInvariance, PTL

\* Active and hover styles, the dragged view and the tooltip are what a paint would show, or a
\* frame is due (dispatch_mouse_event of window.rs and the listeners of elements/div.rs).
THEOREM PaintIsTrue == PointerSpec => []PaintedIsTrue
<1>1. PointerInv => PaintedIsTrue
  BY DEF PointerInv, PaintedIsTrue
<1> QED BY <1>1, PointerInvariance, PTL
================================================================================
