--------------------------- MODULE KeyDispatchProofs ---------------------------
(***************************************************************************)
(* What KeyDispatch promises for every keymap, every context stack, any     *)
(* number of focus handles and keystrokes, and dispatches nested as deep as *)
(* MaxDepth lets them.                                                      *)
(*                                                                         *)
(* The argument: at any time every keystroke that was typed and not         *)
(* forgotten is in one place: dealt with (fate), pending, or in one of the  *)
(* dispatches (WorkOf), as a piece still to be handled or to be stored.     *)
(* Every step takes keystrokes from the end of one place and puts them at   *)
(* the end of another (SoundSame), or, with nested dispatches and with      *)
(* interceptors, past pending ones (SoundMoved).  That needs what dispatch_key *)
(* and flush_dispatch return: pieces and a rest that are what was typed,    *)
(* and a rest that says whether it is bound (DispatchKeyType,               *)
(* FlushDispatchType, CutSound).  Those are recursive functions: the proofs *)
(* find them by least-number induction (DownFrom, FromAbove).               *)
(***************************************************************************)
EXTENDS KeyDispatch, SequenceTheorems, FiniteSetTheorems, WellFoundedInduction, TLAPS
-----------------------------------------------------------------------------
(* Numbers and recursion over them.                                        *)

LEMMA LeastNumber ==
  ASSUME NEW T, T \subseteq Nat, T # {}
  PROVE  \E n \in T : \A m \in T : n <= m
<1> DEFINE R == OpToRel(<, Nat)
<1>1. IsWellFoundedOn(R, Nat)
  BY NatLessThanWellFounded
<1>2. \A x, y \in Nat : <<y, x>> \in R <=> y < x
  BY DEF OpToRel
<1> HIDE DEF R
<1>3. \E n \in T : \A m \in T : ~(<<m, n>> \in R)
  BY <1>1, WFMin
<1>4. PICK n \in T : \A m \in T : ~(m < n)
  BY <1>2, <1>3
<1> QED BY <1>4

\* What holds of 0, and of each number after one it holds of, holds up to N.
LEMMA UpTo ==
  ASSUME NEW N \in Nat, NEW P, 0 \in P, \A n \in 0..(N - 1) : n \in P => n + 1 \in P
  PROVE  0..N \subseteq P
<1> DEFINE Bad == {n \in 0..N : n \notin P}
<1>1. SUFFICES ASSUME Bad # {} PROVE FALSE
  OBVIOUS
<1>2. PICK n \in Bad : \A m \in Bad : n <= m
  <2>1. Bad \subseteq Nat
    OBVIOUS
  <2> HIDE DEF Bad
  <2> QED BY <1>1, <2>1, LeastNumber
<1>3. n \in 0..N /\ n \notin P /\ n # 0
  OBVIOUS
<1>4. n - 1 \in 0..(N - 1) /\ ~(n <= n - 1) /\ (n - 1) + 1 = n /\ n - 1 \in 0..N
  BY <1>3
<1>5. n - 1 \in P
  BY <1>2, <1>4
<1> QED BY <1>3, <1>4, <1>5

\* What holds of a number below N if it holds of those between holds of all of them.
LEMMA DownFrom ==
  ASSUME NEW N \in Nat, NEW P,
         \A n \in 0..(N - 1) : (\A m \in (n + 1)..(N - 1) : m \in P) => n \in P
  PROVE  0..(N - 1) \subseteq P
<1> DEFINE Q == {k \in Nat : \A m \in 0..(N - 1) : N - k <= m => m \in P}
<1>1. 0 \in Q
  OBVIOUS
<1>2. ASSUME NEW k \in 0..(N - 1), k \in Q PROVE k + 1 \in Q
  <2>1. N - (k + 1) \in 0..(N - 1)
    OBVIOUS
  <2>2. \A m \in ((N - (k + 1)) + 1)..(N - 1) : m \in P
    BY <1>2
  <2>3. N - (k + 1) \in P
    BY <2>1, <2>2
  <2>4. ASSUME NEW m \in 0..(N - 1), N - (k + 1) <= m PROVE m \in P
    <3>1. m = N - (k + 1) \/ N - k <= m
      BY <2>4
    <3> QED BY <1>2, <2>3, <2>4, <3>1
  <2> QED BY <2>4
<1>3. N \in Q
  <2> HIDE DEF Q
  <2> QED BY <1>1, <1>2, UpTo
<1> QED BY <1>3

\* A function on the numbers below N may be defined from what it is at higher ones:
\* at a number where it does not stop, by step from what it is at the next one.
GoesUp(N, V, Stop, base, nx, step) ==
  /\ N \in Nat
  /\ base \in [0..(N - 1) -> V]
  /\ \A n \in 0..(N - 1) : n \notin Stop => nx[n] \in (n + 1)..(N - 1)
  /\ \A n \in 0..(N - 1), v \in V : n \notin Stop => step[<<n, v>>] \in V
IsRecursive(f, N, V, Stop, base, nx, step) ==
  /\ f \in [0..(N - 1) -> V]
  /\ \A n \in 0..(N - 1) : f[n] = IF n \in Stop THEN base[n] ELSE step[<<n, f[nx[n]]>>]

LEMMA FromAbove ==
  ASSUME NEW N, NEW V, NEW Stop, NEW base, NEW nx, NEW step,
         GoesUp(N, V, Stop, base, nx, step)
  PROVE  \E f : IsRecursive(f, N, V, Stop, base, nx, step)
<1>0. /\ N \in Nat
      /\ base \in [0..(N - 1) -> V]
      /\ \A n \in 0..(N - 1) : n \notin Stop => nx[n] \in (n + 1)..(N - 1)
      /\ \A n \in 0..(N - 1), v \in V : n \notin Stop => step[<<n, v>>] \in V
  BY DEF GoesUp
<1> DEFINE D(k) == {n \in 0..(N - 1) : N - k <= n}
           Rec(f, n) == f[n] = IF n \in Stop THEN base[n] ELSE step[<<n, f[nx[n]]>>]
           Q == {k \in Nat : \E f \in [0..(N - 1) -> V] : \A n \in D(k) : Rec(f, n)}
<1>1. 0 \in Q
  BY <1>0
<1>2. ASSUME NEW k \in 0..(N - 1), k \in Q PROVE k + 1 \in Q
  <2>1. PICK f \in [0..(N - 1) -> V] : \A n \in D(k) : Rec(f, n)
    BY <1>2
  <2> DEFINE e == N - (k + 1)
             w == IF e \in Stop THEN base[e] ELSE step[<<e, f[nx[e]]>>]
             g == [f EXCEPT ![e] = w]
  <2>2. e \in 0..(N - 1) /\ \A n \in D(k + 1) : n = e \/ (n \in D(k) /\ n # e)
    BY <1>0
  <2>3. e \notin Stop => nx[e] \in 0..(N - 1) /\ nx[e] # e
    <3> HIDE DEF e
    <3> QED BY <1>0, <2>2
  <2>4. w \in V
    <3> HIDE DEF e
    <3> QED BY <1>0, <2>2, <2>3
  <2>5. g \in [0..(N - 1) -> V] /\ g[e] = w /\ \A n \in 0..(N - 1) : n # e => g[n] = f[n]
    <3> HIDE DEF w, e
    <3> QED BY <2>2, <2>4
  <2>6. ASSUME NEW n \in D(k + 1) PROVE Rec(g, n)
    <3>1. CASE n = e
      <4>1. e \notin Stop => g[nx[e]] = f[nx[e]]
        <5> HIDE DEF g, w, e
        <5> QED BY <2>3, <2>5
      <4>2. g[e] = IF e \in Stop THEN base[e] ELSE step[<<e, f[nx[e]]>>]
        <5> HIDE DEF g, e
        <5> QED BY <2>5
      <4> HIDE DEF g, w, e
      <4> QED BY <3>1, <4>1, <4>2
    <3>2. CASE n \in D(k) /\ n # e
      <4>1. n \in 0..(N - 1) /\ Rec(f, n)
        BY <2>1, <3>2
      <4>2. n \notin Stop => nx[n] \in 0..(N - 1) /\ nx[n] # e
        <5>1. n >= N - k
          BY <3>2
        <5>2. n \notin Stop => nx[n] \in (n + 1)..(N - 1)
          BY <1>0, <4>1
        <5> QED BY <1>0, <4>1, <5>1, <5>2
      <4>3. g[n] = f[n] /\ (n \notin Stop => g[nx[n]] = f[nx[n]])
        <5> HIDE DEF g, w, e
        <5> QED BY <2>5, <3>2, <4>1, <4>2
      <4> HIDE DEF g, w, e
      <4> QED BY <4>1, <4>3
    <3> QED BY <2>2, <3>1, <3>2
  <2>7. \E h \in [0..(N - 1) -> V] : \A n \in D(k + 1) : Rec(h, n)
    <3> HIDE DEF g, w, e, D, Rec
    <3> QED BY <2>5, <2>6
  <2> HIDE DEF g, w, e, D, Rec
  <2> QED BY <2>7
<1>3. N \in Q
  <2>1. \A k \in 0..(N - 1) : k \in Q => k + 1 \in Q
    <3> HIDE DEF Q
    <3> QED BY <1>2
  <2>2. 0..N \subseteq Q
    <3> HIDE DEF Q
    <3> QED BY <1>0, <1>1, <2>1, UpTo
  <2> HIDE DEF Q
  <2> QED BY <1>0, <2>2
<1>4. \A n \in 0..(N - 1) : n \in D(N)
  BY <1>0
<1> QED BY <1>3, <1>4 DEF IsRecursive

-----------------------------------------------------------------------------
(* Sequences of keystrokes, one after the other.                           *)

LEMMA ConcatParts ==
  ASSUME NEW T, NEW a \in Seq(T), NEW b \in Seq(T)
  PROVE  /\ Range(a \o b) = Range(a) \cup Range(b)
         /\ IsInjective(a \o b) <=>
              IsInjective(a) /\ IsInjective(b) /\ Range(a) \cap Range(b) = {}
<1> DEFINE s == a \o b
<1>1. /\ s \in Seq(T) /\ Len(a) \in Nat /\ Len(b) \in Nat /\ Len(s) = Len(a) + Len(b)
      /\ DOMAIN s = 1..Len(s) /\ DOMAIN a = 1..Len(a) /\ DOMAIN b = 1..Len(b)
  OBVIOUS
<1>2. \A n \in 1..Len(a) : s[n] = a[n] /\ n \in 1..Len(s)
  OBVIOUS
<1>3. \A n \in 1..Len(b) : s[Len(a) + n] = b[n] /\ Len(a) + n \in 1..Len(s)
  OBVIOUS
<1>4. \A n \in 1..Len(s) : n \in 1..Len(a) \/ \E m \in 1..Len(b) : n = Len(a) + m
  <2>1. ASSUME NEW n \in 1..Len(s), n \notin 1..Len(a) PROVE \E m \in 1..Len(b) : n = Len(a) + m
    <3>1. n - Len(a) \in 1..Len(b) /\ n = Len(a) + (n - Len(a))
      BY <1>1, <2>1
    <3> QED BY <3>1
  <2> QED BY <2>1
<1> HIDE DEF s
<1>5. Range(s) = Range(a) \cup Range(b)
  <2>1. \A x \in Range(a) : x \in Range(s)
    BY <1>1, <1>2 DEF Range
  <2>2. \A x \in Range(b) : x \in Range(s)
    BY <1>1, <1>3 DEF Range
  <2>3. ASSUME NEW n \in 1..Len(s) PROVE s[n] \in Range(a) \cup Range(b)
    <3>1. CASE n \in 1..Len(a)
      BY <1>1, <1>2, <3>1 DEF Range
    <3>2. CASE \E m \in 1..Len(b) : n = Len(a) + m
      BY <1>1, <1>3, <3>2 DEF Range
    <3> QED BY <1>4, <3>1, <3>2
  <2>4. \A x \in Range(s) : x \in Range(a) \cup Range(b)
    BY <1>1, <2>3 DEF Range
  <2> QED BY <2>1, <2>2, <2>4
<1>6. ASSUME IsInjective(s)
      PROVE  IsInjective(a) /\ IsInjective(b) /\ Range(a) \cap Range(b) = {}
  <2>1. \A m, n \in 1..Len(s) : s[m] = s[n] => m = n
    BY <1>1, <1>6 DEF IsInjective
  <2>2. \A m, n \in 1..Len(a) : a[m] = a[n] => m = n
    BY <1>2, <2>1
  <2>3. ASSUME NEW m \in 1..Len(b), NEW n \in 1..Len(b), b[m] = b[n] PROVE m = n
    <3>1. Len(a) + m = Len(a) + n
      BY <1>3, <2>1, <2>3
    <3> QED BY <1>1, <3>1
  <2>4. ASSUME NEW m \in 1..Len(a), NEW n \in 1..Len(b) PROVE a[m] # b[n]
    <3>1. m # Len(a) + n
      BY <1>1
    <3> QED BY <1>2, <1>3, <2>1, <3>1
  <2> QED BY <1>1, <2>2, <2>3, <2>4 DEF IsInjective, Range
<1>7. ASSUME IsInjective(a), IsInjective(b), Range(a) \cap Range(b) = {}
      PROVE  IsInjective(s)
  <2>1. \A m \in 1..Len(a), n \in 1..Len(b) : a[m] # b[n]
    BY <1>1, <1>7 DEF Range
  <2>2. ASSUME NEW m \in 1..Len(s), NEW n \in 1..Len(s), s[m] = s[n] PROVE m = n
    <3>1. CASE m \in 1..Len(a) /\ n \in 1..Len(a)
      BY <1>1, <1>2, <1>7, <2>2, <3>1 DEF IsInjective
    <3>2. ASSUME NEW i \in 1..Len(b), NEW j \in 1..Len(b), m = Len(a) + i, n = Len(a) + j
          PROVE  m = n
      <4>1. b[i] = b[j]
        BY <1>3, <2>2, <3>2
      <4> QED BY <1>1, <1>7, <3>2, <4>1 DEF IsInjective
    <3>3. ASSUME NEW j \in 1..Len(b), m \in 1..Len(a), n = Len(a) + j PROVE FALSE
      BY <1>2, <1>3, <2>1, <2>2, <3>3
    <3>4. ASSUME NEW i \in 1..Len(b), m = Len(a) + i, n \in 1..Len(a) PROVE FALSE
      BY <1>2, <1>3, <2>1, <2>2, <3>4
    <3> QED BY <1>4, <3>1, <3>2, <3>3, <3>4
  <2> QED BY <1>1, <2>2 DEF IsInjective
<1> QED BY <1>5, <1>6, <1>7 DEF s

\* FlattenSeq is what its beginnings come to.
IsFlatten(s, p, T) ==
  /\ p \in [0..Len(s) -> Seq(T)]
  /\ p[0] = <<>>
  /\ \A n \in 1..Len(s) : p[n] = p[n - 1] \o s[n]

LEMMA FlattenIs ==
  ASSUME NEW T, NEW s \in Seq(Seq(T)), NEW p, IsFlatten(s, p, T)
  PROVE  FlattenSeq(s) = p[Len(s)]
<1> DEFINE L == Len(s)
           Rec(f) == f = [n \in 1..L |-> IF n = 1 THEN s[n] ELSE f[n - 1] \o s[n]]
           F == CHOOSE f : Rec(f)
<1>1. L \in Nat /\ p[0] = <<>> /\ (\A n \in 1..L : p[n] = p[n - 1] \o s[n] /\ s[n] \in Seq(T))
  BY DEF IsFlatten
<1>2. CASE L = 0
  BY <1>1, <1>2 DEF FlattenSeq, IsFlatten
<1>3. CASE L # 0
  <2>1. FlattenSeq(s) = F[L]
    BY <1>3 DEF FlattenSeq
  <2>2. Rec([n \in 1..L |-> p[n]])
    <3>1. \A n \in 1..L : p[n] = IF n = 1 THEN s[n] ELSE [m \in 1..L |-> p[m]][n - 1] \o s[n]
      <4>1. ASSUME NEW n \in 1..L, n = 1 PROVE p[n] = s[n]
        <5>1. n - 1 = 0
          BY <4>1
        <5>2. p[n] = p[0] \o s[n] /\ s[n] \in Seq(T)
          BY <1>1, <4>1, <5>1
        <5>3. <<>> \o s[n] = s[n]
          BY <5>2
        <5> QED BY <1>1, <5>2, <5>3
      <4>2. ASSUME NEW n \in 1..L, n # 1 PROVE p[n] = [m \in 1..L |-> p[m]][n - 1] \o s[n]
        <5>1. n - 1 \in 1..L
          BY <1>1, <4>2
        <5> QED BY <1>1, <5>1
      <4> QED BY <4>1, <4>2
    <3> QED BY <3>1
  <2>3. Rec(F)
    <3> HIDE DEF Rec
    <3> QED BY <2>2
  <2>4. \A n \in 1..L : F[n] = IF n = 1 THEN s[n] ELSE F[n - 1] \o s[n]
    <3> HIDE DEF F
    <3> QED BY <2>3
  <2> DEFINE P == {n \in Nat : n = 0 \/ (n \in 1..L => F[n] = p[n])}
  <2>5. \A n \in 0..(L - 1) : n \in P => n + 1 \in P
    <3>1. ASSUME NEW n \in 0..(L - 1), n \in P PROVE F[n + 1] = p[n + 1]
      <4>1. n + 1 \in 1..L /\ (n + 1) - 1 = n
        BY <1>1
      <4>2. p[n + 1] = p[n] \o s[n + 1]
        BY <1>1, <4>1
      <4>3. CASE n = 0
        <5>1. F[n + 1] = s[n + 1]
          <6>1. n + 1 = 1
            BY <4>3
          <6> HIDE DEF F
          <6> QED BY <2>4, <4>1, <6>1
        <5>2. <<>> \o s[n + 1] = s[n + 1]
          BY <1>1, <4>1
        <5> HIDE DEF F
        <5> QED BY <1>1, <4>2, <4>3, <5>1, <5>2
      <4>4. CASE n # 0
        <5>1. F[n + 1] = F[n] \o s[n + 1]
          <6>1. n + 1 # 1
            BY <4>4
          <6> HIDE DEF F
          <6> QED BY <2>4, <4>1, <6>1
        <5>2. F[n] = p[n]
          <6>1. n \in 1..L
            BY <4>4, <1>1
          <6> HIDE DEF F
          <6> QED BY <3>1, <4>4, <6>1
        <5> HIDE DEF F
        <5> QED BY <4>2, <5>1, <5>2
      <4> QED BY <4>3, <4>4
    <3> HIDE DEF F
    <3> QED BY <3>1
  <2>6. 0..L \subseteq P
    <3>1. 0 \in P
      OBVIOUS
    <3> HIDE DEF P
    <3> QED BY <1>1, <2>5, <3>1, UpTo
  <2>7. L \in 1..L
    BY <1>1, <1>3
  <2> HIDE DEF F
  <2> QED BY <1>1, <1>3, <2>1, <2>6, <2>7
<1> QED BY <1>2, <1>3

LEMMA FlattenParts ==
  ASSUME NEW T, NEW s \in Seq(Seq(T))
  PROVE  \E p : IsFlatten(s, p, T)
<1> DEFINE L == Len(s)
           N == L + 1
           base == [n \in 0..(N - 1) |-> <<>>]
           nx == [n \in 0..(N - 1) |-> n + 1]
           step == [x \in (0..(N - 1)) \X Seq(T) |-> x[2] \o s[L - x[1]]]
<1>1. L \in Nat /\ N \in Nat /\ N - 1 = L
  OBVIOUS
<1>2. base \in [0..(N - 1) -> Seq(T)]
  OBVIOUS
<1>3. \A n \in 0..(N - 1) : n \notin {L} => nx[n] \in (n + 1)..(N - 1)
  OBVIOUS
<1>4. \A n \in 0..(N - 1), v \in Seq(T) : step[<<n, v>>] = v \o s[L - n]
  OBVIOUS
<1>9. \A n \in 0..(N - 1), v \in Seq(T) : n \notin {L} => step[<<n, v>>] \in Seq(T)
  <2>1. \A n \in 0..(N - 1) : n \notin {L} => s[L - n] \in Seq(T)
    OBVIOUS
  <2>2. ASSUME NEW n \in 0..(N - 1), n \notin {L}, NEW v \in Seq(T) PROVE step[<<n, v>>] \in Seq(T)
    <3>1. v \o s[L - n] \in Seq(T)
      <4> HIDE DEF N, L
      <4> QED BY <2>1, <2>2
    <3> HIDE DEF step, N, L
    <3> QED BY <1>4, <3>1
  <2> HIDE DEF step, N, L
  <2> QED BY <2>2
<1>5. PICK f \in [0..(N - 1) -> Seq(T)] :
         \A n \in 0..(N - 1) : f[n] = IF n \in {L} THEN base[n] ELSE step[<<n, f[nx[n]]>>]
  <2>1. GoesUp(N, Seq(T), {L}, base, nx, step)
    <3> HIDE DEF N, L, base, nx, step
    <3> QED BY <1>1, <1>2, <1>3, <1>9 DEF GoesUp
  <2>2. PICK f : IsRecursive(f, N, Seq(T), {L}, base, nx, step)
    <3> HIDE DEF N, L, base, nx, step
    <3> QED BY <2>1, FromAbove
  <2> HIDE DEF N, L, base, nx, step
  <2> QED BY <2>2 DEF IsRecursive
<1> DEFINE p == [k \in 0..L |-> f[L - k]]
<1>6. p \in [0..L -> Seq(T)]
  BY <1>1
<1>7. p[0] = <<>>
  <2>1. L \in 0..(N - 1) /\ L \in {L} /\ base[L] = <<>>
    BY <1>1
  <2>2. f[L] = base[L]
    <3> HIDE DEF N, L, base, nx, step
    <3> QED BY <1>5, <2>1
  <2> QED BY <1>1, <2>1, <2>2
<1>8. ASSUME NEW k \in 1..L PROVE p[k] = p[k - 1] \o s[k]
  <2>1. /\ L - k \in 0..(N - 1) /\ L - k \notin {L}
        /\ (L - k) + 1 = L - (k - 1) /\ L - (L - k) = k
        /\ k - 1 \in 0..L /\ k \in 0..L /\ L - (k - 1) \in 0..(N - 1)
    <3> HIDE DEF L
    <3> QED BY <1>1
  <2>2. nx[L - k] = L - (k - 1)
    BY <2>1
  <2>3. f[L - k] = step[<<L - k, f[L - (k - 1)]>>]
    <3> HIDE DEF N, L, base, nx, step
    <3> QED BY <1>5, <2>1, <2>2
  <2>4. f[L - k] = f[L - (k - 1)] \o s[k]
    <3> HIDE DEF N, L, base, nx, step
    <3>1. f[L - (k - 1)] \in Seq(T)
      BY <2>1
    <3> QED BY <1>4, <2>1, <2>3, <3>1
  <2> QED BY <2>1, <2>4
<1> QED BY <1>6, <1>7, <1>8 DEF IsFlatten

LEMMA FlattenOfNone == FlattenSeq(<<>>) = <<>>
BY DEF FlattenSeq

LEMMA FlattenType ==
  ASSUME NEW T, NEW s \in Seq(Seq(T))
  PROVE  FlattenSeq(s) \in Seq(T)
<1>1. PICK p : IsFlatten(s, p, T)
  BY FlattenParts
<1>2. FlattenSeq(s) = p[Len(s)]
  BY <1>1, FlattenIs
<1> QED BY <1>1, <1>2 DEF IsFlatten

LEMMA ConcatThree ==
  ASSUME NEW T, NEW a \in Seq(T), NEW b \in Seq(T), NEW c \in Seq(T)
  PROVE  (a \o b) \o c = a \o (b \o c)
OBVIOUS

LEMMA FlattenFirst ==
  ASSUME NEW T, NEW s \in Seq(Seq(T)), s # <<>>
  PROVE  FlattenSeq(s) = Head(s) \o FlattenSeq(Tail(s))
<1> DEFINE t == Tail(s)
           L == Len(s)
           h == s[1]
<1>1. /\ t \in Seq(Seq(T)) /\ L \in Nat \ {0} /\ Len(t) = L - 1 /\ h \in Seq(T)
      /\ \A n \in 1..(L - 1) : t[n] = s[n + 1]
  BY HeadTailProperties
<1>2. Head(s) = h
  OBVIOUS
<1>3. \A n \in 1..L : s[n] \in Seq(T)
  OBVIOUS
<1> HIDE DEF t, L, h
<1>4. PICK q : IsFlatten(t, q, T)
  BY <1>1, FlattenParts
<1>5. /\ q \in [0..(L - 1) -> Seq(T)] /\ q[0] = <<>>
      /\ \A n \in 1..(L - 1) : q[n] = q[n - 1] \o t[n]
  BY <1>1, <1>4 DEF IsFlatten
<1> DEFINE p == [k \in 0..L |-> IF k = 0 THEN <<>> ELSE h \o q[k - 1]]
<1>6. p \in [0..L -> Seq(T)]
  <2>1. \A k \in 0..L : k # 0 => q[k - 1] \in Seq(T)
    BY <1>1, <1>5
  <2> QED BY <1>1, <2>1
<1>7. ASSUME NEW n \in 1..L PROVE p[n] = p[n - 1] \o s[n]
  <2>1. CASE n = 1
    <3>1. p[1] = h \o q[0] /\ p[0] = <<>>
      BY <1>1, SMTT(30)
    <3>2. h \o <<>> = h /\ <<>> \o h = h
      BY <1>1
    <3>3. n - 1 = 0 /\ s[n] = h
      BY <2>1 DEF h
    <3> HIDE DEF p
    <3> QED BY <1>5, <2>1, <3>1, <3>2, <3>3
  <2>2. CASE n # 1
    <3>1. n - 1 \in 1..(L - 1) /\ (n - 1) - 1 \in 0..(L - 1) /\ n - 1 \in 0..L /\ n \in 0..L /\ n # 0 /\ n - 1 # 0
      BY <1>1, <2>2
    <3>2. p[n] = h \o q[n - 1] /\ p[n - 1] = h \o q[(n - 1) - 1]
      BY <3>1
    <3>3. q[n - 1] = q[(n - 1) - 1] \o t[n - 1] /\ t[n - 1] = s[n]
      <4>1. (n - 1) + 1 = n
        OBVIOUS
      <4>2. t[n - 1] = s[(n - 1) + 1]
        BY <1>1, <3>1
      <4> QED BY <1>5, <3>1, <4>1, <4>2
    <3>4. q[(n - 1) - 1] \in Seq(T) /\ s[n] \in Seq(T)
      BY <1>3, <1>5, <3>1
    <3>5. h \o (q[(n - 1) - 1] \o s[n]) = (h \o q[(n - 1) - 1]) \o s[n]
      <4> DEFINE u == q[(n - 1) - 1]
                 v == s[n]
      <4>1. u \in Seq(T) /\ v \in Seq(T)
        BY <3>4
      <4> HIDE DEF u, v, p
      <4>2. (h \o u) \o v = h \o (u \o v)
        <5>1. h \in Seq(T)
          BY <1>1
        <5> QED BY <4>1, <5>1, ConcatThree, SMTT(60)
      <4> QED BY <4>2 DEF u, v
    <3> HIDE DEF p
    <3> QED BY <3>2, <3>3, <3>5
  <2> QED BY <2>1, <2>2
<1>8. IsFlatten(s, p, T)
  <2>1. p[0] = <<>>
    BY <1>1
  <2> HIDE DEF p
  <2> QED BY <1>6, <1>7, <2>1 DEF IsFlatten, L
<1>9. p[L] = h \o q[L - 1]
  BY <1>1
<1>10. FlattenSeq(s) = p[L] /\ FlattenSeq(t) = q[L - 1]
  <2> HIDE DEF p
  <2>1. FlattenSeq(s) = p[L]
    BY <1>8, FlattenIs DEF L
  <2> QED BY <1>1, <1>4, <2>1, FlattenIs
<1> QED BY <1>2, <1>9, <1>10 DEF t

\* What is flattened has the elements of its parts, once if each part has them once
\* and no two have one in common.
LEMMA FlattenParted ==
  ASSUME NEW T, NEW s \in Seq(Seq(T)),
         \A n \in 1..Len(s) : IsInjective(s[n]),
         \A m, n \in 1..Len(s) : m # n => Range(s[m]) \cap Range(s[n]) = {}
  PROVE  /\ FlattenSeq(s) \in Seq(T)
         /\ IsInjective(FlattenSeq(s))
         /\ \A x \in Range(FlattenSeq(s)) : \E n \in 1..Len(s) : x \in Range(s[n])
<1> DEFINE L == Len(s)
<1>1. PICK p : IsFlatten(s, p, T)
  BY FlattenParts
<1>2. /\ L \in Nat /\ p \in [0..L -> Seq(T)] /\ p[0] = <<>>
      /\ \A n \in 1..L : p[n] = p[n - 1] \o s[n] /\ s[n] \in Seq(T)
  <2>1. \A n \in 1..L : s[n] \in Seq(T)
    OBVIOUS
  <2>2. L \in Nat
    OBVIOUS
  <2> QED BY <1>1, <2>1, <2>2 DEF IsFlatten
<1> HIDE DEF L
<1> DEFINE Q == {k \in 0..L : /\ IsInjective(p[k])
                              /\ \A x \in Range(p[k]) : \E n \in 1..k : x \in Range(s[n])}
<1>3. 0 \in Q
  <2>1. IsInjective(<<>>) /\ Range(<<>>) = {}
    BY DEF IsInjective, Range
  <2> QED BY <1>2, <2>1
<1>4. ASSUME NEW k \in 0..(L - 1), k \in Q PROVE k + 1 \in Q
  <2>1. k + 1 \in 1..L /\ (k + 1) - 1 = k /\ k \in 0..L /\ k + 1 \in 0..L /\ k \in Nat
    BY <1>2
  <2>2. p[k + 1] = p[k] \o s[k + 1] /\ p[k] \in Seq(T) /\ s[k + 1] \in Seq(T)
    BY <1>2, <2>1
  <2>3. IsInjective(p[k]) /\ \A x \in Range(p[k]) : \E n \in 1..k : x \in Range(s[n])
    BY <1>4
  <2>4. Range(p[k]) \cap Range(s[k + 1]) = {}
    <3>1. ASSUME NEW n \in 1..k PROVE Range(s[n]) \cap Range(s[k + 1]) = {}
      <4>1. n \in 1..L /\ n # k + 1
        BY <1>2, <2>1
      <4> QED BY <2>1, <4>1 DEF L
    <3> QED BY <2>3, <3>1
  <2>5. IsInjective(p[k + 1])
    <3>1. IsInjective(s[k + 1])
      BY <2>1 DEF L
    <3> QED BY <2>2, <2>3, <2>4, <3>1, ConcatParts
  <2>6. ASSUME NEW x \in Range(p[k + 1]) PROVE \E n \in 1..(k + 1) : x \in Range(s[n])
    <3>1. x \in Range(p[k]) \/ x \in Range(s[k + 1])
      BY <2>2, <2>6, ConcatParts
    <3>2. \A n \in 1..k : n \in 1..(k + 1)
      BY <2>1
    <3>3. k + 1 \in 1..(k + 1)
      BY <2>1
    <3> QED BY <2>3, <3>1, <3>2, <3>3
  <2> QED BY <2>1, <2>5, <2>6
<1>5. L \in Q
  <2>1. \A k \in 0..(L - 1) : k \in Q => k + 1 \in Q
    <3> HIDE DEF Q
    <3> QED BY <1>4
  <2>2. 0..L \subseteq Q
    <3> HIDE DEF Q
    <3> QED BY <1>2, <1>3, <2>1, UpTo
  <2> HIDE DEF Q
  <2> QED BY <1>2, <2>2
<1>6. FlattenSeq(s) = p[L]
  BY <1>1, FlattenIs DEF L
<1> QED BY <1>2, <1>5, <1>6 DEF L

-----------------------------------------------------------------------------
(* What a dispatch has to do.                                              *)

IdsOf(pieces) == [n \in DOMAIN pieces |-> pieces[n].ids]

LEMMA IdsOfType ==
  ASSUME NEW pieces \in Seq(PieceType)
  PROVE  IdsOf(pieces) \in Seq(Seq(Ids)) /\ Len(IdsOf(pieces)) = Len(pieces)
<1>1. DOMAIN pieces = 1..Len(pieces) /\ Len(pieces) \in Nat
  OBVIOUS
<1>2. \A n \in 1..Len(pieces) : pieces[n].ids \in Seq(Ids)
  <2>1. \A n \in 1..Len(pieces) : pieces[n] \in PieceType
    BY <1>1
  <2> QED BY <2>1 DEF PieceType
<1>3. IdsOf(pieces) \in [1..Len(pieces) -> Seq(Ids)]
  BY <1>1, <1>2 DEF IdsOf
<1> HIDE DEF IdsOf
<1> QED BY <1>1, <1>3

LEMMA WorkType ==
  ASSUME NEW d, d.pieces \in Seq(PieceType), d.store \in Seq(Ids)
  PROVE  WorkOf(d) \in Seq(Ids)
<1>1. WorkOf(d) = FlattenSeq(IdsOf(d.pieces)) \o d.store
  BY DEF WorkOf, IdsOf
<1>2. FlattenSeq(IdsOf(d.pieces)) \in Seq(Ids)
  BY IdsOfType, FlattenType
<1> QED BY <1>1, <1>2

LEMMA WorkNone ==
  ASSUME NEW d, d.pieces = <<>>, d.store \in Seq(Ids)
  PROVE  WorkOf(d) = d.store
<1>1. IdsOf(<<>>) = <<>>
  BY DEF IdsOf
<1>2. WorkOf(d) = FlattenSeq(IdsOf(d.pieces)) \o d.store
  BY DEF WorkOf, IdsOf
<1>3. WorkOf(d) = <<>> \o d.store
  BY <1>1, <1>2, FlattenOfNone
<1> QED BY <1>3

LEMMA WorkFirst ==
  ASSUME NEW d, d.pieces \in Seq(PieceType), d.pieces # <<>>, d.store \in Seq(Ids),
         NEW e, e.pieces = Tail(d.pieces), e.store = d.store
  PROVE  /\ WorkOf(d) = Head(d.pieces).ids \o WorkOf(e)
         /\ Head(d.pieces).ids \in Seq(Ids) /\ WorkOf(e) \in Seq(Ids)
<1> DEFINE a == IdsOf(d.pieces)
           b == IdsOf(e.pieces)
<1>1. a \in Seq(Seq(Ids)) /\ Len(a) = Len(d.pieces)
  BY IdsOfType
<1>2. /\ e.pieces \in Seq(PieceType) /\ Len(e.pieces) = Len(d.pieces) - 1
      /\ \A n \in 1..Len(e.pieces) : e.pieces[n] = d.pieces[n + 1]
  BY HeadTailProperties
<1>3. b \in Seq(Seq(Ids)) /\ Len(b) = Len(d.pieces) - 1
  BY <1>2, IdsOfType
<1>4. Len(d.pieces) \in Nat \ {0} /\ DOMAIN d.pieces = 1..Len(d.pieces) /\ DOMAIN e.pieces = 1..Len(e.pieces)
  BY <1>2
<1>5. a # <<>> /\ Head(a) = a[1] /\ Head(d.pieces) = d.pieces[1] /\ a[1] = d.pieces[1].ids
  <2>1. Head(d.pieces) = d.pieces[1]
    OBVIOUS
  <2>2. 1 \in DOMAIN d.pieces
    BY <1>4
  <2>3. a[1] = d.pieces[1].ids
    BY <2>2 DEF IdsOf
  <2> HIDE DEF a
  <2> QED BY <1>1, <1>4, <2>1, <2>3
<1>6. Tail(a) = b
  <2>1. /\ Tail(a) \in Seq(Seq(Ids)) /\ Len(Tail(a)) = Len(a) - 1
        /\ \A n \in 1..Len(Tail(a)) : Tail(a)[n] = a[n + 1]
    <3> HIDE DEF a
    <3> QED BY <1>1, <1>5, HeadTailProperties
  <2>2. ASSUME NEW n \in 1..(Len(d.pieces) - 1) PROVE a[n + 1] = b[n]
    <3>1. n + 1 \in DOMAIN d.pieces /\ n \in DOMAIN e.pieces
      BY <1>2, <1>4
    <3> QED BY <1>2, <1>4, <3>1 DEF IdsOf
  <2> DEFINE t == Tail(a)
  <2>3. t \in Seq(Seq(Ids)) /\ Len(t) = Len(b) /\ \A n \in 1..Len(t) : t[n] = b[n]
    <3> HIDE DEF a, b
    <3> QED BY <1>1, <1>3, <2>1, <2>2
  <2>4. \A x, y \in Seq(Seq(Ids)) :
          Len(x) = Len(y) /\ (\A n \in 1..Len(x) : x[n] = y[n]) => x = y
    BY SeqEqual
  <2> HIDE DEF t, b
  <2>5. t = b
    BY <1>3, <2>3, <2>4
  <2> QED BY <2>5 DEF t
<1>7. WorkOf(d) = FlattenSeq(a) \o d.store /\ WorkOf(e) = FlattenSeq(b) \o d.store
  BY DEF WorkOf, IdsOf
<1>8. FlattenSeq(a) = Head(a) \o FlattenSeq(b)
  <2> HIDE DEF a, b
  <2> QED BY <1>1, <1>5, <1>6, FlattenFirst
<1>9. FlattenSeq(b) \in Seq(Ids) /\ Head(a) \in Seq(Ids)
  <2> HIDE DEF a, b
  <2>1. FlattenSeq(b) \in Seq(Ids)
    BY <1>3, FlattenType
  <2>2. a[1] \in Seq(Ids)
    BY <1>1, <1>4
  <2> QED BY <1>5, <2>1, <2>2
<1>10. (Head(a) \o FlattenSeq(b)) \o d.store = Head(a) \o (FlattenSeq(b) \o d.store)
  <2> DEFINE h == Head(a)
             f == FlattenSeq(b)
             t == d.store
  <2>1. h \in Seq(Ids) /\ f \in Seq(Ids) /\ t \in Seq(Ids)
    BY <1>9
  <2> HIDE DEF h, f, t
  <2>2. (h \o f) \o t = h \o (f \o t)
    BY <2>1, ConcatThree
  <2> QED BY <2>2 DEF h, f, t
<1>11. WorkOf(e) \in Seq(Ids)
  BY <1>7, <1>9
<1> HIDE DEF a, b
<1> QED BY <1>5, <1>7, <1>8, <1>9, <1>10, <1>11

\* Where each piece begins, and where the last one ends.
IsCut(at, pieces) ==
  /\ at \in [1..(Len(pieces) + 1) -> Nat]
  /\ at[1] = 0
  /\ \A n \in 1..Len(pieces) : at[n + 1] = at[n] + pieces[n].len

SomePieces == Seq([len : Nat \ {0}, bindings : Seq(Nat)])

\* Cut gives each piece its keystrokes, one piece after the other.
LEMMA CutSound ==
  ASSUME NEW ids \in Seq(Ids), NEW pieces \in SomePieces, NEW at, IsCut(at, pieces),
         at[Len(pieces) + 1] <= Len(ids)
  PROVE  /\ Cut(ids, pieces) \in Seq(PieceType)
         /\ Len(Cut(ids, pieces)) = Len(pieces)
         /\ FlattenSeq(IdsOf(Cut(ids, pieces))) = SubSeq(ids, 1, at[Len(pieces) + 1])
<1> DEFINE L == Len(pieces)
           Rec(f) == f = [n \in 1..(L + 1) |-> IF n = 1 THEN 0 ELSE f[n - 1] + pieces[n - 1].len]
           F == CHOOSE f : Rec(f)
           c == Cut(ids, pieces)
<1>1. /\ L \in Nat /\ DOMAIN pieces = 1..L
      /\ \A n \in 1..L : pieces[n].len \in Nat \ {0} /\ pieces[n].bindings \in Seq(Nat)
  <2> DEFINE X == [len : Nat \ {0}, bindings : Seq(Nat)]
  <2>1. pieces \in Seq(X)
    BY DEF SomePieces
  <2>2. \A n \in 1..L : pieces[n] \in X
    <3> HIDE DEF X, Rec, F, c
    <3> QED BY <2>1
  <2>3. L \in Nat /\ DOMAIN pieces = 1..L
    BY <2>1
  <2> QED BY <2>2, <2>3
<1>2. /\ at \in [1..(L + 1) -> Nat] /\ at[1] = 0
      /\ \A n \in 1..L : at[n + 1] = at[n] + pieces[n].len
  BY DEF IsCut
<1>3. Rec(at)
  <2>1. ASSUME NEW n \in 1..(L + 1), n # 1 PROVE at[n] = at[n - 1] + pieces[n - 1].len
    <3>1. n - 1 \in 1..L /\ (n - 1) + 1 = n
      BY <1>1, <2>1
    <3>2. at[(n - 1) + 1] = at[n - 1] + pieces[n - 1].len
      BY <1>2, <3>1
    <3> QED BY <3>1, <3>2
  <2>2. \A n \in 1..(L + 1) : at[n] = IF n = 1 THEN 0 ELSE at[n - 1] + pieces[n - 1].len
    BY <1>2, <2>1
  <2> QED BY <1>2, <2>2
<1>4. Rec(F)
  <2> HIDE DEF Rec
  <2> QED BY <1>3
<1>5. \A n \in 1..(L + 1) : F[n] = IF n = 1 THEN 0 ELSE F[n - 1] + pieces[n - 1].len
  <2> HIDE DEF F
  <2> QED BY <1>4
<1>6. c = [n \in DOMAIN pieces |->
             [ids |-> SubSeq(ids, F[n] + 1, F[n + 1]), bindings |-> pieces[n].bindings]]
  BY DEF Cut
<1> HIDE DEF L, F, c
<1>7. \A n \in 1..(L + 1) : F[n] = at[n]
  <2> DEFINE P == {k \in Nat : k \in 0..L => F[k + 1] = at[k + 1]}
  <2>1. 0 \in P
    <3>1. F[1] = 0
      BY <1>1, <1>5
    <3> QED BY <1>2, <3>1
  <2>2. ASSUME NEW k \in 0..(L - 1), k \in P PROVE k + 1 \in P
    <3>1. k \in 0..L /\ k + 1 \in 1..L /\ (k + 1) + 1 \in 1..(L + 1) /\ ((k + 1) + 1) - 1 = k + 1 /\ (k + 1) + 1 # 1
      BY <1>1
    <3>2. F[(k + 1) + 1] = F[k + 1] + pieces[k + 1].len
      BY <1>5, <3>1
    <3>3. F[k + 1] = at[k + 1]
      BY <2>2, <3>1
    <3>4. at[(k + 1) + 1] = at[k + 1] + pieces[k + 1].len
      BY <1>2, <3>1
    <3>5. F[(k + 1) + 1] = at[(k + 1) + 1]
      BY <3>2, <3>3, <3>4
    <3> QED BY <3>1, <3>5
  <2>3. 0..L \subseteq P
    <3>1. \A k \in 0..(L - 1) : k \in P => k + 1 \in P
      <4> HIDE DEF P
      <4> QED BY <2>2
    <3> HIDE DEF P
    <3> QED BY <1>1, <2>1, <3>1, UpTo
  <2>4. ASSUME NEW n \in 1..(L + 1) PROVE F[n] = at[n]
    <3>1. n - 1 \in 0..L /\ (n - 1) + 1 = n
      BY <1>1
    <3>2. n - 1 \in P
      <4> HIDE DEF P
      <4> QED BY <2>3, <3>1
    <3> QED BY <3>1, <3>2
  <2> QED BY <2>4
<1>8. \A n \in 1..L : at[n] \in Nat /\ at[n + 1] \in Nat /\ at[n] < at[n + 1]
  <2>1. ASSUME NEW n \in 1..L PROVE at[n] \in Nat /\ at[n + 1] \in Nat /\ at[n] < at[n + 1]
    <3>1. n \in 1..(L + 1) /\ n + 1 \in 1..(L + 1)
      BY <1>1
    <3>2. at[n] \in Nat /\ at[n + 1] = at[n] + pieces[n].len /\ pieces[n].len \in Nat \ {0}
      BY <1>1, <1>2, <3>1
    <3> QED BY <3>2
  <2> QED BY <2>1
<1>9. \A n \in 1..L : at[n + 1] <= Len(ids)
  <2> DEFINE P == {n \in Nat : n <= L /\ Len(ids) < at[n + 1]}
  <2>1. SUFFICES ASSUME P # {} PROVE FALSE
    <3>1. \A n \in 1..L : n \in Nat /\ at[n + 1] \in Nat
      BY <1>1, <1>8
    <3> QED BY <3>1
  <2> DEFINE U == {L - n : n \in P}
  <2>2. U \subseteq Nat /\ U # {}
    <3>1. \A n \in P : L - n \in Nat
      BY <1>1
    <3> HIDE DEF P
    <3> QED BY <2>1, <3>1
  <2>3. PICK u \in U : \A m \in U : u <= m
    <3> HIDE DEF U
    <3> QED BY <2>2, LeastNumber
  <2>4. PICK n \in P : u = L - n
    BY <2>3
  <2>5. n \in Nat /\ n <= L /\ Len(ids) < at[n + 1]
    BY <2>4
  <2>6. n # L
    <3>1. at[L + 1] <= Len(ids) /\ at[L + 1] \in Nat /\ Len(ids) \in Nat
      <4>1. L + 1 \in 1..(L + 1)
        BY <1>1
      <4> QED BY <1>2, <4>1 DEF L
    <3> QED BY <2>5, <3>1
  <2>7. n + 1 \in 1..L /\ (n + 1) + 1 \in 1..(L + 1)
    BY <1>1, <2>5, <2>6
  <2>8. at[n + 1] < at[(n + 1) + 1] /\ at[n + 1] \in Nat /\ at[(n + 1) + 1] \in Nat
    BY <1>8, <2>7
  <2>9. n + 1 \in P
    BY <2>5, <2>7, <2>8
  <2>10. L - (n + 1) \in U
    <3> HIDE DEF P
    <3> QED BY <2>9
  <2>11. L - n <= L - (n + 1)
    BY <2>3, <2>4, <2>10
  <2> QED BY <1>1, <2>5, <2>11
<1>10. ASSUME NEW n \in 1..L
       PROVE  /\ SubSeq(ids, at[n] + 1, at[n + 1]) \in Seq(Ids)
              /\ SubSeq(ids, 1, at[n]) \o SubSeq(ids, at[n] + 1, at[n + 1]) = SubSeq(ids, 1, at[n + 1])
  <2> DEFINE a == at[n]
             b == at[n + 1]
  <2>1. a \in Nat /\ b \in Nat /\ a < b /\ b <= Len(ids)
    BY <1>8, <1>9
  <2> HIDE DEF a, b
  <2>2. \A i \in (a + 1)..b : ids[i] \in Ids
    BY <2>1
  <2>3. SubSeq(ids, a + 1, b) \in Seq(Ids)
    BY <2>1, <2>2, SubSeqProperties
  <2>4. SubSeq(ids, 1, a) \o SubSeq(ids, a + 1, b) = SubSeq(ids, 1, b)
    <3>1. 1 \in 1..(Len(ids) + 1) /\ a \in (1 - 1)..Len(ids) /\ b \in a..Len(ids)
      BY <2>1
    <3> QED BY <3>1, ConcatAdjacentSubSeq
  <2> QED BY <2>3, <2>4 DEF a, b
<1>11. \A n \in 1..L : c[n] = [ids |-> SubSeq(ids, at[n] + 1, at[n + 1]), bindings |-> pieces[n].bindings]
  <2>1. \A n \in 1..L : F[n] = at[n] /\ F[n + 1] = at[n + 1]
    BY <1>1, <1>7
  <2> QED BY <1>1, <1>6, <2>1
<1>12. c \in Seq(PieceType) /\ Len(c) = L
  <2>1. ASSUME NEW n \in 1..L PROVE c[n] \in PieceType
    <3> DEFINE k == SubSeq(ids, at[n] + 1, at[n + 1])
    <3>1. k \in Seq(Ids)
      BY <1>10
    <3>2. pieces[n].bindings \in Seq(Nat)
      BY <1>1
    <3>3. c[n] = [ids |-> k, bindings |-> pieces[n].bindings]
      BY <1>11
    <3> HIDE DEF k
    <3> QED BY <3>1, <3>2, <3>3 DEF PieceType
  <2>2. c = [n \in 1..L |-> c[n]]
    BY <1>1, <1>6
  <2>3. c \in [1..L -> PieceType]
    BY <2>1, <2>2
  <2> QED BY <1>1, <2>3
<1> DEFINE s == IdsOf(c)
           p == [k \in 0..L |-> SubSeq(ids, 1, at[k + 1])]
<1>13. s \in Seq(Seq(Ids)) /\ Len(s) = L
  BY <1>12, IdsOfType
<1>14. \A n \in 1..L : s[n] = SubSeq(ids, at[n] + 1, at[n + 1])
  <2>1. DOMAIN c = 1..L
    BY <1>12
  <2> QED BY <1>11, <2>1 DEF IdsOf
<1>15. IsFlatten(s, p, Ids)
  <2>1. p[0] = <<>>
    <3>1. p[0] = SubSeq(ids, 1, 0)
      <4>1. 0 \in 0..L /\ 0 + 1 = 1
        BY <1>1
      <4>2. p[0] = SubSeq(ids, 1, at[0 + 1])
        BY <4>1
      <4> QED BY <1>2, <4>1, <4>2
    <3>2. SubSeq(ids, 1, 0) = <<>>
      BY SubSeqEmpty
    <3> QED BY <3>1, <3>2
  <2>2. \A n \in 1..L : p[n] = p[n - 1] \o s[n]
    <3>1. ASSUME NEW n \in 1..L PROVE p[n] = p[n - 1] \o s[n]
      <4>1. n \in 0..L /\ n - 1 \in 0..L /\ (n - 1) + 1 = n
        BY <1>1
      <4>2. p[n] = SubSeq(ids, 1, at[n + 1]) /\ p[n - 1] = SubSeq(ids, 1, at[n])
        BY <4>1
      <4> HIDE DEF p, s
      <4> QED BY <1>10, <1>14, <4>2
    <3> QED BY <3>1
  <2>3. p \in [0..L -> Seq(Ids)]
    <3>1. ASSUME NEW k \in 0..L PROVE SubSeq(ids, 1, at[k + 1]) \in Seq(Ids)
      <4>1. CASE k = 0
        <5>1. at[k + 1] = 0
          BY <1>2, <4>1
        <5>2. SubSeq(ids, 1, 0) = <<>>
          BY SubSeqEmpty
        <5> QED BY <5>1, <5>2
      <4>2. CASE k # 0
        <5> DEFINE b == at[k + 1]
        <5>1. k \in 1..L
          BY <1>1, <4>2
        <5>2. b \in Nat /\ b <= Len(ids)
          BY <1>8, <1>9, <5>1
        <5> HIDE DEF b
        <5>3. \A i \in 1..b : ids[i] \in Ids
          BY <5>2
        <5>4. SubSeq(ids, 1, b) \in Seq(Ids)
          BY <5>2, <5>3, SubSeqProperties
        <5> QED BY <5>4 DEF b
      <4> QED BY <4>1, <4>2
    <3> QED BY <3>1
  <2> HIDE DEF p, s
  <2> QED BY <1>13, <2>1, <2>2, <2>3 DEF IsFlatten
<1>16. FlattenSeq(s) = p[L] /\ p[L] = SubSeq(ids, 1, at[L + 1])
  <2>1. p[L] = SubSeq(ids, 1, at[L + 1])
    <3>1. L \in 0..L
      BY <1>1
    <3> QED BY <3>1
  <2> HIDE DEF p, s
  <2> QED BY <1>13, <1>15, <2>1, FlattenIs
<1> QED BY <1>12, <1>16 DEF c, L

-----------------------------------------------------------------------------
(* What a keymap finds.                                                    *)

LEMMA MaxIsThere ==
  ASSUME NEW n \in Nat, NEW S, S \subseteq 1..n, S # {}
  PROVE  Max(S) \in S
<1> DEFINE T == {n - k : k \in S}
<1>1. T \subseteq Nat /\ T # {}
  <2>1. \A k \in S : n - k \in Nat
    OBVIOUS
  <2> QED BY <2>1
<1> HIDE DEF T
<1>2. PICK m \in T : \A l \in T : m <= l
  BY <1>1, LeastNumber
<1>3. PICK x \in S : m = n - x
  BY DEF T
<1>4. \A j \in S : x >= j
  <2>1. ASSUME NEW j \in S PROVE x >= j
    <3>1. n - j \in T
      BY DEF T
    <3>2. n - x <= n - j
      BY <1>2, <1>3, <3>1
    <3> QED BY <3>2
  <2> QED BY <2>1
<1> QED BY <1>4 DEF Max

LEMMA DepthType ==
  ASSUME NEW K, NEW km \in Seq(Binding(K)), NEW contexts \in ContextStack, NEW i \in DOMAIN km
  PROVE  Depth(km[i], contexts) \in Int
<1> DEFINE at == {d \in DOMAIN contexts : contexts[d] = km[i].context}
<1>1. Len(contexts) \in Nat /\ DOMAIN contexts = 1..Len(contexts)
  BY DEF ContextStack
<1>2. at # {} => Max(at) \in at
  <2>1. at \subseteq 1..Len(contexts)
    BY <1>1
  <2> HIDE DEF at
  <2> QED BY <1>1, <2>1, MaxIsThere
<1>3. at # {} => Max(at) \in Int
  <2>1. at \subseteq Int
    BY <1>1
  <2> HIDE DEF at
  <2> QED BY <1>2, <2>1
<1>4. Depth(km[i], contexts) = IF km[i].context = Anywhere THEN Len(contexts)
                               ELSE IF at = {} THEN NotEnabled ELSE Max(at)
  BY DEF Depth
<1> HIDE DEF at
<1> QED BY <1>1, <1>3, <1>4 DEF NotEnabled

\* The order of precedence is total, so bindings_for_input sorts what it found.
LEMMA BindingsType ==
  ASSUME NEW K, NEW km \in Seq(Binding(K)), NEW contexts \in ContextStack, NEW keys
  PROVE  Bindings(km, contexts, keys) \in Seq(Nat)
<1> DEFINE complete == Complete(km, contexts, keys)
           hidden(i) == \E j \in complete :
                          /\ km[j].disables /\ km[j].user
                          /\ Precedes(km, contexts, j, i)
           found == {i \in complete : ~km[i].disables /\ ~hidden(i)}
           before(i) == {j \in found : Precedes(km, contexts, j, i)}
           N == Cardinality(found)
<1>1. Bindings(km, contexts, keys) =
        [n \in 1..N |-> CHOOSE i \in found : Cardinality(before(i)) = n - 1]
  BY DEF Bindings
<1>2. Len(km) \in Nat /\ DOMAIN km = 1..Len(km)
  OBVIOUS
<1>3. found \subseteq 1..Len(km)
  BY <1>2 DEF Complete, Enabled
<1> DEFINE prec(i, j) == Precedes(km, contexts, i, j)
<1>4. /\ \A i \in found : ~prec(i, i)
      /\ \A i, j \in found : i # j => prec(i, j) \/ prec(j, i)
      /\ \A i, j, k \in found : prec(i, j) /\ prec(j, k) => prec(i, k)
  <2> DEFINE d == [i \in found |-> Depth(km[i], contexts)]
  <2>1. \A i \in found : Depth(km[i], contexts) \in Int /\ d[i] = Depth(km[i], contexts) /\ i \in Nat
    BY <1>2, <1>3, DepthType
  <2>2. \A i, j \in found : prec(i, j) <=> d[i] > d[j] \/ (d[i] = d[j] /\ i > j)
    BY <2>1 DEF Precedes
  <2>3. \A i \in found : d[i] \in Int /\ i \in Nat
    BY <2>1
  <2> HIDE DEF d, found, prec
  <2> QED BY <2>2, <2>3
<1>5. IsFiniteSet(found) /\ N \in Nat
  <2>1. IsFiniteSet(1..Len(km))
    BY <1>2, FS_Interval
  <2>2. IsFiniteSet(found)
    <3> HIDE DEF found
    <3> QED BY <1>3, <2>1, FS_Subset
  <2> HIDE DEF found
  <2> QED BY <2>2, FS_CardinalityType
<1>6. \A i, j \in found : j \in before(i) <=> prec(j, i)
  OBVIOUS
<1>7. \A i : before(i) \subseteq found
  OBVIOUS
<1> HIDE DEF found, before, prec
<1> DEFINE rank == [i \in found |-> Cardinality(before(i))]
<1>8. \A i \in found : IsFiniteSet(before(i)) /\ Cardinality(before(i)) \in Nat
  <2>1. \A i \in found : IsFiniteSet(before(i))
    BY <1>5, <1>7, FS_Subset
  <2> QED BY <2>1, FS_CardinalityType
<1>9. ASSUME NEW i \in found, NEW j \in found, prec(i, j)
      PROVE  Cardinality(before(i)) < Cardinality(before(j))
  <2>1. i \notin before(i)
    BY <1>4, <1>6
  <2>2. before(i) \cup {i} \subseteq before(j)
    <3>1. \A k \in before(i) : k \in before(j)
      BY <1>4, <1>6, <1>7, <1>9
    <3> QED BY <1>6, <1>9, <3>1
  <2>3. /\ IsFiniteSet(before(i) \cup {i})
        /\ Cardinality(before(i) \cup {i}) = Cardinality(before(i)) + 1
    BY <1>8, <2>1, FS_AddElement
  <2>4. Cardinality(before(i) \cup {i}) <= Cardinality(before(j))
    BY <1>8, <2>2, FS_Subset
  <2> QED BY <1>8, <2>3, <2>4
<1>10. \A i \in found : Cardinality(before(i)) \in 0..(N - 1)
  <2>1. ASSUME NEW i \in found PROVE Cardinality(before(i)) < N
    <3>1. before(i) \cup {i} \subseteq found /\ i \notin before(i)
      BY <1>4, <1>6, <1>7
    <3>2. Cardinality(before(i) \cup {i}) = Cardinality(before(i)) + 1
      BY <1>8, <3>1, FS_AddElement
    <3>3. Cardinality(before(i) \cup {i}) <= N
      BY <1>5, <3>1, FS_Subset
    <3> QED BY <1>5, <1>8, <3>2, <3>3
  <2> QED BY <1>5, <1>8, <2>1
<1> DEFINE T == 0..(N - 1)
<1>11. rank \in Injection(found, T)
  <2>1. rank \in [found -> T]
    BY <1>10
  <2>2. ASSUME NEW i \in found, NEW j \in found, rank[i] = rank[j] PROVE i = j
    <3>1. SUFFICES ASSUME i # j PROVE FALSE
      OBVIOUS
    <3>2. Cardinality(before(i)) < Cardinality(before(j)) \/ Cardinality(before(j)) < Cardinality(before(i))
      BY <1>4, <1>9, <3>1
    <3>3. Cardinality(before(i)) = Cardinality(before(j))
      BY <2>2
    <3> QED BY <1>8, <3>2, <3>3
  <2> HIDE DEF rank, T
  <2> QED BY <2>1, <2>2 DEF Injection, IsInjective
<1>12. IsFiniteSet(T) /\ Cardinality(T) = N
  <2>1. IsFiniteSet(T) /\ Cardinality(T) = IF 0 > N - 1 THEN 0 ELSE (N - 1) - 0 + 1
    <3>1. 0 \in Int /\ N - 1 \in Int
      BY <1>5
    <3> HIDE DEF N
    <3> QED BY <3>1, FS_Interval
  <2> HIDE DEF N, T
  <2> QED BY <1>5, <2>1
<1>13. rank \in Surjection(found, T)
  <2> HIDE DEF rank, T
  <2> QED BY <1>11, <1>12, FS_Injection
<1>14. ASSUME NEW n \in 1..N
       PROVE  (CHOOSE i \in found : Cardinality(before(i)) = n - 1) \in Nat
  <2>1. n - 1 \in T
    BY <1>5
  <2>2. \E i \in found : rank[i] = n - 1
    <3> HIDE DEF rank, T
    <3> QED BY <1>13, <2>1 DEF Surjection
  <2>3. \E i \in found : Cardinality(before(i)) = n - 1
    BY <2>2
  <2> DEFINE x == CHOOSE i \in found : Cardinality(before(i)) = n - 1
  <2>4. x \in found
    BY <2>3
  <2>5. \A i \in found : i \in Nat
    BY <1>2, <1>3
  <2> HIDE DEF x
  <2>6. x \in Nat
    BY <2>4, <2>5
  <2> QED BY <2>6 DEF x
<1> DEFINE b == [n \in 1..N |-> CHOOSE i \in found : Cardinality(before(i)) = n - 1]
<1>15. b \in [1..N -> Nat]
  BY <1>14
<1>16. b \in Seq(Nat)
  <2> HIDE DEF b
  <2> QED BY <1>5, <1>15
<1> QED BY <1>1, <1>16

LEMMA ReplayPrefixType ==
  ASSUME NEW K, NEW km \in Seq(Binding(K)), NEW contexts \in ContextStack,
         NEW X, NEW keys \in Seq(X), keys # <<>>
  PROVE  /\ ReplayPrefix(km, contexts, keys) \in [len : Nat \ {0}, bindings : Seq(Nat)]
         /\ ReplayPrefix(km, contexts, keys).len <= Len(keys)
<1> DEFINE bound == {n \in DOMAIN keys : Bindings(km, contexts, SubSeq(keys, 1, n)) # <<>>}
           n == IF bound = {} THEN 1 ELSE Max(bound)
<1>1. Len(keys) \in Nat \ {0} /\ DOMAIN keys = 1..Len(keys)
  OBVIOUS
<1>2. bound \subseteq 1..Len(keys)
  BY <1>1
<1>3. n \in 1..Len(keys)
  <2> HIDE DEF bound
  <2>1. bound # {} => Max(bound) \in bound
    BY <1>1, <1>2, MaxIsThere
  <2>2. 1 \in 1..Len(keys)
    BY <1>1
  <2>3. CASE bound = {}
    BY <2>2, <2>3
  <2>4. CASE bound # {}
    BY <1>2, <2>1, <2>4
  <2> QED BY <2>3, <2>4
<1>4. ReplayPrefix(km, contexts, keys) = [len |-> n, bindings |-> Bindings(km, contexts, SubSeq(keys, 1, n))]
  BY DEF ReplayPrefix, Piece
<1>5. Bindings(km, contexts, SubSeq(keys, 1, n)) \in Seq(Nat)
  BY BindingsType
<1> HIDE DEF n, bound
<1> QED BY <1>1, <1>3, <1>4, <1>5

-----------------------------------------------------------------------------
(* How what was typed is cut into pieces.                                  *)

PieceOf == [len : Nat \ {0}, bindings : Seq(Nat)]

\* The pieces are n keystrokes long.
Spans(pieces, n) == \E at : IsCut(at, pieces) /\ at[Len(pieces) + 1] = n

LEMMA SpanNone == Spans(<<>>, 0)
<1> DEFINE at == [n \in 1..1 |-> 0]
<1>1. Len(<<>>) = 0
  OBVIOUS
<1>2. at \in [1..(0 + 1) -> Nat] /\ at[1] = 0 /\ 1..0 = {}
  OBVIOUS
<1>3. IsCut(at, <<>>) /\ at[Len(<<>>) + 1] = 0
  BY <1>1, <1>2 DEF IsCut
<1> QED BY <1>3 DEF Spans

LEMMA SpanMore ==
  ASSUME NEW pieces \in SomePieces, NEW n \in Nat, Spans(pieces, n), NEW piece \in PieceOf
  PROVE  /\ Spans(<<piece>> \o pieces, n + piece.len)
         /\ <<piece>> \o pieces \in SomePieces
<1> DEFINE L == Len(pieces)
           more == <<piece>> \o pieces
<1>1. PICK at : IsCut(at, pieces) /\ at[L + 1] = n
  BY DEF Spans
<1>2. pieces \in Seq(PieceOf)
  BY DEF SomePieces, PieceOf
<1>3. /\ L \in Nat /\ Len(more) = L + 1 /\ more \in Seq(PieceOf) /\ more[1] = piece
      /\ \A k \in 1..L : more[k + 1] = pieces[k]
  BY <1>2
<1>4. piece.len \in Nat
  BY DEF PieceOf
<1>5. /\ at \in [1..(L + 1) -> Nat] /\ at[1] = 0
      /\ \A k \in 1..L : at[k + 1] = at[k] + pieces[k].len
  BY <1>1 DEF IsCut
<1> DEFINE bt == [k \in 1..((L + 1) + 1) |-> IF k = 1 THEN 0 ELSE at[k - 1] + piece.len]
<1> HIDE DEF L, more
<1>6. bt \in [1..((L + 1) + 1) -> Nat]
  <2>1. \A k \in 1..((L + 1) + 1) : k # 1 => at[k - 1] \in Nat
    BY <1>3, <1>5
  <2> QED BY <1>4, <2>1
<1>7. bt[1] = 0 /\ bt[(L + 1) + 1] = n + piece.len
  <2>1. 1 \in 1..((L + 1) + 1) /\ (L + 1) + 1 \in 1..((L + 1) + 1) /\ ((L + 1) + 1) - 1 = L + 1 /\ (L + 1) + 1 # 1
    BY <1>3
  <2> QED BY <1>1, <2>1 DEF L
<1>8. ASSUME NEW k \in 1..(L + 1) PROVE bt[k + 1] = bt[k] + more[k].len
  <2>1. k \in 1..((L + 1) + 1) /\ k + 1 \in 1..((L + 1) + 1) /\ k + 1 # 1 /\ (k + 1) - 1 = k
    BY <1>3
  <2>2. bt[k + 1] = at[k] + piece.len
    BY <2>1
  <2>3. CASE k = 1
    <3>1. bt[k] = 0 /\ at[k] = 0 /\ more[k] = piece
      BY <1>3, <1>5, <2>1, <2>3
    <3> HIDE DEF bt
    <3> QED BY <1>4, <2>2, <3>1
  <2>4. CASE k # 1
    <3>1. k - 1 \in 1..L /\ (k - 1) + 1 = k
      BY <1>3, <2>4
    <3>2. bt[k] = at[k - 1] + piece.len
      BY <2>1, <2>4
    <3>3. at[k] = at[k - 1] + pieces[k - 1].len /\ more[k] = pieces[k - 1]
      BY <1>3, <1>5, <3>1
    <3>4. at[k - 1] \in Nat /\ at[k] \in Nat
      BY <1>3, <1>5, <3>1
    <3>5. pieces[k - 1].len \in Nat
      <4>1. pieces[k - 1] \in PieceOf
        BY <1>2, <3>1 DEF L
      <4> QED BY <4>1 DEF PieceOf
    <3> HIDE DEF bt
    <3> QED BY <1>4, <2>2, <3>2, <3>3, <3>4, <3>5
  <2> QED BY <2>3, <2>4
<1>9. IsCut(bt, more) /\ bt[Len(more) + 1] = n + piece.len
  <2> HIDE DEF bt
  <2> QED BY <1>3, <1>6, <1>7, <1>8 DEF IsCut
<1>10. more \in SomePieces
  BY <1>3 DEF SomePieces, PieceOf
<1>11. Spans(more, n + piece.len)
  <2> HIDE DEF bt
  <2> QED BY <1>9 DEF Spans
<1> QED BY <1>10, <1>11 DEF more

LEMMA SpanOne ==
  ASSUME NEW piece \in PieceOf
  PROVE  Spans(<<piece>>, piece.len) /\ <<piece>> \in SomePieces /\ <<piece>> # <<>>
<1>1. <<>> \in SomePieces
  BY DEF SomePieces
<1>2. Spans(<<piece>> \o <<>>, 0 + piece.len) /\ <<piece>> \o <<>> \in SomePieces
  BY <1>1, SpanNone, SpanMore
<1>3. <<piece>> \o <<>> = <<piece>>
  OBVIOUS
<1>4. 0 + piece.len = piece.len
  BY DEF PieceOf
<1> QED BY <1>2, <1>3, <1>4

LEMMA RestType ==
  ASSUME NEW X, NEW keys \in Seq(X), NEW n \in 0..Len(keys)
  PROVE  SubSeq(keys, n + 1, Len(keys)) \in Seq(X) /\ Len(SubSeq(keys, n + 1, Len(keys))) = Len(keys) - n
<1>1. Len(keys) \in Nat /\ n + 1 \in Int /\ \A i \in (n + 1)..Len(keys) : keys[i] \in X
  OBVIOUS
<1>2. /\ SubSeq(keys, n + 1, Len(keys)) \in Seq(X)
      /\ Len(SubSeq(keys, n + 1, Len(keys))) = IF n + 1 <= Len(keys) THEN Len(keys) - (n + 1) + 1 ELSE 0
  BY <1>1, SubSeqProperties
<1> QED BY <1>1, <1>2

LEMMA FlushDispatchType ==
  ASSUME NEW K, NEW km \in Seq(Binding(K)), NEW contexts \in ContextStack,
         NEW X, NEW keys \in Seq(X)
  PROVE  /\ FlushDispatch(km, contexts, keys) \in SomePieces
         /\ Spans(FlushDispatch(km, contexts, keys), Len(keys))
<1> DEFINE N == Len(keys)
           rest(n) == SubSeq(keys, n + 1, N)
           piece(n) == ReplayPrefix(km, contexts, rest(n))
           Rec(f) == f = [n \in 0..N |->
                            IF n = N THEN <<>>
                            ELSE LET p == ReplayPrefix(km, contexts, SubSeq(keys, n + 1, N))
                                 IN  <<p>> \o f[n + p.len]]
           F == CHOOSE f : Rec(f)
<1>1. FlushDispatch(km, contexts, keys) = F[0]
  BY DEF FlushDispatch
<1>2. N \in Nat
  OBVIOUS
<1>3. ASSUME NEW n \in 0..(N - 1)
      PROVE  piece(n) \in PieceOf /\ n + piece(n).len \in (n + 1)..N
  <2>1. rest(n) \in Seq(X) /\ Len(rest(n)) = N - n
    BY RestType
  <2> HIDE DEF rest
  <2>2. rest(n) # <<>>
    BY <1>2, <2>1
  <2>3. piece(n) \in PieceOf /\ piece(n).len <= N - n
    BY <2>1, <2>2, ReplayPrefixType DEF PieceOf
  <2>4. piece(n).len \in Nat \ {0}
    BY <2>3 DEF PieceOf
  <2> HIDE DEF piece
  <2> QED BY <1>2, <2>3, <2>4
<1> DEFINE nx == [n \in 0..N |-> n + piece(n).len]
           step == [x \in (0..N) \X SomePieces |-> <<piece(x[1])>> \o x[2]]
           base == [n \in 0..N |-> <<>>]
<1>4. \A n \in 0..N : nx[n] = n + piece(n).len
  OBVIOUS
<1>5. \A n \in 0..N, v \in SomePieces : step[<<n, v>>] = <<piece(n)>> \o v
  OBVIOUS
<1>6. base \in [0..N -> SomePieces] /\ \A n \in 0..N : base[n] = <<>>
  BY DEF SomePieces
<1> HIDE DEF piece, nx, step, base
<1>7. ASSUME NEW n \in 0..(N - 1), NEW v \in SomePieces PROVE <<piece(n)>> \o v \in SomePieces
  BY <1>3, <1>7 DEF SomePieces, PieceOf
<1>8. PICK g : IsRecursive(g, N + 1, SomePieces, {N}, base, nx, step)
  <2>1. (N + 1) - 1 = N
    BY <1>2
  <2>2. \A n \in 0..N : n \notin {N} => n \in 0..(N - 1)
    BY <1>2
  <2>3. GoesUp(N + 1, SomePieces, {N}, base, nx, step)
    <3>1. ASSUME NEW n \in 0..N, n \notin {N} PROVE nx[n] \in (n + 1)..N
      BY <1>3, <1>4, <2>2, <3>1
    <3>2. ASSUME NEW n \in 0..N, NEW v \in SomePieces, n \notin {N} PROVE step[<<n, v>>] \in SomePieces
      BY <1>5, <1>7, <2>2, <3>2
    <3> HIDE DEF N
    <3> QED BY <1>2, <1>6, <2>1, <3>1, <3>2 DEF GoesUp
  <2> HIDE DEF N
  <2> QED BY <2>3, FromAbove
<1>9. /\ g \in [0..N -> SomePieces]
      /\ \A n \in 0..N : g[n] = IF n = N THEN <<>> ELSE <<piece(n)>> \o g[n + piece(n).len]
  <2>1. (N + 1) - 1 = N
    BY <1>2
  <2>2. g \in [0..N -> SomePieces]
    BY <1>8, <2>1 DEF IsRecursive
  <2>3. \A n \in 0..N : g[n] = IF n \in {N} THEN base[n] ELSE step[<<n, g[nx[n]]>>]
    BY <1>8, <2>1 DEF IsRecursive
  <2>4. ASSUME NEW n \in 0..N, n # N PROVE g[n] = <<piece(n)>> \o g[n + piece(n).len]
    <3>1. n \in 0..(N - 1)
      BY <1>2, <2>4
    <3>2. n + piece(n).len \in 0..N
      BY <1>2, <1>3, <3>1
    <3>3. g[n + piece(n).len] \in SomePieces /\ nx[n] = n + piece(n).len
      BY <1>4, <2>2, <3>2
    <3>4. g[n] = step[<<n, g[nx[n]]>>]
      <4>1. n \notin {N}
        BY <2>4
      <4> QED BY <2>3, <4>1
    <3> QED BY <1>5, <3>3, <3>4
  <2>5. g[N] = <<>>
    <3>1. N \in 0..N /\ N \in {N}
      BY <1>2
    <3> QED BY <1>6, <2>3, <3>1
  <2> QED BY <2>2, <2>4, <2>5
<1>10. Rec(g)
  <2>1. g = [n \in 0..N |-> g[n]]
    BY <1>9
  <2>2. \A n \in 0..N : g[n] = IF n = N THEN <<>>
                               ELSE LET p == ReplayPrefix(km, contexts, SubSeq(keys, n + 1, N))
                                    IN  <<p>> \o g[n + p.len]
    BY <1>9 DEF piece
  <2> QED BY <2>1, <2>2
<1>11. Rec(F)
  <2> HIDE DEF Rec
  <2> QED BY <1>10
<1>12. \A n \in 0..N : F[n] = IF n = N THEN <<>> ELSE <<piece(n)>> \o F[n + piece(n).len]
  <2> HIDE DEF F
  <2> QED BY <1>11 DEF piece
<1> HIDE DEF F, N
<1> DEFINE P == {n \in 0..N : F[n] \in SomePieces /\ Spans(F[n], N - n)}
<1>13. ASSUME NEW n \in 0..((N + 1) - 1), \A m \in (n + 1)..((N + 1) - 1) : m \in P PROVE n \in P
  <2>1. n \in 0..N /\ (N + 1) - 1 = N
    BY <1>2
  <2>2. CASE n = N
    <3>1. F[n] = <<>>
      BY <1>12, <2>1, <2>2
    <3>2. N - n = 0
      BY <1>2, <2>2
    <3>3. <<>> \in SomePieces
      BY DEF SomePieces
    <3>4. n \in 0..N /\ F[n] \in SomePieces /\ Spans(F[n], N - n)
      BY <2>1, <3>1, <3>2, <3>3, SpanNone
    <3> QED BY <3>4
  <2>3. CASE n # N
    <3> DEFINE m == n + piece(n).len
    <3>1. n \in 0..(N - 1)
      BY <1>2, <2>1, <2>3
    <3>2. piece(n) \in PieceOf /\ m \in (n + 1)..N
      BY <1>3, <3>1
    <3>3. m \in P
      <4> HIDE DEF P, m
      <4> QED BY <1>13, <2>1, <3>2
    <3>4. F[m] \in SomePieces /\ Spans(F[m], N - m)
      <4> HIDE DEF m
      <4> QED BY <3>3
    <3>5. N - m \in Nat
      <4> HIDE DEF m
      <4> QED BY <1>2, <2>1, <3>2
    <3>6. Spans(<<piece(n)>> \o F[m], (N - m) + piece(n).len) /\ <<piece(n)>> \o F[m] \in SomePieces
      <4> HIDE DEF m
      <4> QED BY <3>2, <3>4, <3>5, SpanMore
    <3>7. (N - m) + piece(n).len = N - n
      <4>1. piece(n).len \in Nat
        BY <3>2 DEF PieceOf
      <4> QED BY <1>2, <2>1, <4>1
    <3>8. F[n] = <<piece(n)>> \o F[m]
      BY <1>12, <2>1, <2>3
    <3> HIDE DEF m
    <3> QED BY <2>1, <3>6, <3>7, <3>8
  <2> QED BY <2>2, <2>3
<1>14. 0 \in P
  <2>1. 0..((N + 1) - 1) \subseteq P
    <3>1. N + 1 \in Nat
      BY <1>2
    <3> HIDE DEF P
    <3> QED BY <1>13, <3>1, DownFrom
  <2>2. 0 \in 0..((N + 1) - 1)
    BY <1>2
  <2> HIDE DEF P
  <2> QED BY <2>1, <2>2
<1>15. F[0] \in SomePieces /\ Spans(F[0], N - 0) /\ N - 0 = N
  BY <1>2, <1>14
<1> QED BY <1>1, <1>15 DEF N

Outcome == [pieces : SomePieces, pending : Nat, bound : BOOLEAN]

\* dispatch_key: the pieces and what is pending are what was typed, and bound says
\* whether what is pending is a binding.
IsOutcome(km, contexts, keys, result, left) ==
  /\ result \in Outcome
  /\ result.pending <= left
  /\ Spans(result.pieces, left - result.pending)
  /\ result.pending > 0 =>
       result.bound = (Bindings(km, contexts,
                         SubSeq(keys, Len(keys) - result.pending + 1, Len(keys))) # <<>>)

LEMMA DispatchKeyType ==
  ASSUME NEW K, NEW km \in Seq(Binding(K)), NEW contexts \in ContextStack,
         NEW X, NEW keys \in Seq(X), keys # <<>>
  PROVE  IsOutcome(km, contexts, keys, DispatchKey(km, contexts, keys), Len(keys))
<1> DEFINE N == Len(keys)
           rest(n) == SubSeq(keys, n + 1, N)
           found(n) == Bindings(km, contexts, rest(n))
           piece(n) == ReplayPrefix(km, contexts, SubSeq(rest(n), 1, Len(rest(n)) - 1))
           more(n) == Pending(km, contexts, rest(n))
           waits(n) == [pieces |-> <<>>, pending |-> Len(rest(n)), bound |-> found(n) # <<>>]
           ends(n) == [pieces |-> <<Piece(Len(rest(n)), found(n))>>, pending |-> 0, bound |-> FALSE]
           goes(n, later) == [later EXCEPT !.pieces = <<piece(n)>> \o @]
           last(n) == found(n) # <<>> \/ Len(rest(n)) = 1
           Rec(f) ==
             f = [n \in 0..(N - 1) |->
                    LET r == SubSeq(keys, n + 1, N)
                        b == Bindings(km, contexts, r)
                        p == ReplayPrefix(km, contexts, SubSeq(r, 1, Len(r) - 1))
                        later == f[n + p.len]
                    IN  IF Pending(km, contexts, r)
                        THEN [pieces |-> <<>>, pending |-> Len(r), bound |-> b # <<>>]
                        ELSE IF b # <<>> \/ Len(r) = 1
                        THEN [pieces |-> <<Piece(Len(r), b)>>, pending |-> 0, bound |-> FALSE]
                        ELSE [later EXCEPT !.pieces = <<p>> \o @]]
           F == CHOOSE f : Rec(f)
<1>1. DispatchKey(km, contexts, keys) = F[0]
  BY DEF DispatchKey
<1>2. N \in Nat \ {0}
  OBVIOUS
<1> HIDE DEF F
<1>3. ASSUME NEW n \in 0..(N - 1)
      PROVE  /\ Len(rest(n)) = N - n
             /\ found(n) \in Seq(Nat)
             /\ ~last(n) => piece(n) \in PieceOf /\ n + piece(n).len \in (n + 1)..(N - 1)
  <2>1. rest(n) \in Seq(X) /\ Len(rest(n)) = N - n
    BY RestType
  <2>2. found(n) \in Seq(Nat)
    BY BindingsType
  <2>3. ASSUME ~last(n) PROVE piece(n) \in PieceOf /\ n + piece(n).len \in (n + 1)..(N - 1)
    <3> DEFINE l == Len(rest(n)) - 1
               s == SubSeq(rest(n), 1, l)
    <3>1. l \in Nat \ {0} /\ l = N - n - 1 /\ Len(rest(n)) \in Nat /\ l <= Len(rest(n))
      <4>1. Len(rest(n)) # 1
        BY <2>3
      <4> HIDE DEF rest
      <4> QED BY <1>2, <2>1, <4>1
    <3>2. s \in Seq(X) /\ Len(s) = l
      <4>1. \A i \in 1..l : rest(n)[i] \in X
        <5> HIDE DEF rest
        <5> QED BY <2>1, <3>1
      <4> HIDE DEF rest, l
      <4> QED BY <3>1, <4>1, SubSeqProperties
    <3>3. s # <<>>
      <4> HIDE DEF s, l
      <4> QED BY <3>1, <3>2
    <3>4. piece(n) \in PieceOf /\ piece(n).len <= l
      <4>1. piece(n) = ReplayPrefix(km, contexts, s)
        OBVIOUS
      <4> HIDE DEF s, l, piece
      <4> QED BY <3>2, <3>3, <4>1, ReplayPrefixType DEF PieceOf
    <3>5. piece(n).len \in Nat \ {0}
      BY <3>4 DEF PieceOf
    <3> HIDE DEF l, piece
    <3> QED BY <1>2, <3>1, <3>4, <3>5
  <2> QED BY <2>1, <2>2, <2>3
<1> DEFINE Stop == {n \in 0..(N - 1) : more(n) \/ last(n)}
           base == [n \in 0..(N - 1) |-> IF more(n) THEN waits(n) ELSE ends(n)]
           nx == [n \in 0..(N - 1) |-> n + piece(n).len]
           step == [x \in (0..(N - 1)) \X Outcome |-> goes(x[1], x[2])]
<1>4. /\ \A n \in 0..(N - 1) : nx[n] = n + piece(n).len
      /\ \A n \in 0..(N - 1) : base[n] = IF more(n) THEN waits(n) ELSE ends(n)
      /\ \A n \in 0..(N - 1), v \in Outcome : step[<<n, v>>] = goes(n, v)
      /\ \A n \in 0..(N - 1) : n \in Stop <=> more(n) \/ last(n)
  OBVIOUS
<1>5. ASSUME NEW n \in 0..(N - 1) PROVE waits(n) \in Outcome /\ ends(n) \in Outcome
  <2>1. Len(rest(n)) = N - n /\ N - n \in Nat \ {0} /\ found(n) \in Seq(Nat)
    <3>1. N - n \in Nat \ {0}
      BY <1>2
    <3> HIDE DEF N, rest, found, piece, last
    <3> QED BY <1>3, <3>1
  <2>2. Piece(Len(rest(n)), found(n)) \in PieceOf
    <3> HIDE DEF rest, found
    <3> QED BY <2>1 DEF Piece, PieceOf
  <2>3. <<Piece(Len(rest(n)), found(n))>> \in SomePieces
    <3> HIDE DEF rest, found
    <3> QED BY <2>2, SpanOne
  <2>4. <<>> \in SomePieces
    BY DEF SomePieces
  <2> HIDE DEF rest, found
  <2> QED BY <2>1, <2>3, <2>4 DEF Outcome
<1>6. ASSUME NEW n \in 0..(N - 1), ~last(n), NEW v \in Outcome
      PROVE  /\ goes(n, v) \in Outcome
             /\ goes(n, v).pieces = <<piece(n)>> \o v.pieces
             /\ goes(n, v).pending = v.pending /\ goes(n, v).bound = v.bound
  <2>1. v.pieces \in SomePieces /\ piece(n) \in PieceOf
    BY <1>3, <1>6 DEF Outcome
  <2> HIDE DEF piece
  <2>2. <<piece(n)>> \o v.pieces \in SomePieces
    BY <2>1 DEF SomePieces, PieceOf
  <2> QED BY <2>2 DEF Outcome
<1> HIDE DEF Stop, base, nx, step, N
<1>7. GoesUp(N, Outcome, Stop, base, nx, step)
  <2>1. base \in [0..(N - 1) -> Outcome]
    <3>1. base = [n \in 0..(N - 1) |-> base[n]]
      BY DEF base
    <3>2. \A n \in 0..(N - 1) : base[n] \in Outcome
      <4> HIDE DEF waits, ends, more
      <4> QED BY <1>4, <1>5
    <3> QED BY <3>1, <3>2
  <2>2. ASSUME NEW n \in 0..(N - 1), n \notin Stop PROVE nx[n] \in (n + 1)..(N - 1)
    <3> HIDE DEF last, more, piece
    <3> QED BY <1>3, <1>4, <2>2
  <2>3. ASSUME NEW n \in 0..(N - 1), NEW v \in Outcome, n \notin Stop PROVE step[<<n, v>>] \in Outcome
    <3> HIDE DEF last, more, goes
    <3> QED BY <1>4, <1>6, <2>3
  <2> QED BY <1>2, <2>1, <2>2, <2>3 DEF GoesUp
<1>8. PICK g : IsRecursive(g, N, Outcome, Stop, base, nx, step)
  BY <1>7, FromAbove
<1> DEFINE At(f, n) == f[n] = IF more(n) THEN waits(n) ELSE IF last(n) THEN ends(n)
                              ELSE goes(n, f[n + piece(n).len])
<1>9. g \in [0..(N - 1) -> Outcome] /\ \A n \in 0..(N - 1) : At(g, n)
  <2>1. g \in [0..(N - 1) -> Outcome]
    BY <1>8 DEF IsRecursive
  <2>2. ASSUME NEW n \in 0..(N - 1) PROVE At(g, n)
    <3>1. g[n] = IF n \in Stop THEN base[n] ELSE step[<<n, g[nx[n]]>>]
      BY <1>8 DEF IsRecursive
    <3>2. CASE n \in Stop
      <4> HIDE DEF waits, ends, more, last, goes
      <4> QED BY <1>4, <3>1, <3>2
    <3>3. CASE n \notin Stop
      <4>1. ~more(n) /\ ~last(n)
        <5> HIDE DEF more, last
        <5> QED BY <1>4, <3>3
      <4>2. nx[n] = n + piece(n).len /\ n + piece(n).len \in 0..(N - 1)
        <5>1. n + piece(n).len \in (n + 1)..(N - 1)
          BY <1>3, <4>1
        <5>2. nx[n] = n + piece(n).len
          BY <1>4
        <5> HIDE DEF piece
        <5> QED BY <1>2, <5>1, <5>2
      <4>3. g[n] = goes(n, g[n + piece(n).len])
        <5> HIDE DEF goes, piece
        <5>1. g[n + piece(n).len] \in Outcome
          BY <2>1, <4>2
        <5> QED BY <1>4, <3>1, <3>3, <4>2, <5>1
      <4> HIDE DEF waits, ends, more, last, goes, piece
      <4> QED BY <4>1, <4>3
    <3> QED BY <3>2, <3>3
  <2> QED BY <2>1, <2>2
<1>10. Rec(g)
  <2>1. g = [n \in 0..(N - 1) |-> g[n]]
    BY <1>9
  <2>2. \A n \in 0..(N - 1) : At(g, n)
    BY <1>9
  <2> QED BY <2>1, <2>2
<1>11. Rec(F)
  <2> HIDE DEF Rec
  <2> QED BY <1>10 DEF F
<1>12. \A n \in 0..(N - 1) : At(F, n)
  BY <1>11
<1> DEFINE good(n) == IsOutcome(km, contexts, keys, F[n], N - n)
           P == {n \in 0..(N - 1) : good(n)}
<1>13. ASSUME NEW n \in 0..(N - 1), \A m \in (n + 1)..(N - 1) : m \in P PROVE n \in P
  <2>1. Len(rest(n)) = N - n /\ N - n \in Nat \ {0}
    BY <1>2, <1>3
  <2>2. CASE more(n)
    <3>1. F[n] = waits(n)
      <4> HIDE DEF waits, more, last, ends, goes
      <4> QED BY <1>12, <2>2
    <3>2. N - (N - n) + 1 = n + 1
      BY <1>2
    <3> DEFINE o == F[n]
    <3>3. o.pieces = <<>> /\ o.pending = N - n /\ o.bound = (Bindings(km, contexts, SubSeq(keys, n + 1, N)) # <<>>)
      <4>1. /\ waits(n).pieces = <<>> /\ waits(n).pending = Len(rest(n))
            /\ waits(n).bound = (found(n) # <<>>)
        <5> HIDE DEF rest, found
        <5> QED OBVIOUS
      <4> HIDE DEF waits
      <4> QED BY <2>1, <3>1, <4>1
    <3>4. o \in Outcome
      BY <1>5, <3>1
    <3>5. o.pending <= N - n /\ (N - n) - o.pending = 0
      <4> HIDE DEF o
      <4> QED BY <2>1, <3>3
    <3>6. Spans(o.pieces, (N - n) - o.pending)
      <4> HIDE DEF o
      <4> QED BY <3>3, <3>5, SpanNone
    <3>7. good(n)
      <4> HIDE DEF o
      <4>1. N - o.pending + 1 = n + 1
        BY <3>2, <3>3
      <4>2. IsOutcome(km, contexts, keys, o, N - n)
        BY <3>3, <3>4, <3>5, <3>6, <4>1 DEF IsOutcome, N
      <4> QED BY <4>2 DEF o
    <3> HIDE DEF good
    <3> QED BY <3>7
  <2>3. CASE ~more(n) /\ last(n)
    <3>1. F[n] = ends(n)
      <4> HIDE DEF waits, more, last, ends, goes
      <4> QED BY <1>12, <2>3
    <3> DEFINE o == F[n]
               p == Piece(Len(rest(n)), found(n))
    <3>2. o.pieces = <<p>> /\ o.pending = 0
      <4>1. ends(n).pieces = <<p>> /\ ends(n).pending = 0
        <5> HIDE DEF p
        <5> QED BY DEF p
      <4> HIDE DEF ends, p
      <4> QED BY <3>1, <4>1
    <3>3. o \in Outcome
      BY <1>5, <3>1
    <3>4. p \in PieceOf /\ p.len = N - n
      <4>1. found(n) \in Seq(Nat)
        BY <1>3
      <4> HIDE DEF rest, found
      <4> QED BY <2>1, <4>1 DEF Piece, PieceOf
    <3>5. Spans(o.pieces, (N - n) - o.pending)
      <4> HIDE DEF p, o
      <4>1. (N - n) - o.pending = N - n
        BY <2>1, <3>2
      <4>2. Spans(<<p>>, p.len)
        BY <3>4, SpanOne
      <4> QED BY <3>2, <3>4, <4>1, <4>2
    <3>6. good(n)
      <4> HIDE DEF o, p
      <4>1. IsOutcome(km, contexts, keys, o, N - n)
        BY <2>1, <3>2, <3>3, <3>5 DEF IsOutcome
      <4> QED BY <4>1 DEF o
    <3> HIDE DEF good
    <3> QED BY <3>6
  <2>4. CASE ~more(n) /\ ~last(n)
    <3> DEFINE m == n + piece(n).len
               o == F[n]
               l == F[m]
    <3>1. o = goes(n, l)
      <4> HIDE DEF waits, more, last, ends, goes
      <4> QED BY <1>12, <2>4
    <3>2. piece(n) \in PieceOf /\ m \in (n + 1)..(N - 1)
      BY <1>3, <2>4
    <3>3. good(m)
      <4> HIDE DEF m, good
      <4> QED BY <1>13, <3>2
    <3>4. /\ l \in Outcome /\ l.pending <= N - m /\ Spans(l.pieces, (N - m) - l.pending)
          /\ l.pending > 0 =>
               l.bound = (Bindings(km, contexts, SubSeq(keys, Len(keys) - l.pending + 1, Len(keys))) # <<>>)
      <4> HIDE DEF m
      <4> QED BY <3>3 DEF IsOutcome
    <3>5. /\ o \in Outcome /\ o.pieces = <<piece(n)>> \o l.pieces
          /\ o.pending = l.pending /\ o.bound = l.bound
      <4>1. ~last(n)
        BY <2>4
      <4> HIDE DEF goes, o, l, last, piece
      <4> QED BY <1>6, <3>1, <3>4, <4>1
    <3>6. l.pieces \in SomePieces /\ l.pending \in Nat
      <4> HIDE DEF l
      <4> QED BY <3>4 DEF Outcome
    <3>7. piece(n).len \in Nat /\ m \in Nat /\ m = n + piece(n).len
      <4>1. piece(n).len \in Nat
        <5> HIDE DEF piece
        <5> QED BY <3>2 DEF PieceOf
      <4> HIDE DEF piece
      <4> QED BY <4>1
    <3>8. (N - m) - l.pending \in Nat /\ ((N - m) - l.pending) + piece(n).len = (N - n) - o.pending
          /\ o.pending <= N - n
      <4>1. m <= N
        <5> HIDE DEF m
        <5> QED BY <1>2, <3>2, <3>7
      <4> DEFINE k == piece(n).len
                 q == l.pending
      <4>2. k \in Nat /\ m = n + k /\ q \in Nat /\ q <= N - m /\ o.pending = q /\ m \in Nat
        <5> HIDE DEF m, l, o, piece
        <5> QED BY <3>4, <3>5, <3>6, <3>7
      <4> HIDE DEF m, l, o, k, q
      <4>3. (N - m) - q \in Nat /\ ((N - m) - q) + k = (N - n) - q /\ q <= N - n
        BY <1>2, <4>1, <4>2
      <4> QED BY <4>2, <4>3 DEF k, q
    <3>9. Spans(o.pieces, (N - n) - o.pending)
      <4> HIDE DEF m, l, o, piece
      <4>1. Spans(<<piece(n)>> \o l.pieces, ((N - m) - l.pending) + piece(n).len)
        BY <3>2, <3>4, <3>6, <3>8, SpanMore
      <4> QED BY <3>5, <3>8, <4>1
    <3>10. good(n)
      <4> HIDE DEF m, l, o, piece
      <4>1. IsOutcome(km, contexts, keys, o, N - n)
        BY <3>4, <3>5, <3>8, <3>9 DEF IsOutcome
      <4> QED BY <4>1 DEF o
    <3> HIDE DEF good
    <3> QED BY <3>10
  <2> QED BY <2>2, <2>3, <2>4
<1>14. 0 \in P
  <2>1. 0..(N - 1) \subseteq P
    <3> HIDE DEF P
    <3> QED BY <1>2, <1>13, DownFrom
  <2>2. 0 \in 0..(N - 1)
    BY <1>2
  <2> HIDE DEF P
  <2> QED BY <2>1, <2>2
<1>15. N - 0 = N
  BY <1>2
<1>16. IsOutcome(km, contexts, keys, F[0], N)
  BY <1>14, <1>15
<1> QED BY <1>1, <1>16 DEF N

-----------------------------------------------------------------------------
(* The dispatches, and what each of them holds.                            *)

\* The keystrokes of the n-th dispatch, none where there is no dispatch.
WorkAt(s, n) == IF n \in 1..Len(s) THEN WorkOf(s[n]) ELSE <<>>

\* What was dealt with, what is pending and what the t-th dispatch holds.
All(f, p, s, t) == f \o p \o WorkAt(s, t)

\* Only the t-th dispatch is not the same.
OnlyAt(s, s2, t) ==
  /\ t \in Nat \ {0}
  /\ \A n \in Nat \ {t} :
       /\ n \in 1..Len(s2) <=> n \in 1..Len(s)
       /\ n \in 1..Len(s) => s2[n] = s[n]

LEMMA OnlyAtSame ==
  ASSUME NEW s, NEW t \in Nat \ {0}
  PROVE  OnlyAt(s, s, t)
BY DEF OnlyAt

LEMMA OnlyAtPush ==
  ASSUME NEW T, NEW s \in Seq(T), NEW d \in T
  PROVE  /\ Append(s, d) \in Seq(T) /\ Append(s, d) # <<>>
         /\ Len(Append(s, d)) = Len(s) + 1 /\ Append(s, d)[Len(s) + 1] = d
         /\ \A n \in 1..Len(s) : Append(s, d)[n] = s[n]
         /\ OnlyAt(s, Append(s, d), Len(s) + 1)
<1>1. /\ Append(s, d) \in Seq(T) /\ Append(s, d) # <<>>
      /\ Len(Append(s, d)) = Len(s) + 1 /\ Append(s, d)[Len(s) + 1] = d
      /\ \A n \in 1..Len(s) : Append(s, d)[n] = s[n]
  BY AppendProperties
<1>2. Len(s) \in Nat
  OBVIOUS
<1>3. \A n \in Nat \ {Len(s) + 1} : n \in 1..(Len(s) + 1) <=> n \in 1..Len(s)
  BY <1>2
<1> DEFINE s2 == Append(s, d)
<1> HIDE DEF s2
<1>4. OnlyAt(s, s2, Len(s) + 1)
  <2>1. Len(s2) = Len(s) + 1 /\ \A n \in 1..Len(s) : s2[n] = s[n]
    BY <1>1 DEF s2
  <2> QED BY <1>2, <1>3, <2>1 DEF OnlyAt
<1> QED BY <1>1, <1>4 DEF s2

LEMMA OnlyAtPop ==
  ASSUME NEW T, NEW s \in Seq(T), s # <<>>
  PROVE  LET s2 == SubSeq(s, 1, Len(s) - 1) IN
         /\ s2 \in Seq(T) /\ Len(s2) = Len(s) - 1 /\ Len(s) \in Nat \ {0}
         /\ \A n \in 1..(Len(s) - 1) : s2[n] = s[n]
         /\ OnlyAt(s, s2, Len(s))
<1> DEFINE s2 == SubSeq(s, 1, Len(s) - 1)
           L == Len(s)
<1>1. L \in Nat \ {0} /\ \A n \in 1..L : s[n] \in T
  OBVIOUS
<1>2. \A n \in 1..(L - 1) : s[n] \in T
  BY <1>1
<1>3. /\ s2 \in Seq(T) /\ Len(s2) = IF 1 <= L - 1 THEN (L - 1) - 1 + 1 ELSE 0
      /\ \A n \in 1..((L - 1) - 1 + 1) : s2[n] = s[1 + n - 1]
  <2>1. L - 1 \in Int /\ 1 \in Int
    BY <1>1
  <2> HIDE DEF L
  <2> QED BY <1>2, <2>1, SubSeqProperties DEF L
<1> HIDE DEF s2, L
<1>4. Len(s2) = L - 1 /\ \A n \in 1..(L - 1) : s2[n] = s[n]
  <2>1. Len(s2) = L - 1
    BY <1>1, <1>3
  <2>2. \A n \in 1..(L - 1) : 1 + n - 1 = n /\ n \in 1..((L - 1) - 1 + 1)
    BY <1>1
  <2> QED BY <1>3, <2>1, <2>2
<1>5. \A n \in Nat \ {L} : (n \in 1..(L - 1) <=> n \in 1..L) /\ (n \in 1..L => n \in 1..(L - 1))
  BY <1>1
<1>6. OnlyAt(s, s2, L)
  BY <1>1, <1>4, <1>5 DEF OnlyAt, L
<1> QED BY <1>1, <1>3, <1>4, <1>6 DEF s2, L

LEMMA OnlyAtReplace ==
  ASSUME NEW T, NEW s \in Seq(T), s # <<>>, NEW d \in T
  PROVE  LET s2 == Append(SubSeq(s, 1, Len(s) - 1), d) IN
         /\ s2 \in Seq(T) /\ s2 # <<>> /\ Len(s2) = Len(s) /\ Len(s) \in Nat \ {0}
         /\ s2[Len(s)] = d
         /\ \A n \in 1..(Len(s) - 1) : s2[n] = s[n]
         /\ OnlyAt(s, s2, Len(s))
<1> DEFINE b == SubSeq(s, 1, Len(s) - 1)
           s2 == Append(b, d)
           L == Len(s)
<1>1. /\ b \in Seq(T) /\ Len(b) = L - 1 /\ L \in Nat \ {0}
      /\ \A n \in 1..(L - 1) : b[n] = s[n]
  BY OnlyAtPop
<1> HIDE DEF b
<1>2. /\ s2 \in Seq(T) /\ s2 # <<>> /\ Len(s2) = Len(b) + 1 /\ s2[Len(b) + 1] = d
      /\ \A n \in 1..Len(b) : s2[n] = b[n]
  BY <1>1, AppendProperties
<1> HIDE DEF s2, L
<1>3. Len(s2) = L /\ s2[L] = d /\ \A n \in 1..(L - 1) : s2[n] = s[n]
  BY <1>1, <1>2
<1>4. \A n \in Nat \ {L} : n \in 1..L => n \in 1..(L - 1)
  BY <1>1
<1>5. OnlyAt(s, s2, L)
  BY <1>1, <1>3, <1>4 DEF OnlyAt, L
<1> QED BY <1>1, <1>2, <1>3, <1>5 DEF s2, L, b

LEMMA WorkAtType ==
  ASSUME NEW s \in Seq(DispatchType), NEW n
  PROVE  WorkAt(s, n) \in Seq(Ids)
<1>1. CASE n \in 1..Len(s)
  <2>1. s[n] \in DispatchType
    BY <1>1
  <2>2. s[n].pieces \in Seq(PieceType) /\ s[n].store \in Seq(Ids)
    BY <2>1 DEF DispatchType
  <2> QED BY <1>1, <2>2, WorkType DEF WorkAt
<1>2. CASE n \notin 1..Len(s)
  BY <1>2 DEF WorkAt
<1> QED BY <1>1, <1>2

LEMMA WorkAtSame ==
  ASSUME NEW s, NEW s2, NEW t, OnlyAt(s, s2, t), NEW n \in Nat, n # t
  PROVE  WorkAt(s2, n) = WorkAt(s, n)
BY DEF OnlyAt, WorkAt

\* Two dispatches of at most one: what they hold is what the first one holds.
LEMMA WorkOfOne ==
  ASSUME NEW s \in Seq(DispatchType), Len(s) <= 1
  PROVE  FlattenSeq([n \in DOMAIN s |-> WorkOf(s[n])]) = WorkAt(s, 1)
<1> DEFINE w == [n \in DOMAIN s |-> WorkOf(s[n])]
<1>1. Len(s) \in Nat /\ DOMAIN s = 1..Len(s)
  OBVIOUS
<1>2. CASE Len(s) = 0
  <2>1. w = <<>>
    BY <1>1, <1>2
  <2>2. WorkAt(s, 1) = <<>>
    BY <1>2 DEF WorkAt
  <2> QED BY <2>1, <2>2, FlattenOfNone
<1>3. CASE Len(s) = 1
  <2>1. w = <<WorkAt(s, 1)>>
    BY <1>1, <1>3 DEF WorkAt
  <2>2. WorkAt(s, 1) \in Seq(Ids)
    BY WorkAtType
  <2> DEFINE a == WorkAt(s, 1)
  <2> HIDE DEF a
  <2>3. FlattenSeq(<<a>>) = a
    <3>1. <<a>> \in Seq(Seq(Ids)) /\ <<a>> # <<>> /\ Head(<<a>>) = a /\ Tail(<<a>>) = <<>>
      BY <2>2 DEF a
    <3>2. FlattenSeq(<<a>>) = Head(<<a>>) \o FlattenSeq(Tail(<<a>>))
      BY <3>1, FlattenFirst
    <3>3. a \o <<>> = a
      BY <2>2 DEF a
    <3> QED BY <3>1, <3>2, <3>3, FlattenOfNone
  <2> QED BY <2>1, <2>3 DEF a
<1> QED BY <1>1, <1>2, <1>3

\* No keystroke is in two places, or twice in one, and all of them were typed.
Owned(f, p, s, top) ==
  /\ IsInjective(f \o p) /\ Range(f \o p) \subseteq 1..top
  /\ \A n \in Nat : /\ IsInjective(WorkAt(s, n))
                    /\ Range(WorkAt(s, n)) \subseteq 1..top
                    /\ Range(WorkAt(s, n)) \cap Range(f \o p) = {}
  /\ \A m, n \in Nat : m # n => Range(WorkAt(s, m)) \cap Range(WorkAt(s, n)) = {}

\* What a step does to what is in one place: what is there afterwards was there
\* before, or was not anywhere.
LEMMA OwnedStep ==
  ASSUME NEW f \in Seq(Ids), NEW p \in Seq(Ids), NEW s \in Seq(DispatchType),
         NEW f2 \in Seq(Ids), NEW p2 \in Seq(Ids), NEW s2 \in Seq(DispatchType),
         NEW t, OnlyAt(s, s2, t),
         NEW top \in Nat, NEW top2 \in Nat, top <= top2,
         Owned(f, p, s, top),
         IsInjective(All(f2, p2, s2, t)),
         Range(All(f2, p2, s2, t)) \subseteq Range(All(f, p, s, t)) \cup ((top + 1)..top2)
  PROVE  Owned(f2, p2, s2, top2)
<1> DEFINE a == f \o p
           a2 == f2 \o p2
           new == (top + 1)..top2
<1>1. t \in Nat
  BY DEF OnlyAt
<1>2. a \in Seq(Ids) /\ a2 \in Seq(Ids)
  OBVIOUS
<1>3. \A n \in Nat : WorkAt(s, n) \in Seq(Ids) /\ WorkAt(s2, n) \in Seq(Ids)
  BY WorkAtType
<1> HIDE DEF a, a2
<1>4. Range(All(f, p, s, t)) = Range(a) \cup Range(WorkAt(s, t))
  <2>1. WorkAt(s, t) \in Seq(Ids)
    BY <1>1, <1>3
  <2>2. Range(a \o WorkAt(s, t)) = Range(a) \cup Range(WorkAt(s, t))
    <3> DEFINE w == WorkAt(s, t)
    <3> HIDE DEF w
    <3>1. w \in Seq(Ids)
      BY <2>1 DEF w
    <3>2. Range(a \o w) = Range(a) \cup Range(w)
      BY <1>2, <3>1, ConcatParts
    <3> QED BY <3>2 DEF w
  <2> QED BY <2>2 DEF All, a
<1>5. /\ Range(All(f2, p2, s2, t)) = Range(a2) \cup Range(WorkAt(s2, t))
      /\ IsInjective(a2) /\ IsInjective(WorkAt(s2, t))
      /\ Range(a2) \cap Range(WorkAt(s2, t)) = {}
  <2>1. IsInjective(a2 \o WorkAt(s2, t))
    BY DEF All, a2
  <2>2. Range(All(f2, p2, s2, t)) = Range(a2 \o WorkAt(s2, t))
    BY DEF All, a2
  <2> DEFINE w == WorkAt(s2, t)
  <2>3. w \in Seq(Ids)
    BY <1>1, <1>3
  <2> HIDE DEF w
  <2>4. /\ Range(a2 \o w) = Range(a2) \cup Range(w)
        /\ IsInjective(a2 \o w) <=>
             IsInjective(a2) /\ IsInjective(w) /\ Range(a2) \cap Range(w) = {}
    BY <1>2, <2>3, ConcatParts
  <2> QED BY <2>1, <2>2, <2>4 DEF w
<1>6. /\ Range(a) \subseteq 1..top
      /\ \A n \in Nat : IsInjective(WorkAt(s, n)) /\ Range(WorkAt(s, n)) \subseteq 1..top
                        /\ Range(WorkAt(s, n)) \cap Range(a) = {}
      /\ \A m, n \in Nat : m # n => Range(WorkAt(s, m)) \cap Range(WorkAt(s, n)) = {}
  BY DEF Owned, a
<1>7. 1..top \cap new = {} /\ 1..top \subseteq 1..top2 /\ new \subseteq 1..top2
  OBVIOUS
<1>8. \A n \in Nat : n # t => WorkAt(s2, n) = WorkAt(s, n)
  BY WorkAtSame
<1>9. /\ Range(a2) \subseteq Range(a) \cup Range(WorkAt(s, t)) \cup new
      /\ Range(WorkAt(s2, t)) \subseteq Range(a) \cup Range(WorkAt(s, t)) \cup new
  BY <1>4, <1>5
<1> HIDE DEF new
<1>10. Range(a2) \subseteq 1..top2 /\ Range(WorkAt(s2, t)) \subseteq 1..top2
  BY <1>1, <1>6, <1>7, <1>9
<1>11. ASSUME NEW n \in Nat, n # t
       PROVE  /\ IsInjective(WorkAt(s2, n)) /\ Range(WorkAt(s2, n)) \subseteq 1..top2
              /\ Range(WorkAt(s2, n)) \cap Range(a2) = {}
              /\ Range(WorkAt(s2, n)) \cap Range(WorkAt(s2, t)) = {}
  <2>1. WorkAt(s2, n) = WorkAt(s, n)
    BY <1>8, <1>11
  <2>2. Range(WorkAt(s, n)) \subseteq 1..top2 /\ IsInjective(WorkAt(s, n))
    BY <1>6, <1>7
  <2>3. Range(WorkAt(s, n)) \cap (Range(a) \cup Range(WorkAt(s, t)) \cup new) = {}
    BY <1>1, <1>6, <1>7, <1>11
  <2> QED BY <1>9, <2>1, <2>2, <2>3
<1>12. \A n \in Nat : /\ IsInjective(WorkAt(s2, n)) /\ Range(WorkAt(s2, n)) \subseteq 1..top2
                      /\ Range(WorkAt(s2, n)) \cap Range(a2) = {}
  BY <1>5, <1>10, <1>11
<1>13. ASSUME NEW m \in Nat, NEW n \in Nat, m # n
       PROVE  Range(WorkAt(s2, m)) \cap Range(WorkAt(s2, n)) = {}
  <2>1. CASE m = t
    BY <1>11, <1>13, <2>1
  <2>2. CASE n = t
    BY <1>11, <1>13, <2>2
  <2>3. CASE m # t /\ n # t
    BY <1>6, <1>8, <1>13, <2>3
  <2> QED BY <2>1, <2>2, <2>3
<1> QED BY <1>5, <1>10, <1>12, <1>13 DEF Owned, a2

LEMMA OwnedAll ==
  ASSUME NEW f \in Seq(Ids), NEW p \in Seq(Ids), NEW s \in Seq(DispatchType),
         NEW t \in Nat, NEW top, Owned(f, p, s, top)
  PROVE  /\ All(f, p, s, t) \in Seq(Ids)
         /\ IsInjective(All(f, p, s, t)) /\ Range(All(f, p, s, t)) \subseteq 1..top
<1>1. f \o p \in Seq(Ids) /\ WorkAt(s, t) \in Seq(Ids)
  BY WorkAtType
<1>2. /\ IsInjective(f \o p) /\ IsInjective(WorkAt(s, t))
      /\ Range(f \o p) \cap Range(WorkAt(s, t)) = {}
      /\ Range(f \o p) \subseteq 1..top /\ Range(WorkAt(s, t)) \subseteq 1..top
  BY DEF Owned
<1>3. IsInjective((f \o p) \o WorkAt(s, t)) /\ Range((f \o p) \o WorkAt(s, t)) \subseteq 1..top
  <2> DEFINE a == f \o p
             w == WorkAt(s, t)
  <2>1. a \in Seq(Ids) /\ w \in Seq(Ids)
    BY <1>1
  <2>2. /\ IsInjective(a) /\ IsInjective(w) /\ Range(a) \cap Range(w) = {}
        /\ Range(a) \subseteq 1..top /\ Range(w) \subseteq 1..top
    BY <1>2
  <2> HIDE DEF a, w
  <2>3. /\ Range(a \o w) = Range(a) \cup Range(w)
        /\ IsInjective(a \o w)
    BY <2>1, <2>2, ConcatParts
  <2>4. IsInjective(a \o w) /\ Range(a \o w) \subseteq 1..top
    BY <2>2, <2>3
  <2> QED BY <2>4 DEF a, w
<1> QED BY <1>1, <1>3 DEF All

\* What InTypedOrder says of all the keystrokes.
InOrder(all, ty, ic) ==
  /\ \A id \in DOMAIN ty \ ic : \E n \in DOMAIN all : all[n] = id
  /\ \A n \in DOMAIN all : all[n] \in DOMAIN ty
  /\ \A m, n \in DOMAIN all : m < n /\ all[m] \notin ic /\ all[n] \notin ic => all[m] < all[n]

LEMMA InOrderStopped ==
  ASSUME NEW all, NEW ty, NEW ic, NEW ic2, InOrder(all, ty, ic), ic \subseteq ic2
  PROVE  InOrder(all, ty, ic2)
BY DEF InOrder

\* A keystroke that is typed comes last.
LEMMA InOrderTyped ==
  ASSUME NEW all \in Seq(Ids), NEW ty \in Seq(Keys), NEW ic, NEW key \in Keys, InOrder(all, ty, ic),
         Len(ty) + 1 \in Ids
  PROVE  InOrder(all \o <<Len(ty) + 1>>, Append(ty, key), ic)
<1> DEFINE id == Len(ty) + 1
           a == all \o <<id>>
           L == Len(all)
           U == Append(ty, key)
<1>1. /\ Len(ty) \in Nat /\ DOMAIN ty = 1..Len(ty) /\ L \in Nat /\ DOMAIN all = 1..L
      /\ id \in Nat /\ U \in Seq(Keys) /\ DOMAIN U = 1..id
      /\ \A n \in 1..L : all[n] \in Ids
  <2>1. U \in Seq(Keys) /\ Len(U) = Len(ty) + 1
    BY AppendProperties
  <2> QED BY <2>1
<1>2. /\ a \in Seq(Ids) /\ DOMAIN a = 1..(L + 1) /\ a[L + 1] = id
      /\ \A n \in 1..L : a[n] = all[n]
  OBVIOUS
<1> HIDE DEF a, U, id, L
<1>3. \A n \in 1..(L + 1) : n \in 1..L \/ n = L + 1
  BY <1>1
<1>4. \A n \in 1..id : n \in 1..Len(ty) \/ n = id
  BY <1>1 DEF id
<1>5. \A n \in 1..L : all[n] \in 1..Len(ty)
  BY <1>1 DEF InOrder
<1>6. \A i \in 1..id \ ic : \E n \in 1..(L + 1) : a[n] = i
  <2>1. \A i \in 1..Len(ty) \ ic : \E n \in 1..L : all[n] = i
    BY <1>1 DEF InOrder
  <2>2. \A n \in 1..L : n \in 1..(L + 1)
    BY <1>1
  <2>3. L + 1 \in 1..(L + 1)
    BY <1>1
  <2>4. \A i \in 1..Len(ty) \ ic : \E n \in 1..(L + 1) : a[n] = i
    BY <1>2, <2>1, <2>2
  <2> QED BY <1>2, <1>4, <2>3, <2>4
<1>7. \A n \in 1..(L + 1) : a[n] \in 1..id
  <2>1. 1..Len(ty) \subseteq 1..id /\ id \in 1..id
    BY <1>1 DEF id
  <2> QED BY <1>2, <1>3, <1>5, <2>1
<1>8. ASSUME NEW m \in 1..(L + 1), NEW n \in 1..(L + 1), m < n, a[m] \notin ic, a[n] \notin ic
      PROVE  a[m] < a[n]
  <2>1. m \in 1..L
    BY <1>1, <1>8
  <2>2. CASE n = L + 1
    <3>1. a[m] \in 1..Len(ty) /\ a[n] = id
      BY <1>2, <1>5, <2>1, <2>2
    <3> QED BY <1>1, <3>1 DEF id
  <2>3. CASE n \in 1..L
    BY <1>1, <1>2, <1>8, <2>1, <2>3 DEF InOrder
  <2> QED BY <1>3, <2>2, <2>3
<1> QED BY <1>1, <1>2, <1>6, <1>7, <1>8 DEF InOrder, a, U, id

\* One that an interceptor stopped may come before what is pending.
LEMMA InOrderMoved ==
  ASSUME NEW f \in Seq(Ids), NEW p \in Seq(Ids), NEW x \in Ids, NEW ty, NEW ic, x \in ic,
         InOrder(f \o p \o <<x>>, ty, ic)
  PROVE  InOrder(f \o <<x>> \o p, ty, ic)
<1> DEFINE a == f \o p \o <<x>>
           b == f \o <<x>> \o p
           F == Len(f)
           P == Len(p)
           L == F + P + 1
<1>1. F \in Nat /\ P \in Nat
  OBVIOUS
<1>2. /\ DOMAIN a = 1..L /\ a[L] = x
      /\ \A n \in 1..F : a[n] = f[n]
      /\ \A n \in 1..P : a[F + n] = p[n]
  OBVIOUS
<1>3. /\ DOMAIN b = 1..L /\ b[F + 1] = x
      /\ \A n \in 1..F : b[n] = f[n]
      /\ \A n \in 1..P : b[F + 1 + n] = p[n]
  OBVIOUS
<1> HIDE DEF a, b, F, P
<1> DEFINE was(n) == IF n <= F THEN n ELSE IF n = F + 1 THEN L ELSE n - 1
           is(n) == IF n <= F THEN n ELSE IF n = L THEN F + 1 ELSE n + 1
<1>4. ASSUME NEW n \in 1..L PROVE was(n) \in 1..L /\ b[n] = a[was(n)]
  <2>1. CASE n <= F
    BY <1>1, <1>2, <1>3, <2>1
  <2>2. CASE n = F + 1
    <3>1. ~(n <= F) /\ L \in 1..L
      BY <1>1, <2>2
    <3> QED BY <1>2, <1>3, <2>2, <3>1
  <2>3. CASE n > F + 1
    <3>1. n - (F + 1) \in 1..P /\ n = F + 1 + (n - (F + 1)) /\ n - 1 = F + (n - (F + 1))
      BY <1>1, <2>3
    <3>2. b[n] = p[n - (F + 1)] /\ a[n - 1] = p[n - (F + 1)]
      BY <1>2, <1>3, <3>1
    <3>3. ~(n <= F) /\ n # F + 1 /\ n - 1 \in 1..L
      BY <1>1, <2>3
    <3> QED BY <3>2, <3>3
  <2> QED BY <1>1, <2>1, <2>2, <2>3
<1>5. \A n \in 1..L : is(n) \in 1..L /\ was(is(n)) = n
  BY <1>1
<1>6. \A n \in 1..L : is(n) \in 1..L /\ b[is(n)] = a[n]
  <2> HIDE DEF was, is
  <2> QED BY <1>4, <1>5
<1>7. ASSUME NEW m \in 1..L, NEW n \in 1..L, m < n, b[m] \notin ic, b[n] \notin ic
      PROVE  b[m] < b[n]
  <2>1. m # F + 1 /\ n # F + 1
    BY <1>3, <1>7
  <2>2. was(m) < was(n)
    BY <1>1, <1>7, <2>1
  <2> HIDE DEF was
  <2>3. \A i, j \in 1..L : i < j /\ a[i] \notin ic /\ a[j] \notin ic => a[i] < a[j]
    <3>1. InOrder(a, ty, ic)
      BY DEF a
    <3> QED BY <1>2, <3>1 DEF InOrder
  <2>4. /\ was(m) \in 1..L /\ b[m] = a[was(m)]
        /\ was(n) \in 1..L /\ b[n] = a[was(n)]
    BY <1>4
  <2> HIDE DEF L
  <2> QED BY <1>7, <2>2, <2>3, <2>4
<1> HIDE DEF was, is, L
<1>8. \A id \in DOMAIN ty \ ic : \E n \in 1..L : b[n] = id
  BY <1>2, <1>6, ZenonT(40) DEF InOrder, a
<1>9. \A n \in 1..L : b[n] \in DOMAIN ty
  BY <1>2, <1>4 DEF InOrder, a
<1> QED BY <1>3, <1>7, <1>8, <1>9 DEF InOrder, b

-----------------------------------------------------------------------------
(* The inductive invariant.                                                *)

\* What each kind of dispatch is about.
Kind(d, ic) ==
  /\ d.user => d.pieces # <<>>
  /\ d.of # "key" => d.store = <<>>
  /\ d.of \in {"interceptor", "intercepted"} /\ d.pieces # <<>> =>
       \E id \in Ids : /\ d.pieces = <<[ids |-> <<id>>, bindings |-> <<>>]>>
                       /\ d.of = "intercepted" => id \in ic
  /\ d.of = "interceptor" => d.user

\* Without nested dispatches there is at most one; it took what was pending, and
\* all keystrokes are in order.
Alone(f, p, s, ty, ic) ==
  /\ Len(s) <= 1
  /\ Len(s) = 1 /\ s[1].of \in {"key", "timer"} => p = <<>>
  /\ InOrder(All(f, p, s, 1), ty, ic)

Sound(f, p, s, ty, ic, ne) ==
  /\ Len(ty) <= MaxTyped
  /\ Owned(f, p, s, Len(ty))
  /\ \A n \in 1..Len(s) : Kind(s[n], ic)
  /\ ~ne => Alone(f, p, s, ty, ic)

\* Keystrokes that will be stored and are a binding already need a timer.
Waits(km, ty, d) ==
  d.store # <<>> /\ Bindings(km, ContextsOf[d.home], KeysOf(d.store, ty)) # <<>> => d.needs
StoreWaits == \A n \in 1..Len(stack) : Waits(keymap, typed, stack[n])

\* The observers are told when the dispatch of a key event ends.
Told == ~silent => shown = pending.keys \/ \E n \in 1..Len(stack) : stack[n].of = "key"

IInv ==
  /\ TypeOK
  /\ Sound(fate, pending.keys, stack, typed, intercepted, nested)
  /\ BoundOnesTimeOut /\ StoreWaits
  /\ Told

LEMMA KindStopped ==
  ASSUME NEW d, NEW ic, NEW ic2, Kind(d, ic), ic \subseteq ic2
  PROVE  Kind(d, ic2)
BY DEF Kind

LEMMA KindOnlyAt ==
  ASSUME NEW s \in Seq(DispatchType), NEW s2 \in Seq(DispatchType), NEW t, OnlyAt(s, s2, t),
         NEW ic, NEW ic2, ic \subseteq ic2,
         \A n \in 1..Len(s) : Kind(s[n], ic),
         t \in 1..Len(s2) => Kind(s2[t], ic2)
  PROVE  \A n \in 1..Len(s2) : Kind(s2[n], ic2)
<1>1. SUFFICES ASSUME NEW n \in 1..Len(s2), n # t PROVE Kind(s2[n], ic2)
  OBVIOUS
<1>2. n \in Nat \ {t}
  BY <1>1
<1>3. n \in 1..Len(s) /\ s2[n] = s[n]
  BY <1>1, <1>2 DEF OnlyAt
<1> QED BY <1>3, KindStopped

\* A step that moves no keystroke past another one.
LEMMA SoundSame ==
  ASSUME NEW f \in Seq(Ids), NEW p \in Seq(Ids), NEW s \in Seq(DispatchType),
         NEW f2 \in Seq(Ids), NEW p2 \in Seq(Ids), NEW s2 \in Seq(DispatchType),
         NEW ty \in Seq(Keys), NEW ic, NEW ic2, NEW ne, ic \subseteq ic2,
         Sound(f, p, s, ty, ic, ne),
         NEW t, OnlyAt(s, s2, t),
         All(f2, p2, s2, t) = All(f, p, s, t),
         t \in 1..Len(s2) => Kind(s2[t], ic2),
         ~ne => /\ t = 1 /\ Len(s2) <= 1
                /\ Len(s2) = 1 /\ s2[1].of \in {"key", "timer"} => p2 = <<>>
  PROVE  Sound(f2, p2, s2, ty, ic2, ne)
<1>1. t \in Nat /\ Len(ty) \in Nat
  BY DEF OnlyAt
<1>2. Owned(f, p, s, Len(ty))
  BY DEF Sound
<1>3. IsInjective(All(f, p, s, t))
  BY <1>1, <1>2, OwnedAll
<1>4. Owned(f2, p2, s2, Len(ty))
  <2>1. IsInjective(All(f2, p2, s2, t))
    BY <1>3
  <2>2. Range(All(f2, p2, s2, t)) \subseteq Range(All(f, p, s, t)) \cup ((Len(ty) + 1)..Len(ty))
    OBVIOUS
  <2> QED BY <1>1, <1>2, <2>1, <2>2, OwnedStep
<1>5. \A n \in 1..Len(s2) : Kind(s2[n], ic2)
  <2>1. \A n \in 1..Len(s) : Kind(s[n], ic)
    BY DEF Sound
  <2> QED BY <2>1, KindOnlyAt
<1>6. ASSUME ~ne PROVE Alone(f2, p2, s2, ty, ic2)
  <2>1. InOrder(All(f, p, s, 1), ty, ic)
    BY <1>6 DEF Sound, Alone
  <2>2. InOrder(All(f2, p2, s2, 1), ty, ic)
    BY <1>6, <2>1
  <2>3. InOrder(All(f2, p2, s2, 1), ty, ic2)
    BY <2>2, InOrderStopped
  <2> QED BY <1>6, <2>3 DEF Alone
<1> QED BY <1>4, <1>5, <1>6 DEF Sound

\* A step that moves or forgets keystrokes.
LEMMA SoundMoved ==
  ASSUME NEW f \in Seq(Ids), NEW p \in Seq(Ids), NEW s \in Seq(DispatchType),
         NEW f2 \in Seq(Ids), NEW p2 \in Seq(Ids), NEW s2 \in Seq(DispatchType),
         NEW ty \in Seq(Keys), NEW ic, NEW ne,
         Sound(f, p, s, ty, ic, ne),
         NEW t, OnlyAt(s, s2, t),
         IsInjective(All(f2, p2, s2, t)),
         Range(All(f2, p2, s2, t)) \subseteq Range(All(f, p, s, t)),
         t \in 1..Len(s2) => Kind(s2[t], ic),
         ~ne => Alone(f2, p2, s2, ty, ic)
  PROVE  Sound(f2, p2, s2, ty, ic, ne)
<1>1. t \in Nat /\ Len(ty) \in Nat
  BY DEF OnlyAt
<1>2. Owned(f, p, s, Len(ty))
  BY DEF Sound
<1>4. Owned(f2, p2, s2, Len(ty))
  <2>2. Range(All(f2, p2, s2, t)) \subseteq Range(All(f, p, s, t)) \cup ((Len(ty) + 1)..Len(ty))
    OBVIOUS
  <2> QED BY <1>1, <1>2, <2>2, OwnedStep
<1>5. \A n \in 1..Len(s2) : Kind(s2[n], ic)
  <2>1. \A n \in 1..Len(s) : Kind(s[n], ic)
    BY DEF Sound
  <2> QED BY <2>1, KindOnlyAt
<1> QED BY <1>4, <1>5 DEF Sound

-----------------------------------------------------------------------------
(* Keystrokes and their numbers.                                           *)

\* What is typed later does not change what was typed.
LEMMA KeysOfTyped ==
  ASSUME NEW ty \in Seq(Keys), NEW key \in Keys, NEW ids \in Seq(Ids),
         Range(ids) \subseteq 1..Len(ty)
  PROVE  KeysOf(ids, Append(ty, key)) = KeysOf(ids, ty)
<1>1. \A n \in DOMAIN ids : ids[n] \in 1..Len(ty)
  BY DEF Range
<1>2. \A i \in 1..Len(ty) : Append(ty, key)[i] = ty[i]
  BY AppendProperties
<1>3. \A n \in DOMAIN ids : Append(ty, key)[ids[n]] = ty[ids[n]]
  BY <1>1, <1>2
<1> QED BY <1>3 DEF KeysOf

LEMMA KeysOfType ==
  ASSUME NEW ty \in Seq(Keys), NEW ids \in Seq(Ids), Range(ids) \subseteq 1..Len(ty)
  PROVE  KeysOf(ids, ty) \in Seq(Keys) /\ Len(KeysOf(ids, ty)) = Len(ids)
<1>1. DOMAIN ids = 1..Len(ids) /\ Len(ids) \in Nat
  OBVIOUS
<1>2. \A n \in 1..Len(ids) : ty[ids[n]] \in Keys
  <2>1. \A n \in 1..Len(ids) : ids[n] \in 1..Len(ty)
    BY <1>1 DEF Range
  <2>2. \A i \in 1..Len(ty) : ty[i] \in Keys
    OBVIOUS
  <2> QED BY <2>1, <2>2
<1>3. KeysOf(ids, ty) = [n \in 1..Len(ids) |-> ty[ids[n]]]
  BY <1>1 DEF KeysOf
<1> QED BY <1>1, <1>2, <1>3

LEMMA KeysOfSubSeq ==
  ASSUME NEW ty \in Seq(Keys), NEW ids \in Seq(Ids), NEW k \in 0..Len(ids)
  PROVE  KeysOf(SubSeq(ids, Len(ids) - k + 1, Len(ids)), ty)
           = SubSeq(KeysOf(ids, ty), Len(ids) - k + 1, Len(ids))
<1> DEFINE L == Len(ids)
           a == SubSeq(ids, L - k + 1, L)
<1>1. L \in Nat /\ k \in Nat /\ k <= L /\ \A n \in 1..L : ids[n] \in Ids
  OBVIOUS
<1>2. DOMAIN ids = 1..L
  OBVIOUS
<1> HIDE DEF L
<1>3. a = [n \in 1..k |-> ids[n + (L - k)]]
  <2>1. L - (L - k + 1) + 1 = k /\ \A n \in 1..k : n + (L - k + 1) - 1 = n + (L - k)
    BY <1>1
  <2>2. a = [n \in 1..(L - (L - k + 1) + 1) |-> ids[n + (L - k + 1) - 1]]
    BY <1>1
  <2> QED BY <2>1, <2>2
<1>4. SubSeq(KeysOf(ids, ty), L - k + 1, L) = [n \in 1..k |-> KeysOf(ids, ty)[n + (L - k)]]
  <2>1. L - (L - k + 1) + 1 = k /\ \A n \in 1..k : n + (L - k + 1) - 1 = n + (L - k)
    BY <1>1
  <2>2. \A s : SubSeq(s, L - k + 1, L) = [n \in 1..(L - (L - k + 1) + 1) |-> s[n + (L - k + 1) - 1]]
    BY <1>1
  <2> QED BY <2>1, <2>2
<1>5. \A n \in 1..k : n + (L - k) \in 1..L
  BY <1>1
<1>6. \A n \in 1..k : KeysOf(ids, ty)[n + (L - k)] = ty[ids[n + (L - k)]]
  BY <1>2, <1>5 DEF KeysOf
<1>7. KeysOf(a, ty) = [n \in 1..k |-> ty[ids[n + (L - k)]]]
  BY <1>3 DEF KeysOf
<1> QED BY <1>4, <1>6, <1>7 DEF a, L

LEMMA Halves ==
  ASSUME NEW T, NEW ids \in Seq(T), NEW k \in 0..Len(ids)
  PROVE  /\ SubSeq(ids, 1, Len(ids) - k) \o SubSeq(ids, Len(ids) - k + 1, Len(ids)) = ids
         /\ SubSeq(ids, Len(ids) - k + 1, Len(ids)) \in Seq(T)
         /\ Len(SubSeq(ids, Len(ids) - k + 1, Len(ids))) = k
<1> DEFINE L == Len(ids)
<1>1. L \in Nat /\ k \in Nat /\ k <= L /\ \A n \in 1..L : ids[n] \in T
  OBVIOUS
<1>2. 1 \in 1..(L + 1) /\ L - k \in (1 - 1)..L /\ L \in (L - k)..L
  BY <1>1
<1>3. SubSeq(ids, 1, L - k) \o SubSeq(ids, (L - k) + 1, L) = SubSeq(ids, 1, L)
  BY <1>2, ConcatAdjacentSubSeq
<1>4. SubSeq(ids, 1, L) = ids
  BY SubSeqFull
<1>5. L - k \in 0..L /\ L - (L - k) = k
  BY <1>1
<1>6. SubSeq(ids, (L - k) + 1, L) \in Seq(T) /\ Len(SubSeq(ids, (L - k) + 1, L)) = L - (L - k)
  BY <1>5, RestType
<1> QED BY <1>3, <1>4, <1>5, <1>6

-----------------------------------------------------------------------------
(* Every step keeps it.                                                    *)

LEMMA TopIs ==
  ASSUME TypeOK, stack # <<>>
  PROVE  /\ Top \in DispatchType /\ Top = stack[Len(stack)]
         /\ Len(stack) \in Nat \ {0} /\ Len(stack) \in 1..Len(stack)
         /\ WorkAt(stack, Len(stack)) = WorkOf(Top)
<1>1. stack \in Seq(DispatchType)
  BY DEF TypeOK
<1>2. Len(stack) \in Nat \ {0} /\ Len(stack) \in 1..Len(stack)
  BY <1>1
<1>3. Top = stack[Len(stack)]
  BY DEF Top
<1>4. Top \in DispatchType
  BY <1>1, <1>2, <1>3
<1>5. WorkAt(stack, Len(stack)) = WorkOf(Top)
  BY <1>2, <1>3 DEF WorkAt
<1> QED BY <1>2, <1>3, <1>4, <1>5

LEMMA Replaced ==
  ASSUME TypeOK, stack # <<>>, NEW d \in DispatchType, Replace(d)
  PROVE  /\ stack' \in Seq(DispatchType) /\ Len(stack') = Len(stack) /\ stack'[Len(stack)] = d
         /\ \A n \in 1..(Len(stack) - 1) : stack'[n] = stack[n]
         /\ OnlyAt(stack, stack', Len(stack))
         /\ WorkAt(stack', Len(stack)) = WorkOf(d)
<1>1. stack \in Seq(DispatchType)
  BY DEF TypeOK
<1>2. stack' = Append(SubSeq(stack, 1, Len(stack) - 1), d)
  BY DEF Replace, Below
<1>3. /\ stack' \in Seq(DispatchType) /\ Len(stack') = Len(stack) /\ stack'[Len(stack)] = d
      /\ \A n \in 1..(Len(stack) - 1) : stack'[n] = stack[n]
      /\ OnlyAt(stack, stack', Len(stack))
  BY <1>1, <1>2, OnlyAtReplace
<1>4. WorkAt(stack', Len(stack)) = WorkOf(d)
  BY <1>3, TopIs DEF WorkAt
<1> QED BY <1>3, <1>4

LEMMA Popped ==
  ASSUME TypeOK, stack # <<>>, stack' = Below
  PROVE  /\ stack' \in Seq(DispatchType) /\ Len(stack') = Len(stack) - 1
         /\ \A n \in 1..(Len(stack) - 1) : stack'[n] = stack[n]
         /\ OnlyAt(stack, stack', Len(stack))
         /\ WorkAt(stack', Len(stack)) = <<>>
         /\ Len(stack) \notin 1..Len(stack')
<1>1. stack \in Seq(DispatchType)
  BY DEF TypeOK
<1>2. stack' = SubSeq(stack, 1, Len(stack) - 1)
  BY DEF Below
<1>3. /\ stack' \in Seq(DispatchType) /\ Len(stack') = Len(stack) - 1
      /\ \A n \in 1..(Len(stack) - 1) : stack'[n] = stack[n]
      /\ OnlyAt(stack, stack', Len(stack))
  BY <1>1, <1>2, OnlyAtPop
<1>4. Len(stack) \notin 1..(Len(stack) - 1)
  BY TopIs
<1> QED BY <1>3, <1>4 DEF WorkAt

\* Pushed: what TypeKey and Timeout do to the dispatches.
LEMMA Pushed ==
  ASSUME TypeOK, NEW d \in DispatchType, stack' = Append(stack, d)
  PROVE  /\ stack' \in Seq(DispatchType) /\ Len(stack') = Len(stack) + 1
         /\ stack'[Len(stack) + 1] = d
         /\ \A n \in 1..Len(stack) : stack'[n] = stack[n]
         /\ OnlyAt(stack, stack', Len(stack) + 1)
         /\ WorkAt(stack, Len(stack) + 1) = <<>> /\ WorkAt(stack', Len(stack) + 1) = WorkOf(d)
         /\ Len(stack) \in Nat
<1>1. stack \in Seq(DispatchType) /\ Len(stack) \in Nat
  BY DEF TypeOK
<1>2. /\ stack' \in Seq(DispatchType) /\ Len(stack') = Len(stack) + 1
      /\ stack'[Len(stack) + 1] = d
      /\ \A n \in 1..Len(stack) : stack'[n] = stack[n]
      /\ OnlyAt(stack, stack', Len(stack) + 1)
  BY <1>1, OnlyAtPush
<1>3. Len(stack) + 1 \notin 1..Len(stack) /\ Len(stack) + 1 \in 1..(Len(stack) + 1)
  BY <1>1
<1> QED BY <1>1, <1>2, <1>3 DEF WorkAt

LEMMA WaitsOnlyAt ==
  ASSUME StoreWaits, UNCHANGED <<keymap, typed>>, NEW t, OnlyAt(stack, stack', t),
         stack' \in Seq(DispatchType),
         t \in 1..Len(stack') => Waits(keymap, typed, stack'[t])
  PROVE  StoreWaits'
<1>1. SUFFICES ASSUME NEW n \in 1..Len(stack') PROVE Waits(keymap, typed, stack'[n])
  BY DEF StoreWaits
<1>2. CASE n = t
  BY <1>2
<1>3. CASE n # t
  <2>1. n \in Nat \ {t}
    BY <1>3
  <2>2. n \in 1..Len(stack) /\ stack'[n] = stack[n]
    BY <2>1 DEF OnlyAt
  <2> QED BY <2>2 DEF StoreWaits
<1> QED BY <1>2, <1>3

LEMMA ToldOnlyAt ==
  ASSUME Told, UNCHANGED <<shown, silent, pending>>, NEW t, OnlyAt(stack, stack', t),
         stack \in Seq(DispatchType),
         t \in 1..Len(stack) /\ stack[t].of = "key" =>
           t \in 1..Len(stack') /\ stack'[t].of = "key"
  PROVE  Told'
<1>1. ASSUME NEW n \in 1..Len(stack), stack[n].of = "key"
      PROVE  n \in 1..Len(stack') /\ stack'[n].of = "key"
  <2>1. CASE n = t
    BY <1>1, <2>1
  <2>2. CASE n # t
    <3>1. n \in Nat \ {t}
      BY <2>2
    <3> QED BY <1>1, <3>1 DEF OnlyAt
  <2> QED BY <2>1, <2>2
<1> QED BY <1>1 DEF Told

LEMMA NoPendingType ==
  ASSUME TypeOK
  PROVE  /\ NoPending \in [keys : Seq(Ids), focus : Focuses \cup {Nobody},
                           home : Focuses \cup {Nobody}, needs : BOOLEAN, timer : BOOLEAN]
         /\ NoPending.keys = <<>>
         /\ pending.keys \in Seq(Ids) /\ fate \in Seq(Ids) /\ fate \o pending.keys \in Seq(Ids)
         /\ stack \in Seq(DispatchType) /\ typed \in Seq(Keys) /\ Len(stack) \in Nat
<1>1. <<>> \in Seq(Ids)
  OBVIOUS
<1>2. NoPending.keys = <<>>
  BY DEF NoPending
<1>3. pending.keys \in Seq(Ids) /\ fate \in Seq(Ids)
  BY DEF TypeOK
<1> QED BY <1>1, <1>2, <1>3 DEF TypeOK, NoPending

\* A change of the focus: what is pending is dealt with.
LEMMA ForgetKeeps ==
  ASSUME IInv, pending' = NoPending, fate' = fate \o pending.keys,
         silent' = TRUE \/ (pending.keys = <<>> /\ silent' = silent),
         UNCHANGED <<keymap, stack, typed, intercepted, nested, shown>>, focus' \in Focuses \cup {Nobody}
  PROVE  IInv'
<1>1. TypeOK /\ TypeOK'
  BY NoPendingType DEF IInv, TypeOK
<1>2. Sound(fate, pending.keys, stack, typed, intercepted, nested)'
  <2>1. OnlyAt(stack, stack, 1)
    BY OnlyAtSame
  <2>2. All(fate', <<>>, stack, 1) = All(fate, pending.keys, stack, 1)
    <3>1. fate \o pending.keys \in Seq(Ids)
      BY <1>1, NoPendingType
    <3>2. (fate \o pending.keys) \o <<>> = fate \o pending.keys
      BY <3>1
    <3> QED BY <3>2 DEF All
  <2>3. Sound(fate, pending.keys, stack, typed, intercepted, nested)
    BY DEF IInv
  <2>4. 1 \in 1..Len(stack) => Kind(stack[1], intercepted)
    BY <2>3 DEF Sound
  <2>5. ~nested => Len(stack) <= 1
    BY <2>3 DEF Sound, Alone
  <2>6. fate \in Seq(Ids) /\ pending.keys \in Seq(Ids) /\ fate' \in Seq(Ids) /\ <<>> \in Seq(Ids)
        /\ stack \in Seq(DispatchType) /\ typed \in Seq(Keys)
    BY <1>1, NoPendingType
  <2>7. Sound(fate', <<>>, stack, typed, intercepted, nested)
    BY <2>1, <2>2, <2>3, <2>4, <2>5, <2>6, SoundSame
  <2> QED BY <1>1, <2>7, NoPendingType
<1>3. BoundOnesTimeOut' /\ StoreWaits'
  BY <1>1, NoPendingType DEF IInv, BoundOnesTimeOut, StoreWaits
<1>4. Told'
  BY <1>1, NoPendingType DEF IInv, Told
<1> QED BY <1>1, <1>2, <1>3, <1>4 DEF IInv

LEMMA FocusKeeps ==
  ASSUME IInv, NEW f \in Focuses, Focus(f)
  PROVE  IInv'
<1>1. pending.keys # <<>> \/ (pending.keys = <<>> /\ silent' = silent)
  BY DEF Focus, IInv, TypeOK
<1>2. silent' = TRUE \/ (pending.keys = <<>> /\ silent' = silent)
  BY <1>1 DEF Focus
<1> QED BY <1>2, ForgetKeeps DEF Focus

LEMMA OpenMenuKeeps ==
  ASSUME IInv, OpenMenu
  PROVE  IInv'
<1>1. focus' \in Focuses \cup {Nobody}
  BY DEF OpenMenu, IInv, TypeOK
<1> QED BY <1>1, ForgetKeeps DEF OpenMenu

\* Nothing but the focus changes.
LEMMA BlurKeeps ==
  ASSUME IInv, focus' \in Focuses \cup {Nobody},
         UNCHANGED <<keymap, pending, stack, typed, fate, intercepted, nested, shown, silent>>
  PROVE  IInv'
<1>1. TypeOK'
  BY DEF IInv, TypeOK
<1>2. Sound(fate, pending.keys, stack, typed, intercepted, nested)'
  BY DEF IInv
<1>3. BoundOnesTimeOut' /\ StoreWaits' /\ Told'
  BY DEF IInv, BoundOnesTimeOut, StoreWaits, Told
<1> QED BY <1>1, <1>2, <1>3 DEF IInv

LEMMA TypeKeyKeeps ==
  ASSUME IInv, NEW key \in Keys, TypeKey(key)
  PROVE  IInv'
<1> DEFINE id == Len(typed) + 1
           pieces == <<[ids |-> <<id>>, bindings |-> <<>>]>>
           d == [Dispatch("interceptor", pieces, <<>>, FALSE) EXCEPT !.user = TRUE]
           t == Len(stack) + 1
<1>1. TypeOK /\ Sound(fate, pending.keys, stack, typed, intercepted, nested)
  BY DEF IInv
<1>2. /\ fate \in Seq(Ids) /\ pending.keys \in Seq(Ids) /\ stack \in Seq(DispatchType)
      /\ typed \in Seq(Keys) /\ Len(stack) \in Nat /\ Len(typed) \in Nat
  BY <1>1, NoPendingType
<1>3. id \in Ids /\ id \in Nat
  <2>1. id \in Nat /\ id <= MaxTyped /\ id >= 1
    BY <1>2 DEF TypeKey
  <2> QED BY <2>1, BoundsAssumption DEF Ids
<1>4. /\ typed' = Append(typed, key) /\ stack' = Append(stack, d)
      /\ nested' = (nested \/ stack # <<>>)
      /\ UNCHANGED <<keymap, focus, pending, fate, intercepted, shown, silent>>
  BY DEF TypeKey
<1>5. typed' \in Seq(Keys) /\ Len(typed') = id
  BY <1>2, <1>4, AppendProperties
<1> HIDE DEF id
<1>6. /\ d.pieces = pieces /\ d.store = <<>> /\ d.of = "interceptor" /\ d.user = TRUE
      /\ d \in DispatchType
  <2>1. pieces \in Seq(PieceType)
    BY <1>3 DEF PieceType
  <2>2. focus \in Focuses \cup {Nobody}
    BY <1>1 DEF TypeOK
  <2> DEFINE e == Dispatch("interceptor", pieces, <<>>, FALSE)
  <2>3. e = [of |-> "interceptor", pieces |-> pieces, store |-> <<>>, needs |-> FALSE,
             home |-> focus, user |-> FALSE]
    <3> HIDE DEF pieces
    <3> QED BY DEF Dispatch
  <2>4. <<>> \in Seq(Ids)
    OBVIOUS
  <2> HIDE DEF pieces, e
  <2>5. e \in DispatchType /\ e.pieces = pieces /\ e.store = <<>> /\ e.of = "interceptor"
    BY <2>1, <2>2, <2>3, <2>4 DEF DispatchType
  <2>6. [e EXCEPT !.user = TRUE] \in DispatchType
    BY <2>5 DEF DispatchType
  <2>7. /\ [e EXCEPT !.user = TRUE].pieces = pieces /\ [e EXCEPT !.user = TRUE].store = <<>>
        /\ [e EXCEPT !.user = TRUE].of = "interceptor" /\ [e EXCEPT !.user = TRUE].user = TRUE
    BY <2>5 DEF DispatchType
  <2> QED BY <2>6, <2>7 DEF e
<1>17. d.pieces # <<>>
  <2>1. Len(pieces) = 1 /\ Len(<<>>) = 0
    OBVIOUS
  <2>2. pieces # <<>>
    <3> HIDE DEF pieces
    <3> QED BY <2>1
  <2> HIDE DEF pieces, d
  <2> QED BY <1>6, <2>2
<1>7. Kind(d, intercepted)
  <2> HIDE DEF d
  <2> QED BY <1>3, <1>6, <1>17 DEF Kind
<1>8. WorkOf(d) = <<id>>
  <2> DEFINE e == [pieces |-> <<>>, store |-> <<>>]
  <2>1. d.pieces \in Seq(PieceType) /\ d.pieces # <<>> /\ d.store \in Seq(Ids)
    <3> HIDE DEF d
    <3> QED BY <1>6, <1>17 DEF DispatchType
  <2>2. Tail(d.pieces) = <<>> /\ Head(d.pieces).ids = <<id>>
    <3>1. Tail(pieces) = <<>> /\ Head(pieces).ids = <<id>>
      OBVIOUS
    <3> HIDE DEF d, pieces
    <3> QED BY <1>6, <3>1
  <2>3. e.pieces = Tail(d.pieces) /\ e.store = d.store
    <3> HIDE DEF d
    <3> QED BY <1>6, <2>2
  <2>4. WorkOf(d) = Head(d.pieces).ids \o WorkOf(e)
    <3> HIDE DEF d, e
    <3> QED BY <2>1, <2>3, WorkFirst
  <2>5. WorkOf(e) = <<>>
    <3>1. e.pieces = <<>> /\ e.store = <<>> /\ <<>> \in Seq(Ids)
      OBVIOUS
    <3> HIDE DEF e
    <3> QED BY <3>1, WorkNone
  <2> HIDE DEF d, e
  <2> QED BY <2>2, <2>4, <2>5
<1> HIDE DEF d
<1>9. /\ stack' \in Seq(DispatchType) /\ Len(stack') = t /\ stack'[t] = d
      /\ \A n \in 1..Len(stack) : stack'[n] = stack[n]
      /\ OnlyAt(stack, stack', t)
      /\ WorkAt(stack, t) = <<>> /\ WorkAt(stack', t) = <<id>>
  BY <1>1, <1>4, <1>6, <1>8, Pushed
<1> DEFINE a == All(fate, pending.keys, stack, t)
           a2 == All(fate, pending.keys, stack', t)
<1>10. a = fate \o pending.keys /\ a2 = a \o <<id>> /\ a \in Seq(Ids) /\ a2 \in Seq(Ids)
  <2>1. fate \o pending.keys \in Seq(Ids)
    BY <1>2
  <2>2. (fate \o pending.keys) \o <<>> = fate \o pending.keys
    BY <2>1
  <2>3. <<id>> \in Seq(Ids)
    BY <1>3
  <2>4. a = fate \o pending.keys
    BY <1>9, <2>2 DEF All
  <2>5. a2 = (fate \o pending.keys) \o <<id>>
    BY <1>9 DEF All
  <2>6. (fate \o pending.keys) \o <<id>> \in Seq(Ids)
    BY <2>1, <2>3
  <2> QED BY <2>1, <2>4, <2>5, <2>6
<1> HIDE DEF a, a2
<1>11. TypeOK'
  <2>1. nested' \in BOOLEAN
    BY <1>1, <1>4 DEF TypeOK
  <2> QED BY <1>1, <1>4, <1>5, <1>9, <2>1 DEF TypeOK
<1>12. Sound(fate, pending.keys, stack, typed, intercepted, nested)'
  <2>1. Owned(fate, pending.keys, stack, Len(typed))
    BY <1>1 DEF Sound
  <2>2. IsInjective(a) /\ Range(a) \subseteq 1..Len(typed)
    BY <1>2, <2>1, OwnedAll DEF a
  <2>3. IsInjective(<<id>>) /\ Range(<<id>>) = {id} /\ <<id>> \in Seq(Ids)
    BY <1>3 DEF IsInjective, Range
  <2>4. id \notin 1..Len(typed) /\ id \in (Len(typed) + 1)..id
    BY <1>2 DEF id
  <2>5. IsInjective(a2) /\ Range(a2) = Range(a) \cup {id}
    <3> DEFINE b == <<id>>
    <3> HIDE DEF b
    <3>1. IsInjective(b) /\ Range(b) = {id} /\ b \in Seq(Ids)
      BY <2>3 DEF b
    <3>2. Range(a) \cap Range(b) = {}
      BY <2>2, <2>4, <3>1
    <3>3. IsInjective(a \o b) /\ Range(a \o b) = Range(a) \cup Range(b)
      BY <1>10, <2>2, <3>1, <3>2, ConcatParts
    <3> QED BY <1>10, <3>1, <3>3 DEF b
  <2>6. Owned(fate, pending.keys, stack', id)
    <3>1. Range(a2) \subseteq Range(a) \cup ((Len(typed) + 1)..id)
      BY <2>4, <2>5
    <3>2. Len(typed) <= id
      BY <1>2 DEF id
    <3> QED BY <1>2, <1>3, <1>9, <2>1, <2>5, <3>1, <3>2, OwnedStep DEF a, a2
  <2>7. \A n \in 1..Len(stack') : Kind(stack'[n], intercepted)
    <3>1. \A n \in 1..Len(stack) : Kind(stack[n], intercepted)
      BY <1>1 DEF Sound
    <3> QED BY <1>2, <1>7, <1>9, <3>1, KindOnlyAt
  <2>8. id <= MaxTyped
    BY <1>3, BoundsAssumption DEF Ids
  <2>9. ASSUME ~nested' PROVE Alone(fate, pending.keys, stack', typed', intercepted)
    <3>1. ~nested /\ stack = <<>>
      BY <1>4, <2>9
    <3>2. t = 1
      BY <3>1
    <3>3. InOrder(a, typed, intercepted)
      BY <1>1, <3>1, <3>2 DEF Sound, Alone, a
    <3>4. Len(typed) + 1 \in Ids
      BY <1>3 DEF id
    <3>5. InOrder(a \o <<id>>, typed', intercepted)
      BY <1>2, <1>4, <1>10, <3>3, <3>4, InOrderTyped DEF id
    <3>6. stack'[1].of = "interceptor"
      BY <1>6, <1>9, <3>2
    <3>7. Len(stack') <= 1
      BY <1>9, <3>2
    <3>8. InOrder(All(fate, pending.keys, stack', 1), typed', intercepted)
      BY <1>10, <3>2, <3>5 DEF a2
    <3> QED BY <3>6, <3>7, <3>8 DEF Alone
  <2> QED BY <1>4, <1>5, <2>6, <2>7, <2>8, <2>9 DEF Sound
<1>13. \A ids \in Seq(Ids) : Range(ids) \subseteq 1..Len(typed) => KeysOf(ids, typed') = KeysOf(ids, typed)
  BY <1>2, <1>4, KeysOfTyped
<1>14. BoundOnesTimeOut'
  <2>1. Range(pending.keys) \subseteq 1..Len(typed)
    <3>1. Range(fate \o pending.keys) = Range(fate) \cup Range(pending.keys)
      BY <1>2, ConcatParts
    <3> QED BY <1>1, <3>1 DEF Sound, Owned
  <2>2. KeysOf(pending.keys, typed') = KeysOf(pending.keys, typed)
    BY <1>2, <1>13, <2>1
  <2> QED BY <1>4, <2>2 DEF IInv, BoundOnesTimeOut
<1>15. StoreWaits'
  <2>1. SUFFICES ASSUME NEW n \in 1..Len(stack') PROVE Waits(keymap, typed', stack'[n])
    BY <1>4 DEF StoreWaits
  <2>2. CASE n = t
    BY <1>6, <1>9, <2>2 DEF Waits
  <2>3. CASE n # t
    <3>1. n \in 1..Len(stack) /\ stack'[n] = stack[n]
      BY <1>2, <1>9, <2>3
    <3> DEFINE e == stack[n]
    <3>2. e \in DispatchType /\ Waits(keymap, typed, e)
      BY <1>2, <3>1 DEF IInv, StoreWaits
    <3>3. e.store \in Seq(Ids) /\ e.pieces \in Seq(PieceType)
      BY <3>2 DEF DispatchType
    <3>4. Range(e.store) \subseteq 1..Len(typed)
      <4>1. Range(WorkOf(e)) \subseteq 1..Len(typed)
        <5>1. Range(WorkAt(stack, n)) \subseteq 1..Len(typed)
          BY <1>1 DEF Sound, Owned
        <5> QED BY <3>1, <5>1 DEF WorkAt
      <4>2. WorkOf(e) = FlattenSeq(IdsOf(e.pieces)) \o e.store
        BY DEF WorkOf, IdsOf
      <4>3. FlattenSeq(IdsOf(e.pieces)) \in Seq(Ids)
        <5> HIDE DEF e
        <5> QED BY <3>3, IdsOfType, FlattenType
      <4>4. Range(WorkOf(e)) = Range(FlattenSeq(IdsOf(e.pieces))) \cup Range(e.store)
        <5> DEFINE x == FlattenSeq(IdsOf(e.pieces))
                   y == e.store
        <5>1. x \in Seq(Ids) /\ y \in Seq(Ids) /\ WorkOf(e) = x \o y
          BY <3>3, <4>2, <4>3
        <5> HIDE DEF x, y, e
        <5>2. Range(x \o y) = Range(x) \cup Range(y)
          BY <5>1, ConcatParts
        <5> QED BY <5>1, <5>2 DEF x, y
      <4> QED BY <4>1, <4>4
    <3>5. KeysOf(e.store, typed') = KeysOf(e.store, typed)
      BY <1>13, <3>3, <3>4
    <3> QED BY <3>1, <3>2, <3>5 DEF Waits
  <2> QED BY <2>2, <2>3
<1>16. Told'
  <2>1. t \notin 1..Len(stack)
    BY <1>2
  <2> QED BY <1>2, <1>4, <1>9, <2>1, ToldOnlyAt DEF IInv
<1> QED BY <1>11, <1>12, <1>14, <1>15, <1>16 DEF IInv

\* A step of the dispatch on top that holds what it held.
LEMMA HeldKeeps ==
  ASSUME IInv, stack # <<>>, NEW d \in DispatchType, Replace(d),
         UNCHANGED <<keymap, focus, pending, typed, fate, nested, shown, silent>>,
         intercepted \subseteq intercepted', intercepted' \subseteq Ids,
         WorkOf(d) = WorkOf(Top), d.store = Top.store, d.home = Top.home, d.needs = Top.needs,
         Kind(d, intercepted'),
         d.of = Top.of \/ (d.of = "intercepted" /\ Top.of = "interceptor")
  PROVE  IInv'
<1> DEFINE t == Len(stack)
<1>1. TypeOK /\ Sound(fate, pending.keys, stack, typed, intercepted, nested)
  BY DEF IInv
<1>2. /\ fate \in Seq(Ids) /\ pending.keys \in Seq(Ids) /\ stack \in Seq(DispatchType)
      /\ typed \in Seq(Keys)
  BY <1>1, NoPendingType
<1>3. /\ Top = stack[t] /\ t \in Nat \ {0} /\ t \in 1..t /\ WorkAt(stack, t) = WorkOf(Top)
  BY <1>1, TopIs
<1>4. /\ stack' \in Seq(DispatchType) /\ Len(stack') = t /\ stack'[t] = d
      /\ OnlyAt(stack, stack', t) /\ WorkAt(stack', t) = WorkOf(d)
  BY <1>1, Replaced
<1>5. TypeOK'
  BY <1>1, <1>4 DEF TypeOK
<1>6. Sound(fate, pending.keys, stack, typed, intercepted, nested)'
  <2>1. All(fate, pending.keys, stack', t) = All(fate, pending.keys, stack, t)
    BY <1>3, <1>4 DEF All
  <2>2. ASSUME ~nested
        PROVE  /\ t = 1 /\ Len(stack') <= 1
               /\ Len(stack') = 1 /\ stack'[1].of \in {"key", "timer"} => pending.keys = <<>>
    <3>1. Len(stack) <= 1 /\ (Len(stack) = 1 /\ stack[1].of \in {"key", "timer"} => pending.keys = <<>>)
      BY <1>1, <2>2 DEF Sound, Alone
    <3>2. t = 1
      <4>1. t \in Nat \ {0} /\ t <= 1
        BY <1>3, <3>1
      <4> HIDE DEF t
      <4> QED BY <4>1
    <3> QED BY <1>3, <1>4, <3>1, <3>2
  <2>3. t \in 1..Len(stack') => Kind(stack'[t], intercepted')
    BY <1>4
  <2>4. Sound(fate, pending.keys, stack', typed, intercepted', nested)
    <3> HIDE DEF t
    <3> QED BY <1>1, <1>2, <1>4, <2>1, <2>2, <2>3, SoundSame
  <2> QED BY <2>4
<1>7. BoundOnesTimeOut'
  BY DEF IInv, BoundOnesTimeOut
<1>8. StoreWaits'
  <2>1. Waits(keymap, typed, Top)
    BY <1>3 DEF IInv, StoreWaits
  <2>2. Waits(keymap, typed, d)
    BY <2>1 DEF Waits
  <2> HIDE DEF t
  <2> QED BY <1>4, <2>2, WaitsOnlyAt DEF IInv
<1>9. Told'
  <2>1. t \in 1..Len(stack) /\ stack[t].of = "key" => t \in 1..Len(stack') /\ stack'[t].of = "key"
    BY <1>3, <1>4
  <2> HIDE DEF t
  <2> QED BY <1>2, <1>4, <2>1, ToldOnlyAt DEF IInv
<1> QED BY <1>5, <1>6, <1>7, <1>8, <1>9 DEF IInv

LEMMA WorkOfSame ==
  ASSUME NEW d, NEW e, e.pieces = d.pieces, e.store = d.store
  PROVE  WorkOf(e) = WorkOf(d)
BY DEF WorkOf

LEMMA InterceptKeeps ==
  ASSUME IInv, Intercept
  PROVE  IInv'
<1> DEFINE d == [Top EXCEPT !.of = "intercepted", !.user = FALSE]
<1>1. TypeOK /\ stack # <<>> /\ Top.of = "interceptor" /\ Replace(d)
      /\ intercepted' = intercepted \cup Range(Top.pieces[1].ids)
      /\ UNCHANGED <<keymap, focus, pending, typed, fate, nested, shown, silent>>
  BY DEF IInv, Intercept
<1>2. Top \in DispatchType /\ Top = stack[Len(stack)] /\ Len(stack) \in 1..Len(stack)
  BY <1>1, TopIs
<1>3. Kind(Top, intercepted)
  BY <1>2 DEF IInv, Sound
<1>4. /\ d \in DispatchType /\ d.of = "intercepted" /\ d.user = FALSE
      /\ d.pieces = Top.pieces /\ d.store = Top.store /\ d.home = Top.home /\ d.needs = Top.needs
  BY <1>2 DEF DispatchType
<1> HIDE DEF d
<1>5. Top.pieces # <<>> /\ Top.store = <<>>
  BY <1>1, <1>3 DEF Kind
<1>6. PICK id \in Ids : Top.pieces = <<[ids |-> <<id>>, bindings |-> <<>>]>>
  BY <1>1, <1>3, <1>5 DEF Kind
<1>7. Range(Top.pieces[1].ids) = {id}
  <2>1. Top.pieces[1].ids = <<id>>
    BY <1>6
  <2>2. Range(<<id>>) = {id}
    BY DEF Range
  <2> QED BY <2>1, <2>2
<1>8. intercepted \subseteq intercepted' /\ intercepted' \subseteq Ids /\ id \in intercepted'
  BY <1>1, <1>7 DEF TypeOK
<1>9. Kind(d, intercepted')
  BY <1>4, <1>5, <1>6, <1>8 DEF Kind
<1>10. WorkOf(d) = WorkOf(Top)
  BY <1>4, WorkOfSame
<1> QED BY <1>1, <1>4, <1>8, <1>9, <1>10, HeldKeeps

LEMMA TryKeeps ==
  ASSUME IInv, Try
  PROVE  IInv'
<1> DEFINE d == [Top EXCEPT !.user = TRUE]
<1>1. TypeOK /\ stack # <<>> /\ ~Top.user /\ Top.pieces # <<>> /\ Replace(d)
      /\ UNCHANGED <<keymap, focus, pending, typed, fate, intercepted, nested, shown, silent>>
  BY DEF IInv, Try
<1>2. Top \in DispatchType /\ Top = stack[Len(stack)] /\ Len(stack) \in 1..Len(stack)
  BY <1>1, TopIs
<1>3. Kind(Top, intercepted)
  BY <1>2 DEF IInv, Sound
<1>4. /\ d \in DispatchType /\ d.of = Top.of /\ d.user = TRUE
      /\ d.pieces = Top.pieces /\ d.store = Top.store /\ d.home = Top.home /\ d.needs = Top.needs
  BY <1>2 DEF DispatchType
<1> HIDE DEF d
<1>5. Kind(d, intercepted)
  BY <1>1, <1>3, <1>4 DEF Kind
<1>6. WorkOf(d) = WorkOf(Top)
  BY <1>4, WorkOfSame
<1>7. intercepted' = intercepted /\ intercepted \subseteq Ids
  BY <1>1 DEF TypeOK
<1> QED BY <1>1, <1>4, <1>5, <1>6, <1>7, HeldKeeps

\* A binding of the piece did not stop it: the next one is tried.
LEMMA NextBindingKeeps ==
  ASSUME IInv, Tried(FALSE), Head(Top.pieces).bindings # <<>>
  PROVE  IInv'
<1> DEFINE piece == Head(Top.pieces)
           next == [piece EXCEPT !.bindings = Tail(@)]
           pieces == <<next>> \o Tail(Top.pieces)
           d == [Top EXCEPT !.user = FALSE, !.pieces = pieces]
<1>1. /\ TypeOK /\ stack # <<>> /\ Top.user /\ Top.of # "interceptor"
  BY DEF IInv, Tried
<1>2. /\ Replace(d)
      /\ UNCHANGED <<keymap, focus, pending, typed, fate, intercepted, nested, shown, silent>>
  BY DEF Tried
<1>3. Top \in DispatchType /\ Top = stack[Len(stack)] /\ Len(stack) \in 1..Len(stack)
  BY <1>1, TopIs
<1>4. Kind(Top, intercepted)
  BY <1>3 DEF IInv, Sound
<1>5. Top.pieces \in Seq(PieceType) /\ Top.pieces # <<>> /\ Top.store \in Seq(Ids)
  BY <1>1, <1>3, <1>4 DEF DispatchType, Kind
<1>6. piece \in PieceType /\ Tail(Top.pieces) \in Seq(PieceType)
  BY <1>5
<1>14. piece.bindings # <<>>
  OBVIOUS
<1> HIDE DEF piece
<1>7. next \in PieceType /\ next.ids = piece.ids
  <2>1. piece.bindings \in Seq(Nat) /\ piece.ids \in Seq(Ids)
    BY <1>6 DEF PieceType
  <2>2. Tail(piece.bindings) \in Seq(Nat)
    BY <1>14, <2>1
  <2> QED BY <1>6, <2>2 DEF PieceType
<1> HIDE DEF next
<1>8. /\ pieces \in Seq(PieceType) /\ pieces # <<>> /\ Head(pieces) = next
      /\ Tail(pieces) = Tail(Top.pieces)
  <2> DEFINE rest == Tail(Top.pieces)
  <2>1. rest \in Seq(PieceType)
    BY <1>6
  <2> HIDE DEF rest
  <2>2. /\ <<next>> \o rest \in Seq(PieceType) /\ <<next>> \o rest # <<>>
        /\ Head(<<next>> \o rest) = next /\ Tail(<<next>> \o rest) = rest
    BY <1>7, <2>1
  <2> QED BY <2>2 DEF rest
<1> HIDE DEF pieces
<1>9. /\ d \in DispatchType /\ d.of = Top.of /\ d.user = FALSE
      /\ d.pieces = pieces /\ d.store = Top.store /\ d.home = Top.home /\ d.needs = Top.needs
  BY <1>3, <1>8 DEF DispatchType
<1> HIDE DEF d
<1>10. Top.of # "intercepted"
  <2>1. ASSUME Top.of = "intercepted" PROVE FALSE
    <3>1. PICK id \in Ids : Top.pieces = <<[ids |-> <<id>>, bindings |-> <<>>]>>
      BY <1>4, <1>5, <2>1 DEF Kind
    <3> QED BY <3>1
  <2> QED BY <2>1
<1>11. Kind(d, intercepted)
  BY <1>1, <1>4, <1>9, <1>10 DEF Kind
<1>12. WorkOf(d) = WorkOf(Top)
  <2> DEFINE e == [pieces |-> Tail(Top.pieces), store |-> Top.store]
  <2>1. e.pieces = Tail(Top.pieces) /\ e.store = Top.store
    OBVIOUS
  <2> HIDE DEF e
  <2>2. WorkOf(Top) = piece.ids \o WorkOf(e)
    BY <1>5, <2>1, WorkFirst DEF piece
  <2>3. WorkOf(d) = next.ids \o WorkOf(e)
    BY <1>5, <1>8, <1>9, <2>1, WorkFirst
  <2> QED BY <1>7, <2>2, <2>3
<1>13. intercepted' = intercepted /\ intercepted \subseteq Ids
  BY <1>1, <1>2 DEF TypeOK
<1> QED BY <1>1, <1>2, <1>9, <1>11, <1>12, <1>13, HeldKeeps

LEMMA Swapped ==
  ASSUME NEW f \in Seq(Ids), NEW p \in Seq(Ids), NEW x \in Seq(Ids), NEW w \in Seq(Ids),
         IsInjective((f \o p) \o (x \o w))
  PROVE  /\ IsInjective(((f \o x) \o p) \o w)
         /\ Range(((f \o x) \o p) \o w) = Range((f \o p) \o (x \o w))
<1> DEFINE a == f \o p
           b == x \o w
           c == f \o x
           e == c \o p
<1>1. a \in Seq(Ids) /\ b \in Seq(Ids) /\ c \in Seq(Ids)
  OBVIOUS
<1>2. /\ Range(a) = Range(f) \cup Range(p)
      /\ IsInjective(a) <=> IsInjective(f) /\ IsInjective(p) /\ Range(f) \cap Range(p) = {}
  BY ConcatParts
<1>3. /\ Range(b) = Range(x) \cup Range(w)
      /\ IsInjective(b) <=> IsInjective(x) /\ IsInjective(w) /\ Range(x) \cap Range(w) = {}
  BY ConcatParts
<1>4. /\ Range(c) = Range(f) \cup Range(x)
      /\ IsInjective(c) <=> IsInjective(f) /\ IsInjective(x) /\ Range(f) \cap Range(x) = {}
  BY ConcatParts
<1> HIDE DEF a, b, c
<1>5. e \in Seq(Ids)
  BY <1>1
<1>6. /\ Range(e) = Range(c) \cup Range(p)
      /\ IsInjective(e) <=> IsInjective(c) /\ IsInjective(p) /\ Range(c) \cap Range(p) = {}
  BY <1>1, ConcatParts
<1>7. /\ Range(a \o b) = Range(a) \cup Range(b)
      /\ IsInjective(a \o b) <=> IsInjective(a) /\ IsInjective(b) /\ Range(a) \cap Range(b) = {}
  BY <1>1, ConcatParts
<1> HIDE DEF e
<1>8. /\ Range(e \o w) = Range(e) \cup Range(w)
      /\ IsInjective(e \o w) <=> IsInjective(e) /\ IsInjective(w) /\ Range(e) \cap Range(w) = {}
  BY <1>5, ConcatParts
<1>9. IsInjective(a \o b)
  BY DEF a, b
<1>10. IsInjective(e \o w) /\ Range(e \o w) = Range(a \o b)
  BY <1>2, <1>3, <1>4, <1>6, <1>7, <1>8, <1>9
<1> QED BY <1>10 DEF a, b, c, e

\* The next piece was handled.
LEMMA PieceDoneKeeps ==
  ASSUME IInv, stack # <<>>, Top.user, Top.of # "interceptor",
         Replace([Top EXCEPT !.user = FALSE, !.pieces = Tail(Top.pieces)]),
         fate' = fate \o Head(Top.pieces).ids,
         UNCHANGED <<keymap, focus, pending, typed, intercepted, nested, shown, silent>>
  PROVE  IInv'
<1> DEFINE d == [Top EXCEPT !.user = FALSE, !.pieces = Tail(Top.pieces)]
           t == Len(stack)
           x == Head(Top.pieces).ids
           w == WorkOf(d)
           f == fate
           p == pending.keys
<1>1. TypeOK /\ Sound(f, p, stack, typed, intercepted, nested)
  BY DEF IInv
<1>2. /\ f \in Seq(Ids) /\ p \in Seq(Ids) /\ stack \in Seq(DispatchType)
      /\ typed \in Seq(Keys)
  BY <1>1, NoPendingType
<1>3. /\ Top \in DispatchType /\ Top = stack[t] /\ t \in Nat \ {0} /\ t \in 1..t
      /\ WorkAt(stack, t) = WorkOf(Top)
  BY <1>1, TopIs
<1>4. Kind(Top, intercepted)
  BY <1>1, <1>3 DEF Sound
<1>5. /\ Top.pieces \in Seq(PieceType) /\ Top.pieces # <<>> /\ Top.store \in Seq(Ids)
      /\ Tail(Top.pieces) \in Seq(PieceType)
  <2>1. Top.pieces \in Seq(PieceType) /\ Top.pieces # <<>> /\ Top.store \in Seq(Ids)
    BY <1>3, <1>4 DEF DispatchType, Kind
  <2> QED BY <2>1
<1>6. /\ d \in DispatchType /\ d.of = Top.of /\ d.user = FALSE
      /\ d.pieces = Tail(Top.pieces) /\ d.store = Top.store /\ d.home = Top.home
      /\ d.needs = Top.needs
  BY <1>3, <1>5 DEF DispatchType
<1>7. Replace(d) /\ fate' = f \o x
  OBVIOUS
<1> HIDE DEF d
<1>8. WorkOf(Top) = x \o w /\ x \in Seq(Ids) /\ w \in Seq(Ids)
  BY <1>5, <1>6, WorkFirst
<1>9. /\ stack' \in Seq(DispatchType) /\ Len(stack') = t /\ stack'[t] = d
      /\ OnlyAt(stack, stack', t) /\ WorkAt(stack', t) = w
  BY <1>1, <1>6, <1>7, Replaced
<1> HIDE DEF x, w, t, f, p
<1>10. Kind(d, intercepted)
  <2>1. ASSUME Top.of = "intercepted" PROVE d.pieces = <<>>
    <3>1. PICK id \in Ids : Top.pieces = <<[ids |-> <<id>>, bindings |-> <<>>]>>
      BY <1>4, <1>5, <2>1 DEF Kind
    <3> QED BY <1>6, <3>1
  <2> QED BY <1>4, <1>6, <2>1 DEF Kind
<1>11. /\ All(f, p, stack, t) = (f \o p) \o (x \o w)
       /\ All(fate', p, stack', t) = ((f \o x) \o p) \o w
  BY <1>3, <1>7, <1>8, <1>9 DEF All
<1>12. IsInjective(All(f, p, stack, t))
  <2>1. Owned(f, p, stack, Len(typed)) /\ t \in Nat
    BY <1>1, <1>3 DEF Sound
  <2> QED BY <1>2, <2>1, OwnedAll
<1>13. /\ IsInjective(All(fate', p, stack', t))
       /\ Range(All(fate', p, stack', t)) = Range(All(f, p, stack, t))
  <2>1. IsInjective((f \o p) \o (x \o w))
    BY <1>11, <1>12
  <2>2. /\ IsInjective(((f \o x) \o p) \o w)
        /\ Range(((f \o x) \o p) \o w) = Range((f \o p) \o (x \o w))
    BY <1>2, <1>8, <2>1, Swapped
  <2> QED BY <1>11, <2>2
<1>14. ASSUME ~nested PROVE Alone(fate', p, stack', typed, intercepted)
  <2>1. /\ Len(stack) <= 1
        /\ Len(stack) = 1 /\ stack[1].of \in {"key", "timer"} => p = <<>>
        /\ InOrder(All(f, p, stack, 1), typed, intercepted)
    BY <1>1, <1>14 DEF Sound, Alone
  <2>2. t = 1
    <3>1. t \in Nat \ {0} /\ t <= 1
      BY <1>3, <2>1 DEF t
    <3> QED BY <3>1
  <2>3. Len(stack') <= 1 /\ (Len(stack') = 1 /\ stack'[1].of \in {"key", "timer"} => p = <<>>)
    <3>1. stack'[1].of = stack[1].of
      BY <1>3, <1>6, <1>9, <2>2
    <3>2. Len(stack) = 1
      BY <2>2 DEF t
    <3> QED BY <1>9, <2>1, <2>2, <3>1, <3>2
  <2>4. InOrder(((f \o x) \o p) \o w, typed, intercepted)
    <3>1. InOrder((f \o p) \o (x \o w), typed, intercepted)
      BY <1>11, <2>1, <2>2
    <3>2. CASE Top.of \in {"key", "timer"}
      <4>1. p = <<>>
        BY <1>3, <2>1, <2>2, <3>2 DEF t
      <4>2. (f \o p) \o (x \o w) = ((f \o x) \o p) \o w
        <5>1. f \o <<>> = f /\ (f \o x) \o <<>> = f \o x /\ (f \o x) \o w = f \o (x \o w)
          BY <1>2, <1>8
        <5> QED BY <4>1, <5>1
      <4> QED BY <3>1, <4>2
    <3>3. CASE Top.of = "intercepted"
      <4>1. PICK id \in Ids : /\ Top.pieces = <<[ids |-> <<id>>, bindings |-> <<>>]>>
                              /\ id \in intercepted
        BY <1>4, <1>5, <3>3 DEF Kind
      <4>2. x = <<id>> /\ d.pieces = <<>>
        <5>1. Head(Top.pieces) = [ids |-> <<id>>, bindings |-> <<>>] /\ Tail(Top.pieces) = <<>>
          BY <4>1
        <5> QED BY <1>6, <5>1 DEF x
      <4>3. w = <<>>
        <5>1. d.store = <<>>
          BY <1>4, <1>6, <3>3 DEF Kind
        <5>2. w = d.store
          BY <1>5, <1>6, <4>2, WorkNone DEF w
        <5> QED BY <5>1, <5>2
      <4>4. /\ (f \o p) \o (x \o w) = (f \o p) \o <<id>>
            /\ ((f \o x) \o p) \o w = (f \o <<id>>) \o p
        <5>1. <<id>> \in Seq(Ids)
          OBVIOUS
        <5>2. <<id>> \o <<>> = <<id>> /\ ((f \o <<id>>) \o p) \o <<>> = (f \o <<id>>) \o p
          BY <1>2, <5>1
        <5> QED BY <4>2, <4>3, <5>2
      <4>5. InOrder(f \o p \o <<id>>, typed, intercepted)
        BY <3>1, <4>4
      <4>6. InOrder(f \o <<id>> \o p, typed, intercepted)
        BY <1>2, <4>1, <4>5, InOrderMoved
      <4> QED BY <4>4, <4>6
    <3>4. Top.of \in {"intercepted", "key", "timer"}
      BY <1>3 DEF DispatchType
    <3> QED BY <3>2, <3>3, <3>4
  <2>5. InOrder(All(fate', p, stack', 1), typed, intercepted)
    BY <1>11, <2>2, <2>4
  <2> QED BY <2>3, <2>5 DEF Alone
<1>15. fate' \in Seq(Ids)
  <2>1. f \o x \in Seq(Ids)
    BY <1>2, <1>8
  <2> QED BY <1>7, <2>1
<1>16. TypeOK'
  BY <1>1, <1>9, <1>15 DEF TypeOK
<1>17. Sound(fate, pending.keys, stack, typed, intercepted, nested)'
  <2>1. Sound(fate', p, stack', typed, intercepted, nested)
    <3>1. Range(All(fate', p, stack', t)) \subseteq Range(All(f, p, stack, t))
      BY <1>13
    <3>2. t \in 1..Len(stack') => Kind(stack'[t], intercepted)
      BY <1>9, <1>10
    <3> QED BY <1>1, <1>2, <1>9, <1>13, <1>14, <1>15, <3>1, <3>2, SoundMoved
  <2> QED BY <2>1 DEF p
<1>18. BoundOnesTimeOut'
  BY DEF IInv, BoundOnesTimeOut
<1>19. StoreWaits'
  <2>1. Waits(keymap, typed, Top)
    BY <1>3 DEF IInv, StoreWaits, t
  <2>2. Waits(keymap, typed, d)
    BY <1>6, <2>1 DEF Waits
  <2> QED BY <1>9, <2>2, WaitsOnlyAt DEF IInv
<1>20. Told'
  <2>1. t \in 1..Len(stack) /\ stack[t].of = "key" => t \in 1..Len(stack') /\ stack'[t].of = "key"
    BY <1>3, <1>6, <1>9 DEF t
  <2> QED BY <1>2, <1>9, <2>1, ToldOnlyAt DEF IInv
<1> QED BY <1>16, <1>17, <1>18, <1>19, <1>20 DEF IInv

LEMMA TriedKeeps ==
  ASSUME IInv, NEW handled \in BOOLEAN, Tried(handled)
  PROVE  IInv'
<1>1. CASE handled \/ Head(Top.pieces).bindings = <<>>
  <2>1. /\ Replace([Top EXCEPT !.user = FALSE, !.pieces = Tail(Top.pieces)])
        /\ fate' = fate \o Head(Top.pieces).ids
    BY <1>1 DEF Tried
  <2> QED BY <2>1, PieceDoneKeeps DEF Tried
<1>2. CASE ~handled /\ Head(Top.pieces).bindings # <<>>
  <2>1. handled = FALSE
    BY <1>2
  <2> QED BY <1>2, <2>1, NextBindingKeeps
<1> QED BY <1>1, <1>2

LEMMA EndDispatchKeeps ==
  ASSUME IInv, NEW text \in BOOLEAN, EndDispatch(text)
  PROVE  IInv'
<1> DEFINE t == Len(stack)
           f == fate
           p == pending.keys
           x == Top.store
<1>1. TypeOK /\ Sound(f, p, stack, typed, intercepted, nested)
  BY DEF IInv
<1>2. /\ f \in Seq(Ids) /\ p \in Seq(Ids) /\ stack \in Seq(DispatchType)
      /\ typed \in Seq(Keys) /\ <<>> \in Seq(Ids)
  BY <1>1, NoPendingType
<1>3. /\ stack # <<>> /\ ~Top.user /\ Top.pieces = <<>> /\ stack' = Below
      /\ UNCHANGED <<keymap, focus, typed, fate, intercepted, nested>>
  BY DEF EndDispatch
<1>4. /\ Top \in DispatchType /\ Top = stack[t] /\ t \in Nat \ {0} /\ t \in 1..t
      /\ WorkAt(stack, t) = WorkOf(Top)
  BY <1>1, <1>3, TopIs
<1>5. Kind(Top, intercepted) /\ Waits(keymap, typed, Top)
  BY <1>1, <1>4 DEF IInv, Sound, StoreWaits
<1>6. x \in Seq(Ids) /\ WorkAt(stack, t) = x
  <2>1. x \in Seq(Ids)
    BY <1>4 DEF DispatchType
  <2> QED BY <1>3, <1>4, <2>1, WorkNone
<1>7. /\ stack' \in Seq(DispatchType) /\ Len(stack') = t - 1 /\ OnlyAt(stack, stack', t)
      /\ WorkAt(stack', t) = <<>> /\ t \notin 1..Len(stack')
  BY <1>1, <1>3, Popped
<1> HIDE DEF t, x, f, p
<1>8. /\ All(f, p, stack, t) = (f \o p) \o x
      /\ All(f, p, stack', t) = (f \o p) \o <<>>
      /\ All(f, x, stack', t) = f \o x
  <2>1. f \o x \in Seq(Ids)
    BY <1>2, <1>6
  <2>2. (f \o x) \o <<>> = f \o x
    BY <2>1
  <2> QED BY <1>6, <1>7, <2>2 DEF All
<1>9. ASSUME ~nested
      PROVE  t = 1 /\ Len(stack') = 0 /\ (Top.of = "key" => p = <<>>)
             /\ InOrder(All(f, p, stack, 1), typed, intercepted)
  <2>1. /\ Len(stack) <= 1
        /\ Len(stack) = 1 /\ stack[1].of \in {"key", "timer"} => p = <<>>
        /\ InOrder(All(f, p, stack, 1), typed, intercepted)
    BY <1>1, <1>9 DEF Sound, Alone
  <2>2. t \in Nat \ {0} /\ t <= 1
    BY <1>4, <2>1 DEF t
  <2>3. t = 1
    BY <2>2
  <2>4. Top.of = "key" => p = <<>>
    BY <1>4, <2>1, <2>3 DEF t
  <2> QED BY <1>7, <2>1, <2>3, <2>4
<1>10. StoreWaits'
  BY <1>3, <1>7, WaitsOnlyAt DEF IInv
<1>11. CASE x # <<>>
  <2>1. /\ pending'.keys = x /\ pending'.home = Top.home /\ pending'.timer = (Top.needs \/ text)
        /\ pending' \in [keys : Seq(Ids), focus : Focuses \cup {Nobody},
                         home : Focuses \cup {Nobody}, needs : BOOLEAN, timer : BOOLEAN]
    <3>1. pending' = [keys |-> x, focus |-> focus, home |-> Top.home,
                      needs |-> Top.needs \/ text, timer |-> Top.needs \/ text]
      BY <1>11 DEF EndDispatch, x
    <3>2. focus \in Focuses \cup {Nobody} /\ Top.home \in Focuses \cup {Nobody}
      BY <1>1, <1>4 DEF TypeOK, DispatchType
    <3>3. (Top.needs \/ text) \in BOOLEAN
      OBVIOUS
    <3> DEFINE b == Top.needs \/ text
    <3> HIDE DEF b
    <3>4. b \in BOOLEAN
      BY <3>3 DEF b
    <3>5. pending' = [keys |-> x, focus |-> focus, home |-> Top.home, needs |-> b, timer |-> b]
      BY <3>1 DEF b
    <3>6. /\ pending'.keys = x /\ pending'.home = Top.home /\ pending'.timer = b
          /\ pending' \in [keys : Seq(Ids), focus : Focuses \cup {Nobody},
                           home : Focuses \cup {Nobody}, needs : BOOLEAN, timer : BOOLEAN]
      BY <1>6, <3>2, <3>4, <3>5
    <3> QED BY <3>6 DEF b
  <2>2. Top.of = "key"
    BY <1>5, <1>11 DEF Kind, x
  <2>3. shown' = pending'.keys
    BY <2>2 DEF EndDispatch
  <2>4. TypeOK'
    <3>1. silent' = FALSE
      BY <2>2 DEF EndDispatch
    <3>2. pending'.keys # <<>>
      BY <1>11, <2>1
    <3>3. shown' \in Seq(Ids)
      BY <1>6, <2>1, <2>3
    <3> QED BY <1>1, <1>3, <1>7, <2>1, <3>1, <3>2, <3>3 DEF TypeOK
  <2>5. Sound(fate, pending.keys, stack, typed, intercepted, nested)'
    <3> DEFINE a == f \o p
    <3>1. a \in Seq(Ids)
      BY <1>2
    <3>2. IsInjective(a \o x)
      <4>1. Owned(f, p, stack, Len(typed)) /\ t \in Nat
        BY <1>1, <1>4 DEF Sound
      <4>2. IsInjective(All(f, p, stack, t))
        BY <1>2, <4>1, OwnedAll
      <4> QED BY <1>8, <4>2
    <3>3. Range(f) \subseteq Range(a) /\ (IsInjective(a) => IsInjective(f))
      BY <1>2, ConcatParts
    <3> HIDE DEF a
    <3>4. /\ Range(a \o x) = Range(a) \cup Range(x)
          /\ IsInjective(a) /\ IsInjective(x) /\ Range(a) \cap Range(x) = {}
      BY <1>6, <3>1, <3>2, ConcatParts
    <3>5. /\ Range(f \o x) = Range(f) \cup Range(x)
          /\ IsInjective(f \o x) <=> IsInjective(f) /\ IsInjective(x) /\ Range(f) \cap Range(x) = {}
      BY <1>2, <1>6, ConcatParts
    <3>6. IsInjective(f \o x) /\ Range(f \o x) \subseteq Range(a \o x)
      BY <3>3, <3>4, <3>5
    <3>7. /\ IsInjective(All(f, x, stack', t))
          /\ Range(All(f, x, stack', t)) \subseteq Range(All(f, p, stack, t))
      BY <1>8, <3>6 DEF a
    <3>8. ASSUME ~nested PROVE Alone(f, x, stack', typed, intercepted)
      <4>1. p = <<>> /\ t = 1 /\ Len(stack') = 0
        BY <1>9, <2>2, <3>8
      <4>2. f \o <<>> = f
        BY <1>2
      <4>3. All(f, p, stack, 1) = All(f, x, stack', 1)
        BY <1>8, <4>1, <4>2
      <4>4. InOrder(All(f, x, stack', 1), typed, intercepted)
        BY <1>9, <3>8, <4>3
      <4> QED BY <4>1, <4>4 DEF Alone
    <3>9. Sound(f, x, stack', typed, intercepted, nested)
      BY <1>1, <1>2, <1>6, <1>7, <3>7, <3>8, SoundMoved
    <3> QED BY <1>3, <2>1, <3>9 DEF f
  <2>6. BoundOnesTimeOut'
    <3>1. x # <<>> /\ Bindings(keymap, ContextsOf[Top.home], KeysOf(x, typed)) # <<>> => Top.needs
      BY <1>5 DEF Waits, x
    <3> QED BY <1>3, <2>1, <3>1 DEF BoundOnesTimeOut
  <2>7. Told'
    BY <2>3 DEF Told
  <2> QED BY <1>10, <2>4, <2>5, <2>6, <2>7 DEF IInv
<1>12. CASE x = <<>>
  <2>1. pending' = pending
    BY <1>12 DEF EndDispatch, x
  <2>2. TypeOK'
    <3>1. shown' \in Seq(Ids) /\ silent' \in BOOLEAN
      <4>1. pending'.keys \in Seq(Ids)
        BY <1>2, <2>1 DEF p
      <4>2. (shown' = pending'.keys /\ silent' = FALSE) \/ (shown' = shown /\ silent' = silent)
        BY DEF EndDispatch
      <4> QED BY <1>1, <4>1, <4>2 DEF TypeOK
    <3> QED BY <1>1, <1>3, <1>7, <2>1, <3>1 DEF TypeOK
  <2>3. Sound(fate, pending.keys, stack, typed, intercepted, nested)'
    <3>1. All(f, p, stack', t) = All(f, p, stack, t)
      BY <1>8, <1>12
    <3>2. ASSUME ~nested
          PROVE  /\ t = 1 /\ Len(stack') <= 1
                 /\ Len(stack') = 1 /\ stack'[1].of \in {"key", "timer"} => p = <<>>
      BY <1>9, <3>2
    <3>3. Sound(f, p, stack', typed, intercepted, nested)
      BY <1>1, <1>2, <1>7, <3>1, <3>2, SoundSame
    <3> QED BY <1>3, <2>1, <3>3 DEF f, p
  <2>4. BoundOnesTimeOut'
    BY <1>3, <2>1 DEF IInv, BoundOnesTimeOut
  <2>5. Told'
    <3>1. CASE Top.of = "key"
      BY <3>1 DEF Told, EndDispatch
    <3>2. CASE Top.of # "key"
      <4>1. UNCHANGED <<shown, silent, pending>>
        BY <2>1, <3>2 DEF EndDispatch
      <4>2. ~(t \in 1..Len(stack) /\ stack[t].of = "key")
        BY <1>4, <3>2
      <4> QED BY <1>2, <1>7, <4>1, <4>2, ToldOnlyAt DEF IInv
    <3> QED BY <3>1, <3>2
  <2> QED BY <1>10, <2>2, <2>3, <2>4, <2>5 DEF IInv
<1> QED BY <1>11, <1>12

\* What is cut into pieces that span the first k keystrokes holds those.
LEMMA CutAll ==
  ASSUME NEW ids \in Seq(Ids), NEW pieces \in SomePieces, NEW k \in 0..Len(ids), Spans(pieces, k)
  PROVE  /\ Cut(ids, pieces) \in Seq(PieceType)
         /\ FlattenSeq(IdsOf(Cut(ids, pieces))) = SubSeq(ids, 1, k)
<1>1. PICK at : IsCut(at, pieces) /\ at[Len(pieces) + 1] = k
  BY DEF Spans
<1>2. k <= Len(ids)
  OBVIOUS
<1> QED BY <1>1, <1>2, CutSound

LEMMA ConstantTypes ==
  ASSUME TypeOK
  PROVE  /\ keymap \in Seq(Binding(Keys))
         /\ \A f \in Focuses \cup {Nobody} : ContextsOf[f] \in ContextStack
BY KeymapsAssumption, ContextsAssumption DEF TypeOK

LEMMA PendingTyped ==
  ASSUME IInv
  PROVE  Range(pending.keys) \subseteq 1..Len(typed)
<1>1. fate \in Seq(Ids) /\ pending.keys \in Seq(Ids)
  BY NoPendingType DEF IInv
<1>2. Range(fate \o pending.keys) = Range(fate) \cup Range(pending.keys)
  BY <1>1, ConcatParts
<1> QED BY <1>2 DEF IInv, Sound, Owned

LEMMA TimeoutKeeps ==
  ASSUME IInv, Timeout
  PROVE  IInv'
<1>1. CASE fate' = fate \o pending.keys /\ silent' = TRUE /\ UNCHANGED <<stack, shown>>
  <2>1. /\ pending' = NoPending /\ focus' \in Focuses \cup {Nobody}
        /\ UNCHANGED <<keymap, typed, intercepted, nested>>
    BY DEF Timeout, IInv, TypeOK
  <2> QED BY <1>1, <2>1, ForgetKeeps
<1> DEFINE ids == pending.keys
           pieces == FlushDispatch(keymap, ContextsOf[focus], KeysOf(ids, typed))
           d == Dispatch("timer", Cut(ids, pieces), <<>>, FALSE)
<1>2. CASE stack' = <<d>> /\ shown' = <<>> /\ silent' = FALSE /\ fate' = fate
  <2>1. /\ stack = <<>> /\ pending' = NoPending
        /\ UNCHANGED <<keymap, focus, typed, intercepted, nested>>
    BY DEF Timeout
  <2>2. TypeOK /\ Sound(fate, ids, stack, typed, intercepted, nested)
    BY DEF IInv
  <2>3. /\ fate \in Seq(Ids) /\ ids \in Seq(Ids) /\ stack \in Seq(DispatchType)
        /\ typed \in Seq(Keys) /\ NoPending.keys = <<>> /\ <<>> \in Seq(Ids)
        /\ focus \in Focuses \cup {Nobody}
    BY <2>2, NoPendingType DEF TypeOK
  <2>4. KeysOf(ids, typed) \in Seq(Keys) /\ Len(KeysOf(ids, typed)) = Len(ids)
    BY <2>3, PendingTyped, KeysOfType
  <2>5. pieces \in SomePieces /\ Spans(pieces, Len(ids))
    <3> DEFINE c == ContextsOf[focus]
               k == KeysOf(ids, typed)
    <3>1. keymap \in Seq(Binding(Keys)) /\ c \in ContextStack
      BY <2>2, <2>3, ConstantTypes
    <3>2. k \in Seq(Keys) /\ Len(k) = Len(ids)
      BY <2>4
    <3> HIDE DEF c, k, ids
    <3>3. /\ FlushDispatch(keymap, c, k) \in SomePieces
          /\ Spans(FlushDispatch(keymap, c, k), Len(k))
      BY <3>1, <3>2, FlushDispatchType
    <3> QED BY <3>2, <3>3 DEF c, k
  <2> HIDE DEF pieces
  <2>6. Cut(ids, pieces) \in Seq(PieceType) /\ FlattenSeq(IdsOf(Cut(ids, pieces))) = ids
    <3>1. Len(ids) \in 0..Len(ids)
      BY <2>3
    <3>2. SubSeq(ids, 1, Len(ids)) = ids
      BY <2>3, SubSeqFull
    <3> HIDE DEF ids
    <3> QED BY <2>3, <2>5, <3>1, <3>2, CutAll
  <2>7. /\ d = [of |-> "timer", pieces |-> Cut(ids, pieces), store |-> <<>>, needs |-> FALSE,
                home |-> focus, user |-> FALSE]
    BY DEF Dispatch
  <2> HIDE DEF d, ids
  <2>8. /\ d \in DispatchType /\ d.of = "timer" /\ d.store = <<>> /\ d.user = FALSE
        /\ d.pieces = Cut(ids, pieces)
    BY <2>3, <2>6, <2>7 DEF DispatchType
  <2>9. WorkOf(d) = ids
    <3>1. WorkOf(d) = FlattenSeq(IdsOf(d.pieces)) \o d.store
      BY DEF WorkOf, IdsOf
    <3>2. ids \o <<>> = ids
      BY <2>3
    <3> QED BY <2>6, <2>8, <3>1, <3>2
  <2>10. /\ stack' = Append(stack, d) /\ Len(stack) = 0 /\ Len(stack) + 1 = 1
    <3>1. Append(<<>>, d) = <<d>>
      OBVIOUS
    <3> QED BY <1>2, <2>1, <3>1
  <2>11. /\ stack' \in Seq(DispatchType) /\ Len(stack') = 1 /\ stack'[1] = d
         /\ OnlyAt(stack, stack', 1)
         /\ WorkAt(stack, 1) = <<>> /\ WorkAt(stack', 1) = ids
    <3>1. /\ stack' \in Seq(DispatchType) /\ Len(stack') = Len(stack) + 1
          /\ stack'[Len(stack) + 1] = d
          /\ OnlyAt(stack, stack', Len(stack) + 1)
          /\ WorkAt(stack, Len(stack) + 1) = <<>> /\ WorkAt(stack', Len(stack) + 1) = WorkOf(d)
      BY <2>2, <2>8, <2>10, Pushed
    <3> QED BY <2>9, <2>10, <3>1
  <2>12. TypeOK'
    BY <1>2, <2>1, <2>2, <2>3, <2>11, NoPendingType DEF TypeOK
  <2>13. Sound(fate, pending.keys, stack, typed, intercepted, nested)'
    <3>1. All(fate, <<>>, stack', 1) = All(fate, ids, stack, 1)
      <4>1. fate \o <<>> = fate /\ (fate \o ids) \o <<>> = fate \o ids
        <5>1. fate \o ids \in Seq(Ids)
          BY <2>3
        <5> QED BY <2>3, <5>1
      <4> QED BY <2>11, <4>1 DEF All
    <3>2. Kind(d, intercepted)
      BY <2>8 DEF Kind
    <3>3. Sound(fate, <<>>, stack', typed, intercepted, nested)
      <4>1. 1 \in 1..Len(stack') => Kind(stack'[1], intercepted)
        BY <2>11, <3>2
      <4>2. Len(stack') <= 1
        BY <2>11
      <4> DEFINE e == <<>>
      <4>3. e \in Seq(Ids) /\ e = <<>> /\ All(fate, e, stack', 1) = All(fate, ids, stack, 1)
        BY <2>3, <3>1
      <4> HIDE DEF e
      <4>4. Sound(fate, e, stack', typed, intercepted, nested)
        BY <2>2, <2>3, <2>11, <4>1, <4>2, <4>3, SoundSame
      <4> QED BY <4>3, <4>4
    <3> QED BY <1>2, <2>1, <2>3, <3>3
  <2>14. BoundOnesTimeOut'
    BY <2>1, <2>3 DEF BoundOnesTimeOut
  <2>15. StoreWaits'
    <3>1. Waits(keymap, typed, d)
      BY <2>8 DEF Waits
    <3> QED BY <2>1, <2>11, <3>1, WaitsOnlyAt DEF IInv
  <2>16. Told'
    BY <1>2, <2>1, <2>3 DEF Told
  <2> QED BY <2>12, <2>13, <2>14, <2>15, <2>16 DEF IInv
<1>3. \/ fate' = fate \o pending.keys /\ silent' = TRUE /\ UNCHANGED <<stack, shown>>
      \/ stack' = <<d>> /\ shown' = <<>> /\ silent' = FALSE /\ fate' = fate
  BY DEF Timeout
<1> QED BY <1>1, <1>2, <1>3

\* The event is handled as text: its piece has no bindings to try.
LEMMA Unbound ==
  ASSUME NEW pieces \in Seq(PieceType), NEW last
  PROVE  /\ [pieces EXCEPT ![last].bindings = <<>>] \in Seq(PieceType)
         /\ IdsOf([pieces EXCEPT ![last].bindings = <<>>]) = IdsOf(pieces)
<1> DEFINE e == [pieces EXCEPT ![last].bindings = <<>>]
<1>1. pieces = [n \in 1..Len(pieces) |-> pieces[n]] /\ Len(pieces) \in Nat
      /\ DOMAIN pieces = 1..Len(pieces)
  OBVIOUS
<1>2. e = [n \in 1..Len(pieces) |->
             IF n = last THEN [pieces[n] EXCEPT !.bindings = <<>>] ELSE pieces[n]]
  BY <1>1
<1>3. ASSUME NEW n \in 1..Len(pieces)
      PROVE  /\ [pieces[n] EXCEPT !.bindings = <<>>] \in PieceType
             /\ [pieces[n] EXCEPT !.bindings = <<>>].ids = pieces[n].ids
             /\ pieces[n] \in PieceType
  <2>1. pieces[n] \in PieceType
    BY <1>1
  <2>2. <<>> \in Seq(Nat)
    OBVIOUS
  <2> QED BY <2>1, <2>2 DEF PieceType
<1> HIDE DEF e
<1>4. e \in Seq(PieceType)
  BY <1>1, <1>2, <1>3
<1>5. DOMAIN e = 1..Len(pieces) /\ \A n \in 1..Len(pieces) : e[n].ids = pieces[n].ids
  BY <1>2, <1>3
<1>6. IdsOf(e) = IdsOf(pieces)
  BY <1>1, <1>5 DEF IdsOf
<1> QED BY <1>4, <1>6 DEF e

\* dispatch_key_event: what was pending and the event are cut into pieces to handle
\* and keystrokes to store, and nothing else.
IsEventCut(ids, home, text) ==
  LET result == DispatchKey(keymap, ContextsOf[home], KeysOf(ids, typed))
      pieces == Cut(ids, result.pieces)
      last   == Len(pieces)
      handled == IF text /\ result.pending = 0
                 THEN [pieces EXCEPT ![last].bindings = <<>>] ELSE pieces
      store  == SubSeq(ids, Len(ids) - result.pending + 1, Len(ids))
  IN  /\ handled \in Seq(PieceType) /\ store \in Seq(Ids) /\ result.bound \in BOOLEAN
      /\ FlattenSeq(IdsOf(handled)) \o store = ids
      /\ store # <<>> /\ Bindings(keymap, ContextsOf[home], KeysOf(store, typed)) # <<>>
           => result.bound

LEMMA EventCut ==
  ASSUME IInv, NEW ids \in Seq(Ids), ids # <<>>, Range(ids) \subseteq 1..Len(typed),
         NEW home \in Focuses \cup {Nobody}, NEW text \in BOOLEAN
  PROVE  IsEventCut(ids, home, text)
<1> DEFINE c == ContextsOf[home]
           k == KeysOf(ids, typed)
           result == DispatchKey(keymap, c, k)
           pieces == Cut(ids, result.pieces)
           last   == Len(pieces)
           handled == IF text /\ result.pending = 0
                      THEN [pieces EXCEPT ![last].bindings = <<>>] ELSE pieces
           store  == SubSeq(ids, Len(ids) - result.pending + 1, Len(ids))
           r == result.pending
<1>1. TypeOK /\ typed \in Seq(Keys) /\ Len(ids) \in Nat \ {0}
  BY NoPendingType DEF IInv
<1>2. keymap \in Seq(Binding(Keys)) /\ c \in ContextStack
  BY <1>1, ConstantTypes
<1>3. k \in Seq(Keys) /\ Len(k) = Len(ids)
  BY <1>1, KeysOfType
<1> HIDE DEF c, k
<1>4. k # <<>>
  BY <1>1, <1>3
<1>5. IsOutcome(keymap, c, k, result, Len(ids))
  BY <1>2, <1>3, <1>4, DispatchKeyType
<1> HIDE DEF result
<1>6. /\ result.pieces \in SomePieces /\ r \in Nat /\ result.bound \in BOOLEAN
      /\ r <= Len(ids) /\ Spans(result.pieces, Len(ids) - r)
      /\ r > 0 => result.bound = (Bindings(keymap, c, SubSeq(k, Len(ids) - r + 1, Len(ids))) # <<>>)
  BY <1>3, <1>5 DEF IsOutcome, Outcome
<1> HIDE DEF r
<1>7. r \in 0..Len(ids) /\ Len(ids) - r \in 0..Len(ids)
  BY <1>1, <1>6
<1>8. pieces \in Seq(PieceType) /\ FlattenSeq(IdsOf(pieces)) = SubSeq(ids, 1, Len(ids) - r)
  BY <1>6, <1>7, CutAll
<1> HIDE DEF pieces
<1>9. handled \in Seq(PieceType) /\ IdsOf(handled) = IdsOf(pieces)
  <2>1. /\ [pieces EXCEPT ![last].bindings = <<>>] \in Seq(PieceType)
        /\ IdsOf([pieces EXCEPT ![last].bindings = <<>>]) = IdsOf(pieces)
    BY <1>8, Unbound
  <2> QED BY <1>8, <2>1
<1> HIDE DEF handled, last
<1>10. /\ store = SubSeq(ids, Len(ids) - r + 1, Len(ids))
       /\ store \in Seq(Ids) /\ Len(store) = r
       /\ SubSeq(ids, 1, Len(ids) - r) \o store = ids
  BY <1>7, Halves DEF r
<1> HIDE DEF store
<1>11. FlattenSeq(IdsOf(handled)) \o store = ids
  BY <1>8, <1>9, <1>10
<1>12. ASSUME store # <<>>, Bindings(keymap, c, KeysOf(store, typed)) # <<>>
       PROVE  result.bound
  <2>1. r > 0
    BY <1>6, <1>10, <1>12
  <2>2. KeysOf(store, typed) = SubSeq(k, Len(ids) - r + 1, Len(ids))
    BY <1>1, <1>7, <1>10, KeysOfSubSeq DEF k
  <2> QED BY <1>6, <1>12, <2>1, <2>2
<1> QED BY <1>6, <1>9, <1>10, <1>11, <1>12 DEF IsEventCut, c, k, result, pieces, last, handled, store

LEMMA DispatchEventKeeps ==
  ASSUME IInv, NEW text \in BOOLEAN, DispatchEvent(text)
  PROVE  IInv'
<1> DEFINE t == Len(stack)
           f == fate
           p == pending.keys
           sp == StillPending
           ids == sp.keys \o Top.pieces[1].ids
           result == DispatchKey(keymap, ContextsOf[Top.home], KeysOf(ids, typed))
           pieces == Cut(ids, result.pieces)
           last   == Len(pieces)
           handled == IF text /\ result.pending = 0
                      THEN [pieces EXCEPT ![last].bindings = <<>>] ELSE pieces
           store  == SubSeq(ids, Len(ids) - result.pending + 1, Len(ids))
           needs  == sp.needs \/ result.bound
           d == [Top EXCEPT !.of = "key", !.user = FALSE, !.pieces = handled, !.store = store,
                            !.needs = needs]
<1>1. TypeOK /\ Sound(f, p, stack, typed, intercepted, nested)
  BY DEF IInv
<1>2. /\ f \in Seq(Ids) /\ p \in Seq(Ids) /\ stack \in Seq(DispatchType)
      /\ typed \in Seq(Keys) /\ <<>> \in Seq(Ids) /\ NoPending.keys = <<>>
      /\ pending.needs \in BOOLEAN
  BY <1>1, NoPendingType DEF TypeOK
<1>3. /\ stack # <<>> /\ Top.of = "interceptor" /\ pending' = NoPending
      /\ fate' = (IF sp = pending THEN fate ELSE fate \o p)
      /\ Replace(d)
      /\ UNCHANGED <<keymap, focus, typed, intercepted, nested, shown, silent>>
  BY DEF DispatchEvent
<1>4. /\ Top \in DispatchType /\ Top = stack[t] /\ t \in Nat \ {0} /\ t \in 1..t
      /\ WorkAt(stack, t) = WorkOf(Top)
  BY <1>1, <1>3, TopIs
<1>5. PICK id \in Ids : Top.pieces = <<[ids |-> <<id>>, bindings |-> <<>>]>>
  <2>1. Kind(Top, intercepted)
    BY <1>1, <1>4 DEF Sound
  <2>2. Top.pieces # <<>>
    BY <1>3, <2>1 DEF Kind
  <2> QED BY <1>3, <2>1, <2>2 DEF Kind
<1>6. Top.store = <<>>
  <2>1. Kind(Top, intercepted)
    BY <1>1, <1>4 DEF Sound
  <2> QED BY <1>3, <2>1 DEF Kind
<1>7. /\ sp = NoPending \/ sp = pending
      /\ sp.keys \in Seq(Ids) /\ sp.needs \in BOOLEAN
  <2>1. sp = NoPending \/ sp = pending
    BY DEF StillPending
  <2>2. NoPending.needs = FALSE
    BY DEF NoPending
  <2> QED BY <1>2, <2>1, <2>2
<1> HIDE DEF sp
<1>8. Top.pieces[1].ids = <<id>> /\ <<id>> \in Seq(Ids) /\ Range(<<id>>) = {id}
  <2>1. Top.pieces[1].ids = <<id>>
    BY <1>5
  <2>2. Range(<<id>>) = {id}
    BY DEF Range
  <2> QED BY <2>1, <2>2
<1>9. WorkOf(Top) = <<id>>
  <2> DEFINE e == [pieces |-> <<>>, store |-> <<>>]
  <2>1. e.pieces = <<>> /\ e.store = <<>>
    OBVIOUS
  <2> HIDE DEF e
  <2>2. Tail(Top.pieces) = <<>> /\ Head(Top.pieces).ids = <<id>> /\ Top.pieces # <<>>
    BY <1>5
  <2>3. WorkOf(Top) = <<id>> \o WorkOf(e)
    <3>1. Top.pieces \in Seq(PieceType) /\ Top.store \in Seq(Ids)
      BY <1>4 DEF DispatchType
    <3> QED BY <1>6, <2>1, <2>2, <3>1, WorkFirst
  <2>4. WorkOf(e) = <<>>
    BY <1>2, <2>1, WorkNone
  <2>5. <<id>> \o <<>> = <<id>>
    BY <1>8
  <2> QED BY <2>3, <2>4, <2>5
<1>10. ids = sp.keys \o <<id>> /\ ids \in Seq(Ids) /\ ids # <<>>
  <2>1. ids = sp.keys \o <<id>>
    BY <1>8
  <2>2. sp.keys \o <<id>> \in Seq(Ids) /\ sp.keys \o <<id>> # <<>>
    BY <1>7, <1>8
  <2> QED BY <2>1, <2>2
<1>11. Range(ids) \subseteq 1..Len(typed)
  <2>1. Range(sp.keys) \subseteq 1..Len(typed)
    <3>1. Range(<<>>) = {}
      BY DEF Range
    <3> QED BY <1>2, <1>7, <3>1, PendingTyped
  <2>2. id \in 1..Len(typed)
    <3>1. Range(WorkAt(stack, t)) \subseteq 1..Len(typed)
      BY <1>1, <1>4 DEF Sound, Owned
    <3> QED BY <1>4, <1>8, <1>9, <3>1
  <2>3. Range(sp.keys \o <<id>>) = Range(sp.keys) \cup Range(<<id>>)
    BY <1>7, <1>8, ConcatParts
  <2> QED BY <1>8, <1>10, <2>1, <2>2, <2>3
<1> HIDE DEF ids
<1>12. Top.home \in Focuses \cup {Nobody}
  BY <1>4 DEF DispatchType
<1>13. /\ handled \in Seq(PieceType) /\ store \in Seq(Ids) /\ result.bound \in BOOLEAN
       /\ FlattenSeq(IdsOf(handled)) \o store = ids
       /\ store # <<>> /\ Bindings(keymap, ContextsOf[Top.home], KeysOf(store, typed)) # <<>>
            => result.bound
  <2>1. IsEventCut(ids, Top.home, text)
    BY <1>10, <1>11, <1>12, EventCut
  <2> QED BY <2>1 DEF IsEventCut
<1> HIDE DEF handled, store, result, pieces, last
<1>14. needs \in BOOLEAN /\ (result.bound => needs)
  BY <1>7, <1>13
<1> HIDE DEF needs
<1>15. /\ d \in DispatchType /\ d.of = "key" /\ d.user = FALSE /\ d.pieces = handled
       /\ d.store = store /\ d.needs = needs /\ d.home = Top.home
  BY <1>4, <1>13, <1>14 DEF DispatchType
<1> HIDE DEF d
<1>16. WorkOf(d) = ids
  <2>1. WorkOf(d) = FlattenSeq(IdsOf(d.pieces)) \o d.store
    BY DEF WorkOf, IdsOf
  <2> QED BY <1>13, <1>15, <2>1
<1>17. /\ stack' \in Seq(DispatchType) /\ Len(stack') = t /\ stack'[t] = d
       /\ OnlyAt(stack, stack', t) /\ WorkAt(stack', t) = ids
  BY <1>1, <1>3, <1>15, <1>16, Replaced
<1> HIDE DEF t, f, p
<1>18. fate' \in Seq(Ids) /\ All(fate', <<>>, stack', t) = All(f, p, stack, t)
  <2>1. All(f, p, stack, t) = (f \o p) \o <<id>> /\ All(fate', <<>>, stack', t) = (fate' \o <<>>) \o ids
    BY <1>4, <1>9, <1>17 DEF All
  <2>2. /\ f \o p \in Seq(Ids) /\ f \o <<>> = f /\ (f \o p) \o <<>> = f \o p
        /\ <<>> \o <<id>> = <<id>>
    <3>1. f \o p \in Seq(Ids)
      BY <1>2
    <3> QED BY <1>2, <1>8, <3>1
  <2>3. (f \o p) \o <<id>> = f \o (p \o <<id>>)
    <3>1. <<id>> \in Seq(Ids)
      BY <1>8
    <3> QED BY <1>2, <3>1, ConcatThree
  <2>4. CASE sp = pending
    <3>1. fate' = f /\ ids = p \o <<id>>
      BY <1>3, <1>10, <2>4 DEF f, p
    <3> QED BY <1>2, <2>1, <2>2, <2>3, <3>1
  <2>5. CASE sp # pending
    <3>1. fate' = f \o p /\ ids = <<>> \o <<id>>
      BY <1>2, <1>3, <1>7, <1>10, <2>5 DEF f, p
    <3> QED BY <2>1, <2>2, <3>1
  <2> QED BY <2>4, <2>5
<1>19. TypeOK'
  BY <1>1, <1>3, <1>17, <1>18, NoPendingType DEF TypeOK
<1>20. Sound(fate, pending.keys, stack, typed, intercepted, nested)'
  <2>1. Kind(d, intercepted)
    BY <1>15 DEF Kind
  <2>2. t \in 1..Len(stack') => Kind(stack'[t], intercepted)
    BY <1>17, <2>1
  <2>3. ~nested => t = 1 /\ Len(stack') <= 1
    <3>1. ~nested => Len(stack) <= 1
      BY <1>1 DEF Sound, Alone
    <3>2. ~nested => t \in Nat \ {0} /\ t <= 1
      BY <1>4, <3>1 DEF t
    <3>3. ~nested => t = 1
      BY <3>2
    <3> QED BY <1>17, <3>3
  <2> DEFINE e == <<>>
  <2>4. e \in Seq(Ids) /\ e = <<>> /\ All(fate', e, stack', t) = All(f, p, stack, t)
    BY <1>18
  <2> HIDE DEF e
  <2>5. Sound(fate', e, stack', typed, intercepted, nested)
    BY <1>1, <1>2, <1>17, <1>18, <2>2, <2>3, <2>4, SoundSame
  <2> QED BY <1>2, <1>3, <2>4, <2>5
<1>21. BoundOnesTimeOut'
  BY <1>2, <1>3 DEF BoundOnesTimeOut
<1>22. StoreWaits'
  <2>1. Waits(keymap, typed, d)
    BY <1>13, <1>14, <1>15 DEF Waits
  <2> QED BY <1>3, <1>17, <2>1, WaitsOnlyAt DEF IInv
<1>23. Told'
  <2>1. t \in 1..Len(stack') /\ stack'[t].of = "key"
    BY <1>4, <1>15, <1>17
  <2> QED BY <2>1 DEF Told
<1> QED BY <1>19, <1>20, <1>21, <1>22, <1>23 DEF IInv

-----------------------------------------------------------------------------
(* The theorems.                                                           *)

LEMMA IInvInit == Init => IInv
<1> SUFFICES ASSUME Init PROVE IInv
  OBVIOUS
<1>1. /\ keymap \in Keymaps /\ focus = Nobody /\ pending = NoPending /\ stack = <<>> /\ typed = <<>>
      /\ fate = <<>> /\ intercepted = {} /\ nested = FALSE /\ shown = <<>> /\ silent = FALSE
      /\ NoPending.keys = <<>>
  BY DEF Init, NoPending
<1>2. Len(stack) = 0 /\ Len(typed) = 0 /\ stack \in Seq(DispatchType) /\ fate \in Seq(Ids)
      /\ typed \in Seq(Keys)
  BY <1>1
<1>3. TypeOK
  BY <1>1, <1>2 DEF TypeOK, NoPending
<1>4. Sound(fate, pending.keys, stack, typed, intercepted, nested)
  <2>1. \A n : WorkAt(stack, n) = <<>>
    BY <1>2 DEF WorkAt
  <2>2. fate \o pending.keys = <<>>
    BY <1>1
  <2>3. IsInjective(<<>>) /\ Range(<<>>) = {}
    BY DEF IsInjective, Range
  <2>4. Owned(fate, pending.keys, stack, Len(typed))
    BY <2>1, <2>2, <2>3 DEF Owned
  <2>5. All(fate, pending.keys, stack, 1) = <<>>
    BY <2>1, <2>2 DEF All
  <2>6. InOrder(<<>>, typed, intercepted)
    BY <1>1 DEF InOrder
  <2>7. Alone(fate, pending.keys, stack, typed, intercepted)
    BY <1>2, <2>5, <2>6 DEF Alone
  <2> QED BY <1>2, <2>4, <2>7, BoundsAssumption DEF Sound
<1>5. BoundOnesTimeOut /\ StoreWaits /\ Told
  BY <1>1, <1>2 DEF BoundOnesTimeOut, StoreWaits, Told
<1> QED BY <1>3, <1>4, <1>5 DEF IInv

LEMMA IInvNext == IInv /\ [Next]_vars => IInv'
<1> SUFFICES ASSUME IInv, [Next]_vars PROVE IInv'
  OBVIOUS
<1>1. ASSUME NEW f \in Focuses, Focus(f) PROVE IInv'
  BY <1>1, FocusKeeps
<1>2. CASE Blur
  BY <1>2, BlurKeeps DEF Blur
<1>3. CASE OpenMenu
  BY <1>3, OpenMenuKeeps
<1>4. ASSUME NEW key \in Keys, TypeKey(key) PROVE IInv'
  BY <1>4, TypeKeyKeeps
<1>5. CASE Intercept
  BY <1>5, InterceptKeeps
<1>6. ASSUME NEW text \in BOOLEAN, DispatchEvent(text) PROVE IInv'
  BY <1>6, DispatchEventKeeps
<1>7. CASE Try
  BY <1>7, TryKeeps
<1>8. ASSUME NEW handled \in BOOLEAN, Tried(handled) PROVE IInv'
  BY <1>8, TriedKeeps
<1>9. ASSUME NEW text \in BOOLEAN, EndDispatch(text) PROVE IInv'
  BY <1>9, EndDispatchKeeps
<1>10. CASE Timeout
  BY <1>10, TimeoutKeeps
<1>11. CASE UNCHANGED vars
  <2>1. focus' \in Focuses \cup {Nobody}
    BY <1>11 DEF IInv, TypeOK, vars
  <2> QED BY <1>11, <2>1, BlurKeeps DEF vars
<1> QED BY <1>1, <1>2, <1>3, <1>4, <1>5, <1>6, <1>7, <1>8, <1>9, <1>10, <1>11 DEF Next

LEMMA OrderFollows == IInv => InTypedOrder
<1> SUFFICES ASSUME IInv, ~nested
             PROVE  InOrder(fate \o pending.keys \o Work, typed, intercepted)
  BY DEF InTypedOrder, InOrder
<1>1. stack \in Seq(DispatchType) /\ Alone(fate, pending.keys, stack, typed, intercepted)
  BY DEF IInv, TypeOK, Sound
<1>2. Work = WorkAt(stack, 1)
  BY <1>1, WorkOfOne DEF Work, Alone
<1> QED BY <1>1, <1>2 DEF Alone, All

LEMMA OnceFollows == IInv => NeverTwice
<1> SUFFICES ASSUME IInv PROVE NeverTwice
  OBVIOUS
<1> DEFINE w == [n \in DOMAIN stack |-> WorkOf(stack[n])]
           a == fate \o pending.keys
<1>1. /\ stack \in Seq(DispatchType) /\ fate \in Seq(Ids) /\ pending.keys \in Seq(Ids)
      /\ a \in Seq(Ids) /\ Owned(fate, pending.keys, stack, Len(typed))
  BY NoPendingType DEF IInv, Sound
<1>2. Len(stack) \in Nat /\ DOMAIN stack = 1..Len(stack)
  BY <1>1
<1>3. w = [n \in 1..Len(stack) |-> WorkAt(stack, n)]
  BY <1>2 DEF WorkAt
<1>4. w \in Seq(Seq(Ids)) /\ Len(w) = Len(stack)
  <2>1. \A n \in 1..Len(stack) : WorkAt(stack, n) \in Seq(Ids)
    BY <1>1, WorkAtType
  <2> HIDE DEF w
  <2> QED BY <1>2, <1>3, <2>1
<1>5. \A n \in 1..Len(w) : w[n] = WorkAt(stack, n)
  <2> HIDE DEF w
  <2> QED BY <1>3, <1>4
<1> HIDE DEF w, a
<1>6. /\ IsInjective(a)
      /\ \A n \in 1..Len(w) : IsInjective(w[n]) /\ Range(w[n]) \cap Range(a) = {}
      /\ \A m, n \in 1..Len(w) : m # n => Range(w[m]) \cap Range(w[n]) = {}
  <2>1. \A n \in 1..Len(w) : n \in Nat
    OBVIOUS
  <2> QED BY <1>1, <1>5, <2>1 DEF Owned, a
<1>7. /\ FlattenSeq(w) \in Seq(Ids) /\ IsInjective(FlattenSeq(w))
      /\ \A x \in Range(FlattenSeq(w)) : \E n \in 1..Len(w) : x \in Range(w[n])
  BY <1>4, <1>6, FlattenParted
<1>8. Range(a) \cap Range(FlattenSeq(w)) = {}
  BY <1>6, <1>7
<1>9. IsInjective(a \o FlattenSeq(w))
  <2> DEFINE b == FlattenSeq(w)
  <2>1. b \in Seq(Ids) /\ IsInjective(b) /\ Range(a) \cap Range(b) = {}
    BY <1>7, <1>8
  <2> HIDE DEF b
  <2>2. IsInjective(a \o b)
    BY <1>1, <1>6, <2>1, ConcatParts
  <2> QED BY <2>2 DEF b
<1> QED BY <1>9 DEF NeverTwice, Work, w, a

LEMMA Invariant == Spec => []IInv
BY IInvInit, IInvNext, PTL DEF Spec

\* Keystrokes are neither lost, repeated nor overtaken, whatever the keymap and the
\* contexts are and however often keystrokes are pending, replayed, timed out or
\* cleared; and without pending ones there is no timer left (dispatch_key_event,
\* replay_pending_input, Window::focus, clear_pending_keystrokes).
THEOREM KeystrokesDealtWith == Spec => []KeysDealtWith
<1>1. IInv => KeysDealtWith
  BY OrderFollows, OnceFollows DEF KeysDealtWith, IInv
<1> QED BY <1>1, Invariant, PTL

\* Pending keystrokes that are a binding where they were typed have a timer:
\* dispatch_key_event carries needs from what was pending to what is stored.
THEOREM BoundKeystrokesTimeOut == Spec => []BoundOnesTimeOut
<1>1. IInv => BoundOnesTimeOut
  BY DEF IInv
<1> QED BY <1>1, Invariant, PTL

\* pending_input_changed: once no dispatch runs, the observers have seen what is
\* pending, unless a change of the focus or a menu cleared it since.
THEOREM ObserversSawPending == Spec => []ShownIsPending
<1>1. IInv => ShownIsPending
  <2> SUFFICES ASSUME IInv, stack = <<>>, ~silent PROVE shown = pending.keys
    BY DEF ShownIsPending
  <2>1. 1..Len(stack) = {}
    OBVIOUS
  <2> QED BY <2>1 DEF IInv, Told
<1> QED BY <1>1, Invariant, PTL
===============================================================================
