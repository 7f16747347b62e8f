------------------------------- MODULE InOrder -------------------------------
(***************************************************************************)
(* The laws of FoldLeft for one operation: what a loop over a list has     *)
(* after none and after one more of its elements.  A module that folds     *)
(* with an operation of its own takes an instance of this one.             *)
(***************************************************************************)
EXTENDS Integers, SequencesExt, SequenceTheorems, NaturalsInduction, WellFoundedInduction, TLAPS

CONSTANTS Op(_, _), Base

Fold(s) == FoldLeft(Op, Base, s)

\* The less-than relation of the naturals, as a set, is well founded.
LEMMA NatOrder == \E R : IsWellFoundedOn(R, Nat) /\ \A x, y \in Nat : <<x, y>> \in R <=> x < y
  <1> DEFINE R == OpToRel(<, Nat)
  <1>1. \A x, y \in Nat : <<x, y>> \in R <=> x < y
    BY Zenon DEF OpToRel
  <1>2. IsWellFoundedOn(R, Nat)
    BY NatLessThanWellFounded
  <1> HIDE DEF R
  <1> QED
    BY <1>1, <1>2

\* A set of naturals has a least element.
LEMMA FirstOf ==
    ASSUME NEW S \in SUBSET Nat, S # {}
    PROVE  \E n \in S : \A m \in S : n <= m
  <1>1. PICK R : IsWellFoundedOn(R, Nat) /\ \A x, y \in Nat : <<x, y>> \in R <=> x < y
    BY NatOrder
  <1>2. \E x \in S : \A y \in S : ~(<<y, x>> \in R)
    <2>1. S \subseteq Nat /\ S # {}
      OBVIOUS
    <2>2. IsWellFoundedOn(R, Nat)
      BY <1>1
    <2> HIDE <1>1
    <2> QED
      BY <2>1, <2>2, WFMin
  <1>3. \E x \in S : \A y \in S : ~(y < x)
    BY <1>1, <1>2, Zenon
  <1> QED
    BY <1>3

\* A set of positions has a last one.
LEMMA MaxIsLast ==
    ASSUME NEW n \in Nat, NEW T \in SUBSET (1 .. n), T # {}
    PROVE  Max(T) \in T /\ \A y \in T : y <= Max(T)
  <1> DEFINE S == {n - y : y \in T}
  <1>1. S \in SUBSET Nat /\ S # {}
    OBVIOUS
  <1>2. PICK m \in S : \A k \in S : m <= k
    <2> HIDE DEF S
    <2> QED
      BY <1>1, FirstOf
  <1>3. \E x \in T : \A y \in T : x >= y
    <2>1. PICK x \in T : m = n - x
      OBVIOUS
    <2>2. \A y \in T : m <= n - y
      BY <1>2
    <2> QED
      BY <2>1, <2>2
  <1>4. Max(T) \in T /\ \A y \in T : Max(T) >= y
    BY <1>3 DEF Max
  <1> QED
    BY <1>4

-----------------------------------------------------------------------------

\* f says what the fold makes of the elements of s at any of the first n positions.
IsRun(s, n, f) ==
    f = [T \in SUBSET (1 .. n) |->
            IF T = {} THEN Base ELSE Op(f[T \ {Max(T)}], s[Max(T)])]

LEMMA RunExists == \A s : \A n \in Nat : \E f : IsRun(s, n, f)
  <1> SUFFICES ASSUME NEW s, NEW some \in Nat, ~ \E f : IsRun(s, some, f) PROVE FALSE
    OBVIOUS
  <1> DEFINE without == {n \in Nat : ~ \E f : IsRun(s, n, f)}
  <1>1. PICK m \in without : \A k \in without : m <= k
    <2>1. without \in SUBSET Nat /\ without # {}
      OBVIOUS
    <2> HIDE DEF without
    <2> QED
      BY <2>1, FirstOf
  <1>2. m # 0
    <2> SUFFICES ASSUME m = 0 PROVE \E f : IsRun(s, 0, f)
      OBVIOUS
    <2> DEFINE f == [T \in SUBSET (1 .. 0) |-> Base]
    <2>1. \A T \in SUBSET (1 .. 0) : T = {}
      OBVIOUS
    <2>2. f = [T \in SUBSET (1 .. 0) |->
                  IF T = {} THEN Base ELSE Op(f[T \ {Max(T)}], s[Max(T)])]
      BY <2>1
    <2> HIDE DEF f
    <2> QED
      BY <2>2 DEF IsRun
  <1>3. PICK g : IsRun(s, m - 1, g)
    <2>1. m - 1 \in Nat /\ m - 1 \notin without
      BY <1>1, <1>2
    <2> QED
      BY <2>1
  <1> DEFINE h == [T \in SUBSET (1 .. m) |-> IF m \in T THEN Op(g[T \ {m}], s[m]) ELSE g[T]]
  <1>4. \A T \in SUBSET (1 .. m - 1) :
           g[T] = IF T = {} THEN Base ELSE Op(g[T \ {Max(T)}], s[Max(T)])
    BY <1>3, Zenon DEF IsRun
  <1>5. ASSUME NEW T \in SUBSET (1 .. m)
        PROVE  h[T] = IF T = {} THEN Base ELSE Op(h[T \ {Max(T)}], s[Max(T)])
    <2>1. CASE m \in T
      <3>1. Max(T) = m
        <4>1. Max(T) \in T /\ \A y \in T : y <= Max(T)
          BY <2>1, MaxIsLast
        <4>2. Max(T) \in 1 .. m /\ m <= Max(T)
          BY <2>1, <4>1
        <4> QED
          BY <4>2
      <3>2. T \ {m} \in SUBSET (1 .. m) /\ m \notin T \ {m}
        OBVIOUS
      <3>3. h[T \ {m}] = g[T \ {m}]
        BY <3>2
      <3>4. h[T] = Op(g[T \ {m}], s[m])
        BY <2>1
      <3> HIDE DEF h
      <3> QED
        BY <2>1, <3>1, <3>3, <3>4
    <2>2. CASE m \notin T /\ T # {}
      <3>1. T \in SUBSET (1 .. m - 1) /\ m - 1 \in Nat
        BY <1>2, <2>2
      <3>2. T \ {Max(T)} \in SUBSET (1 .. m) /\ m \notin T \ {Max(T)}
        BY <2>2
      <3>3. h[T \ {Max(T)}] = g[T \ {Max(T)}]
        BY <3>2
      <3>4. h[T] = g[T]
        BY <2>2
      <3> HIDE DEF h
      <3> QED
        BY <1>4, <2>2, <3>1, <3>3, <3>4
    <2>3. CASE T = {}
      <3>1. T \in SUBSET (1 .. m - 1) /\ h[T] = g[T]
        BY <2>3
      <3> HIDE DEF h
      <3> QED
        BY <1>4, <2>3, <3>1
    <2> QED
      BY <2>1, <2>2, <2>3
  <1>6. h = [T \in SUBSET (1 .. m) |->
                IF T = {} THEN Base ELSE Op(h[T \ {Max(T)}], s[Max(T)])]
    <2>1. h = [T \in SUBSET (1 .. m) |-> h[T]]
      OBVIOUS
    <2> HIDE DEF h
    <2> QED
      BY <1>5, <2>1
  <1> HIDE DEF h
  <1> QED
    BY <1>1, <1>6 DEF IsRun

LEMMA RunsAgree ==
    ASSUME NEW s, NEW r, NEW n \in Nat, NEW k \in Nat, n <= k, \A i \in 1 .. n : s[i] = r[i],
           NEW f, IsRun(s, n, f), NEW g, IsRun(r, k, g)
    PROVE  f[1 .. n] = g[1 .. n]
  <1> DEFINE differ == {j \in 0 .. n : \E T \in SUBSET (1 .. j) : f[T] # g[T]}
  <1>1. ASSUME differ # {} PROVE FALSE
    <2>1. PICK m \in differ : \A j \in differ : m <= j
      <3>1. differ \in SUBSET Nat
        OBVIOUS
      <3> HIDE DEF differ
      <3> QED
        BY <1>1, <3>1, FirstOf
    <2>2. PICK T \in SUBSET (1 .. m) : f[T] # g[T]
      OBVIOUS
    <2>3. T \in SUBSET (1 .. n) /\ T \in SUBSET (1 .. k)
      BY <2>2
    <2>4. /\ f[T] = IF T = {} THEN Base ELSE Op(f[T \ {Max(T)}], s[Max(T)])
          /\ g[T] = IF T = {} THEN Base ELSE Op(g[T \ {Max(T)}], r[Max(T)])
      <3>1. \A U \in SUBSET (1 .. n) :
               f[U] = IF U = {} THEN Base ELSE Op(f[U \ {Max(U)}], s[Max(U)])
        BY Zenon DEF IsRun
      <3>2. \A U \in SUBSET (1 .. k) :
               g[U] = IF U = {} THEN Base ELSE Op(g[U \ {Max(U)}], r[Max(U)])
        BY Zenon DEF IsRun
      <3> QED
        BY <2>3, <3>1, <3>2
    <2>5. T # {}
      BY <2>2, <2>4
    <2>6. Max(T) \in T /\ \A y \in T : y <= Max(T)
      BY <2>3, <2>5, MaxIsLast
    <2>7. s[Max(T)] = r[Max(T)]
      BY <2>3, <2>6
    <2> DEFINE last == Max(T)
    <2>8. last \in T /\ \A y \in T : y <= last
      BY <2>6
    <2> HIDE DEF last
    <2>9. m \in 0 .. n /\ last \in 1 .. m
      BY <2>1, <2>8
    <2>10. last - 1 \in 0 .. n /\ last - 1 < m
      BY <2>9
    <2>11. T \ {last} \in SUBSET (1 .. last - 1)
      BY <2>8, <2>9
    <2>12. last - 1 \notin differ
      <3> HIDE DEF differ
      <3>1. m \in Nat /\ last \in Nat /\ \A j \in differ : m <= j
        BY <2>1, <2>9
      <3> QED
        BY <2>10, <3>1
    <2>13. f[T \ {last}] = g[T \ {last}]
      BY <2>10, <2>11, <2>12
    <2> QED
      BY <2>2, <2>4, <2>5, <2>7, <2>13 DEF last
  <1>2. n \notin differ
    BY <1>1, Zenon
  <1> QED
    BY <1>2

LEMMA FoldIsRun ==
    ASSUME NEW s, NEW n \in Nat, DOMAIN s = 1 .. n
    PROVE  \E f : IsRun(s, n, f) /\ Fold(s) = f[1 .. n]
  <1> DEFINE f == CHOOSE iter : iter = [T \in SUBSET (1 .. n) |->
                     IF T = {} THEN Base ELSE Op(iter[T \ {Max(T)}], s[Max(T)])]
  <1>1. IsRun(s, n, f)
    BY RunExists, Zenon DEF IsRun
  <1>2. Fold(s) = f[1 .. n]
    BY Zenon DEF Fold, FoldLeft, MapThenFoldSet
  <1> HIDE DEF f
  <1> QED
    BY <1>1, <1>2

-----------------------------------------------------------------------------

\* After no element.
LEMMA FoldEmpty == Fold(<<>>) = Base
  <1>1. DOMAIN <<>> = 1 .. 0
    OBVIOUS
  <1>2. PICK f : IsRun(<<>>, 0, f) /\ Fold(<<>>) = f[1 .. 0]
    BY <1>1, FoldIsRun
  <1>3. 1 .. 0 = {} /\ 1 .. 0 \in SUBSET (1 .. 0)
    OBVIOUS
  <1> QED
    BY <1>2, <1>3, Zenon DEF IsRun

\* After one more.
THEOREM FoldAppend ==
    ASSUME NEW S, NEW s \in Seq(S), NEW x
    PROVE  Fold(Append(s, x)) = Op(Fold(s), x)
  <1> DEFINE n == Len(s)
             r == Append(s, x)
  <1>1. n \in Nat /\ DOMAIN s = 1 .. n /\ DOMAIN r = 1 .. n + 1 /\ n + 1 \in Nat
    OBVIOUS
  <1>2. r[n + 1] = x /\ \A i \in 1 .. n : s[i] = r[i]
    OBVIOUS
  <1> HIDE DEF n, r
  <1>3. PICK f : IsRun(s, n, f) /\ Fold(s) = f[1 .. n]
    BY <1>1, FoldIsRun
  <1>4. PICK g : IsRun(r, n + 1, g) /\ Fold(r) = g[1 .. n + 1]
    BY <1>1, FoldIsRun
  <1>5. f[1 .. n] = g[1 .. n]
    BY <1>1, <1>2, <1>3, <1>4, RunsAgree
  <1> DEFINE T == 1 .. n + 1
  <1>6. T # {} /\ T \in SUBSET (1 .. n + 1)
    BY <1>1
  <1>7. Max(T) = n + 1
    <2>1. Max(T) \in T /\ \A y \in T : y <= Max(T)
      BY <1>1, <1>6, MaxIsLast
    <2> QED
      BY <1>1, <2>1
  <1>8. T \ {n + 1} = 1 .. n
    BY <1>1
  <1> HIDE DEF T
  <1>9. g[T] = Op(g[T \ {Max(T)}], r[Max(T)])
    BY <1>4, <1>6, Zenon DEF IsRun
  <1>10. g[T] = Op(f[1 .. n], x)
    BY <1>2, <1>5, <1>7, <1>8, <1>9
  <1> QED
    BY <1>3, <1>4, <1>10 DEF r, T

=============================================================================
