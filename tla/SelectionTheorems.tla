-------------------------- MODULE SelectionTheorems --------------------------
(***************************************************************************)
(* What Selected returns, for every sequence: the elements wanted, all of  *)
(* them, in their order.  It is a recursive function, so it has to be      *)
(* shown to exist first, and both are shown by induction up to the length  *)
(* of the sequence, over a set instead of a predicate.                     *)
(***************************************************************************)
EXTENDS Selections, SequencesExt, SequenceTheorems, WellFoundedInduction, TLAPS

(***************************************************************************)
(* Every set of naturals that is not empty has a least element.            *)
(***************************************************************************)
LEMMA LeastOf ==
  ASSUME NEW T, T \subseteq Nat, T # {}
  PROVE  \E m \in T : \A k \in T : m <= k
<1>1. IsWellFoundedOn(OpToRel(<, Nat), Nat)
  BY NatLessThanWellFounded
<1>2. PICK m \in T : \A k \in T : ~(<<k, m>> \in OpToRel(<, Nat))
  BY <1>1, WFMin, Zenon
<1>3. \A k \in T : ~(k < m)
  BY <1>2 DEF OpToRel
<1> QED
  BY <1>3

\* Every set of naturals up to a bound that is not empty has a greatest element.
LEMMA GreatestOf ==
  ASSUME NEW n \in Nat, NEW T, T \subseteq 0 .. n, T # {}
  PROVE  \E m \in T : \A k \in T : k <= m
<1> DEFINE U == {n - k : k \in T}
<1>1. U \subseteq Nat /\ U # {}
  <2>1. \A k \in T : n - k \in Nat
    OBVIOUS
  <2> QED
    BY <2>1
<1> HIDE DEF U
<1>2. PICK m \in U : \A k \in U : m <= k
  BY <1>1, LeastOf
<1>3. PICK q \in T : m = n - q
  BY <1>2 DEF U
<1>4. \A k \in T : n - k \in U
  BY DEF U
<1>5. \A k \in T : m <= n - k
  BY <1>2, <1>4
<1>6. \A k \in T : k \in Int
  OBVIOUS
<1>7. \A k \in T : k <= q
  BY <1>3, <1>5, <1>6
<1> QED
  BY <1>7

(***************************************************************************)
(* Induction up to a bound, for a set: it holds every number up to n that  *)
(* holds zero, and the successor of every number it holds.                 *)
(***************************************************************************)
LEMMA UpTo ==
  ASSUME NEW n \in Nat, NEW P, 0 \in P,
         \A i \in 1 .. n : i - 1 \in P => i \in P
  PROVE  \A i \in 0 .. n : i \in P
<1> DEFINE T == {i \in 0 .. n : i \notin P}
<1>1. CASE T = {}
  BY <1>1
<1>2. CASE T # {}
  <2> HIDE DEF T
  <2>0. T \subseteq Nat
    BY DEF T
  <2>1. PICK m \in T : \A k \in T : m <= k
    BY <1>2, <2>0, LeastOf
  <2>2. m \in 1 .. n /\ m \notin P /\ m - 1 \in 0 .. n
    BY <2>1 DEF T
  <2>3. m - 1 \notin T
    BY <2>1, <2>2
  <2> QED
    BY <2>2, <2>3 DEF T
<1> QED
  BY <1>1, <1>2

\* A sequence that is not empty has a last element.
LEMMA LastIsThere ==
  ASSUME NEW S, NEW s \in Seq(S), s # << >>
  PROVE  /\ DOMAIN s = 1 .. Len(s) /\ Len(s) \in Nat
         /\ Len(s) \in 1 .. Len(s) /\ s[Len(s)] \in S
  OBVIOUS

(***************************************************************************)
(* A function on 0 .. n starts at a and follows step.                      *)
(***************************************************************************)
HasRun(n, A, a, step) ==
  \E g \in [0 .. n -> A] : g[0] = a /\ \A i \in 1 .. n : g[i] = step[i][g[i - 1]]

(***************************************************************************)
(* There is one for every step, which is what makes a recursive function   *)
(* well defined.                                                           *)
(***************************************************************************)
LEMMA Recursion ==
  ASSUME NEW n \in Nat, NEW A, NEW a \in A, NEW step \in [1 .. n -> [A -> A]]
  PROVE  HasRun(n, A, a, step)
<1> DEFINE Follows(m, g) ==
             g[0] = a /\ \A i \in 1 .. m : g[i] = step[i][g[i - 1]]
           P == {m \in 0 .. n : \E g \in [0 .. m -> A] : Follows(m, g)}
<1>1. 0 \in P
  <2> DEFINE g == [i \in 0 .. 0 |-> a]
  <2>1. g \in [0 .. 0 -> A] /\ Follows(0, g)
    OBVIOUS
  <2> HIDE DEF g, Follows
  <2> QED
    BY <2>1
<1>2. ASSUME NEW m \in 1 .. n, m - 1 \in P
      PROVE  m \in P
  <2>1. PICK g \in [0 .. m - 1 -> A] : Follows(m - 1, g)
    BY <1>2
  <2> DEFINE h == [i \in 0 .. m |-> IF i < m THEN g[i] ELSE step[m][g[m - 1]]]
  <2>2. h \in [0 .. m -> A]
    BY <2>1
  <2>3. ASSUME NEW i \in 1 .. m
        PROVE  h[i] = step[i][h[i - 1]]
    <3>2. CASE i \in 1 .. m - 1
      BY <2>1, <3>2
    <3>3. CASE i = m
      <4>1. m - 1 \in 0 .. m /\ m - 1 < m /\ m \in 0 .. m /\ ~(m < m) /\ m # 0
        OBVIOUS
      <4>2. h[m - 1] = g[m - 1] /\ h[m] = step[m][g[m - 1]]
        BY <4>1
      <4> HIDE DEF h
      <4> QED
        BY <3>3, <4>1, <4>2
    <3> QED
      BY <3>2, <3>3
  <2>4. Follows(m, h)
    <3>1. h[0] = a
      BY <2>1
    <3> HIDE DEF h
    <3> QED
      BY <2>3, <3>1
  <2> HIDE DEF h, Follows
  <2> QED
    BY <2>2, <2>4
<1> HIDE DEF P
<1>3. \A i \in 0 .. n : i \in P
  BY <1>1, <1>2, UpTo, ZenonT(30)
<1>4. n \in P
  BY <1>3
<1> QED
  BY <1>4 DEF P, HasRun

-----------------------------------------------------------------------------
(***************************************************************************)
(* u leads to what is selected of s, an element at a time.                 *)
(***************************************************************************)
SelectedBy(u, s, good) ==
  /\ u[0] = << >>
  /\ \A i \in 1 .. Len(s) :
       u[i] = IF s[i] \in good THEN Append(u[i - 1], s[i]) ELSE u[i - 1]

\* Such a u exists and ends with what Selected returns.
Selects(S, s, good) ==
  \E u \in [0 .. Len(s) -> Seq(S)] :
    SelectedBy(u, s, good) /\ Selected(s, good) = u[Len(s)]

\* It does, for every sequence and every set.
LEMMA SelectedSteps ==
  ASSUME NEW S, NEW s \in Seq(S), NEW good
  PROVE  Selects(S, s, good)
<1> DEFINE n == Len(s)
           body(f) == [i \in 0 .. n |->
                         IF i = 0 THEN << >>
                         ELSE IF s[i] \in good THEN Append(f[i - 1], s[i]) ELSE f[i - 1]]
           upTo == CHOOSE f : f = body(f)
           step == [i \in 1 .. n |->
                      [q \in Seq(S) |-> IF s[i] \in good THEN Append(q, s[i]) ELSE q]]
<1>1. n \in Nat /\ \A i \in 1 .. n : s[i] \in S
  OBVIOUS
<1>2. Selected(s, good) = upTo[n]
  BY Zenon DEF Selected
<1> HIDE DEF n
<1>3. step \in [1 .. n -> [Seq(S) -> Seq(S)]] /\ << >> \in Seq(S)
  BY <1>1
<1>4. \A i \in 1 .. n, q \in Seq(S) :
        step[i][q] = IF s[i] \in good THEN Append(q, s[i]) ELSE q
  OBVIOUS
<1> HIDE DEF step
<1>5. PICK g \in [0 .. n -> Seq(S)] :
        g[0] = << >> /\ \A i \in 1 .. n : g[i] = step[i][g[i - 1]]
  <2> DEFINE A == Seq(S)
             e == << >>
  <2>1. n \in Nat /\ e \in A /\ step \in [1 .. n -> [A -> A]]
    BY <1>1, <1>3
  <2> HIDE DEF A, e
  <2>2. HasRun(n, A, e, step)
    BY <2>1, Recursion, ZenonT(30)
  <2> QED
    BY <2>2, Zenon DEF A, e, HasRun
<1>6. ASSUME NEW i \in 1 .. n
      PROVE  g[i] = IF s[i] \in good THEN Append(g[i - 1], s[i]) ELSE g[i - 1]
  <2>1. g[i - 1] \in Seq(S)
    BY <1>1, <1>6
  <2> QED
    BY <1>4, <1>5, <2>1
<1>7. upTo = body(upTo)
  <2>1. \A i \in 0 .. n :
          g[i] = IF i = 0 THEN << >>
                 ELSE IF s[i] \in good THEN Append(g[i - 1], s[i]) ELSE g[i - 1]
    <3> SUFFICES ASSUME NEW i \in 0 .. n, i # 0
                 PROVE  g[i] = IF s[i] \in good THEN Append(g[i - 1], s[i]) ELSE g[i - 1]
      BY <1>5
    <3>1. i \in 1 .. n
      BY <1>1
    <3> QED
      BY <1>6, <3>1, Zenon
  <2>2. g = body(g)
    BY <1>5, <2>1
  <2> HIDE DEF body
  <2> QED
    BY <2>2
<1> HIDE DEF upTo
<1>8. upTo[0] = g[0]
  <2>1. 0 \in 0 .. n
    BY <1>1
  <2> QED
    BY <1>5, <1>7, <2>1, Zenon
<1>9. ASSUME NEW i \in 1 .. n, upTo[i - 1] = g[i - 1]
      PROVE  upTo[i] = g[i]
  <2>1. i \in 0 .. n /\ i # 0
    BY <1>1
  <2> QED
    BY <1>6, <1>7, <1>9, <2>1, Zenon
<1>10. upTo[n] = g[n]
  <2> DEFINE P == {i \in 0 .. n : upTo[i] = g[i]}
  <2>1. 0 \in P
    BY <1>1, <1>8
  <2>2. \A i \in 1 .. n : i - 1 \in P => i \in P
    BY <1>9
  <2> HIDE DEF P
  <2>3. \A i \in 0 .. n : i \in P
    BY <1>1, <2>1, <2>2, UpTo, ZenonT(30)
  <2>4. n \in 0 .. n
    BY <1>1
  <2> QED
    BY <2>3, <2>4, Zenon DEF P
<1>11. SelectedBy(g, s, good)
  BY <1>5, <1>6, Zenon DEF SelectedBy, n
<1> QED
  BY <1>2, <1>5, <1>10, <1>11, Zenon DEF Selects, n

(***************************************************************************)
(* Selected returns elements of s in their order: `at` says where in s the *)
(* elements of the result stand.  Every good element is among them.        *)
(***************************************************************************)
SelectionOf(r, s, good) ==
  \E at \in [1 .. Len(r) -> 1 .. Len(s)] :
    /\ \A i \in 1 .. Len(r) : r[i] = s[at[i]] /\ r[i] \in good
    /\ \A i, j \in 1 .. Len(r) : i < j => at[i] < at[j]

\* Every good element of s is in r.
AllSelected(r, s, good) ==
  \A j \in 1 .. Len(s) : s[j] \in good => \E i \in 1 .. Len(r) : r[i] = s[j]

\* Selected returns a sequence of that kind.
LEMMA SelectedProperties ==
  ASSUME NEW S, NEW s \in Seq(S), NEW good
  PROVE  /\ Selected(s, good) \in Seq(S)
         /\ SelectionOf(Selected(s, good), s, good)
         /\ AllSelected(Selected(s, good), s, good)
<1> DEFINE n == Len(s)
<1>1. n \in Nat /\ \A i \in 1 .. n : s[i] \in S
  OBVIOUS
<1>2. PICK upTo \in [0 .. n -> Seq(S)] :
        SelectedBy(upTo, s, good) /\ Selected(s, good) = upTo[n]
  BY SelectedSteps DEF Selects
<1> HIDE DEF n
<1>4. upTo[0] = << >>
  BY <1>2 DEF SelectedBy
<1>5. ASSUME NEW i \in 1 .. n
      PROVE  upTo[i] = IF s[i] \in good THEN Append(upTo[i - 1], s[i]) ELSE upTo[i - 1]
  BY <1>2 DEF SelectedBy, n
<1> DEFINE Right(k) ==
      /\ upTo[k] \in Seq(S)
      /\ \E at \in [1 .. Len(upTo[k]) -> 1 .. k] :
           /\ \A i \in 1 .. Len(upTo[k]) : upTo[k][i] = s[at[i]] /\ upTo[k][i] \in good
           /\ \A i, j \in 1 .. Len(upTo[k]) : i < j => at[i] < at[j]
      /\ \A j \in 1 .. k :
           s[j] \in good => \E i \in 1 .. Len(upTo[k]) : upTo[k][i] = s[j]
    P == {k \in 0 .. n : Right(k)}
<1>6. 0 \in P
  <2>1. upTo[0] \in Seq(S) /\ Len(upTo[0]) = 0
    BY <1>4
  <2> DEFINE none == [i \in 1 .. 0 |-> 0]
  <2>2. none \in [1 .. Len(upTo[0]) -> 1 .. 0]
    BY <2>1
  <2> HIDE DEF none
  <2>3. /\ \A i \in 1 .. Len(upTo[0]) : upTo[0][i] = s[none[i]] /\ upTo[0][i] \in good
        /\ \A i, j \in 1 .. Len(upTo[0]) : i < j => none[i] < none[j]
        /\ \A j \in 1 .. 0 :
             s[j] \in good => \E i \in 1 .. Len(upTo[0]) : upTo[0][i] = s[j]
    BY <2>1
  <2>4. Right(0)
    BY <2>1, <2>2, <2>3, Zenon
  <2>5. 0 \in 0 .. n
    BY <1>1
  <2> QED
    BY <2>4, <2>5, Zenon
<1>7. ASSUME NEW k \in 1 .. n, k - 1 \in P
      PROVE  k \in P
  <2> DEFINE u == upTo[k - 1]
             v == upTo[k]
             len == Len(u)
  <2>1. u \in Seq(S) /\ len \in Nat
    BY <1>7
  <2>2. PICK at \in [1 .. len -> 1 .. k - 1] :
          /\ \A i \in 1 .. len : u[i] = s[at[i]] /\ u[i] \in good
          /\ \A i, j \in 1 .. len : i < j => at[i] < at[j]
    BY <1>7
  <2>3. \A j \in 1 .. k - 1 : s[j] \in good => \E i \in 1 .. len : u[i] = s[j]
    BY <1>7
  <2>4. v = IF s[k] \in good THEN Append(u, s[k]) ELSE u
    BY <1>5
  <2> HIDE DEF u, v, len, P
  <2>5. CASE s[k] \notin good
    <3>1. v = u
      BY <2>4, <2>5
    <3>2. at \in [1 .. Len(v) -> 1 .. k]
      BY <2>1, <2>2, <3>1 DEF len
    <3>3. Right(k)
      BY <2>1, <2>2, <2>3, <2>5, <3>1, <3>2, SMTT(60) DEF v, len
    <3> QED
      BY <3>3 DEF P
  <2>6. CASE s[k] \in good
    <3> DEFINE wider == [i \in 1 .. len + 1 |-> IF i <= len THEN at[i] ELSE k]
    <3>1. /\ v \in Seq(S) /\ Len(v) = len + 1 /\ v[len + 1] = s[k]
          /\ \A i \in 1 .. len : v[i] = u[i]
      BY <1>1, <2>1, <2>4, <2>6 DEF len
    <3>2. /\ wider \in [1 .. Len(v) -> 1 .. k]
          /\ wider[len + 1] = k
          /\ \A i \in 1 .. len : wider[i] = at[i]
      BY <2>1, <2>2, <3>1
    <3> HIDE DEF wider
    <3>3. \A i \in 1 .. Len(v) : i \in 1 .. len \/ i = len + 1
      BY <2>1, <3>1
    <3>4. ASSUME NEW i \in 1 .. Len(v)
          PROVE  /\ v[i] = s[wider[i]] /\ v[i] \in good
                 /\ \A j \in 1 .. Len(v) : i < j => wider[i] < wider[j]
      <4>1. CASE i \in 1 .. len
        <5>1. v[i] = s[wider[i]] /\ v[i] \in good /\ wider[i] \in 1 .. k - 1
          BY <2>2, <3>1, <3>2, <4>1
        <5>2. ASSUME NEW j \in 1 .. Len(v), i < j
              PROVE  wider[i] < wider[j]
          <6>1. CASE j \in 1 .. len
            BY <2>2, <3>2, <4>1, <5>2, <6>1
          <6>2. CASE j = len + 1
            BY <3>2, <5>1, <6>2
          <6> QED
            BY <3>3, <6>1, <6>2
        <5> QED
          BY <5>1, <5>2
      <4>2. CASE i = len + 1
        BY <2>1, <2>6, <3>1, <3>2, <4>2
      <4> QED
        BY <3>3, <4>1, <4>2
    <3>5. ASSUME NEW j \in 1 .. k, s[j] \in good
          PROVE  \E i \in 1 .. Len(v) : v[i] = s[j]
      <4>1. CASE j = k
        BY <2>1, <3>1, <4>1
      <4>2. CASE j \in 1 .. k - 1
        <5>1. PICK i \in 1 .. len : u[i] = s[j]
          BY <2>3, <3>5, <4>2
        <5> QED
          BY <2>1, <3>1, <5>1
      <4> QED
        BY <4>1, <4>2
    <3>6. Right(k)
      BY <3>1, <3>2, <3>4, <3>5 DEF v
    <3>7. k \in 0 .. n
      BY <1>1
    <3> HIDE DEF Right
    <3> QED
      BY <3>6, <3>7, SMTT(30) DEF P
  <2> QED
    BY <2>5, <2>6
<1> HIDE DEF P
<1>8. n \in P
  <2>1. \A i \in 0 .. n : i \in P
    BY <1>1, <1>6, <1>7, UpTo, ZenonT(30)
  <2>2. n \in 0 .. n
    BY <1>1
  <2> QED
    BY <2>1, <2>2, Zenon
<1> HIDE DEF Right
<1>9. Right(n)
  BY <1>8, SMTT(30) DEF P
<1>10. upTo[n] \in Seq(S) /\ SelectionOf(upTo[n], s, good) /\ AllSelected(upTo[n], s, good)
  BY <1>9, ZenonT(30) DEF SelectionOf, AllSelected, n, Right
<1> QED
  BY <1>2, <1>10, Zenon

-----------------------------------------------------------------------------
\* What is selected of a sequence are the elements that are good.
LEMMA SelectedSet ==
  ASSUME NEW S, NEW s \in Seq(S), NEW good
  PROVE  /\ Selected(s, good) \in Seq(S \cap good)
         /\ ToSet(Selected(s, good)) = ToSet(s) \cap good
<1> DEFINE r == Selected(s, good)
<1>1. r \in Seq(S) /\ SelectionOf(r, s, good) /\ AllSelected(r, s, good)
  BY SelectedProperties, Zenon
<1> HIDE DEF r
<1>2. DOMAIN s = 1 .. Len(s) /\ DOMAIN r = 1 .. Len(r) /\ Len(r) \in Nat
  BY <1>1
<1>3. PICK at \in [1 .. Len(r) -> 1 .. Len(s)] :
        \A i \in 1 .. Len(r) : r[i] = s[at[i]] /\ r[i] \in good
  BY <1>1, Zenon DEF SelectionOf
<1>4. ASSUME NEW i \in 1 .. Len(r)
      PROVE  r[i] \in S \cap good /\ r[i] \in ToSet(s) \cap good
  <2>1. r[i] = s[at[i]] /\ r[i] \in good /\ at[i] \in 1 .. Len(s)
    BY <1>3
  <2>2. s[at[i]] \in ToSet(s)
    BY <1>2, <2>1, Zenon DEF ToSet
  <2>3. r[i] \in S
    BY <1>1
  <2> QED
    BY <2>1, <2>2, <2>3
<1>5. r \in Seq(S \cap good)
  BY <1>1, <1>2, <1>4
<1>6. ToSet(r) \subseteq ToSet(s) \cap good
  BY <1>2, <1>4 DEF ToSet
<1>7. ToSet(s) \cap good \subseteq ToSet(r)
  <2> SUFFICES ASSUME NEW j \in 1 .. Len(s), s[j] \in good
               PROVE  s[j] \in ToSet(r)
    BY <1>2 DEF ToSet
  <2>1. PICK i \in 1 .. Len(r) : r[i] = s[j]
    BY <1>1, Zenon DEF AllSelected
  <2> QED
    BY <1>2, <2>1 DEF ToSet
<1> QED
  BY <1>5, <1>6, <1>7, Zenon DEF r

\* Nothing is selected if nothing is good.
LEMMA SelectedNone ==
  ASSUME NEW S, NEW s \in Seq(S), NEW good, ToSet(s) \cap good = {}
  PROVE  Selected(s, good) = << >>
<1> DEFINE r == Selected(s, good)
<1>1. r \in Seq(S \cap good) /\ ToSet(r) = {}
  BY SelectedSet, Zenon
<1> HIDE DEF r
<1>2. ASSUME Len(r) # 0
      PROVE  FALSE
  <2>1. 1 \in DOMAIN r
    BY <1>1, <1>2
  <2>2. r[1] \in ToSet(r)
    BY <2>1, Zenon DEF ToSet
  <2> QED
    BY <1>1, <2>2
<1>3. r = << >>
  BY <1>1, <1>2
<1> QED
  BY <1>3 DEF r

\* Later elements are greater.
Increasing(s) == \A i, j \in DOMAIN s : i < j => s[i] < s[j]

\* Later elements are greater, of those that are good.
IncreasingIn(s, good) ==
  \A i, j \in DOMAIN s : s[i] \in good /\ s[j] \in good /\ i < j => s[i] < s[j]

\* What is selected of a sequence increases if the good elements do.
LEMMA SelectedIncreasing ==
  ASSUME NEW S, NEW s \in Seq(S), NEW good, IncreasingIn(s, good)
  PROVE  Increasing(Selected(s, good))
<1> DEFINE r == Selected(s, good)
<1>1. r \in Seq(S) /\ SelectionOf(r, s, good)
  BY SelectedProperties, Zenon
<1> HIDE DEF r
<1>2. DOMAIN s = 1 .. Len(s) /\ DOMAIN r = 1 .. Len(r)
  BY <1>1
<1>3. PICK at \in [1 .. Len(r) -> 1 .. Len(s)] :
        /\ \A i \in 1 .. Len(r) : r[i] = s[at[i]] /\ r[i] \in good
        /\ \A i, j \in 1 .. Len(r) : i < j => at[i] < at[j]
  BY <1>1, Zenon DEF SelectionOf
<1>4. ASSUME NEW i \in 1 .. Len(r), NEW j \in 1 .. Len(r), i < j
      PROVE  r[i] < r[j]
  <2>1. /\ at[i] \in DOMAIN s /\ at[j] \in DOMAIN s /\ at[i] < at[j]
        /\ r[i] = s[at[i]] /\ r[i] \in good /\ r[j] = s[at[j]] /\ r[j] \in good
    BY <1>2, <1>3, <1>4
  <2>2. s[at[i]] < s[at[j]]
    BY <2>1, Zenon DEF IncreasingIn
  <2> QED
    BY <2>1, <2>2, Zenon
<1>5. Increasing(r)
  BY <1>2, <1>4, Zenon DEF Increasing
<1> QED
  BY <1>5, Zenon DEF r

-----------------------------------------------------------------------------
\* Appending to the second of two sequences end to end appends to both.
JoinAppends(S) == \A p, q \in Seq(S), x \in S : Append(p \o q, x) = p \o Append(q, x)

\* It does.
LEMMA AppendToJoin ==
  ASSUME NEW S
  PROVE  JoinAppends(S)
<1> SUFFICES ASSUME NEW p \in Seq(S), NEW q \in Seq(S), NEW x \in S
             PROVE  Append(p \o q, x) = p \o Append(q, x)
  BY Zenon DEF JoinAppends
<1> QED
  OBVIOUS

(***************************************************************************)
(* What is selected of two sequences end to end.                           *)
(***************************************************************************)
SelectsOfJoin(a, b, good) == Selected(a \o b, good) = Selected(a, good) \o Selected(b, good)

\* It is what is selected of either, end to end.
LEMMA SelectedOfJoin ==
  ASSUME NEW S, NEW a \in Seq(S), NEW b \in Seq(S), NEW good
  PROVE  SelectsOfJoin(a, b, good)
<1>0. \A p, q \in Seq(S), x \in S : Append(p \o q, x) = p \o Append(q, x)
  <2>1. JoinAppends(S)
    BY AppendToJoin, Zenon
  <2> QED
    BY <2>1, Zenon DEF JoinAppends
<1> DEFINE c == a \o b
           n == Len(a)
           m == Len(b)
           k == Len(c)
           A == Seq(S)
<1>1. /\ c \in A /\ n \in Nat /\ m \in Nat /\ k = n + m
      /\ \A i \in 1 .. n : c[i] = a[i]
      /\ \A i \in 1 .. m : c[n + i] = b[i] /\ b[i] \in S
  OBVIOUS
<1> HIDE DEF c
<1>2. PICK w \in [0 .. k -> A] : SelectedBy(w, c, good) /\ Selected(c, good) = w[k]
  <2>1. Selects(S, c, good)
    BY <1>1, SelectedSteps
  <2> QED
    BY <2>1, Zenon DEF Selects
<1>3. PICK u \in [0 .. n -> A] : SelectedBy(u, a, good) /\ Selected(a, good) = u[n]
  BY SelectedSteps, Zenon DEF Selects
<1>4. PICK v \in [0 .. m -> A] : SelectedBy(v, b, good) /\ Selected(b, good) = v[m]
  BY SelectedSteps, Zenon DEF Selects
<1>5. /\ w[0] = << >> /\ u[0] = << >> /\ v[0] = << >>
      /\ \A i \in 1 .. k : w[i] = IF c[i] \in good THEN Append(w[i - 1], c[i]) ELSE w[i - 1]
      /\ \A i \in 1 .. n : u[i] = IF a[i] \in good THEN Append(u[i - 1], a[i]) ELSE u[i - 1]
      /\ \A i \in 1 .. m : v[i] = IF b[i] \in good THEN Append(v[i - 1], b[i]) ELSE v[i - 1]
  BY <1>2, <1>3, <1>4, Zenon DEF SelectedBy
<1> HIDE DEF n, m, k, A
<1>6. /\ \A i \in 0 .. n : u[i] \in A
      /\ \A i \in 0 .. m : v[i] \in A
      /\ 0 \in 0 .. n /\ 0 \in 0 .. m /\ n \in 0 .. n /\ m \in 0 .. m
  BY <1>1, <1>3, <1>4
<1>7. \A i \in 0 .. n : w[i] = u[i]
  <2> DEFINE P == {i \in 0 .. n : w[i] = u[i]}
  <2>1. 0 \in P
    BY <1>5, <1>6
  <2>2. ASSUME NEW i \in 1 .. n, i - 1 \in P
        PROVE  i \in P
    <3>1. i \in 1 .. k /\ i \in 0 .. n
      BY <1>1
    <3>2. c[i] = a[i] /\ w[i - 1] = u[i - 1]
      BY <1>1, <2>2
    <3>3. w[i] = u[i]
      BY <1>5, <2>2, <3>1, <3>2, ZenonT(30)
    <3> QED
      BY <3>1, <3>3
  <2> HIDE DEF P
  <2>3. \A i \in 0 .. n : i \in P
    BY <1>1, <2>1, <2>2, UpTo, ZenonT(30)
  <2> QED
    BY <2>3 DEF P
<1>8. \A i \in 0 .. m : w[n + i] = u[n] \o v[i]
  <2> DEFINE P == {i \in 0 .. m : w[n + i] = u[n] \o v[i]}
  <2>1. 0 \in P
    <3>1. w[n + 0] = u[n]
      BY <1>1, <1>6, <1>7
    <3>2. u[n] \o << >> = u[n]
      BY <1>6, ConcatEmptySeq, Zenon DEF A
    <3>3. w[n + 0] = u[n] \o v[0]
      BY <1>5, <3>1, <3>2, Zenon
    <3> QED
      BY <1>6, <3>3, Zenon
  <2>2. ASSUME NEW i \in 1 .. m, i - 1 \in P
        PROVE  i \in P
    <3>1. /\ n + i \in 1 .. k /\ i \in 0 .. m /\ i - 1 \in 0 .. m
          /\ (n + i) - 1 = n + (i - 1)
      BY <1>1
    <3>2. w[n + (i - 1)] = u[n] \o v[i - 1]
      BY <2>2, Zenon
    <3>3. w[n + i] = IF b[i] \in good THEN Append(u[n] \o v[i - 1], b[i])
                     ELSE u[n] \o v[i - 1]
      <4> DEFINE j == n + i
      <4>1. j \in 1 .. k /\ c[j] = b[i] /\ w[j - 1] = u[n] \o v[i - 1]
        BY <1>1, <3>1, <3>2
      <4> HIDE DEF j
      <4>2. w[j] = IF c[j] \in good THEN Append(w[j - 1], c[j]) ELSE w[j - 1]
        BY <1>5, <4>1, Zenon
      <4>3. w[j] = IF b[i] \in good THEN Append(u[n] \o v[i - 1], b[i])
                   ELSE u[n] \o v[i - 1]
        BY <4>1, <4>2, Zenon
      <4> QED
        BY <4>3, Zenon DEF j
    <3>4. v[i - 1] \in Seq(S) /\ u[n] \in Seq(S) /\ b[i] \in S
      BY <1>1, <1>6, <3>1, Zenon DEF A
    <3>5. Append(u[n] \o v[i - 1], b[i]) = u[n] \o Append(v[i - 1], b[i])
      BY <1>0, <3>4, ZenonT(30)
    <3>6. w[n + i] = u[n] \o v[i]
      BY <1>5, <3>3, <3>5, ZenonT(30)
    <3> QED
      BY <3>1, <3>6, Zenon
  <2> HIDE DEF P
  <2>3. \A i \in 0 .. m : i \in P
    BY <1>1, <2>1, <2>2, UpTo, ZenonT(30)
  <2> QED
    BY <2>3, Zenon DEF P
<1>9. w[k] = u[n] \o v[m]
  BY <1>1, <1>6, <1>8, Zenon
<1> QED
  BY <1>2, <1>3, <1>4, <1>9, Zenon DEF c, SelectsOfJoin

-----------------------------------------------------------------------------
(***************************************************************************)
(* u leads to the parts end to end, a part at a time.                      *)
(***************************************************************************)
FlattenedBy(u, parts) ==
  u[0] = << >> /\ \A i \in 1 .. Len(parts) : u[i] = u[i - 1] \o parts[i]

\* Such a u exists and ends with what FlattenSeq returns.
Flattens(S, parts) ==
  \E u \in [0 .. Len(parts) -> Seq(S)] :
    FlattenedBy(u, parts) /\ FlattenSeq(parts) = u[Len(parts)]

\* It does, for any sequences.
LEMMA FlattenSteps ==
  ASSUME NEW S, NEW parts \in Seq(Seq(S)), parts # << >>
  PROVE  Flattens(S, parts)
<1> DEFINE n == Len(parts)
           body(f) == [i \in 1 .. n |-> IF i = 1 THEN parts[i] ELSE f[i - 1] \o parts[i]]
           flatten == CHOOSE f : f = body(f)
           step == [i \in 1 .. n |-> [q \in Seq(S) |-> q \o parts[i]]]
<1>1. n \in Nat /\ n # 0 /\ \A i \in 1 .. n : parts[i] \in Seq(S)
  OBVIOUS
<1>2. FlattenSeq(parts) = flatten[n]
  BY <1>1, Zenon DEF FlattenSeq
<1> HIDE DEF n
<1>3. step \in [1 .. n -> [Seq(S) -> Seq(S)]] /\ << >> \in Seq(S)
  BY <1>1
<1>4. \A i \in 1 .. n, q \in Seq(S) : step[i][q] = q \o parts[i]
  OBVIOUS
<1> HIDE DEF step
<1>5. PICK g \in [0 .. n -> Seq(S)] :
        g[0] = << >> /\ \A i \in 1 .. n : g[i] = step[i][g[i - 1]]
  <2> DEFINE A == Seq(S)
             e == << >>
  <2>1. n \in Nat /\ e \in A /\ step \in [1 .. n -> [A -> A]]
    BY <1>1, <1>3
  <2> HIDE DEF A, e
  <2>2. HasRun(n, A, e, step)
    BY <2>1, Recursion, ZenonT(30)
  <2> QED
    BY <2>2, Zenon DEF A, e, HasRun
<1>6. ASSUME NEW i \in 1 .. n
      PROVE  g[i] = g[i - 1] \o parts[i]
  <2>1. g[i - 1] \in Seq(S)
    BY <1>1, <1>6
  <2> QED
    BY <1>4, <1>5, <2>1
<1>7. 1 \in 1 .. n /\ g[1] = parts[1]
  <2>1. 1 \in 1 .. n /\ g[1 - 1] = << >>
    BY <1>1, <1>5
  <2>2. << >> \o parts[1] = parts[1]
    BY <1>1, <2>1, ConcatEmptySeq
  <2> QED
    BY <1>6, <2>1, <2>2
<1>8. flatten = body(flatten)
  <2> DEFINE h == [i \in 1 .. n |-> g[i]]
  <2>1. \A i \in 1 .. n : h[i] = IF i = 1 THEN parts[i] ELSE h[i - 1] \o parts[i]
    <3> SUFFICES ASSUME NEW i \in 1 .. n, i # 1
                 PROVE  h[i] = h[i - 1] \o parts[i]
      BY <1>7
    <3>1. i - 1 \in 1 .. n
      BY <1>1
    <3> QED
      BY <1>6, <3>1
  <2>2. h = body(h)
    BY <2>1
  <2> HIDE DEF body, h
  <2> QED
    BY <2>2
<1> HIDE DEF flatten
<1>9. flatten[n] = g[n]
  <2> DEFINE P == {i \in 0 .. n : i = 0 \/ flatten[i] = g[i]}
  <2>1. 0 \in P
    BY <1>1
  <2>2. ASSUME NEW i \in 1 .. n, i - 1 \in P
        PROVE  i \in P
    <3>1. flatten[i] = IF i = 1 THEN parts[i] ELSE flatten[i - 1] \o parts[i]
      BY <1>8, Zenon
    <3>2. CASE i = 1
      BY <1>7, <3>1, <3>2
    <3>3. CASE i # 1
      <4>1. flatten[i - 1] = g[i - 1]
        BY <2>2, <3>3
      <4>2. flatten[i] = g[i]
        BY <1>6, <3>1, <3>3, <4>1, ZenonT(30)
      <4>3. i \in 0 .. n
        OBVIOUS
      <4> QED
        BY <4>2, <4>3, Zenon
    <3> QED
      BY <3>2, <3>3
  <2> HIDE DEF P
  <2>3. \A i \in 0 .. n : i \in P
    BY <1>1, <2>1, <2>2, UpTo, ZenonT(30)
  <2> QED
    BY <1>1, <2>3 DEF P
<1>10. FlattenedBy(g, parts)
  BY <1>5, <1>6, Zenon DEF FlattenedBy, n
<1> QED
  BY <1>2, <1>5, <1>9, <1>10, Zenon DEF Flattens, n

(***************************************************************************)
(* Induction over the parts: P[i] is a set of sequences that the first i   *)
(* parts end to end belong to.                                             *)
(***************************************************************************)
LEMMA FlattenInduction ==
  ASSUME NEW S, NEW parts \in Seq(Seq(S)), parts # << >>, NEW P,
         << >> \in P[0],
         \A i \in 1 .. Len(parts), q \in Seq(S) : q \in P[i - 1] => q \o parts[i] \in P[i]
  PROVE  FlattenSeq(parts) \in Seq(S) /\ FlattenSeq(parts) \in P[Len(parts)]
<1> DEFINE n == Len(parts)
           A == Seq(S)
<1>1. n \in Nat
  OBVIOUS
<1>2. PICK u \in [0 .. n -> A] : FlattenedBy(u, parts) /\ FlattenSeq(parts) = u[n]
  BY FlattenSteps, Zenon DEF Flattens
<1>3. u[0] = << >> /\ \A i \in 1 .. n : u[i] = u[i - 1] \o parts[i]
  BY <1>2, Zenon DEF FlattenedBy
<1>4. \A i \in 1 .. n, q \in A : q \in P[i - 1] => q \o parts[i] \in P[i]
  OBVIOUS
<1> HIDE DEF n, A
<1>5. (\A i \in 0 .. n : u[i] \in A) /\ n \in 0 .. n /\ 0 \in 0 .. n
  BY <1>1, <1>2
<1> DEFINE Q == {i \in 0 .. n : u[i] \in P[i]}
<1>6. 0 \in Q
  BY <1>3, <1>5
<1>7. ASSUME NEW i \in 1 .. n, i - 1 \in Q
      PROVE  i \in Q
  <2>1. i \in 0 .. n /\ i - 1 \in 0 .. n /\ u[i - 1] \in P[i - 1]
    BY <1>1, <1>7
  <2>2. u[i - 1] \in A
    BY <1>5, <2>1, Zenon
  <2>3. u[i - 1] \o parts[i] \in P[i]
    BY <1>4, <2>1, <2>2, Zenon
  <2> QED
    BY <1>3, <2>1, <2>3, Zenon
<1> HIDE DEF Q
<1>8. \A i \in 0 .. n : i \in Q
  BY <1>1, <1>6, <1>7, UpTo, ZenonT(30)
<1>9. u[n] \in P[n] /\ u[n] \in A
  BY <1>5, <1>8, Zenon DEF Q
<1> QED
  BY <1>2, <1>9, Zenon DEF A, n

\* The elements of two sequences end to end.
LEMMA JoinElements ==
  ASSUME NEW S, NEW p \in Seq(S), NEW q \in Seq(S)
  PROVE  p \o q \in Seq(S) /\ ToSet(p \o q) = ToSet(p) \cup ToSet(q)
<1> DEFINE r == p \o q
           n == Len(p)
           m == Len(q)
<1>1. /\ r \in Seq(S) /\ n \in Nat /\ m \in Nat /\ DOMAIN r = 1 .. n + m
      /\ DOMAIN p = 1 .. n /\ DOMAIN q = 1 .. m
      /\ \A i \in 1 .. n : r[i] = p[i]
      /\ \A i \in 1 .. m : r[n + i] = q[i]
  OBVIOUS
<1> HIDE DEF r, n, m
<1>2. ASSUME NEW i \in 1 .. n + m
      PROVE  r[i] \in ToSet(p) \cup ToSet(q)
  <2>1. CASE i \in 1 .. n
    BY <1>1, <2>1 DEF ToSet
  <2>2. CASE i \notin 1 .. n
    <3>1. i - n \in 1 .. m /\ n + (i - n) = i
      BY <1>1, <2>2
    <3>2. r[i] = q[i - n]
      BY <1>1, <3>1
    <3> QED
      BY <1>1, <3>1, <3>2 DEF ToSet
  <2> QED
    BY <2>1, <2>2
<1>3. ASSUME NEW i \in 1 .. n
      PROVE  p[i] \in ToSet(r)
  BY <1>1 DEF ToSet
<1>4. ASSUME NEW i \in 1 .. m
      PROVE  q[i] \in ToSet(r)
  <2>1. n + i \in DOMAIN r /\ r[n + i] = q[i]
    BY <1>1
  <2> QED
    BY <2>1, Zenon DEF ToSet
<1>5. ToSet(r) = {r[i] : i \in 1 .. n + m} /\ ToSet(p) = {p[i] : i \in 1 .. n}
      /\ ToSet(q) = {q[i] : i \in 1 .. m}
  BY <1>1, Zenon DEF ToSet
<1>6. ToSet(r) = ToSet(p) \cup ToSet(q)
  BY <1>2, <1>3, <1>4, <1>5
<1> QED
  BY <1>1, <1>6, Zenon DEF r

(***************************************************************************)
(* Sequences end to end are a sequence of what is in them.                 *)
(***************************************************************************)
LEMMA FlattenElements ==
  ASSUME NEW S, NEW parts \in Seq(Seq(S)), parts # << >>
  PROVE  /\ FlattenSeq(parts) \in Seq(S)
         /\ ToSet(FlattenSeq(parts)) = UNION {ToSet(parts[i]) : i \in 1 .. Len(parts)}
<1> DEFINE n == Len(parts)
           upTo(i) == UNION {ToSet(parts[j]) : j \in 1 .. i}
           P == [i \in 0 .. n |-> {q \in Seq(S) : ToSet(q) = upTo(i)}]
<1>1. n \in Nat /\ \A i \in 1 .. n : parts[i] \in Seq(S)
  OBVIOUS
<1> HIDE DEF n
<1>2. 0 \in 0 .. n /\ n \in 0 .. n /\ upTo(0) = {}
  BY <1>1
<1>3. << >> \in P[0]
  <2>1. << >> \in Seq(S) /\ ToSet(<< >>) = {}
    BY DEF ToSet
  <2> QED
    BY <1>2, <2>1
<1>4. ASSUME NEW i \in 1 .. n, NEW q \in Seq(S), q \in P[i - 1]
      PROVE  q \o parts[i] \in P[i]
  <2>1. i \in 0 .. n /\ i - 1 \in 0 .. n
    BY <1>1
  <2>2. ToSet(q) = upTo(i - 1)
    BY <1>4, <2>1
  <2>3. upTo(i) = upTo(i - 1) \cup ToSet(parts[i])
    <3>1. \A j : j \in 1 .. i <=> j \in 1 .. i - 1 \/ j = i
      BY <1>1
    <3> QED
      BY <3>1
  <2>4. q \o parts[i] \in Seq(S) /\ ToSet(q \o parts[i]) = ToSet(q) \cup ToSet(parts[i])
    BY <1>1, JoinElements
  <2> HIDE DEF upTo
  <2>5. ToSet(q \o parts[i]) = upTo(i)
    BY <2>2, <2>3, <2>4, Zenon
  <2> QED
    BY <2>1, <2>4, <2>5, Zenon
<1> HIDE DEF P
<1>5. FlattenSeq(parts) \in Seq(S) /\ FlattenSeq(parts) \in P[Len(parts)]
  BY <1>3, <1>4, FlattenInduction, ZenonT(30) DEF n
<1>6. FlattenSeq(parts) \in P[n]
  BY <1>5, Zenon DEF n
<1>7. ToSet(FlattenSeq(parts)) = upTo(n)
  BY <1>2, <1>6, Zenon DEF P
<1> QED
  BY <1>5, <1>7, Zenon DEF n

\* A sequence increases if it does in what its elements are taken from.
LEMMA IncreasingWholly ==
  ASSUME NEW S, NEW s \in Seq(S)
  PROVE  Increasing(s) <=> IncreasingIn(s, S)
<1>1. \A i \in DOMAIN s : s[i] \in S
  OBVIOUS
<1> QED
  BY <1>1, Zenon DEF Increasing, IncreasingIn

\* Increasing sequences end to end, the second of later elements.
LEMMA JoinIncreasing ==
  ASSUME NEW S, NEW p \in Seq(S), NEW q \in Seq(S), NEW good,
         IncreasingIn(p, good), IncreasingIn(q, good),
         \A x \in ToSet(p) \cap good, y \in ToSet(q) \cap good : x < y
  PROVE  IncreasingIn(p \o q, good)
<1> DEFINE r == p \o q
           n == Len(p)
           m == Len(q)
<1>1. /\ n \in Nat /\ m \in Nat /\ DOMAIN r = 1 .. n + m
      /\ DOMAIN p = 1 .. n /\ DOMAIN q = 1 .. m
      /\ \A i \in 1 .. n : r[i] = p[i]
      /\ \A i \in 1 .. m : r[n + i] = q[i]
  OBVIOUS
<1> HIDE DEF r, n, m
<1>2. ASSUME NEW i \in 1 .. n + m, i \notin 1 .. n
      PROVE  i - n \in 1 .. m /\ r[i] = q[i - n]
  <2>1. i - n \in 1 .. m /\ n + (i - n) = i
    BY <1>1, <1>2
  <2> QED
    BY <1>1, <2>1
<1>3. ASSUME NEW i \in 1 .. n + m, NEW j \in 1 .. n + m, r[i] \in good, r[j] \in good, i < j
      PROVE  r[i] < r[j]
  <2>1. CASE j \in 1 .. n
    <3>1. i \in 1 .. n
      BY <1>1, <1>3, <2>1
    <3>2. p[i] = r[i] /\ p[j] = r[j]
      BY <1>1, <2>1, <3>1
    <3>3. p[i] < p[j]
      BY <1>1, <1>3, <2>1, <3>1, <3>2, Zenon DEF IncreasingIn
    <3> QED
      BY <3>2, <3>3, Zenon
  <2>2. CASE i \in 1 .. n /\ j \notin 1 .. n
    <3>1. r[i] \in ToSet(p) \cap good /\ r[j] \in ToSet(q) \cap good
      BY <1>1, <1>2, <1>3, <2>2, Zenon DEF ToSet
    <3> QED
      BY <3>1
  <2>3. CASE i \notin 1 .. n
    <3>1. j \notin 1 .. n
      BY <1>1, <1>3, <2>3
    <3>2. /\ i - n \in 1 .. m /\ q[i - n] = r[i]
          /\ j - n \in 1 .. m /\ q[j - n] = r[j]
      BY <1>2, <2>3, <3>1
    <3>3. i - n < j - n
      BY <1>1, <1>3
    <3>4. q[i - n] < q[j - n]
      BY <1>1, <1>3, <3>2, <3>3, Zenon DEF IncreasingIn
    <3> QED
      BY <3>2, <3>4, Zenon
  <2> QED
    BY <2>1, <2>2, <2>3
<1>4. IncreasingIn(r, good)
  BY <1>1, <1>3, Zenon DEF IncreasingIn
<1> QED
  BY <1>4, Zenon DEF r

(***************************************************************************)
(* Increasing sequences, each of later elements than those before it, are  *)
(* an increasing sequence end to end.                                      *)
(***************************************************************************)
LEMMA FlattenIncreasing ==
  ASSUME NEW S, NEW parts \in Seq(Seq(S)), parts # << >>,
         \A i \in 1 .. Len(parts) : Increasing(parts[i]),
         \A i, j \in 1 .. Len(parts) :
           i < j => \A x \in ToSet(parts[i]), y \in ToSet(parts[j]) : x < y
  PROVE  Increasing(FlattenSeq(parts))
<1> DEFINE n == Len(parts)
           upTo(i) == UNION {ToSet(parts[j]) : j \in 1 .. i}
           P == [i \in 0 .. n |-> {q \in Seq(S) : ToSet(q) = upTo(i) /\ Increasing(q)}]
<1>1. n \in Nat /\ \A i \in 1 .. n : parts[i] \in Seq(S)
  OBVIOUS
<1>2. \A i, j \in 1 .. n :
        i < j => \A x \in ToSet(parts[i]), y \in ToSet(parts[j]) : x < y
  OBVIOUS
<1>3. \A i \in 1 .. n : Increasing(parts[i])
  OBVIOUS
<1> HIDE DEF n
<1>4. 0 \in 0 .. n /\ n \in 0 .. n /\ upTo(0) = {}
  BY <1>1
<1>5. << >> \in P[0]
  <2>1. << >> \in Seq(S) /\ ToSet(<< >>) = {} /\ Increasing(<< >>)
    BY DEF ToSet, Increasing
  <2> QED
    BY <1>4, <2>1
<1>6. ASSUME NEW i \in 1 .. n, NEW q \in Seq(S), q \in P[i - 1]
      PROVE  q \o parts[i] \in P[i]
  <2>1. i \in 0 .. n /\ i - 1 \in 0 .. n
    BY <1>1
  <2>2. ToSet(q) = upTo(i - 1) /\ Increasing(q)
    BY <1>6, <2>1, Zenon
  <2>3. upTo(i) = upTo(i - 1) \cup ToSet(parts[i])
    <3>1. \A j : j \in 1 .. i <=> j \in 1 .. i - 1 \/ j = i
      BY <1>1
    <3> QED
      BY <3>1
  <2>4. q \o parts[i] \in Seq(S) /\ ToSet(q \o parts[i]) = ToSet(q) \cup ToSet(parts[i])
    BY <1>1, JoinElements
  <2>5. \A x \in ToSet(q), y \in ToSet(parts[i]) : x < y
    <3> SUFFICES ASSUME NEW x \in upTo(i - 1), NEW y \in ToSet(parts[i])
                 PROVE  x < y
      BY <2>2, Zenon
    <3>1. PICK j \in 1 .. i - 1 : x \in ToSet(parts[j])
      OBVIOUS
    <3>2. j \in 1 .. n /\ j < i
      BY <1>1
    <3> QED
      BY <1>2, <3>1, <3>2, Zenon
  <2>6. parts[i] \in Seq(S) /\ Increasing(parts[i])
    BY <1>1, <1>3, Zenon
  <2> HIDE DEF upTo
  <2>7. Increasing(q \o parts[i])
    <3>1. IncreasingIn(q, S) /\ IncreasingIn(parts[i], S)
      BY <2>2, <2>6, IncreasingWholly, Zenon
    <3>2. \A x \in ToSet(q) \cap S, y \in ToSet(parts[i]) \cap S : x < y
      BY <2>5
    <3>3. IncreasingIn(q \o parts[i], S)
      BY <2>6, <3>1, <3>2, JoinIncreasing
    <3> QED
      BY <2>4, <3>3, IncreasingWholly, Zenon
  <2>8. ToSet(q \o parts[i]) = upTo(i)
    BY <2>2, <2>3, <2>4, Zenon
  <2> QED
    BY <2>1, <2>4, <2>7, <2>8, Zenon
<1> HIDE DEF P
<1>7. FlattenSeq(parts) \in P[Len(parts)]
  BY <1>5, <1>6, FlattenInduction, ZenonT(30) DEF n
<1>8. FlattenSeq(parts) \in P[n]
  BY <1>7, Zenon DEF n
<1> QED
  BY <1>4, <1>8, Zenon DEF P

(***************************************************************************)
(* What is selected of each part, end to end, is what is selected of the   *)
(* parts end to end.                                                       *)
(***************************************************************************)
LEMMA FlattenSelected ==
  ASSUME NEW S, NEW parts \in Seq(Seq(S)), parts # << >>, NEW good,
         NEW chosen \in Seq(Seq(S)), Len(chosen) = Len(parts),
         \A i \in 1 .. Len(parts) : chosen[i] = Selected(parts[i], good)
  PROVE  FlattenSeq(chosen) = Selected(FlattenSeq(parts), good)
<1> DEFINE n == Len(parts)
           A == Seq(S)
<1>1. /\ n \in Nat /\ Len(chosen) = n /\ chosen # << >>
      /\ \A i \in 1 .. n : parts[i] \in A /\ chosen[i] = Selected(parts[i], good)
  OBVIOUS
<1>2. PICK v \in [0 .. Len(chosen) -> A] :
        FlattenedBy(v, chosen) /\ FlattenSeq(chosen) = v[Len(chosen)]
  BY <1>1, FlattenSteps, Zenon DEF Flattens
<1>3. v[0] = << >> /\ (\A i \in 1 .. n : v[i] = v[i - 1] \o chosen[i]) /\ FlattenSeq(chosen) = v[n]
  BY <1>1, <1>2, Zenon DEF FlattenedBy
<1> DEFINE P == [i \in 0 .. n |-> {q \in A : Selected(q, good) = v[i]}]
<1> HIDE DEF n, A
<1>4. 0 \in 0 .. n /\ n \in 0 .. n
  BY <1>1
<1>5. << >> \in P[0]
  <2>1. << >> \in A /\ Len(<< >>) = 0
    BY DEF A
  <2>2. Selected(<< >>, good) = << >>
    <3>1. Selects(S, << >>, good)
      BY <2>1, SelectedSteps, Zenon DEF A
    <3> QED
      BY <2>1, <3>1 DEF Selects, SelectedBy
  <2> QED
    BY <1>3, <1>4, <2>1, <2>2, Zenon
<1>6. ASSUME NEW i \in 1 .. n, NEW q \in A, q \in P[i - 1]
      PROVE  q \o parts[i] \in P[i]
  <2>1. i \in 0 .. n /\ i - 1 \in 0 .. n
    BY <1>1
  <2>2. Selected(q, good) = v[i - 1]
    BY <1>6, <2>1, Zenon
  <2>3. q \o parts[i] \in A
    BY <1>1, JoinElements, Zenon DEF A
  <2>4. Selected(q \o parts[i], good) = Selected(q, good) \o Selected(parts[i], good)
    <3> DEFINE part == parts[i]
    <3>1. q \in Seq(S) /\ part \in Seq(S)
      BY <1>1, Zenon DEF A
    <3> HIDE DEF part
    <3>2. SelectsOfJoin(q, part, good)
      BY <3>1, SelectedOfJoin, Zenon
    <3> QED
      BY <3>2, Zenon DEF part, SelectsOfJoin
  <2>5. Selected(q \o parts[i], good) = v[i]
    BY <1>1, <1>3, <2>2, <2>4, Zenon
  <2> QED
    BY <2>1, <2>3, <2>5, Zenon
<1> HIDE DEF P
<1>7. FlattenSeq(parts) \in P[Len(parts)]
  BY <1>5, <1>6, FlattenInduction, ZenonT(30) DEF n, A
<1>8. FlattenSeq(parts) \in P[n]
  BY <1>7, Zenon DEF n
<1> QED
  BY <1>3, <1>4, <1>8, Zenon DEF P
=============================================================================
