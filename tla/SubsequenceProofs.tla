------------------------- MODULE SubsequenceProofs --------------------------
(***************************************************************************)
(* Lemmas that several components' proofs rest on: the least and the       *)
(* largest of a set of numbers, induction over the numbers up to a bound,  *)
(* and what Picked takes.                                                  *)
(***************************************************************************)
EXTENDS Subsequences, WellFoundedInduction, TLAPS

\* A set of numbers has a least one.
LEMMA LeastExists ==
  ASSUME NEW T, T \subseteq Nat, T # {}
  PROVE  \E x \in T : \A y \in T : x <= y
  <1> DEFINE Less == OpToRel(<, Nat)
  <1>1. PICK x \in T : \A y \in T : ~(<<y, x>> \in Less)
    <2>1. IsWellFoundedOn(Less, Nat)
      BY NatLessThanWellFounded
    <2> HIDE DEF Less
    <2> QED BY <2>1, WFMin
  <1>2. \A y \in T : ~(y < x)
    BY <1>1 DEF OpToRel
  <1> HIDE DEF Less
  <1> QED BY <1>2

\* A set of numbers up to n has a largest one.
LEMMA LargestExists ==
  ASSUME NEW n \in Nat, NEW S \in SUBSET (0..n), S # {}
  PROVE  \E x \in S : \A y \in S : x >= y
  <1> DEFINE Gaps == {n - x : x \in S}
              Less == OpToRel(<, Nat)
  <1>0. \A x \in S : x \in Int /\ n - x \in Nat
    OBVIOUS
  <1>1. Gaps \subseteq Nat /\ Gaps # {}
    <2>1. PICK x : x \in S
      OBVIOUS
    <2>2. n - x \in Gaps
      BY <2>1
    <2> QED
      BY <1>0, <2>2
  <1>2. IsWellFoundedOn(Less, Nat)
    BY NatLessThanWellFounded
  <1>3. PICK d \in Gaps : \A e \in Gaps : ~(<<e, d>> \in Less)
    <2> HIDE DEF Gaps, Less
    <2> QED
      BY <1>1, <1>2, WFMin
  <1>4. \A e \in Gaps : ~(e < d)
    BY <1>1, <1>3 DEF OpToRel
  <1>5. PICK x \in S : d = n - x
    BY <1>3
  <1>6. ASSUME NEW y \in S PROVE x >= y
    <2>1. n - y \in Gaps
      OBVIOUS
    <2>2. ~(n - y < n - x)
      BY <1>4, <1>5, <2>1
    <2> HIDE DEF Gaps, Less
    <2> QED
      BY <1>0, <2>2
  <1> QED
    BY <1>6

\* A set of numbers from 0 that holds each next one is the whole interval.
LEMMA Counting ==
  ASSUME NEW c \in Nat, NEW S \in SUBSET (0..c), 0 \in S,
         \A n \in 0..c : n \in S /\ n < c => n + 1 \in S
  PROVE  S = 0..c
  <1> DEFINE Left == (0..c) \ S
              Less == OpToRel(<, Nat)
  <1>1. SUFFICES ASSUME Left # {} PROVE FALSE
    OBVIOUS
  <1>2. PICK n \in Left : \A m \in Left : ~(<<m, n>> \in Less)
    <2>1. Left \subseteq Nat
      OBVIOUS
    <2>2. IsWellFoundedOn(Less, Nat)
      BY NatLessThanWellFounded
    <2> HIDE DEF Less, Left
    <2> QED
      BY <1>1, <2>1, <2>2, WFMin
  <1>3. \A m \in Left : ~(m < n)
    <2>1. n \in Nat /\ \A m \in Left : m \in Nat
      OBVIOUS
    <2> HIDE DEF Left
    <2> QED
      BY <1>2, <2>1 DEF OpToRel
  <1> HIDE DEF Less
  <1>4. n \in 0..c /\ n \notin S
    OBVIOUS
  <1>5. n # 0 /\ n - 1 \in 0..c /\ n - 1 < n /\ n - 1 < c /\ (n - 1) + 1 = n
    BY <1>4
  <1>6. n - 1 \in S
    BY <1>3, <1>5
  <1> QED
    BY <1>4, <1>5, <1>6

-----------------------------------------------------------------------------
(* Picked takes the elements it keeps, in their order *)

\* p is the list of the numbers in keep, from the smallest to the largest.
Lists(p, keep) ==
    /\ p \in Seq(keep)
    /\ \A k \in keep : \E i \in DOMAIN p : p[i] = k
    /\ \A i, j \in DOMAIN p : i < j => p[i] < p[j]

\* The elements of s at the positions p, in this order
Through(s, p) == [i \in DOMAIN p |-> s[p[i]]]

\* The recursive function in Picked, up to n
Gathers(f, n, s, keep) ==
    f = [m \in 0..n |-> IF m = 0 THEN <<>>
                        ELSE IF m \in keep THEN Append(f[m - 1], s[m])
                        ELSE f[m - 1]]

LEMMA GathersExist ==
  ASSUME NEW s, NEW keep, NEW n \in Nat
  PROVE  \E f : Gathers(f, n, s, keep)
  <1> DEFINE Bad == {k \in Nat : ~ \E f : Gathers(f, k, s, keep)}
  <1>1. SUFFICES ASSUME Bad # {} PROVE FALSE
    OBVIOUS
  <1>2. PICK k \in Bad : \A j \in Bad : k <= j
    BY <1>1, LeastExists
  <1>3. k # 0
    <2>1. Gathers([m \in 0..0 |-> <<>>], 0, s, keep)
      BY DEF Gathers
    <2> QED BY <1>2, <2>1
  <1>4. PICK f : Gathers(f, k - 1, s, keep)
    BY <1>2, <1>3
  <1> DEFINE g == [m \in 0..k |->
                      IF m < k THEN f[m]
                      ELSE IF k \in keep THEN Append(f[k - 1], s[k])
                      ELSE f[k - 1]]
  <1>5. k \in Nat \ {0}
    BY <1>2, <1>3
  <1>6. \A m \in 0..(k - 1) : f[m] =
            IF m = 0 THEN <<>> ELSE IF m \in keep THEN Append(f[m - 1], s[m])
            ELSE f[m - 1]
    BY <1>4 DEF Gathers
  <1> HIDE DEF Bad
  <1>7. \A m \in 0..k : g[m] = IF m = 0 THEN <<>>
                               ELSE IF m \in keep THEN Append(g[m - 1], s[m])
                               ELSE g[m - 1]
    <2> SUFFICES ASSUME NEW m \in 0..k
                 PROVE  g[m] = IF m = 0 THEN <<>>
                               ELSE IF m \in keep THEN Append(g[m - 1], s[m])
                               ELSE g[m - 1]
      OBVIOUS
    <2>1. CASE m < k
      <3>1. g[m] = f[m] /\ (m # 0 => g[m - 1] = f[m - 1])
        BY <1>5, <2>1
      <3> HIDE DEF g
      <3> QED BY <1>5, <1>6, <2>1, <3>1
    <2>2. CASE m = k
      BY <1>5, <2>2
    <2> QED BY <1>5, <2>1, <2>2
  <1>8. Gathers(g, k, s, keep)
    <2>1. g = [m \in 0..k |-> g[m]]
      OBVIOUS
    <2> HIDE DEF g
    <2> QED BY <1>7, <2>1 DEF Gathers
  <1> QED BY <1>2, <1>8 DEF Bad

LEMMA PickedTakes ==
  ASSUME NEW S, NEW s \in Seq(S), NEW keep
  PROVE  \E f : Gathers(f, Len(s), s, keep) /\ Picked(s, keep) = f[Len(s)]
  <1> DEFINE F == CHOOSE f : Gathers(f, Len(s), s, keep)
  <1>1. Gathers(F, Len(s), s, keep)
    BY GathersExist
  <1>2. Picked(s, keep) = F[Len(s)]
    BY DEF Picked, Gathers
  <1> QED BY <1>1, <1>2

\* What is picked of the first n elements
PickedUpTo(n, f, s, keep) ==
    \E p : Lists(p, {k \in keep : k <= n}) /\ f[n] = Through(s, p)

LEMMA PickedOneMore ==
  ASSUME NEW S, NEW s \in Seq(S), NEW keep \in SUBSET (1..Len(s)),
         NEW f, Gathers(f, Len(s), s, keep),
         NEW n \in 1..Len(s), PickedUpTo(n - 1, f, s, keep)
  PROVE  PickedUpTo(n, f, s, keep)
  <1> DEFINE old == {k \in keep : k <= n - 1}
             new == {k \in keep : k <= n}
  <1>1. Len(s) \in Nat /\ n \in Nat /\ n # 0 /\ n \in 0..Len(s)
    OBVIOUS
  <1>2. \A k \in keep : k \in Int /\ k >= 1 /\ k <= Len(s)
    OBVIOUS
  <1>3. PICK p : Lists(p, old) /\ f[n - 1] = Through(s, p)
    BY DEF PickedUpTo
  <1>4. f[n] = IF n \in keep THEN Append(f[n - 1], s[n]) ELSE f[n - 1]
    BY <1>1 DEF Gathers
  <1>5. \A k \in old : k < n /\ k \in Nat
    OBVIOUS
  <1>6. CASE n \in keep
    <2> DEFINE q == Append(p, n)
    <2>1. new = old \union {n}
      <3>1. \A k \in keep : k <= n <=> (k <= n - 1 \/ k = n)
        BY <1>1, <1>2
      <3> QED BY <1>1, <1>6, <3>1
    <2> HIDE DEF old, new
    <2>2. Lists(q, new)
      <3>1. p \in Seq(old) /\ p \in Seq(new) /\ q \in Seq(new)
        BY <1>3, <2>1 DEF Lists
      <3>2. \A i \in DOMAIN p : p[i] < n /\ q[i] = p[i]
        BY <1>5, <3>1
      <3>3. /\ DOMAIN p = 1..Len(p) /\ Len(p) \in Nat
            /\ DOMAIN q = 1..(Len(p) + 1) /\ q[Len(p) + 1] = n
        BY <3>1
      <3>4. \A k \in new : \E i \in DOMAIN q : q[i] = k
        <4>1. ASSUME NEW k \in old PROVE \E i \in DOMAIN q : q[i] = k
          <5>1. PICK i \in DOMAIN p : p[i] = k
            BY <1>3, <4>1 DEF Lists
          <5>2. i \in DOMAIN q /\ q[i] = k
            BY <3>2, <3>3, <5>1
          <5> QED BY <5>2
        <4>2. Len(p) + 1 \in DOMAIN q
          BY <3>3
        <4> HIDE DEF q
        <4> QED BY <2>1, <3>3, <4>1, <4>2
      <3>5. \A i, j \in DOMAIN q : i < j => q[i] < q[j]
        BY <1>3, <3>2, <3>3 DEF Lists
      <3> QED BY <3>1, <3>4, <3>5 DEF Lists
    <2>3. Through(s, q) = Append(Through(s, p), s[n])
      <3>1. /\ p \in Seq(old) /\ DOMAIN p = 1..Len(p) /\ Len(p) \in Nat
            /\ \A i \in 1..Len(p) : p[i] \in 1..Len(s)
        <4>1. \A k \in old : k \in 1..Len(s)
          BY <1>1, <1>2 DEF old
        <4>2. p \in Seq(old)
          BY <1>3 DEF Lists
        <4>3. DOMAIN p = 1..Len(p) /\ Len(p) \in Nat
              /\ \A i \in 1..Len(p) : p[i] \in old
          BY <4>2
        <4> QED BY <4>1, <4>2, <4>3
      <3>2. Through(s, p) \in Seq(S) /\ Len(Through(s, p)) = Len(p)
        BY <3>1 DEF Through
      <3>3. s[n] \in S
        OBVIOUS
      <3>4. /\ q \in Seq(old \union {n}) /\ DOMAIN q = 1..(Len(p) + 1)
            /\ q[Len(p) + 1] = n /\ \A i \in 1..Len(p) : q[i] = p[i]
        BY <3>1
      <3> DEFINE u == Append(Through(s, p), s[n])
      <3>5. /\ u \in Seq(S) /\ DOMAIN u = 1..(Len(p) + 1)
            /\ u[Len(p) + 1] = s[n] /\ \A i \in 1..Len(p) : u[i] = s[p[i]]
        BY <3>1, <3>2, <3>3 DEF Through
      <3>6. \A i \in 1..(Len(p) + 1) : u[i] = s[q[i]]
        <4> HIDE DEF u, q
        <4> QED BY <3>1, <3>4, <3>5
      <3>7. Through(s, q) = [i \in 1..(Len(p) + 1) |-> s[q[i]]]
        BY <3>4 DEF Through
      <3>8. u = [i \in 1..(Len(p) + 1) |-> u[i]]
        BY <3>5
      <3> HIDE DEF u, q
      <3>9. Through(s, q) = u
        BY <3>7, <3>8, <3>6
      <3> QED BY <3>9 DEF u
    <2> QED BY <1>3, <1>4, <1>6, <2>2, <2>3 DEF PickedUpTo, new
  <1>7. CASE n \notin keep
    <2>1. new = old
      <3>1. \A k \in keep : k <= n <=> k <= n - 1
        BY <1>1, <1>7, <1>2
      <3> QED BY <3>1
    <2> QED BY <1>3, <1>4, <1>7, <2>1 DEF PickedUpTo
  <1> QED BY <1>6, <1>7

LEMMA PickedThrough ==
  ASSUME NEW S, NEW s \in Seq(S), NEW keep \in SUBSET (1..Len(s))
  PROVE  \E p : Lists(p, keep) /\ Picked(s, keep) = Through(s, p)
  <1>1. Len(s) \in Nat
    OBVIOUS
  <1>2. \A k \in keep : k \in Int /\ k >= 1 /\ k <= Len(s)
    OBVIOUS
  <1>3. PICK f : Gathers(f, Len(s), s, keep) /\ Picked(s, keep) = f[Len(s)]
    BY PickedTakes
  <1> DEFINE Bad == {n \in 0..Len(s) : ~PickedUpTo(n, f, s, keep)}
  <1>4. PickedUpTo(0, f, s, keep)
    <2>1. f[0] = <<>>
      BY <1>1, <1>3 DEF Gathers
    <2>2. {k \in keep : k <= 0} = {}
      <3>1. \A k \in keep : ~(k <= 0)
        BY <1>2
      <3> QED BY <3>1
    <2>3. Lists(<<>>, {}) /\ Through(s, <<>>) = <<>>
      BY DEF Lists, Through
    <2> QED BY <2>1, <2>2, <2>3 DEF PickedUpTo
  <1>5. Bad = {}
    <2>1. SUFFICES ASSUME Bad # {} PROVE FALSE
      OBVIOUS
    <2>2. Bad \subseteq Nat
      BY <1>1
    <2>3. PICK n \in Bad : \A m \in Bad : n <= m
      <3> HIDE DEF Bad
      <3> QED BY <2>1, <2>2, LeastExists
    <2>4. n \in 1..Len(s) /\ n - 1 \notin Bad
      BY <1>1, <1>4, <2>3
    <2>5. PickedUpTo(n - 1, f, s, keep)
      BY <1>1, <2>4
    <2> QED BY <1>3, <2>3, <2>4, <2>5, PickedOneMore
  <1>6. PickedUpTo(Len(s), f, s, keep)
    BY <1>1, <1>5
  <1>7. {k \in keep : k <= Len(s)} = keep
    BY <1>1, <1>2
  <1> QED BY <1>3, <1>6, <1>7 DEF PickedUpTo

LEMMA PickedWithin ==
  ASSUME NEW S, NEW s \in Seq(S), NEW keep \in SUBSET (DOMAIN s)
  PROVE  Picked(s, keep) \in Seq({s[k] : k \in keep})
  <1>1. DOMAIN s = 1..Len(s)
    OBVIOUS
  <1>2. PICK p : Lists(p, keep) /\ Picked(s, keep) = Through(s, p)
    BY <1>1, PickedThrough
  <1>3. p \in Seq(keep)
    BY <1>2 DEF Lists
  <1>4. DOMAIN p = 1..Len(p) /\ Len(p) \in Nat /\ \A i \in DOMAIN p : p[i] \in keep
    BY <1>3
  <1>5. Through(s, p) \in [1..Len(p) -> {s[k] : k \in keep}]
    BY <1>4 DEF Through
  <1> QED BY <1>2, <1>4, <1>5
=============================================================================
