------------------------- MODULE ExampleProgramProofs -------------------------
(***************************************************************************)
(* The example Host and its client for any word and byte, any addresses,   *)
(* keys, values and codes, and any number of calls.  First the arithmetic: *)
(* arrays of bytes compare as the numbers they encode, by induction over   *)
(* their length.  Then the maps, which find an entry under its own key     *)
(* only, and what follows from it for the Host and for main().             *)
(***************************************************************************)
EXTENDS ExampleProgram, SequenceTheorems, FiniteSetTheorems, WellFoundedInduction, TLAPS

(* Induction over the naturals, and functions given by recursion.         *)
LEMMA LeastElement ==
    ASSUME NEW S \in SUBSET Nat, S # {}
    PROVE  \E n \in S : \A m \in S : n <= m
<1> DEFINE below(n) == 1..n
           T == {below(n) : n \in S}
<1>1. T \subseteq FiniteSubsetsOf(Nat)
  BY FS_Interval DEF FiniteSubsetsOf
<1>2. T # {}
  OBVIOUS
<1>3. PICK x \in T : \A y \in T : ~(<<y, x>> \in StrictSubsetOrdering(Nat))
  BY <1>1, <1>2, FS_StrictSubsetOrderingWellFounded, WFMin
<1>4. PICK n \in S : x = below(n)
  OBVIOUS
<1>5. ASSUME NEW m \in S PROVE n <= m
  <2>1. ~(<<below(m), below(n)>> \in StrictSubsetOrdering(Nat))
    BY <1>3, <1>4
  <2>2. below(m) \in SUBSET Nat /\ below(n) \in SUBSET Nat
    OBVIOUS
  <2>3. ~(below(m) \subseteq below(n) /\ below(m) # below(n))
    BY <2>1, <2>2 DEF StrictSubsetOrdering
  <2>4. CASE m < n
    <3>1. n \in below(n) /\ n \notin below(m)
      BY <2>4
    <3>2. below(m) \subseteq below(n)
      BY <2>4
    <3> QED BY <3>1, <3>2, <2>3
  <2> QED BY <2>4
<1> QED BY <1>5

(* Induction: a set with 0 and the successors of its elements.              *)
LEMMA InductiveSet ==
    ASSUME NEW S, 0 \in S, \A n \in Nat : n \in S => n + 1 \in S
    PROVE  Nat \subseteq S
<1> DEFINE T == Nat \ S
<1>1. CASE T # {}
  <2>1. PICK n \in T : \A m \in T : n <= m
    BY <1>1, LeastElement
  <2>2. n - 1 \in Nat /\ n - 1 \in S
    BY <2>1
  <2> QED BY <2>1, <2>2
<1> QED BY <1>1

(* f is given for 0..k by its first value and by a step from each to the   *)
(* next.                                                                   *)
Recurses(f, k, S, first, step) ==
    /\ f \in [0..k -> S]
    /\ f[0] = first
    /\ \A n \in 1..k : f[n] = step[<<n, f[n - 1]>>]

(* What is given for 0..k can be given for k + 1 too.                       *)
LEMMA OneStepMore ==
    ASSUME NEW S, NEW first \in S, NEW step \in [Nat \X S -> S], NEW k \in Nat,
           NEW f, Recurses(f, k, S, first, step)
    PROVE  \E g : Recurses(g, k + 1, S, first, step)
<1>1. step[<<k + 1, f[k]>>] \in S
  BY DEF Recurses
<1>2. PICK g : g = [n \in 0..(k + 1) |-> IF n <= k THEN f[n] ELSE step[<<k + 1, f[k]>>]]
  OBVIOUS
<1>3. g \in [0..(k + 1) -> S]
  <2>1. \A n \in 0..(k + 1) : (IF n <= k THEN f[n] ELSE step[<<k + 1, f[k]>>]) \in S
    BY <1>1 DEF Recurses
  <2> QED BY <1>2, <2>1
<1>4. g[0] = first
  BY <1>2 DEF Recurses
<1>5. ASSUME NEW n \in 1..(k + 1) PROVE g[n] = step[<<n, g[n - 1]>>]
  <2>1. CASE n <= k
    <3>1. n \in 1..k /\ n \in 0..(k + 1) /\ n - 1 \in 0..(k + 1) /\ n - 1 <= k
      BY <2>1
    <3>2. g[n] = f[n] /\ g[n - 1] = f[n - 1]
      BY <1>2, <3>1
    <3> QED BY <3>1, <3>2 DEF Recurses
  <2>2. CASE n = k + 1
    <3>1. n \in 0..(k + 1) /\ n - 1 = k /\ ~(n <= k) /\ k \in 0..(k + 1)
      BY <2>2
    <3>2. g[n] = step[<<k + 1, f[k]>>] /\ g[k] = f[k]
      BY <1>2, <3>1
    <3> QED BY <3>1, <3>2, <2>2
  <2> QED BY <2>1, <2>2
<1> QED BY <1>3, <1>4, <1>5 DEF Recurses

(* So there is such a function for every m.                                 *)
LEMMA Recursion ==
    ASSUME NEW S, NEW first \in S, NEW step \in [Nat \X S -> S], NEW m \in Nat
    PROVE  \E f : Recurses(f, m, S, first, step)
<1> DEFINE Done == {k \in Nat : \E f : Recurses(f, k, S, first, step)}
<1>1. 0 \in Done
  <2>1. PICK f : f = [n \in 0..0 |-> first]
    OBVIOUS
  <2>2. f \in [0..0 -> S] /\ f[0] = first /\ \A n \in 1..0 : FALSE
    BY <2>1
  <2>3. Recurses(f, 0, S, first, step)
    BY <2>2 DEF Recurses
  <2> QED
    BY <2>3
<1>2. ASSUME NEW k \in Nat, k \in Done PROVE k + 1 \in Done
  <2>1. PICK f : Recurses(f, k, S, first, step)
    BY <1>2
  <2>2. \E g : Recurses(g, k + 1, S, first, step)
    BY <2>1, OneStepMore
  <2> QED BY <2>2
<1> HIDE DEF Done
<1>3. Nat \subseteq Done
  BY <1>1, <1>2, InductiveSet
<1>4. m \in Done
  BY <1>3
<1> QED BY <1>4 DEF Done

LEMMA NumberStep ==
    ASSUME NEW data \in Seq(Byte), NEW n \in 1..Len(data), NEW x \in Nat
    PROVE  x * Base + data[n] \in Nat
<1>1. Base \in Nat /\ data[n] \in Nat
  BY ByteAssumption DEF Byte
<1>2. x * Base \in Nat
  BY <1>1
<1> QED BY <1>1, <1>2

(* The recursion of Numbers() has a solution,                               *)
LEMMA NumbersExist ==
    ASSUME NEW data \in Seq(Byte), NEW l, l = Len(data)
    PROVE  \E f \in [0..l -> Nat] :
              f[0] = 0 /\ \A n \in 1..l : f[n] = f[n - 1] * Base + data[n]
<1>1. PICK step : step = [p \in Nat \X Nat |-> IF p[1] \in 1..l THEN p[2] * Base + data[p[1]] ELSE 0]
  OBVIOUS
<1>2. ASSUME NEW p \in Nat \X Nat
      PROVE  (IF p[1] \in 1..l THEN p[2] * Base + data[p[1]] ELSE 0) \in Nat
  <2>1. p[2] \in Nat
    OBVIOUS
  <2> QED BY <2>1, NumberStep
<1>3. step \in [Nat \X Nat -> Nat]
  BY <1>1, <1>2
<1>4. l \in Nat
  OBVIOUS
<1>5. PICK f : Recurses(f, l, Nat, 0, step)
  BY <1>3, <1>4, Recursion
<1>6. ASSUME NEW n \in 1..l PROVE f[n] = f[n - 1] * Base + data[n]
  <2>1. n \in Nat /\ n - 1 \in 0..l
    BY <1>4
  <2>2. <<n, f[n - 1]>> \in Nat \X Nat
    BY <1>5, <2>1 DEF Recurses
  <2>3. f[n] = step[<<n, f[n - 1]>>]
    BY <1>5 DEF Recurses
  <2> QED BY <2>2, <2>3, <1>1
<1> QED BY <1>5, <1>6 DEF Recurses

(* which is what Numbers() is.                                              *)
LEMMA NumbersAre ==
    ASSUME NEW data \in Seq(Byte), NEW l, l = Len(data)
    PROVE  /\ Numbers(data) \in [0..l -> Nat]
           /\ Numbers(data)[0] = 0
           /\ \A n \in 1..l : Numbers(data)[n] = Numbers(data)[n - 1] * Base + data[n]
<1> DEFINE F(f) == [n \in 0..l |-> IF n = 0 THEN 0 ELSE f[n - 1] * Base + data[n]]
<1>1. l \in Nat
  OBVIOUS
<1>2. PICK f \in [0..l -> Nat] : f[0] = 0 /\ \A n \in 1..l : f[n] = f[n - 1] * Base + data[n]
  BY NumbersExist
<1>3. f = F(f)
  <2>1. \A n \in 0..l : f[n] = F(f)[n]
    BY <1>1, <1>2
  <2> QED BY <2>1
<1>4. PICK g : g = Numbers(data) /\ g = CHOOSE h : h = F(h)
  BY Zenon DEF Numbers
<1>5. g = F(g)
  <2> HIDE DEF F
  <2> QED BY <1>3, <1>4
<1>6. /\ DOMAIN g = 0..l
      /\ g[0] = 0
      /\ \A n \in 1..l : g[n] = g[n - 1] * Base + data[n]
  <2>1. \A n \in 0..l : g[n] = IF n = 0 THEN 0 ELSE g[n - 1] * Base + data[n]
    BY <1>5
  <2> QED BY <1>1, <1>5, <2>1
<1>7. \A n \in 0..l : g[n] \in Nat
  <2> DEFINE Done == {n \in Nat : n <= l => g[n] \in Nat}
  <2>1. 0 \in Done
    BY <1>6
  <2>2. ASSUME NEW n \in Nat, n \in Done PROVE n + 1 \in Done
    <3>1. CASE n + 1 <= l
      <4>1. g[n] \in Nat /\ n + 1 \in 1..l /\ (n + 1) - 1 = n
        BY <1>1, <2>2, <3>1
      <4>2. g[n] * Base + data[n + 1] \in Nat
        BY <4>1, NumberStep
      <4> QED BY <1>6, <4>1, <4>2
    <3> QED BY <3>1
  <2> HIDE DEF Done
  <2>3. Nat \subseteq Done
    BY <2>1, <2>2, InductiveSet
  <2> QED BY <1>1, <2>3 DEF Done
<1>8. g \in [0..l -> Nat]
  <2>1. g = [n \in 0..l |-> g[n]]
    BY <1>5
  <2> QED BY <1>7, <2>1
<1> QED BY <1>4, <1>6, <1>8

------------------------------------------------------------------------------
(* The numbers of arrays of bytes.                                         *)
LEMMA Times ==
    ASSUME NEW x \in Nat, NEW y \in Nat, x < y
    PROVE  x * Base + Base <= y * Base
<1>1. PICK k \in Nat : y = x + 1 + k
  <2>1. y - x - 1 \in Nat /\ y = x + 1 + (y - x - 1)
    OBVIOUS
  <2> QED BY <2>1
<1>2. Base \in Nat
  BY ByteAssumption
<1>3. y * Base = x * Base + Base + k * Base
  BY <1>1, <1>2
<1>4. k * Base \in Nat /\ x * Base \in Nat
  BY <1>2
<1> QED BY <1>2, <1>3, <1>4

(* The number with one more digit.                                         *)
Longer(x, d) == x * Base + d

(* A digit is less than the base: what comes before it decides.             *)
LEMMA OneDigitMore ==
    ASSUME NEW x \in Nat, NEW y \in Nat, NEW d \in Byte, NEW e \in Byte
    PROVE  /\ x < y => Longer(x, d) < Longer(y, e)
           /\ Longer(x, d) = Longer(y, e) => x = y /\ d = e
<1>1. Base \in Nat /\ d \in Nat /\ e \in Nat /\ d < Base /\ e < Base
  BY ByteAssumption DEF Byte
<1>2. x * Base \in Nat /\ y * Base \in Nat
  BY <1>1
<1>3. x < y => x * Base + Base <= y * Base
  BY Times
<1>4. y < x => y * Base + Base <= x * Base
  BY Times
<1>5. x < y => x * Base + d < y * Base + e
  BY <1>1, <1>2, <1>3
<1>6. y < x => y * Base + e < x * Base + d
  BY <1>1, <1>2, <1>4
<1>7. x = y /\ x * Base + d = y * Base + e => d = e
  BY <1>1, <1>2
<1> QED BY <1>1, <1>2, <1>5, <1>6, <1>7 DEF Longer

LEMMA SameDigit ==
    ASSUME NEW x, NEW y, NEW d, NEW e, x \in Nat, y \in Nat, d \in Byte, e \in Byte,
           Longer(x, d) = Longer(y, e)
    PROVE  x = y /\ d = e
BY OneDigitMore

(* The number of one byte more.                                             *)
LEMMA NumberNext ==
    ASSUME NEW data \in Seq(Byte), NEW n \in Nat, n + 1 <= Len(data)
    PROVE  /\ Numbers(data)[n] \in Nat /\ data[n + 1] \in Byte
           /\ Numbers(data)[n + 1] = Longer(Numbers(data)[n], data[n + 1])
<1>1. PICK l \in Nat : l = Len(data)
  OBVIOUS
<1>2. n \in 0..l /\ n + 1 \in 1..l /\ (n + 1) - 1 = n
  BY <1>1
<1>3. data[n + 1] \in Byte
  BY <1>1, <1>2
<1>4. /\ Numbers(data) \in [0..l -> Nat]
      /\ \A m \in 1..l : Numbers(data)[m] = Numbers(data)[m - 1] * Base + data[m]
  BY <1>1, NumbersAre
<1>5. Numbers(data)[n] \in Nat
  BY <1>2, <1>4
<1>6. Numbers(data)[n + 1] = Numbers(data)[n] * Base + data[n + 1]
  BY <1>2, <1>4
<1> QED BY <1>3, <1>5, <1>6 DEF Longer

(* Whatever the bytes after i are, the first i decide if they differ.       *)
LEMMA Dominates ==
    ASSUME NEW a \in Seq(Byte), NEW b \in Seq(Byte), Len(a) = Len(b),
           NEW i \in Nat, i <= Len(a), Numbers(a)[i] < Numbers(b)[i]
    PROVE  loadbe(a) < loadbe(b)
<1> DEFINE Done == {n \in Nat : i <= n /\ n <= Len(a) => Numbers(a)[n] < Numbers(b)[n]}
<1>1. PICK l \in Nat : l = Len(a) /\ l = Len(b)
  OBVIOUS
<1>2. ASSUME NEW n \in Nat, n \in Done PROVE n + 1 \in Done
  <2>1. CASE i <= n /\ n + 1 <= l
    <3>1. Numbers(a)[n] < Numbers(b)[n]
      BY <1>1, <1>2, <2>1
    <3>2. /\ Numbers(a)[n] \in Nat /\ a[n + 1] \in Byte
          /\ Numbers(a)[n + 1] = Longer(Numbers(a)[n], a[n + 1])
      BY <1>1, <2>1, NumberNext
    <3>3. /\ Numbers(b)[n] \in Nat /\ b[n + 1] \in Byte
          /\ Numbers(b)[n + 1] = Longer(Numbers(b)[n], b[n + 1])
      BY <1>1, <2>1, NumberNext
    <3>4. Numbers(a)[n + 1] < Numbers(b)[n + 1]
      BY <3>1, <3>2, <3>3, OneDigitMore
    <3> QED BY <3>4
  <2>2. CASE n + 1 <= l /\ n < i
    <3>1. n + 1 <= i
      BY <1>1, <2>2
    <3>2. i <= n + 1 => n + 1 = i
      BY <1>1, <3>1
    <3> QED BY <3>2
  <2> QED BY <1>1, <2>1, <2>2
<1>3. 0 \in Done
  <2>1. i <= 0 => i = 0
    BY <1>1
  <2> QED BY <2>1
<1> HIDE DEF Done
<1>4. Nat \subseteq Done
  BY <1>2, <1>3, InductiveSet
<1> QED BY <1>1, <1>4 DEF Done, loadbe

LEMMA SameDifference ==
    ASSUME NEW x, NEW y, NEW p, NEW q, NEW d, NEW e,
           x \in Nat, y \in Nat, p \in Nat, q \in Nat, d \in Byte, e \in Byte,
           x - y = p - q
    PROVE  Longer(x, d) - Longer(y, e) = Longer(p, d) - Longer(q, e)
<1>1. Base \in Nat /\ d \in Nat /\ e \in Nat
  BY ByteAssumption DEF Byte
<1>2. x * Base \in Nat /\ y * Base \in Nat /\ p * Base \in Nat /\ q * Base \in Nat
  BY <1>1
<1>3. x + q = p + y
  OBVIOUS
<1>4. (x + q) * Base = (p + y) * Base
  BY <1>3
<1>5. x * Base + q * Base = p * Base + y * Base
  BY <1>1, <1>4
<1> QED BY <1>1, <1>2, <1>5 DEF Longer

LEMMA PartOfBytes ==
    ASSUME NEW a \in Seq(Byte), NEW i \in Nat, NEW j \in Nat, i <= j, j <= Len(a)
    PROVE  /\ SubSeq(a, i + 1, j) \in Seq(Byte) /\ Len(SubSeq(a, i + 1, j)) = j - i
           /\ \A n \in 1..(j - i) : SubSeq(a, i + 1, j)[n] = a[i + n]
<1>1. i + 1 \in Int /\ j \in Int
  OBVIOUS
<1>2. \A n \in (i + 1)..j : a[n] \in Byte
  <2>1. \A n \in (i + 1)..j : n \in 1..Len(a)
    OBVIOUS
  <2> QED BY <2>1
<1>3. /\ SubSeq(a, i + 1, j) \in Seq(Byte)
      /\ Len(SubSeq(a, i + 1, j)) = IF i + 1 <= j THEN j - (i + 1) + 1 ELSE 0
      /\ \A n \in 1..(j - (i + 1) + 1) : SubSeq(a, i + 1, j)[n] = a[(i + 1) + n - 1]
  BY <1>1, <1>2, SubSeqProperties
<1>4. j - (i + 1) + 1 = j - i /\ \A n \in 1..(j - i) : (i + 1) + n - 1 = i + n
  OBVIOUS
<1>5. Len(SubSeq(a, i + 1, j)) = j - i
  BY <1>3
<1> QED BY <1>3, <1>4, <1>5

(* Two arrays of one length, equal as numbers up to i, and j after i.      *)
Agree(a, b, i, j) ==
    /\ a \in Seq(Byte) /\ b \in Seq(Byte) /\ Len(a) = Len(b)
    /\ i \in Nat /\ j \in Nat /\ i <= j /\ j <= Len(a)
    /\ Numbers(a)[i] = Numbers(b)[i]

(* The difference of two such parts is the one of their first j bytes.      *)
LEMMA Difference ==
    ASSUME NEW a, NEW b, NEW i, NEW j, Agree(a, b, i, j)
    PROVE  /\ SubSeq(a, i + 1, j) \in Seq(Byte) /\ Len(SubSeq(a, i + 1, j)) = j - i
           /\ SubSeq(b, i + 1, j) \in Seq(Byte) /\ Len(SubSeq(b, i + 1, j)) = j - i
           /\ loadbe(SubSeq(a, i + 1, j)) - loadbe(SubSeq(b, i + 1, j))
                  = Numbers(a)[j] - Numbers(b)[j]
<1>1. PICK c, d : c = SubSeq(a, i + 1, j) /\ d = SubSeq(b, i + 1, j)
  OBVIOUS
<1> USE DEF Agree
<1>2. PICK l \in Nat : l = Len(a) /\ l = Len(b) /\ i <= j /\ j <= l
  OBVIOUS
<1>3. c \in Seq(Byte) /\ Len(c) = j - i /\ \A n \in 1..(j - i) : c[n] = a[i + n]
  BY <1>1, <1>2, PartOfBytes
<1>4. d \in Seq(Byte) /\ Len(d) = j - i /\ \A n \in 1..(j - i) : d[n] = b[i + n]
  BY <1>1, <1>2, PartOfBytes
<1> DEFINE Done == {n \in Nat : n <= j - i =>
                       Numbers(c)[n] - Numbers(d)[n] = Numbers(a)[i + n] - Numbers(b)[i + n]}
<1>5. 0 \in Done
  <2>1. Numbers(c)[0] = 0 /\ Numbers(d)[0] = 0
    BY <1>3, <1>4, NumbersAre
  <2>2. Numbers(a)[i] \in Nat
    <3>1. Numbers(a) \in [0..l -> Nat] /\ i \in 0..l
      BY <1>2, NumbersAre
    <3> QED BY <3>1
  <2>3. Numbers(a)[i] - Numbers(b)[i] = 0
    BY <2>2
  <2>4. i + 0 = i
    BY <1>2
  <2> QED BY <2>1, <2>3, <2>4
<1>6. ASSUME NEW n \in Nat, n \in Done PROVE n + 1 \in Done
  <2> SUFFICES ASSUME n + 1 <= j - i
               PROVE  Numbers(c)[n + 1] - Numbers(d)[n + 1] = Numbers(a)[i + (n + 1)] - Numbers(b)[i + (n + 1)]
    OBVIOUS
  <2>1. Numbers(c)[n] - Numbers(d)[n] = Numbers(a)[i + n] - Numbers(b)[i + n]
    BY <1>2, <1>6
  <2>2. n + 1 \in 1..(j - i) /\ i + n \in Nat /\ i + (n + 1) = (i + n) + 1 /\ (i + n) + 1 <= l
    BY <1>2
  <2>3. /\ Numbers(c)[n] \in Nat /\ c[n + 1] \in Byte
        /\ Numbers(c)[n + 1] = Longer(Numbers(c)[n], c[n + 1])
    BY <1>3, NumberNext
  <2>4. /\ Numbers(d)[n] \in Nat /\ d[n + 1] \in Byte
        /\ Numbers(d)[n + 1] = Longer(Numbers(d)[n], d[n + 1])
    BY <1>4, NumberNext
  <2>5. /\ Numbers(a)[i + n] \in Nat /\ a[i + (n + 1)] \in Byte
        /\ Numbers(a)[i + (n + 1)] = Longer(Numbers(a)[i + n], a[i + (n + 1)])
    BY <1>2, <2>2, NumberNext
  <2>6. /\ Numbers(b)[i + n] \in Nat /\ b[i + (n + 1)] \in Byte
        /\ Numbers(b)[i + (n + 1)] = Longer(Numbers(b)[i + n], b[i + (n + 1)])
    BY <1>2, <2>2, NumberNext
  <2>7. c[n + 1] = a[i + (n + 1)] /\ d[n + 1] = b[i + (n + 1)]
    BY <1>3, <1>4, <2>2
  <2>8. Longer(Numbers(c)[n], c[n + 1]) - Longer(Numbers(d)[n], d[n + 1])
            = Longer(Numbers(a)[i + n], c[n + 1]) - Longer(Numbers(b)[i + n], d[n + 1])
    <3>1. PICK x, y, p, q, e, f : /\ x = Numbers(c)[n] /\ y = Numbers(d)[n]
                                  /\ p = Numbers(a)[i + n] /\ q = Numbers(b)[i + n]
                                  /\ e = c[n + 1] /\ f = d[n + 1]
      OBVIOUS
    <3>2. x \in Nat /\ y \in Nat /\ p \in Nat /\ q \in Nat /\ e \in Byte /\ f \in Byte
      BY <2>3, <2>4, <2>5, <2>6, <3>1
    <3>3. x - y = p - q
      BY <2>1, <3>1
    <3>4. Longer(x, e) - Longer(y, f) = Longer(p, e) - Longer(q, f)
      BY ONLY <3>2, <3>3, SameDifference
    <3> QED BY <3>1, <3>4
  <2> QED BY <2>3, <2>4, <2>5, <2>6, <2>7, <2>8
<1> HIDE DEF Done
<1>7. Nat \subseteq Done
  BY <1>5, <1>6, InductiveSet
<1>8. j - i \in Nat /\ i + (j - i) = j
  BY <1>2
<1>9. Numbers(c)[j - i] - Numbers(d)[j - i] = Numbers(a)[j] - Numbers(b)[j]
  <2>1. j - i \in Done
    BY <1>7, <1>8
  <2> QED BY <1>2, <1>8, <2>1 DEF Done
<1> QED BY <1>1, <1>3, <1>4, <1>9 DEF loadbe

(* Different arrays of one length encode different numbers.                 *)
LEMMA SameDigits ==
    ASSUME NEW a \in Seq(Byte), NEW b \in Seq(Byte), Len(a) = Len(b), loadbe(a) = loadbe(b)
    PROVE  a = b
<1>1. PICK l \in Nat : l = Len(a) /\ l = Len(b)
  OBVIOUS
<1> DEFINE Done == {n \in Nat : n <= l /\ Numbers(a)[n] = Numbers(b)[n] =>
                                    \A i \in 1..n : a[i] = b[i]}
<1>2. 0 \in Done
  OBVIOUS
<1>3. ASSUME NEW n \in Nat, n \in Done PROVE n + 1 \in Done
  <2> SUFFICES ASSUME n + 1 <= l, Numbers(a)[n + 1] = Numbers(b)[n + 1]
               PROVE  \A i \in 1..(n + 1) : a[i] = b[i]
    OBVIOUS
  <2>1. /\ Numbers(a)[n] \in Nat /\ a[n + 1] \in Byte
        /\ Numbers(a)[n + 1] = Longer(Numbers(a)[n], a[n + 1])
    BY <1>1, NumberNext
  <2>2. /\ Numbers(b)[n] \in Nat /\ b[n + 1] \in Byte
        /\ Numbers(b)[n + 1] = Longer(Numbers(b)[n], b[n + 1])
    BY <1>1, NumberNext
  <2>3. Numbers(a)[n] = Numbers(b)[n] /\ a[n + 1] = b[n + 1]
    <3>1. PICK x, y, d, e : x = Numbers(a)[n] /\ y = Numbers(b)[n] /\ d = a[n + 1] /\ e = b[n + 1]
      OBVIOUS
    <3>2. x \in Nat /\ y \in Nat /\ d \in Byte /\ e \in Byte /\ Longer(x, d) = Longer(y, e)
      BY <2>1, <2>2, <3>1
    <3>3. x = y /\ d = e
      BY ONLY <3>2, SameDigit
    <3> QED BY <3>1, <3>3
  <2>4. \A i \in 1..n : a[i] = b[i]
    BY <1>1, <1>3, <2>3
  <2>5. \A i \in 1..(n + 1) : i \in 1..n \/ i = n + 1
    OBVIOUS
  <2> QED BY <2>3, <2>4, <2>5
<1> HIDE DEF Done
<1>4. Nat \subseteq Done
  BY <1>2, <1>3, InductiveSet
<1>5. \A i \in 1..l : a[i] = b[i]
  <2>1. l \in Done
    BY <1>1, <1>4
  <2> QED BY <1>1, <2>1 DEF Done, loadbe
<1> QED BY <1>1, <1>5

------------------------------------------------------------------------------
(* Words in either byte order.                                             *)
LEMMA ReverseOfBytes ==
    ASSUME NEW c \in Seq(Byte)
    PROVE  /\ Reverse(c) \in Seq(Byte) /\ Len(Reverse(c)) = Len(c)
           /\ \A i \in 1..Len(c) : Reverse(c)[Len(c) - i + 1] = c[i]
<1>1. PICK l \in Nat : l = Len(c)
  OBVIOUS
<1>2. Reverse(c) = [i \in 1..l |-> c[(l - i) + 1]]
  BY <1>1 DEF Reverse
<1>3. \A i \in 1..l : (l - i) + 1 \in 1..l /\ (l - ((l - i) + 1)) + 1 = i
  BY <1>1
<1>4. \A i \in 1..l : c[(l - i) + 1] \in Byte
  BY <1>1, <1>3
<1>5. Reverse(c) \in Seq(Byte) /\ Len(Reverse(c)) = l
  BY <1>1, <1>2, <1>4
<1>6. \A i \in 1..l : Reverse(c)[(l - i) + 1] = c[i]
  BY <1>2, <1>3
<1> QED BY <1>1, <1>5, <1>6

(* Equality can be decided in the other byte order.                         *)
LEMMA LittleEndian ==
    ASSUME NEW c \in Seq(Byte), NEW d \in Seq(Byte), Len(c) = Len(d)
    PROVE  loadle(c) = loadle(d) <=> c = d
<1>1. ASSUME loadle(c) = loadle(d) PROVE c = d
  <2>1. loadbe(Reverse(c)) = loadbe(Reverse(d))
    BY <1>1 DEF loadle
  <2>2. /\ Reverse(c) \in Seq(Byte) /\ Len(Reverse(c)) = Len(c)
        /\ \A i \in 1..Len(c) : Reverse(c)[Len(c) - i + 1] = c[i]
    BY ReverseOfBytes
  <2>3. /\ Reverse(d) \in Seq(Byte) /\ Len(Reverse(d)) = Len(d)
        /\ \A i \in 1..Len(d) : Reverse(d)[Len(d) - i + 1] = d[i]
    BY ReverseOfBytes
  <2>4. Reverse(c) = Reverse(d)
    BY <2>1, <2>2, <2>3, SameDigits
  <2>5. \A i \in 1..Len(c) : c[i] = d[i]
    BY <2>2, <2>3, <2>4
  <2> QED BY <2>5
<1> QED BY <1>1

LEMMA LastIsInteger ==
    ASSUME NEW a \in Seq(Byte), NEW i \in 0..Len(a)
    PROVE  Numbers(a)[i] \in Nat /\ loadbe(a) \in Nat
<1>1. PICK l \in Nat : l = Len(a)
  OBVIOUS
<1>2. Numbers(a) \in [0..l -> Nat]
  BY <1>1, NumbersAre
<1> QED BY <1>1, <1>2 DEF loadbe

(* Two parts compare as the two numbers.                                   *)
CompareAs(c, d, x, y) ==
    /\ loadbe(c) < loadbe(d) <=> x < y
    /\ loadbe(c) = loadbe(d) <=> x = y
    /\ loadle(c) = loadle(d) <=> x = y

(* Two arrays that agree up to i: the parts from there to j compare as the *)
(* numbers of their first j bytes.                                         *)
LEMMA NextWord ==
    ASSUME NEW a, NEW b, NEW i, NEW j, Agree(a, b, i, j)
    PROVE  CompareAs(SubSeq(a, i + 1, j), SubSeq(b, i + 1, j), Numbers(a)[j], Numbers(b)[j])
<1>1. PICK c, d : c = SubSeq(a, i + 1, j) /\ d = SubSeq(b, i + 1, j)
  OBVIOUS
<1>2. /\ c \in Seq(Byte) /\ Len(c) = j - i /\ d \in Seq(Byte) /\ Len(d) = j - i
      /\ loadbe(c) - loadbe(d) = Numbers(a)[j] - Numbers(b)[j]
  BY <1>1, Difference
<1>3. loadbe(c) \in Nat /\ loadbe(d) \in Nat
  <2>1. 0 \in 0..Len(c) /\ 0 \in 0..Len(d)
    BY <1>2
  <2> QED BY <1>2, <2>1, LastIsInteger
<1>4. Numbers(a)[j] \in Nat /\ Numbers(b)[j] \in Nat
  <2>1. j \in 0..Len(a) /\ j \in 0..Len(b)
    BY DEF Agree
  <2> QED BY <2>1, LastIsInteger DEF Agree
<1>5. /\ loadbe(c) < loadbe(d) <=> Numbers(a)[j] < Numbers(b)[j]
      /\ loadbe(c) = loadbe(d) <=> Numbers(a)[j] = Numbers(b)[j]
  BY <1>2, <1>3, <1>4
<1>6. loadle(c) = loadle(d) <=> loadbe(c) = loadbe(d)
  <2>1. loadbe(c) = loadbe(d) => c = d
    BY <1>2, SameDigits
  <2> QED BY <1>2, <2>1, LittleEndian
<1> QED BY <1>1, <1>5, <1>6 DEF CompareAs

(* The sizes of an address and a bytes32.                                  *)
LEMMA Sizes ==
    /\ W \in Nat /\ W > 0 /\ W \div 2 \in Nat
    /\ \A a \in AllAddresses : a \in Seq(Byte) /\ Len(a) = 2 * W + W \div 2
    /\ \A a \in AllBytes32 : a \in Seq(Byte) /\ Len(a) = 4 * W
<1>1. W \in Nat /\ W > 0 /\ W \div 2 \in Nat
  BY ByteAssumption
<1>2. PICK h \in Nat : h = 2 * W + W \div 2
  BY <1>1
<1>3. PICK q \in Nat : q = 4 * W
  BY <1>1
<1>4. \A a \in AllAddresses : a \in Seq(Byte) /\ Len(a) = h
  BY <1>2 DEF AllAddresses
<1>5. \A a \in AllBytes32 : a \in Seq(Byte) /\ Len(a) = q
  BY <1>3 DEF AllBytes32
<1> QED BY <1>1, <1>2, <1>3, <1>4, <1>5

(* The words of an address and of a bytes32 follow each other.              *)
LEMMA AddressWords ==
    ASSUME NEW a \in AllAddresses, NEW l, l = 2 * W + W \div 2
    PROVE  /\ Word(a, 1) = SubSeq(a, 0 + 1, W) /\ Word(a, 2) = SubSeq(a, W + 1, 2 * W)
           /\ Word(a, 3) = SubSeq(a, 2 * W + 1, l)
<1>1. Len(a) = l /\ W \in Nat /\ l \in Nat /\ 2 * W <= l
  BY Sizes
<1>2. l <= 3 * W
  BY Sizes
<1> QED BY <1>1, <1>2 DEF Word

LEMMA Bytes32Words ==
    ASSUME NEW a \in AllBytes32
    PROVE  /\ Word(a, 1) = SubSeq(a, 0 + 1, W) /\ Word(a, 2) = SubSeq(a, W + 1, 2 * W)
           /\ Word(a, 3) = SubSeq(a, 2 * W + 1, 3 * W) /\ Word(a, 4) = SubSeq(a, 3 * W + 1, 4 * W)
<1>1. Len(a) = 4 * W /\ W \in Nat /\ W > 0
  BY Sizes
<1> QED BY <1>1 DEF Word

(* The numbers of the first i bytes, and those of all.                     *)
LEMMA EarlierDecides ==
    ASSUME NEW a \in Seq(Byte), NEW b \in Seq(Byte), Len(a) = Len(b), NEW i \in 0..Len(a)
    PROVE  /\ Numbers(a)[i] \in Nat /\ Numbers(b)[i] \in Nat
           /\ Numbers(a)[i] < Numbers(b)[i] => loadbe(a) < loadbe(b)
           /\ Numbers(b)[i] < Numbers(a)[i] => loadbe(b) < loadbe(a)
<1>1. Numbers(a)[i] \in Nat /\ Numbers(b)[i] \in Nat
  BY LastIsInteger
<1>2. i \in Nat /\ i <= Len(a) /\ i <= Len(b)
  OBVIOUS
<1>3. Numbers(a)[i] < Numbers(b)[i] => loadbe(a) < loadbe(b)
  BY <1>2, Dominates
<1>4. Numbers(b)[i] < Numbers(a)[i] => loadbe(b) < loadbe(a)
  BY <1>2, Dominates
<1> QED BY <1>1, <1>3, <1>4

(* operator< and operator== of two addresses.                               *)
LEMMA AddressOrder ==
    ASSUME NEW a \in AllAddresses, NEW b \in AllAddresses
    PROVE  /\ address_less(a, b) <=> loadbe(a) < loadbe(b)
           /\ address_equal(a, b) <=> loadbe(a) = loadbe(b)
           /\ loadbe(a) = loadbe(b) <=> a = b
<1>1. PICK l : l = 2 * W + W \div 2
  OBVIOUS
<1>2. W \in Nat /\ l \in Nat /\ 2 * W \in Nat /\ 0 <= W /\ W <= l /\ W <= 2 * W /\ 2 * W <= l
  BY <1>1, Sizes
<1>3. a \in Seq(Byte) /\ b \in Seq(Byte) /\ l = Len(a) /\ l = Len(b)
  BY <1>1, Sizes
<1>4. Agree(a, b, 0, W)
  BY <1>2, <1>3, NumbersAre DEF Agree
<1>5. CompareAs(Word(a, 1), Word(b, 1), Numbers(a)[W], Numbers(b)[W])
  BY <1>1, <1>4, AddressWords, NextWord
<1>6. Numbers(a)[W] = Numbers(b)[W] =>
          CompareAs(Word(a, 2), Word(b, 2), Numbers(a)[2 * W], Numbers(b)[2 * W])
  <2>1. Numbers(a)[W] = Numbers(b)[W] => Agree(a, b, W, 2 * W)
    BY <1>2, <1>3 DEF Agree
  <2> QED BY <1>1, <2>1, AddressWords, NextWord
<1>7. Numbers(a)[2 * W] = Numbers(b)[2 * W] =>
          CompareAs(Word(a, 3), Word(b, 3), Numbers(a)[l], Numbers(b)[l])
  <2>1. Numbers(a)[2 * W] = Numbers(b)[2 * W] => Agree(a, b, 2 * W, l)
    BY <1>2, <1>3 DEF Agree
  <2> QED BY <1>1, <2>1, AddressWords, NextWord
<1>8. W \in 0..l /\ 2 * W \in 0..l /\ l \in 0..l
  BY <1>2
<1>9. /\ Numbers(a)[W] \in Nat /\ Numbers(b)[W] \in Nat
      /\ Numbers(a)[W] < Numbers(b)[W] => loadbe(a) < loadbe(b)
      /\ Numbers(b)[W] < Numbers(a)[W] => loadbe(b) < loadbe(a)
  BY <1>3, <1>8, EarlierDecides
<1>10. /\ Numbers(a)[2 * W] \in Nat /\ Numbers(b)[2 * W] \in Nat
       /\ Numbers(a)[2 * W] < Numbers(b)[2 * W] => loadbe(a) < loadbe(b)
       /\ Numbers(b)[2 * W] < Numbers(a)[2 * W] => loadbe(b) < loadbe(a)
  BY <1>3, <1>8, EarlierDecides
<1>11. loadbe(a) = Numbers(a)[l] /\ loadbe(b) = Numbers(b)[l]
  BY <1>2, <1>3 DEF loadbe
<1>12. loadbe(a) \in Nat /\ loadbe(b) \in Nat
  BY <1>3, <1>8, LastIsInteger
<1>13. loadbe(a) = loadbe(b) <=> a = b
  BY <1>3, SameDigits
<1>14. address_less(a, b) <=> loadbe(a) < loadbe(b)
  BY <1>5, <1>6, <1>7, <1>9, <1>10, <1>11, <1>12 DEF address_less, CompareAs
<1>15. address_equal(a, b) <=> loadbe(a) = loadbe(b)
  <2>1. 1 \in 1..3 /\ 2 \in 1..3 /\ 3 \in 1..3 /\ \A i \in 1..3 : i = 1 \/ i = 2 \/ i = 3
    OBVIOUS
  <2>2. address_equal(a, b) <=> /\ loadle(Word(a, 1)) = loadle(Word(b, 1))
                                /\ loadle(Word(a, 2)) = loadle(Word(b, 2))
                                /\ loadle(Word(a, 3)) = loadle(Word(b, 3))
    BY <2>1, Zenon DEF address_equal
  <2> QED BY <1>5, <1>6, <1>7, <1>11, <1>13, <2>2 DEF CompareAs
<1> QED BY <1>13, <1>14, <1>15

(* operator< and operator== of two bytes32.                                 *)
LEMMA Bytes32Order ==
    ASSUME NEW a \in AllBytes32, NEW b \in AllBytes32
    PROVE  /\ bytes32_less(a, b) <=> loadbe(a) < loadbe(b)
           /\ bytes32_equal(a, b) <=> loadbe(a) = loadbe(b)
           /\ loadbe(a) = loadbe(b) <=> a = b
<1>1. W \in Nat /\ 2 * W \in Nat /\ 3 * W \in Nat /\ 4 * W \in Nat
      /\ 0 <= W /\ W <= 2 * W /\ 2 * W <= 3 * W /\ 3 * W <= 4 * W
  BY Sizes
<1>2. a \in Seq(Byte) /\ b \in Seq(Byte) /\ 4 * W = Len(a) /\ 4 * W = Len(b)
  BY Sizes
<1>3. Agree(a, b, 0, W)
  BY <1>1, <1>2, NumbersAre DEF Agree
<1>4. CompareAs(Word(a, 1), Word(b, 1), Numbers(a)[W], Numbers(b)[W])
  BY <1>3, Bytes32Words, NextWord
<1>5. Numbers(a)[W] = Numbers(b)[W] =>
          CompareAs(Word(a, 2), Word(b, 2), Numbers(a)[2 * W], Numbers(b)[2 * W])
  <2>1. Numbers(a)[W] = Numbers(b)[W] => Agree(a, b, W, 2 * W)
    BY <1>1, <1>2 DEF Agree
  <2> QED BY <2>1, Bytes32Words, NextWord
<1>6. Numbers(a)[2 * W] = Numbers(b)[2 * W] =>
          CompareAs(Word(a, 3), Word(b, 3), Numbers(a)[3 * W], Numbers(b)[3 * W])
  <2>1. Numbers(a)[2 * W] = Numbers(b)[2 * W] => Agree(a, b, 2 * W, 3 * W)
    BY <1>1, <1>2 DEF Agree
  <2> QED BY <2>1, Bytes32Words, NextWord
<1>7. Numbers(a)[3 * W] = Numbers(b)[3 * W] =>
          CompareAs(Word(a, 4), Word(b, 4), Numbers(a)[4 * W], Numbers(b)[4 * W])
  <2>1. Numbers(a)[3 * W] = Numbers(b)[3 * W] => Agree(a, b, 3 * W, 4 * W)
    BY <1>1, <1>2 DEF Agree
  <2> QED BY <2>1, Bytes32Words, NextWord
<1>8. \A i \in {W, 2 * W, 3 * W} :
          /\ Numbers(a)[i] \in Nat /\ Numbers(b)[i] \in Nat
          /\ Numbers(a)[i] < Numbers(b)[i] => loadbe(a) < loadbe(b)
          /\ Numbers(b)[i] < Numbers(a)[i] => loadbe(b) < loadbe(a)
  <2>1. W \in 0..(4 * W) /\ 2 * W \in 0..(4 * W) /\ 3 * W \in 0..(4 * W)
    BY <1>1
  <2> QED BY <1>2, <2>1, EarlierDecides
<1>9. loadbe(a) = Numbers(a)[4 * W] /\ loadbe(b) = Numbers(b)[4 * W]
  BY <1>2 DEF loadbe
<1>10. loadbe(a) \in Nat /\ loadbe(b) \in Nat
  <2>1. 0 \in 0..(4 * W)
    BY <1>1
  <2> QED BY <1>2, <2>1, LastIsInteger
<1>11. loadbe(a) = loadbe(b) <=> a = b
  BY <1>2, SameDigits
<1>12. bytes32_less(a, b) <=> loadbe(a) < loadbe(b)
  BY <1>4, <1>5, <1>6, <1>7, <1>8, <1>9, <1>10 DEF bytes32_less, CompareAs
<1>13. bytes32_equal(a, b) <=> loadbe(a) = loadbe(b)
  <2>1. 1 \in 1..4 /\ 2 \in 1..4 /\ 3 \in 1..4 /\ 4 \in 1..4
        /\ \A i \in 1..4 : i = 1 \/ i = 2 \/ i = 3 \/ i = 4
    OBVIOUS
  <2>2. bytes32_equal(a, b) <=> /\ loadle(Word(a, 1)) = loadle(Word(b, 1))
                                /\ loadle(Word(a, 2)) = loadle(Word(b, 2))
                                /\ loadle(Word(a, 3)) = loadle(Word(b, 3))
                                /\ loadle(Word(a, 4)) = loadle(Word(b, 4))
    BY <2>1, Zenon DEF bytes32_equal
  <2> QED BY <1>4, <1>5, <1>6, <1>7, <1>9, <1>11, <2>2 DEF CompareAs
<1> QED BY <1>11, <1>12, <1>13

------------------------------------------------------------------------------
(* A number is given by its quotient and its remainder.                    *)
LEMMA Division ==
    ASSUME NEW x \in Nat
    PROVE  /\ x \div Base \in Nat /\ x % Base \in Byte
           /\ ((x \div Base) * Base) + (x % Base) = x
<1>1. Base \in Nat /\ Base > 0
  BY ByteAssumption
<1>2. x \div Base \in Nat /\ x % Base \in 0..(Base - 1)
  BY <1>1
<1>3. x = (Base * (x \div Base)) + (x % Base)
  BY <1>1
<1> QED BY <1>1, <1>2, <1>3 DEF Byte

(* The shifts of an integer, and the limits of integers of n bytes.         *)
LEMMA ShiftedIs ==
    ASSUME NEW v \in Nat
    PROVE  /\ Shifted(v) \in [0..W -> Nat] /\ Shifted(v)[0] = v
           /\ \A n \in 1..W : Shifted(v)[n] = Shifted(v)[n - 1] \div Base
<1> DEFINE F(f) == [n \in 0..W |-> IF n = 0 THEN v ELSE f[n - 1] \div Base]
<1>1. PICK step : step = [p \in Nat \X Nat |-> p[2] \div Base]
  OBVIOUS
<1>2. step \in [Nat \X Nat -> Nat]
  <2>1. \A p \in Nat \X Nat : p[2] \in Nat
    OBVIOUS
  <2>2. \A p \in Nat \X Nat : p[2] \div Base \in Nat
    BY <2>1, Division
  <2> QED BY <1>1, <2>2
<1>3. W \in Nat
  BY ByteAssumption
<1>4. PICK f : Recurses(f, W, Nat, v, step)
  BY <1>2, <1>3, Recursion
<1>5. f = F(f)
  <2>1. f \in [0..W -> Nat] /\ f[0] = v
    BY <1>4 DEF Recurses
  <2>2. ASSUME NEW n \in 1..W PROVE f[n] = f[n - 1] \div Base
    <3>1. n \in Nat /\ n - 1 \in 0..W
      BY <1>3
    <3>2. <<n, f[n - 1]>> \in Nat \X Nat
      BY <2>1, <3>1
    <3>3. f[n] = step[<<n, f[n - 1]>>]
      BY <1>4 DEF Recurses
    <3> QED BY <1>1, <3>2, <3>3
  <2>3. \A n \in 0..W : f[n] = IF n = 0 THEN v ELSE f[n - 1] \div Base
    BY <1>3, <2>1, <2>2
  <2> QED BY <2>1, <2>3
<1>6. PICK g : g = Shifted(v) /\ g = CHOOSE h : h = F(h)
  BY Zenon DEF Shifted
<1>7. g = F(g)
  <2> HIDE DEF F
  <2> QED BY <1>5, <1>6
<1>8. /\ g = [n \in 0..W |-> g[n]]
      /\ g[0] = v
      /\ \A n \in 1..W : g[n] = g[n - 1] \div Base
  <2>1. \A n \in 0..W : g[n] = IF n = 0 THEN v ELSE g[n - 1] \div Base
    BY <1>7
  <2> QED BY <1>3, <1>7, <2>1
<1> DEFINE Done == {n \in Nat : n <= W => g[n] \in Nat}
<1>9. 0 \in Done
  BY <1>8
<1>10. ASSUME NEW n \in Nat, n \in Done PROVE n + 1 \in Done
  <2>1. CASE n + 1 <= W
    <3>1. g[n] \in Nat /\ n + 1 \in 1..W /\ (n + 1) - 1 = n
      BY <1>3, <1>10, <2>1
    <3>2. g[n + 1] = g[n] \div Base
      BY <1>8, <3>1
    <3> QED BY <3>1, <3>2, Division
  <2> QED BY <2>1
<1> HIDE DEF Done
<1>11. Nat \subseteq Done
  BY <1>9, <1>10, InductiveSet
<1>12. \A n \in 0..W : g[n] \in Nat
  BY <1>3, <1>11 DEF Done
<1>13. g \in [0..W -> Nat]
  BY <1>8, <1>12
<1> QED BY <1>6, <1>8, <1>13

LEMMA LimitsAre ==
    /\ Limits \in [0..W -> Nat] /\ Limits[0] = 1
    /\ \A n \in 1..W : Limits[n] = Limits[n - 1] * Base
<1> DEFINE F(f) == [n \in 0..W |-> IF n = 0 THEN 1 ELSE f[n - 1] * Base]
<1>1. PICK step : step = [p \in Nat \X Nat |-> p[2] * Base]
  OBVIOUS
<1>2. step \in [Nat \X Nat -> Nat]
  <2>1. \A p \in Nat \X Nat : p[2] \in Nat
    OBVIOUS
  <2>2. \A x \in Nat : x * Base \in Nat
    BY ByteAssumption
  <2>3. \A p \in Nat \X Nat : p[2] * Base \in Nat
    BY <2>1, <2>2
  <2> QED BY <1>1, <2>3
<1>3. W \in Nat /\ 1 \in Nat
  BY ByteAssumption
<1>4. PICK f : Recurses(f, W, Nat, 1, step)
  BY <1>2, <1>3, Recursion
<1>5. f = F(f)
  <2>1. f \in [0..W -> Nat] /\ f[0] = 1
    BY <1>4 DEF Recurses
  <2>2. ASSUME NEW n \in 1..W PROVE f[n] = f[n - 1] * Base
    <3>1. n \in Nat /\ n - 1 \in 0..W
      BY <1>3
    <3>2. <<n, f[n - 1]>> \in Nat \X Nat
      BY <2>1, <3>1
    <3>3. f[n] = step[<<n, f[n - 1]>>]
      BY <1>4 DEF Recurses
    <3> QED BY <1>1, <3>2, <3>3
  <2>3. \A n \in 0..W : f[n] = IF n = 0 THEN 1 ELSE f[n - 1] * Base
    BY <1>3, <2>1, <2>2
  <2> QED BY <2>1, <2>3
<1>6. PICK g : g = Limits /\ g = CHOOSE h : h = F(h)
  BY Zenon DEF Limits
<1>7. g = F(g)
  <2> HIDE DEF F
  <2> QED BY <1>5, <1>6
<1>8. /\ g = [n \in 0..W |-> g[n]]
      /\ g[0] = 1
      /\ \A n \in 1..W : g[n] = g[n - 1] * Base
  <2>1. \A n \in 0..W : g[n] = IF n = 0 THEN 1 ELSE g[n - 1] * Base
    BY <1>7
  <2> QED BY <1>3, <1>7, <2>1
<1> DEFINE Done == {n \in Nat : n <= W => g[n] \in Nat}
<1>9. 0 \in Done
  BY <1>8
<1>10. ASSUME NEW n \in Nat, n \in Done PROVE n + 1 \in Done
  <2>1. CASE n + 1 <= W
    <3>1. g[n] \in Nat /\ n + 1 \in 1..W /\ (n + 1) - 1 = n
      BY <1>3, <1>10, <2>1
    <3>2. g[n + 1] = g[n] * Base
      BY <1>8, <3>1
    <3>3. g[n] * Base \in Nat
      BY <3>1, ByteAssumption
    <3> QED BY <3>2, <3>3
  <2> QED BY <2>1
<1> HIDE DEF Done
<1>11. Nat \subseteq Done
  BY <1>9, <1>10, InductiveSet
<1>12. \A n \in 0..W : g[n] \in Nat
  BY <1>3, <1>11 DEF Done
<1>13. g \in [0..W -> Nat]
  BY <1>8, <1>12
<1> QED BY <1>6, <1>8, <1>13

LEMMA Quotient ==
    ASSUME NEW x \in Nat, NEW p \in Nat, x < p * Base
    PROVE  x \div Base < p
<1>1. Base \in Nat /\ Base > 0
  BY ByteAssumption
<1>2. PICK q \in Nat, r \in Nat : q = x \div Base /\ x = q * Base + r
  BY Division DEF Byte
<1>3. ASSUME p <= q PROVE FALSE
  <2>1. p < q => p * Base + Base <= q * Base
    BY Times
  <2>2. p * Base \in Nat /\ q * Base \in Nat
    BY <1>1
  <2>3. p * Base <= q * Base
    BY <1>1, <1>3, <2>1, <2>2
  <2> QED BY <1>2, <2>2, <2>3
<1> QED BY <1>2, <1>3

(* Nothing is left after W shifts.                                         *)
LEMMA ShiftedOut ==
    ASSUME NEW v \in Unsigned
    PROVE  v \in Nat /\ Shifted(v)[W] = 0
<1>1. W \in Nat /\ Limits \in [0..W -> Nat] /\ W \in 0..W /\ Limits[0] = 1
  BY Sizes, LimitsAre
<1>2. v \in Nat /\ v < Limits[W]
  <2>1. Limits[W] \in Nat
    BY <1>1
  <2> QED BY <2>1 DEF Unsigned
<1>3. Shifted(v) \in [0..W -> Nat] /\ Shifted(v)[0] = v
  BY <1>2, ShiftedIs
<1> DEFINE Done == {n \in Nat : n <= W => Shifted(v)[n] < Limits[W - n]}
<1>4. 0 \in Done
  <2>1. W - 0 = W
    BY <1>1
  <2> QED BY <1>2, <1>3, <2>1
<1>5. ASSUME NEW n \in Nat, n \in Done PROVE n + 1 \in Done
  <2>1. CASE n + 1 <= W
    <3>1. n \in 0..W /\ n + 1 \in 1..W /\ (n + 1) - 1 = n
      BY <1>1, <2>1
    <3>2. W - n \in 1..W /\ W - (n + 1) \in 0..W /\ (W - n) - 1 = W - (n + 1)
      BY <1>1, <2>1
    <3>3. Shifted(v)[n] < Limits[W - n]
      BY <1>1, <1>5, <2>1
    <3>4. Limits[W - n] = Limits[W - (n + 1)] * Base
      BY <3>2, LimitsAre
    <3>5. Shifted(v)[n + 1] = Shifted(v)[n] \div Base
      BY <1>2, <3>1, ShiftedIs
    <3>6. Shifted(v)[n] \in Nat /\ Limits[W - (n + 1)] \in Nat
      BY <1>1, <1>3, <3>1, <3>2
    <3>7. Shifted(v)[n + 1] < Limits[W - (n + 1)]
      BY <3>3, <3>4, <3>5, <3>6, Quotient
    <3> QED BY <3>7
  <2> QED BY <2>1
<1> HIDE DEF Done
<1>6. Nat \subseteq Done
  BY <1>4, <1>5, InductiveSet
<1>7. Shifted(v)[W] < Limits[W - W] /\ W - W = 0
  BY <1>1, <1>6 DEF Done
<1>8. Shifted(v)[W] \in Nat
  BY <1>1, <1>3
<1> QED BY <1>1, <1>2, <1>7, <1>8

(* An integer is the number of the array it is converted to.                *)
LEMMA Converts ==
    ASSUME NEW n \in Nat, W <= n, NEW v \in Unsigned
    PROVE  FromInteger(n, v) \in [1..n -> Byte] /\ loadbe(FromInteger(n, v)) = v
<1>1. PICK a : a = FromInteger(n, v)
  OBVIOUS
<1>2. v \in Nat /\ Shifted(v) \in [0..W -> Nat] /\ Shifted(v)[0] = v /\ Shifted(v)[W] = 0 /\ W \in Nat
  BY ShiftedOut, ShiftedIs, Sizes
<1>3. \A i \in 1..n : a[i] = IF i <= n - W THEN 0 ELSE Shifted(v)[n - i] % Base
  BY <1>1 DEF FromInteger
<1>4. ASSUME NEW i \in 1..n, i > n - W
      PROVE  /\ n - i \in 0..W /\ Shifted(v)[n - i] \in Nat
             /\ a[i] = Shifted(v)[n - i] % Base
  BY <1>2, <1>3, <1>4
<1>5. \A i \in 1..n : a[i] \in Byte
  <2>1. 0 \in Byte
    BY ByteAssumption DEF Byte
  <2>2. ASSUME NEW i \in 1..n, i > n - W PROVE a[i] \in Byte
    BY <1>4, <2>2, Division
  <2> QED BY <1>2, <1>3, <2>1, <2>2
<1>6. a \in [1..n -> Byte]
  <2>1. a = [i \in 1..n |-> a[i]]
    BY <1>1 DEF FromInteger
  <2> QED BY <1>5, <2>1
<1>7. a \in Seq(Byte) /\ Len(a) = n
  BY <1>6
<1> DEFINE Done == {i \in Nat : i <= n =>
                       Numbers(a)[i] = IF i <= n - W THEN 0 ELSE Shifted(v)[n - i]}
<1>8. 0 \in Done
  <2>1. Numbers(a)[0] = 0
    BY <1>7, NumbersAre
  <2> QED BY <1>2, <2>1
<1>9. ASSUME NEW i \in Nat, i \in Done PROVE i + 1 \in Done
  <2> SUFFICES ASSUME i + 1 <= n
               PROVE  Numbers(a)[i + 1] = IF i + 1 <= n - W THEN 0 ELSE Shifted(v)[n - (i + 1)]
    OBVIOUS
  <2>1. /\ Numbers(a)[i] \in Nat /\ a[i + 1] \in Byte
        /\ Numbers(a)[i + 1] = Numbers(a)[i] * Base + a[i + 1]
    BY <1>7, NumberNext DEF Longer
  <2>2. Numbers(a)[i] = IF i <= n - W THEN 0 ELSE Shifted(v)[n - i]
    BY <1>9
  <2>3. Base \in Nat /\ i + 1 \in 1..n
    BY ByteAssumption
  <2>4. CASE i + 1 <= n - W
    <3>1. Numbers(a)[i] = 0 /\ a[i + 1] = 0
      BY <1>2, <1>3, <2>2, <2>3, <2>4
    <3> QED BY <2>1, <2>3, <2>4, <3>1
  <2>5. CASE i + 1 > n - W
    <3>1. /\ n - (i + 1) \in 0..W /\ Shifted(v)[n - (i + 1)] \in Nat
          /\ a[i + 1] = Shifted(v)[n - (i + 1)] % Base
      BY <1>4, <2>3, <2>5
    <3>2. n - i \in 1..W /\ (n - i) - 1 = n - (i + 1)
      BY <1>2, <2>5
    <3>3. Shifted(v)[n - i] = Shifted(v)[n - (i + 1)] \div Base
      <4>1. \A m \in 1..W : Shifted(v)[m] = Shifted(v)[m - 1] \div Base
        BY <1>2, ShiftedIs
      <4>2. Shifted(v)[n - i] = Shifted(v)[(n - i) - 1] \div Base
        BY <3>2, <4>1
      <4> QED BY <3>2, <4>2
    <3>4. Numbers(a)[i] = Shifted(v)[n - i]
      <4>1. CASE i <= n - W
        <5>1. n - i = W
          BY <1>2, <2>5, <4>1
        <5> QED BY <1>2, <2>2, <4>1, <5>1
      <4> QED BY <2>2, <4>1
    <3>5. Numbers(a)[i + 1] = ((Shifted(v)[n - (i + 1)] \div Base) * Base) + (Shifted(v)[n - (i + 1)] % Base)
      BY <2>1, <3>1, <3>3, <3>4
    <3>6. Numbers(a)[i + 1] = Shifted(v)[n - (i + 1)]
      BY <3>1, <3>5, Division
    <3> QED BY <1>2, <2>5, <3>6
  <2> QED BY <1>2, <2>4, <2>5
<1> HIDE DEF Done
<1>10. Nat \subseteq Done
  BY <1>8, <1>9, InductiveSet
<1>11. Numbers(a)[n] = v
  <2>1. n \in Done /\ n - n = 0 /\ ~(n <= n - W)
    BY <1>10, Sizes
  <2> QED BY <1>2, <2>1 DEF Done
<1> QED BY <1>1, <1>6, <1>7, <1>11 DEF loadbe

LEMMA NumberOfArray ==
    ASSUME NEW a, a \in AllAddresses \/ a \in AllBytes32
    PROVE  loadbe(a) \in Nat
<1>1. a \in Seq(Byte) /\ 0 \in 0..Len(a)
  BY Sizes
<1> QED BY <1>1, LastIsInteger

(* The null values.                                                         *)
LEMMA ZeroBytesAre ==
    /\ address0 \in AllAddresses /\ loadbe(address0) = 0
    /\ bytes32_0 \in AllBytes32 /\ loadbe(bytes32_0) = 0
<1>1. ASSUME NEW n \in Nat PROVE ZeroBytes(n) \in [1..n -> Byte] /\ loadbe(ZeroBytes(n)) = 0
  <2>1. PICK a : a = ZeroBytes(n) /\ a = [i \in 1..n |-> 0]
    BY DEF ZeroBytes
  <2>2. a \in [1..n -> Byte]
    BY <2>1, ByteAssumption DEF Byte
  <2>3. a \in Seq(Byte) /\ Len(a) = n
    BY <2>2
  <2> DEFINE Done == {i \in Nat : i <= n => Numbers(a)[i] = 0}
  <2>4. 0 \in Done
    BY <2>3, NumbersAre
  <2>5. ASSUME NEW i \in Nat, i \in Done PROVE i + 1 \in Done
    <3>1. CASE i + 1 <= n
      <4>1. Numbers(a)[i + 1] = Numbers(a)[i] * Base + a[i + 1]
        BY <2>3, <3>1, NumberNext DEF Longer
      <4>2. Numbers(a)[i] = 0 /\ a[i + 1] = 0
        BY <2>1, <2>5, <3>1
      <4> QED BY <4>1, <4>2, ByteAssumption
    <3> QED BY <3>1
  <2> HIDE DEF Done
  <2>6. Nat \subseteq Done
    BY <2>4, <2>5, InductiveSet
  <2> QED BY <2>1, <2>2, <2>3, <2>6 DEF Done, loadbe
<1>2. 2 * W + W \div 2 \in Nat /\ 4 * W \in Nat
  BY Sizes
<1> QED BY <1>1, <1>2 DEF address0, bytes32_0, AllAddresses, AllBytes32

(* "The big-endian 160-bit hash", "a big-endian 256-bit integer": the      *)
(* operators of qrvmc::address and qrvmc::bytes32, which compare a machine *)
(* word at a time, are those of the numbers, and so are the conversions,   *)
(* for every width of the word and of the byte.                            *)
THEOREM WordsCompareAsNumbers == ComparesAsNumbers
<1>1. ASSUME NEW v \in Unsigned
      PROVE  /\ loadbe(address_from(v)) = v /\ loadbe(bytes32_from(v)) = v
             /\ address_is_zero(address_from(v)) <=> v = 0
             /\ bytes32_is_zero(bytes32_from(v)) <=> v = 0
  <2>1. W <= 2 * W + W \div 2 /\ W <= 4 * W /\ 2 * W + W \div 2 \in Nat /\ 4 * W \in Nat
    BY Sizes
  <2>2. address_from(v) \in AllAddresses /\ loadbe(address_from(v)) = v
    BY <2>1, Converts DEF address_from, AllAddresses
  <2>3. bytes32_from(v) \in AllBytes32 /\ loadbe(bytes32_from(v)) = v
    BY <2>1, Converts DEF bytes32_from, AllBytes32
  <2>4. address_is_zero(address_from(v)) <=> v = 0
    BY <2>2, ZeroBytesAre, AddressOrder DEF address_is_zero
  <2>5. bytes32_is_zero(bytes32_from(v)) <=> v = 0
    BY <2>3, ZeroBytesAre, Bytes32Order DEF bytes32_is_zero
  <2> QED BY <2>2, <2>3, <2>4, <2>5
<1>2. \A a, b \in AllAddresses :
          /\ address_less(a, b) <=> loadbe(a) < loadbe(b)
          /\ address_equal(a, b) <=> loadbe(a) = loadbe(b)
  BY AddressOrder
<1>3. \A a, b \in AllBytes32 :
          /\ bytes32_less(a, b) <=> loadbe(a) < loadbe(b)
          /\ bytes32_equal(a, b) <=> loadbe(a) = loadbe(b)
  BY Bytes32Order
<1> QED BY <1>1, <1>2, <1>3 DEF ComparesAsNumbers

------------------------------------------------------------------------------
(* The maps of the Host.  An entry is found under its own key only.        *)
Slots == UNION {[D -> Value] : D \in SUBSET Key}
Account == [balance : Balance \cup {bytes32_0}, code : Code \cup {<< >>}, storage : Slots]
Accounts == UNION {[D -> Account] : D \in SUBSET Addr}

LEMMA FoundAddress ==
    ASSUME NEW map, DOMAIN map \subseteq Addr, NEW a \in Addr
    PROVE  Found(map, a, AddressLess) = {a} \cap DOMAIN map
<1>1. ASSUME NEW e \in DOMAIN map
      PROVE  ~AddressLess[e][a] /\ ~AddressLess[a][e] <=> e = a
  <2>1. e \in Addr /\ e \in AllAddresses /\ a \in AllAddresses
    BY HostAssumption
  <2>2. (AddressLess[e][a] <=> address_less(e, a)) /\ (AddressLess[a][e] <=> address_less(a, e))
    BY <2>1 DEF AddressLess
  <2>3. loadbe(e) \in Nat /\ loadbe(a) \in Nat
    BY <2>1, NumberOfArray
  <2> QED BY <2>1, <2>2, <2>3, AddressOrder
<1> QED BY <1>1 DEF Found

LEMMA FoundKey ==
    ASSUME NEW map, DOMAIN map \subseteq Key, NEW k \in Key
    PROVE  Found(map, k, KeyLess) = {k} \cap DOMAIN map
<1>1. ASSUME NEW e \in DOMAIN map
      PROVE  ~KeyLess[e][k] /\ ~KeyLess[k][e] <=> e = k
  <2>1. e \in Key /\ e \in AllBytes32 /\ k \in AllBytes32
    BY HostAssumption
  <2>2. (KeyLess[e][k] <=> bytes32_less(e, k)) /\ (KeyLess[k][e] <=> bytes32_less(k, e))
    BY <2>1 DEF KeyLess
  <2>3. loadbe(e) \in Nat /\ loadbe(k) \in Nat
    BY <2>1, NumberOfArray
  <2> QED BY <2>1, <2>2, <2>3, Bytes32Order
<1> QED BY <1>1 DEF Found

(* What find() and operator[] do when keys are found like this.             *)
LEMMA AtEntry ==
    ASSUME NEW map, NEW key, NEW less, NEW default, Found(map, key, less) = {key} \cap DOMAIN map
    PROVE  At(map, key, less, default) = IF key \in DOMAIN map THEN map[key] ELSE default
<1>1. CASE key \in DOMAIN map
  <2>1. Found(map, key, less) = {key} /\ Found(map, key, less) # {}
    BY <1>1
  <2>2. (CHOOSE e \in Found(map, key, less) : TRUE) = key
    BY <2>1
  <2> QED BY <1>1, <2>1, <2>2 DEF At
<1>2. CASE key \notin DOMAIN map
  <2>1. Found(map, key, less) = {}
    BY <1>2
  <2> QED BY <1>2, <2>1 DEF At
<1> QED BY <1>1, <1>2

IsMap(map) == map = [e \in DOMAIN map |-> map[e]]
WithEntry(map, key, value) ==
    [e \in DOMAIN map \cup {key} |-> IF e = key THEN value ELSE map[e]]

LEMMA InsertEntry ==
    ASSUME NEW map, NEW key, NEW less, NEW value, Found(map, key, less) = {key} \cap DOMAIN map,
           IsMap(map)
    PROVE  Insert(map, key, less, value) = WithEntry(map, key, value)
<1> USE DEF IsMap, WithEntry
<1>1. CASE key \in DOMAIN map
  <2>1. Found(map, key, less) = {key} /\ Found(map, key, less) # {}
    BY <1>1
  <2>2. (CHOOSE e \in Found(map, key, less) : TRUE) = key
    BY <2>1
  <2>3. Insert(map, key, less, value) = [map EXCEPT ![key] = value]
    BY <2>1, <2>2 DEF Insert
  <2>4. DOMAIN map \cup {key} = DOMAIN map
    BY <1>1
  <2>5. [map EXCEPT ![key] = value] = [e \in DOMAIN map |-> IF e = key THEN value ELSE map[e]]
    OBVIOUS
  <2> QED BY <2>3, <2>4, <2>5
<1>2. CASE key \notin DOMAIN map
  <2>1. Found(map, key, less) = {}
    BY <1>2
  <2> QED BY <1>2, <2>1 DEF Insert
<1> QED BY <1>1, <1>2

LEMMA EmptyMaps ==
    /\ NoMap \in Slots /\ NoMap \in Accounts /\ NoAccount \in Account
    /\ \A k : k \notin DOMAIN NoMap
<1>1. NoMap \in [{} -> Value] /\ NoMap \in [{} -> Account] /\ DOMAIN NoMap = {}
  BY DEF NoMap
<1>2. NoMap \in Slots
  BY <1>1 DEF Slots
<1>3. NoMap \in Accounts
  BY <1>1 DEF Accounts
<1>4. NoAccount \in Account
  BY <1>2 DEF NoAccount, Account, NoMap
<1> QED BY <1>1, <1>2, <1>3, <1>4

(* The accounts and the slots as a query finds them.                        *)
LEMMA AccountAt ==
    ASSUME NEW map \in Accounts, NEW a \in Addr
    PROVE  /\ Found(map, a, AddressLess) # {} <=> a \in DOMAIN map
           /\ At(map, a, AddressLess, NoAccount) = IF a \in DOMAIN map THEN map[a] ELSE NoAccount
           /\ At(map, a, AddressLess, NoAccount) \in Account
<1>1. DOMAIN map \subseteq Addr /\ \A b \in DOMAIN map : map[b] \in Account
  BY DEF Accounts
<1>2. Found(map, a, AddressLess) = {a} \cap DOMAIN map
  BY <1>1, FoundAddress
<1>3. At(map, a, AddressLess, NoAccount) = IF a \in DOMAIN map THEN map[a] ELSE NoAccount
  BY <1>2, AtEntry
<1>4. At(map, a, AddressLess, NoAccount) \in Account
  BY <1>1, <1>3, EmptyMaps
<1> QED BY <1>2, <1>3, <1>4

LEMMA SlotAt ==
    ASSUME NEW slots \in Slots, NEW k \in Key
    PROVE  /\ At(slots, k, KeyLess, bytes32_0) = IF k \in DOMAIN slots THEN slots[k] ELSE bytes32_0
           /\ At(slots, k, KeyLess, bytes32_0) \in Value
<1>1. DOMAIN slots \subseteq Key /\ \A c \in DOMAIN slots : slots[c] \in Value
  BY DEF Slots
<1>2. Found(slots, k, KeyLess) = {k} \cap DOMAIN slots
  BY <1>1, FoundKey
<1>3. At(slots, k, KeyLess, bytes32_0) = IF k \in DOMAIN slots THEN slots[k] ELSE bytes32_0
  BY <1>2, AtEntry
<1>4. At(slots, k, KeyLess, bytes32_0) \in Value
  BY <1>1, <1>3, HostAssumption
<1> QED BY <1>3, <1>4

(* A slot is written and the others stay.                                   *)
LEMMA SlotWritten ==
    ASSUME NEW slots \in Slots, NEW k \in Key, NEW v \in Value,
           NEW new, new = Insert(slots, k, KeyLess, v)
    PROVE  /\ new \in Slots
           /\ \A c \in Key : At(new, c, KeyLess, bytes32_0) =
                 IF c = k THEN v ELSE At(slots, c, KeyLess, bytes32_0)
<1>1. /\ slots = [c \in DOMAIN slots |-> slots[c]]
      /\ DOMAIN slots \subseteq Key /\ \A c \in DOMAIN slots : slots[c] \in Value
  BY DEF Slots
<1>2. Found(slots, k, KeyLess) = {k} \cap DOMAIN slots
  BY <1>1, FoundKey
<1>3. new = [c \in DOMAIN slots \cup {k} |-> IF c = k THEN v ELSE slots[c]]
  <2>1. IsMap(slots)
    BY <1>1 DEF IsMap
  <2>2. new = WithEntry(slots, k, v)
    BY <1>2, <2>1, InsertEntry
  <2> QED BY <2>2 DEF WithEntry
<1>4. new \in Slots
  <2>1. DOMAIN slots \cup {k} \in SUBSET Key
    BY <1>1
  <2>2. new \in [DOMAIN slots \cup {k} -> Value]
    BY <1>1, <1>3
  <2> QED BY <2>1, <2>2 DEF Slots
<1>5. ASSUME NEW c \in Key
      PROVE  At(new, c, KeyLess, bytes32_0) = IF c = k THEN v ELSE At(slots, c, KeyLess, bytes32_0)
  <2>1. At(slots, c, KeyLess, bytes32_0) = IF c \in DOMAIN slots THEN slots[c] ELSE bytes32_0
    BY SlotAt
  <2>2. At(new, c, KeyLess, bytes32_0) = IF c \in DOMAIN new THEN new[c] ELSE bytes32_0
    BY <1>4, SlotAt
  <2> QED BY <1>3, <2>1, <2>2
<1> QED BY <1>4, <1>5

(* What a map of accounts has at a slot.                                   *)
Stored(map, a, k) == At(At(map, a, AddressLess, NoAccount).storage, k, KeyLess, bytes32_0)

(* set_storage() writes one slot of one account, which it creates if need  *)
(* be, and leaves everything else.                                         *)
OnlySlotWritten(map, new, a, k, v) ==
    /\ DOMAIN new = DOMAIN map \cup {a}
    /\ \A b \in Addr :
          /\ At(new, b, AddressLess, NoAccount).balance = At(map, b, AddressLess, NoAccount).balance
          /\ At(new, b, AddressLess, NoAccount).code = At(map, b, AddressLess, NoAccount).code
          /\ \A c \in Key : Stored(new, b, c) = IF b = a /\ c = k THEN v ELSE Stored(map, b, c)

LEMMA AccountWritten ==
    ASSUME NEW map \in Accounts, NEW a \in Addr, NEW k \in Key, NEW v \in Value,
           NEW new, new = Insert(map, a, AddressLess,
               [At(map, a, AddressLess, NoAccount) EXCEPT !.storage = Insert(@, k, KeyLess, v)])
    PROVE  new \in Accounts /\ OnlySlotWritten(map, new, a, k, v)
<1>1. PICK old : old = At(map, a, AddressLess, NoAccount)
  OBVIOUS
<1>2. old \in Account
  BY <1>1, AccountAt
<1>3. PICK slots : slots = Insert(old.storage, k, KeyLess, v)
  OBVIOUS
<1>4. old.storage \in Slots
  BY <1>2 DEF Account
<1>5. /\ slots \in Slots
      /\ \A c \in Key : At(slots, c, KeyLess, bytes32_0) =
            IF c = k THEN v ELSE At(old.storage, c, KeyLess, bytes32_0)
  BY <1>3, <1>4, SlotWritten
<1>6. PICK written_account : written_account = [old EXCEPT !.storage = slots]
  OBVIOUS
<1>7. /\ written_account \in Account /\ written_account.storage = slots
      /\ written_account.balance = old.balance /\ written_account.code = old.code
  BY <1>2, <1>5, <1>6 DEF Account
<1>8. new = Insert(map, a, AddressLess, written_account)
  BY <1>1, <1>3, <1>6
<1>9. /\ map = [b \in DOMAIN map |-> map[b]]
      /\ DOMAIN map \subseteq Addr /\ \A b \in DOMAIN map : map[b] \in Account
  BY DEF Accounts
<1>10. Found(map, a, AddressLess) = {a} \cap DOMAIN map
  BY <1>9, FoundAddress
<1>11. new = [b \in DOMAIN map \cup {a} |-> IF b = a THEN written_account ELSE map[b]]
  <2>1. IsMap(map)
    BY <1>9 DEF IsMap
  <2>2. new = WithEntry(map, a, written_account)
    BY <1>8, <1>10, <2>1, InsertEntry
  <2> QED BY <2>2 DEF WithEntry
<1>12. new \in Accounts
  <2>1. DOMAIN map \cup {a} \in SUBSET Addr
    BY <1>9
  <2>2. new \in [DOMAIN map \cup {a} -> Account]
    BY <1>7, <1>9, <1>11
  <2> QED BY <2>1, <2>2 DEF Accounts
<1>13. ASSUME NEW b \in Addr
       PROVE  At(new, b, AddressLess, NoAccount) =
                 IF b = a THEN written_account ELSE At(map, b, AddressLess, NoAccount)
  <2>1. At(map, b, AddressLess, NoAccount) = IF b \in DOMAIN map THEN map[b] ELSE NoAccount
    BY AccountAt
  <2>2. At(new, b, AddressLess, NoAccount) = IF b \in DOMAIN new THEN new[b] ELSE NoAccount
    BY <1>12, AccountAt
  <2> QED BY <1>11, <2>1, <2>2
<1>14. ASSUME NEW b \in Addr, NEW c \in Key
       PROVE  Stored(new, b, c) = IF b = a /\ c = k THEN v ELSE Stored(map, b, c)
  <2>1. CASE b = a
    BY <1>1, <1>5, <1>7, <1>13, <2>1 DEF Stored
  <2>2. CASE b # a
    BY <1>13, <2>2 DEF Stored
  <2> QED BY <2>1, <2>2
<1>15. DOMAIN new = DOMAIN map \cup {a}
  BY <1>11
<1> QED BY <1>1, <1>7, <1>12, <1>13, <1>14, <1>15 DEF OnlySlotWritten

------------------------------------------------------------------------------
(* A call of the Host changes its accounts only if it is a set_storage().  *)
LEMMA OnlyWritesChange ==
    ASSUME HostCall
    PROVE  \/ accounts' = accounts /\ answer'.method # "set_storage"
           \/ \E a \in Addr, k \in Key, v \in Value : set_storage(a, k, v)
<1>1. ASSUME NEW method, method # "set_storage", NEW arguments, NEW value, Answer(method, arguments, value)
      PROVE  answer'.method # "set_storage"
  BY <1>1 DEF Answer
<1>2. CASE \E method \in AddressMethod, a \in Addr : Ask(method, a)
  BY <1>1, <1>2 DEF Ask, AddressMethod
<1>3. CASE \E a \in Addr, k \in Key : AskStorage(a, k) \/ access_storage(a, k)
  BY <1>1, <1>3 DEF AskStorage, access_storage
<1>4. CASE \E a \in Addr, offset \in Offset, size \in Size : AskCode(a, offset, size)
  BY <1>1, <1>4 DEF AskCode
<1>5. CASE \E gas \in Gas, input_size \in Input : call(gas, input_size)
  BY <1>1, <1>5 DEF call
<1>6. CASE \E number \in BlockNumber : AskBlockHash(number)
  BY <1>1, <1>6 DEF AskBlockHash
<1>7. CASE get_tx_context \/ emit_log
  BY <1>1, <1>7 DEF get_tx_context, emit_log
<1> QED BY <1>2, <1>3, <1>4, <1>5, <1>6, <1>7 DEF HostCall

(* The accounts are those the VM can name, their slots have values.        *)
MapsInv == accounts \in Accounts

(* set_storage() as a step of the Host.                                     *)
LEMMA WriteKeepsMaps ==
    ASSUME MapsInv, NEW a \in Addr, NEW k \in Key, NEW v \in Value, set_storage(a, k, v)
    PROVE  MapsInv' /\ OnlySlotWritten(accounts, accounts', a, k, v)
<1>1. PICK map, new : map = accounts /\ new = accounts'
  OBVIOUS
<1>2. map \in Accounts
  BY <1>1 DEF MapsInv
<1>3. new = Insert(map, a, AddressLess,
               [At(map, a, AddressLess, NoAccount) EXCEPT !.storage = Insert(@, k, KeyLess, v)])
  BY <1>1 DEF set_storage, account
<1>4. new \in Accounts /\ OnlySlotWritten(map, new, a, k, v)
  BY <1>2, <1>3, AccountWritten
<1> QED BY <1>1, <1>4 DEF MapsInv

LEMMA MapsInit == Init => MapsInv
<1>1. ASSUME NEW a \in Addr, NEW b \in Balance, NEW c \in Code,
             accounts = [e \in {a} |-> [balance |-> b, code |-> c, storage |-> NoMap]]
      PROVE  accounts \in Accounts
  <2>1. [balance |-> b, code |-> c, storage |-> NoMap] \in Account
    BY EmptyMaps DEF Account
  <2>2. accounts \in [{a} -> Account] /\ {a} \in SUBSET Addr
    BY <1>1, <2>1
  <2> QED BY <2>2 DEF Accounts
<1> QED BY <1>1, EmptyMaps DEF Init, HostInit, MapsInv

(* Every step keeps the maps well-formed.                                   *)
LEMMA MapsStep == MapsInv /\ [Next]_programVars => MapsInv'
<1> SUFFICES ASSUME MapsInv, [Next]_programVars PROVE MapsInv'
  OBVIOUS
<1>1. accounts' = accounts => MapsInv'
  BY DEF MapsInv
<1>2. CASE VMCallsHost
  <2>1. HostCall
    BY <1>2 DEF VMCallsHost
  <2> QED BY <1>1, <2>1, OnlyWritesChange, WriteKeepsMaps
<1>3. CASE Load \/ CreateContext \/ VMTakesAnswer \/ VMReturns \/ PrintResult \/ Release
  BY <1>1, <1>3 DEF Load, CreateContext, VMTakesAnswer, TakeAnswer, VMReturns, PrintResult, AskStorage, Release, hostVars
<1>4. CASE UNCHANGED programVars
  BY <1>1, <1>4 DEF programVars, hostVars
<1> QED BY <1>2, <1>3, <1>4 DEF Next

(* How far main() has come says what there is to be released.              *)
ProgressInv ==
    /\ client \in {"loader", "static", "other"}
    /\ client = "other" => pc = "execute"
    /\ pc = "load" => vm = "none"
    /\ pc \in {"load", "create_context"} => ctx = "none"
    /\ pc \in {"load", "create_context", "execute"} => output = "none"
    /\ EverythingReleased

(* Each step of main() leaves what the next one needs.                      *)
LEMMA ProgressStep == ProgressInv /\ [Next]_programVars => ProgressInv'
<1> SUFFICES ASSUME ProgressInv, [Next]_programVars PROVE ProgressInv'
  OBVIOUS
<1> USE DEF ProgressInv, EverythingReleased
<1>1. CASE Load
  BY <1>1 DEF Load, Failures
<1>2. CASE CreateContext
  BY <1>2 DEF CreateContext
<1>3. CASE VMCallsHost
  BY <1>3 DEF VMCallsHost
<1>4. CASE VMTakesAnswer
  BY <1>4 DEF VMTakesAnswer, mainVars
<1>5. CASE VMReturns
  BY <1>5 DEF VMReturns
<1>6. CASE PrintResult
  BY <1>6 DEF PrintResult
<1>7. CASE Release
  BY <1>7 DEF Release
<1>8. CASE UNCHANGED programVars
  BY <1>8 DEF programVars, mainVars
<1> QED BY <1>1, <1>2, <1>3, <1>4, <1>5, <1>6, <1>7, <1>8 DEF Next

(* main() ends with nothing left: whatever the VM did and returned, the    *)
(* output, the Host and the VM are released, except by the static variant  *)
(* that finds an incompatible VM.                                          *)
THEOREM ProgramReleasesAll == Spec => []EverythingReleased
<1>1. Init => ProgressInv
  BY DEF Init, ProgressInv, EverythingReleased
<1>2. ProgressInv => EverythingReleased
  BY DEF ProgressInv
<1> QED BY <1>1, <1>2, ProgressStep, PTL DEF Spec

(* An entry of a map of the Host is found under its own key and under no   *)
(* other, whatever was written, for all addresses and keys.                *)
THEOREM EntriesAreFound == Spec => []MapsFindTheirEntries
<1>1. ASSUME MapsInv PROVE MapsFindTheirEntries
  <2>1. ASSUME NEW a \in Addr PROVE account_exists(a) <=> a \in DOMAIN accounts
    BY <1>1, AccountAt DEF account_exists, MapsInv
  <2>2. ASSUME NEW a \in DOMAIN accounts, NEW k \in Key
        PROVE  Found(accounts[a].storage, k, KeyLess) = {k} \cap DOMAIN accounts[a].storage
    <3>1. accounts[a].storage \in Slots
      BY <1>1 DEF MapsInv, Accounts, Account
    <3>2. DOMAIN accounts[a].storage \subseteq Key
      BY <3>1 DEF Slots
    <3> QED BY <3>2, FoundKey
  <2> QED BY <2>1, <2>2, WordsCompareAsNumbers DEF MapsFindTheirEntries
<1>2. Init => MapsInv
  BY MapsInit
<1> QED BY <1>1, <1>2, MapsStep, PTL DEF Spec

(* The history is what the slot printed holds, and nothing is printed      *)
(* before the execution has ended.                                         *)
WrittenInv ==
    /\ client # "other" => written = Stored(accounts, Recipient, StorageKey)
    /\ client = "other" => pc = "execute"
    /\ status_code \in {"SUCCESS", "REVERT", "FAILURE"}
    /\ pc \in {"load", "create_context", "execute", "print"} => printed = << >> /\ exit_code = "0"
    /\ PrintsWhatWasWritten

LEMMA WrittenInit == Init => WrittenInv
<1> SUFFICES ASSUME Init PROVE WrittenInv
  OBVIOUS
<1>1. Recipient \in Addr /\ StorageKey \in Key
  BY ProgramAssumption
<1>2. ASSUME client # "other" PROVE written = Stored(accounts, Recipient, StorageKey)
  <2>1. accounts = NoMap /\ written = bytes32_0
    BY <1>2 DEF Init, HostInit
  <2>2. At(accounts, Recipient, AddressLess, NoAccount) = NoAccount
    BY <1>1, <2>1, AccountAt, EmptyMaps
  <2>3. At(NoMap, StorageKey, KeyLess, bytes32_0) = bytes32_0
    BY <1>1, SlotAt, EmptyMaps
  <2>4. NoAccount.storage = NoMap
    BY DEF NoAccount, NoMap
  <2> QED BY <2>1, <2>2, <2>3, <2>4 DEF Stored
<1> QED BY <1>2 DEF Init, WrittenInv, PrintsWhatWasWritten

LEMMA StoredIsValue ==
    ASSUME MapsInv, NEW a \in Addr, NEW k \in Key
    PROVE  Stored(accounts, a, k) \in Value /\ Stored(accounts, a, k) = get_storage(a, k)
<1>1. PICK map : map = accounts
  OBVIOUS
<1>2. At(map, a, AddressLess, NoAccount).storage \in Slots
  BY <1>1, AccountAt DEF MapsInv, Account
<1>3. Stored(map, a, k) \in Value
  BY <1>2, SlotAt DEF Stored
<1> QED BY <1>1, <1>3 DEF Stored, get_storage, account

(* A write to the slot, and no other step, changes what it holds.           *)
LEMMA WrittenStep == MapsInv /\ WrittenInv /\ [Next]_programVars => WrittenInv'
<1> SUFFICES ASSUME MapsInv, WrittenInv, [Next]_programVars PROVE WrittenInv'
  OBVIOUS
<1> USE DEF WrittenInv, PrintsWhatWasWritten
<1>1. CASE Load
  BY <1>1 DEF Load, Failures, hostVars
<1>2. CASE CreateContext
  BY <1>2 DEF CreateContext, hostVars
<1>3. CASE VMCallsHost
  <2>1. /\ HostCall
        /\ written' = IF answer'.method = "set_storage" /\ answer'.arguments[1] = Recipient
                         /\ answer'.arguments[2] = StorageKey
                      THEN answer'.arguments[3] ELSE written
        /\ UNCHANGED <<client, pc, status_code, printed, exit_code>> /\ pc = "execute"
    BY <1>3 DEF VMCallsHost
  <2>2. client # "other" => written' = Stored(accounts', Recipient, StorageKey)
    <3>1. CASE accounts' = accounts /\ answer'.method # "set_storage"
      BY <2>1, <3>1
    <3>2. CASE \E a \in Addr, k \in Key, v \in Value : set_storage(a, k, v)
      <4>1. PICK a \in Addr, k \in Key, v \in Value : set_storage(a, k, v)
        BY <3>2
      <4>2. answer'.method = "set_storage" /\ answer'.arguments = <<a, k, v>>
        BY <4>1 DEF set_storage, Answer
      <4>3. Stored(accounts', Recipient, StorageKey) =
                IF Recipient = a /\ StorageKey = k THEN v ELSE Stored(accounts, Recipient, StorageKey)
        <5>1. OnlySlotWritten(accounts, accounts', a, k, v)
          BY <4>1, WriteKeepsMaps
        <5>2. Recipient \in Addr /\ StorageKey \in Key
          BY ProgramAssumption
        <5> QED BY <5>1, <5>2 DEF OnlySlotWritten
      <4>4. written' = IF a = Recipient /\ k = StorageKey THEN v ELSE written
        BY <2>1, <4>2
      <4> QED BY <4>3, <4>4
    <3> QED BY <2>1, <3>1, <3>2, OnlyWritesChange
  <2> QED BY <2>1, <2>2
<1>4. CASE VMTakesAnswer
  BY <1>4 DEF VMTakesAnswer, TakeAnswer, mainVars
<1>5. CASE VMReturns
  BY <1>5 DEF VMReturns, hostVars
<1>6. CASE PrintResult
  <2>1. accounts' = accounts /\ UNCHANGED <<client, status_code, written>> /\ pc = "print" /\ pc' = "release"
    BY <1>6 DEF PrintResult, AskStorage, hostVars
  <2>2. CASE status_code # "SUCCESS"
    BY <1>6, <2>1, <2>2 DEF PrintResult
  <2>3. CASE status_code = "SUCCESS"
    <3>1. printed' = get_storage(Recipient, StorageKey) /\ exit_code' = exit_code
      BY <1>6, <2>3 DEF PrintResult
    <3>2. printed' = written /\ written \in Value
      BY <2>1, <3>1, StoredIsValue, ProgramAssumption
    <3>3. written # << >>
      BY <3>2, HostAssumption, Sizes
    <3> QED BY <2>1, <3>1, <3>2, <3>3
  <2> QED BY <2>2, <2>3
<1>7. CASE Release
  BY <1>7 DEF Release, hostVars
<1>8. CASE UNCHANGED programVars
  BY <1>8 DEF programVars, mainVars, hostVars
<1> QED BY <1>1, <1>2, <1>3, <1>4, <1>5, <1>6, <1>7, <1>8 DEF Next

(* What main() prints of the slot is what the VM last wrote there, of all  *)
(* its calls on any account and slot, and it prints it after a success and *)
(* signals any other outcome in the exit code.                             *)
THEOREM PrintedIsWritten == Spec => []PrintsWhatWasWritten
<1>1. Init => MapsInv /\ WrittenInv
  BY MapsInit, WrittenInit
<1>2. MapsInv /\ WrittenInv /\ [Next]_programVars => (MapsInv /\ WrittenInv)'
  BY MapsStep, WrittenStep
<1>3. WrittenInv => PrintsWhatWasWritten
  BY DEF WrittenInv
<1> QED BY <1>1, <1>2, <1>3, PTL DEF Spec

------------------------------------------------------------------------------
(* What the contract sees of the accounts.                                 *)
Seen == <<{a \in Addr : account_exists(a)},
          [a \in Addr |-> [k \in Key |-> get_storage(a, k)]],
          [a \in Addr |-> get_balance(a)],
          [a \in Addr |-> account(a).code]>>

LEMMA SameAccountsSeen == accounts' = accounts => Seen' = Seen
BY DEF Seen, account_exists, get_storage, get_balance, account

(* The way of a call ends at the method of its name.                       *)
LEMMA ReachesItsMethod ==
    ASSUME NEW method \in AddressMethod
    PROVE  Reached(method) = method
<1>1. DOMAIN Fields = 1..13 /\ get_interface = Fields
  BY DEF Fields, get_interface
<1>2. \E i \in 1..13 : Fields[i] = method
  <2>1. Fields[1] = "account_exists" /\ Fields[4] = "get_balance" /\ Fields[5] = "get_code_size"
        /\ Fields[6] = "get_code_hash" /\ Fields[12] = "access_account"
    BY DEF Fields
  <2>2. 1 \in 1..13 /\ 4 \in 1..13 /\ 5 \in 1..13 /\ 6 \in 1..13 /\ 12 \in 1..13
    OBVIOUS
  <2> QED BY <2>1, <2>2 DEF AddressMethod
<1>3. method \in ToSet(Fields)
  BY <1>1, <1>2 DEF ToSet
<1>4. HostContextField[method] = method /\ AdaptorMethod[method] = method
  BY <1>3 DEF HostContextField, AdaptorMethod
<1>5. PICK i : i = CHOOSE j \in DOMAIN Fields : Fields[j] = method
  OBVIOUS
<1>6. Fields[i] = method
  BY <1>1, <1>2, <1>5
<1> QED BY <1>1, <1>4, <1>5, <1>6 DEF Reached

LEMMA SeenOfAccount ==
    ASSUME MapsInv, NEW a \in Addr
    PROVE  /\ account(a) \in Account
           /\ a \notin {b \in Addr : account_exists(b)} => account(a) = NoAccount
BY AccountAt DEF MapsInv, account, account_exists

(* The Host starts as the contract does,                                    *)
LEMMA SimulatesInit == Init => Contract!Init
<1> SUFFICES ASSUME Init PROVE Contract!Init
  OBVIOUS
<1>1. MapsInv /\ answer = NoAnswer
  BY MapsInit DEF Init, HostInit
<1>2. ASSUME NEW a \in Addr, a \notin {b \in Addr : account_exists(b)}
      PROVE  /\ \A k \in Key : get_storage(a, k) = bytes32_0
             /\ get_balance(a) = bytes32_0 /\ account(a).code = << >>
  <2>1. account(a) = NoAccount
    BY <1>1, <1>2, SeenOfAccount
  <2>2. \A k \in Key : At(NoMap, k, KeyLess, bytes32_0) = bytes32_0
    BY SlotAt, EmptyMaps
  <2> QED BY <2>1, <2>2 DEF get_storage, get_balance, NoAccount, NoMap
<1> QED BY <1>1, <1>2 DEF Contract!Init, Contract!NoAnswer, NoAnswer

(* and each of its steps is one of the contract or none of it.              *)
LEMMA SameAnswer ==
    ASSUME NEW method, NEW arguments, NEW value, Answer(method, arguments, value)
    PROVE  Contract!Answered(method, arguments, value)
BY DEF Answer, NoAnswer, Contract!Answered, Contract!NoAnswer

LEMMA SimulatesAsk ==
    ASSUME MapsInv, NEW method \in AddressMethod, NEW a \in Addr, Ask(method, a)
    PROVE  Contract!Next
<1>1. Answer(method, <<a>>, Query(method, a)) /\ Seen' = Seen
  BY ReachesItsMethod, SameAccountsSeen DEF Ask
<1>2. a \in {b \in Addr : account_exists(b)} <=> account_exists(a)
  OBVIOUS
<1>3. CASE method = "account_exists"
  <2>1. Query(method, a) = account_exists(a)
    BY <1>3 DEF Query
  <2>2. Answer("account_exists", <<a>>, account_exists(a))
    BY <1>1, <1>3, <2>1
  <2>3. Contract!Answered("account_exists", <<a>>, a \in {b \in Addr : account_exists(b)})
    <3>1. account_exists(a) = (a \in {b \in Addr : account_exists(b)})
      BY <1>2 DEF account_exists
    <3> QED BY <2>2, <3>1, SameAnswer, Zenon
  <2>4. Contract!account_exists(a)
    BY <2>3 DEF Contract!account_exists
  <2> QED BY <1>1, <2>4 DEF Contract!Next, Contract!Unobservable, Seen
<1>4. CASE method = "get_balance"
  <2>1. Contract!get_balance(a)
    BY <1>1, <1>4, SameAnswer DEF Query, Contract!get_balance
  <2> QED BY <1>1, <2>1 DEF Contract!Next, Contract!Unobservable, Seen
<1>5. CASE method = "get_code_size"
  <2>1. Contract!get_code_size(a)
    BY <1>1, <1>5, SameAnswer DEF Query, get_code_size, Contract!get_code_size
  <2> QED BY <1>1, <2>1 DEF Contract!Next, Contract!Unobservable, Seen
<1>6. CASE method = "get_code_hash"
  <2>1. account(a).code \in Code \cup {<< >>}
    BY SeenOfAccount DEF Account
  <2>2. Contract!get_code_hash(a)
    BY <1>1, <1>2, <1>6, <2>1, SameAnswer DEF Query, get_code_hash, Contract!get_code_hash
  <2> QED BY <1>1, <2>2 DEF Contract!Next, Contract!Unobservable, Seen
<1>7. CASE method = "access_account"
  <2>1. Contract!Answered("access_account", <<a>>, "COLD")
    BY <1>1, <1>7, SameAnswer DEF Query
  <2>2. Contract!access_account(a)
    BY <1>1, <2>1 DEF Contract!access_account, Contract!Accessed, Seen
  <2> QED BY <2>2 DEF Contract!Next
<1> QED BY <1>3, <1>4, <1>5, <1>6, <1>7 DEF AddressMethod

LEMMA SimulatesCode ==
    ASSUME MapsInv, NEW a \in Addr, NEW offset \in Offset, NEW size \in Size, AskCode(a, offset, size)
    PROVE  Contract!Next
<1>1. Answer("copy_code", <<a, offset, size>>, copy_code(a, offset, size)) /\ Seen' = Seen
  BY SameAccountsSeen DEF AskCode
<1>2. PICK c : c = account(a).code
  OBVIOUS
<1>3. c \in Seq(Byte)
  <2>1. c \in Code \cup {<< >>}
    BY <1>2, SeenOfAccount DEF Account
  <2>2. Code \subseteq Seq(Byte)
    BY HostAssumption
  <2>3. << >> \in Seq(Byte)
    OBVIOUS
  <2> QED BY <2>1, <2>2, <2>3
<1>4. offset \in Nat /\ size \in Nat /\ Len(c) \in Nat
  BY <1>3, HostAssumption
<1>5. copy_code(a, offset, size) = Contract!Copied(c, offset, size)
  <2>1. CASE offset >= Len(c)
    <3>1. copy_code(a, offset, size) = << >>
      BY <1>2, <2>1 DEF copy_code
    <3>2. PICK last : last = Contract!Smaller(offset + size, Len(c))
      OBVIOUS
    <3>3. last \in Int /\ offset + 1 \in Int /\ last < offset + 1
      BY <1>4, <2>1, <3>2 DEF Contract!Smaller
    <3>4. SubSeq(c, offset + 1, last) = << >>
      BY <3>3, SubSeqEmpty
    <3> QED BY <3>1, <3>2, <3>4 DEF Contract!Copied
  <2>2. CASE offset < Len(c)
    <3>1. PICK n : n = IF size < Len(c) - offset THEN size ELSE Len(c) - offset
      OBVIOUS
    <3>2. copy_code(a, offset, size) = SubSeq(c, offset + 1, offset + n)
      BY <1>2, <1>4, <2>2, <3>1 DEF copy_code
    <3>3. offset + n = Contract!Smaller(offset + size, Len(c))
      BY <1>4, <2>2, <3>1 DEF Contract!Smaller
    <3> QED BY <3>2, <3>3 DEF Contract!Copied
  <2> QED BY <1>4, <2>1, <2>2
<1>6. Contract!copy_code(a, offset, size)
  BY <1>1, <1>2, <1>5, SameAnswer DEF Contract!copy_code
<1> QED BY <1>1, <1>6 DEF Contract!Next, Contract!Unobservable, Seen

LEMMA SimulatesStorage ==
    ASSUME NEW a \in Addr, NEW k \in Key
    PROVE  /\ AskStorage(a, k) => Contract!Next
           /\ access_storage(a, k) => Contract!Next
<1>1. ASSUME AskStorage(a, k) PROVE Contract!Next
  <2>1. Answer("get_storage", <<a, k>>, get_storage(a, k)) /\ Seen' = Seen
    BY <1>1, SameAccountsSeen DEF AskStorage
  <2>2. Contract!get_storage(a, k)
    BY <2>1, SameAnswer DEF Contract!get_storage
  <2> QED BY <2>1, <2>2 DEF Contract!Next, Contract!Unobservable, Seen
<1>2. ASSUME access_storage(a, k) PROVE Contract!Next
  <2>1. Answer("access_storage", <<a, k>>, "COLD") /\ Seen' = Seen
    BY <1>2, SameAccountsSeen DEF access_storage
  <2>2. Contract!access_storage(a, k)
    BY <2>1, SameAnswer DEF Contract!access_storage, Contract!Accessed, Seen
  <2> QED BY <2>2 DEF Contract!Next
<1> QED BY <1>1, <1>2

LEMMA SimulatesOthers ==
    /\ \A gas \in Gas, input_size \in Input : call(gas, input_size) => Contract!Next
    /\ \A number \in BlockNumber : AskBlockHash(number) => Contract!Next
    /\ get_tx_context => Contract!Next
    /\ emit_log => Contract!Next
    /\ TakeAnswer => Contract!Next
<1>1. ASSUME NEW gas \in Gas, NEW input_size \in Input, call(gas, input_size) PROVE Contract!Next
  <2>1. PICK result \in CallResults(gas, input_size) : Answer("call", <<gas>>, result)
    BY <1>1 DEF call
  <2>2. gas \in Nat
    BY HostAssumption
  <2>3. answer'.value = result
    BY <2>1 DEF Answer
  <2>4. result.gas_left \in 0..gas /\ (result.status_code \notin {"SUCCESS", "REVERT"} => result.gas_left = 0)
    BY <2>2 DEF CallResults
  <2>5. Contract!call(gas)
    BY <2>1, <2>3, <2>4, SameAnswer DEF Contract!call
  <2>6. Seen' = Seen
    BY <1>1, SameAccountsSeen DEF call
  <2> QED BY <2>5, <2>6 DEF Contract!Next, Contract!Unobservable, Seen
<1>2. ASSUME NEW number \in BlockNumber, AskBlockHash(number) PROVE Contract!Next
  <2>1. Answer("get_block_hash", <<number>>, get_block_hash(number)) /\ Seen' = Seen
    BY <1>2, SameAccountsSeen DEF AskBlockHash
  <2>2. get_block_hash(number) \in {bytes32_0, BlockHash}
        /\ (get_block_hash(number) # bytes32_0 => number < tx_context.block_number)
    BY DEF get_block_hash, tx_context
  <2>3. Contract!get_block_hash(number)
    BY <2>1, <2>2, SameAnswer DEF Contract!get_block_hash
  <2> QED BY <2>1, <2>3 DEF Contract!Next, Contract!Unobservable, Seen
<1>3. ASSUME get_tx_context PROVE Contract!Next
  <2>1. Contract!get_tx_context /\ Seen' = Seen
    BY <1>3, SameAnswer, SameAccountsSeen DEF get_tx_context, Contract!get_tx_context
  <2> QED BY <2>1 DEF Contract!Next, Contract!Unobservable, Seen
<1>4. ASSUME emit_log PROVE Contract!Next
  <2>1. Contract!emit_log /\ Seen' = Seen
    BY <1>4, SameAnswer, SameAccountsSeen DEF emit_log, Contract!emit_log
  <2> QED BY <2>1 DEF Contract!Next, Contract!Unobservable, Seen
<1>5. ASSUME TakeAnswer PROVE Contract!Next
  <2>1. answer' = NoAnswer /\ Seen' = Seen
    BY <1>5, SameAccountsSeen DEF TakeAnswer
  <2>2. Contract!Take
    BY <2>1 DEF Contract!Take, Contract!NoAnswer, NoAnswer, Seen
  <2> QED BY <2>2 DEF Contract!Next
<1> QED BY <1>1, <1>2, <1>3, <1>4, <1>5

LEMMA SimulatesWrite ==
    ASSUME MapsInv, NEW a \in Addr, NEW k \in Key, NEW v \in Value, set_storage(a, k, v)
    PROVE  Contract!Next
<1>1. PICK exists0, exists1, storage0, storage1 :
          /\ exists0 = {b \in Addr : account_exists(b)}
          /\ exists1 = {b \in Addr : account_exists(b)}'
          /\ storage0 = [b \in Addr |-> [c \in Key |-> get_storage(b, c)]]
          /\ storage1 = [b \in Addr |-> [c \in Key |-> get_storage(b, c)]]'
  OBVIOUS
<1>2. MapsInv' /\ OnlySlotWritten(accounts, accounts', a, k, v)
  BY WriteKeepsMaps
<1>3. exists1 = exists0 \cup {a}
  <2>1. \A b \in Addr : account_exists(b) <=> b \in DOMAIN accounts
    BY AccountAt DEF MapsInv, account_exists
  <2>2. \A b \in Addr : account_exists(b)' <=> b \in DOMAIN accounts'
    BY <1>2, AccountAt DEF MapsInv, account_exists
  <2>3. DOMAIN accounts' = DOMAIN accounts \cup {a}
    BY <1>2 DEF OnlySlotWritten
  <2> QED BY <1>1, <2>1, <2>2, <2>3
<1>4. storage1 = [storage0 EXCEPT ![a][k] = v]
  <2>1. storage0 = [b \in Addr |-> [c \in Key |-> Stored(accounts, b, c)]]
    BY <1>1 DEF get_storage, account, Stored
  <2>2. storage1 = [b \in Addr |-> [c \in Key |-> Stored(accounts', b, c)]]
    BY <1>1 DEF get_storage, account, Stored
  <2>3. \A b \in Addr, c \in Key :
            Stored(accounts', b, c) = IF b = a /\ c = k THEN v ELSE Stored(accounts, b, c)
    BY <1>2 DEF OnlySlotWritten
  <2> QED BY <2>1, <2>2, <2>3
<1>5. UNCHANGED <<[b \in Addr |-> get_balance(b)], [b \in Addr |-> account(b).code]>>
  BY <1>2 DEF OnlySlotWritten, get_balance, account
<1>6. \E status \in {"ASSIGNED", "MODIFIED"} :
          /\ storage0[a][k] = v => status = "ASSIGNED"
          /\ Contract!Answered("set_storage", <<a, k, v>>, status)
  <2>1. PICK status : status = IF bytes32_equal(get_storage(a, k), v) THEN "ASSIGNED" ELSE "MODIFIED"
    OBVIOUS
  <2>2. Answer("set_storage", <<a, k, v>>, status)
    BY <2>1 DEF set_storage
  <2>3. storage0[a][k] = get_storage(a, k)
    BY <1>1
  <2>4. get_storage(a, k) \in AllBytes32 /\ v \in AllBytes32
    BY StoredIsValue, HostAssumption
  <2>5. get_storage(a, k) = v => status = "ASSIGNED"
    BY <2>1, <2>4, Bytes32Order
  <2> QED BY <2>1, <2>2, <2>3, <2>5, SameAnswer
<1>7. Contract!set_storage(a, k, v)
  BY <1>1, <1>3, <1>4, <1>5, <1>6 DEF Contract!set_storage
<1> QED BY <1>7 DEF Contract!Next

(* Every step of the program is one of the contract or a stutter.           *)
LEMMA SimulatesStep == MapsInv /\ [Next]_programVars => [Contract!Next]_(Contract!contractVars)
<1> SUFFICES ASSUME MapsInv, [Next]_programVars PROVE [Contract!Next]_(Contract!contractVars)
  OBVIOUS
<1>1. UNCHANGED hostVars => UNCHANGED Contract!contractVars
  BY SameAccountsSeen DEF hostVars, Contract!contractVars, Seen
<1>2. HostCall => Contract!Next
  BY SimulatesAsk, SimulatesCode, SimulatesStorage, SimulatesOthers, SimulatesWrite DEF HostCall
<1>3. CASE VMCallsHost
  BY <1>2, <1>3 DEF VMCallsHost
<1>4. CASE VMTakesAnswer
  BY <1>4, SimulatesOthers DEF VMTakesAnswer
<1>5. CASE PrintResult
  <2>1. CASE UNCHANGED hostVars
    BY <1>1, <2>1
  <2>2. CASE AskStorage(Recipient, StorageKey)
    BY <2>2, SimulatesStorage, ProgramAssumption
  <2> QED BY <1>5, <2>1, <2>2 DEF PrintResult
<1>6. CASE Load \/ CreateContext \/ VMReturns \/ Release \/ UNCHANGED programVars
  <2>1. UNCHANGED hostVars
    BY <1>6 DEF Load, CreateContext, VMReturns, Release, programVars
  <2> QED BY <1>1, <2>1
<1> QED BY <1>3, <1>4, <1>5, <1>6 DEF Next

(* Every call of the interface answers what qrvmc.h says and changes only  *)
(* what it may: the way of a call through HostContext, the table and the   *)
(* adaptors ends at the right method, and the maps keep the accounts       *)
(* apart, for all addresses, keys, values and codes.                       *)
THEOREM HostImplementsContract == Spec => ImplementsHost
<1>1. Init => MapsInv /\ Contract!Init
  BY MapsInit, SimulatesInit
<1>2. MapsInv /\ [Next]_programVars => MapsInv'
  BY MapsStep
<1>3. MapsInv /\ [Next]_programVars => [Contract!Next]_(Contract!contractVars)
  BY SimulatesStep
<1> QED BY <1>1, <1>2, <1>3, PTL DEF Spec, ImplementsHost, Contract!Spec
==============================================================================
