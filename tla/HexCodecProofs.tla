---------------------------- MODULE HexCodecProofs -----------------------------
(***************************************************************************)
(* The hex decoder for inputs of any length over any characters, arrays of *)
(* any size and any prefix: the language each entry point accepts, no      *)
(* write outside the result, and decoding inverts encoding.  First the     *)
(* digits, then the iterator, the loop of from_hex() on the text it is     *)
(* run on, and last what the entry points make of their arguments.         *)
(***************************************************************************)
EXTENDS HexCodec, SequenceTheorems, FiniteSetTheorems, WellFoundedInduction, TLAPS

(* A set of numbers has a least one.                                       *)
LEMMA LeastElement ==
    ASSUME NEW S \in SUBSET Nat, S # {}
    PROVE  \E n \in S : \A m \in S : n <= m
<1> DEFINE below(n) == 1..n
           T == {below(n) : n \in S}
<1>1. T \subseteq FiniteSubsetsOf(Nat)
  BY FS_Interval DEF FiniteSubsetsOf
<1>2. T # {}
  OBVIOUS
<1>3. PICK x \in T : \A y \in T : ~(<<y, x>> \in StrictSubsetOrdering(Nat))
  BY <1>1, <1>2, FS_StrictSubsetOrderingWellFounded, WFMin
<1>4. PICK n \in S : x = below(n)
  OBVIOUS
<1>5. ASSUME NEW m \in S PROVE n <= m
  <2>1. ~(<<below(m), below(n)>> \in StrictSubsetOrdering(Nat))
    BY <1>3, <1>4
  <2>2. below(m) \in SUBSET Nat /\ below(n) \in SUBSET Nat
    OBVIOUS
  <2>3. ~(below(m) \subseteq below(n) /\ below(m) # below(n))
    BY <2>1, <2>2 DEF StrictSubsetOrdering
  <2>4. CASE m < n
    <3>1. n \in below(n) /\ n \notin below(m)
      BY <2>4
    <3>2. below(m) \subseteq below(n)
      BY <2>4
    <3> QED BY <3>1, <3>2, <2>3
  <2> QED BY <2>4
<1> QED BY <1>5

------------------------------------------------------------------------------
(* The values of the digits.                                               *)
LEMMA IndexIs ==
    ASSUME NEW digits, NEW l \in Nat, DOMAIN digits = 1..l, Len(digits) = l,
           NEW h \in Range(digits)
    PROVE  Index(digits, h) \in 1..l /\ digits[Index(digits, h)] = h
<1>1. \E n \in 1..Len(digits) : digits[n] = h
  BY DEF Range
<1> QED
  BY <1>1 DEF Index

LEMMA DigitsAre ==
    /\ DOMAIN Decimal = 1..10 /\ Len(Decimal) = 10
    /\ DOMAIN Lower = 1..6 /\ Len(Lower) = 6
    /\ DOMAIN Upper = 1..6 /\ Len(Upper) = 6
    /\ \A n \in 1..10 : hex_digits[n] = Decimal[n]
    /\ \A n \in 1..6 : hex_digits[10 + n] = Lower[n]
<1>1. /\ DOMAIN Decimal = 1..10 /\ Len(Decimal) = 10
      /\ DOMAIN Lower = 1..6 /\ Len(Lower) = 6
      /\ DOMAIN Upper = 1..6 /\ Len(Upper) = 6
  BY DEF Decimal, Lower, Upper
<1>2. ASSUME NEW n \in 1..10 PROVE hex_digits[n] = Decimal[n]
  <2>1. n = 1 \/ n = 2 \/ n = 3 \/ n = 4 \/ n = 5 \/ n = 6 \/ n = 7 \/ n = 8 \/ n = 9 \/ n = 10
    OBVIOUS
  <2> QED
    BY <2>1 DEF hex_digits, Decimal
<1>3. ASSUME NEW n \in 1..6 PROVE hex_digits[10 + n] = Lower[n]
  <2>1. n = 1 \/ n = 2 \/ n = 3 \/ n = 4 \/ n = 5 \/ n = 6
    OBVIOUS
  <2>2. hex_digits[11] = "a" /\ hex_digits[12] = "b" /\ hex_digits[13] = "c"
        /\ hex_digits[14] = "d" /\ hex_digits[15] = "e" /\ hex_digits[16] = "f"
    BY DEF hex_digits
  <2>3. Lower[1] = "a" /\ Lower[2] = "b" /\ Lower[3] = "c"
        /\ Lower[4] = "d" /\ Lower[5] = "e" /\ Lower[6] = "f"
    BY DEF Lower
  <2> QED
    BY <2>1, <2>2, <2>3
<1> QED
  BY <1>1, <1>2, <1>3

(* The three kinds of digits have no character in common.                  *)
LEMMA DigitKinds ==
    /\ Range(Decimal) = {"0", "1", "2", "3", "4", "5", "6", "7", "8", "9"}
    /\ Range(Lower) = {"a", "b", "c", "d", "e", "f"}
    /\ Range(Upper) = {"A", "B", "C", "D", "E", "F"}
<1>1. ASSUME NEW n \in 1..10
      PROVE  n = 1 \/ n = 2 \/ n = 3 \/ n = 4 \/ n = 5 \/ n = 6 \/ n = 7 \/ n = 8 \/ n = 9 \/ n = 10
  OBVIOUS
<1>2. ASSUME NEW n \in 1..6 PROVE n = 1 \/ n = 2 \/ n = 3 \/ n = 4 \/ n = 5 \/ n = 6
  OBVIOUS
<1>3. Range(Decimal) = {"0", "1", "2", "3", "4", "5", "6", "7", "8", "9"}
  BY <1>1, DigitsAre DEF Decimal, Range
<1>4. Range(Lower) = {"a", "b", "c", "d", "e", "f"}
  BY <1>2, DigitsAre DEF Lower, Range
<1>5. Range(Upper) = {"A", "B", "C", "D", "E", "F"}
  BY <1>2, DigitsAre DEF Upper, Range
<1> QED
  BY <1>3, <1>4, <1>5

(* The digit of a value is the digit the value comes from, in lower case.  *)
LowercaseOf(h) == IF h \in Range(Upper) THEN Lower[Index(Upper, h)] ELSE h

LEMMA DigitValue ==
    ASSUME NEW h, from_hex_digit(h) # -1
    PROVE  from_hex_digit(h) \in 0..15 /\ hex_digits[1 + from_hex_digit(h)] = LowercaseOf(h)
<1>1. CASE h \in Range(Decimal)
  <2>1. Index(Decimal, h) \in 1..10 /\ Decimal[Index(Decimal, h)] = h
    BY <1>1, IndexIs, DigitsAre
  <2>2. from_hex_digit(h) = Index(Decimal, h) - 1
    BY <1>1 DEF from_hex_digit
  <2>3. h \notin Range(Upper)
    BY <1>1, DigitKinds
  <2> QED
    BY <2>1, <2>2, <2>3, DigitsAre DEF LowercaseOf
<1>2. CASE h \notin Range(Decimal) /\ h \in Range(Lower)
  <2>1. Index(Lower, h) \in 1..6 /\ Lower[Index(Lower, h)] = h
    BY <1>2, IndexIs, DigitsAre
  <2>2. from_hex_digit(h) = Index(Lower, h) - 1 + 10
    BY <1>2 DEF from_hex_digit
  <2>3. h \notin Range(Upper)
    BY <1>2, DigitKinds
  <2>4. 1 + from_hex_digit(h) = 10 + Index(Lower, h)
    BY <2>1, <2>2
  <2> QED
    BY <2>1, <2>2, <2>3, <2>4, DigitsAre DEF LowercaseOf
<1>3. CASE h \notin Range(Decimal) /\ h \notin Range(Lower) /\ h \in Range(Upper)
  <2>1. Index(Upper, h) \in 1..6
    BY <1>3, IndexIs, DigitsAre
  <2>2. from_hex_digit(h) = Index(Upper, h) - 1 + 10
    BY <1>3 DEF from_hex_digit
  <2>3. 1 + from_hex_digit(h) = 10 + Index(Upper, h)
    BY <2>1, <2>2
  <2> QED
    BY <1>3, <2>1, <2>2, <2>3, DigitsAre DEF LowercaseOf
<1> QED
  BY <1>1, <1>2, <1>3 DEF from_hex_digit

(* A character is a digit exactly if it has a value; 0 is the value of one *)
(* digit only, and x is none.                                              *)
LEMMA DigitOrNot ==
    /\ \A h : Digit(h) <=> from_hex_digit(h) # -1
    /\ \A h : from_hex_digit(h) = 0 => h = "0"
    /\ Digit("0") /\ from_hex_digit("0") = 0
    /\ ~Digit("x")
<1>1. ASSUME NEW h PROVE Digit(h) <=> from_hex_digit(h) # -1
  BY DigitValue DEF Digit
<1>2. ASSUME NEW h, from_hex_digit(h) = 0 PROVE h = "0"
  <2>1. ASSUME h \in Range(Decimal) PROVE h = Decimal[Index(Decimal, h)] /\ Index(Decimal, h) \in 1..10
    BY <2>1, IndexIs, DigitsAre
  <2>2. ASSUME h \in Range(Lower) PROVE Index(Lower, h) \in 1..6
    BY <2>2, IndexIs, DigitsAre
  <2>3. ASSUME h \in Range(Upper) PROVE Index(Upper, h) \in 1..6
    BY <2>3, IndexIs, DigitsAre
  <2>4. h \in Range(Decimal)
    BY <1>2, <2>2, <2>3 DEF from_hex_digit
  <2>5. Index(Decimal, h) = 1
    BY <1>2, <2>1, <2>4 DEF from_hex_digit
  <2>6. Decimal[1] = "0"
    BY DEF Decimal
  <2> QED
    BY <2>1, <2>4, <2>5, <2>6
<1>3. from_hex_digit("0") = 0
  <2>1. "0" \in Range(Decimal)
    BY DigitKinds
  <2>2. Index(Decimal, "0") \in 1..10 /\ Decimal[Index(Decimal, "0")] = "0"
    BY <2>1, IndexIs, DigitsAre
  <2>3. \A n \in 1..10 : Decimal[n] = "0" => n = 1
    BY DEF Decimal
  <2> QED
    BY <2>1, <2>2, <2>3 DEF from_hex_digit
<1>4. ~Digit("x")
  <2>1. "x" \notin Range(Decimal) /\ "x" \notin Range(Lower) /\ "x" \notin Range(Upper)
    BY DigitKinds
  <2> QED
    BY <2>1 DEF Digit, from_hex_digit
<1> QED
  BY <1>1, <1>2, <1>3, <1>4 DEF Digit

------------------------------------------------------------------------------
(* What is left of a sequence.                                             *)
LEMMA Suffix ==
    ASSUME NEW s \in Seq(STRING), NEW p \in 0..Len(s), NEW r, r = SubSeq(s, p + 1, Len(s))
    PROVE  /\ r \in Seq(STRING) /\ Len(r) = Len(s) - p
           /\ \A k \in 1..Len(s) - p : r[k] = s[p + k]
           /\ r = << >> <=> p = Len(s)
<1>1. Len(s) \in Nat /\ p \in Nat /\ p <= Len(s) /\ \A k \in (p + 1)..Len(s) : k \in 1..Len(s)
  OBVIOUS
<1>2. \A k \in (p + 1)..Len(s) : s[k] \in STRING
  BY <1>1, LenProperties
<1>3. r \in Seq(STRING)
  BY <1>1, <1>2
<1>4. Len(r) = IF p + 1 <= Len(s) THEN Len(s) - (p + 1) + 1 ELSE 0
  BY <1>1, <1>2
<1>5. \A k \in 1..Len(s) - (p + 1) + 1 : r[k] = s[p + 1 + k - 1]
  BY <1>1, <1>2
<1>6. /\ Len(s) - (p + 1) + 1 = Len(s) - p
      /\ (IF p + 1 <= Len(s) THEN Len(s) - (p + 1) + 1 ELSE 0) = Len(s) - p
  BY <1>1
<1>7. \A k \in 1..Len(s) - p : r[k] = s[p + k]
  <2>1. \A k \in 1..Len(s) - p : p + 1 + k - 1 = p + k
    BY <1>1
  <2> QED
    BY <1>5, <1>6, <2>1
<1>8. r = << >> <=> Len(r) = 0
  BY <1>3, EmptySeq
<1>9. Len(r) = Len(s) - p
  BY <1>4, <1>6
<1>10. Len(r) = 0 <=> p = Len(s)
  BY <1>1, <1>9
<1> QED
  BY <1>3, <1>7, <1>8, <1>9, <1>10

(* What is left of what is left.                                           *)
LEMMA SuffixOfSuffix ==
    ASSUME NEW s \in Seq(STRING), NEW p \in 0..Len(s), NEW r, r = SubSeq(s, p + 1, Len(s)),
           NEW q \in 0..Len(s) - p
    PROVE  SubSeq(r, q + 1, Len(r)) = SubSeq(s, p + q + 1, Len(s))
<1>1. /\ r \in Seq(STRING) /\ Len(r) = Len(s) - p
      /\ \A k \in 1..Len(s) - p : r[k] = s[p + k]
  BY Suffix
<1>2. Len(s) \in Nat /\ p \in Nat /\ q \in Nat /\ p + q \in 0..Len(s) /\ q \in 0..Len(r)
  BY <1>1
<1> DEFINE a == SubSeq(r, q + 1, Len(r))
           b == SubSeq(s, p + q + 1, Len(s))
<1>3. a \in Seq(STRING) /\ Len(a) = Len(r) - q /\ \A k \in 1..Len(r) - q : a[k] = r[q + k]
  BY <1>1, <1>2, Suffix
<1>4. b \in Seq(STRING) /\ Len(b) = Len(s) - (p + q)
      /\ \A k \in 1..Len(s) - (p + q) : b[k] = s[p + q + k]
  <2>1. PICK t \in 0..Len(s) : t = p + q
    BY <1>2
  <2>2. b = SubSeq(s, t + 1, Len(s))
    BY <2>1
  <2> HIDE DEF b
  <2>3. b \in Seq(STRING) /\ Len(b) = Len(s) - t /\ \A k \in 1..Len(s) - t : b[k] = s[t + k]
    BY <2>2, Suffix
  <2> QED
    BY <2>1, <2>3
<1> HIDE DEF a, b
<1>5. Len(a) = Len(b) /\ Len(a) \in Nat
  BY <1>1, <1>2, <1>3, <1>4
<1>6. ASSUME NEW k \in 1..Len(a) PROVE a[k] = b[k]
  <2>1. q + k \in 1..Len(s) - p /\ k \in 1..Len(r) - q /\ k \in 1..Len(s) - (p + q)
        /\ p + (q + k) = p + q + k
    BY <1>1, <1>2, <1>3
  <2>2. a[k] = s[p + (q + k)]
    BY <1>1, <1>3, <2>1
  <2> QED
    BY <1>4, <2>1, <2>2
<1> QED
  BY <1>3, <1>4, <1>5, <1>6, SeqEqual DEF a, b

------------------------------------------------------------------------------
(* The places that are visible, counted.                                   *)
LEMMA VisibleCount ==
    ASSUME NEW e, NEW s, NEW n \in Nat
    PROVE  /\ IsFiniteSet(Visible(e, s, n))
           /\ Cardinality(Visible(e, s, n)) \in Nat
           /\ Cardinality(Visible(e, s, n)) <= n
<1>1. IsFiniteSet(1..n) /\ Cardinality(1..n) = IF 1 > n THEN 0 ELSE n - 1 + 1
  BY FS_Interval
<1>2. Cardinality(1..n) = n
  BY <1>1
<1>3. Visible(e, s, n) \in SUBSET (1..n)
  BY DEF Visible
<1>4. IsFiniteSet(Visible(e, s, n)) /\ Cardinality(Visible(e, s, n)) <= Cardinality(1..n)
  BY <1>1, <1>3, FS_Subset
<1> QED
  BY <1>2, <1>4, FS_CardinalityType

LEMMA NoneVisible == ASSUME NEW e, NEW s PROVE Cardinality(Visible(e, s, 0)) = 0
<1>1. Visible(e, s, 0) = {}
  BY DEF Visible
<1> QED
  BY <1>1, FS_EmptySet

LEMMA OneMoreVisible ==
    ASSUME NEW e, NEW s, NEW n \in Nat
    PROVE  Cardinality(Visible(e, s, n + 1)) =
              Cardinality(Visible(e, s, n)) + (IF n + 1 \in Visible(e, s, n + 1) THEN 1 ELSE 0)
<1>1. IsFiniteSet(Visible(e, s, n)) /\ Cardinality(Visible(e, s, n)) \in Nat
  BY VisibleCount
<1>2. n + 1 \notin Visible(e, s, n)
  BY DEF Visible
<1>3. CASE n + 1 \in Visible(e, s, n + 1)
  <2>1. Visible(e, s, n + 1) = Visible(e, s, n) \cup {n + 1}
    BY <1>3 DEF Visible
  <2> QED
    BY <1>1, <1>2, <1>3, <2>1, FS_AddElement
<1>4. CASE n + 1 \notin Visible(e, s, n + 1)
  <2>1. Visible(e, s, n + 1) = Visible(e, s, n)
    BY <1>4 DEF Visible
  <2> QED
    BY <1>1, <1>4, <2>1
<1> QED
  BY <1>3, <1>4

LEMMA MoreVisible ==
    ASSUME NEW e, NEW s, NEW m \in Nat, NEW n \in Nat, m <= n
    PROVE  Cardinality(Visible(e, s, m)) <= Cardinality(Visible(e, s, n))
<1>1. Visible(e, s, m) \in SUBSET Visible(e, s, n)
  BY DEF Visible
<1> QED
  BY <1>1, VisibleCount, FS_Subset

(* White space between two places does not count.                          *)
LEMMA NothingBetween ==
    ASSUME NEW e, NEW s, NEW m \in Nat, NEW n \in Nat, m <= n,
           \A k \in (m + 1)..n : k \notin Visible(e, s, n)
    PROVE  Cardinality(Visible(e, s, n)) = Cardinality(Visible(e, s, m))
<1>1. Visible(e, s, n) = Visible(e, s, m)
  <2>1. ASSUME NEW k \in Visible(e, s, n) PROVE k \in Visible(e, s, m)
    <3>1. k \in 1..n /\ ~(k \in (m + 1)..n)
      BY <2>1 DEF Visible
    <3>2. k \in 1..m
      BY <3>1
    <3> QED
      BY <2>1, <3>2 DEF Visible
  <2>2. ASSUME NEW k \in Visible(e, s, m) PROVE k \in Visible(e, s, n)
    BY <2>2 DEF Visible
  <2> QED
    BY <2>1, <2>2
<1> QED
  BY <1>1

(* The characters kept: the next visible one is the next of them.          *)
LEMMA KeptIs ==
    ASSUME NEW e, NEW s \in Seq(STRING)
    PROVE  /\ Kept(e, s) \in Seq(STRING)
           /\ Len(Kept(e, s)) = Cardinality(Visible(e, s, Len(s)))
           /\ Len(Kept(e, s)) <= Len(s)
           /\ \A p \in 1..Len(s) : p \in Visible(e, s, Len(s)) =>
                 LET k == Cardinality(Visible(e, s, p)) IN
                 k \in 1..Len(Kept(e, s)) /\ Kept(e, s)[k] = s[p]
<1> DEFINE l == Cardinality(Visible(e, s, Len(s)))
           places == Visible(e, s, Len(s))
           place(k) == CHOOSE n \in places : Cardinality(Visible(e, s, n)) = k
<1>1. l \in Nat /\ l <= Len(s) /\ Len(s) \in Nat
  BY VisibleCount
<1>2. Kept(e, s) = [k \in 1..l |-> s[place(k)]]
  BY DEF Kept
<1>3. places \subseteq 1..Len(s)
  BY DEF Visible
<1>4. ASSUME NEW m \in places, NEW n \in places, m < n
      PROVE  Cardinality(Visible(e, s, m)) < Cardinality(Visible(e, s, n))
  <2>1. m \in Nat /\ n \in Nat /\ n - 1 \in Nat /\ m <= n - 1 /\ (n - 1) + 1 = n
    BY <1>1, <1>3, <1>4
  <2>2. n \in Visible(e, s, n)
    BY <2>1, <1>3 DEF Visible
  <2>3. Cardinality(Visible(e, s, n)) = Cardinality(Visible(e, s, n - 1)) + 1
    BY <2>1, <2>2, OneMoreVisible
  <2>4. Cardinality(Visible(e, s, m)) <= Cardinality(Visible(e, s, n - 1))
    BY <2>1, MoreVisible
  <2> QED
    BY <2>1, <2>3, <2>4, VisibleCount
<1>5. ASSUME NEW p \in places
      PROVE  Cardinality(Visible(e, s, p)) \in 1..l /\ place(Cardinality(Visible(e, s, p))) = p
  <2>1. p \in 1..Len(s) /\ p \in Nat /\ p - 1 \in Nat /\ (p - 1) + 1 = p
    BY <1>1, <1>3
  <2>2. p \in Visible(e, s, p)
    BY <2>1 DEF Visible
  <2>3. Cardinality(Visible(e, s, p)) = Cardinality(Visible(e, s, p - 1)) + 1
    BY <2>1, <2>2, OneMoreVisible
  <2>4. Cardinality(Visible(e, s, p - 1)) \in Nat /\ Cardinality(Visible(e, s, p)) <= l
    BY <1>1, <2>1, VisibleCount, MoreVisible
  <2>5. \A n \in places : Cardinality(Visible(e, s, n)) = Cardinality(Visible(e, s, p)) => n = p
    <3> SUFFICES ASSUME NEW n \in places, n # p
                 PROVE  Cardinality(Visible(e, s, n)) # Cardinality(Visible(e, s, p))
      OBVIOUS
    <3>1. n \in Nat /\ p \in Nat
      BY <1>1, <1>3
    <3>2. n < p \/ p < n
      BY <3>1
    <3>3. Cardinality(Visible(e, s, n)) \in Nat /\ Cardinality(Visible(e, s, p)) \in Nat
      BY <3>1, VisibleCount
    <3> QED
      BY <1>4, <3>2, <3>3
  <2>6. place(Cardinality(Visible(e, s, p))) = p
    BY <2>5
  <2> QED
    BY <1>1, <2>3, <2>4, <2>6
<1>6. ASSUME NEW k \in 1..l PROVE s[place(k)] \in STRING
  <2> SUFFICES \E n \in places : Cardinality(Visible(e, s, n)) = k
    <3> SUFFICES ASSUME place(k) \in places PROVE s[place(k)] \in STRING
      OBVIOUS
    <3> HIDE DEF place
    <3> QED
      BY <1>3, LenProperties
  <2> DEFINE reached == {n \in 1..Len(s) : k <= Cardinality(Visible(e, s, n))}
  <2>1. Len(s) \in reached /\ reached \in SUBSET Nat
    <3>1. l # 0 => Len(s) # 0
      BY NoneVisible
    <3> QED
      BY <1>1, <3>1
  <2>2. PICK n \in reached : \A m \in reached : n <= m
    BY <2>1, LeastElement
  <2>3. n \in 1..Len(s) /\ n \in Nat /\ n - 1 \in Nat /\ (n - 1) + 1 = n
    BY <1>1, <2>2
  <2>4. Cardinality(Visible(e, s, n - 1)) < k /\ Cardinality(Visible(e, s, n - 1)) \in Nat
    <3>1. CASE n - 1 = 0
      BY <3>1, NoneVisible
    <3>2. CASE n - 1 # 0
      <4>1. n - 1 \in 1..Len(s) /\ ~(n <= n - 1)
        BY <2>3, <3>2
      <4>2. ~(k <= Cardinality(Visible(e, s, n - 1)))
        BY <2>2, <4>1
      <4> QED
        BY <1>1, <2>3, <4>2, VisibleCount
    <3> QED
      BY <3>1, <3>2
  <2>5. k <= Cardinality(Visible(e, s, n)) /\ Cardinality(Visible(e, s, n)) \in Nat
    BY <2>2, <2>3, VisibleCount
  <2>6. Cardinality(Visible(e, s, n)) = Cardinality(Visible(e, s, n - 1))
                                          + (IF n \in Visible(e, s, n) THEN 1 ELSE 0)
    BY <2>3, OneMoreVisible
  <2>7. n \in Visible(e, s, n) /\ Cardinality(Visible(e, s, n)) = k
    BY <1>1, <2>4, <2>5, <2>6
  <2>8. n \in places
    BY <2>3, <2>7 DEF Visible
  <2> QED
    BY <2>7, <2>8
<1> HIDE DEF l, places, place
<1>7. Kept(e, s) \in [1..l -> STRING]
  BY <1>2, <1>6
<1>8. Kept(e, s) \in Seq(STRING)
  BY <1>1, <1>7
<1>9. Len(Kept(e, s)) = l
  BY <1>1, <1>7, <1>8, LenProperties
<1>10. ASSUME NEW p \in places
       PROVE  Kept(e, s)[Cardinality(Visible(e, s, p))] = s[p]
  BY <1>2, <1>5
<1> QED
  BY <1>1, <1>5, <1>8, <1>9, <1>10 DEF l, places

------------------------------------------------------------------------------
(* The iterator: r is what is left of s behind the first j visible         *)
(* characters, and begins with a visible one.                              *)
RestAt(e, s, r, j) ==
    \E p \in 0..Len(s) :
        /\ r = SubSeq(s, p + 1, Len(s))
        /\ Cardinality(Visible(e, s, p)) = j
        /\ p < Len(s) => p + 1 \in Visible(e, s, Len(s))

(* The base iterator ends at the first character that is no white space.   *)
LEMMA Forwards ==
    ASSUME NEW r \in Seq(STRING)
    PROVE  \E q \in 0..Len(r) :
              /\ forward_to_next_value(r) = SubSeq(r, q + 1, Len(r))
              /\ \A k \in 1..q : isspace(r[k])
              /\ q < Len(r) => ~isspace(r[q + 1])
<1> DEFINE I == {n \in 1..Len(r) : ~isspace(r[n])}
           first == CHOOSE n \in I : \A m \in I : n <= m
           N == IF I # {} THEN first ELSE 0
<1>1. Len(r) \in Nat
  OBVIOUS
<1>2. forward_to_next_value(r) = IF N = 0 THEN << >> ELSE SubSeq(r, N, Len(r))
  BY DEF forward_to_next_value, SelectInSeq, Min
<1>3. CASE I = {}
  <2>1. forward_to_next_value(r) = << >>
    BY <1>2, <1>3
  <2>2. SubSeq(r, Len(r) + 1, Len(r)) = << >>
    BY <1>1, Suffix
  <2>3. \A k \in 1..Len(r) : isspace(r[k])
    BY <1>3
  <2>4. Len(r) \in 0..Len(r) /\ ~(Len(r) < Len(r))
    BY <1>1
  <2> QED
    BY <2>1, <2>2, <2>3, <2>4
<1>4. CASE I # {}
  <2>1. I \in SUBSET Nat
    OBVIOUS
  <2>2. \E n \in I : \A m \in I : n <= m
    BY <1>4, <2>1, LeastElement
  <2>3. first \in I /\ \A m \in I : first <= m
    BY <2>2
  <2>4. N = first
    BY <1>4
  <2> HIDE DEF first, N
  <2>5. first \in 1..Len(r) /\ first \in Nat /\ first - 1 \in 0..Len(r) /\ (first - 1) + 1 = first
        /\ first # 0 /\ ~isspace(r[first])
    BY <1>1, <2>3
  <2>6. ASSUME NEW k \in 1..first - 1 PROVE isspace(r[k])
    <3>1. k \in 1..Len(r) /\ ~(first <= k)
      BY <1>1, <2>5
    <3> QED
      BY <2>3, <3>1
  <2>7. forward_to_next_value(r) = SubSeq(r, (first - 1) + 1, Len(r))
    BY <1>2, <2>4, <2>5
  <2> QED
    BY <2>5, <2>6, <2>7
<1> QED
  BY <1>3, <1>4

(* Wherever it is put, the iterator goes on to the next visible character. *)
LEMMA Forwarded ==
    ASSUME NEW e, NEW s \in Seq(STRING), NEW p \in 0..Len(s), NEW r, r = SubSeq(s, p + 1, Len(s)),
           NEW next, next = IF e = "from_spaced_hex" THEN forward_to_next_value(r) ELSE r
    PROVE  RestAt(e, s, next, Cardinality(Visible(e, s, p)))
<1>1. Len(s) \in Nat /\ p \in Nat
  OBVIOUS
<1>2. CASE e = "from_spaced_hex"
  <2>1. /\ r \in Seq(STRING) /\ Len(r) = Len(s) - p
        /\ \A k \in 1..Len(s) - p : r[k] = s[p + k]
    BY Suffix
  <2>2. PICK q \in 0..Len(r) :
              /\ forward_to_next_value(r) = SubSeq(r, q + 1, Len(r))
              /\ \A k \in 1..q : isspace(r[k])
              /\ q < Len(r) => ~isspace(r[q + 1])
    BY <2>1, Forwards
  <2>3. q \in 0..Len(s) - p /\ q \in Nat /\ p + q \in 0..Len(s) /\ p + q \in Nat /\ p <= p + q
    BY <1>1, <2>1, <2>2
  <2>4. next = SubSeq(s, (p + q) + 1, Len(s))
    <3>1. SubSeq(r, q + 1, Len(r)) = SubSeq(s, p + q + 1, Len(s))
      BY <2>3, SuffixOfSuffix
    <3>2. next = SubSeq(r, q + 1, Len(r))
      BY <1>2, <2>2
    <3> QED
      BY <3>1, <3>2
  <2>5. ASSUME NEW k \in (p + 1)..(p + q) PROVE k \notin Visible(e, s, p + q)
    <3>1. k - p \in 1..q /\ k - p \in 1..Len(s) - p /\ p + (k - p) = k
      BY <1>1, <2>3
    <3>2. isspace(s[k])
      BY <2>1, <2>2, <3>1
    <3> QED
      BY <1>2, <3>2 DEF Visible
  <2>6. Cardinality(Visible(e, s, p + q)) = Cardinality(Visible(e, s, p))
    BY <1>1, <2>3, <2>5, NothingBetween
  <2>7. ASSUME p + q < Len(s) PROVE (p + q) + 1 \in Visible(e, s, Len(s))
    <3>1. q < Len(r) /\ q + 1 \in 1..Len(s) - p /\ p + (q + 1) = (p + q) + 1
          /\ (p + q) + 1 \in 1..Len(s)
      BY <1>1, <2>1, <2>3, <2>7
    <3>2. ~isspace(s[(p + q) + 1])
      BY <2>1, <2>2, <3>1
    <3> QED
      BY <3>1, <3>2 DEF Visible
  <2> QED
    BY <2>3, <2>4, <2>6, <2>7 DEF RestAt
<1>3. CASE e # "from_spaced_hex"
  <2>1. ASSUME p < Len(s) PROVE p + 1 \in Visible(e, s, Len(s))
    BY <1>1, <1>3, <2>1 DEF Visible
  <2> QED
    BY <1>3, <2>1 DEF RestAt
<1> QED
  BY <1>2, <1>3

(* A sequence of which nothing was read.                                   *)
LEMMA RestBegins ==
    ASSUME NEW e, NEW s \in Seq(STRING)
    PROVE  RestAt(e, s, IF e = "from_spaced_hex" THEN forward_to_next_value(s) ELSE s, 0)
<1>1. 0 \in 0..Len(s) /\ s = SubSeq(s, 0 + 1, Len(s))
  <2>1. Len(s) \in Nat /\ 0 \in 0..Len(s)
    OBVIOUS
  <2>2. PICK r : r = SubSeq(s, 0 + 1, Len(s))
    OBVIOUS
  <2>3. r \in Seq(STRING) /\ Len(r) = Len(s) - 0 /\ \A k \in 1..Len(s) - 0 : r[k] = s[0 + k]
    BY <2>1, <2>2, Suffix
  <2>4. Len(r) = Len(s) /\ \A k \in 1..Len(s) : r[k] = s[k]
    BY <2>1, <2>3
  <2>5. r = s
    BY <2>3, <2>4, SeqEqual
  <2> QED
    BY <2>1, <2>2, <2>5
<1> QED
  BY <1>1, Forwarded, NoneVisible

(* What the loop looks at is the next character that is kept.              *)
LEMMA RestStep ==
    ASSUME NEW e, NEW s \in Seq(STRING), NEW r, NEW j, RestAt(e, s, r, j), r # << >>
    PROVE  /\ j \in Nat /\ j + 1 <= Len(Kept(e, s)) /\ r[1] = Kept(e, s)[j + 1]
           /\ RestAt(e, s, IF e = "from_spaced_hex" THEN forward_to_next_value(Tail(r)) ELSE Tail(r), j + 1)
<1>1. PICK p \in 0..Len(s) :
        /\ r = SubSeq(s, p + 1, Len(s))
        /\ Cardinality(Visible(e, s, p)) = j
        /\ p < Len(s) => p + 1 \in Visible(e, s, Len(s))
  BY DEF RestAt
<1>2. /\ r \in Seq(STRING) /\ Len(r) = Len(s) - p
      /\ \A k \in 1..Len(s) - p : r[k] = s[p + k]
      /\ r = << >> <=> p = Len(s)
  BY <1>1, Suffix
<1>3. p < Len(s) /\ p \in Nat /\ p + 1 \in 1..Len(s) /\ 1 \in 1..Len(s) - p /\ 1 \in 0..Len(s) - p
      /\ Len(s) \in Nat
  BY <1>2
<1>4. p + 1 \in Visible(e, s, Len(s)) /\ p + 1 \in Visible(e, s, p + 1)
  BY <1>1, <1>3 DEF Visible
<1>5. Cardinality(Visible(e, s, p + 1)) = j + 1 /\ j \in Nat
  BY <1>1, <1>3, <1>4, OneMoreVisible, VisibleCount
<1>6. j + 1 \in 1..Len(Kept(e, s)) /\ Kept(e, s)[j + 1] = s[p + 1]
  BY <1>3, <1>4, <1>5, KeptIs
<1>7. Tail(r) = SubSeq(s, (p + 1) + 1, Len(s))
  <2>1. Tail(r) \in Seq(STRING) /\ Len(Tail(r)) = Len(r) - 1
        /\ \A k \in 1..Len(Tail(r)) : Tail(r)[k] = r[k + 1]
    BY <1>2, HeadTailProperties
  <2>2. /\ SubSeq(r, 1 + 1, Len(r)) \in Seq(STRING)
        /\ Len(SubSeq(r, 1 + 1, Len(r))) = Len(r) - 1
        /\ \A k \in 1..Len(r) - 1 : SubSeq(r, 1 + 1, Len(r))[k] = r[1 + k]
    <3>1. 1 \in 0..Len(r)
      BY <1>2, <1>3
    <3> QED
      BY <1>2, <3>1, Suffix
  <2>3. \A k \in 1..Len(r) - 1 : k + 1 = 1 + k
    BY <1>2, <1>3
  <2>4. Tail(r) = SubSeq(r, 1 + 1, Len(r))
    BY <2>1, <2>2, <2>3, SeqEqual
  <2>5. SubSeq(r, 1 + 1, Len(r)) = SubSeq(s, p + 1 + 1, Len(s))
    BY <1>1, <1>3, SuffixOfSuffix
  <2> QED
    BY <2>4, <2>5
<1>8. p + 1 \in 0..Len(s)
  BY <1>3
<1>9. RestAt(e, s, IF e = "from_spaced_hex" THEN forward_to_next_value(Tail(r)) ELSE Tail(r), j + 1)
  BY <1>5, <1>7, <1>8, Forwarded
<1>10. j + 1 <= Len(Kept(e, s))
  BY <1>5, <1>6, KeptIs
<1> QED
  BY <1>2, <1>3, <1>5, <1>6, <1>9, <1>10

LEMMA RestEnds ==
    ASSUME NEW e, NEW s \in Seq(STRING), NEW j, RestAt(e, s, << >>, j)
    PROVE  j = Len(Kept(e, s))
<1>1. PICK p \in 0..Len(s) :
        /\ << >> = SubSeq(s, p + 1, Len(s))
        /\ Cardinality(Visible(e, s, p)) = j
  BY DEF RestAt
<1>2. p = Len(s)
  BY <1>1, Suffix
<1> QED
  BY <1>1, <1>2, KeptIs

------------------------------------------------------------------------------
(* The loop: of the characters kept, those of the prefix are no digits.    *)
Shift(kept) == IF Has0x(kept) THEN 2 ELSE 0
(* The digits among the first n characters kept,                           *)
Read(kept, n) == IF n < Shift(kept) THEN 0 ELSE n - Shift(kept)
(* and the bytes these make.                                               *)
ByteAt(kept, n) ==
    16 * from_hex_digit(kept[2 * n - 1 + Shift(kept)]) + from_hex_digit(kept[2 * n + Shift(kept)])
Bytes(kept, n) == [k \in 1..Read(kept, n) \div 2 |-> ByteAt(kept, k)]

LEMMA Halves ==
    ASSUME NEW x \in Nat
    PROVE  /\ x \div 2 \in Nat /\ x % 2 \in {0, 1}
           /\ x = 2 * (x \div 2) + (x % 2)
           /\ x % 2 = 0 => (x + 1) \div 2 = x \div 2
  OBVIOUS

LEMMA DigitsOf ==
    ASSUME NEW kept \in Seq(STRING), NEW d, d = IF Has0x(kept) THEN Drop(kept, 2) ELSE kept
    PROVE  /\ d \in Seq(STRING) /\ Len(d) = Len(kept) - Shift(kept) /\ Len(d) \in Nat
           /\ Shift(kept) \in {0, 2} /\ Shift(kept) <= Len(kept) /\ Len(kept) \in Nat
           /\ \A n \in 1..Len(d) : d[n] = kept[n + Shift(kept)]
<1>1. Len(kept) \in Nat
  OBVIOUS
<1>2. CASE Has0x(kept)
  <2>1. 2 \in 0..Len(kept) /\ d = SubSeq(kept, 2 + 1, Len(kept)) /\ Shift(kept) = 2
    BY <1>1, <1>2 DEF Has0x, Drop, Shift
  <2>2. d \in Seq(STRING) /\ Len(d) = Len(kept) - 2 /\ \A n \in 1..Len(kept) - 2 : d[n] = kept[2 + n]
    BY <2>1, Suffix
  <2>3. \A n \in 1..Len(kept) - 2 : 2 + n = n + 2
    BY <1>1
  <2> QED
    BY <1>1, <2>1, <2>2, <2>3
<1>3. CASE ~Has0x(kept)
  <2>1. d = kept /\ Shift(kept) = 0 /\ \A n \in 1..Len(kept) : n + 0 = n
    BY <1>1, <1>3 DEF Shift
  <2> QED
    BY <1>1, <2>1
<1> QED
  BY <1>2, <1>3

LEMMA ValueType == ASSUME NEW h PROVE from_hex_digit(h) \in Int
  BY DigitValue

LEMMA ReadIs ==
    ASSUME NEW kept \in Seq(STRING), NEW n \in Nat
    PROVE  /\ Read(kept, n) \in Nat /\ Read(kept, n) \div 2 \in Nat
           /\ Read(kept, n) <= n
           /\ Shift(kept) \in {0, 2}
           /\ Has0x(kept) <=> Shift(kept) = 2
<1>1. Shift(kept) \in {0, 2} /\ (Has0x(kept) <=> Shift(kept) = 2)
  BY DEF Shift
<1> QED
  BY <1>1 DEF Read

LEMMA BytesAre ==
    ASSUME NEW kept \in Seq(STRING), NEW n \in Nat
    PROVE  /\ Bytes(kept, n) \in Seq(Int) /\ Len(Bytes(kept, n)) = Read(kept, n) \div 2
           /\ \A k \in 1..Read(kept, n) \div 2 : Bytes(kept, n)[k] = ByteAt(kept, k)
           /\ Read(kept, n) = 0 => Bytes(kept, n) = << >>
<1>1. \A k : from_hex_digit(kept[2 * k - 1 + Shift(kept)]) \in Int
             /\ from_hex_digit(kept[2 * k + Shift(kept)]) \in Int
  BY ValueType
<1>2. \A k : ByteAt(kept, k) \in Int
  BY <1>1 DEF ByteAt
<1>3. Read(kept, n) \div 2 \in Nat
  BY ReadIs
<1>4. Bytes(kept, n) \in [1..Read(kept, n) \div 2 -> Int]
  BY <1>2 DEF Bytes
<1>5. Bytes(kept, n) \in Seq(Int)
  BY <1>3, <1>4
<1>6. Len(Bytes(kept, n)) = Read(kept, n) \div 2
  BY <1>3, <1>4, <1>5, LenProperties
<1>7. ASSUME Read(kept, n) = 0 PROVE Bytes(kept, n) = << >>
  <2>1. Len(Bytes(kept, n)) = 0
    BY <1>6, <1>7
  <2> QED
    BY <1>5, <2>1, EmptySeq
<1> QED
  BY <1>5, <1>6, <1>7 DEF Bytes

(* Characters that are read as digits.                                     *)
AllDigits(kept, n) == \A k \in 1..Read(kept, n) : Digit(kept[k + Shift(kept)])

LEMMA NextRead ==
    ASSUME NEW kept \in Seq(STRING), NEW n \in Nat, n + 1 <= Len(kept), Digit(kept[n + 1])
    PROVE  \/ /\ Has0x(kept) /\ n = 0
              /\ Read(kept, n) = 0 /\ Read(kept, n + 1) = 0
           \/ /\ Read(kept, n) + Shift(kept) = n
              /\ Read(kept, n + 1) = Read(kept, n) + 1
              /\ Read(kept, n) % 2 = n % 2
<1>1. ASSUME Has0x(kept) PROVE n # 1
  <2>1. kept[2] = "x"
    BY <1>1 DEF Has0x
  <2> QED
    BY <2>1, DigitOrNot
<1>2. Shift(kept) \in {0, 2} /\ (Has0x(kept) <=> Shift(kept) = 2)
  BY ReadIs
<1> QED
  BY <1>1, <1>2 DEF Read

LEMMA DigitRead ==
    ASSUME NEW kept \in Seq(STRING), NEW n \in Nat, n + 1 <= Len(kept), Digit(kept[n + 1]),
           AllDigits(kept, n)
    PROVE  AllDigits(kept, n + 1)
<1> SUFFICES ASSUME NEW k \in 1..Read(kept, n + 1) PROVE Digit(kept[k + Shift(kept)])
  BY DEF AllDigits
<1>1. Read(kept, n) \in Nat /\ Shift(kept) \in {0, 2}
  BY ReadIs
<1>2. CASE k \in 1..Read(kept, n)
  BY <1>2 DEF AllDigits
<1>3. CASE k \notin 1..Read(kept, n)
  <2>1. Read(kept, n) + Shift(kept) = n /\ k = Read(kept, n) + 1
    BY <1>1, <1>3, NextRead
  <2>2. k + Shift(kept) = n + 1
    BY <1>1, <2>1
  <2> QED
    BY <2>2
<1> QED
  BY <1>2, <1>3

(* A first digit makes no byte, a second one does.                         *)
LEMMA HalfByte ==
    ASSUME NEW kept \in Seq(STRING), NEW n \in Nat, n + 1 <= Len(kept), Digit(kept[n + 1]), n % 2 = 0
    PROVE  Bytes(kept, n + 1) = Bytes(kept, n)
<1>1. Read(kept, n) \in Nat
  BY ReadIs
<1>2. \/ Read(kept, n) = 0 /\ Read(kept, n + 1) = 0
      \/ Read(kept, n + 1) = Read(kept, n) + 1 /\ Read(kept, n) % 2 = 0
  BY NextRead
<1>3. Read(kept, n + 1) \div 2 = Read(kept, n) \div 2
  BY <1>1, <1>2, Halves
<1> QED
  BY <1>3 DEF Bytes

LEMMA FullByte ==
    ASSUME NEW kept \in Seq(STRING), NEW n \in Nat, n + 1 <= Len(kept), Digit(kept[n + 1]), n % 2 # 0
    PROVE  Bytes(kept, n + 1) =
              Append(Bytes(kept, n), 16 * from_hex_digit(kept[n]) + from_hex_digit(kept[n + 1]))
<1>1. Read(kept, n) \in Nat /\ Shift(kept) \in {0, 2} /\ n + 1 \in Nat /\ n % 2 = 1
  <2>1. n % 2 \in {0, 1}
    BY Halves
  <2> QED
    <3>1. n + 1 \in Nat
      OBVIOUS
    <3>2. n % 2 = 1
      BY <2>1
    <3> QED
      BY <3>1, <3>2, ReadIs
<1>2. /\ Read(kept, n) + Shift(kept) = n /\ Read(kept, n + 1) = Read(kept, n) + 1
      /\ Read(kept, n) % 2 = n % 2
  BY NextRead
<1>3. PICK m \in Nat : Read(kept, n) = 2 * m + 1
  <2>1. Read(kept, n) = 2 * (Read(kept, n) \div 2) + 1 /\ Read(kept, n) \div 2 \in Nat
    BY <1>1, <1>2, Halves
  <2> QED
    BY <2>1
<1>4. /\ Read(kept, n) \div 2 = m /\ Read(kept, n + 1) \div 2 = m + 1
      /\ 2 * (m + 1) - 1 + Shift(kept) = n /\ 2 * (m + 1) + Shift(kept) = n + 1
  BY <1>1, <1>2, <1>3
<1>5. ByteAt(kept, m + 1) = 16 * from_hex_digit(kept[n]) + from_hex_digit(kept[n + 1])
  BY <1>4 DEF ByteAt
<1>6. /\ Bytes(kept, n) \in Seq(Int) /\ Len(Bytes(kept, n)) = m
      /\ \A k \in 1..m : Bytes(kept, n)[k] = ByteAt(kept, k)
  BY <1>4, BytesAre
<1>7. /\ Bytes(kept, n + 1) \in Seq(Int) /\ Len(Bytes(kept, n + 1)) = m + 1
      /\ \A k \in 1..m + 1 : Bytes(kept, n + 1)[k] = ByteAt(kept, k)
  BY <1>1, <1>4, BytesAre
<1>8. ByteAt(kept, m + 1) \in Int
  BY <1>7
<1>9. /\ Append(Bytes(kept, n), ByteAt(kept, m + 1)) \in Seq(Int)
      /\ Len(Append(Bytes(kept, n), ByteAt(kept, m + 1))) = m + 1
      /\ \A k \in 1..m + 1 : Append(Bytes(kept, n), ByteAt(kept, m + 1))[k] = ByteAt(kept, k)
  <2>1. \A k \in 1..m + 1 : k \in 1..m \/ k = m + 1
    OBVIOUS
  <2> QED
    BY <1>6, <1>8, <2>1, AppendProperties
<1>10. Bytes(kept, n + 1) = Append(Bytes(kept, n), ByteAt(kept, m + 1))
  BY <1>7, <1>9, SeqEqual
<1> QED
  BY <1>5, <1>10

(* The x of the prefix is no digit and makes no byte.                      *)
LEMMA PrefixRead ==
    ASSUME NEW kept \in Seq(STRING), Has0x(kept)
    PROVE  AllDigits(kept, 2) /\ Bytes(kept, 2) = Bytes(kept, 1)
<1>1. Read(kept, 2) = 0 /\ Read(kept, 1) = 0
  BY DEF Read, Shift
<1> QED
  BY <1>1 DEF AllDigits, Bytes

(* Encoding the bytes gives the digits they were made from.                *)
LEMMA Encodes ==
    ASSUME NEW kept \in Seq(STRING), NEW d, d = IF Has0x(kept) THEN Drop(kept, 2) ELSE kept,
           Len(kept) % 2 = 0, AllDigits(kept, Len(kept))
    PROVE  ValidHex(d) /\ hex(Bytes(kept, Len(kept))) = Lowercase(d)
<1>1. /\ d \in Seq(STRING) /\ Len(d) = Len(kept) - Shift(kept) /\ Len(d) \in Nat
      /\ Shift(kept) \in {0, 2} /\ Shift(kept) <= Len(kept) /\ Len(kept) \in Nat
      /\ \A n \in 1..Len(d) : d[n] = kept[n + Shift(kept)]
  BY DigitsOf
<1>2. Read(kept, Len(kept)) = Len(d)
  BY <1>1 DEF Read
<1>3. ASSUME NEW n \in 1..Len(d) PROVE from_hex_digit(d[n]) # -1
  BY <1>1, <1>2, <1>3, DigitOrNot DEF AllDigits
<1>4. Len(d) % 2 = 0
  <2>1. ASSUME NEW l \in Nat, l % 2 = 0, l - 2 \in Nat PROVE (l - 2) % 2 = 0
    BY <2>1
  <2>2. Len(d) = Len(kept) \/ Len(d) = Len(kept) - 2
    BY <1>1
  <2> QED
    BY <1>1, <2>1, <2>2
<1>5. PICK m \in Nat : Len(d) = 2 * m
  <2>1. Len(d) = 2 * (Len(d) \div 2) /\ Len(d) \div 2 \in Nat
    <3>1. ASSUME NEW l \in Nat, l % 2 = 0 PROVE l = 2 * (l \div 2) /\ l \div 2 \in Nat
      BY <3>1
    <3> QED
      BY <1>1, <1>4, <3>1
  <2> QED
    BY <2>1
<1> DEFINE b == Bytes(kept, Len(kept))
<1>6. Len(b) = m /\ \A k \in 1..m : b[k] = ByteAt(kept, k)
  <2>1. Read(kept, Len(kept)) \div 2 = m
    <3>1. (2 * m) \div 2 = m
      OBVIOUS
    <3> QED
      BY <1>2, <1>5, <3>1
  <2> QED
    BY <1>1, <2>1, BytesAre
<1> HIDE DEF b
<1>7. ASSUME NEW n \in 1..Len(d)
      PROVE  hex_digits[1 + (IF n % 2 = 1 THEN b[(n + 1) \div 2] \div 16 ELSE b[(n + 1) \div 2] % 16)]
                = LowercaseOf(d[n])
  <2>1. PICK k \in 1..m : /\ (n + 1) \div 2 = k
                          /\ \/ n = 2 * k - 1 /\ n % 2 = 1
                             \/ n = 2 * k /\ n % 2 # 1
    <3>1. n \in Nat /\ n >= 1 /\ n <= 2 * m /\ n \div 2 \in Nat /\ n = 2 * (n \div 2) + (n % 2)
          /\ n % 2 \in {0, 1}
      BY <1>5, Halves
    <3>2. CASE n % 2 = 1
      <4>1. (n \div 2) + 1 \in 1..m /\ n = 2 * ((n \div 2) + 1) - 1
        BY <3>1, <3>2
      <4>2. ASSUME NEW k \in 1..m, n = 2 * k - 1 PROVE (n + 1) \div 2 = k
        BY <4>2
      <4> QED
        BY <3>2, <4>1, <4>2
    <3>3. CASE n % 2 = 0
      <4>1. n \div 2 \in 1..m /\ n = 2 * (n \div 2)
        BY <3>1, <3>3
      <4>2. ASSUME NEW k \in 1..m, n = 2 * k PROVE (n + 1) \div 2 = k
        BY <4>2
      <4> QED
        BY <3>3, <4>1, <4>2
    <3> QED
      BY <3>1, <3>2, <3>3
  <2>2. 2 * k - 1 \in 1..Len(d) /\ 2 * k \in 1..Len(d)
    BY <1>5
  <2>3. b[k] = 16 * from_hex_digit(d[2 * k - 1]) + from_hex_digit(d[2 * k])
    BY <1>1, <1>6, <2>2 DEF ByteAt
  <2>4. /\ from_hex_digit(d[2 * k - 1]) \in 0..15 /\ from_hex_digit(d[2 * k]) \in 0..15
        /\ hex_digits[1 + from_hex_digit(d[n])] = LowercaseOf(d[n])
    BY <1>3, <2>2, DigitValue
  <2>5. b[k] \div 16 = from_hex_digit(d[2 * k - 1]) /\ b[k] % 16 = from_hex_digit(d[2 * k])
    <3>1. ASSUME NEW x \in 0..15, NEW y \in 0..15, NEW z, z = 16 * x + y
          PROVE  z \div 16 = x /\ z % 16 = y
      BY <3>1
    <3>2. PICK x \in 0..15, y \in 0..15 :
             x = from_hex_digit(d[2 * k - 1]) /\ y = from_hex_digit(d[2 * k])
      BY <2>4
    <3>3. b[k] = 16 * x + y
      BY <2>3, <3>2
    <3> QED
      BY <3>1, <3>2, <3>3
  <2> QED
    BY <2>1, <2>4, <2>5
<1>8. hex(b) = Lowercase(d)
  <2>1. hex(b) = [n \in 1..Len(d) |->
                    hex_digits[1 + (IF n % 2 = 1 THEN b[(n + 1) \div 2] \div 16
                                                 ELSE b[(n + 1) \div 2] % 16)]]
    BY <1>5, <1>6 DEF hex
  <2>2. Lowercase(d) = [n \in 1..Len(d) |-> LowercaseOf(d[n])]
    BY DEF Lowercase, LowercaseOf
  <2> QED
    BY <1>7, <2>1, <2>2
<1> QED
  BY <1>3, <1>4, <1>8 DEF ValidHex, b

------------------------------------------------------------------------------
(* The loop of from_hex(): what it has read of the characters kept.        *)
LoopInv ==
    LET kept == Kept(entry, text) IN
    /\ RestAt(entry, text, rest, i)
    /\ i \in 0..Len(kept)
    /\ AllDigits(kept, i)
    /\ i % 2 = 1 => Digit(kept[i]) /\ hi_nibble = from_hex_digit(kept[i]) * 16
    /\ out = IF entry = "validate_hex" THEN << >> ELSE Bytes(kept, i)

(* What was tested before the loop.                                        *)
CallInv ==
    /\ entry \in Arrays => start = ArraySize - Len(text) \div 2 /\ Len(text) \div 2 <= ArraySize
    /\ entry = "from_prefixed_hex" /\ input # << >> => IsPrefix(Prefix, input)

(* What is accepted, and what is decoded, in terms of what the loop is run *)
(* on.                                                                     *)
TextDigits == Digits(Kept(entry, text))

TextAccepted ==
    outcome # "none" =>
        (outcome = "true" <=>
            /\ ValidHex(TextDigits)
            /\ entry \in Arrays => Len(text) \div 2 <= ArraySize
            /\ entry = "from_prefixed_hex" /\ input # << >> => IsPrefix(Prefix, input))

TextInverts ==
    outcome = "true" /\ entry # "validate_hex" => hex(out) = Lowercase(TextDigits)

CodecInv ==
    /\ entry \in Entries \cup {"none"}
    /\ text \in Seq(STRING)
    /\ outcome \in {"none", "true", "false"}
    /\ Running => LoopInv /\ CallInv
    /\ TextAccepted /\ TextInverts /\ OutputFits

(* The bytes made so far fit, whatever comes.                              *)
LEMMA LoopFits ==
    ASSUME text \in Seq(STRING), entry \in Entries, LoopInv, CallInv
    PROVE  OutputFits
<1> DEFINE kept == Kept(entry, text)
<1>1. kept \in Seq(STRING) /\ Len(kept) \in Nat /\ Len(kept) <= Len(text) /\ Len(text) \in Nat
  BY KeptIs
<1>2. i \in Nat /\ i <= Len(text)
  BY <1>1 DEF LoopInv
<1>3. /\ Read(kept, i) \in Nat /\ Read(kept, i) <= Len(text)
  <2>1. Read(kept, i) \in Nat /\ Read(kept, i) <= i
    BY <1>1, <1>2, ReadIs
  <2> QED
    BY <1>1, <1>2, <2>1
<1>4. Len(Bytes(kept, i)) = Read(kept, i) \div 2
  BY <1>1, <1>2, BytesAre
<1>5. Len(out) = 0 \/ Len(out) = Read(kept, i) \div 2
  BY <1>4 DEF LoopInv
<1>6. ASSUME NEW x \in Nat, NEW y \in Nat, x <= y
      PROVE  /\ 2 * (x \div 2) <= y /\ x \div 2 <= y \div 2
             /\ x \div 2 \in Nat /\ y \div 2 \in Nat
  BY <1>6
<1>7. /\ Len(out) \in Nat /\ 2 * Len(out) <= Len(text) /\ Len(out) <= Len(text) \div 2
      /\ Len(text) \div 2 \in Nat
  BY <1>1, <1>3, <1>5, <1>6
<1>8. ASSUME entry \in Arrays PROVE start >= 0 /\ start + Len(out) <= ArraySize
  BY <1>7, <1>8, HexAssumption DEF CallInv
<1> QED
  BY <1>7, <1>8 DEF OutputFits

(* The next character kept, and the iterator behind it.                    *)
LEMMA LoopAdvances ==
    ASSUME text \in Seq(STRING), LoopInv, rest # << >>
    PROVE  LET kept == Kept(entry, text) IN
           /\ kept \in Seq(STRING) /\ Len(kept) \in Nat
           /\ i \in Nat /\ i + 1 <= Len(kept) /\ rest[1] = kept[i + 1]
           /\ RestAt(entry, text, advance(rest), i + 1)
<1>1. RestAt(entry, text, rest, i)
  BY DEF LoopInv
<1>2. advance(rest) =
        IF entry = "from_spaced_hex" THEN forward_to_next_value(Tail(rest)) ELSE Tail(rest)
  BY DEF advance
<1> QED
  BY <1>1, <1>2, RestStep, KeptIs

(* The three steps that read a character.                                  *)
LEMMA ReadStep ==
    ASSUME CodecInv, SkipPrefix \/ HighNibble \/ LowNibble
    PROVE  CodecInv'
<1> DEFINE kept == Kept(entry, text)
<1>1. Running /\ LoopInv /\ CallInv /\ text \in Seq(STRING) /\ rest # << >> /\ entry \in Entries
  BY DEF CodecInv, SkipPrefix, HighNibble, LowNibble, Running
<1>2. /\ entry' = entry /\ input' = input /\ text' = text /\ start' = start /\ outcome' = outcome
      /\ rest' = advance(rest) /\ i' = i + 1
  BY DEF SkipPrefix, HighNibble, LowNibble, Advance
<1>3. /\ kept \in Seq(STRING) /\ Len(kept) \in Nat
      /\ i \in Nat /\ i + 1 <= Len(kept) /\ rest[1] = kept[i + 1]
      /\ RestAt(entry, text, advance(rest), i + 1)
  BY <1>1, LoopAdvances
<1>4. kept' = kept
  BY <1>2
<1>5. /\ i + 1 \in 0..Len(kept) /\ i % 2 \in {0, 1} /\ (i % 2 = 1 <=> (i + 1) % 2 = 0)
      /\ (i + 1) % 2 \in {0, 1}
  BY <1>3
<1>6. /\ AllDigits(kept, i)
      /\ i % 2 = 1 => Digit(kept[i]) /\ hi_nibble = from_hex_digit(kept[i]) * 16
      /\ out = IF entry = "validate_hex" THEN << >> ELSE Bytes(kept, i)
  BY <1>1 DEF LoopInv
<1> HIDE DEF kept
<1>7. /\ AllDigits(kept, i + 1)
      /\ (i + 1) % 2 = 1 =>
            Digit(kept[i + 1]) /\ hi_nibble' = from_hex_digit(kept[i + 1]) * 16
      /\ out' = IF entry = "validate_hex" THEN << >> ELSE Bytes(kept, i + 1)
  <2>1. CASE SkipPrefix
    <3>1. i = 1 /\ hi_nibble = 0 /\ kept[2] = "x" /\ out' = out
      BY <1>3, <2>1 DEF SkipPrefix
    <3>2. i % 2 = 1
      BY <3>1
    <3>3. from_hex_digit(kept[1]) * 16 = 0 /\ from_hex_digit(kept[1]) \in Int
      BY <1>6, <3>1, <3>2, ValueType
    <3>4. kept[1] = "0"
      BY <3>3, DigitOrNot
    <3>5. Has0x(kept)
      BY <1>3, <3>1, <3>4 DEF Has0x
    <3>6. AllDigits(kept, 2) /\ Bytes(kept, 2) = Bytes(kept, 1)
      BY <1>3, <3>5, PrefixRead
    <3>7. i + 1 = 2 /\ (i + 1) % 2 # 1
      BY <3>1
    <3> QED
      BY <1>6, <3>1, <3>6, <3>7
  <2>2. CASE HighNibble
    <3>1. /\ Digit(kept[i + 1]) /\ i % 2 = 0
          /\ hi_nibble' = from_hex_digit(kept[i + 1]) * 16 /\ out' = out
      BY <1>3, <2>2 DEF HighNibble
    <3>2. Bytes(kept, i + 1) = Bytes(kept, i) /\ AllDigits(kept, i + 1)
      BY <1>3, <1>6, <3>1, HalfByte, DigitRead
    <3> QED
      BY <1>6, <3>1, <3>2
  <2>3. CASE LowNibble
    <3>1. /\ Digit(kept[i + 1]) /\ i % 2 # 0
          /\ out' = IF entry = "validate_hex" THEN out
                    ELSE Append(out, hi_nibble + from_hex_digit(kept[i + 1]))
      BY <1>3, <2>3 DEF LowNibble
    <3>2. i % 2 = 1 /\ (i + 1) % 2 # 1
      BY <1>5, <3>1
    <3>3. AllDigits(kept, i + 1)
      BY <1>3, <1>6, <3>1, DigitRead
    <3>4. /\ hi_nibble = from_hex_digit(kept[i]) * 16 /\ from_hex_digit(kept[i]) \in Int
      BY <1>6, <3>2, ValueType
    <3>5. hi_nibble = 16 * from_hex_digit(kept[i])
      BY <3>4
    <3>6. Bytes(kept, i + 1) = Append(Bytes(kept, i), hi_nibble + from_hex_digit(kept[i + 1]))
      BY <1>3, <3>1, <3>5, FullByte
    <3> QED
      BY <1>6, <3>1, <3>2, <3>3, <3>6
  <2> QED
    BY <2>1, <2>2, <2>3
<1>8. LoopInv'
  BY <1>2, <1>3, <1>4, <1>5, <1>7 DEF LoopInv, kept
<1>9. CallInv' /\ entry' \in Entries /\ text' \in Seq(STRING)
  BY <1>1, <1>2 DEF CallInv
<1>10. OutputFits'
  <2>1. (text \in Seq(STRING) /\ entry \in Entries /\ LoopInv /\ CallInv => OutputFits)'
    BY LoopFits, PTL
  <2> QED
    BY <1>8, <1>9, <2>1
<1>11. outcome' = "none"
  BY <1>1, <1>2 DEF Running
<1> QED
  BY <1>8, <1>9, <1>10, <1>11 DEF CodecInv, TextAccepted, TextInverts

(* A character that is no digit, nor the x, makes the input invalid.       *)
LEMMA RejectStep == ASSUME CodecInv, Reject PROVE CodecInv'
<1> DEFINE kept == Kept(entry, text)
<1>1. /\ Running /\ LoopInv /\ CallInv /\ text \in Seq(STRING) /\ rest # << >> /\ entry \in Entries
      /\ OutputFits
  BY DEF CodecInv, Reject, Running
<1>2. /\ kept \in Seq(STRING) /\ Len(kept) \in Nat
      /\ i \in Nat /\ i + 1 <= Len(kept) /\ rest[1] = kept[i + 1]
  BY <1>1, LoopAdvances
<1>3. ~Digit(kept[i + 1]) /\ ~(i = 1 /\ hi_nibble = 0 /\ kept[i + 1] = "x")
  BY <1>2 DEF Reject
<1>4. i % 2 = 1 => hi_nibble = from_hex_digit(kept[i]) * 16
  BY <1>1 DEF LoopInv
<1>5. /\ Len(TextDigits) = Len(kept) - Shift(kept) /\ Len(TextDigits) \in Nat
      /\ Shift(kept) \in {0, 2}
      /\ \A n \in 1..Len(TextDigits) : TextDigits[n] = kept[n + Shift(kept)]
  <2>1. TextDigits = IF Has0x(kept) THEN Drop(kept, 2) ELSE kept
    BY DEF TextDigits, Digits
  <2> QED
    BY <1>2, <2>1, DigitsOf
<1> HIDE DEF kept
<1>6. ~ValidHex(TextDigits)
  <2>1. Shift(kept) <= i
    <3> SUFFICES ASSUME Has0x(kept) PROVE i # 0 /\ i # 1
      BY <1>2 DEF Shift
    <3>1. kept[1] = "0" /\ kept[2] = "x"
      BY DEF Has0x
    <3>2. ASSUME i = 0 PROVE FALSE
      BY <1>3, <3>1, <3>2, DigitOrNot
    <3>3. ASSUME i = 1 PROVE FALSE
      <4>1. hi_nibble = 0
        BY <1>4, <3>1, <3>3, DigitOrNot
      <4> QED
        BY <1>3, <3>1, <3>3, <4>1
    <3> QED
      BY <3>2, <3>3
  <2>2. PICK n \in 1..Len(TextDigits) : n + Shift(kept) = i + 1
    <3>1. i + 1 - Shift(kept) \in 1..Len(TextDigits) /\ (i + 1 - Shift(kept)) + Shift(kept) = i + 1
      BY <1>2, <1>5, <2>1
    <3> QED
      BY <3>1
  <2>3. ~Digit(TextDigits[n])
    BY <1>3, <1>5, <2>2
  <2>4. from_hex_digit(TextDigits[n]) = -1
    BY <2>3, DigitOrNot
  <2> QED
    BY <2>4 DEF ValidHex
<1>7. /\ entry' = entry /\ input' = input /\ text' = text /\ start' = start /\ out' = out
      /\ outcome' = "false"
  BY DEF Reject
<1>8. TextDigits' = TextDigits
  BY <1>7 DEF TextDigits, Digits
<1>9. ~ValidHex(TextDigits')
  BY <1>6, <1>8
<1>10. TextAccepted' /\ TextInverts' /\ ~Running'
  BY <1>7, <1>9 DEF TextAccepted, TextInverts, Running
<1>11. OutputFits'
  BY <1>1, <1>7 DEF OutputFits
<1> QED
  BY <1>1, <1>7, <1>10, <1>11 DEF CodecInv

(* The end of the characters.                                              *)
LEMMA EndStep == ASSUME CodecInv, End PROVE CodecInv'
<1> DEFINE kept == Kept(entry, text)
<1>1. /\ Running /\ LoopInv /\ CallInv /\ text \in Seq(STRING) /\ rest = << >> /\ entry \in Entries
      /\ OutputFits
  BY DEF CodecInv, End, Running
<1>2. kept \in Seq(STRING) /\ Len(kept) \in Nat /\ i = Len(kept)
  BY <1>1, RestEnds, KeptIs DEF LoopInv
<1>3. /\ AllDigits(kept, Len(kept))
      /\ out = IF entry = "validate_hex" THEN << >> ELSE Bytes(kept, Len(kept))
  BY <1>1, <1>2 DEF LoopInv
<1>4. TextDigits = IF Has0x(kept) THEN Drop(kept, 2) ELSE kept
  BY DEF TextDigits, Digits
<1>5. /\ entry' = entry /\ input' = input /\ text' = text /\ start' = start /\ out' = out
      /\ outcome' = IF Len(kept) % 2 = 0 THEN "true" ELSE "false"
  BY <1>2 DEF End
<1>6. TextDigits' = TextDigits
  BY <1>5 DEF TextDigits, Digits
<1> HIDE DEF kept
<1>7. Len(kept) % 2 = 0 => ValidHex(TextDigits) /\ hex(Bytes(kept, Len(kept))) = Lowercase(TextDigits)
  BY <1>2, <1>3, <1>4, Encodes
<1>8. Len(kept) % 2 # 0 => ~ValidHex(TextDigits)
  <2>1. Len(TextDigits) = Len(kept) \/ Len(TextDigits) = Len(kept) - 2
    BY <1>2, <1>4, DigitsOf
  <2>2. ASSUME NEW l \in Nat, l % 2 # 0 PROVE (l - 2) % 2 # 0
    BY <2>2
  <2> QED
    BY <1>2, <2>1, <2>2 DEF ValidHex
<1>9. TextAccepted'
  <2>1. outcome' = "true" <=> ValidHex(TextDigits')
    BY <1>5, <1>6, <1>7, <1>8
  <2>2. /\ entry' \in Arrays => Len(text') \div 2 <= ArraySize
        /\ entry' = "from_prefixed_hex" /\ input' # << >> => IsPrefix(Prefix, input')
    BY <1>1, <1>5 DEF CallInv
  <2> QED
    BY <2>1, <2>2 DEF TextAccepted
<1>10. TextInverts'
  BY <1>3, <1>5, <1>6, <1>7 DEF TextInverts
<1>11. OutputFits'
  BY <1>1, <1>5 DEF OutputFits
<1>12. ~Running' /\ outcome' \in {"none", "true", "false"}
  BY <1>5 DEF Running
<1> QED
  BY <1>1, <1>5, <1>9, <1>10, <1>11, <1>12 DEF CodecInv

(* A call begins: either the loop is to run, or the answer is known.       *)
LEMMA Begins ==
    ASSUME NEW e \in Entries, NEW argument, NEW s \in Seq(STRING),
           Begin(e, argument, s, IF e = "from_spaced_hex" THEN forward_to_next_value(s) ELSE s),
           \/ outcome' = "none" /\ CallInv'
           \/ /\ outcome' = "false"
              /\ ~(/\ entry' \in Arrays => Len(text') \div 2 <= ArraySize
                   /\ entry' = "from_prefixed_hex" /\ input' # << >> => IsPrefix(Prefix, input'))
    PROVE  CodecInv'
<1>1. /\ entry' = e /\ text' = s /\ i' = 0 /\ hi_nibble' = -1 /\ out' = << >>
      /\ rest' = IF e = "from_spaced_hex" THEN forward_to_next_value(s) ELSE s
  BY DEF Begin
<1> DEFINE kept == Kept(e, s)
<1>2. kept \in Seq(STRING) /\ Len(kept) \in Nat
  BY KeptIs
<1>3. RestAt(entry', text', rest', i')
  BY <1>1, RestBegins
<1>4. Read(kept, 0) = 0
  <2>1. Read(kept, 0) \in Nat /\ Read(kept, 0) <= 0
    BY <1>2, ReadIs
  <2> QED
    BY <2>1
<1>5. AllDigits(kept, 0) /\ Bytes(kept, 0) = << >>
  BY <1>2, <1>4, BytesAre DEF AllDigits
<1>6. LoopInv'
  <2>1. 0 \in 0..Len(kept) /\ 0 % 2 # 1
    BY <1>2
  <2>2. Kept(entry, text)' = kept
    BY <1>1
  <2> HIDE DEF kept
  <2> QED
    BY <1>1, <1>3, <1>5, <2>1, <2>2 DEF LoopInv
<1>7. TextInverts' /\ TextAccepted' /\ outcome' \in {"none", "true", "false"}
  BY DEF TextInverts, TextAccepted
<1>8. OutputFits'
  <2>1. Len(<< >>) = 0 /\ Len(s) \in Nat
    OBVIOUS
  <2> QED
    BY <1>1, <2>1 DEF OutputFits
<1>9. Running' => CallInv'
  BY DEF Running
<1> QED
  BY <1>1, <1>6, <1>7, <1>8, <1>9 DEF CodecInv

(* What follows the prefix that was removed.                               *)
LEMMA Dropped ==
    ASSUME NEW s \in Seq(STRING), NEW n \in Nat, n <= Len(s)
    PROVE  Drop(s, n) \in Seq(STRING)
<1>1. n \in 0..Len(s)
  OBVIOUS
<1> QED
  BY <1>1, Suffix DEF Drop

LEMMA ArrayBegins ==
    ASSUME NEW e \in Arrays, NEW argument, NEW s \in Seq(STRING), BeginArray(e, argument, s),
           e = "from_prefixed_hex" /\ argument # << >> => IsPrefix(Prefix, argument)
    PROVE  CodecInv'
<1>1. e \in Entries /\ e # "from_spaced_hex"
  BY DEF Arrays, Entries
<1>2. /\ Begin(e, argument, s, s)
      /\ start' = ArraySize - Len(s) \div 2
      /\ outcome' = IF Len(s) \div 2 > ArraySize THEN "false" ELSE "none"
  BY DEF BeginArray
<1>3. entry' = e /\ input' = argument /\ text' = s
  BY <1>2 DEF Begin
<1>4. Len(s) \div 2 \in Nat /\ ArraySize \in Nat
  <2>1. Len(s) \in Nat
    OBVIOUS
  <2> QED
    BY <2>1, Halves, HexAssumption
<1>5. CASE Len(s) \div 2 > ArraySize
  <2>1. ~(Len(s) \div 2 <= ArraySize)
    BY <1>4, <1>5
  <2>2. outcome' = "false"
    BY <1>2, <1>5
  <2> QED
    BY <1>1, <1>2, <1>3, <2>1, <2>2, Begins
<1>6. CASE ~(Len(s) \div 2 > ArraySize)
  <2>1. Len(s) \div 2 <= ArraySize
    BY <1>4, <1>6
  <2>2. outcome' = "none" /\ CallInv'
    BY <1>2, <1>3, <1>6, <2>1 DEF CallInv
  <2> QED
    BY <1>1, <1>2, <2>2, Begins
<1> QED
  BY <1>5, <1>6

(* The arguments of the calls.                                             *)
LEMMA Arguments ==
    ASSUME NEW argument \in BoundedSeq(Char, MaxLength)
    PROVE  argument \in Seq(STRING) /\ Len(argument) \in Nat
<1>1. PICK m \in 0..MaxLength : argument \in [1..m -> Char]
  BY DEF BoundedSeq, SeqOf
<1>2. m \in Nat /\ argument \in [1..m -> STRING]
  <2>1. MaxLength \in Nat /\ Char \subseteq STRING
    BY HexAssumption
  <2>2. m \in Nat
    BY <2>1
  <2>3. \A k \in 1..m : argument[k] \in STRING
    BY <1>1, <2>1, <2>2
  <2>4. argument = [k \in 1..m |-> argument[k]]
    BY <1>1
  <2> QED
    BY <2>2, <2>3, <2>4
<1>3. argument \in Seq(STRING)
  BY <1>2
<1> QED
  BY <1>3

(* The five entry points.                                                  *)
LEMMA CallStep ==
    ASSUME NEW argument \in BoundedSeq(Char, MaxLength),
           \/ from_hex(argument) \/ validate_hex(argument) \/ from_spaced_hex(argument)
           \/ from_hex_T(argument) \/ from_prefixed_hex(argument)
    PROVE  CodecInv'
<1>1. argument \in Seq(STRING) /\ Len(argument) \in Nat
  BY Arguments
<1>2. CASE from_hex(argument) \/ validate_hex(argument) \/ from_spaced_hex(argument)
  <2>1. PICK e \in {"from_hex", "validate_hex", "from_spaced_hex"} :
           /\ Begin(e, argument, argument,
                    IF e = "from_spaced_hex" THEN forward_to_next_value(argument) ELSE argument)
           /\ outcome' = "none"
    BY <1>2 DEF from_hex, validate_hex, from_spaced_hex
  <2>2. e \in Entries /\ e \notin Arrays /\ e # "from_prefixed_hex" /\ entry' = e
    BY <2>1 DEF Begin, Entries, Arrays
  <2>3. CallInv'
    BY <2>2 DEF CallInv
  <2> QED
    BY <1>1, <2>1, <2>2, <2>3, Begins
<1>3. CASE from_hex_T(argument)
  <2>1. (IF Has0x(argument) THEN Drop(argument, 2) ELSE argument) \in Seq(STRING)
    BY <1>1, Dropped DEF Has0x
  <2>2. "from_hex_T" \in Arrays
    BY DEF Arrays
  <2> QED
    BY <1>3, <2>1, <2>2, ArrayBegins DEF from_hex_T
<1>4. CASE from_prefixed_hex(argument)
  <2>1. "from_prefixed_hex" \in Arrays /\ "from_prefixed_hex" \in Entries
    BY DEF Arrays, Entries
  <2>2. CASE /\ argument # << >> /\ ~IsPrefix(Prefix, argument)
             /\ Begin("from_prefixed_hex", argument, argument, argument)
             /\ outcome' = "false"
    <3>1. entry' = "from_prefixed_hex" /\ input' = argument
      BY <2>2 DEF Begin
    <3> QED
      BY <1>1, <2>1, <2>2, <3>1, Begins
  <2>3. CASE argument = << >> /\ BeginArray("from_prefixed_hex", argument, argument)
    BY <1>1, <2>1, <2>3, ArrayBegins
  <2>4. CASE /\ argument # << >> /\ IsPrefix(Prefix, argument)
             /\ BeginArray("from_prefixed_hex", argument, Drop(argument, Len(Prefix)))
    <3>1. Len(Prefix) \in Nat /\ Len(Prefix) <= Len(argument)
      BY <2>4, HexAssumption DEF IsPrefix
    <3>2. Drop(argument, Len(Prefix)) \in Seq(STRING)
      BY <1>1, <3>1, Dropped
    <3> QED
      BY <2>1, <2>4, <3>2, ArrayBegins
  <2> QED
    BY <1>4, <2>2, <2>3, <2>4 DEF from_prefixed_hex
<1> QED
  BY <1>2, <1>3, <1>4

(* Between calls there is nothing to say.                                  *)
LEMMA NoCall ==
    ASSUME entry = "none", text = << >>, out = << >>, outcome = "none"
    PROVE  CodecInv
<1>1. << >> \in Seq(STRING) /\ Len(<< >>) = 0
  OBVIOUS
<1>2. ~Running /\ TextAccepted /\ TextInverts
  BY DEF Running, TextAccepted, TextInverts
<1>3. OutputFits
  BY <1>1 DEF OutputFits
<1> QED
  BY <1>1, <1>2, <1>3 DEF CodecInv

LEMMA CodecInvariant == Spec => []CodecInv
<1>1. Init => CodecInv
  BY NoCall DEF Init
<1>2. CodecInv /\ [Next]_vars => CodecInv'
  <2> SUFFICES ASSUME CodecInv, [Next]_vars PROVE CodecInv'
    OBVIOUS
  <2>1. ASSUME NEW argument \in BoundedSeq(Char, MaxLength),
               \/ from_hex(argument) \/ validate_hex(argument) \/ from_spaced_hex(argument)
               \/ from_hex_T(argument) \/ from_prefixed_hex(argument)
        PROVE  CodecInv'
    BY <2>1, CallStep
  <2>2. CASE SkipPrefix \/ HighNibble \/ LowNibble
    BY <2>2, ReadStep
  <2>3. CASE Reject
    BY <2>3, RejectStep
  <2>4. CASE End
    BY <2>4, EndStep
  <2>5. CASE TakeResult
    <3>1. (entry = "none" /\ text = << >> /\ out = << >> /\ outcome = "none" => CodecInv)'
      BY NoCall, PTL
    <3> QED
      BY <2>5, <3>1 DEF TakeResult
  <2>6. CASE UNCHANGED vars
    BY <2>6 DEF vars, CodecInv, Running, LoopInv, CallInv, TextAccepted, TextInverts,
                OutputFits, TextDigits
  <2> QED
    BY <2>1, <2>2, <2>3, <2>4, <2>5, <2>6 DEF Next
<1> QED
  BY <1>1, <1>2, PTL DEF Spec

------------------------------------------------------------------------------
(* What the loop is run on, as it came out of the argument.                *)
InputInv ==
    /\ entry = "none" => outcome = "none"
    /\ entry # "none" =>
         /\ entry \in Entries /\ input \in Seq(STRING)
         /\ entry \notin Arrays => text = input
         /\ entry = "from_hex_T" => text = IF Has0x(input) THEN Drop(input, 2) ELSE input
         /\ entry = "from_prefixed_hex" =>
              IF input = << >> THEN text = << >>
              ELSE IsPrefix(Prefix, input) => text = Drop(input, Len(Prefix))

LEMMA InputInvariant == Spec => []InputInv
<1>1. Init => InputInv
  BY DEF Init, InputInv
<1>2. InputInv /\ [Next]_vars => InputInv'
  <2> SUFFICES ASSUME InputInv, [Next]_vars PROVE InputInv'
    OBVIOUS
  <2>1. ASSUME NEW argument \in BoundedSeq(Char, MaxLength),
               \/ from_hex(argument) \/ validate_hex(argument) \/ from_spaced_hex(argument)
               \/ from_hex_T(argument) \/ from_prefixed_hex(argument)
        PROVE  InputInv'
    <3>1. argument \in Seq(STRING)
      BY Arguments
    <3> QED
      BY <2>1, <3>1 DEF from_hex, validate_hex, from_spaced_hex, from_hex_T, from_prefixed_hex,
                        BeginArray, Begin, InputInv, Entries, Arrays
  <2>2. CASE SkipPrefix \/ HighNibble \/ LowNibble \/ Reject \/ End
    <3>1. entry' = entry /\ input' = input /\ text' = text /\ entry # "none"
      BY <2>2 DEF SkipPrefix, HighNibble, LowNibble, Reject, End, Advance, Running
    <3> QED
      BY <3>1 DEF InputInv
  <2>3. CASE TakeResult
    BY <2>3 DEF TakeResult, InputInv
  <2>4. CASE UNCHANGED vars
    BY <2>4 DEF vars, InputInv
  <2> QED
    BY <2>1, <2>2, <2>3, <2>4 DEF Next
<1> QED
  BY <1>1, <1>2, PTL DEF Spec

(* Where no white space is skipped every character is kept.                *)
LEMMA KeptPlain ==
    ASSUME NEW e, e # "from_spaced_hex", NEW s \in Seq(STRING)
    PROVE  Kept(e, s) = s
<1>1. Len(s) \in Nat
  OBVIOUS
<1>2. \A n \in Nat : Visible(e, s, n) = 1..n
  BY DEF Visible
<1>3. \A n \in Nat : Cardinality(Visible(e, s, n)) = n
  BY <1>2, FS_Interval
<1>4. Kept(e, s) \in Seq(STRING) /\ Len(Kept(e, s)) = Len(s)
  BY <1>1, <1>3, KeptIs
<1>5. \A p \in 1..Len(s) : Kept(e, s)[p] = s[p]
  BY <1>1, <1>2, <1>3, KeptIs
<1> QED
  BY <1>4, <1>5, SeqEqual

(* No prefix, the prefix 0x, and what is behind no prefix.                 *)
LEMMA PrefixesTested ==
    ASSUME NEW s \in Seq(STRING)
    PROVE  /\ Drop(s, Len(<< >>)) = s /\ IsPrefix(<< >>, s)
           /\ IsPrefix(<<"0", "x">>, s) <=> Has0x(s)
<1>1. Len(s) \in Nat /\ Len(<< >>) = 0
  OBVIOUS
<1>2. Drop(s, 0) = s
  <2>1. /\ Drop(s, 0) \in Seq(STRING) /\ Len(Drop(s, 0)) = Len(s) - 0
        /\ \A k \in 1..Len(s) - 0 : Drop(s, 0)[k] = s[0 + k]
    BY <1>1, Suffix DEF Drop
  <2>2. Len(s) - 0 = Len(s) /\ \A k \in 1..Len(s) : 0 + k = k
    BY <1>1
  <2> QED
    BY <2>1, <2>2, SeqEqual
<1>3. IsPrefix(<< >>, s)
  BY <1>1 DEF IsPrefix
<1>4. IsPrefix(<<"0", "x">>, s) <=> Has0x(s)
  BY <1>1 DEF IsPrefix, Has0x
<1> QED
  BY <1>1, <1>2, <1>3, <1>4

(* The readings of an argument, entry point by entry point.                *)
LEMMA ReadingsAre ==
    ASSUME NEW e, NEW s \in Seq(STRING)
    PROVE  /\ e \notin Arrays => Readings(e, s) = {Kept(e, s)}
           /\ e = "from_hex_T" => Readings(e, s) = {s} \cup (IF Has0x(s) THEN {Drop(s, 2)} ELSE {})
           /\ e = "from_prefixed_hex" /\ s = << >> => Readings(e, s) = {s}
           /\ e = "from_prefixed_hex" /\ s # << >> =>
                 Readings(e, s) = IF IsPrefix(Prefix, s) THEN {Drop(s, Len(Prefix))} ELSE {}
<1> DEFINE kept == Kept(e, s)
<1>1. kept \in Seq(STRING)
  BY KeptIs
<1>2. /\ Drop(kept, Len(<< >>)) = kept /\ IsPrefix(<< >>, kept)
      /\ IsPrefix(<<"0", "x">>, kept) <=> Has0x(kept)
  BY <1>1, PrefixesTested
<1>3. Readings(e, s) = {Drop(kept, Len(p)) : p \in {q \in OwnPrefixes(e, s) : IsPrefix(q, kept)}}
  BY DEF Readings
<1> HIDE DEF kept
<1>4. OwnPrefixes(e, s) = {<< >>} => Readings(e, s) = {kept}
  BY <1>2, <1>3
<1>5. ASSUME e \notin Arrays PROVE Readings(e, s) = {Kept(e, s)}
  <2>1. OwnPrefixes(e, s) = {<< >>}
    BY <1>5 DEF OwnPrefixes, Arrays
  <2> QED
    BY <1>4, <2>1 DEF kept
<1>6. e \in Arrays => kept = s
  BY KeptPlain DEF kept, Arrays
<1>7. ASSUME e = "from_hex_T"
      PROVE  Readings(e, s) = {s} \cup (IF Has0x(s) THEN {Drop(s, 2)} ELSE {})
  <2>1. OwnPrefixes(e, s) = {<< >>, <<"0", "x">>} /\ kept = s
    BY <1>6, <1>7 DEF OwnPrefixes, Arrays
  <2>2. Len(<<"0", "x">>) = 2
    OBVIOUS
  <2> QED
    BY <1>2, <1>3, <2>1, <2>2
<1>8. ASSUME e = "from_prefixed_hex", s = << >> PROVE Readings(e, s) = {s}
  <2>1. OwnPrefixes(e, s) = {<< >>} /\ kept = s
    BY <1>6, <1>8 DEF OwnPrefixes, Arrays
  <2> QED
    BY <1>4, <2>1
<1>9. ASSUME e = "from_prefixed_hex", s # << >>
      PROVE  Readings(e, s) = IF IsPrefix(Prefix, s) THEN {Drop(s, Len(Prefix))} ELSE {}
  <2>1. OwnPrefixes(e, s) = {Prefix} /\ kept = s
    BY <1>6, <1>9 DEF OwnPrefixes, Arrays
  <2> QED
    BY <1>3, <2>1
<1> QED
  BY <1>5, <1>7, <1>8, <1>9

(* Digits have no 0x before them.                                          *)
LEMMA NoPrefixLeft ==
    ASSUME NEW s, ValidHex(s)
    PROVE  Digits(s) = s
<1>1. ~Has0x(s)
  <2> SUFFICES ASSUME Has0x(s), Len(s) \in Int PROVE FALSE
    BY DEF Has0x
  <2>1. from_hex_digit(s[2]) # -1 /\ s[2] = "x"
    BY DEF ValidHex, Has0x
  <2> QED
    BY <2>1, DigitOrNot
<1> QED
  BY <1>1 DEF Digits

(* The text is a reading of the argument, and what is valid as any reading *)
(* is valid as the text.                                                   *)
LEMMA TextIsTheReading ==
    ASSUME CodecInv, InputInv, entry # "none"
    PROVE  LET ok(r) == ValidHex(Digits(r)) /\ (entry \in Arrays => Len(r) \div 2 <= ArraySize)
           IN  /\ entry = "from_prefixed_hex" /\ input # << >> /\ ~IsPrefix(Prefix, input) =>
                     Readings(entry, input) = {}
               /\ ~(entry = "from_prefixed_hex" /\ input # << >> /\ ~IsPrefix(Prefix, input)) =>
                     /\ Kept(entry, text) \in Readings(entry, input)
                     /\ \A r \in Readings(entry, input) : ok(r) => ok(Kept(entry, text))
<1> DEFINE ok(r) == ValidHex(Digits(r)) /\ (entry \in Arrays => Len(r) \div 2 <= ArraySize)
           lacking == entry = "from_prefixed_hex" /\ input # << >> /\ ~IsPrefix(Prefix, input)
<1>1. /\ entry \in Entries /\ input \in Seq(STRING) /\ text \in Seq(STRING)
      /\ Len(input) \in Nat /\ Len(text) \in Nat
  BY DEF InputInv, CodecInv
<1>2. CASE entry \notin Arrays
  <2>1. Readings(entry, input) = {Kept(entry, text)} /\ ~lacking
    BY <1>1, <1>2, ReadingsAre DEF InputInv, Arrays
  <2> QED
    BY <2>1
<1>3. entry \in Arrays => Kept(entry, text) = text
  BY <1>1, KeptPlain DEF Arrays
<1>4. CASE entry = "from_hex_T" /\ ~Has0x(input)
  <2>1. Readings(entry, input) = {text} /\ ~lacking /\ entry \in Arrays
    BY <1>1, <1>4, ReadingsAre DEF InputInv, Arrays
  <2> QED
    BY <1>3, <2>1
<1>5. CASE entry = "from_hex_T" /\ Has0x(input)
  <2>1. /\ text = Drop(input, 2) /\ Readings(entry, input) = {input, text} /\ ~lacking
        /\ entry \in Arrays
    BY <1>1, <1>5, ReadingsAre DEF InputInv, Arrays
  <2>2. Digits(input) = text
    BY <1>5, <2>1 DEF Digits
  <2>3. Len(text) = Len(input) - 2 /\ Len(input) >= 2
    <3>1. text = (IF Has0x(input) THEN Drop(input, 2) ELSE input) /\ Shift(input) = 2
      BY <1>5, <2>1 DEF Shift
    <3>2. Len(text) = Len(input) - Shift(input)
      BY <1>1, <3>1, DigitsOf
    <3> QED
      BY <1>5, <3>1, <3>2 DEF Has0x
  <2>4. ASSUME ok(input) PROVE ok(text)
    <3>1. ValidHex(Digits(text))
      BY <2>2, <2>4, NoPrefixLeft
    <3>2. Len(text) \div 2 <= Len(input) \div 2 /\ Len(text) \div 2 \in Int /\ Len(input) \div 2 \in Int
      BY <1>1, <2>3
    <3>3. Len(text) \div 2 <= ArraySize
      BY <2>1, <2>4, <3>2, HexAssumption
    <3> QED
      BY <3>1, <3>3
  <2> HIDE DEF ok
  <2>5. \A r \in Readings(entry, input) : ok(r) => ok(Kept(entry, text))
    BY <1>3, <2>1, <2>4
  <2> QED
    BY <1>3, <2>1, <2>5 DEF ok
<1>6. CASE entry = "from_prefixed_hex" /\ lacking
  <2>1. Readings(entry, input) = {}
    BY <1>1, <1>6, ReadingsAre
  <2> QED
    BY <1>6, <2>1
<1>7. CASE entry = "from_prefixed_hex" /\ ~lacking
  <2>1. Readings(entry, input) = {text} /\ entry \in Arrays
    BY <1>1, <1>7, ReadingsAre DEF InputInv, Arrays
  <2> QED
    BY <1>3, <1>7, <2>1
<1> QED
  BY <1>1, <1>2, <1>4, <1>5, <1>6, <1>7 DEF Arrays

------------------------------------------------------------------------------
(* Each entry point accepts exactly its language of arguments, whatever    *)
(* their length: the lookahead for the x, the parity of i, the iterator    *)
(* that skips white space and the prefixes removed before the loop agree.  *)
(* The languages of the arrays have room for one more 0x than from_hex()'s.*)
THEOREM LanguagesAreExact == Spec => []AcceptsExactly
<1>1. CodecInv /\ InputInv => AcceptsExactly
  <2> SUFFICES ASSUME CodecInv, InputInv, outcome # "none"
               PROVE  outcome = "true" <=>
                         \E r \in Readings(entry, input) :
                            ValidHex(Digits(r)) /\ (entry \in Arrays => Len(r) \div 2 <= ArraySize)
    BY DEF AcceptsExactly
  <2>1. entry # "none" /\ text \in Seq(STRING)
    BY DEF InputInv, CodecInv
  <2>2. entry \in Arrays => Kept(entry, text) = text
    BY <2>1, KeptPlain DEF Arrays
  <2>3. outcome = "true" <=>
            /\ ValidHex(Digits(Kept(entry, text)))
            /\ entry \in Arrays => Len(Kept(entry, text)) \div 2 <= ArraySize
            /\ entry = "from_prefixed_hex" /\ input # << >> => IsPrefix(Prefix, input)
    BY <2>2 DEF CodecInv, TextAccepted, TextDigits
  <2> QED
    BY <2>1, <2>3, TextIsTheReading
<1> QED
  BY <1>1, CodecInvariant, InputInvariant, PTL

(* hex() of what from_hex() wrote gives the digits of the argument back:   *)
(* the nibbles are joined in order, and none is lost at a prefix or at     *)
(* white space.                                                            *)
THEOREM DecodingInvertsEncoding == Spec => []EncodeInverts
<1>1. CodecInv /\ InputInv => EncodeInverts
  <2> SUFFICES ASSUME CodecInv, InputInv, outcome = "true", entry # "validate_hex"
               PROVE  \E r \in Readings(entry, input) :
                         ValidHex(Digits(r)) /\ hex(out) = Lowercase(Digits(r))
    BY DEF EncodeInverts
  <2>1. entry # "none"
    BY DEF InputInv
  <2>2. /\ ValidHex(Digits(Kept(entry, text)))
        /\ entry = "from_prefixed_hex" /\ input # << >> => IsPrefix(Prefix, input)
        /\ hex(out) = Lowercase(Digits(Kept(entry, text)))
    BY DEF CodecInv, TextAccepted, TextInverts, TextDigits
  <2>3. Kept(entry, text) \in Readings(entry, input)
    BY <2>1, <2>2, TextIsTheReading
  <2> QED
    BY <2>2, <2>3
<1> QED
  BY <1>1, CodecInvariant, InputInvariant, PTL

(* The output iterator of from_hex<T>() stays in the array, whose place    *)
(* was computed from the length of the input before the loop ran.          *)
THEOREM OutputStaysInside == Spec => []OutputFits
<1>1. CodecInv => OutputFits
  BY DEF CodecInv
<1> QED
  BY <1>1, CodecInvariant, PTL
==============================================================================
