------------------------------ MODULE ByteTypes ------------------------------
(***************************************************************************)
(* qrvmc::address and qrvmc::bytes32 (qrvmc.hpp): arrays of bytes in       *)
(* big-endian order that are compared a machine word at a time.  An array  *)
(* is a sequence of digits; an address is two words and half a word, a     *)
(* bytes32 four words.                                                     *)
(***************************************************************************)
EXTENDS Integers, Sequences, SequencesExt

CONSTANTS
    Base,   \* values of a byte: 256
    W       \* bytes in a 64-bit word: 8, an even number

ASSUME ByteAssumption == Base \in Nat \ {0, 1} /\ W \in Nat \ {0} /\ W % 2 = 0

Byte == 0..Base - 1
AllAddresses == [1..2 * W + W \div 2 -> Byte]
AllBytes32 == [1..4 * W -> Byte]

ZeroBytes(n) == [i \in 1..n |-> 0]
address0 == ZeroBytes(2 * W + W \div 2)
bytes32_0 == ZeroBytes(4 * W)

(* The numbers that the first n bytes encode, the first byte is the most   *)
(* significant.                                                            *)
Numbers(data) ==
    LET number[n \in 0..Len(data)] == IF n = 0 THEN 0 ELSE number[n - 1] * Base + data[n]
    IN  number

(* load64be(), load32be(): the first byte is the most significant.         *)
loadbe(data) == Numbers(data)[Len(data)]
(* load64le(), load32le(): the first byte is the least significant.        *)
loadle(data) == loadbe(Reverse(data))

(* The i-th word of an array, which may be half a word at its end.         *)
Word(a, i) == SubSeq(a, (i - 1) * W + 1, IF i * W > Len(a) THEN Len(a) ELSE i * W)

(* operator== of two addresses.                                            *)
address_equal(a, b) == \A i \in 1..3 : loadle(Word(a, i)) = loadle(Word(b, i))

(* operator< of two addresses.                                             *)
address_less(a, b) ==
    \/ loadbe(Word(a, 1)) < loadbe(Word(b, 1))
    \/ /\ loadbe(Word(a, 1)) = loadbe(Word(b, 1))
       /\ \/ loadbe(Word(a, 2)) < loadbe(Word(b, 2))
          \/ /\ loadbe(Word(a, 2)) = loadbe(Word(b, 2))
             /\ loadbe(Word(a, 3)) < loadbe(Word(b, 3))

(* operator== of two bytes32.                                              *)
bytes32_equal(a, b) == \A i \in 1..4 : loadle(Word(a, i)) = loadle(Word(b, i))

(* Mistake: one of the equalities is lost.                                 *)
bytes32_less_lost(a, b) ==
    \/ loadbe(Word(a, 1)) < loadbe(Word(b, 1))
    \/ /\ loadbe(Word(a, 1)) = loadbe(Word(b, 1))
       /\ \/ loadbe(Word(a, 2)) < loadbe(Word(b, 2))
          \/ /\ loadbe(Word(a, 2)) = loadbe(Word(b, 2))
             /\ \/ loadbe(Word(a, 3)) < loadbe(Word(b, 3))
                \/ loadbe(Word(a, 4)) < loadbe(Word(b, 4))

(* operator< of two bytes32.                                               *)
bytes32_less(a, b) ==
    \/ loadbe(Word(a, 1)) < loadbe(Word(b, 1))
    \/ /\ loadbe(Word(a, 1)) = loadbe(Word(b, 1))
       /\ \/ loadbe(Word(a, 2)) < loadbe(Word(b, 2))
          \/ /\ loadbe(Word(a, 2)) = loadbe(Word(b, 2))
             /\ \/ loadbe(Word(a, 3)) < loadbe(Word(b, 3))
                \/ /\ loadbe(Word(a, 3)) = loadbe(Word(b, 3))
                   /\ loadbe(Word(a, 4)) < loadbe(Word(b, 4))

(* An unsigned integer shifted right by 0 to W bytes.                      *)
Shifted(v) ==
    LET shifted[n \in 0..W] == IF n = 0 THEN v ELSE shifted[n - 1] \div Base
    IN  shifted

(* Conversion from an unsigned integer: shifts of v into the last word.    *)
FromInteger(n, v) == [i \in 1..n |-> IF i <= n - W THEN 0 ELSE Shifted(v)[n - i] % Base]
address_from(v) == FromInteger(2 * W + W \div 2, v)
bytes32_from(v) == FromInteger(4 * W, v)

address_is_zero(a) == address_equal(a, address0)
bytes32_is_zero(a) == bytes32_equal(a, bytes32_0)

(* The integers of n bytes are those below limit[n].                       *)
Limits == LET limit[n \in 0..W] == IF n = 0 THEN 1 ELSE limit[n - 1] * Base IN limit
Unsigned == 0..Limits[W] - 1

------------------------------------------------------------------------------
(* "The big-endian 160-bit hash", "a big-endian 256-bit integer": the      *)
(* comparisons made word by word, little-endian ones for equality and      *)
(* big-endian ones for the order, are those of the numbers the arrays      *)
(* encode, and so is the conversion from an integer.  std::map needs an    *)
(* order whose equivalence is the equality.                                *)
ComparesAsNumbers ==
    /\ \A a, b \in AllAddresses :
          /\ address_less(a, b) <=> loadbe(a) < loadbe(b)
          /\ address_equal(a, b) <=> loadbe(a) = loadbe(b)
    /\ \A a, b \in AllBytes32 :
          /\ bytes32_less(a, b) <=> loadbe(a) < loadbe(b)
          /\ bytes32_equal(a, b) <=> loadbe(a) = loadbe(b)
    /\ \A v \in Unsigned :
          /\ loadbe(address_from(v)) = v /\ loadbe(bytes32_from(v)) = v
          /\ address_is_zero(address_from(v)) <=> v = 0
          /\ bytes32_is_zero(bytes32_from(v)) <=> v = 0
==============================================================================
