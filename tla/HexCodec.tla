------------------------------ MODULE HexCodec -------------------------------
(***************************************************************************)
(* The hex decoder (include/qrvmc/hex.hpp) behind all its entry points,    *)
(* with the iterator that skips white space                                *)
(* (include/qrvmc/filter_iterator.hpp), and the encoder, against which     *)
(* the decoded bytes are compared.                                         *)
(*                                                                         *)
(* The loop of from_hex() runs one character per step.                     *)
(***************************************************************************)
EXTENDS Integers, Sequences, FiniteSets, SequencesExt

CONSTANTS
    Char,        \* the characters of the inputs, one-character strings
    MaxLength,   \* longest input
    Prefix,      \* the prefix given to from_prefixed_hex()
    ArraySize    \* std::size(r.bytes) of the result type

ASSUME HexAssumption ==
    Char \subseteq STRING /\ MaxLength \in Nat /\ Prefix \in Seq(STRING) /\ ArraySize \in Nat

VARIABLES
    entry,       \* the function called, "none" between calls
    input,       \* its argument
    text,        \* what the loop is run on: the argument without the
                 \* prefix the entry point removes
    rest,        \* the characters from the iterator to the end
    i, hi_nibble,
    start,       \* index of the first byte written (arrays only)
    out,         \* the bytes written
    outcome      \* "none", "true", "false"

vars == <<entry, input, text, rest, i, hi_nibble, start, out, outcome>>

------------------------------------------------------------------------------
Decimal == <<"0", "1", "2", "3", "4", "5", "6", "7", "8", "9">>
Lower == <<"a", "b", "c", "d", "e", "f">>
Upper == <<"A", "B", "C", "D", "E", "F">>
hex_digits == <<"0", "1", "2", "3", "4", "5", "6", "7", "8", "9", "a", "b", "c", "d", "e", "f">>
Index(digits, h) == CHOOSE n \in 1..Len(digits) : digits[n] = h

(* The value of a digit, -1 for any other character.                       *)
from_hex_digit(h) ==
    IF h \in Range(Decimal) THEN Index(Decimal, h) - 1
    ELSE IF h \in Range(Lower) THEN Index(Lower, h) - 1 + 10
    ELSE IF h \in Range(Upper) THEN Index(Upper, h) - 1 + 10
    ELSE -1

(* hex(bytes_view): two digits for every byte.                             *)
hex(bytes) ==
    [n \in 1..(2 * Len(bytes)) |->
        LET b == bytes[(n + 1) \div 2] IN
        hex_digits[1 + (IF n % 2 = 1 THEN b \div 16 ELSE b % 16)]]

(* isspace(); the vertical tab has no name in TLA+.                        *)
isspace(ch) == ch \in {" ", "\t", "\n", "\f", "\r"}

(* filter_iterator: the base iterator is moved to the next character that  *)
(* is kept, or to the end.                                                 *)
forward_to_next_value(s) ==
    LET n == SelectInSeq(s, LAMBDA ch : ~isspace(ch)) IN
    IF n = 0 THEN << >> ELSE SubSeq(s, n, Len(s))

(* Mistake: white space is skipped only when the iterator is built.        *)
advance_unfiltered(s) == Tail(s)

(* ++it, for the plain iterator and for skip_space_iterator.               *)
advance(s) == IF entry = "from_spaced_hex" THEN forward_to_next_value(Tail(s)) ELSE Tail(s)

Has0x(s) == Len(s) >= 2 /\ s[1] = "0" /\ s[2] = "x"
Drop(s, n) == SubSeq(s, n + 1, Len(s))

------------------------------------------------------------------------------
Entries == {"from_hex", "validate_hex", "from_spaced_hex", "from_hex_T", "from_prefixed_hex"}
Arrays == {"from_hex_T", "from_prefixed_hex"}

Init ==
    /\ entry = "none"
    /\ input = << >> /\ text = << >> /\ rest = << >>
    /\ i = 0 /\ hi_nibble = -1 /\ start = 0
    /\ out = << >>
    /\ outcome = "none"

(* The loop starts on the characters s, as first seen by the iterator.     *)
Begin(e, argument, s, first) ==
    /\ entry' = e
    /\ input' = argument
    /\ text' = s
    /\ rest' = first
    /\ i' = 0 /\ hi_nibble' = -1
    /\ out' = << >>

(* The entry points that decode into a string, or nowhere.                 *)
from_hex(argument) ==
    Begin("from_hex", argument, argument, argument) /\ start' = 0 /\ outcome' = "none"

validate_hex(argument) ==
    Begin("validate_hex", argument, argument, argument) /\ start' = 0 /\ outcome' = "none"

from_spaced_hex(argument) ==
    /\ Begin("from_spaced_hex", argument, argument, forward_to_next_value(argument))
    /\ start' = 0 /\ outcome' = "none"

(* Mistake: the number of bytes is rounded up, and compared too late.      *)
BeginArrayLoose(e, argument, s) ==
    /\ Begin(e, argument, s, s)
    /\ start' = ArraySize - (Len(s) + 1) \div 2
    /\ outcome' = IF Len(s) > 2 * ArraySize + 2 THEN "false" ELSE "none"

(* The decoding into an array: the bytes are written to its end.           *)
BeginArray(e, argument, s) ==
    LET num_in_bytes == Len(s) \div 2 IN
    /\ Begin(e, argument, s, s)
    /\ start' = ArraySize - num_in_bytes
    /\ outcome' = IF num_in_bytes > ArraySize THEN "false" ELSE "none"

(* from_hex<T>(): an optional prefix 0x is removed first.                  *)
from_hex_T(argument) ==
    BeginArray("from_hex_T", argument, IF Has0x(argument) THEN Drop(argument, 2) ELSE argument)

(* from_prefixed_hex<T>(): anything but the empty string needs the prefix. *)
from_prefixed_hex(argument) ==
    \/ /\ argument # << >> /\ ~IsPrefix(Prefix, argument)
       /\ Begin("from_prefixed_hex", argument, argument, argument)
       /\ start' = 0 /\ outcome' = "false"
    \/ /\ argument = << >>
       /\ BeginArray("from_prefixed_hex", argument, argument)
    \/ /\ argument # << >> /\ IsPrefix(Prefix, argument)
       /\ BeginArray("from_prefixed_hex", argument, Drop(argument, Len(Prefix)))

------------------------------------------------------------------------------
Running == entry # "none" /\ outcome = "none"

Digit(h) == from_hex_digit(h) >= 0

Advance ==
    /\ rest' = advance(rest)
    /\ i' = i + 1
    /\ UNCHANGED <<entry, input, text, start, outcome>>

(* The x of the prefix 0x.                                                 *)
SkipPrefix ==
    /\ Running /\ rest # << >>
    /\ ~Digit(rest[1])
    /\ i = 1 /\ hi_nibble = 0 /\ rest[1] = "x"
    /\ Advance
    /\ UNCHANGED <<hi_nibble, out>>

Reject ==
    /\ Running /\ rest # << >>
    /\ ~Digit(rest[1])
    /\ ~(i = 1 /\ hi_nibble = 0 /\ rest[1] = "x")
    /\ outcome' = "false"
    /\ UNCHANGED <<entry, input, text, rest, i, hi_nibble, start, out>>

HighNibble ==
    /\ Running /\ rest # << >>
    /\ Digit(rest[1])
    /\ i % 2 = 0
    /\ hi_nibble' = from_hex_digit(rest[1]) * 16
    /\ Advance
    /\ UNCHANGED out

(* Mistake: the nibbles are swapped.                                       *)
LowNibbleSwapped ==
    /\ Running /\ rest # << >>
    /\ Digit(rest[1])
    /\ i % 2 # 0
    /\ out' = IF entry = "validate_hex" THEN out
              ELSE Append(out, hi_nibble \div 16 + from_hex_digit(rest[1]) * 16)
    /\ Advance
    /\ UNCHANGED hi_nibble

(* A byte is complete; validate_hex() throws it away.                      *)
LowNibble ==
    /\ Running /\ rest # << >>
    /\ Digit(rest[1])
    /\ i % 2 # 0
    /\ out' = IF entry = "validate_hex" THEN out
              ELSE Append(out, hi_nibble + from_hex_digit(rest[1]))
    /\ Advance
    /\ UNCHANGED hi_nibble

(* The end of the characters: an odd number of digits is invalid.          *)
End ==
    /\ Running /\ rest = << >>
    /\ outcome' = IF i % 2 = 0 THEN "true" ELSE "false"
    /\ UNCHANGED <<entry, input, text, rest, i, hi_nibble, start, out>>

(* The caller takes the result.                                            *)
TakeResult ==
    /\ outcome # "none"
    /\ entry' = "none"
    /\ input' = << >> /\ text' = << >> /\ rest' = << >>
    /\ i' = 0 /\ hi_nibble' = -1 /\ start' = 0
    /\ out' = << >>
    /\ outcome' = "none"

Next ==
    \/ /\ entry = "none"
       /\ \E argument \in BoundedSeq(Char, MaxLength) :
             \/ from_hex(argument)
             \/ validate_hex(argument)
             \/ from_spaced_hex(argument)
             \/ from_hex_T(argument)
             \/ from_prefixed_hex(argument)
    \/ SkipPrefix \/ Reject \/ HighNibble \/ LowNibble \/ End
    \/ TakeResult

Spec == Init /\ [][Next]_vars

------------------------------------------------------------------------------
(* The places among the first n of s whose characters are not ignored:     *)
(* white space is, where the iterator skips it.                            *)
Visible(e, s, n) == {m \in 1..n : e = "from_spaced_hex" => ~isspace(s[m])}

(* The characters there: the k-th one has k of these places up to its own. *)
Kept(e, s) ==
    LET places == Visible(e, s, Len(s))
        place(k) == CHOOSE n \in places : Cardinality(Visible(e, s, n)) = k
    IN  [k \in 1..Cardinality(places) |-> s[place(k)]]

(* The prefixes that an entry point takes off the argument s before it has *)
(* the rest decoded: none, an optional 0x, or the one it was given, which  *)
(* only the empty string may lack.                                         *)
OwnPrefixes(e, s) ==
    IF e = "from_hex_T" THEN {<< >>, <<"0", "x">>}
    ELSE IF e = "from_prefixed_hex" /\ s # << >> THEN {Prefix} ELSE {<< >>}

(* What of s may have to be decoded, and the digits there: the decoder     *)
(* itself passes over one 0x.                                              *)
Readings(e, s) ==
    {Drop(Kept(e, s), Len(p)) : p \in {q \in OwnPrefixes(e, s) : IsPrefix(q, Kept(e, s))}}

Digits(r) == IF Has0x(r) THEN Drop(r, 2) ELSE r

ValidHex(s) == Len(s) % 2 = 0 /\ \A n \in 1..Len(s) : from_hex_digit(s[n]) # -1

Lowercase(s) ==
    [n \in 1..Len(s) |-> IF s[n] \in Range(Upper) THEN Lower[Index(Upper, s[n])] ELSE s[n]]

(* The array that from_hex<T>() and from_prefixed_hex<T>() return.         *)
ResultArray ==
    [n \in 1..ArraySize |->
        IF n > start /\ n <= start + Len(out) THEN out[n - start] ELSE 0]

(* Each entry point accepts exactly its language of arguments: an even     *)
(* number of hex digits, behind at most one 0x, behind the prefix that the *)
(* entry point takes off itself; and arrays only what fits, where the 0x   *)
(* that is left counts as a byte.  So from_hex() decodes what              *)
(* validate_hex() accepted (the command line tool takes the value without  *)
(* a test), and from_spaced_hex() what they accept, with white space put   *)
(* in.  The languages of the arrays are other ones: behind the prefix they *)
(* removed they accept one more 0x, so 0x0x is a value for from_hex<T>()   *)
(* and nothing for from_hex().                                             *)
AcceptsExactly ==
    outcome # "none" =>
        (outcome = "true" <=>
            \E r \in Readings(entry, input) :
                ValidHex(Digits(r)) /\ (entry \in Arrays => Len(r) \div 2 <= ArraySize))

(* Decoding inverts encoding: hex() of the decoded bytes gives back the    *)
(* digits of the argument, in lower case.                                  *)
EncodeInverts ==
    outcome = "true" /\ entry # "validate_hex" =>
        \E r \in Readings(entry, input) : ValidHex(Digits(r)) /\ hex(out) = Lowercase(Digits(r))

(* "It is guaranteed that the output will not be longer than half of the   *)
(* input length", and nothing is ever written outside the array, accepted  *)
(* or not.                                                                 *)
OutputFits ==
    /\ 2 * Len(out) <= Len(text)
    /\ entry \in Arrays /\ out # << >> => start >= 0 /\ start + Len(out) <= ArraySize

(* "When the input is smaller than the result type, the result is padded   *)
(* with zeros on the left."                                                *)
PaddedOnTheLeft ==
    entry \in Arrays /\ outcome = "true" =>
        ResultArray = [n \in 1..(ArraySize - Len(out)) |-> 0] \o out
==============================================================================
