--------------------------- MODULE MCExampleProgram ---------------------------
(* Bytes of one bit and words of two: addresses of five bytes and bytes32   *)
(* of eight.  The two addresses differ in their last word only, the two     *)
(* keys in their second and third; offsets and block numbers are those      *)
(* around each boundary.                                                    *)
EXTENDS ExampleProgram

a1 == address_from(0)
a2 == [a1 EXCEPT ![Len(a1)] = 1]
k1 == bytes32_0
k2 == [k1 EXCEPT ![W + 1] = 1, ![3 * W] = 1]
one == bytes32_from(1)

MCAddr == {a1, a2}
MCKey == {k1, k2}
MCValue == {bytes32_0, one}
MCBalance == {bytes32_0, one}
MCCode == {<<1>>, <<1, 0>>}
MCBlockNumber == -1..4
==============================================================================
