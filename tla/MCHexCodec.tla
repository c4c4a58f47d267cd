----------------------------- MODULE MCHexCodec ------------------------------
(* Characters of every kind the decoder tells apart: the digit of the      *)
(* prefix, other digits, its x, the custom prefix and white space.         *)
EXTENDS HexCodec

MCPrefix == <<"Q">>
==============================================================================
