------------------------------ MODULE MCExampleVM ------------------------------
(* The instructions found in the code of each run: all of them, or those    *)
(* that reach the memory without a call.                                    *)
EXTENDS ExampleVM

MCOptionValue == {-2, 0, 10}

MCSimple == Instructions \ {"CALL"}
=============================================================================
