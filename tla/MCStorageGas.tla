---------------------------- MODULE MCStorageGas ----------------------------
(* One account, two keys, one value of each kind the documentation         *)
(* distinguishes (0, X, Y, Z); the records of the host are kept small.     *)
EXTENDS StorageGas, TLC

CONSTANTS a1, k1, k2, X, Y, Z, O

MCAddr == {a1}
MCKey == {k1, k2}
MCValue == {O, X, Y, Z}
=============================================================================
