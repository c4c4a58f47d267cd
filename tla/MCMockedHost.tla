---------------------------- MODULE MCMockedHost ----------------------------
(* An ordinary account and a precompile, one key.  The records of accesses *)
(* and of calls are capped at two entries, so that the runs go past the    *)
(* caps.  An empty argument set leaves a method out: the block hashes and  *)
(* the logs, which nothing else depends on, are in MCStorageGas.           *)
EXTENDS MockedHost, TLC

CONSTANTS a1, p1, k1, X, O, short, long, noinput

MCNone == {}
MCAccounts == {a1, p1}
MCPrecompile == {p1}
MCKey == {k1}
MCValue == {O, X}
MCInput == {short, long}
MCInline == {short}
MCProfile == {[balance |-> 5, codehash |-> X, code |-> <<1, 2, 3>>]}
=============================================================================
