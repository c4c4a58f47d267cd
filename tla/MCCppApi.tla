------------------------------ MODULE MCCppApi ------------------------------
(* Three Result objects, two raw results and three output buffers: enough   *)
(* for an assignment between two owners while a third copy is elsewhere;    *)
(* two handles and two instances, for an assignment that destroys one.      *)
EXTENDS CppApi, TLC

CONSTANTS o1, o2, o3, r1, r2, b1, b2, b3, h1, h2, i1, i2

MCObj == {o1, o2, o3}
MCRaw == {r1, r2}
MCBuffer == {b1, b2, b3}
MCHandle == {h1, h2}
MCInstance == {i1, i2}
MCSymmetry ==
    Permutations(MCObj) \cup Permutations(MCRaw) \cup Permutations(MCBuffer)
    \cup Permutations(MCHandle) \cup Permutations(MCInstance)
==============================================================================
