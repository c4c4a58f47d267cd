------------------------------ MODULE MCLoader ------------------------------
(* Two threads, one of which asks for no error code; a library with both   *)
(* create functions, one with the unprefixed one only and one with         *)
(* neither; an empty name and one beyond the maximum.  The configurations: *)
(* an empty option and several "="; a repeated option with and without     *)
(* "=", a comma at the end and a length that just fits in PATH_MAX_LENGTH; *)
(* one that just does not fit; no path.                                    *)
EXTENDS Loader, TLC

CONSTANTS t1, t2, i1, i2

MCThread == {t1, t2}
MCUnasking == {t2}
MCInstance == {i1, i2}

both == <<"a", "-", "b", ".", "s">>
plain == <<"/", "l", "i", "b">>
none == <<"n">>
long == [i \in 1..PATH_MAX_LENGTH + 1 |-> "n"]

MCFile == {both, plain, none, long, << >>}
MCExports == [f \in MCFile |-> IF f = both THEN {<<"qrvmc_create_", <<"a", "_", "b">> >>, <<"qrvmc_create">>}
                               ELSE IF f = plain THEN {<<"qrvmc_create">>} ELSE {}]

MCConfig ==
    {both \o <<",", ",", "a", "=", "=">>,
     plain \o <<",", "a", ",", "a", "=", "b", ",">>,
     plain \o <<",", "a", ",", "a", "=", "b", ",", ",">>,
     <<",", "n">>}

Character == {"/", "l", "i", "b", ".", "-"}
Names(n) == UNION {[1..k -> Character] : k \in 0..n}
MCNameSample ==
    Names(5) \cup {<<"l", "i", "b">> \o n : n \in Names(3)}
    \cup {[i \in 1..k |-> "b"] : k \in 5..PATH_MAX_LENGTH}
=============================================================================
