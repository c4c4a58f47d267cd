------------------------------- MODULE MCTools -------------------------------
(* Command lines with each option alone and with those it interferes with,  *)
(* each kind of code argument, and argument lists of up to three of each    *)
(* class; executions that take none, half, all and more of the time the     *)
(* benchmark wants to run.                                                  *)
EXTENDS Tools, SequencesExt

CONSTANTS i1

MCHandle == {"vm", "temporary", "_owned_vm", "owned_vm"}

Nothing == [help |-> FALSE, version |-> FALSE, vm |-> FALSE, run |-> FALSE,
            code |-> "", input |-> "", create |-> FALSE, bench |-> FALSE]
Run == [Nothing EXCEPT !.vm = TRUE, !.run = TRUE]

MCCommandLine ==
    {Nothing, [Nothing EXCEPT !.help = TRUE], [Nothing EXCEPT !.version = TRUE],
     [Nothing EXCEPT !.version = TRUE, !.vm = TRUE], [Run EXCEPT !.version = TRUE, !.code = "hex"],
     Run, [Nothing EXCEPT !.run = TRUE, !.code = "hex"], [Run EXCEPT !.code = "nothex"],
     [Run EXCEPT !.code = "hex", !.input = "nothex"], [Run EXCEPT !.code = "hex", !.input = "@file"]}
    \cup {[Run EXCEPT !.code = c, !.create = create, !.bench = measured] :
              c \in {"hex", "@file"}, create \in BOOLEAN, measured \in BOOLEAN}

MCNames == <<"MODULE">>
MCArgumentList == SeqOf({"name", "version", "help", "unknown", "dashes"}, 3)
==============================================================================
