------------------------------- MODULE VmTester -------------------------------
(***************************************************************************)
(* The VM test program (tools/vmtester/vmtester.cpp, vmtester.hpp): its    *)
(* command line parser, the loading of the VM and the way of the instance  *)
(* into the static handle that the tests use.  The loader and the tests    *)
(* themselves are external: a test passes or fails.                        *)
(*                                                                         *)
(* An argument is the class it falls into: "name" starts with no dash,     *)
(* "version" and "help" have one or two of them, "unknown" is anything     *)
(* else that has characters after its dashes, "dashes" has none.           *)
(***************************************************************************)
EXTENDS VMHandle, Sequences, FiniteSets

CONSTANTS
    ArgumentList,    \* the arguments the tester is started with, without argv[0]
    arguments_names, \* the arguments it requires: <<"MODULE">>
    Tests            \* bound of the model on the number of tests

ASSUME TesterAssumption ==
    /\ {"owned_vm", "_owned_vm", "vm"} \subseteq Handle
    /\ ArgumentList \subseteq Seq(STRING) /\ arguments_names \in Seq(STRING)
    /\ Tests \in Nat

VARIABLES
    tester_pc,
    argv,            \* the argument list
    help, version,   \* locals of parse()
    i,               \* the next argument to look at
    names,           \* cli_parser::arguments
    parsed,          \* what parse() returned
    tests_run,
    tester_exit_code

parser == <<help, version, i, names, parsed>>
testerVars == <<tester_pc, argv, parser, tests_run, tester_exit_code>>

TesterInit ==
    /\ tester_pc = "static"
    /\ argv \in ArgumentList
    /\ help = FALSE /\ version = FALSE
    /\ i = 1
    /\ names = << >>
    /\ parsed = 0
    /\ tests_run = 0
    /\ tester_exit_code = "0"

(* qrvmc::VM qrvmc_vm_test::owned_vm;                                      *)
StaticInit ==
    /\ tester_pc = "static"
    /\ VM_construct("owned_vm", nullptr)
    /\ tester_pc' = "parse"
    /\ UNCHANGED <<argv, parser, tests_run, tester_exit_code>>

Return(value) ==
    /\ parsed' = value
    /\ tester_pc' = "parsed"

(* The loop of parse().                                                    *)
More == tester_pc = "parse" /\ i <= Len(argv)

(* Mistake: the argument is counted after the comparison.                  *)
ParseNameLate ==
    /\ More /\ argv[i] = "name"
    /\ \/ /\ Len(names) > Len(arguments_names)
          /\ Return(-1)
          /\ UNCHANGED <<names, i>>
       \/ /\ ~(Len(names) > Len(arguments_names))
          /\ names' = Append(names, i)
          /\ i' = i + 1
          /\ UNCHANGED <<parsed, tester_pc>>
    /\ UNCHANGED <<argv, help, version, tests_run, tester_exit_code, handleVars>>

ParseName ==
    /\ More /\ argv[i] = "name"
    /\ \/ /\ Len(names) + 1 > Len(arguments_names)
          /\ Return(-1)
          /\ UNCHANGED <<names, i>>
       \/ /\ ~(Len(names) + 1 > Len(arguments_names))
          /\ names' = Append(names, i)
          /\ i' = i + 1
          /\ UNCHANGED <<parsed, tester_pc>>
    /\ UNCHANGED <<argv, help, version, tests_run, tester_exit_code, handleVars>>

ParseFlag ==
    /\ More /\ argv[i] \in {"version", "help"}
    /\ help' = (help \/ argv[i] = "help")
    /\ version' = (version \/ argv[i] = "version")
    /\ i' = i + 1
    /\ UNCHANGED <<tester_pc, argv, names, parsed, tests_run, tester_exit_code, handleVars>>

ParseUnknown ==
    /\ More /\ argv[i] \notin {"name", "version", "help"}
    /\ Return(-1)
    /\ UNCHANGED <<argv, help, version, i, names, tests_run, tester_exit_code, handleVars>>

ParseEnd ==
    /\ tester_pc = "parse" /\ ~More
    /\ \/ (help \/ version) /\ Return(0)
       \/ ~help /\ ~version /\ Len(names) < Len(arguments_names) /\ Return(-1)
       \/ ~help /\ ~version /\ ~(Len(names) < Len(arguments_names)) /\ Return(1)
    /\ UNCHANGED <<argv, help, version, i, names, tests_run, tester_exit_code, handleVars>>

------------------------------------------------------------------------------
(* main() after parse(): the exit code, or the module to load.             *)
TesterLoad ==
    /\ tester_pc = "parsed"
    /\ \/ /\ parsed <= 0
          /\ tester_exit_code' = IF parsed = 0 THEN "0" ELSE "arguments"
          /\ tester_pc' = "destroy_static"
          /\ UNCHANGED handleVars
       \/ /\ parsed > 0
          /\ \/ /\ \E instance \in Instance : qrvmc_create(instance)
                /\ UNCHANGED tester_exit_code
             \/ /\ tester_exit_code' = "LoadingError"
                /\ UNCHANGED handleVars
          /\ tester_pc' = "wrap"
    /\ UNCHANGED <<argv, parser, tests_run>>

(* auto vm = VM{...}                                                       *)
TesterWrap ==
    /\ tester_pc = "wrap"
    /\ \E instance \in raw \cup {nullptr} :
          /\ instance = nullptr <=> raw = {}
          /\ VM_construct("vm", instance)
    /\ tester_pc' = IF tester_exit_code = "0" THEN "pass" ELSE "unwind"
    /\ UNCHANGED <<argv, parser, tests_run, tester_exit_code>>

(* set_vm(std::move(vm)): the parameter is made from vm, assigned to the   *)
(* static handle, and destroyed.                                           *)
PassVM ==
    /\ tester_pc = "pass"
    /\ VM_move_construct("_owned_vm", "vm")
    /\ tester_pc' = "set"
    /\ UNCHANGED <<argv, parser, tests_run, tester_exit_code>>

SetVM ==
    /\ tester_pc = "set"
    /\ VM_move_assign("owned_vm", "_owned_vm")
    /\ tester_pc' = "drop"
    /\ UNCHANGED <<argv, parser, tests_run, tester_exit_code>>

DropParameter ==
    /\ tester_pc = "drop"
    /\ VM_destruct("_owned_vm")
    /\ tester_pc' = "test"
    /\ UNCHANGED <<argv, parser, tests_run, tester_exit_code>>

(* A test uses the raw pointer of the static handle.                       *)
RunTest ==
    /\ tester_pc = "test" /\ tests_run < Tests
    /\ tests_run' = tests_run + 1
    /\ tester_exit_code' \in {tester_exit_code, "TestFailed"}
    /\ UNCHANGED <<tester_pc, argv, parser, handleVars>>

TestsDone ==
    /\ tester_pc = "test" /\ tests_run = Tests
    /\ tester_pc' = "unwind"
    /\ UNCHANGED <<argv, parser, tests_run, tester_exit_code, handleVars>>

(* main() returns, then the static handle is destroyed.                    *)
TesterUnwind ==
    /\ tester_pc = "unwind"
    /\ VM_destruct("vm")
    /\ tester_pc' = "destroy_static"
    /\ UNCHANGED <<argv, parser, tests_run, tester_exit_code>>

DestroyStatic ==
    /\ tester_pc = "destroy_static"
    /\ VM_destruct("owned_vm")
    /\ tester_pc' = "end"
    /\ UNCHANGED <<argv, parser, tests_run, tester_exit_code>>

TesterStep ==
    \/ StaticInit \/ ParseName \/ ParseFlag \/ ParseUnknown \/ ParseEnd
    \/ TesterLoad \/ TesterWrap \/ PassVM \/ SetVM \/ DropParameter
    \/ RunTest \/ TestsDone \/ TesterUnwind \/ DestroyStatic

------------------------------------------------------------------------------
(* The tests get a live instance from the static handle, through the two   *)
(* handles it was moved along, and it is destroyed, once, when all is over. *)
TesterUsesLiveInstance ==
    /\ tester_pc = "test" => m_instance["owned_vm"] \in live
    /\ tester_pc = "end" => live = {} /\ \A instance \in Instance : destroyed[instance] <= 1

(* "@return Negative value in case of error, 0 in case --help or --version *)
(* was provided and the program should terminate, positive value in case   *)
(* the program should continue": an error is an unknown option anywhere,   *)
(* one name too many, or, without those two options, one too few.  When    *)
(* the program continues, it has the arguments it requires.                *)
ParseAsDocumented ==
    LET count == Cardinality({k \in DOMAIN argv : argv[k] = "name"})
        unknown == \E k \in DOMAIN argv : argv[k] \notin {"name", "version", "help"}
        ends == \E k \in DOMAIN argv : argv[k] \in {"version", "help"}
        error == unknown \/ count > Len(arguments_names) \/ (~ends /\ count < Len(arguments_names))
    IN  tester_pc \notin {"absent", "static", "parse"} =>
            /\ parsed < 0 <=> error
            /\ parsed = 0 <=> ~error /\ ends
            /\ parsed > 0 => Len(names) = Len(arguments_names)
==============================================================================
