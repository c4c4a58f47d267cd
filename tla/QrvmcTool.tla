------------------------------ MODULE QrvmcTool ------------------------------
(***************************************************************************)
(* The command line tool (tools/qrvmc/main.cpp) and the run and bench      *)
(* functions behind it (lib/tooling/run.cpp): main() parses its arguments, *)
(* loads a VM into a handle, reads the code, has it created and executed,  *)
(* may execute it again to measure the time, and returns an exit code.     *)
(*                                                                         *)
(* External are the argument parser, as the checks main.cpp sets up in it, *)
(* the loader, which returns an instance or an error, the file system,     *)
(* where a file may change between the parsing and the reading, and the    *)
(* clock.  The VM is any deterministic one: its outcome depends on what it *)
(* executes and on the state of the Host it can see, and is chosen when    *)
(* that combination first occurs.                                          *)
(***************************************************************************)
EXTENDS VMHandle, Sequences

CONSTANTS
    CommandLine,      \* the command lines the tool is started with
    World,            \* states of the MockedHost that a VM can tell apart
    FreshWorld,       \* the one of a new MockedHost
    TargetBenchTime,  \* 1 second, in ticks of the clock
    MaxTicks          \* bound of the model on the length of an execution

ASSUME ToolAssumption ==
    /\ {"vm", "temporary"} \subseteq Handle
    /\ FreshWorld \in World
    /\ TargetBenchTime \in Nat \ {0} /\ MaxTicks \in Nat
    /\ \A c \in CommandLine :
          c \in [help : BOOLEAN, version : BOOLEAN, vm : BOOLEAN, run : BOOLEAN,
                 code : {"", "hex", "nothex", "@file"}, input : {"", "hex", "nothex", "@file"},
                 create : BOOLEAN, bench : BOOLEAN]

VARIABLES
    pc,
    arguments,     \* the command line
    file,          \* what is at the path of @file
    unread,        \* history: the file could not be read when its bytes were wanted
    code,          \* the bytes of the code argument: "argument", "file" or "empty"
    world,         \* the MockedHost of run()
    answers,       \* what the VM answered so far: [what it executed -> outcome]
    exec_code,     \* the buffer that exec_code views
    buffers,       \* the buffers of run() that exist, with their contents
    result,        \* the result of the execution that is reported
    before,        \* history: the world before the execution, and before the probe
    warned,        \* whether bench() warned of an inconsistent result
    probe_time, num_iterations, iterations, \* the benchmark
    reported,      \* whether the result was written to the output
    exit_code      \* 0, or the failure it stands for

input == <<arguments, unread, code>>
running == <<world, answers, exec_code, buffers, result, before>>
bench == <<warned, probe_time, num_iterations, iterations>>
toolVars == <<pc, file, input, running, bench, reported, exit_code>>

FileContent == {"absent", "unreadable", "hex", "nothex"}
NoResult == [status_code |-> "SUCCESS", gas_left |-> 0, output |-> "empty"]

(* A result as VMContract demands it, and the state the Host is left in.   *)
Outcome ==
    [status_code : {"SUCCESS", "REVERT"}, gas_left : 0..1, output : {"empty", "bytes"}, world : World]
    \cup [status_code : {"FAILURE"}, gas_left : {0}, output : {"empty"}, world : World]

ToolInit ==
    /\ pc = "parse"
    /\ arguments \in CommandLine
    /\ file \in FileContent
    /\ unread = FALSE
    /\ code = "empty"
    /\ world = FreshWorld
    /\ answers = << >>
    /\ exec_code = "code"
    /\ buffers = << >>
    /\ result = NoResult
    /\ before = <<FreshWorld, FreshWorld>>
    /\ warned = FALSE
    /\ probe_time = 0 /\ num_iterations = 0 /\ iterations = 0
    /\ reported = FALSE
    /\ exit_code = "0"

Leave(code_of_exit, label) ==
    /\ exit_code' = code_of_exit
    /\ pc' = label

------------------------------------------------------------------------------
(* HexOrFileValidator: hex digits, or the path of a file that exists.      *)
HexOrFile(argument) == argument = "hex" \/ (argument = "@file" /\ file # "absent")

(* app.parse(): the code of the run command is required, both arguments    *)
(* are validated, and --help ends the program.                             *)
Parse ==
    /\ pc = "parse"
    /\ \/ /\ arguments.help
          /\ Leave("0", "end")
       \/ /\ ~arguments.help
          /\ arguments.run => HexOrFile(arguments.code)
          /\ arguments.run /\ arguments.input # "" => HexOrFile(arguments.input)
          /\ Leave("0", "declare")
       \/ /\ ~arguments.help /\ arguments.run
          /\ \/ ~HexOrFile(arguments.code)
             \/ arguments.input # "" /\ ~HexOrFile(arguments.input)
          /\ Leave("ParseError", "end")
    /\ UNCHANGED <<file, input, running, bench, reported, handleVars>>

(* qrvmc::VM vm;                                                           *)
Declare ==
    /\ pc = "declare"
    /\ VM_construct("vm", nullptr)
    /\ pc' = IF arguments.vm THEN "load" ELSE "command"
    /\ UNCHANGED <<file, input, running, bench, reported, exit_code>>

(* qrvmc_load_and_configure() as the loader implements it: an instance and *)
(* SUCCESS, or an error.  vm = VM{...} moves a temporary handle.           *)
Load ==
    /\ pc = "load"
    /\ \/ /\ \E i \in Instance : qrvmc_create(i)
          /\ Leave("0", "wrap")
       \/ /\ UNCHANGED handleVars
          /\ Leave("LoadingError", "wrap")
    /\ UNCHANGED <<file, input, running, bench, reported>>

Wrap ==
    /\ pc = "wrap"
    /\ \E i \in raw \cup {nullptr} :
          /\ i = nullptr <=> raw = {}
          /\ VM_construct("temporary", i)
    /\ pc' = "assign"
    /\ UNCHANGED <<file, input, running, bench, reported, exit_code>>

Assign ==
    /\ pc = "assign"
    /\ VM_move_assign("vm", "temporary")
    /\ pc' = "drop"
    /\ UNCHANGED <<file, input, running, bench, reported, exit_code>>

DropTemporary ==
    /\ pc = "drop"
    /\ VM_destruct("temporary")
    /\ pc' = IF exit_code = "0" THEN "command" ELSE "unwind"
    /\ UNCHANGED <<file, input, running, bench, reported, exit_code>>

(* --version comes first; the run command needs --vm.                      *)
Command ==
    /\ pc = "command"
    /\ \/ /\ arguments.version \/ ~arguments.run
          /\ Leave("0", "unwind")
       \/ /\ ~arguments.version /\ arguments.run /\ ~arguments.vm
          /\ Leave("RequiredError", "unwind")
       \/ /\ ~arguments.version /\ arguments.run /\ arguments.vm
          /\ Leave("0", "read_code")
    /\ UNCHANGED <<file, input, running, bench, reported, handleVars>>

(* load_from_hex(): the hex digits were validated, the file is read now; a *)
(* file that cannot be opened reads as an empty one.                       *)
Read(argument) ==
    CASE argument = ""      -> "empty"
      [] argument = "hex"   -> "argument"
      [] argument = "@file" -> IF file \in {"absent", "unreadable"} THEN "empty"
                               ELSE IF file = "hex" THEN "file" ELSE "invalid"

ReadCode ==
    /\ pc = "read_code"
    /\ \/ /\ Read(arguments.code) = "invalid"
          /\ Leave("invalid_argument", "unwind")
          /\ UNCHANGED <<code, unread>>
       \/ /\ Read(arguments.code) # "invalid"
          /\ code' = Read(arguments.code)
          /\ unread' = (arguments.code = "@file" /\ file \in {"absent", "unreadable"})
          /\ Leave("0", "read_input")
    /\ UNCHANGED <<file, arguments, running, bench, reported, handleVars>>

(* run() then starts with a new Host; exec_code views the code.            *)
ReadInput ==
    /\ pc = "read_input"
    /\ \/ /\ Read(arguments.input) = "invalid"
          /\ Leave("invalid_argument", "unwind")
          /\ UNCHANGED buffers
       \/ /\ Read(arguments.input) # "invalid"
          /\ buffers' = [b \in {"code"} |-> code]
          /\ Leave("0", IF arguments.create THEN "create" ELSE "execute")
    /\ UNCHANGED <<file, input, world, answers, exec_code, result, before, bench, reported, handleVars>>

------------------------------------------------------------------------------
(* vm.execute(host, rev, message, bytes): the outcome of a deterministic   *)
(* VM on the world it finds.                                               *)
Execute(message, bytes, outcome) ==
    LET question == <<message, bytes, world>>
    IN  /\ outcome \in (IF question \in DOMAIN answers THEN {answers[question]} ELSE Outcome)
        /\ answers' = [q \in DOMAIN answers \cup {question} |->
                           IF q = question THEN outcome ELSE answers[q]]
        /\ world' = outcome.world

ResultOf(outcome) ==
    [status_code |-> outcome.status_code, gas_left |-> outcome.gas_left, output |-> outcome.output]

(* Mistake: a failed creation is reported, but not as the exit code.       *)
CreateQuietly ==
    /\ pc = "create"
    /\ \E outcome \in Outcome :
          /\ Execute("create", buffers[exec_code], outcome)
          /\ \/ /\ outcome.status_code # "SUCCESS"
                /\ Leave("0", "unwind")
                /\ UNCHANGED buffers
             \/ /\ outcome.status_code = "SUCCESS"
                /\ buffers' = [b \in DOMAIN buffers \cup {"create_result"} |->
                                  IF b = "create_result" THEN outcome.output ELSE buffers[b]]
                /\ Leave("0", "deploy")
    /\ UNCHANGED <<file, input, exec_code, result, before, bench, reported, handleVars>>

(* The result of the creation has a buffer of its own, which its handle    *)
(* releases when the block ends.                                           *)
Create ==
    /\ pc = "create"
    /\ \E outcome \in Outcome :
          /\ Execute("create", buffers[exec_code], outcome)
          /\ \/ /\ outcome.status_code # "SUCCESS"
                /\ Leave(outcome.status_code, "unwind")
                /\ UNCHANGED buffers
             \/ /\ outcome.status_code = "SUCCESS"
                /\ buffers' = [b \in DOMAIN buffers \cup {"create_result"} |->
                                  IF b = "create_result" THEN outcome.output ELSE buffers[b]]
                /\ Leave("0", "deploy")
    /\ UNCHANGED <<file, input, exec_code, result, before, bench, reported, handleVars>>

(* Mistake: the output of the result is viewed, not its copy.              *)
DeployViewsResult ==
    /\ pc = "deploy"
    /\ exec_code' = "create_result"
    /\ buffers' = [b \in {"code", "created_account.code"} |->
                      IF b = "code" THEN buffers[b] ELSE buffers["create_result"]]
    /\ world' \in World
    /\ pc' = "execute"
    /\ UNCHANGED <<file, input, answers, result, before, bench, reported, exit_code, handleVars>>

(* The output becomes the code of the created account, which exec_code     *)
(* views from now on and the VM may look at, and create_result goes out of *)
(* scope.                                                                  *)
Deploy ==
    /\ pc = "deploy"
    /\ exec_code' = "created_account.code"
    /\ buffers' = [b \in {"code", "created_account.code"} |->
                      IF b = "code" THEN buffers[b] ELSE buffers["create_result"]]
    /\ world' \in World
    /\ pc' = "execute"
    /\ UNCHANGED <<file, input, answers, result, before, bench, reported, exit_code, handleVars>>

ExecuteOnce ==
    /\ pc = "execute"
    /\ \E outcome \in Outcome :
          /\ exec_code \in DOMAIN buffers
          /\ Execute("call", buffers[exec_code], outcome)
          /\ result' = ResultOf(outcome)
          /\ before' = <<world, outcome.world>>
    /\ pc' = IF arguments.bench THEN "probe" ELSE "report"
    /\ UNCHANGED <<file, input, exec_code, buffers, bench, reported, exit_code, handleVars>>

------------------------------------------------------------------------------
(* bench(): quotients of times are whole numbers.                          *)

(* Mistake: one iteration is not the least.                                *)
IterationsFromZero(time) == TargetBenchTime \div time

Iterations(time) ==
    IF TargetBenchTime \div time > 1 THEN TargetBenchTime \div time ELSE 1

(* Mistake: the code of the command line is executed, not the created one. *)
ProbeGivenCode ==
    /\ pc = "probe"
    /\ \E outcome \in Outcome, time \in 0..MaxTicks :
          /\ Execute("call", buffers["code"], outcome)
          /\ warned' = (outcome.gas_left # result.gas_left \/ outcome.output # result.output)
          /\ probe_time' = time
          /\ IF time = 0
             THEN num_iterations' = 0 /\ pc' = "undefined"
             ELSE num_iterations' = Iterations(time) /\ pc' = "loop"
    /\ UNCHANGED <<file, input, exec_code, buffers, result, before, iterations, reported, exit_code, handleVars>>

(* The probe, the two comparisons and the number of iterations; a probe of *)
(* no ticks divides by zero.                                               *)
Probe ==
    /\ pc = "probe"
    /\ \E outcome \in Outcome, time \in 0..MaxTicks :
          /\ Execute("call", buffers[exec_code], outcome)
          /\ warned' = (outcome.gas_left # result.gas_left \/ outcome.output # result.output)
          /\ probe_time' = time
          /\ IF time = 0
             THEN num_iterations' = 0 /\ pc' = "undefined"
             ELSE num_iterations' = Iterations(time) /\ pc' = "loop"
    /\ UNCHANGED <<file, input, exec_code, buffers, result, before, iterations, reported, exit_code, handleVars>>

(* Mistake: the counter is not advanced.                                   *)
BenchIterationUncounted ==
    /\ pc = "loop" /\ iterations < num_iterations
    /\ \E outcome \in Outcome : Execute("call", buffers[exec_code], outcome)
    /\ UNCHANGED <<pc, file, input, exec_code, buffers, result, before, warned, probe_time,
                   num_iterations, iterations, reported, exit_code, handleVars>>

BenchIteration ==
    /\ pc = "loop" /\ iterations < num_iterations
    /\ \E outcome \in Outcome : Execute("call", buffers[exec_code], outcome)
    /\ iterations' = iterations + 1
    /\ UNCHANGED <<pc, file, input, exec_code, buffers, result, before, warned, probe_time,
                   num_iterations, reported, exit_code, handleVars>>

(* The average over the iterations.                                        *)
BenchDone ==
    /\ pc = "loop" /\ ~(iterations < num_iterations)
    /\ pc' = IF num_iterations = 0 THEN "undefined" ELSE "report"
    /\ UNCHANGED <<file, input, running, bench, reported, exit_code, handleVars>>

(* run() reports the first result and returns 0, whatever its status.      *)
Report ==
    /\ pc = "report"
    /\ reported' = TRUE
    /\ Leave("0", "unwind")
    /\ UNCHANGED <<file, input, running, bench, handleVars>>

(* The end of the block that declares vm, by return or by exception.       *)
Unwind ==
    /\ pc = "unwind"
    /\ VM_destruct("vm")
    /\ buffers' = << >>
    /\ pc' = "end"
    /\ UNCHANGED <<file, input, world, answers, exec_code, result, before, bench, reported, exit_code>>

(* Somebody else changes the file before it is read.                       *)
ChangeFile ==
    /\ pc \in {"parse", "declare", "load", "wrap", "assign", "drop", "command", "read_code", "read_input"}
    /\ "@file" \in {arguments.code, arguments.input}
    /\ file' \in FileContent
    /\ UNCHANGED <<pc, input, running, bench, reported, exit_code, handleVars>>

ToolStep ==
    \/ Parse \/ Declare \/ Load \/ Wrap \/ Assign \/ DropTemporary \/ Command
    \/ ReadCode \/ ReadInput \/ Create \/ Deploy \/ ExecuteOnce
    \/ Probe \/ BenchIteration \/ BenchDone \/ Report \/ Unwind

------------------------------------------------------------------------------
(* The tool never executes, asks or measures a VM through a null or dead   *)
(* handle, and at the end every instance is destroyed, once, whichever of  *)
(* the returns and exceptions was taken.                                   *)
ToolUsesLiveInstance ==
    /\ pc \in {"create", "execute", "probe", "loop"} => m_instance["vm"] \in live
    /\ pc = "end" => live = {} /\ \A instance \in Instance : destroyed[instance] <= 1

(* What the run command is there for: the code was executed, created first *)
(* where that was asked for; the VM's answer to it is what was reported;   *)
(* and a benchmark went through all its iterations.                        *)
RunDone ==
    LET created == <<"create", code, FreshWorld>>
        called == <<"call", IF arguments.create THEN answers[created].output ELSE code, before[1]>>
    IN  /\ arguments.create =>
              created \in DOMAIN answers /\ answers[created].status_code = "SUCCESS"
        /\ called \in DOMAIN answers /\ result = ResultOf(answers[called])
        /\ arguments.bench => num_iterations > 0 /\ iterations = num_iterations
        /\ reported

(* The bytes of the code argument.  The exception that the tool makes: a   *)
(* file that could not be read counts as no code.                          *)
CodeAsRead ==
    CASE arguments.code = "hex"   -> "argument"
      [] arguments.code = "@file" -> IF unread THEN "empty" ELSE "file"

(* Exit code 0 of the run command means that it was carried out on the     *)
(* code given, or on empty code where the file could not be read (then 0   *)
(* does not say that what was asked for was done); it says nothing of the  *)
(* status of the result.  Any other code means that nothing was reported.  *)
ExitCodeTells ==
    /\ pc = "end" /\ exit_code = "0" /\ arguments.run /\ ~arguments.version /\ ~arguments.help
          => RunDone /\ code = CodeAsRead
    /\ pc = "end" /\ exit_code # "0" => ~reported

(* What is executed exists, and is what was given: the argument, the bytes *)
(* of the file unless it could not be read, or, with --create, the output  *)
(* of the creation.                                                        *)
ExecutesWhatWasGiven ==
    pc \in {"execute", "probe", "loop"} =>
        /\ exec_code \in DOMAIN buffers
        /\ IF arguments.create
           THEN <<"create", code, FreshWorld>> \in DOMAIN answers
                /\ buffers[exec_code] = answers[<<"create", code, FreshWorld>>].output
           ELSE buffers[exec_code] = code
        /\ code = CodeAsRead

(* "WARNING! Inconsistent execution result": the benchmark of a VM that is *)
(* deterministic warns only when the first execution has changed the state *)
(* the second one saw.                                                     *)
WarningIsJustified == warned => before[1] # before[2]

==============================================================================
