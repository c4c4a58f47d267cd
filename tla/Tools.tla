-------------------------------- MODULE Tools --------------------------------
(***************************************************************************)
(* The two programs that come with the library, each in a process of its   *)
(* own with its own VM handles: a behaviour is one run of one of them.     *)
(***************************************************************************)
EXTENDS QrvmcTool, VmTester

VARIABLE program   \* "qrvmc" or "vmtester"

toolsVars == <<program, toolVars, testerVars, handleVars>>

Init ==
    /\ HandleInit
    /\ \/ /\ program = "qrvmc"
          /\ ToolInit
          /\ tester_pc = "absent" /\ argv = << >> /\ help = FALSE /\ version = FALSE /\ i = 1
          /\ names = << >> /\ parsed = 0 /\ tests_run = 0 /\ tester_exit_code = "0"
       \/ /\ program = "vmtester"
          /\ TesterInit
          /\ pc = "absent"
          /\ arguments = [help |-> FALSE] /\ file = "absent" /\ unread = FALSE /\ code = "empty"
          /\ world = FreshWorld /\ answers = << >> /\ exec_code = "code" /\ buffers = << >>
          /\ result = NoResult /\ before = <<FreshWorld, FreshWorld>> /\ warned = FALSE
          /\ probe_time = 0 /\ num_iterations = 0 /\ iterations = 0
          /\ reported = FALSE /\ exit_code = "0"

Step ==
    /\ \/ ToolStep /\ UNCHANGED testerVars
       \/ TesterStep /\ UNCHANGED toolVars
    /\ UNCHANGED program

Next ==
    \/ Step
    \/ ChangeFile /\ UNCHANGED <<program, testerVars>>

Spec == Init /\ [][Next]_toolsVars

(* A program runs on, and the VM returns from every execution.             *)
FairSpec == Spec /\ WF_toolsVars(Step)

(* Both programs use an instance only while it is alive, and each of their *)
(* exits leaves none behind and destroys none twice.                       *)
InstanceAliveWhileUsed == ToolUsesLiveInstance /\ TesterUsesLiveInstance

(* Each run of a program comes to its end, also the benchmark of an        *)
(* execution of any length, which divides by a number of iterations that   *)
(* is not zero.  The exception is a probe within one tick of the clock:    *)
(* dividing by its time is undefined, and no end is promised then.         *)
ProgramEnds ==
    <>(pc = "end" \/ tester_pc = "end" \/ (pc = "undefined" /\ probe_time = 0))
==============================================================================
