------------------------------ MODULE ToolsProofs ------------------------------
(***************************************************************************)
(* The two programs, for every command line and argument list, any VM, any *)
(* time the executions take, and a file that changes at any time: their VM *)
(* is alive while they use it and destroyed once, exit codes and warnings  *)
(* are true, and what was given is what is executed.                       *)
(***************************************************************************)
EXTENDS Tools, FiniteSetTheorems, TLAPS

(* An instance is new, alive or was destroyed once.                        *)
LifeInv ==
    /\ m_instance \in [Handle -> Instance \cup {nullptr}]
    /\ live \subseteq Instance /\ unborn \subseteq Instance /\ live \cap unborn = {}
    /\ destroyed \in [Instance -> Nat]
    /\ \A x \in live \cup unborn : destroyed[x] = 0
    /\ \A x \in Instance : destroyed[x] <= 1

(* These objects are alive, no raw pointer is about, and h has the only    *)
(* instance, if there is one.                                              *)
Holds(h, alive) ==
    /\ objects = alive
    /\ raw = {}
    /\ \A g \in Handle \ {h} : m_instance[g] = nullptr
    /\ live = {m_instance[h]} \ {nullptr}

Loaded(h, alive) == Holds(h, alive) /\ m_instance[h] # nullptr
Empty(h, alive) == Holds(h, alive) /\ m_instance[h] = nullptr

(* An instance from the loader, or none, is still a raw pointer.           *)
Raw(alive, success) ==
    /\ objects = alive
    /\ \A g \in Handle : m_instance[g] = nullptr
    /\ live = raw
    /\ \A x, y \in raw : x = y
    /\ success <=> raw # {}

(* Where the instance is, place by place in main() of the tool.            *)
ToolHandles ==
    /\ pc \in {"parse", "declare", "load", "wrap", "assign", "drop", "command", "read_code",
               "read_input", "create", "deploy", "execute", "probe", "loop", "report",
               "unwind", "undefined", "end"}
    /\ pc \in {"parse", "declare", "end"} => Empty("vm", {})
    /\ pc = "load" => Empty("vm", {"vm"}) /\ arguments.vm
    /\ pc = "wrap" => Raw({"vm"}, exit_code = "0") /\ arguments.vm
    /\ pc = "assign" => Holds("temporary", {"vm", "temporary"})
                        /\ (exit_code = "0" => m_instance["temporary"] # nullptr)
    /\ pc = "drop" => Holds("vm", {"vm", "temporary"})
                      /\ (exit_code = "0" => m_instance["vm"] # nullptr)
    /\ pc = "command" => Holds("vm", {"vm"}) /\ (arguments.vm => m_instance["vm"] # nullptr)
    /\ pc \in {"read_code", "read_input", "create", "deploy", "execute", "probe", "loop",
               "report", "undefined"} => Loaded("vm", {"vm"})
    /\ pc = "unwind" => Holds("vm", {"vm"})

(* The same for main() of the tester.                                      *)
TesterHandles ==
    /\ tester_pc \in {"static", "parse", "parsed", "wrap", "pass", "set", "drop", "test",
                      "unwind", "destroy_static", "end"}
    /\ tester_pc \in {"static", "parse", "parsed"} => tester_exit_code = "0"
    /\ tester_pc \in {"static", "end"} => Empty("owned_vm", {})
    /\ tester_pc \in {"parse", "parsed"} => Empty("owned_vm", {"owned_vm"})
    /\ tester_pc = "wrap" => Raw({"owned_vm"}, tester_exit_code = "0")
    /\ tester_pc = "pass" => Loaded("vm", {"owned_vm", "vm"})
    /\ tester_pc = "set" => Loaded("_owned_vm", {"owned_vm", "vm", "_owned_vm"})
    /\ tester_pc = "drop" => Loaded("owned_vm", {"owned_vm", "vm", "_owned_vm"})
    /\ tester_pc = "test" => Loaded("owned_vm", {"owned_vm", "vm"})
    /\ tester_pc = "unwind" => Holds("owned_vm", {"owned_vm", "vm"})
    /\ tester_pc = "destroy_static" => Holds("owned_vm", {"owned_vm"})

HandleInv ==
    /\ LifeInv
    /\ \/ program = "qrvmc" /\ tester_pc = "absent" /\ ToolHandles
       \/ program = "vmtester" /\ pc = "absent" /\ TesterHandles

(* A report means success, and a run that was to report and ends with 0    *)
(* has reported.                                                           *)
ReportInv ==
    /\ reported \in BOOLEAN
    /\ reported => pc \in {"unwind", "end"} /\ exit_code = "0"
    /\ pc \in {"unwind", "end"} /\ exit_code = "0"
       /\ arguments.run /\ ~arguments.version /\ ~arguments.help => reported

Before == {"parse", "declare", "load", "wrap", "assign", "drop", "command", "read_code"}

Created == <<"create", code, FreshWorld>>

(* From the argument to what is executed.                                  *)
CodeInv ==
    /\ pc \in Before \ {"parse"} /\ arguments.run => arguments.code \in {"hex", "@file"}
    /\ pc \in {"read_code", "read_input"} => arguments.run
    /\ pc \in {"read_input", "create", "deploy", "execute", "probe", "loop"} => code = CodeAsRead
    /\ pc \in Before \cup {"read_input", "create"} => world = FreshWorld /\ exec_code = "code"
    /\ pc \in {"create", "deploy"} => arguments.create
    /\ pc = "create" => buffers = [b \in {"code"} |-> code]
    /\ pc = "deploy" => /\ Created \in DOMAIN answers
                        /\ buffers["create_result"] = answers[Created].output
    /\ pc \in {"execute", "probe", "loop"} =>
          /\ exec_code \in DOMAIN buffers
          /\ arguments.create => /\ Created \in DOMAIN answers
                                 /\ buffers[exec_code] = answers[Created].output
          /\ ~arguments.create => buffers[exec_code] = code

(* What was executed, and is reported.                                     *)
Called == <<"call", IF arguments.create THEN answers[Created].output ELSE code, before[1]>>
CreatedWell ==
    arguments.create => Created \in DOMAIN answers /\ answers[Created].status_code = "SUCCESS"
CalledWell == Called \in DOMAIN answers /\ result = ResultOf(answers[Called])

(* From the execution to the report, with the iterations on the way.       *)
DoneInv ==
    /\ pc \in {"deploy", "execute"} => CreatedWell
    /\ pc \in {"probe", "loop", "report"} \/ reported =>
          CreatedWell /\ CalledWell /\ code = CodeAsRead
    /\ pc \in Before \cup {"read_input", "create", "deploy", "execute", "probe"} => iterations = 0
    /\ pc = "loop" => num_iterations \in Nat \ {0} /\ iterations \in 0..num_iterations
    /\ (pc = "report" \/ reported) /\ arguments.bench =>
          num_iterations > 0 /\ iterations = num_iterations

(* What the probe executes was answered in the world before the execution, *)
(* with the result that is compared.                                       *)
Executed == <<"call", buffers[exec_code], before[1]>>
WarningInv ==
    /\ warned \in BOOLEAN
    /\ pc \in Before \cup {"read_input", "create", "deploy", "execute", "probe"} => ~warned
    /\ pc = "probe" => /\ world = before[2]
                       /\ Executed \in DOMAIN answers
                       /\ result = ResultOf(answers[Executed])
    /\ WarningIsJustified

(* What the parser knows of the arguments it has looked at.                *)
NamesBefore(n) == {k \in 1..n - 1 : argv[k] = "name"}
ParserInv ==
    /\ argv \in Seq(STRING)
    /\ tester_pc = "static" => i = 1 /\ names = << >> /\ ~help /\ ~version
    /\ tester_pc \in {"static", "parse"} =>
          /\ i \in 1..Len(argv) + 1
          /\ help \in BOOLEAN /\ version \in BOOLEAN
          /\ \A k \in 1..i - 1 : argv[k] \in {"name", "version", "help"}
          /\ help \/ version <=> \E k \in 1..i - 1 : argv[k] \in {"version", "help"}
          /\ names \in Seq(Nat)
          /\ Len(names) = Cardinality(NamesBefore(i))
          /\ Len(names) <= Len(arguments_names)
    /\ ParseAsDocumented

------------------------------------------------------------------------------
(* The operations on handles, as the two programs use them: what holds the *)
(* instance afterwards.                                                    *)
LEMMA EmptyElsewhere ==
    ASSUME NEW g \in Handle, NEW h \in Handle, NEW alive, Empty(g, alive)
    PROVE  Empty(h, alive)
BY DEF Empty, Holds

LEMMA ConstructEmpty ==
    ASSUME LifeInv, NEW g \in Handle, NEW h \in Handle, NEW alive, Empty(g, alive),
           VM_construct(h, nullptr)
    PROVE  LifeInv' /\ Empty(g, alive \cup {h})'
BY HandleAssumption DEF LifeInv, Empty, Holds, VM_construct

LEMMA CreateRaw ==
    ASSUME LifeInv, NEW h \in Handle, NEW alive, Empty(h, alive),
           NEW x \in Instance, qrvmc_create(x)
    PROVE  LifeInv' /\ Raw(alive, TRUE)'
BY HandleAssumption DEF LifeInv, Empty, Holds, Raw, qrvmc_create

LEMMA CreateFails ==
    ASSUME LifeInv, NEW h \in Handle, NEW alive, Empty(h, alive), UNCHANGED handleVars
    PROVE  LifeInv' /\ Raw(alive, FALSE)'
BY HandleAssumption DEF LifeInv, Empty, Holds, Raw, handleVars

LEMMA WrapRaw ==
    ASSUME LifeInv, NEW h \in Handle, NEW alive, NEW success \in BOOLEAN, Raw(alive, success),
           NEW x \in raw \cup {nullptr}, x = nullptr <=> raw = {}, VM_construct(h, x)
    PROVE  /\ LifeInv' /\ Holds(h, alive \cup {h})'
           /\ success <=> m_instance'[h] # nullptr
BY HandleAssumption DEF LifeInv, Holds, Raw, VM_construct

LEMMA MoveConstruct ==
    ASSUME LifeInv, NEW g \in Handle, NEW h \in Handle, g # h, NEW alive, Loaded(g, alive),
           VM_move_construct(h, g)
    PROVE  LifeInv' /\ Loaded(h, alive \cup {h})'
BY HandleAssumption DEF LifeInv, Loaded, Holds, VM_move_construct

LEMMA MoveAssign ==
    ASSUME LifeInv, NEW g \in Handle, NEW h \in Handle, g # h, NEW alive, Holds(g, alive),
           VM_move_assign(h, g)
    PROVE  LifeInv' /\ Holds(h, alive)' /\ m_instance'[h] = m_instance[g]
BY HandleAssumption DEF LifeInv, Holds, VM_move_assign, DestroyInstance

LEMMA DestructOther ==
    ASSUME LifeInv, NEW g \in Handle, NEW h \in Handle, g # h, NEW alive, Holds(g, alive),
           VM_destruct(h)
    PROVE  LifeInv' /\ Holds(g, alive \ {h})' /\ m_instance'[g] = m_instance[g]
BY HandleAssumption DEF LifeInv, Holds, VM_destruct, DestroyInstance

LEMMA DestructHolder ==
    ASSUME LifeInv, NEW h \in Handle, NEW alive, Holds(h, alive), VM_destruct(h)
    PROVE  LifeInv' /\ Empty(h, alive \ {h})'
<1>1. CASE m_instance[h] = nullptr
  BY <1>1, HandleAssumption DEF LifeInv, Empty, Holds, VM_destruct, DestroyInstance
<1>2. CASE m_instance[h] # nullptr
  <2>1. m_instance[h] \in live /\ m_instance[h] \in Instance
    BY <1>2, HandleAssumption DEF LifeInv, Holds
  <2>. QED
    BY <1>2, <2>1, HandleAssumption DEF LifeInv, Empty, Holds, VM_destruct, DestroyInstance
<1>. QED BY <1>1, <1>2

LEMMA SameHandles ==
    ASSUME LifeInv, UNCHANGED handleVars
    PROVE  /\ LifeInv'
           /\ \A h, alive : Holds(h, alive) => Holds(h, alive)'
           /\ \A h, alive : Loaded(h, alive) => Loaded(h, alive)'
           /\ \A h, alive : Empty(h, alive) => Empty(h, alive)'
           /\ \A alive, success : Raw(alive, success) => Raw(alive, success)'
           /\ UNCHANGED m_instance
BY DEF handleVars, LifeInv, Loaded, Empty, Holds, Raw

(* The handles of the tool, step by step.                                  *)
LEMMA ToolHandleStep ==
    ASSUME LifeInv, ToolHandles, ToolStep \/ ChangeFile
    PROVE  LifeInv' /\ ToolHandles'
<1>. USE ToolAssumption
<1>. DEFINE Later == {"read_code", "read_input", "create", "deploy", "execute", "probe",
                      "loop", "report", "undefined"}
<1>1. "vm" \in Handle /\ "temporary" \in Handle
  OBVIOUS
<1>2. ASSUME UNCHANGED handleVars, Loaded("vm", {"vm"}), pc' \in Later \cup {"unwind"}
      PROVE  LifeInv' /\ ToolHandles'
  <2>1. LifeInv' /\ Loaded("vm", {"vm"})' /\ Holds("vm", {"vm"})'
    BY <1>2, SameHandles DEF Loaded
  <2>. QED BY <1>2, <2>1 DEF ToolHandles
<1>3. CASE Parse
  BY <1>3, SameHandles DEF Parse, Leave, ToolHandles
<1>4. CASE Declare
  <2>1. Empty("vm", {}) /\ VM_construct("vm", nullptr)
    BY <1>4 DEF Declare, ToolHandles
  <2>2. {} \cup {"vm"} = {"vm"}
    OBVIOUS
  <2>3. LifeInv' /\ Empty("vm", {} \cup {"vm"})'
    BY <1>1, <2>1, ConstructEmpty
  <2>4. LifeInv' /\ Empty("vm", {"vm"})'
    BY <2>2, <2>3 DEF Empty, Holds
  <2>5. Holds("vm", {"vm"})'
    BY <2>4 DEF Empty
  <2>. QED BY <1>4, <2>4, <2>5 DEF Declare, ToolHandles, input
<1>5. CASE Load
  <2>1. Empty("vm", {"vm"}) /\ arguments'.vm
    BY <1>5 DEF Load, ToolHandles, input
  <2>2. CASE \E x \in Instance : qrvmc_create(x) /\ Leave("0", "wrap")
    <3>1. LifeInv' /\ Raw({"vm"}, TRUE)' /\ pc' = "wrap" /\ exit_code' = "0"
      BY <1>1, <2>1, <2>2, CreateRaw DEF Leave
    <3>. QED BY <2>1, <3>1 DEF ToolHandles, Raw
  <2>3. CASE UNCHANGED handleVars /\ Leave("LoadingError", "wrap")
    <3>1. LifeInv' /\ Raw({"vm"}, FALSE)' /\ pc' = "wrap" /\ exit_code' # "0"
      BY <1>1, <2>1, <2>3, CreateFails DEF Leave
    <3>. QED BY <2>1, <3>1 DEF ToolHandles, Raw
  <2>. QED BY <1>5, <2>2, <2>3 DEF Load
<1>6. CASE Wrap
  <2>1. Raw({"vm"}, exit_code = "0") /\ pc' = "assign" /\ exit_code' = exit_code
    BY <1>6 DEF Wrap, ToolHandles
  <2>2. PICK x \in raw \cup {nullptr} :
          (x = nullptr <=> raw = {}) /\ VM_construct("temporary", x)
    BY <1>6 DEF Wrap
  <2>3. (exit_code = "0") \in BOOLEAN /\ {"vm"} \cup {"temporary"} = {"vm", "temporary"}
    OBVIOUS
  <2>4. /\ LifeInv' /\ Holds("temporary", {"vm", "temporary"})'
        /\ exit_code = "0" <=> m_instance'["temporary"] # nullptr
    BY <1>1, <2>1, <2>2, <2>3, WrapRaw
  <2>. QED BY <2>1, <2>4 DEF ToolHandles
<1>7. CASE Assign
  <2>1. /\ Holds("temporary", {"vm", "temporary"}) /\ VM_move_assign("vm", "temporary")
        /\ exit_code = "0" => m_instance["temporary"] # nullptr
        /\ pc' = "drop" /\ exit_code' = exit_code
    BY <1>7 DEF Assign, ToolHandles
  <2>2. /\ LifeInv' /\ Holds("vm", {"vm", "temporary"})'
        /\ m_instance'["vm"] = m_instance["temporary"]
    BY <1>1, <2>1, MoveAssign
  <2>. QED BY <2>1, <2>2 DEF ToolHandles
<1>8. CASE DropTemporary
  <2>1. /\ Holds("vm", {"vm", "temporary"}) /\ VM_destruct("temporary")
        /\ exit_code = "0" => m_instance["vm"] # nullptr
        /\ pc' = IF exit_code = "0" THEN "command" ELSE "unwind"
    BY <1>8 DEF DropTemporary, ToolHandles
  <2>2. {"vm", "temporary"} \ {"temporary"} = {"vm"}
    OBVIOUS
  <2>3. /\ LifeInv' /\ Holds("vm", {"vm", "temporary"} \ {"temporary"})'
        /\ m_instance'["vm"] = m_instance["vm"]
    BY <1>1, <2>1, DestructOther
  <2>4. /\ LifeInv' /\ Holds("vm", {"vm"})' /\ m_instance'["vm"] = m_instance["vm"]
    BY <2>2, <2>3 DEF Holds
  <2>. QED BY <2>1, <2>4 DEF ToolHandles
<1>9. CASE Command
  <2>1. /\ Holds("vm", {"vm"}) /\ (arguments.vm => m_instance["vm"] # nullptr)
        /\ UNCHANGED handleVars /\ pc' \in {"unwind", "read_code"}
        /\ pc' = "read_code" => arguments.vm
    BY <1>9 DEF Command, Leave, ToolHandles
  <2>2. LifeInv' /\ Holds("vm", {"vm"})' /\ (pc' = "read_code" => Loaded("vm", {"vm"})')
    BY <2>1, SameHandles DEF Loaded
  <2>. QED BY <2>1, <2>2 DEF ToolHandles
<1>10. CASE \/ ReadCode \/ ReadInput \/ Create \/ Deploy \/ ExecuteOnce
            \/ Probe \/ BenchIteration \/ BenchDone \/ Report
  <2>1. UNCHANGED handleVars /\ Loaded("vm", {"vm"})
    BY <1>10 DEF ReadCode, ReadInput, Create, Deploy, ExecuteOnce, Probe, BenchIteration,
                 BenchDone, Report, ToolHandles
  <2>2. pc' \in Later \cup {"unwind"}
    BY <1>10 DEF ReadCode, ReadInput, Create, Deploy, ExecuteOnce, Probe, BenchIteration,
                 BenchDone, Report, Leave
  <2>. QED BY <1>2, <2>1, <2>2
<1>11. CASE Unwind
  <2>1. Holds("vm", {"vm"}) /\ VM_destruct("vm") /\ pc' = "end"
    BY <1>11 DEF Unwind, ToolHandles
  <2>2. LifeInv' /\ Empty("vm", {})'
    BY <1>1, <2>1, DestructHolder, {"vm"} \ {"vm"} = {}
  <2>. QED BY <2>1, <2>2 DEF ToolHandles
<1>12. CASE ChangeFile
  <2>1. UNCHANGED <<handleVars, pc, exit_code, arguments>>
    BY <1>12 DEF ChangeFile, input
  <2>2. /\ LifeInv'
        /\ \A h, alive : Holds(h, alive) => Holds(h, alive)'
        /\ \A h, alive : Loaded(h, alive) => Loaded(h, alive)'
        /\ \A h, alive : Empty(h, alive) => Empty(h, alive)'
        /\ \A alive, success : Raw(alive, success) => Raw(alive, success)'
        /\ UNCHANGED m_instance
    BY <2>1, SameHandles
  <2>. QED BY <2>1, <2>2 DEF ToolHandles, Raw
<1>. QED
  BY <1>3, <1>4, <1>5, <1>6, <1>7, <1>8, <1>9, <1>10, <1>11, <1>12 DEF ToolStep

(* The handles of the tester, step by step.                                *)
LEMMA TesterHandleStep ==
    ASSUME LifeInv, TesterHandles, TesterStep
    PROVE  LifeInv' /\ TesterHandles'
<1>. USE TesterAssumption
<1>1. "vm" \in Handle /\ "owned_vm" \in Handle /\ "_owned_vm" \in Handle
  OBVIOUS
<1>2. CASE StaticInit
  <2>1. Empty("owned_vm", {}) /\ VM_construct("owned_vm", nullptr)
        /\ tester_pc' = "parse" /\ tester_exit_code' = "0"
    BY <1>2 DEF StaticInit, TesterHandles
  <2>2. LifeInv' /\ Empty("owned_vm", {} \cup {"owned_vm"})'
    BY <1>1, <2>1, ConstructEmpty
  <2>3. {} \cup {"owned_vm"} = {"owned_vm"}
    OBVIOUS
  <2>4. Empty("owned_vm", {"owned_vm"})'
    BY <2>2, <2>3 DEF Empty, Holds
  <2>. QED BY <2>1, <2>2, <2>4 DEF TesterHandles
<1>3. CASE ParseName \/ ParseFlag \/ ParseUnknown \/ ParseEnd
  <2>1. /\ UNCHANGED <<handleVars, tester_exit_code>>
        /\ tester_pc = "parse" /\ tester_pc' \in {"parse", "parsed"}
    BY <1>3 DEF ParseName, ParseFlag, ParseUnknown, ParseEnd, More, Return
  <2>2. LifeInv' /\ Empty("owned_vm", {"owned_vm"})' /\ tester_exit_code' = "0"
    BY <2>1, SameHandles DEF TesterHandles
  <2>. QED BY <2>1, <2>2 DEF TesterHandles
<1>4. CASE TesterLoad
  <2>1. Empty("owned_vm", {"owned_vm"}) /\ tester_exit_code = "0"
    BY <1>4 DEF TesterLoad, TesterHandles
  <2>2. CASE tester_pc' = "destroy_static" /\ UNCHANGED handleVars
    <3>1. LifeInv' /\ Holds("owned_vm", {"owned_vm"})'
      BY <2>1, <2>2, SameHandles DEF Empty
    <3>. QED BY <2>2, <3>1 DEF TesterHandles
  <2>3. CASE /\ tester_pc' = "wrap" /\ UNCHANGED tester_exit_code
             /\ \E instance \in Instance : qrvmc_create(instance)
    <3>1. LifeInv' /\ Raw({"owned_vm"}, TRUE)'
      BY <1>1, <2>1, <2>3, CreateRaw
    <3>. QED BY <2>1, <2>3, <3>1 DEF TesterHandles, Raw
  <2>4. CASE /\ tester_pc' = "wrap" /\ tester_exit_code' = "LoadingError"
             /\ UNCHANGED handleVars
    <3>1. LifeInv' /\ Raw({"owned_vm"}, FALSE)'
      BY <1>1, <2>1, <2>4, CreateFails
    <3>. QED BY <2>4, <3>1 DEF TesterHandles, Raw
  <2>. QED BY <1>4, <2>2, <2>3, <2>4 DEF TesterLoad
<1>5. CASE TesterWrap
  <2>1. /\ Raw({"owned_vm"}, tester_exit_code = "0") /\ tester_exit_code' = tester_exit_code
        /\ tester_pc' = IF tester_exit_code = "0" THEN "pass" ELSE "unwind"
    BY <1>5 DEF TesterWrap, TesterHandles
  <2>2. PICK x \in raw \cup {nullptr} :
          (x = nullptr <=> raw = {}) /\ VM_construct("vm", x)
    BY <1>5 DEF TesterWrap
  <2>3. (tester_exit_code = "0") \in BOOLEAN /\ {"owned_vm"} \cup {"vm"} = {"owned_vm", "vm"}
    OBVIOUS
  <2>4. /\ LifeInv' /\ Holds("vm", {"owned_vm", "vm"})'
        /\ tester_exit_code = "0" <=> m_instance'["vm"] # nullptr
    BY <1>1, <2>1, <2>2, <2>3, WrapRaw
  <2>5. CASE tester_exit_code = "0"
    <3>1. Loaded("vm", {"owned_vm", "vm"})'
      BY <2>4, <2>5 DEF Loaded
    <3>. QED BY <2>1, <2>4, <2>5, <3>1 DEF TesterHandles
  <2>6. CASE tester_exit_code # "0"
    <3>1. Holds("owned_vm", {"owned_vm", "vm"})'
      BY <1>1, <2>4, <2>6 DEF Holds
    <3>. QED BY <2>1, <2>4, <2>6, <3>1 DEF TesterHandles
  <2>. QED BY <2>5, <2>6
<1>6. CASE PassVM
  <2>1. /\ Loaded("vm", {"owned_vm", "vm"}) /\ VM_move_construct("_owned_vm", "vm")
        /\ tester_pc' = "set"
    BY <1>6 DEF PassVM, TesterHandles
  <2>2. LifeInv' /\ Loaded("_owned_vm", {"owned_vm", "vm"} \cup {"_owned_vm"})'
    BY <1>1, <2>1, MoveConstruct
  <2>3. {"owned_vm", "vm"} \cup {"_owned_vm"} = {"owned_vm", "vm", "_owned_vm"}
    OBVIOUS
  <2>4. Loaded("_owned_vm", {"owned_vm", "vm", "_owned_vm"})'
    BY <2>2, <2>3 DEF Loaded, Holds
  <2>. QED BY <2>1, <2>2, <2>4 DEF TesterHandles
<1>7. CASE SetVM
  <2>1. /\ Loaded("_owned_vm", {"owned_vm", "vm", "_owned_vm"})
        /\ VM_move_assign("owned_vm", "_owned_vm") /\ tester_pc' = "drop"
    BY <1>7 DEF SetVM, TesterHandles
  <2>2. /\ LifeInv' /\ Holds("owned_vm", {"owned_vm", "vm", "_owned_vm"})'
        /\ m_instance'["owned_vm"] = m_instance["_owned_vm"]
    BY <1>1, <2>1, MoveAssign DEF Loaded
  <2>3. Loaded("owned_vm", {"owned_vm", "vm", "_owned_vm"})'
    BY <2>1, <2>2 DEF Loaded
  <2>. QED BY <2>1, <2>2, <2>3 DEF TesterHandles
<1>8. CASE DropParameter
  <2>1. /\ Loaded("owned_vm", {"owned_vm", "vm", "_owned_vm"})
        /\ VM_destruct("_owned_vm") /\ tester_pc' = "test"
    BY <1>8 DEF DropParameter, TesterHandles
  <2>2. /\ LifeInv' /\ Holds("owned_vm", {"owned_vm", "vm", "_owned_vm"} \ {"_owned_vm"})'
        /\ m_instance'["owned_vm"] = m_instance["owned_vm"]
    BY <1>1, <2>1, DestructOther DEF Loaded
  <2>3. {"owned_vm", "vm", "_owned_vm"} \ {"_owned_vm"} = {"owned_vm", "vm"}
    OBVIOUS
  <2>4. Loaded("owned_vm", {"owned_vm", "vm"})'
    BY <2>1, <2>2, <2>3 DEF Loaded, Holds
  <2>. QED BY <2>1, <2>2, <2>4 DEF TesterHandles
<1>9. CASE RunTest \/ TestsDone
  <2>1. /\ UNCHANGED handleVars /\ Loaded("owned_vm", {"owned_vm", "vm"})
        /\ tester_pc' \in {"test", "unwind"}
    BY <1>9 DEF RunTest, TestsDone, TesterHandles
  <2>2. LifeInv' /\ Loaded("owned_vm", {"owned_vm", "vm"})'
    BY <2>1, SameHandles
  <2>3. Holds("owned_vm", {"owned_vm", "vm"})'
    BY <2>2 DEF Loaded
  <2>. QED BY <2>1, <2>2, <2>3 DEF TesterHandles
<1>10. CASE TesterUnwind
  <2>1. /\ Holds("owned_vm", {"owned_vm", "vm"}) /\ VM_destruct("vm")
        /\ tester_pc' = "destroy_static"
    BY <1>10 DEF TesterUnwind, TesterHandles
  <2>2. LifeInv' /\ Holds("owned_vm", {"owned_vm", "vm"} \ {"vm"})'
    BY <1>1, <2>1, DestructOther
  <2>3. {"owned_vm", "vm"} \ {"vm"} = {"owned_vm"}
    OBVIOUS
  <2>4. Holds("owned_vm", {"owned_vm"})'
    BY <2>2, <2>3 DEF Holds
  <2>. QED BY <2>1, <2>2, <2>4 DEF TesterHandles
<1>11. CASE DestroyStatic
  <2>1. Holds("owned_vm", {"owned_vm"}) /\ VM_destruct("owned_vm") /\ tester_pc' = "end"
    BY <1>11 DEF DestroyStatic, TesterHandles
  <2>2. LifeInv' /\ Empty("owned_vm", {"owned_vm"} \ {"owned_vm"})'
    BY <1>1, <2>1, DestructHolder
  <2>3. {"owned_vm"} \ {"owned_vm"} = {}
    OBVIOUS
  <2>4. Empty("owned_vm", {})'
    BY <2>2, <2>3 DEF Empty, Holds
  <2>. QED BY <2>1, <2>2, <2>4 DEF TesterHandles
<1>. QED
  BY <1>2, <1>3, <1>4, <1>5, <1>6, <1>7, <1>8, <1>9, <1>10, <1>11 DEF TesterStep

LEMMA HandleInvariant == Spec => []HandleInv
<1>1. Init => HandleInv
  <2>1. ASSUME HandleInit PROVE LifeInv /\ Empty("vm", {}) /\ Empty("owned_vm", {})
    <3>1. /\ m_instance \in [Handle -> Instance \cup {nullptr}]
          /\ destroyed \in [Instance -> Nat] /\ \A x \in Instance : destroyed[x] = 0
          /\ \A h \in Handle : m_instance[h] = nullptr
          /\ objects = {} /\ raw = {} /\ live = {} /\ unborn = Instance
      BY <2>1 DEF HandleInit
    <3>2. LifeInv
      BY <3>1 DEF LifeInv
    <3>3. "vm" \in Handle /\ "owned_vm" \in Handle
      BY ToolAssumption, TesterAssumption
    <3>. QED BY <3>1, <3>2, <3>3 DEF Empty, Holds
  <2>. QED BY <2>1 DEF Init, ToolInit, TesterInit, HandleInv, ToolHandles, TesterHandles
<1>2. HandleInv /\ [Next]_toolsVars => HandleInv'
  <2>. SUFFICES ASSUME HandleInv, [Next]_toolsVars PROVE HandleInv'
    OBVIOUS
  <2>1. CASE (ToolStep \/ ChangeFile) /\ UNCHANGED <<program, testerVars>>
    <3>1. pc # "absent"
      BY <2>1 DEF ToolStep, ChangeFile, Parse, Declare, Load, Wrap, Assign, DropTemporary,
                  Command, ReadCode, ReadInput, Create, Deploy, ExecuteOnce, Probe,
                  BenchIteration, BenchDone, Report, Unwind
    <3>2. LifeInv' /\ ToolHandles'
      BY <2>1, <3>1, ToolHandleStep DEF HandleInv
    <3>. QED BY <2>1, <3>1, <3>2 DEF HandleInv, testerVars
  <2>2. CASE TesterStep /\ UNCHANGED <<program, toolVars>>
    <3>1. tester_pc # "absent"
      BY <2>2 DEF TesterStep, StaticInit, ParseName, ParseFlag, ParseUnknown, ParseEnd, More,
                  TesterLoad, TesterWrap, PassVM, SetVM, DropParameter, RunTest, TestsDone,
                  TesterUnwind, DestroyStatic
    <3>2. LifeInv' /\ TesterHandles'
      BY <2>2, <3>1, TesterHandleStep DEF HandleInv
    <3>. QED BY <2>2, <3>1, <3>2 DEF HandleInv, toolVars
  <2>3. CASE UNCHANGED toolsVars
    <3>1. UNCHANGED <<handleVars, program, pc, tester_pc, exit_code, tester_exit_code, arguments>>
      BY <2>3 DEF toolsVars, toolVars, testerVars, input
    <3>2. /\ LifeInv'
          /\ \A h, alive : Holds(h, alive) => Holds(h, alive)'
          /\ \A h, alive : Loaded(h, alive) => Loaded(h, alive)'
          /\ \A h, alive : Empty(h, alive) => Empty(h, alive)'
          /\ \A alive, success : Raw(alive, success) => Raw(alive, success)'
          /\ UNCHANGED m_instance
      BY <3>1, SameHandles DEF HandleInv
    <3>3. ToolHandles => ToolHandles'
      BY <3>1, <3>2 DEF ToolHandles, Raw
    <3>4. TesterHandles => TesterHandles'
      BY <3>1, <3>2 DEF TesterHandles, Raw
    <3>. QED BY <3>1, <3>2, <3>3, <3>4 DEF HandleInv
  <2>. QED BY <2>1, <2>2, <2>3 DEF Next, Step
<1>. QED BY <1>1, <1>2, PTL DEF Spec

(* Whatever way a program takes, through loading errors, exceptions and    *)
(* moves between its handles, it uses a VM that is alive, and at its end   *)
(* none is left and none was destroyed twice.                              *)
THEOREM InstancesOutliveTheirUse == Spec => []InstanceAliveWhileUsed
<1>1. HandleInv => InstanceAliveWhileUsed
  <2>. SUFFICES ASSUME HandleInv PROVE InstanceAliveWhileUsed
    OBVIOUS
  <2>1. "vm" \in Handle /\ "owned_vm" \in Handle
    BY ToolAssumption, TesterAssumption
  <2>2. ASSUME NEW h \in Handle, NEW alive, Loaded(h, alive) PROVE m_instance[h] \in live
    BY <2>2 DEF Loaded, Holds
  <2>3. ASSUME NEW h \in Handle, NEW alive, Empty(h, alive) PROVE live = {}
    BY <2>3 DEF Empty, Holds
  <2>. QED
    BY <2>1, <2>2, <2>3 DEF HandleInv, ToolHandles, TesterHandles, LifeInv,
       InstanceAliveWhileUsed, ToolUsesLiveInstance, TesterUsesLiveInstance
<1>. QED BY <1>1, HandleInvariant, PTL

------------------------------------------------------------------------------
(* The exit code.                                                          *)
LEMMA ReportStep == ASSUME ReportInv, [Next]_toolsVars PROVE ReportInv'
<1>1. CASE Parse
  BY <1>1 DEF Parse, Leave, ReportInv, input
<1>2. CASE Command
  BY <1>2 DEF Command, Leave, ReportInv, input
<1>3. CASE DropTemporary
  BY <1>3 DEF DropTemporary, ReportInv
<1>4. CASE Declare \/ Load \/ Wrap \/ Assign
  BY <1>4 DEF Declare, Load, Wrap, Assign, Leave, ReportInv, input
<1>5. CASE ReadCode \/ ReadInput \/ Deploy \/ ExecuteOnce
  BY <1>5 DEF ReadCode, ReadInput, Deploy, ExecuteOnce, Leave, ReportInv, input
<1>6. CASE Create
  <2>1. PICK outcome \in Outcome :
          \/ outcome.status_code # "SUCCESS" /\ Leave(outcome.status_code, "unwind")
          \/ Leave("0", "deploy")
    BY <1>6 DEF Create
  <2>2. outcome.status_code # "0"
    BY DEF Outcome
  <2>. QED BY <1>6, <2>1, <2>2 DEF Create, Leave, ReportInv, input
<1>7. CASE Probe \/ BenchIteration \/ BenchDone
  BY <1>7 DEF Probe, BenchIteration, BenchDone, ReportInv, input
<1>8. CASE Report
  BY <1>8 DEF Report, Leave, ReportInv, input
<1>9. CASE Unwind \/ ChangeFile
  BY <1>9 DEF Unwind, ChangeFile, ReportInv, input
<1>10. CASE UNCHANGED toolVars
  BY <1>10 DEF toolVars, input, ReportInv
<1>11. UNCHANGED toolsVars => UNCHANGED toolVars
  BY DEF toolsVars
<1>. QED BY <1>1, <1>2, <1>3, <1>4, <1>5, <1>6, <1>7, <1>8, <1>9, <1>10, <1>11 DEF Next, Step, ToolStep

------------------------------------------------------------------------------
(* An execution adds its answer and keeps the earlier ones.                *)
LEMMA ExecuteAnswers ==
    ASSUME NEW message, NEW bytes, NEW outcome, Execute(message, bytes, outcome)
    PROVE  /\ <<message, bytes, world>> \in DOMAIN answers'
           /\ answers'[<<message, bytes, world>>] = outcome
           /\ \A q \in DOMAIN answers : q \in DOMAIN answers' /\ answers'[q] = answers[q]
           /\ <<message, bytes, world>> \in DOMAIN answers =>
                 outcome = answers[<<message, bytes, world>>]
           /\ world' = outcome.world
BY DEF Execute

LEMMA CodeStep == ASSUME HandleInv, CodeInv, [Next]_toolsVars PROVE CodeInv'
<1>. USE DEF Before
<1>1. CASE Parse
  BY <1>1 DEF Parse, Leave, HexOrFile, CodeInv, input, running
<1>2. CASE Declare \/ Load \/ Wrap \/ Assign \/ DropTemporary \/ Command
  BY <1>2 DEF Declare, Load, Wrap, Assign, DropTemporary, Command, Leave, CodeInv, input, running
<1>3. CASE ReadCode
  <2>1. /\ arguments.code \in {"hex", "@file"}
        /\ UNCHANGED <<arguments, world, exec_code>>
        /\ world = FreshWorld /\ exec_code = "code" /\ arguments.run
    BY <1>3 DEF ReadCode, CodeInv, running
  <2>2. CASE pc' = "unwind"
    BY <2>2 DEF CodeInv
  <2>3. CASE /\ pc' = "read_input" /\ code' = Read(arguments.code) /\ code' # "invalid"
             /\ unread' = (arguments.code = "@file" /\ file \in {"absent", "unreadable"})
    <3>1. code' = CodeAsRead'
      BY <2>1, <2>3 DEF Read, CodeAsRead
    <3>. QED BY <2>1, <2>3, <3>1 DEF CodeInv
  <2>. QED BY <1>3, <2>2, <2>3 DEF ReadCode, Leave
<1>4. CASE ReadInput
  <2>1. /\ UNCHANGED <<arguments, unread, code, world, answers, exec_code>>
        /\ world = FreshWorld /\ exec_code = "code" /\ code = CodeAsRead
    BY <1>4 DEF ReadInput, CodeInv, input
  <2>2. CASE pc' = "unwind"
    BY <2>2 DEF CodeInv
  <2>3. CASE /\ buffers' = [b \in {"code"} |-> code]
             /\ pc' = IF arguments.create THEN "create" ELSE "execute"
    <3>1. /\ exec_code' \in DOMAIN buffers' /\ buffers'[exec_code'] = code'
          /\ code' = CodeAsRead' /\ world' = FreshWorld /\ exec_code' = "code"
      BY <2>1, <2>3 DEF CodeAsRead
    <3>2. CASE arguments.create
      BY <2>1, <2>3, <3>1, <3>2 DEF CodeInv
    <3>3. CASE ~arguments.create
      BY <2>1, <2>3, <3>1, <3>3 DEF CodeInv
    <3>. QED BY <3>2, <3>3
  <2>. QED BY <1>4, <2>2, <2>3 DEF ReadInput, Leave
<1>5. CASE Create
  <2>1. /\ UNCHANGED <<arguments, unread, code, exec_code>> /\ arguments.create
        /\ world = FreshWorld /\ exec_code = "code" /\ code = CodeAsRead
        /\ buffers = [b \in {"code"} |-> code]
    BY <1>5 DEF Create, CodeInv, input
  <2>2. PICK outcome \in Outcome :
          /\ Execute("create", buffers[exec_code], outcome)
          /\ \/ pc' = "unwind"
             \/ /\ buffers' = [b \in DOMAIN buffers \cup {"create_result"} |->
                                  IF b = "create_result" THEN outcome.output ELSE buffers[b]]
                /\ pc' = "deploy"
    BY <1>5 DEF Create, Leave
  <2>3. Created \in DOMAIN answers' /\ answers'[Created] = outcome
    BY <2>1, <2>2, ExecuteAnswers DEF Created
  <2>. QED BY <2>1, <2>2, <2>3 DEF CodeInv, CodeAsRead, Created
<1>6. CASE Deploy
  <2>1. /\ UNCHANGED <<arguments, unread, code, answers>> /\ arguments.create
        /\ code = CodeAsRead /\ Created \in DOMAIN answers
        /\ buffers["create_result"] = answers[Created].output
        /\ pc' = "execute" /\ exec_code' = "created_account.code"
        /\ buffers' = [b \in {"code", "created_account.code"} |->
                          IF b = "code" THEN buffers[b] ELSE buffers["create_result"]]
    BY <1>6 DEF Deploy, CodeInv, input
  <2>. QED BY <2>1 DEF CodeInv, CodeAsRead, Created
<1>7. ASSUME UNCHANGED <<arguments, unread, code, exec_code, buffers>>,
             \E message, bytes, outcome : Execute(message, bytes, outcome),
             pc \in {"execute", "probe", "loop"},
             pc' \in {"probe", "loop", "report", "undefined"}
      PROVE  CodeInv'
  <2>1. \A q \in DOMAIN answers : q \in DOMAIN answers' /\ answers'[q] = answers[q]
    BY <1>7, ExecuteAnswers
  <2>. QED BY <1>7, <2>1 DEF CodeInv, CodeAsRead, Created
<1>8. CASE ExecuteOnce \/ Probe \/ BenchIteration
  BY <1>7, <1>8 DEF ExecuteOnce, Probe, BenchIteration, input
<1>9. CASE BenchDone \/ Report \/ Unwind
  <2>1. pc' \in {"undefined", "report", "unwind", "end"}
    BY <1>9 DEF BenchDone, Report, Unwind, Leave
  <2>. QED BY <2>1 DEF CodeInv
<1>10. CASE UNCHANGED <<pc, input, running>>
  BY <1>10 DEF CodeInv, CodeAsRead, Created, input, running
<1>11. ChangeFile \/ UNCHANGED toolVars \/ UNCHANGED toolsVars => UNCHANGED <<pc, input, running>>
  BY DEF ChangeFile, toolVars, toolsVars
<1>. QED
  BY <1>1, <1>2, <1>3, <1>4, <1>5, <1>6, <1>8, <1>9, <1>10, <1>11 DEF Next, Step, ToolStep

LEMMA CodeInvariant == Spec => []CodeInv
<1>1. Init => CodeInv
  BY DEF Init, ToolInit, TesterInit, CodeInv, Before
<1>. QED BY <1>1, CodeStep, HandleInvariant, PTL DEF Spec

(* The bytes executed are those of the argument, those of the file at the  *)
(* time it was read, or the output of the creation that the tool ran on    *)
(* them, and the buffer they are in exists.                                *)
THEOREM GivenCodeIsExecuted == Spec => []ExecutesWhatWasGiven
<1>1. CodeInv => ExecutesWhatWasGiven
  BY DEF CodeInv, ExecutesWhatWasGiven, CodeAsRead, Created
<1>. QED BY <1>1, CodeInvariant, PTL

------------------------------------------------------------------------------
(* The answers that stay, and the iterations that are counted.             *)
LEMMA DoneStep == ASSUME CodeInv, ReportInv, DoneInv, [Next]_toolsVars PROVE DoneInv'
<1>. USE DEF Before
<1>1. ASSUME UNCHANGED <<arguments, code, unread, answers, result, before>>
      PROVE  /\ CreatedWell => CreatedWell'
             /\ CalledWell => CalledWell'
             /\ code = CodeAsRead => code' = CodeAsRead'
  BY <1>1 DEF CreatedWell, CalledWell, Called, Created, CodeAsRead
<1>2. ASSUME NEW message, NEW bytes, NEW outcome, Execute(message, bytes, outcome),
             UNCHANGED <<arguments, code, unread>>
      PROVE  /\ CreatedWell => CreatedWell'
             /\ CreatedWell /\ CalledWell /\ UNCHANGED <<result, before>> => CalledWell'
             /\ code = CodeAsRead => code' = CodeAsRead'
  <2>1. \A q \in DOMAIN answers : q \in DOMAIN answers' /\ answers'[q] = answers[q]
    BY <1>2, ExecuteAnswers
  <2>2. Created' = Created /\ (CreatedWell => CreatedWell')
    BY <1>2, <2>1 DEF CreatedWell, Created
  <2>3. CreatedWell /\ UNCHANGED before => Called' = Called
    BY <1>2, <2>1, <2>2 DEF Called, CreatedWell
  <2>4. CreatedWell /\ CalledWell /\ UNCHANGED <<result, before>> => CalledWell'
    BY <2>1, <2>3 DEF CalledWell
  <2>. QED BY <1>2, <2>2, <2>4 DEF CodeAsRead
<1>3. CASE Parse \/ Declare \/ Load \/ Wrap \/ Assign \/ DropTemporary \/ Command
  <2>1. /\ pc \in Before /\ UNCHANGED <<reported, iterations>>
        /\ pc' \in Before \cup {"unwind", "end"}
    BY <1>3 DEF Parse, Declare, Load, Wrap, Assign, DropTemporary, Command, Leave, bench
  <2>2. ~reported
    BY <2>1 DEF ReportInv
  <2>. QED BY <2>1, <2>2 DEF DoneInv
<1>4. CASE ReadCode \/ ReadInput
  <2>1. /\ pc \in {"read_code", "read_input"} /\ UNCHANGED <<reported, iterations>>
        /\ pc' \in {"unwind", "read_input", "create", "execute"}
        /\ pc' = "execute" => ~arguments'.create
    BY <1>4 DEF ReadCode, ReadInput, Leave, bench, input
  <2>2. ~reported
    BY <2>1 DEF ReportInv
  <2>. QED BY <2>1, <2>2 DEF DoneInv, CreatedWell
<1>5. CASE Create
  <2>1. /\ pc = "create" /\ UNCHANGED <<reported, iterations, arguments, code>> /\ ~reported
        /\ world = FreshWorld /\ buffers[exec_code] = code
    BY <1>5 DEF Create, bench, input, CodeInv, ReportInv
  <2>2. PICK outcome \in Outcome :
          /\ Execute("create", buffers[exec_code], outcome)
          /\ \/ pc' = "unwind"
             \/ outcome.status_code = "SUCCESS" /\ pc' = "deploy"
    BY <1>5 DEF Create, Leave
  <2>3. Created' \in DOMAIN answers' /\ answers'[Created'] = outcome
    BY <2>1, <2>2, ExecuteAnswers DEF Created
  <2>. QED BY <2>1, <2>2, <2>3 DEF DoneInv, CreatedWell
<1>6. CASE Deploy
  <2>1. /\ pc = "deploy" /\ pc' = "execute" /\ ~reported
        /\ UNCHANGED <<reported, iterations, arguments, code, unread, answers, result, before>>
    BY <1>6 DEF Deploy, bench, input, ReportInv
  <2>. QED BY <1>1, <2>1 DEF DoneInv
<1>7. CASE ExecuteOnce
  <2>1. /\ pc = "execute" /\ pc' = (IF arguments.bench THEN "probe" ELSE "report") /\ ~reported
        /\ UNCHANGED <<reported, iterations, arguments, code, unread>>
        /\ CreatedWell /\ code = CodeAsRead /\ iterations = 0
    BY <1>7 DEF ExecuteOnce, bench, input, ReportInv, DoneInv, CodeInv
  <2>2. PICK outcome \in Outcome :
          /\ Execute("call", buffers[exec_code], outcome)
          /\ result' = ResultOf(outcome)
          /\ before' = <<world, outcome.world>>
    BY <1>7 DEF ExecuteOnce
  <2>3. CreatedWell' /\ code' = CodeAsRead'
    BY <1>2, <2>1, <2>2
  <2>4. buffers[exec_code] = IF arguments.create THEN answers[Created].output ELSE code
    BY <1>7 DEF ExecuteOnce, CodeInv
  <2>5. arguments.create => Created' = Created /\ answers'[Created] = answers[Created]
    BY <2>1, <2>2, ExecuteAnswers DEF CreatedWell, Created
  <2>6. Called' = <<"call", buffers[exec_code], world>>
    BY <2>1, <2>2, <2>4, <2>5 DEF Called
  <2>7. CalledWell'
    BY <2>2, <2>6, ExecuteAnswers DEF CalledWell, ResultOf
  <2>. QED BY <2>1, <2>3, <2>7 DEF DoneInv
<1>8. CASE Probe
  <2>1. /\ pc = "probe" /\ ~reported
        /\ UNCHANGED <<reported, iterations, arguments, code, unread, result, before>>
        /\ CreatedWell /\ CalledWell /\ code = CodeAsRead /\ iterations = 0
    BY <1>8 DEF Probe, input, ReportInv, DoneInv
  <2>2. PICK outcome \in Outcome, time \in 0..MaxTicks :
          /\ Execute("call", buffers[exec_code], outcome)
          /\ IF time = 0 THEN pc' = "undefined"
                         ELSE num_iterations' = Iterations(time) /\ pc' = "loop"
    BY <1>8 DEF Probe
  <2>3. CreatedWell' /\ CalledWell' /\ code' = CodeAsRead'
    BY <1>2, <2>1, <2>2
  <2>4. ASSUME time # 0 PROVE Iterations(time) \in Nat \ {0}
    <3>1. TargetBenchTime \in Nat /\ time \in Nat \ {0}
      <4>1. TargetBenchTime \in Nat \ {0} /\ MaxTicks \in Nat
        BY ToolAssumption, Zenon
      <4>. QED BY <2>4, <4>1
    <3>2. ASSUME NEW x \in Nat, NEW y \in Nat \ {0} PROVE x \div y \in Int
      OBVIOUS
    <3>3. TargetBenchTime \div time \in Int
      BY <3>1, <3>2
    <3>. QED BY <3>3 DEF Iterations
  <2>. QED BY <2>1, <2>2, <2>3, <2>4 DEF DoneInv
<1>9. CASE BenchIteration
  <2>1. /\ pc = "loop" /\ ~reported /\ iterations < num_iterations /\ iterations' = iterations + 1
        /\ UNCHANGED <<pc, reported, num_iterations, arguments, code, unread, result, before>>
        /\ CreatedWell /\ CalledWell /\ code = CodeAsRead
        /\ num_iterations \in Nat \ {0} /\ iterations \in 0..num_iterations
    BY <1>9 DEF BenchIteration, input, ReportInv, DoneInv
  <2>2. PICK outcome \in Outcome : Execute("call", buffers[exec_code], outcome)
    BY <1>9 DEF BenchIteration
  <2>3. CreatedWell' /\ CalledWell' /\ code' = CodeAsRead'
    BY <1>2, <2>1, <2>2
  <2>4. iterations' \in 0..num_iterations
    BY <2>1
  <2>. QED BY <2>1, <2>3, <2>4 DEF DoneInv
<1>10. CASE BenchDone
  <2>1. /\ pc = "loop" /\ ~reported /\ ~(iterations < num_iterations)
        /\ pc' \in {"undefined", "report"}
        /\ UNCHANGED <<reported, iterations, num_iterations, arguments, code, unread, answers,
                       result, before>>
        /\ CreatedWell /\ CalledWell /\ code = CodeAsRead
        /\ num_iterations \in Nat \ {0} /\ iterations \in 0..num_iterations
    BY <1>10 DEF BenchDone, input, running, bench, ReportInv, DoneInv
  <2>2. iterations = num_iterations /\ num_iterations > 0
    BY <2>1
  <2>. QED BY <1>1, <2>1, <2>2 DEF DoneInv
<1>11. CASE Report
  <2>1. /\ pc = "report" /\ pc' = "unwind"
        /\ UNCHANGED <<iterations, num_iterations, arguments, code, unread, answers, result, before>>
    BY <1>11 DEF Report, Leave, input, running, bench
  <2>. QED BY <1>1, <2>1 DEF DoneInv
<1>12. CASE Unwind
  <2>1. /\ pc' = "end"
        /\ UNCHANGED <<reported, iterations, num_iterations, arguments, code, unread, answers,
                       result, before>>
    BY <1>12 DEF Unwind, input, running, bench
  <2>. QED BY <1>1, <2>1 DEF DoneInv
<1>13. CASE UNCHANGED <<pc, input, running, bench, reported>>
  BY <1>1, <1>13 DEF DoneInv, input, running, bench
<1>14. ChangeFile \/ UNCHANGED toolVars \/ UNCHANGED toolsVars =>
          UNCHANGED <<pc, input, running, bench, reported>>
  BY DEF ChangeFile, toolVars, toolsVars
<1>. QED
  BY <1>3, <1>4, <1>5, <1>6, <1>7, <1>8, <1>9, <1>10, <1>11, <1>12, <1>13, <1>14
     DEF Next, Step, ToolStep

(* Exit code 0 of the run command means that the code given, or the one it *)
(* created, was executed and the VM's answer to it written, after all the  *)
(* iterations of a benchmark; empty code stands for a file that could not  *)
(* be read.  Any other exit code means that nothing was written.           *)
THEOREM ExitCodeIsTrue == Spec => []ExitCodeTells
<1>1. Init => ReportInv /\ DoneInv
  BY DEF Init, ToolInit, TesterInit, ReportInv, DoneInv, Before
<1>2. ReportInv /\ DoneInv => ExitCodeTells
  <2>. SUFFICES ASSUME ReportInv, DoneInv PROVE ExitCodeTells
    OBVIOUS
  <2>1. reported => RunDone /\ code = CodeAsRead
    BY DEF DoneInv, RunDone, CreatedWell, CalledWell, Called, Created
  <2>. QED BY <2>1 DEF ReportInv, ExitCodeTells
<1>. QED BY <1>1, <1>2, CodeInvariant, ReportStep, DoneStep, PTL DEF Spec

------------------------------------------------------------------------------
(* The warning: an execution that changed nothing is answered like its     *)
(* first time.                                                             *)
LEMMA WarningStep == ASSUME WarningInv, [Next]_toolsVars PROVE WarningInv'
<1>. DEFINE Pre == Before \cup {"read_input", "create", "deploy", "execute", "probe"}
<1>1. ASSUME UNCHANGED <<warned, before>>, pc' \notin Pre
      PROVE  WarningInv'
  BY <1>1 DEF WarningInv, WarningIsJustified, Before
<1>2. ASSUME UNCHANGED <<warned, before>>, pc \in Pre, pc' # "probe"
      PROVE  WarningInv'
  BY <1>2 DEF WarningInv, WarningIsJustified, Before
<1>3. CASE Parse \/ Declare \/ Load \/ Wrap \/ Assign \/ DropTemporary \/ Command
  <2>1. UNCHANGED <<warned, before>> /\ pc \in Pre /\ pc' # "probe"
    BY <1>3 DEF Parse, Declare, Load, Wrap, Assign, DropTemporary, Command, Leave, Before,
       running, bench
  <2>. QED BY <1>2, <2>1
<1>4. CASE ReadCode \/ ReadInput \/ Create \/ Deploy
  <2>1. UNCHANGED <<warned, before>> /\ pc \in Pre /\ pc' # "probe"
    BY <1>4 DEF ReadCode, ReadInput, Create, Deploy, Leave, Before, running, bench
  <2>. QED BY <1>2, <2>1
<1>5. CASE ExecuteOnce
  <2>1. PICK outcome \in Outcome :
          /\ Execute("call", buffers[exec_code], outcome)
          /\ result' = ResultOf(outcome)
          /\ before' = <<world, outcome.world>>
    BY <1>5 DEF ExecuteOnce
  <2>2. warned' = warned /\ ~warned /\ UNCHANGED <<buffers, exec_code>>
    BY <1>5 DEF ExecuteOnce, WarningInv, bench
  <2>3. Executed' = <<"call", buffers[exec_code], world>>
    BY <2>1, <2>2 DEF Executed
  <2>4. world' = before'[2] /\ Executed' \in DOMAIN answers' /\ answers'[Executed'] = outcome
    BY <2>1, <2>3, ExecuteAnswers
  <2>. QED BY <2>1, <2>2, <2>4 DEF WarningInv, WarningIsJustified, ResultOf
<1>6. CASE Probe
  <2>1. PICK outcome \in Outcome :
          /\ Execute("call", buffers[exec_code], outcome)
          /\ warned' = (outcome.gas_left # result.gas_left \/ outcome.output # result.output)
    BY <1>6 DEF Probe
  <2>2. /\ world = before[2] /\ Executed \in DOMAIN answers
        /\ result = ResultOf(answers[Executed])
        /\ UNCHANGED before /\ pc' \in {"undefined", "loop"}
    BY <1>6 DEF Probe, WarningInv
  <2>3. ASSUME before[1] = before[2] PROVE warned' = FALSE
    <3>1. <<"call", buffers[exec_code], world>> = Executed
      BY <2>2, <2>3 DEF Executed
    <3>2. outcome = answers[Executed]
      BY <2>1, <2>2, <3>1, ExecuteAnswers
    <3>3. outcome.gas_left = result.gas_left /\ outcome.output = result.output
      BY <2>2, <3>2 DEF ResultOf
    <3>. QED BY <2>1, <3>3
  <2>4. warned' \in BOOLEAN
    BY <2>1
  <2>. QED BY <2>2, <2>3, <2>4 DEF WarningInv, WarningIsJustified, Before
<1>7. CASE BenchIteration \/ BenchDone \/ Report \/ Unwind
  <2>1. UNCHANGED <<warned, before>> /\ pc' \notin Pre
    BY <1>7 DEF BenchIteration, BenchDone, Report, Unwind, Leave, Before, running, bench
  <2>. QED BY <1>1, <2>1
<1>8. CASE UNCHANGED <<pc, running, bench>>
  BY <1>8 DEF running, bench, WarningInv, WarningIsJustified, Executed, ResultOf
<1>9. ChangeFile \/ UNCHANGED toolVars \/ UNCHANGED toolsVars => UNCHANGED <<pc, running, bench>>
  BY DEF ChangeFile, toolVars, toolsVars
<1>. QED BY <1>3, <1>4, <1>5, <1>6, <1>7, <1>8, <1>9 DEF Next, Step, ToolStep

(* The benchmark blames the VM for an inconsistent result only when the    *)
(* execution before it had changed the Host.                               *)
THEOREM WarningsAreJustified == Spec => []WarningIsJustified
<1>1. Init => WarningInv
  BY DEF Init, ToolInit, TesterInit, WarningInv, WarningIsJustified, Before
<1>2. WarningInv => WarningIsJustified
  BY DEF WarningInv
<1>. QED BY <1>1, <1>2, WarningStep, PTL DEF Spec

------------------------------------------------------------------------------
(* The arguments of the tester: what the parser has counted so far.        *)
Names == {k \in DOMAIN argv : argv[k] = "name"}

LEMMA NamesAreFinite ==
    ASSUME argv \in Seq(STRING), NEW n \in 1..Len(argv) + 1
    PROVE  /\ IsFiniteSet(NamesBefore(n)) /\ Cardinality(NamesBefore(n)) \in Nat
           /\ IsFiniteSet(Names) /\ Cardinality(Names) \in Nat
           /\ Cardinality(NamesBefore(n)) <= Cardinality(Names)
           /\ n = Len(argv) + 1 => NamesBefore(n) = Names
<1>1. IsFiniteSet(1..Len(argv))
  BY FS_Interval
<1>2. NamesBefore(n) \subseteq Names /\ Names \subseteq 1..Len(argv)
  BY DEF NamesBefore, Names
<1>3. n = Len(argv) + 1 => NamesBefore(n) = Names
  BY DEF NamesBefore, Names
<1>4. IsFiniteSet(Names)
  BY <1>1, <1>2, FS_Subset
<1>. QED BY <1>2, <1>3, <1>4, FS_Subset, FS_CardinalityType

LEMMA OneMoreName ==
    ASSUME argv \in Seq(STRING), NEW n \in 1..Len(argv)
    PROVE  /\ argv[n] = "name" =>
                 Cardinality(NamesBefore(n + 1)) = Cardinality(NamesBefore(n)) + 1
           /\ argv[n] # "name" => NamesBefore(n + 1) = NamesBefore(n)
<1>1. argv[n] = "name" => NamesBefore(n + 1) = NamesBefore(n) \cup {n}
  BY DEF NamesBefore
<1>2. n \notin NamesBefore(n)
  BY DEF NamesBefore
<1>3. argv[n] # "name" => NamesBefore(n + 1) = NamesBefore(n)
  BY DEF NamesBefore
<1>4. IsFiniteSet(NamesBefore(n))
  BY NamesAreFinite
<1>. QED BY <1>1, <1>2, <1>3, <1>4, FS_AddElement

LEMMA ParserStep == ASSUME ParserInv, [Next]_toolsVars PROVE ParserInv'
<1>. USE TesterAssumption
<1>. DEFINE Unknown == \E k \in DOMAIN argv : argv[k] \notin {"name", "version", "help"}
            Ends == \E k \in DOMAIN argv : argv[k] \in {"version", "help"}
            Error == \/ Unknown
                     \/ Cardinality(Names) > Len(arguments_names)
                     \/ ~Ends /\ Cardinality(Names) < Len(arguments_names)
<1>1. ASSUME UNCHANGED argv, tester_pc' = "parsed",
             parsed' < 0 <=> Error,
             parsed' = 0 <=> ~Error /\ Ends,
             parsed' > 0 => Len(names') = Len(arguments_names)
      PROVE  ParserInv'
  BY <1>1 DEF ParserInv, ParseAsDocumented, Names
<1>2. ASSUME More
      PROVE  /\ i \in 1..Len(argv) /\ i \in DOMAIN argv /\ i \in 1..Len(argv) + 1
             /\ tester_pc = "parse" /\ argv \in Seq(STRING)
             /\ i + 1 \in 1..Len(argv) + 1
             /\ Len(names) = Cardinality(NamesBefore(i))
             /\ \A k \in 1..i + 1 - 1 : k \in 1..i - 1 \/ k = i
  BY <1>2 DEF More, ParserInv
<1>3. CASE StaticInit
  BY <1>3 DEF StaticInit, ParserInv, ParseAsDocumented, NamesBefore, parser
<1>4. CASE ParseName
  <2>1. More /\ argv[i] = "name"
    BY <1>4 DEF ParseName
  <2>2. Cardinality(NamesBefore(i + 1)) = Len(names) + 1
    BY <1>2, <2>1, OneMoreName
  <2>3. CASE Len(names) + 1 > Len(arguments_names) /\ Return(-1) /\ UNCHANGED <<names, i>>
    <3>1. Cardinality(NamesBefore(i + 1)) <= Cardinality(Names) /\ Cardinality(Names) \in Nat
      BY <1>2, <2>1, NamesAreFinite
    <3>2. Len(names) \in Nat /\ Len(arguments_names) \in Nat
      BY <1>2, <2>1 DEF ParserInv
    <3>3. Error
      BY <2>2, <2>3, <3>1, <3>2
    <3>. QED BY <1>1, <1>4, <2>3, <3>3 DEF Return, ParseName
  <2>4. CASE /\ ~(Len(names) + 1 > Len(arguments_names))
             /\ names' = Append(names, i) /\ i' = i + 1 /\ UNCHANGED <<parsed, tester_pc>>
    <3>1. names' \in Seq(Nat) /\ Len(names') = Len(names) + 1 /\ Len(names') <= Len(arguments_names)
      BY <1>2, <2>1, <2>4 DEF ParserInv
    <3>2. NamesBefore(i)' = NamesBefore(i + 1)
      BY <1>4, <2>4 DEF ParseName, NamesBefore
    <3>. QED BY <1>2, <1>4, <2>1, <2>2, <2>4, <3>1, <3>2 DEF ParserInv, ParseAsDocumented, ParseName
  <2>. QED BY <1>4, <2>3, <2>4 DEF ParseName
<1>5. CASE ParseFlag
  <2>1. /\ More /\ argv[i] \in {"version", "help"}
        /\ i' = i + 1 /\ UNCHANGED <<argv, names, tester_pc, parsed>>
        /\ help' = (help \/ argv[i] = "help")
        /\ version' = (version \/ argv[i] = "version")
    BY <1>5 DEF ParseFlag
  <2>2. NamesBefore(i)' = NamesBefore(i)
    <3>1. NamesBefore(i + 1) = NamesBefore(i)
      BY <1>2, <2>1, OneMoreName
    <3>. QED BY <2>1, <3>1 DEF NamesBefore
  <2>3. help' \in BOOLEAN /\ version' \in BOOLEAN /\ (help' \/ version')
    BY <2>1
  <2>. QED BY <1>2, <2>1, <2>2, <2>3 DEF ParserInv, ParseAsDocumented
<1>6. CASE ParseUnknown
  <2>1. Unknown
    BY <1>2, <1>6 DEF ParseUnknown
  <2>. QED BY <1>1, <1>6, <2>1 DEF ParseUnknown, Return
<1>7. CASE ParseEnd
  <2>1. /\ tester_pc = "parse" /\ i = Len(argv) + 1 /\ UNCHANGED <<argv, names>>
        /\ Len(names) \in Nat /\ Len(arguments_names) \in Nat
        /\ Len(names) <= Len(arguments_names)
    BY <1>7 DEF ParseEnd, More, ParserInv
  <2>2. i \in 1..Len(argv) + 1
    BY <2>1 DEF ParserInv
  <2>3. Len(names) = Cardinality(Names)
    BY <2>1, <2>2, NamesAreFinite DEF ParserInv
  <2>4. 1..i - 1 = DOMAIN argv
    BY <2>1 DEF ParserInv
  <2>5. ~Unknown /\ (help \/ version <=> Ends)
    BY <2>1, <2>4 DEF ParserInv
  <2>6. Error <=> ~Ends /\ Len(names) < Len(arguments_names)
    BY <2>1, <2>3, <2>5
  <2>7. CASE (help \/ version) /\ Return(0)
    BY <1>1, <2>1, <2>5, <2>6, <2>7 DEF Return
  <2>8. CASE ~help /\ ~version /\ Len(names) < Len(arguments_names) /\ Return(-1)
    BY <1>1, <2>1, <2>5, <2>6, <2>8 DEF Return
  <2>9. CASE ~help /\ ~version /\ ~(Len(names) < Len(arguments_names)) /\ Return(1)
    BY <1>1, <2>1, <2>5, <2>6, <2>9 DEF Return
  <2>. QED BY <1>7, <2>7, <2>8, <2>9 DEF ParseEnd
<1>8. ASSUME UNCHANGED <<argv, parser>>, tester_pc \notin {"absent", "static", "parse"},
             tester_pc' \notin {"static", "parse"}
      PROVE  ParserInv'
  BY <1>8 DEF ParserInv, ParseAsDocumented, parser
<1>9. CASE TesterLoad \/ TesterWrap \/ PassVM \/ SetVM \/ DropParameter
           \/ RunTest \/ TestsDone \/ TesterUnwind \/ DestroyStatic
  <2>1. /\ UNCHANGED <<argv, parser>> /\ tester_pc \notin {"absent", "static", "parse"}
        /\ tester_pc' \notin {"static", "parse"}
    BY <1>9 DEF TesterLoad, TesterWrap, PassVM, SetVM, DropParameter, RunTest, TestsDone,
       TesterUnwind, DestroyStatic
  <2>. QED BY <1>8, <2>1
<1>10. CASE UNCHANGED testerVars
  BY <1>10 DEF ParserInv, ParseAsDocumented, NamesBefore, testerVars, parser
<1>11. UNCHANGED toolsVars => UNCHANGED testerVars
  BY DEF toolsVars
<1>. QED
  BY <1>3, <1>4, <1>5, <1>6, <1>7, <1>9, <1>10, <1>11 DEF Next, Step, TesterStep

(* cli_parser::parse() returns what its comment says, for every list of    *)
(* arguments and any number of arguments it requires.                      *)
THEOREM ParserAsDocumented == Spec => []ParseAsDocumented
<1>1. Init => ParserInv
  <2>. SUFFICES ASSUME Init PROVE ParserInv
    OBVIOUS
  <2>1. /\ i = 1 /\ names = << >> /\ help = FALSE /\ version = FALSE
        /\ argv \in ArgumentList \/ argv = << >>
        /\ tester_pc = "static" \/ tester_pc = "absent"
    BY DEF Init, TesterInit
  <2>2. argv \in Seq(STRING) /\ arguments_names \in Seq(STRING)
    <3>1. ArgumentList \subseteq Seq(STRING) /\ arguments_names \in Seq(STRING)
      BY TesterAssumption
    <3>2. << >> \in Seq(STRING)
      OBVIOUS
    <3>. QED BY <2>1, <3>1, <3>2
  <2>3. NamesBefore(i) = {} /\ Cardinality({}) = 0
    BY <2>1, FS_EmptySet DEF NamesBefore
  <2>4. names \in Seq(Nat) /\ Len(names) = 0 /\ Len(arguments_names) \in Nat /\ Len(argv) \in Nat
    BY <2>1, <2>2
  <2>5. Len(names) = Cardinality(NamesBefore(i))
    BY <2>3, <2>4
  <2>6. i \in 1..Len(argv) + 1 /\ \A k \in 1..i - 1 : FALSE
    BY <2>1, <2>4
  <2>7. help \/ version <=> \E k \in 1..i - 1 : argv[k] \in {"version", "help"}
    BY <2>1, <2>6
  <2>8. tester_pc \in {"absent", "static", "parse"}
    BY <2>1
  <2>9. ParseAsDocumented
    BY <2>8 DEF ParseAsDocumented
  <2>10. ~help /\ ~version /\ help \in BOOLEAN /\ version \in BOOLEAN
    BY <2>1
  <2>. QED BY <2>1, <2>2, <2>4, <2>5, <2>6, <2>7, <2>9, <2>10 DEF ParserInv
<1>2. ParserInv => ParseAsDocumented
  BY DEF ParserInv
<1>. QED BY <1>1, <1>2, ParserStep, PTL DEF Spec
==============================================================================
