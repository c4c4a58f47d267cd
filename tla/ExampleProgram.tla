---------------------------- MODULE ExampleProgram ----------------------------
(***************************************************************************)
(* The example client (examples/example.c): main() gets a VM from the      *)
(* loader, or, when it is linked with the example VM, from its create      *)
(* function; it makes an example Host, executes one code with both, prints *)
(* the result and a storage slot, and releases everything.  The VM and the *)
(* loader are external: the VM calls the Host at most MaxHostCalls times   *)
(* and returns any result, with an output it allocated or without.         *)
(*                                                                         *)
(* A second kind of client, with client = "other", makes an ExampleHost    *)
(* with accounts of its own and lets a VM call it for ever.                *)
(***************************************************************************)
EXTENDS ExampleHost

CONSTANTS
    Recipient,     \* msg.recipient
    StorageKey,    \* the slot printed
    MaxHostCalls   \* bound of the model on the calls of an execution

ASSUME ProgramAssumption == Recipient \in Addr /\ StorageKey \in Key /\ MaxHostCalls \in Nat

Lifetime == {"none", "alive", "gone"}
Failures == {"CANNOT_OPEN", "ABI_VERSION_MISMATCH"}

VARIABLES
    client,     \* "loader" or "static": how main() gets the VM; or "other"
    pc,
    vm, ctx,    \* the VM instance and the Host, as Lifetime
    output,     \* the output of the result: "none" when there is none
    status_code,
    host_calls, \* how often this execution called the Host
    written,    \* history: the value the VM last wrote to the slot printed
    printed,    \* what was printed of the slot, << >> for nothing
    exit_code   \* 0, or the failure it stands for

mainVars == <<client, pc, vm, ctx, output, status_code, host_calls, written, printed, exit_code>>
programVars == <<mainVars, hostVars>>

Init ==
    /\ \/ /\ client \in {"loader", "static"}
          /\ pc = "load" /\ ctx = "none"
          /\ HostInit(NoMap)
       \/ /\ client = "other"
          /\ pc = "execute" /\ ctx = "alive"
          /\ \E a \in Addr, balance \in Balance, code \in Code :
                HostInit([b \in {a} |-> [balance |-> balance, code |-> code, storage |-> NoMap]])
    /\ vm = IF client = "other" THEN "alive" ELSE "none"
    /\ output = "none"
    /\ status_code = "SUCCESS"
    /\ host_calls = 0
    /\ written = bytes32_0
    /\ printed = << >>
    /\ exit_code = "0"

(* The loader returns an instance, or destroys it and returns an error;    *)
(* the static variant returns with an incompatible instance.               *)
Load ==
    /\ pc = "load"
    /\ \/ /\ vm' = "alive"
          /\ pc' = "create_context"
          /\ UNCHANGED exit_code
       \/ \E failure \in Failures :
             /\ vm' = IF client = "static" /\ failure = "ABI_VERSION_MISMATCH" THEN "alive" ELSE vm
             /\ exit_code' = failure
             /\ pc' = "done"
    /\ UNCHANGED <<client, ctx, output, status_code, host_calls, written, printed, hostVars>>

(* example_host_create_context()                                           *)
CreateContext ==
    /\ pc = "create_context"
    /\ ctx' = "alive"
    /\ pc' = "execute"
    /\ UNCHANGED <<client, vm, output, status_code, host_calls, written, printed, exit_code, hostVars>>

(* A call of the Host during qrvmc_execute().                              *)
VMCallsHost ==
    /\ pc = "execute"
    /\ client # "other" => host_calls < MaxHostCalls
    /\ host_calls' = IF client = "other" THEN 0 ELSE host_calls + 1
    /\ HostCall
    /\ written' = IF answer'.method = "set_storage" /\ answer'.arguments[1] = Recipient
                     /\ answer'.arguments[2] = StorageKey
                  THEN answer'.arguments[3] ELSE written
    /\ UNCHANGED <<client, pc, vm, ctx, output, status_code, printed, exit_code>>

VMTakesAnswer ==
    /\ pc = "execute"
    /\ TakeAnswer
    /\ UNCHANGED mainVars

VMReturns ==
    /\ pc = "execute" /\ client # "other"
    /\ answer = NoAnswer
    /\ status_code' \in {"SUCCESS", "REVERT", "FAILURE"}
    /\ output' \in {"none", "alive"}
    /\ pc' = "print"
    /\ UNCHANGED <<client, vm, ctx, host_calls, written, printed, exit_code, hostVars>>

(* The slot is read through the interface.                                 *)
PrintResult ==
    /\ pc = "print"
    /\ \/ /\ status_code # "SUCCESS"
          /\ exit_code' = status_code
          /\ UNCHANGED <<printed, hostVars>>
       \/ /\ status_code = "SUCCESS"
          /\ AskStorage(Recipient, StorageKey)
          /\ printed' = get_storage(Recipient, StorageKey)
          /\ UNCHANGED exit_code
    /\ pc' = "release"
    /\ UNCHANGED <<client, vm, ctx, output, status_code, host_calls, written>>

(* Mistake: the result is not released when the execution failed.          *)
ReleaseOnSuccess ==
    /\ pc = "release"
    /\ output' = IF output = "alive" /\ status_code = "SUCCESS" THEN "gone" ELSE output
    /\ ctx' = "gone"
    /\ vm' = "gone"
    /\ pc' = "done"
    /\ UNCHANGED <<client, status_code, host_calls, written, printed, exit_code, hostVars>>

(* qrvmc_release_result(), example_host_destroy_context(), qrvmc_destroy() *)
Release ==
    /\ pc = "release"
    /\ output' = IF output = "alive" THEN "gone" ELSE output
    /\ ctx' = "gone"
    /\ vm' = "gone"
    /\ pc' = "done"
    /\ UNCHANGED <<client, status_code, host_calls, written, printed, exit_code, hostVars>>

Next == Load \/ CreateContext \/ VMCallsHost \/ VMTakesAnswer \/ VMReturns \/ PrintResult \/ Release

Spec == Init /\ [][Next]_programVars

------------------------------------------------------------------------------
(* main() ends with nothing left: whatever the VM did and returned, the    *)
(* output, the Host and the VM are released, except by the static variant  *)
(* that finds an incompatible VM.                                          *)
EverythingReleased ==
    pc = "done" =>
        /\ output # "alive" /\ ctx # "alive"
        /\ vm = "alive" => client = "static" /\ exit_code = "ABI_VERSION_MISMATCH"

(* What main() prints of the slot is what the VM last wrote there, of all  *)
(* its calls on any account and slot, and it prints it after a success and *)
(* signals any other outcome in the exit code.                             *)
PrintsWhatWasWritten ==
    pc \in {"release", "done"} =>
        /\ printed # << >> => printed = written
        /\ exit_code = "0" <=> printed # << >>
==============================================================================
