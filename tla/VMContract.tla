------------------------------ MODULE VMContract ------------------------------
(***************************************************************************)
(* What qrvmc.h promises of qrvmc_execute_fn, for any VM: an execution     *)
(* that was started with some gas returns one result, and the fields of    *)
(* the result agree with each other and with that gas.  The comments of    *)
(* struct qrvmc_result state the conditions; vmtester tests them.          *)
(***************************************************************************)
EXTENDS Integers

CONSTANT Gas   \* the values of qrvmc_message::gas, natural numbers

VARIABLES
    phase,     \* "idle", "running", "returned"
    msg_gas,   \* qrvmc_message::gas of the execution
    result     \* the qrvmc_result, once there is one

contractVars == <<phase, msg_gas, result>>

StatusCode == {"SUCCESS", "FAILURE", "REVERT", "OUT_OF_GAS",
               "UNDEFINED_INSTRUCTION", "OUT_OF_MEMORY", "REJECTED"}

(* qrvmc_result{}: also stands for a result nobody has made yet.           *)
ZeroResult == [status_code |-> "SUCCESS", gas_left |-> 0, gas_refund |-> 0,
               has_output |-> FALSE, output_size |-> 0, release |-> FALSE]

(* "If status_code is neither SUCCESS nor REVERT the value [gas_left] MUST *)
(* be 0", "other than SUCCESS the value [gas_refund] MUST be 0", "if       *)
(* output_data is NULL [output_size] MUST be 0"; an output is data of      *)
(* RETURN or REVERT and is freed with release().                           *)
ValidResult(r, gas) ==
    /\ r.status_code \in StatusCode
    /\ r.gas_left \in 0..gas
    /\ r.status_code \notin {"SUCCESS", "REVERT"} => r.gas_left = 0
    /\ r.status_code # "SUCCESS" => r.gas_refund = 0
    /\ r.output_size \in Nat
    /\ ~r.has_output => r.output_size = 0
    /\ r.output_size # 0 => r.status_code \in {"SUCCESS", "REVERT"}
    /\ r.has_output <=> r.release

Init == phase = "idle" /\ msg_gas = 0 /\ result = ZeroResult

Execute(gas) ==
    /\ phase = "idle"
    /\ phase' = "running"
    /\ msg_gas' = gas
    /\ UNCHANGED result

Return ==
    /\ phase = "running"
    /\ phase' = "returned"
    /\ ValidResult(result', msg_gas)
    /\ UNCHANGED msg_gas

(* The client takes the result and may execute again.                      *)
Take ==
    /\ phase = "returned"
    /\ phase' = "idle"
    /\ result' = ZeroResult
    /\ msg_gas' = 0

Next == (\E gas \in Gas : Execute(gas)) \/ Return \/ Take

Spec == Init /\ [][Next]_contractVars
==============================================================================
