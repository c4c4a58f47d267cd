------------------------ MODULE ExamplePrecompilesVM -------------------------
(***************************************************************************)
(* The example VM of precompiled contracts                                 *)
(* (examples/example_precompiles_vm/example_precompiles_vm.cpp): a second  *)
(* implementation of the contract of a VM.  It builds its results field by *)
(* field instead of calling qrvmc_make_result(), and allocates an output   *)
(* even if it is empty.                                                    *)
(***************************************************************************)
EXTENDS Integers, TLAPS

CONSTANTS
    Gas,         \* values of msg->gas
    InputSize,   \* values of msg->input_size
    Byte         \* values of the bytes of an address

ASSUME PrecompilesAssumption ==
    /\ Gas \subseteq Nat /\ InputSize \subseteq Nat
    /\ Byte \subseteq 0..255

VARIABLES
    phase,       \* "idle", "running", "returned"
    msg_gas, input_size, code_address,   \* the message
    result       \* the result returned last

vars == <<phase, msg_gas, input_size, code_address, result>>

Contract == INSTANCE VMContract

ZeroResult == Contract!ZeroResult

(* An address: whether the leading bytes are all zero, and the last two.   *)
Address == [zero_prefix : BOOLEAN, high : Byte, low : Byte]
NoAddress == [zero_prefix |-> TRUE, high |-> 0, low |-> 0]

(* The contract id in the last two bytes.                                  *)
Id(addr) == addr.high * 256 + addr.low

------------------------------------------------------------------------------
(* Mistake: the cost is not tested against the gas.                        *)
execute_identity_unchecked(gas, size) ==
    LET gas_left == gas - (15 + 3 * ((size + 31) \div 32)) IN
    [ZeroResult EXCEPT !.gas_left = gas_left, !.has_output = TRUE,
                       !.output_size = size, !.release = TRUE]

(* The input is copied to the output, for 15 gas and 3 for each word.      *)
execute_identity(gas, size) ==
    LET gas_left == gas - (15 + 3 * ((size + 31) \div 32)) IN
    IF gas_left < 0
    THEN [ZeroResult EXCEPT !.status_code = "OUT_OF_GAS"]
    ELSE [ZeroResult EXCEPT !.gas_left = gas_left, !.has_output = TRUE,
                            !.output_size = size, !.release = TRUE]

execute_empty(gas) == [ZeroResult EXCEPT !.gas_left = gas]

not_implemented == [ZeroResult EXCEPT !.status_code = "REJECTED"]

Init ==
    /\ phase = "idle"
    /\ msg_gas = 0 /\ input_size = 0 /\ code_address = NoAddress
    /\ result = ZeroResult

(* A client calls execute() with a message.                                *)
Call(gas, size, addr) ==
    /\ phase = "idle"
    /\ phase' = "running"
    /\ msg_gas' = gas /\ input_size' = size /\ code_address' = addr
    /\ UNCHANGED result

(* Outside the reserved range of addresses the execution is rejected.      *)
execute ==
    LET id == Id(code_address) IN
    /\ phase = "running"
    /\ \/ /\ ~code_address.zero_prefix
          /\ result' = not_implemented
       \/ /\ code_address.zero_prefix
          /\ id \in {1, 2, 4}
          /\ result' = execute_identity(msg_gas, input_size)
       \/ /\ code_address.zero_prefix
          /\ id \in 5..8
          /\ result' = not_implemented
       \/ /\ code_address.zero_prefix
          /\ id \notin {1, 2, 4} \cup 5..8
          /\ result' = execute_empty(msg_gas)
    /\ phase' = "returned"
    /\ UNCHANGED <<msg_gas, input_size, code_address>>

TakeResult ==
    /\ phase = "returned"
    /\ phase' = "idle"
    /\ msg_gas' = 0 /\ input_size' = 0 /\ code_address' = NoAddress
    /\ result' = ZeroResult

Next ==
    \/ \E gas \in Gas, size \in InputSize, addr \in Address : Call(gas, size, addr)
    \/ execute
    \/ TakeResult

Spec == Init /\ [][Next]_vars

------------------------------------------------------------------------------
(* Whatever the address, the gas and the input, the results of the         *)
(* precompiles are valid results of a VM: their gas is covered, a failure  *)
(* leaves none, and the output is there exactly if it has to be released.  *)
ImplementsContract == Contract!Spec

------------------------------------------------------------------------------
(* The types of the message are what execute() relies on.                  *)
MessageInv == msg_gas \in Nat /\ input_size \in Nat

LEMMA MessageInvariant == Spec => []MessageInv
<1>1. Init => MessageInv
  BY DEF Init, MessageInv
<1>2. MessageInv /\ [Next]_vars => MessageInv'
  BY PrecompilesAssumption DEF MessageInv, Next, Call, execute, TakeResult, vars
<1>. QED BY <1>1, <1>2, PTL DEF Spec

LEMMA IdentityIsValid ==
    ASSUME NEW gas \in Nat, NEW size \in Nat
    PROVE  Contract!ValidResult(execute_identity(gas, size), gas)
<1>. DEFINE gas_left == gas - (15 + 3 * ((size + 31) \div 32))
            r == execute_identity(gas, size)
<1>1. (size + 31) \div 32 \in Nat
  OBVIOUS
<1>2. gas_left \in Int /\ gas_left <= gas
  BY <1>1
<1>3. CASE gas_left < 0
  <2>1. /\ r.status_code = "OUT_OF_GAS" /\ r.gas_left = 0 /\ r.gas_refund = 0
        /\ r.output_size = 0 /\ r.has_output = FALSE /\ r.release = FALSE
    BY <1>3 DEF execute_identity, ZeroResult, Contract!ZeroResult
  <2>. QED BY <2>1 DEF Contract!ValidResult, Contract!StatusCode
<1>4. CASE ~(gas_left < 0)
  <2>1. /\ r.status_code = "SUCCESS" /\ r.gas_left = gas_left /\ r.gas_refund = 0
        /\ r.output_size = size /\ r.has_output = TRUE /\ r.release = TRUE
    BY <1>4 DEF execute_identity, ZeroResult, Contract!ZeroResult
  <2>2. gas_left \in 0..gas
    BY <1>2, <1>4
  <2>3. r.gas_left \in 0..gas
    BY <2>1, <2>2
  <2>. HIDE DEF gas_left, r
  <2>4. Contract!ValidResult(r, gas)
    BY <2>1, <2>3 DEF Contract!ValidResult, Contract!StatusCode
  <2>. QED BY <2>4 DEF r
<1>. QED BY <1>3, <1>4

(* The precompiles implement the contract of a VM, for every message: the  *)
(* four ways execute() can end all give a valid result.                    *)
THEOREM Refinement == Spec => ImplementsContract
<1>1. Init => Contract!Init
  BY DEF Init, ZeroResult, Contract!Init
<1>2. ASSUME MessageInv, [Next]_vars
      PROVE  [Contract!Next]_(Contract!contractVars)
  <2>1. CASE execute
    <3>1. Contract!ValidResult(not_implemented, msg_gas)
      BY <1>2 DEF MessageInv, not_implemented, ZeroResult, Contract!ZeroResult,
                  Contract!ValidResult, Contract!StatusCode
    <3>2. Contract!ValidResult(execute_empty(msg_gas), msg_gas)
      BY <1>2 DEF MessageInv, execute_empty, ZeroResult, Contract!ZeroResult,
                  Contract!ValidResult, Contract!StatusCode
    <3>3. Contract!ValidResult(execute_identity(msg_gas, input_size), msg_gas)
      BY <1>2, IdentityIsValid DEF MessageInv
    <3>4. Contract!ValidResult(result', msg_gas)
      BY <2>1, <3>1, <3>2, <3>3 DEF execute
    <3>. QED BY <2>1, <3>4 DEF execute, Contract!Next, Contract!Return
  <2>2. ASSUME NEW gas \in Gas, NEW size \in InputSize, NEW addr \in Address,
               Call(gas, size, addr)
        PROVE  Contract!Next
    BY <2>2 DEF Call, Contract!Next, Contract!Execute
  <2>3. CASE TakeResult
    BY <2>3 DEF TakeResult, ZeroResult, Contract!Next, Contract!Take
  <2>4. CASE UNCHANGED vars
    BY <2>4 DEF vars, Contract!contractVars
  <2>. QED BY <1>2, <2>1, <2>2, <2>3, <2>4 DEF Next
<1>. QED BY <1>1, <1>2, MessageInvariant, PTL DEF Spec, ImplementsContract, Contract!Spec
==============================================================================
