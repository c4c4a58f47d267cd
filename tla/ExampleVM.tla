------------------------------ MODULE ExampleVM ------------------------------
(***************************************************************************)
(* The example VM (examples/example_vm/example_vm.cpp): its option and its *)
(* interpreter loop.  The VM has no jumps, so every byte of the code is    *)
(* looked at once, from left to right, and the code is chosen as it is     *)
(* read: each step picks the instruction found at pc.                      *)
(*                                                                         *)
(* A stack item is the number it encodes.  The contents of the memory only *)
(* flow to the output and to call inputs, so the model keeps the size of   *)
(* the memory and the regions touched.  The Host is external: what it      *)
(* answers is a free choice.  An access outside the arrays items and data  *)
(* is undefined behaviour; the model records where it happened and says    *)
(* nothing about what follows.                                             *)
(***************************************************************************)
EXTENDS Integers, Sequences

CONSTANTS
    Gas,          \* values of msg->gas
    CodeSize,     \* values of code_size
    InputSize,    \* values of msg->input_size
    Op,           \* the instructions found in the code
    MaxPush,      \* PUSH1..PUSH32: 32
    PushValue,    \* operands of PUSH instructions
    HostWord,     \* words given by the host and by the message
    OutputSize,   \* output sizes of calls
    OptionValue,  \* numbers given as value of the option "verbose"
    StackLimit,   \* 1024
    MemoryLimit,  \* 1024
    WordSize,     \* sizeof(qrvmc_uint256be): 32
    U32           \* 2^32

Instructions == {"STOP", "ADD", "ADDRESS", "CALLDATALOAD", "NUMBER", "MSTORE",
                 "SLOAD", "SSTORE", "MSIZE", "PUSH", "DUP1", "CALL", "RETURN",
                 "REVERT", "undefined"}

ASSUME VMAssumption ==
    /\ Gas \subseteq Nat /\ CodeSize \subseteq Nat /\ InputSize \subseteq Nat
    /\ Op \subseteq Instructions
    /\ MaxPush \in Nat \ {0}
    /\ PushValue \subseteq Nat /\ HostWord \subseteq Nat /\ OutputSize \subseteq Nat
    /\ OptionValue \subseteq Int
    /\ StackLimit \in Nat /\ MemoryLimit \in Nat
    /\ WordSize \in Nat \ {0}
    /\ U32 \in Nat \ {0} /\ MemoryLimit < U32

VARIABLES
    verbose,     \* ExampleVM::verbose
    phase,       \* "idle", "running", "returned", "undefined"
    msg_gas, code_size, input_size,   \* the arguments of execute()
    pc, gas_left, stack, size,        \* its local variables (size: memory.size)
    result,      \* the result returned last
    fault,       \* where an array was left: "none", "stack", "memory"
    height,      \* history: stack height according to instruction_metrics.c
    disciplined, \* history: whether that height allowed every instruction
    wrapped,     \* history: whether a 32-bit sum of offset and size has wrapped
    dropped,     \* history: whether the output of a call was not stored
    overread     \* history: whether a PUSH took data from behind the code

arguments == <<verbose, msg_gas, code_size, input_size>>
discipline == <<height, disciplined>>
vars == <<arguments, phase, pc, gas_left, stack, size, result, fault, discipline,
          wrapped, dropped, overread>>

(* What any VM promises; nothing is promised once behaviour is undefined.  *)
Contract == INSTANCE VMContract WITH
                phase <- IF phase = "undefined" THEN "running" ELSE phase

(* The zeroed result, as qrvmc_make_result starts from.                    *)
ZeroResult == Contract!ZeroResult

------------------------------------------------------------------------------
(* qrvmc_make_result(): the output is copied, which may fail for lack of   *)
(* memory; an empty output is not allocated.                               *)
make_result(status, gas, output_size) ==
    {[ZeroResult EXCEPT !.status_code = status, !.gas_left = gas,
                        !.has_output = output_size # 0, !.output_size = output_size,
                        !.release = output_size # 0]}
    \cup (IF output_size # 0
          THEN {[ZeroResult EXCEPT !.status_code = "OUT_OF_MEMORY"]} ELSE {})

(* Number of pop() and push() calls of each instruction.                   *)
Pops(op) ==
    IF op \in {"ADD", "MSTORE", "SSTORE", "RETURN", "REVERT"} THEN 2
    ELSE IF op \in {"CALLDATALOAD", "SLOAD", "DUP1"} THEN 1
    ELSE IF op = "CALL" THEN 7 ELSE 0

Pushes(op) ==
    IF op = "DUP1" THEN 2
    ELSE IF op \in {"ADD", "ADDRESS", "CALLDATALOAD", "NUMBER", "SLOAD", "MSIZE",
                    "PUSH", "CALL"} THEN 1
    ELSE 0

(* The columns stack_height_required and stack_height_change of the table  *)
(* in instruction_metrics.c.  "undefined" stands for every opcode that the *)
(* VM does not know; it returns at once, so its row does not matter.       *)
stack_height_required(op) ==
    IF op \in {"ADD", "MSTORE", "SSTORE", "RETURN", "REVERT"} THEN 2
    ELSE IF op \in {"CALLDATALOAD", "SLOAD", "DUP1"} THEN 1
    ELSE IF op = "CALL" THEN 7 ELSE 0

stack_height_change(op) ==
    IF op \in {"ADDRESS", "NUMBER", "MSIZE", "PUSH", "DUP1"} THEN 1
    ELSE IF op = "ADD" THEN -1
    ELSE IF op \in {"MSTORE", "SSTORE", "RETURN", "REVERT"} THEN -2
    ELSE IF op = "CALL" THEN -6 ELSE 0

(* to_uint32() truncates; to_uint256() of a 32-bit number is that number.  *)
to_uint32(word) == word % U32

------------------------------------------------------------------------------
(* Memory::expand(): a 32-bit sum against the fixed size of the buffer.    *)
NewSize(offset, region_size) == (offset + region_size) % U32
(* Mistake: one byte too many.                                             *)
CanExpandOffByOne(offset, region_size) ==
    ~(NewSize(offset, region_size) > MemoryLimit + 1)

CanExpand(offset, region_size) == ~(NewSize(offset, region_size) > MemoryLimit)

expand(old, offset, region_size) ==
    IF CanExpand(offset, region_size) /\ NewSize(offset, region_size) > old
    THEN NewSize(offset, region_size) ELSE old

Wraps(offset, region_size) == offset + region_size >= U32
InBuffer(offset, length) == length = 0 \/ offset + length <= MemoryLimit

------------------------------------------------------------------------------
Init ==
    /\ verbose = 0
    /\ phase = "idle"
    /\ msg_gas = 0 /\ code_size = 0 /\ input_size = 0
    /\ pc = 0 /\ gas_left = 0 /\ stack = << >> /\ size = 0
    /\ result = ZeroResult
    /\ fault = "none"
    /\ height = 0 /\ disciplined = TRUE
    /\ wrapped = FALSE /\ dropped = FALSE /\ overread = FALSE

(* set_option("verbose", value): an unknown name, a value that is missing, *)
(* not a number or out of range leaves the instance alone.                 *)
set_option(value) ==
    /\ phase = "idle"
    /\ ~(value > 9 \/ value < -1)
    /\ verbose' = value
    /\ UNCHANGED <<phase, msg_gas, code_size, input_size, pc, gas_left, stack, size,
                   result, fault, discipline, wrapped, dropped, overread>>

execute(gas, length, input) ==
    /\ phase = "idle"
    /\ phase' = "running"
    /\ msg_gas' = gas /\ code_size' = length /\ input_size' = input
    /\ gas_left' = gas
    /\ UNCHANGED <<verbose, pc, stack, size, result, fault, discipline, wrapped,
                   dropped, overread>>

(* The loop head: the gas of the instruction at pc is taken first.         *)
Charge ==
    /\ phase = "running" /\ pc < code_size
    /\ gas_left - 1 >= 0
    /\ gas_left' = gas_left - 1

(* The height a validator that only knows the metrics computes.            *)
Account(op) ==
    /\ disciplined' = (/\ disciplined
                       /\ stack_height_required(op) <= height
                       /\ height + stack_height_change(op) <= StackLimit)
    /\ height' = height + stack_height_change(op)

StackAllows(op) ==
    /\ Pops(op) <= Len(stack)
    /\ Len(stack) - Pops(op) + Pushes(op) <= StackLimit

(* An instruction of the code whose pops and pushes stay inside items.     *)
Instruction(op) ==
    /\ op \in Op
    /\ Charge
    /\ StackAllows(op)
    /\ Account(op)
    /\ UNCHANGED <<arguments, fault>>

(* The items left after the pops of op, with the pushed ones on top.       *)
Push(op, items) == stack' = items \o SubSeq(stack, Pops(op) + 1, Len(stack))

Continue(op, items) ==
    /\ Push(op, items)
    /\ pc' = pc + 1
    /\ UNCHANGED <<phase, result>>

Return(results) ==
    /\ result' \in results
    /\ phase' = "returned"
    /\ UNCHANGED <<pc, stack>>

(* Mistake: the gas is given back with a failure.                          *)
FailKeepsGas == Return(make_result("FAILURE", gas_left, 0))

Fail == Return(make_result("FAILURE", 0, 0))

OutOfGas ==
    /\ phase = "running" /\ pc < code_size
    /\ gas_left - 1 < 0
    /\ gas_left' = gas_left - 1
    /\ Return(make_result("OUT_OF_GAS", 0, 0))
    /\ UNCHANGED <<arguments, size, fault, discipline, wrapped, dropped, overread>>

(* pop() or push() leaves the array.                                       *)
StackFault(op) ==
    /\ op \in Op
    /\ Charge
    /\ ~StackAllows(op)
    /\ Account(op)
    /\ fault' = "stack"
    /\ phase' = "undefined"
    /\ UNCHANGED <<arguments, pc, stack, size, result, wrapped, dropped, overread>>

------------------------------------------------------------------------------
memory == <<size, wrapped, dropped, overread>>

Undefined ==
    /\ Instruction("undefined")
    /\ Return(make_result("UNDEFINED_INSTRUCTION", 0, 0))
    /\ UNCHANGED memory

Stop ==
    /\ Instruction("STOP")
    /\ Return(make_result("SUCCESS", gas_left', 0))
    /\ UNCHANGED memory

Add ==
    /\ Instruction("ADD")
    /\ Continue("ADD", <<(to_uint32(stack[1]) + to_uint32(stack[2])) % U32>>)
    /\ UNCHANGED memory

Address ==
    /\ Instruction("ADDRESS")
    /\ \E word \in HostWord : Continue("ADDRESS", <<word>>)
    /\ UNCHANGED memory

(* Behind the end of the input the word is zero.                           *)
CallDataLoad ==
    /\ Instruction("CALLDATALOAD")
    /\ \/ /\ to_uint32(stack[1]) < input_size
          /\ \E word \in HostWord : Continue("CALLDATALOAD", <<word>>)
       \/ /\ ~(to_uint32(stack[1]) < input_size)
          /\ Continue("CALLDATALOAD", <<0>>)
    /\ UNCHANGED memory

Number ==
    /\ Instruction("NUMBER")
    /\ \E word \in HostWord : Continue("NUMBER", <<to_uint32(word)>>)
    /\ UNCHANGED memory

SLoad ==
    /\ Instruction("SLOAD")
    /\ \E word \in HostWord : Continue("SLOAD", <<word>>)
    /\ UNCHANGED memory

SStore ==
    /\ Instruction("SSTORE")
    /\ Continue("SSTORE", << >>)
    /\ UNCHANGED memory

MSize ==
    /\ Instruction("MSIZE")
    /\ Continue("MSIZE", <<size>>)
    /\ UNCHANGED memory

(* Mistake: the popped item is not put back.                               *)
Dup1Once ==
    /\ Instruction("DUP1")
    /\ Continue("DUP1", <<stack[1]>>)
    /\ UNCHANGED memory

Dup1 ==
    /\ Instruction("DUP1")
    /\ Continue("DUP1", <<stack[1], stack[1]>>)
    /\ UNCHANGED memory

(* Mistake: the loop does not skip the data of the instruction.            *)
PushDataNotSkipped(bytes) ==
    /\ Instruction("PUSH")
    /\ \E word \in PushValue : Push("PUSH", <<word>>)
    /\ pc' = pc + 1
    /\ overread' = (overread \/ pc + bytes >= code_size)
    /\ UNCHANGED <<phase, result, size, wrapped, dropped>>

(* PUSH1..PUSH32: the data follow the instruction; those missing at the    *)
(* end of the code are read from behind it.                                *)
PushData(bytes) ==
    /\ Instruction("PUSH")
    /\ \E word \in IF pc + bytes < code_size THEN PushValue ELSE HostWord :
          Push("PUSH", <<word>>)
    /\ pc' = pc + bytes + 1
    /\ overread' = (overread \/ pc + bytes >= code_size)
    /\ UNCHANGED <<phase, result, size, wrapped, dropped>>

------------------------------------------------------------------------------
(* An access of the interpreter to a region of the memory: refused when    *)
(* the memory cannot be expanded, otherwise inside or outside the buffer.  *)
Touch(offset, length) ==
    /\ size' = expand(size, offset, length)
    /\ wrapped' = (wrapped \/ Wraps(offset, length))

MemoryFault ==
    /\ fault' = "memory"
    /\ phase' = "undefined"
    /\ UNCHANGED <<arguments, pc, stack, result>>

(* As Instruction, with the fault left to the action.                      *)
MemoryInstruction(op) ==
    /\ op \in Op
    /\ Charge
    /\ StackAllows(op)
    /\ Account(op)
    /\ UNCHANGED overread

(* Mistake: the memory is expanded for one byte, and a word is stored.     *)
MStoreNarrow ==
    LET index == to_uint32(stack[1]) IN
    /\ MemoryInstruction("MSTORE")
    /\ Touch(index, 1)
    /\ \/ ~CanExpand(index, 1) /\ Fail /\ UNCHANGED <<arguments, fault>>
       \/ /\ CanExpand(index, 1) /\ InBuffer(index, WordSize)
          /\ Continue("MSTORE", << >>)
          /\ UNCHANGED <<arguments, fault>>
       \/ CanExpand(index, 1) /\ ~InBuffer(index, WordSize) /\ MemoryFault
    /\ UNCHANGED dropped

MStore ==
    LET index == to_uint32(stack[1]) IN
    /\ MemoryInstruction("MSTORE")
    /\ Touch(index, WordSize)
    /\ \/ ~CanExpand(index, WordSize) /\ Fail /\ UNCHANGED <<arguments, fault>>
       \/ /\ CanExpand(index, WordSize) /\ InBuffer(index, WordSize)
          /\ Continue("MSTORE", << >>)
          /\ UNCHANGED <<arguments, fault>>
       \/ CanExpand(index, WordSize) /\ ~InBuffer(index, WordSize) /\ MemoryFault
    /\ UNCHANGED dropped

(* RETURN and REVERT.                                                      *)
ReturnData(op, status) ==
    LET offset == to_uint32(stack[1])
        length == to_uint32(stack[2])
    IN
    /\ MemoryInstruction(op)
    /\ Touch(offset, length)
    /\ \/ ~CanExpand(offset, length) /\ Fail /\ UNCHANGED <<arguments, fault>>
       \/ /\ CanExpand(offset, length) /\ InBuffer(offset, length)
          /\ Return(make_result(status, gas_left', length))
          /\ UNCHANGED <<arguments, fault>>
       \/ CanExpand(offset, length) /\ ~InBuffer(offset, length) /\ MemoryFault
    /\ UNCHANGED dropped

(* CALL: both regions are expanded before either is tested; the output of  *)
(* the call is cut to its region, stored, and the result released.         *)
Call ==
    LET in_offset == to_uint32(stack[4])   in_size == to_uint32(stack[5])
        out_offset == to_uint32(stack[6])  out_size == to_uint32(stack[7])
        expanded == expand(expand(size, in_offset, in_size), out_offset, out_size)
        possible == CanExpand(in_offset, in_size) /\ CanExpand(out_offset, out_size)
        wraps == wrapped \/ Wraps(in_offset, in_size) \/ Wraps(out_offset, out_size)
    IN
    /\ MemoryInstruction("CALL")
    /\ \/ /\ ~possible
          /\ Fail
          /\ size' = expanded /\ wrapped' = wraps
          /\ UNCHANGED <<arguments, fault, dropped>>
       \/ \E success \in {0, 1}, output_size \in OutputSize :
             LET stored == IF out_size > output_size THEN output_size ELSE out_size
                 store == CanExpand(out_offset, stored)
             IN
             /\ possible
             /\ size' = IF store THEN expand(expanded, out_offset, stored) ELSE expanded
             /\ wrapped' = wraps
             /\ dropped' = (dropped \/ (~store /\ stored # 0))
             /\ \/ /\ InBuffer(in_offset, in_size)
                   /\ store => InBuffer(out_offset, stored)
                   /\ Continue("CALL", <<success>>)
                   /\ UNCHANGED <<arguments, fault>>
                \/ /\ ~InBuffer(in_offset, in_size) \/ (store /\ ~InBuffer(out_offset, stored))
                   /\ MemoryFault

------------------------------------------------------------------------------
(* Mistake: the loop ends only exactly at the end of the code.             *)
EndOfCodeExact ==
    /\ phase = "running"
    /\ pc = code_size
    /\ Return(make_result("SUCCESS", gas_left, 0))
    /\ UNCHANGED <<arguments, gas_left, size, fault, discipline, wrapped, dropped, overread>>

(* The loop ends: the code is used up.                                     *)
EndOfCode ==
    /\ phase = "running"
    /\ ~(pc < code_size)
    /\ Return(make_result("SUCCESS", gas_left, 0))
    /\ UNCHANGED <<arguments, gas_left, size, fault, discipline, wrapped, dropped, overread>>

(* The client takes the result; the next execution starts afresh.          *)
TakeResult ==
    /\ phase = "returned"
    /\ phase' = "idle"
    /\ result' = ZeroResult
    /\ msg_gas' = 0 /\ code_size' = 0 /\ input_size' = 0
    /\ pc' = 0 /\ gas_left' = 0 /\ stack' = << >> /\ size' = 0
    /\ height' = 0 /\ disciplined' = TRUE
    /\ wrapped' = FALSE /\ dropped' = FALSE /\ overread' = FALSE
    /\ UNCHANGED <<verbose, fault>>

Step ==
    \/ Undefined \/ Stop \/ Add \/ Address \/ CallDataLoad \/ Number \/ SLoad \/ SStore
    \/ MSize \/ Dup1 \/ MStore \/ Call
    \/ ReturnData("RETURN", "SUCCESS")
    \/ ReturnData("REVERT", "REVERT")
    \/ \E bytes \in 1..MaxPush : PushData(bytes)
    \/ OutOfGas
    \/ \E op \in Op : StackFault(op)
    \/ EndOfCode

Next ==
    \/ \E value \in OptionValue : set_option(value)
    \/ \E gas \in Gas, length \in CodeSize, input \in InputSize : execute(gas, length, input)
    \/ Step
    \/ TakeResult

Spec == Init /\ [][Next]_vars

(* execute() does not wait for anything: it keeps running until it returns. *)
FairSpec == Spec /\ WF_vars(Step)

------------------------------------------------------------------------------
TypeOK ==
    /\ verbose \in -1..9
    /\ phase \in {"idle", "running", "returned", "undefined"}
    /\ msg_gas \in Nat /\ code_size \in Nat /\ input_size \in Nat
    /\ pc \in Nat
    /\ gas_left \in -1..msg_gas
    /\ stack \in Seq(Nat) /\ Len(stack) <= StackLimit
    /\ size \in 0..MemoryLimit
    /\ fault \in {"none", "stack", "memory"}
    /\ height \in Int
    /\ disciplined \in BOOLEAN /\ wrapped \in BOOLEAN
    /\ dropped \in BOOLEAN /\ overread \in BOOLEAN

(* The example VM does what qrvmc.h promises of a VM: whatever the code,   *)
(* the gas, the input and the answers of the host, its results are valid.  *)
ImplementsContract == Contract!Spec

(* instruction_metrics.c describes the example VM: code whose heights the  *)
(* table allows never takes the interpreter outside its stack, which the   *)
(* interpreter itself does not check.                                      *)
StackSafe ==
    disciplined => /\ fault # "stack"
                   /\ phase = "running" => Len(stack) = height

(* The interpreter touches memory outside its buffer, or loses the output  *)
(* of a call (the result of the last store is ignored), only after a sum   *)
(* of offset and size exceeded 32 bits.                                    *)
MemoryFaultOnlyByWrap == fault = "memory" \/ dropped => wrapped

(* Memory::expand() returns "nullptr if the memory cannot be expanded to   *)
(* the required size": every region in use is inside the buffer.           *)
MemorySafe == fault # "memory"

(* Bytes read from behind the code by a PUSH never matter: the loop ends   *)
(* with the next test of pc, with success and no output.                   *)
OverreadIsHarmless ==
    overread => /\ pc >= code_size
                /\ phase \in {"running", "returned"}
                /\ phase = "returned" => /\ result.status_code = "SUCCESS"
                                         /\ result.output_size = 0

(* Every execution returns (or has left defined behaviour).                *)
Terminates == phase = "running" ~> phase # "running"
==============================================================================
