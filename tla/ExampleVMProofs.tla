--------------------------- MODULE ExampleVMProofs ---------------------------
(***************************************************************************)
(* Proofs about the example VM, for any code, gas, host and limits.        *)
(*                                                                         *)
(* VMInv is inductive: the types; the gas of a running execution is not    *)
(* negative (the result of STOP, RETURN, REVERT and of the end of the code *)
(* returns it), an execution starts with an empty stack, and a fault is    *)
(* never followed by another execution; and the two histories: a           *)
(* disciplined execution has the stack height of the metrics, and only a   *)
(* wrapped sum leads outside the memory.                                   *)
(***************************************************************************)
EXTENDS ExampleVM, SequenceTheorems, TLAPS

PhaseInv ==
    /\ phase = "running" => gas_left >= 0
    /\ phase = "idle" => stack = << >> /\ height = 0
    /\ phase # "undefined" => fault = "none"

VMInv == TypeOK /\ PhaseInv /\ StackSafe /\ MemoryFaultOnlyByWrap

(* The remainder of a 32-bit truncation.                                   *)
LEMMA ModIsSmall ==
    ASSUME NEW a \in Nat PROVE a % U32 \in 0..(U32 - 1)
BY VMAssumption

(* Popping n items and pushing others keeps a sequence of words.           *)
LEMMA PushIsSequence ==
    ASSUME NEW s \in Seq(Nat), NEW n \in 0..Len(s), NEW items \in Seq(Nat)
    PROVE  LET t == items \o SubSeq(s, n + 1, Len(s)) IN
           t \in Seq(Nat) /\ Len(t) = Len(items) + Len(s) - n
<1>1. SubSeq(s, n + 1, Len(s)) \in Seq(Nat)
  <2>1. \A i \in (n + 1)..Len(s) : s[i] \in Nat
    BY ElementOfSeq
  <2>. QED BY <2>1, SubSeqProperties
<1>2. Len(SubSeq(s, n + 1, Len(s))) = Len(s) - n
  BY SubSeqProperties
<1>. QED BY <1>1, <1>2, ConcatProperties

(* What Memory::expand() does to the size.                                 *)
LEMMA ExpandBounded ==
    ASSUME NEW old \in 0..MemoryLimit, NEW offset \in Nat, NEW length \in Nat
    PROVE  /\ expand(old, offset, length) \in 0..MemoryLimit
           /\ expand(old, offset, length) >= old
<1>1. NewSize(offset, length) \in Nat
  BY ModIsSmall, VMAssumption DEF NewSize
<1>. QED BY <1>1, VMAssumption DEF expand, CanExpand

(* A region that can be expanded and whose sum did not wrap is inside.     *)
LEMMA NoWrapInBuffer ==
    ASSUME NEW offset \in Nat, NEW length \in Nat,
           CanExpand(offset, length), ~Wraps(offset, length)
    PROVE  InBuffer(offset, length)
<1>1. (offset + length) % U32 = offset + length
  BY VMAssumption DEF Wraps
<1>. QED BY <1>1, VMAssumption DEF CanExpand, NewSize, InBuffer

(* A part of such a region can be expanded too.                            *)
LEMMA NarrowRegion ==
    ASSUME NEW offset \in Nat, NEW length \in Nat, NEW shorter \in Nat,
           shorter <= length, CanExpand(offset, length), ~Wraps(offset, length)
    PROVE  CanExpand(offset, shorter) /\ ~Wraps(offset, shorter)
<1>1. offset + length < U32 /\ offset + shorter < U32
  BY VMAssumption DEF Wraps
<1>2. /\ (offset + length) % U32 = offset + length
      /\ (offset + shorter) % U32 = offset + shorter
  BY <1>1, VMAssumption
<1>3. offset + length <= MemoryLimit
  BY <1>2, VMAssumption DEF CanExpand, NewSize
<1>4. CanExpand(offset, shorter)
  BY <1>2, <1>3, VMAssumption DEF CanExpand, NewSize
<1>. QED BY <1>1, <1>4, VMAssumption DEF Wraps

(* The table of metrics against the calls of pop() and push().             *)
LEMMA MetricsAgree ==
    ASSUME NEW op
    PROVE  /\ Pops(op) \in Nat /\ Pushes(op) \in Nat
           /\ stack_height_required(op) = Pops(op)
           /\ stack_height_change(op) = Pushes(op) - Pops(op)
BY DEF Pops, Pushes, stack_height_required, stack_height_change

------------------------------------------------------------------------------
(* What every instruction does before its own effect.                      *)
LEMMA Charged ==
    ASSUME VMInv, NEW op, Charge, Account(op), UNCHANGED arguments
    PROVE  /\ phase = "running"
           /\ gas_left' \in 0..msg_gas'
           /\ height' = height + Pushes(op) - Pops(op)
           /\ height' \in Int /\ disciplined' \in BOOLEAN
           /\ disciplined' => /\ disciplined /\ Len(stack) = height
                              /\ StackAllows(op)
           /\ verbose' \in -1..9
           /\ msg_gas' \in Nat /\ code_size' \in Nat /\ input_size' \in Nat
           /\ fault # "stack" \/ ~disciplined
<1>1. stack \in Seq(Nat) /\ Len(stack) \in Nat
  BY LenProperties DEF VMInv, TypeOK
<1>2. gas_left' \in 0..msg_gas'
  BY DEF VMInv, TypeOK, Charge, arguments
<1>3. /\ height' = height + Pushes(op) - Pops(op)
      /\ height' \in Int
  BY MetricsAgree DEF VMInv, TypeOK, Account
<1>4. disciplined' \in BOOLEAN
  BY DEF Account
<1>5. ASSUME disciplined'
      PROVE  disciplined /\ Len(stack) = height /\ StackAllows(op)
  <2>1. disciplined /\ Pops(op) <= height /\ height + Pushes(op) - Pops(op) <= StackLimit
    BY <1>5, MetricsAgree DEF Account, VMInv, TypeOK
  <2>2. Len(stack) = height
    BY <2>1 DEF VMInv, StackSafe, Charge
  <2>. QED BY <2>1, <2>2, <1>1, MetricsAgree, VMAssumption DEF StackAllows
<1>. QED BY <1>2, <1>3, <1>4, <1>5 DEF VMInv, TypeOK, StackSafe, Charge, arguments

(* What an instruction that goes on leaves on the stack.                   *)
LEMMA Continued ==
    ASSUME VMInv, NEW op, StackAllows(op),
           NEW items \in Seq(Nat), Len(items) = Pushes(op), Push(op, items)
    PROVE  /\ stack' \in Seq(Nat) /\ Len(stack') <= StackLimit
           /\ Len(stack') = Len(stack) + Pushes(op) - Pops(op)
<1>1. stack \in Seq(Nat) /\ Len(stack) \in Nat
  BY LenProperties DEF VMInv, TypeOK
<1>2. Pops(op) \in 0..Len(stack)
  BY <1>1, MetricsAgree DEF StackAllows
<1>3. /\ stack' \in Seq(Nat)
      /\ Len(stack') = Len(items) + Len(stack) - Pops(op)
  BY <1>1, <1>2, PushIsSequence DEF Push
<1>. QED BY <1>1, <1>3, MetricsAgree, VMAssumption DEF StackAllows

(* The operands of an instruction are words.                               *)
LEMMA Operands ==
    ASSUME VMInv, NEW op, StackAllows(op), NEW i \in 1..Pops(op)
    PROVE  stack[i] \in Nat /\ to_uint32(stack[i]) \in Nat
<1>1. stack \in Seq(Nat) /\ i \in 1..Len(stack)
  BY LenProperties, MetricsAgree DEF VMInv, TypeOK, StackAllows
<1>2. stack[i] \in Nat
  BY <1>1, ElementOfSeq
<1>. QED BY <1>2, ModIsSmall, VMAssumption DEF to_uint32

(* The whole step of an instruction that only works on the stack.          *)
LEMMA StackInstruction ==
    ASSUME VMInv, NEW op, Instruction(op), UNCHANGED memory,
           NEW items \in Seq(Nat), Len(items) = Pushes(op), Continue(op, items)
    PROVE  VMInv'
<1>1. Charge /\ Account(op) /\ StackAllows(op) /\ UNCHANGED arguments /\ UNCHANGED fault
  BY DEF Instruction
<1>2. phase' = phase /\ pc' = pc + 1 /\ Push(op, items)
  BY DEF Continue
<1>3. TypeOK' /\ PhaseInv'
  BY <1>1, <1>2, Charged, Continued DEF VMInv, TypeOK, PhaseInv, memory
<1>4. StackSafe'
  BY <1>1, <1>2, Charged, Continued DEF VMInv, StackSafe
<1>5. MemoryFaultOnlyByWrap'
  BY <1>1 DEF VMInv, MemoryFaultOnlyByWrap, memory
<1>. QED BY <1>3, <1>4, <1>5 DEF VMInv

(* The whole step of an instruction that returns and leaves the memory.    *)
LEMMA ReturnInstruction ==
    ASSUME VMInv, NEW op, Instruction(op), UNCHANGED memory, NEW results, Return(results)
    PROVE  VMInv'
<1>1. Charge /\ Account(op) /\ StackAllows(op) /\ UNCHANGED arguments /\ UNCHANGED fault
  BY DEF Instruction
<1>2. phase' = "returned" /\ pc' = pc /\ stack' = stack
  BY DEF Return
<1>3. TypeOK' /\ PhaseInv'
  BY <1>1, <1>2, Charged DEF VMInv, TypeOK, PhaseInv, memory
<1>4. StackSafe'
  BY <1>1, <1>2, Charged DEF VMInv, StackSafe
<1>5. MemoryFaultOnlyByWrap'
  BY <1>1 DEF VMInv, MemoryFaultOnlyByWrap, memory
<1>. QED BY <1>3, <1>4, <1>5 DEF VMInv

(* The whole step of an instruction that works on the memory: it returns,  *)
(* goes on, or leaves the buffer after a sum wrapped.                      *)
LEMMA MemoryStep ==
    ASSUME VMInv, NEW op, MemoryInstruction(op), UNCHANGED arguments,
           size' \in 0..MemoryLimit, wrapped' \in BOOLEAN, dropped' \in BOOLEAN,
           wrapped => wrapped', dropped' => dropped \/ wrapped',
           \/ UNCHANGED fault /\ \E results : Return(results)
           \/ /\ UNCHANGED fault
              /\ \E items \in Seq(Nat) : Len(items) = Pushes(op) /\ Continue(op, items)
           \/ MemoryFault /\ wrapped'
    PROVE  VMInv'
<1>1. Charge /\ Account(op) /\ StackAllows(op) /\ UNCHANGED overread
  BY DEF MemoryInstruction
<1>2. CASE UNCHANGED fault /\ \E results : Return(results)
  <2>1. phase' = "returned" /\ pc' = pc /\ stack' = stack /\ fault' = fault
    BY <1>2 DEF Return
  <2>2. TypeOK' /\ PhaseInv'
    BY <1>1, <2>1, Charged DEF VMInv, TypeOK, PhaseInv
  <2>3. StackSafe'
    BY <1>1, <2>1, Charged DEF VMInv, StackSafe
  <2>4. MemoryFaultOnlyByWrap'
    BY <2>1 DEF VMInv, MemoryFaultOnlyByWrap
  <2>. QED BY <2>2, <2>3, <2>4 DEF VMInv
<1>3. CASE /\ UNCHANGED fault
           /\ \E items \in Seq(Nat) : Len(items) = Pushes(op) /\ Continue(op, items)
  <2>1. PICK items \in Seq(Nat) : Len(items) = Pushes(op) /\ Continue(op, items)
    BY <1>3
  <2>2. phase' = phase /\ pc' = pc + 1 /\ Push(op, items) /\ fault' = fault
    BY <1>3, <2>1 DEF Continue
  <2>3. TypeOK' /\ PhaseInv'
    BY <1>1, <2>1, <2>2, Charged, Continued DEF VMInv, TypeOK, PhaseInv
  <2>4. StackSafe'
    BY <1>1, <2>1, <2>2, Charged, Continued DEF VMInv, StackSafe
  <2>5. MemoryFaultOnlyByWrap'
    BY <2>2 DEF VMInv, MemoryFaultOnlyByWrap
  <2>. QED BY <2>3, <2>4, <2>5 DEF VMInv
<1>4. CASE MemoryFault /\ wrapped'
  <2>1. phase' = "undefined" /\ fault' = "memory" /\ pc' = pc /\ stack' = stack
    BY <1>4 DEF MemoryFault
  <2>2. TypeOK' /\ PhaseInv'
    BY <1>1, <2>1, Charged DEF VMInv, TypeOK, PhaseInv
  <2>3. StackSafe' /\ MemoryFaultOnlyByWrap'
    BY <1>4, <2>1 DEF StackSafe, MemoryFaultOnlyByWrap
  <2>. QED BY <2>2, <2>3 DEF VMInv
<1>. QED BY <1>2, <1>3, <1>4

(* PUSH: pc may pass the end of the code.                                  *)
LEMMA PushDataStep ==
    ASSUME VMInv, NEW bytes \in 1..MaxPush, PushData(bytes)
    PROVE  VMInv'
<1>1. /\ Charge /\ Account("PUSH") /\ StackAllows("PUSH")
      /\ UNCHANGED arguments /\ UNCHANGED fault
  BY DEF PushData, Instruction
<1>2. PICK word \in Nat : Push("PUSH", <<word>>)
  BY VMAssumption DEF PushData
<1>3. Len(<<word>>) = Pushes("PUSH") /\ <<word>> \in Seq(Nat)
  BY DEF Pushes
<1>4. /\ phase' = phase /\ pc' = pc + bytes + 1 /\ size' = size
      /\ wrapped' = wrapped /\ dropped' = dropped /\ overread' \in BOOLEAN
  BY DEF PushData
<1>5. pc' \in Nat
  BY <1>4, VMAssumption DEF VMInv, TypeOK
<1>6. TypeOK' /\ PhaseInv'
  <2>1. stack' \in Seq(Nat) /\ Len(stack') <= StackLimit
    BY <1>1, <1>2, <1>3, Continued
  <2>2. /\ gas_left' \in 0..msg_gas' /\ height' \in Int /\ disciplined' \in BOOLEAN
        /\ verbose' \in -1..9
        /\ msg_gas' \in Nat /\ code_size' \in Nat /\ input_size' \in Nat
    BY <1>1, Charged
  <2>3. TypeOK'
    BY <1>1, <1>4, <1>5, <2>1, <2>2 DEF VMInv, TypeOK
  <2>4. PhaseInv'
    BY <1>1, <1>4, <2>2 DEF VMInv, PhaseInv, Charge
  <2>. QED BY <2>3, <2>4
<1>7. StackSafe'
  BY <1>1, <1>2, <1>3, <1>4, Charged, Continued DEF VMInv, StackSafe
<1>8. MemoryFaultOnlyByWrap'
  BY <1>1, <1>4 DEF VMInv, MemoryFaultOnlyByWrap
<1>. QED BY <1>6, <1>7, <1>8 DEF VMInv

(* MSTORE, RETURN and REVERT: one region.                                  *)
LEMMA MStoreStep == ASSUME VMInv, MStore PROVE VMInv'
<1>. DEFINE index == to_uint32(stack[1])
<1>1. MemoryInstruction("MSTORE") /\ StackAllows("MSTORE") /\ UNCHANGED dropped
  BY DEF MStore, MemoryInstruction
<1>2. index \in Nat /\ WordSize \in Nat
  <2>1. 1 \in 1..Pops("MSTORE")
    BY DEF Pops
  <2>. QED BY <2>1, <1>1, Operands, VMAssumption
<1>3. /\ size' \in 0..MemoryLimit
      /\ wrapped' = (wrapped \/ Wraps(index, WordSize))
  BY <1>2, ExpandBounded DEF MStore, Touch, VMInv, TypeOK
<1>4. UNCHANGED arguments
  BY DEF MStore, MemoryFault
<1>5. \/ UNCHANGED fault /\ \E results : Return(results)
      \/ UNCHANGED fault /\ Continue("MSTORE", << >>)
      \/ MemoryFault /\ CanExpand(index, WordSize) /\ ~InBuffer(index, WordSize)
  BY DEF MStore, Fail
<1>6. << >> \in Seq(Nat) /\ Len(<< >>) = Pushes("MSTORE")
  BY DEF Pushes
<1>7. \/ UNCHANGED fault /\ \E results : Return(results)
      \/ /\ UNCHANGED fault
         /\ \E items \in Seq(Nat) : Len(items) = Pushes("MSTORE") /\ Continue("MSTORE", items)
      \/ MemoryFault /\ wrapped'
  BY <1>2, <1>3, <1>5, <1>6, NoWrapInBuffer
<1>8. wrapped' \in BOOLEAN /\ dropped' \in BOOLEAN
  BY <1>1, <1>3 DEF VMInv, TypeOK
<1>. QED BY <1>1, <1>3, <1>4, <1>7, <1>8, MemoryStep

LEMMA ReturnDataStep ==
    ASSUME VMInv, NEW op \in {"RETURN", "REVERT"}, NEW status, ReturnData(op, status)
    PROVE  VMInv'
<1>. DEFINE offset == to_uint32(stack[1])
            length == to_uint32(stack[2])
<1>1. MemoryInstruction(op) /\ StackAllows(op) /\ UNCHANGED dropped
  BY DEF ReturnData, MemoryInstruction
<1>2. offset \in Nat /\ length \in Nat
  <2>1. 1 \in 1..Pops(op) /\ 2 \in 1..Pops(op)
    BY DEF Pops
  <2>. QED BY <2>1, <1>1, Operands
<1>3. /\ size' \in 0..MemoryLimit
      /\ wrapped' = (wrapped \/ Wraps(offset, length))
  BY <1>2, ExpandBounded DEF ReturnData, Touch, VMInv, TypeOK
<1>4. UNCHANGED arguments
  BY DEF ReturnData, MemoryFault
<1>5. \/ UNCHANGED fault /\ \E results : Return(results)
      \/ MemoryFault /\ CanExpand(offset, length) /\ ~InBuffer(offset, length)
  BY DEF ReturnData, Fail
<1>6. \/ UNCHANGED fault /\ \E results : Return(results)
      \/ MemoryFault /\ wrapped'
  BY <1>2, <1>3, <1>5, NoWrapInBuffer
<1>7. wrapped' \in BOOLEAN /\ dropped' \in BOOLEAN
  BY <1>1, <1>3 DEF VMInv, TypeOK
<1>. QED BY <1>1, <1>3, <1>4, <1>6, <1>7, MemoryStep

(* CALL: two regions expanded, and the output stored into the second.  A   *)
(* store that is cut to its region cannot wrap if the region did not.      *)
LEMMA CallStep == ASSUME VMInv, Call PROVE VMInv'
<1>. DEFINE in_offset == to_uint32(stack[4])
            in_size == to_uint32(stack[5])
            out_offset == to_uint32(stack[6])
            out_size == to_uint32(stack[7])
            expanded == expand(expand(size, in_offset, in_size), out_offset, out_size)
            wraps == wrapped \/ Wraps(in_offset, in_size) \/ Wraps(out_offset, out_size)
<1>1. MemoryInstruction("CALL") /\ StackAllows("CALL")
  BY DEF Call, MemoryInstruction
<1>2. /\ in_offset \in Nat /\ in_size \in Nat
      /\ out_offset \in Nat /\ out_size \in Nat
  <2>1. 4 \in 1..Pops("CALL") /\ 5 \in 1..Pops("CALL") /\ 6 \in 1..Pops("CALL")
        /\ 7 \in 1..Pops("CALL")
    BY DEF Pops
  <2>. QED BY <2>1, <1>1, Operands
<1>3. expanded \in 0..MemoryLimit
  BY <1>2, ExpandBounded DEF VMInv, TypeOK
<1>4. wraps \in BOOLEAN
  BY DEF VMInv, TypeOK
<1>5. CASE /\ Fail /\ size' = expanded /\ wrapped' = wraps
           /\ UNCHANGED <<arguments, fault, dropped>>
  <2>1. UNCHANGED fault /\ \E results : Return(results)
    BY <1>5 DEF Fail
  <2>2. UNCHANGED arguments /\ size' \in 0..MemoryLimit
    BY <1>3, <1>5
  <2>3. wrapped' \in BOOLEAN /\ dropped' \in BOOLEAN /\ (wrapped => wrapped')
        /\ dropped' = dropped
    BY <1>4, <1>5 DEF VMInv, TypeOK
  <2>. QED BY <1>1, <2>1, <2>2, <2>3, MemoryStep
<1>6. ASSUME NEW success \in {0, 1}, NEW stored \in Nat, stored <= out_size,
             NEW store, store = CanExpand(out_offset, stored),
             CanExpand(in_offset, in_size), CanExpand(out_offset, out_size),
             size' = IF store THEN expand(expanded, out_offset, stored) ELSE expanded,
             wrapped' = wraps,
             dropped' = (dropped \/ (~store /\ stored # 0)),
             \/ /\ Continue("CALL", <<success>>)
                /\ UNCHANGED <<arguments, fault>>
             \/ /\ ~InBuffer(in_offset, in_size) \/ (store /\ ~InBuffer(out_offset, stored))
                /\ MemoryFault
      PROVE  VMInv'
  <2>1. size' \in 0..MemoryLimit
    BY <1>2, <1>3, <1>6, ExpandBounded
  <2>2. UNCHANGED arguments
    BY <1>6 DEF MemoryFault
  <2>3. ~Wraps(out_offset, out_size) => store /\ ~Wraps(out_offset, stored)
    BY <1>2, <1>6, NarrowRegion
  <2>4. wrapped' \in BOOLEAN /\ dropped' \in BOOLEAN /\ (wrapped => wrapped')
    BY <1>4, <1>6 DEF VMInv, TypeOK
  <2>5. dropped' => dropped \/ wrapped'
    BY <1>6, <2>3
  <2>6. <<success>> \in Seq(Nat) /\ Len(<<success>>) = Pushes("CALL")
    BY DEF Pushes
  <2>7. \/ /\ UNCHANGED fault
           /\ \E items \in Seq(Nat) : Len(items) = Pushes("CALL") /\ Continue("CALL", items)
        \/ MemoryFault /\ wrapped'
    <3>1. CASE Continue("CALL", <<success>>) /\ UNCHANGED <<arguments, fault>>
      BY <2>6, <3>1
    <3>2. CASE /\ ~InBuffer(in_offset, in_size) \/ (store /\ ~InBuffer(out_offset, stored))
               /\ MemoryFault
      <4>1. Wraps(in_offset, in_size) \/ Wraps(out_offset, out_size)
        BY <1>2, <1>6, <2>3, <3>2, NoWrapInBuffer
      <4>. QED BY <1>6, <3>2, <4>1
    <3>. QED BY <1>6, <3>1, <3>2
  <2>. QED BY <1>1, <2>1, <2>2, <2>4, <2>5, <2>7, MemoryStep
<1>7. CASE ~(/\ Fail /\ size' = expanded /\ wrapped' = wraps
             /\ UNCHANGED <<arguments, fault, dropped>>)
  <2>1. PICK success \in {0, 1}, output_size \in OutputSize :
             LET stored == IF out_size > output_size THEN output_size ELSE out_size
                 store == CanExpand(out_offset, stored)
             IN
             /\ CanExpand(in_offset, in_size) /\ CanExpand(out_offset, out_size)
             /\ size' = IF store THEN expand(expanded, out_offset, stored) ELSE expanded
             /\ wrapped' = wraps
             /\ dropped' = (dropped \/ (~store /\ stored # 0))
             /\ \/ /\ Continue("CALL", <<success>>)
                   /\ UNCHANGED <<arguments, fault>>
                \/ /\ ~InBuffer(in_offset, in_size) \/ (store /\ ~InBuffer(out_offset, stored))
                   /\ MemoryFault
    BY <1>7 DEF Call
  <2>. DEFINE stored == IF out_size > output_size THEN output_size ELSE out_size
  <2>2. stored \in Nat /\ stored <= out_size
    BY <1>2, VMAssumption
  <2>. HIDE DEF stored
  <2>. QED BY <1>6, <2>1, <2>2 DEF stored
<1>. QED BY <1>5, <1>7

------------------------------------------------------------------------------
(* The actions that are not instructions.                                  *)
LEMMA OtherStep ==
    ASSUME VMInv,
           \/ \E value \in OptionValue : set_option(value)
           \/ \E gas \in Gas, length \in CodeSize, input \in InputSize :
                 execute(gas, length, input)
           \/ OutOfGas \/ EndOfCode \/ TakeResult
           \/ \E op \in Op : StackFault(op)
    PROVE  VMInv'
<1>1. ASSUME NEW value \in OptionValue, set_option(value) PROVE VMInv'
  <2>1. verbose' \in -1..9
    BY <1>1, VMAssumption DEF set_option
  <2>. QED BY <1>1, <2>1 DEF set_option, discipline, VMInv, TypeOK, PhaseInv, StackSafe,
                             MemoryFaultOnlyByWrap
<1>2. ASSUME NEW gas \in Gas, NEW length \in CodeSize, NEW input \in InputSize,
             execute(gas, length, input)
      PROVE  VMInv'
  <2>1. gas \in Nat /\ length \in Nat /\ input \in Nat
    BY VMAssumption
  <2>2. TypeOK' /\ PhaseInv' /\ MemoryFaultOnlyByWrap'
    BY <1>2, <2>1 DEF execute, discipline, VMInv, TypeOK, PhaseInv, MemoryFaultOnlyByWrap
  <2>3. Len(stack') = height' /\ fault' = "none"
    BY <1>2, EmptySeq DEF execute, discipline, VMInv, PhaseInv
  <2>4. StackSafe'
    BY <2>3 DEF StackSafe
  <2>. QED BY <2>2, <2>4 DEF VMInv
<1>3. CASE OutOfGas
  BY <1>3 DEF OutOfGas, Return, arguments, discipline, VMInv, TypeOK, PhaseInv, StackSafe,
              MemoryFaultOnlyByWrap
<1>4. CASE EndOfCode
  BY <1>4 DEF EndOfCode, Return, arguments, discipline, VMInv, TypeOK, PhaseInv, StackSafe,
              MemoryFaultOnlyByWrap
<1>5. CASE TakeResult
  <2>1. stack' \in Seq(Nat) /\ Len(stack') = 0
    BY <1>5, EmptySeq DEF TakeResult
  <2>2. fault' = "none"
    BY <1>5 DEF TakeResult, VMInv, PhaseInv
  <2>3. TypeOK'
    <3>1. /\ phase' = "idle" /\ msg_gas' = 0 /\ code_size' = 0 /\ input_size' = 0
          /\ pc' = 0 /\ gas_left' = 0 /\ size' = 0 /\ height' = 0 /\ verbose' = verbose
      BY <1>5 DEF TakeResult
    <3>2. /\ disciplined' \in BOOLEAN /\ wrapped' \in BOOLEAN
          /\ dropped' \in BOOLEAN /\ overread' \in BOOLEAN
      BY <1>5 DEF TakeResult
    <3>. QED BY <2>1, <2>2, <3>1, <3>2, VMAssumption DEF VMInv, TypeOK
  <2>4. PhaseInv'
    BY <1>5, <2>2 DEF TakeResult, PhaseInv
  <2>5. StackSafe'
    BY <1>5, <2>2 DEF TakeResult, StackSafe
  <2>6. MemoryFaultOnlyByWrap'
    BY <1>5, <2>2 DEF TakeResult, MemoryFaultOnlyByWrap
  <2>. QED BY <2>3, <2>4, <2>5, <2>6 DEF VMInv
<1>6. ASSUME NEW op \in Op, StackFault(op) PROVE VMInv'
  <2>1. /\ Charge /\ Account(op) /\ UNCHANGED arguments /\ ~StackAllows(op)
        /\ fault' = "stack" /\ phase' = "undefined" /\ pc' = pc /\ stack' = stack
        /\ UNCHANGED memory
    BY <1>6 DEF StackFault, memory
  <2>2. TypeOK' /\ PhaseInv'
    BY <2>1, Charged DEF memory, VMInv, TypeOK, PhaseInv
  <2>3. StackSafe'
    BY <2>1, Charged DEF StackSafe
  <2>4. MemoryFaultOnlyByWrap'
    BY <2>1 DEF memory, VMInv, MemoryFaultOnlyByWrap
  <2>. QED BY <2>2, <2>3, <2>4 DEF VMInv
<1>. QED BY <1>1, <1>2, <1>3, <1>4, <1>5, <1>6

------------------------------------------------------------------------------
(* The instructions that only work on the stack, or that return at once.   *)
LEMMA SimpleStep ==
    ASSUME VMInv,
           \/ Undefined \/ Stop \/ Add \/ Address \/ CallDataLoad \/ Number
           \/ SLoad \/ SStore \/ MSize \/ Dup1
    PROVE  VMInv'
<1>1. CASE Undefined
  BY <1>1, ReturnInstruction DEF Undefined
<1>2. CASE Stop
  BY <1>2, ReturnInstruction DEF Stop
<1>3. CASE Add
  <2>. DEFINE sum == (to_uint32(stack[1]) + to_uint32(stack[2])) % U32
  <2>1. StackAllows("ADD") /\ 1 \in 1..Pops("ADD") /\ 2 \in 1..Pops("ADD")
    BY <1>3 DEF Add, Instruction, Pops
  <2>2. sum \in Nat
    BY <2>1, Operands, ModIsSmall, VMAssumption
  <2>3. <<sum>> \in Seq(Nat) /\ Len(<<sum>>) = Pushes("ADD")
    BY <2>2 DEF Pushes
  <2>. QED BY <1>3, <2>3, StackInstruction DEF Add
<1>4. CASE Address
  <2>1. PICK word \in HostWord : Continue("ADDRESS", <<word>>)
    BY <1>4 DEF Address
  <2>2. <<word>> \in Seq(Nat) /\ Len(<<word>>) = Pushes("ADDRESS")
    BY VMAssumption DEF Pushes
  <2>. QED BY <1>4, <2>1, <2>2, StackInstruction DEF Address
<1>5. CASE CallDataLoad
  <2>1. PICK word \in Nat : Continue("CALLDATALOAD", <<word>>)
    BY <1>5, VMAssumption DEF CallDataLoad
  <2>2. <<word>> \in Seq(Nat) /\ Len(<<word>>) = Pushes("CALLDATALOAD")
    BY DEF Pushes
  <2>. QED BY <1>5, <2>1, <2>2, StackInstruction DEF CallDataLoad
<1>6. CASE Number
  <2>1. PICK word \in HostWord : Continue("NUMBER", <<to_uint32(word)>>)
    BY <1>6 DEF Number
  <2>2. to_uint32(word) \in Nat
    BY ModIsSmall, VMAssumption DEF to_uint32
  <2>3. <<to_uint32(word)>> \in Seq(Nat) /\ Len(<<to_uint32(word)>>) = Pushes("NUMBER")
    BY <2>2 DEF Pushes
  <2>. QED BY <1>6, <2>1, <2>3, StackInstruction DEF Number
<1>7. CASE SLoad
  <2>1. PICK word \in HostWord : Continue("SLOAD", <<word>>)
    BY <1>7 DEF SLoad
  <2>2. <<word>> \in Seq(Nat) /\ Len(<<word>>) = Pushes("SLOAD")
    BY VMAssumption DEF Pushes
  <2>. QED BY <1>7, <2>1, <2>2, StackInstruction DEF SLoad
<1>8. CASE SStore
  <2>1. << >> \in Seq(Nat) /\ Len(<< >>) = Pushes("SSTORE")
    BY DEF Pushes
  <2>. QED BY <1>8, <2>1, StackInstruction DEF SStore
<1>9. CASE MSize
  <2>1. <<size>> \in Seq(Nat) /\ Len(<<size>>) = Pushes("MSIZE")
    BY DEF Pushes, VMInv, TypeOK
  <2>. QED BY <1>9, <2>1, StackInstruction DEF MSize
<1>10. CASE Dup1
  <2>1. StackAllows("DUP1") /\ 1 \in 1..Pops("DUP1")
    BY <1>10 DEF Dup1, Instruction, Pops
  <2>2. stack[1] \in Nat
    BY <2>1, Operands
  <2>3. <<stack[1], stack[1]>> \in Seq(Nat) /\ Len(<<stack[1], stack[1]>>) = Pushes("DUP1")
    BY <2>2 DEF Pushes
  <2>. QED BY <1>10, <2>3, StackInstruction DEF Dup1
<1>. QED BY <1>1, <1>2, <1>3, <1>4, <1>5, <1>6, <1>7, <1>8, <1>9, <1>10

(* The inductive invariant.                                                *)
LEMMA InitVM == Init => VMInv
<1>. SUFFICES ASSUME Init PROVE VMInv
  OBVIOUS
<1>1. stack \in Seq(Nat) /\ Len(stack) = 0
  BY EmptySeq DEF Init
<1>2. TypeOK
  <2>1. /\ phase = "idle" /\ msg_gas = 0 /\ code_size = 0 /\ input_size = 0
        /\ pc = 0 /\ gas_left = 0 /\ size = 0 /\ height = 0 /\ verbose = 0
        /\ fault = "none"
    BY DEF Init
  <2>2. /\ disciplined \in BOOLEAN /\ wrapped \in BOOLEAN
        /\ dropped \in BOOLEAN /\ overread \in BOOLEAN
    BY DEF Init
  <2>. QED BY <1>1, <2>1, <2>2, VMAssumption DEF TypeOK
<1>3. PhaseInv
  BY DEF Init, PhaseInv
<1>4. StackSafe
  BY DEF Init, StackSafe
<1>5. MemoryFaultOnlyByWrap
  BY DEF Init, MemoryFaultOnlyByWrap
<1>. QED BY <1>2, <1>3, <1>4, <1>5 DEF VMInv

LEMMA NextVM == VMInv /\ [Next]_vars => VMInv'
<1>. SUFFICES ASSUME VMInv, [Next]_vars PROVE VMInv'
  OBVIOUS
<1>1. CASE Step
  <2>1. ASSUME NEW bytes \in 1..MaxPush, PushData(bytes) PROVE VMInv'
    BY <2>1, PushDataStep
  <2>2. CASE ReturnData("RETURN", "SUCCESS") \/ ReturnData("REVERT", "REVERT")
    BY <2>2, ReturnDataStep
  <2>3. CASE MStore \/ Call
    BY <2>3, MStoreStep, CallStep
  <2>4. CASE OutOfGas \/ EndOfCode \/ \E op \in Op : StackFault(op)
    BY <2>4, OtherStep
  <2>5. CASE \/ Undefined \/ Stop \/ Add \/ Address \/ CallDataLoad \/ Number
             \/ SLoad \/ SStore \/ MSize \/ Dup1
    BY <2>5, SimpleStep
  <2>. QED BY <1>1, <2>1, <2>2, <2>3, <2>4, <2>5 DEF Step
<1>2. CASE \/ \E value \in OptionValue : set_option(value)
           \/ \E gas \in Gas, length \in CodeSize, input \in InputSize :
                 execute(gas, length, input)
           \/ TakeResult
  BY <1>2, OtherStep
<1>3. CASE UNCHANGED vars
  BY <1>3 DEF vars, arguments, discipline, VMInv, TypeOK, PhaseInv, StackSafe,
              MemoryFaultOnlyByWrap
<1>. QED BY <1>1, <1>2, <1>3 DEF Next

LEMMA VMInvariant == Spec => []VMInv
<1>. QED BY InitVM, NextVM, PTL DEF Spec

(* Every execution keeps to its types: the stack array, the memory buffer  *)
(* and the gas of the message bound what execute() works with, up to a     *)
(* fault.                                                                  *)
THEOREM TypeCorrect == Spec => []TypeOK
<1>1. VMInv => TypeOK
  BY DEF VMInv
<1>. QED BY <1>1, VMInvariant, PTL

(* Code that respects instruction_metrics.c never leaves the stack array.  *)
THEOREM StackDiscipline == Spec => []StackSafe
<1>1. VMInv => StackSafe
  BY DEF VMInv
<1>. QED BY <1>1, VMInvariant, PTL

(* Memory::expand() is wrong only where its 32-bit sum wraps.              *)
THEOREM MemoryDiscipline == Spec => []MemoryFaultOnlyByWrap
<1>1. VMInv => MemoryFaultOnlyByWrap
  BY DEF VMInv
<1>. QED BY <1>1, VMInvariant, PTL

(* The bytes a PUSH reads from behind the code never matter: the data are  *)
(* skipped with the instruction, so the next test of the loop ends it.  No *)
(* other instruction runs while overread holds, as Charge refuses it.      *)
LEMMA OverreadStep ==
    ASSUME VMInv, OverreadIsHarmless, [Next]_vars
    PROVE  OverreadIsHarmless'
<1>1. pc \in Nat /\ code_size \in Nat
  BY DEF VMInv, TypeOK
<1>2. ASSUME Charge PROVE ~overread
  BY <1>1, <1>2 DEF Charge, OverreadIsHarmless
<1>3. ASSUME phase = "idle" PROVE ~overread
  BY <1>3 DEF OverreadIsHarmless
<1>4. CASE UNCHANGED vars
  BY <1>4 DEF OverreadIsHarmless, vars, arguments
<1>5. CASE \E value \in OptionValue : set_option(value)
  BY <1>3, <1>5 DEF set_option, OverreadIsHarmless
<1>6. CASE \E gas \in Gas, length \in CodeSize, input \in InputSize : execute(gas, length, input)
  BY <1>3, <1>6 DEF execute, OverreadIsHarmless
<1>7. CASE \/ Undefined \/ Stop \/ Add \/ Address \/ CallDataLoad \/ Number \/ SLoad
           \/ SStore \/ MSize \/ Dup1
  BY <1>2, <1>7 DEF Undefined, Stop, Add, Address, CallDataLoad, Number, SLoad, SStore,
                   MSize, Dup1, Instruction, memory, OverreadIsHarmless
<1>8. CASE MStore \/ Call \/ ReturnData("RETURN", "SUCCESS") \/ ReturnData("REVERT", "REVERT")
  BY <1>2, <1>8 DEF MStore, Call, ReturnData, MemoryInstruction, OverreadIsHarmless
<1>9. ASSUME NEW bytes \in 1..MaxPush, PushData(bytes) PROVE OverreadIsHarmless'
  <2>1. /\ ~overread /\ phase' = "running"
        /\ pc' = pc + bytes + 1 /\ code_size' = code_size
        /\ overread' => pc + bytes >= code_size
    BY <1>2, <1>9 DEF PushData, Instruction, Charge, arguments
  <2>2. overread' => pc' >= code_size'
    <3>1. bytes \in Nat
      BY VMAssumption
    <3>. QED BY <1>1, <2>1, <3>1
  <2>3. phase' = "running"
    BY <2>1
  <2>. QED BY <2>2, <2>3 DEF OverreadIsHarmless
<1>10. CASE OutOfGas \/ \E op \in Op : StackFault(op)
  <2>1. pc < code_size /\ overread' = overread
    BY <1>10 DEF OutOfGas, StackFault, Charge
  <2>. QED BY <1>1, <2>1 DEF OverreadIsHarmless
<1>11. CASE EndOfCode
  <2>1. /\ phase' = "returned" /\ ~(pc < code_size)
        /\ pc' = pc /\ code_size' = code_size
        /\ result' \in make_result("SUCCESS", gas_left, 0)
    BY <1>11 DEF EndOfCode, Return, arguments
  <2>2. result'.status_code = "SUCCESS" /\ result'.output_size = 0
    BY <2>1 DEF make_result, ZeroResult, Contract!ZeroResult
  <2>. QED BY <1>1, <2>1, <2>2 DEF OverreadIsHarmless
<1>12. CASE TakeResult
  BY <1>12 DEF TakeResult, OverreadIsHarmless
<1>. QED
  BY <1>4, <1>5, <1>6, <1>7, <1>8, <1>9, <1>10, <1>11, <1>12 DEF Next, Step

(* PUSH data missing at the end of the code are read from behind it, and   *)
(* the execution then ends with success and no output, whatever was read.  *)
THEOREM OverreadHasNoEffect == Spec => []OverreadIsHarmless
<1>1. Init => OverreadIsHarmless
  BY DEF Init, OverreadIsHarmless
<1>2. VMInv /\ OverreadIsHarmless /\ [Next]_vars => OverreadIsHarmless'
  BY OverreadStep
<1>. QED BY <1>1, <1>2, VMInvariant, PTL DEF Spec

------------------------------------------------------------------------------
(* The results qrvmc_make_result() makes satisfy the conditions of         *)
(* struct qrvmc_result, if gas and output are given with success only.     *)
LEMMA MadeResults ==
    ASSUME NEW gas \in Nat, NEW left \in 0..gas, NEW length \in Nat,
           NEW status \in Contract!StatusCode,
           status \notin {"SUCCESS", "REVERT"} => left = 0 /\ length = 0,
           NEW r \in make_result(status, left, length)
    PROVE  Contract!ValidResult(r, gas)
<1>1. CASE r = [ZeroResult EXCEPT !.status_code = status, !.gas_left = left,
                                  !.has_output = length # 0, !.output_size = length,
                                  !.release = length # 0]
  <2>1. /\ r.status_code = status /\ r.gas_left = left /\ r.gas_refund = 0
        /\ r.output_size = length
        /\ r.has_output = (length # 0) /\ r.release = (length # 0)
    BY <1>1 DEF ZeroResult, Contract!ZeroResult
  <2>. QED BY <2>1 DEF Contract!ValidResult
<1>2. CASE r = [ZeroResult EXCEPT !.status_code = "OUT_OF_MEMORY"]
  <2>1. /\ r.status_code = "OUT_OF_MEMORY" /\ r.gas_left = 0 /\ r.gas_refund = 0
        /\ r.output_size = 0
        /\ r.has_output = FALSE /\ r.release = FALSE
    BY <1>2 DEF ZeroResult, Contract!ZeroResult
  <2>. QED BY <2>1 DEF Contract!ValidResult, Contract!StatusCode
<1>. QED BY <1>1, <1>2 DEF make_result

(* The steps of an execution, as the contract sees them.                   *)
LEMMA ReturnIsReturn ==
    ASSUME VMInv, phase = "running", UNCHANGED msg_gas,
           NEW status \in Contract!StatusCode, NEW left \in 0..msg_gas,
           NEW length \in Nat,
           status \notin {"SUCCESS", "REVERT"} => left = 0 /\ length = 0,
           Return(make_result(status, left, length))
    PROVE  Contract!Return
<1>1. phase' = "returned" /\ result' \in make_result(status, left, length)
  BY DEF Return
<1>2. Contract!ValidResult(result', msg_gas)
  BY <1>1, MadeResults DEF VMInv, TypeOK
<1>. QED BY <1>1, <1>2 DEF Contract!Return

LEMMA GoingOnIsStuttering ==
    ASSUME phase = "running", phase' \in {"running", "undefined"},
           UNCHANGED <<msg_gas, result>>
    PROVE  UNCHANGED Contract!contractVars
BY DEF Contract!contractVars

LEMMA StepRefines ==
    ASSUME VMInv, Step
    PROVE  Contract!Return \/ UNCHANGED Contract!contractVars
<1>. USE DEF Contract!StatusCode
<1>1. phase = "running" /\ UNCHANGED msg_gas
  BY DEF Step, Undefined, Stop, Add, Address, CallDataLoad, Number, SLoad, SStore, MSize,
         Dup1, MStore, Call, ReturnData, PushData, OutOfGas, StackFault, EndOfCode,
         Instruction, MemoryInstruction, Charge, MemoryFault, arguments
<1>2. gas_left \in 0..msg_gas /\ msg_gas \in Nat
  BY <1>1 DEF VMInv, TypeOK, PhaseInv
<1>3. ASSUME Charge PROVE gas_left' \in 0..msg_gas
  BY <1>2, <1>3 DEF Charge
<1>4. ASSUME Fail PROVE Contract!Return
  BY <1>1, <1>2, <1>4, ReturnIsReturn DEF Fail
<1>5. ASSUME MemoryFault PROVE UNCHANGED Contract!contractVars
  BY <1>1, <1>5, GoingOnIsStuttering DEF MemoryFault
<1>6. ASSUME NEW op, NEW items, Continue(op, items) PROVE UNCHANGED Contract!contractVars
  BY <1>1, <1>6, GoingOnIsStuttering DEF Continue
<1>7. CASE Undefined
  BY <1>1, <1>2, <1>7, ReturnIsReturn DEF Undefined
<1>8. CASE Stop
  BY <1>1, <1>3, <1>8, ReturnIsReturn DEF Stop, Instruction
<1>9. CASE OutOfGas
  BY <1>1, <1>2, <1>9, ReturnIsReturn DEF OutOfGas
<1>10. CASE EndOfCode
  BY <1>1, <1>2, <1>10, ReturnIsReturn DEF EndOfCode
<1>11. CASE Add \/ Address \/ CallDataLoad \/ Number \/ SLoad \/ SStore \/ MSize \/ Dup1
  BY <1>6, <1>11 DEF Add, Address, CallDataLoad, Number, SLoad, SStore, MSize, Dup1
<1>12. CASE \E bytes \in 1..MaxPush : PushData(bytes)
  BY <1>1, <1>12, GoingOnIsStuttering DEF PushData
<1>13. CASE \E op \in Op : StackFault(op)
  BY <1>1, <1>13, GoingOnIsStuttering DEF StackFault
<1>14. CASE MStore
  BY <1>4, <1>5, <1>6, <1>14 DEF MStore
<1>15. CASE Call
  BY <1>4, <1>5, <1>6, <1>15 DEF Call
<1>16. ASSUME NEW op \in {"RETURN", "REVERT"}, NEW status \in {"SUCCESS", "REVERT"},
              ReturnData(op, status)
       PROVE  Contract!Return \/ UNCHANGED Contract!contractVars
  <2>. DEFINE length == to_uint32(stack[2])
  <2>1. length \in Nat
    <3>1. StackAllows(op) /\ 2 \in 1..Pops(op)
      BY <1>16 DEF ReturnData, MemoryInstruction, Pops
    <3>. QED BY <3>1, Operands
  <2>2. gas_left' \in 0..msg_gas
    BY <1>3, <1>16 DEF ReturnData, MemoryInstruction
  <2>3. Fail \/ MemoryFault \/ Return(make_result(status, gas_left', length))
    BY <1>16 DEF ReturnData
  <2>4. CASE Return(make_result(status, gas_left', length))
    BY <1>1, <2>1, <2>2, <2>4, ReturnIsReturn
  <2>. QED BY <1>4, <1>5, <2>3, <2>4
<1>. QED BY <1>7, <1>8, <1>9, <1>10, <1>11, <1>12, <1>13, <1>14, <1>15, <1>16 DEF Step

(* The example VM does what qrvmc.h promises of qrvmc_execute_fn: each     *)
(* execution returns at most one result, its gas_left is within the gas of *)
(* the message and zero after a failure, it has an output only where the   *)
(* status allows one, and a release function exactly if it has an output.  *)
THEOREM Refinement == Spec => ImplementsContract
<1>1. Init => Contract!Init
  BY DEF Init, ZeroResult, Contract!Init
<1>2. ASSUME VMInv, [Next]_vars PROVE [Contract!Next]_(Contract!contractVars)
  <2>1. CASE Step
    BY <1>2, <2>1, StepRefines DEF Contract!Next
  <2>2. CASE \E value \in OptionValue : set_option(value)
    BY <2>2 DEF set_option, Contract!contractVars
  <2>3. CASE \E gas \in Gas, length \in CodeSize, input \in InputSize :
                 execute(gas, length, input)
    BY <2>3 DEF execute, Contract!Next, Contract!Execute
  <2>4. CASE TakeResult
    BY <2>4 DEF TakeResult, ZeroResult, Contract!Next, Contract!Take
  <2>5. CASE UNCHANGED vars
    BY <2>5 DEF vars, arguments, Contract!contractVars
  <2>. QED BY <1>2, <2>1, <2>2, <2>3, <2>4, <2>5 DEF Next
<1>. QED BY <1>1, <1>2, VMInvariant, PTL DEF Spec, ImplementsContract, Contract!Spec

==============================================================================
