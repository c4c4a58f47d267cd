--------------------------- MODULE MockedHostProofs ---------------------------
(***************************************************************************)
(* The storage status for every set of values and every choice of the cost *)
(* constants, then invariants of MockedHost for every set of accounts,     *)
(* keys, values and inputs and for every value of the two caps, and last   *)
(* what the statuses add up to for a VM that charges by them.              *)
(***************************************************************************)
EXTENDS StorageGas, TLAPS

(* The clauses a write to a dirty slot triggers, case by case: the only    *)
(* combinations that occur are the ones the switch of set_storage lists.   *)
LEMMA DirtyClauses ==
    ASSUME NEW o, NEW c, NEW v, o # c, c # v
    PROVE  /\ o = Zero /\ v = Zero => TriggeredClauses(o, c, v) = {"RestoredBySet"}
           /\ o = Zero /\ v # Zero => TriggeredClauses(o, c, v) = {}
           /\ o # Zero /\ c = Zero /\ v = o =>
                 TriggeredClauses(o, c, v) = {"RemoveClearsSchedule", "RestoredByReset"}
           /\ o # Zero /\ c = Zero /\ v # o =>
                 TriggeredClauses(o, c, v) = {"RemoveClearsSchedule"}
           /\ o # Zero /\ c # Zero /\ v = o =>
                 TriggeredClauses(o, c, v) = {"RestoredByReset"}
           /\ o # Zero /\ c # Zero /\ v = Zero =>
                 TriggeredClauses(o, c, v) = {"AddClearsSchedule"}
           /\ o # Zero /\ c # Zero /\ v # o /\ v # Zero => TriggeredClauses(o, c, v) = {}
BY DEF TriggeredClauses

(* The switch of set_storage, read backwards.                              *)
LEMMA ClauseStatusTable ==
    /\ ClauseStatus({}) = "ASSIGNED"
    /\ ClauseStatus({"RestoredBySet"}) = "ADDED_DELETED"
    /\ ClauseStatus({"RemoveClearsSchedule"}) = "DELETED_ADDED"
    /\ ClauseStatus({"AddClearsSchedule"}) = "MODIFIED_DELETED"
    /\ ClauseStatus({"RestoredByReset"}) = "MODIFIED_RESTORED"
    /\ ClauseStatus({"RemoveClearsSchedule", "RestoredByReset"}) = "DELETED_RESTORED"
BY DEF ClauseStatus

(* The status of every write, by cases on the three values.                *)
LEMMA StatusCases ==
    ASSUME NEW o, NEW c, NEW v
    PROVE  /\ c = v => StatusOf(o, c, v) = "ASSIGNED"
           /\ c # v /\ o = c /\ o = Zero => StatusOf(o, c, v) = "ADDED"
           /\ c # v /\ o = c /\ o # Zero /\ v = Zero => StatusOf(o, c, v) = "DELETED"
           /\ c # v /\ o = c /\ o # Zero /\ v # Zero => StatusOf(o, c, v) = "MODIFIED"
           /\ c # v /\ o # c /\ o = Zero /\ v = Zero => StatusOf(o, c, v) = "ADDED_DELETED"
           /\ c # v /\ o # c /\ o = Zero /\ v # Zero => StatusOf(o, c, v) = "ASSIGNED"
           /\ c # v /\ o # c /\ o # Zero /\ c = Zero /\ v = o =>
                 StatusOf(o, c, v) = "DELETED_RESTORED"
           /\ c # v /\ o # c /\ o # Zero /\ c = Zero /\ v # o =>
                 StatusOf(o, c, v) = "DELETED_ADDED"
           /\ c # v /\ o # c /\ o # Zero /\ c # Zero /\ v = o =>
                 StatusOf(o, c, v) = "MODIFIED_RESTORED"
           /\ c # v /\ o # c /\ o # Zero /\ c # Zero /\ v = Zero =>
                 StatusOf(o, c, v) = "MODIFIED_DELETED"
           /\ c # v /\ o # c /\ o # Zero /\ c # Zero /\ v # o /\ v # Zero =>
                 StatusOf(o, c, v) = "ASSIGNED"
<1>1. CASE c = v
  BY <1>1 DEF StatusOf
<1>2. CASE c # v /\ o = c
  BY <1>2 DEF StatusOf, CleanStatus
<1>3. CASE c # v /\ o # c
  <2>1. ClauseAssertsHold(o, c, v)
    BY <1>3 DEF ClauseAssertsHold
  <2>2. StatusOf(o, c, v) = ClauseStatus(TriggeredClauses(o, c, v))
    BY <1>3, <2>1 DEF StatusOf, DirtyStatus
  <2> QED
    BY <1>3, <2>2, DirtyClauses, ClauseStatusTable
<1> QED
  BY <1>1, <1>2, <1>3

(* The clause tree of set_storage and the four-check lookup of the         *)
(* document return the same status for every original, current and new     *)
(* value: no assertion of the clause tree fails and the combinations the   *)
(* document calls impossible are.                                          *)
THEOREM StatusIsChecksumStatus ==
    ASSUME NEW o, NEW c, NEW v
    PROVE  /\ StatusOf(o, c, v) \in Status
           /\ StatusOf(o, c, v) = ChecksumStatus(Checksum(o, c, v))
<1>1. StatusOf(o, c, v) \in Status
  BY StatusCases DEF Status
<1>2. CASE c = v
  BY <1>1, <1>2, StatusCases DEF Checksum, ChecksumStatus
<1>3. CASE c # v /\ o = c
  BY <1>1, <1>3, StatusCases DEF Checksum, ChecksumStatus
<1>4. CASE c # v /\ o # c
  BY <1>1, <1>4, StatusCases DEF Checksum, ChecksumStatus
<1> QED
  BY <1>2, <1>3, <1>4

------------------------------------------------------------------------------
(* Appending to a sequence of elements of S.                               *)
LEMMA AppendFacts ==
    ASSUME NEW S, NEW s \in Seq(S), NEW x \in S
    PROVE  /\ Append(s, x) \in Seq(S)
           /\ Len(s) \in Nat
           /\ Len(Append(s, x)) = Len(s) + 1
           /\ \A i \in 1..Len(s) : Append(s, x)[i] = s[i]
           /\ Append(s, x)[Len(s) + 1] = x
           /\ Range(Append(s, x)) = Range(s) \cup {x}
<1>1. /\ Append(s, x) \in Seq(S)
      /\ Len(s) \in Nat
      /\ Len(Append(s, x)) = Len(s) + 1
      /\ \A i \in 1..Len(s) : Append(s, x)[i] = s[i]
      /\ Append(s, x)[Len(s) + 1] = x
      /\ DOMAIN s = 1..Len(s)
      /\ DOMAIN Append(s, x) = 1..(Len(s) + 1)
  OBVIOUS
<1>2. Range(Append(s, x)) = Range(s) \cup {x}
  BY <1>1 DEF Range
<1> QED
  BY <1>1, <1>2

------------------------------------------------------------------------------
(* Type correctness.                                                       *)

(* Recording an access keeps the record a sequence of addresses.           *)
LEMMA RecordAccessType ==
    ASSUME TypeOK, NEW a \in Addr, record_account_access(a)
    PROVE  /\ recorded_account_accesses' \in Seq(Addr)
           /\ touched' \subseteq Addr
BY AppendFacts DEF TypeOK, record_account_access

(* One slot of the storage changes to another StorageValue.                *)
LEMMA StorageUpdateType ==
    ASSUME storage \in [Addr -> [Key -> StorageValue]],
           NEW a \in Addr, NEW k \in Key, NEW s \in StorageValue
    PROVE  [storage EXCEPT ![a][k] = s] \in [Addr -> [Key -> StorageValue]]
OBVIOUS

(* Each field of a StorageValue may be replaced by a value of its type.    *)
LEMMA SlotFieldType ==
    ASSUME NEW s \in StorageValue
    PROVE  /\ \A v \in Value : [s EXCEPT !.current = v] \in StorageValue
           /\ \A v \in Value : [s EXCEPT !.original = v] \in StorageValue
           /\ [s EXCEPT !.access_status = "WARM"] \in StorageValue
           /\ s.current \in Value /\ s.original \in Value
           /\ s.access_status \in AccessStatus
BY DEF StorageValue, AccessStatus

(* A query method preserves the types.                                     *)
LEMMA QueryType ==
    ASSUME TypeOK, NEW a \in Addr, Query(a)
    PROVE  TypeOK'
BY RecordAccessType DEF TypeOK, Query, world, calls

(* Recording a call preserves the types.                                   *)
LEMMA CallType ==
    ASSUME TypeOK, NEW a \in Addr, NEW input \in Input \cup {NoInput}, call(a, input)
    PROVE  TypeOK'
<1>1. /\ recorded_account_accesses' \in Seq(Addr)
      /\ touched' \subseteq Addr
  BY RecordAccessType DEF call
<1>2. ReservedCapacity \in Nat
  BY HostAssumption DEF TypeOK, ReservedCapacity
<1>3. /\ recorded_calls' \in Seq(RecordedCall)
      /\ m_recorded_calls_inputs' \in Seq(Input)
      /\ inputs_capacity' \in Nat
      /\ generation' \in Nat
  <2>1. CASE input \in Input /\ RecordInput(a, input)
    <3>1. /\ m_recorded_calls_inputs' \in Seq(Input)
          /\ Len(m_recorded_calls_inputs') \in Nat
      BY <2>1, AppendFacts DEF TypeOK, RecordInput
    <3>2. inputs_capacity' \in Nat /\ generation' \in Nat
      BY <2>1, <1>2 DEF TypeOK, RecordInput
    <3>3. [recipient |-> a, input |-> input,
           data |-> [index |-> Len(m_recorded_calls_inputs'),
                     generation |-> generation']] \in RecordedCall
      BY <2>1, <3>1, <3>2 DEF RecordedCall, Pointer
    <3> QED
      BY <2>1, <3>1, <3>2, <3>3, AppendFacts DEF TypeOK, RecordInput
  <2>2. CASE input = NoInput /\ RecordEmptyInput(a)
    <3>1. [recipient |-> a, input |-> NoInput, data |-> CallerPointer] \in RecordedCall
      BY DEF RecordedCall, Pointer, CallerPointer
    <3> QED
      BY <2>2, <1>2, <3>1, AppendFacts DEF TypeOK, RecordEmptyInput
  <2>3. CASE UNCHANGED <<recorded_calls, m_recorded_calls_inputs,
                         inputs_capacity, generation>>
    BY <2>3 DEF TypeOK
  <2> QED
    BY <2>1, <2>2, <2>3 DEF call
<1> QED
  BY <1>1, <1>3 DEF TypeOK, call, world

(* Every state the host reaches is well typed.                             *)
LEMMA TypeStep == TypeOK /\ [Next]_hostVars => TypeOK'
<1> SUFFICES ASSUME TypeOK, [Next]_hostVars PROVE TypeOK'
  OBVIOUS
<1>1. ASSUME NEW a \in Addr, NEW k \in Key, NEW v \in Value, set_storage(a, k, v)
      PROVE  TypeOK'
  <2>0. storage[a][k] \in StorageValue
    BY <1>1 DEF TypeOK
  <2>1. [storage[a][k] EXCEPT !.current = v] \in StorageValue
    BY <1>1, <2>0, SlotFieldType
  <2>2. storage' = [storage EXCEPT ![a][k] = [storage[a][k] EXCEPT !.current = v]]
    BY <1>1 DEF set_storage, TypeOK
  <2>3. storage' \in [Addr -> [Key -> StorageValue]]
    BY <1>1, <2>1, <2>2, StorageUpdateType DEF TypeOK
  <2> QED
    BY <1>1, <2>3, RecordAccessType DEF TypeOK, set_storage, calls
<1>2. ASSUME NEW a \in Addr, NEW k \in Key, CommitSlot(a, k)
      PROVE  TypeOK'
  <2>0. storage[a][k] \in StorageValue
    BY <1>2 DEF TypeOK
  <2>1. [storage[a][k] EXCEPT !.original = storage[a][k].current] \in StorageValue
    BY <1>2, <2>0, SlotFieldType
  <2>2. storage' = [storage EXCEPT ![a][k] = [storage[a][k] EXCEPT !.original = storage[a][k].current]]
    BY <1>2 DEF CommitSlot, TypeOK
  <2>3. storage' \in [Addr -> [Key -> StorageValue]]
    BY <1>2, <2>1, <2>2, StorageUpdateType DEF TypeOK
  <2> QED
    BY <1>2, <2>3 DEF TypeOK, CommitSlot, calls, accesses
<1>3. ASSUME NEW a \in Addr, NEW k \in Key, access_storage(a, k)
      PROVE  TypeOK'
  <2>0. storage[a][k] \in StorageValue
    BY <1>3 DEF TypeOK
  <2>1. [storage[a][k] EXCEPT !.access_status = "WARM"] \in StorageValue
    BY <1>3, <2>0, SlotFieldType
  <2>2. storage' = [storage EXCEPT ![a][k] = [storage[a][k] EXCEPT !.access_status = "WARM"]]
    BY <1>3 DEF access_storage, TypeOK
  <2>3. storage' \in [Addr -> [Key -> StorageValue]]
    BY <1>3, <2>1, <2>2, StorageUpdateType DEF TypeOK
  <2> QED
    BY <1>3, <2>3 DEF TypeOK, access_storage, calls, accesses
<1>4. ASSUME NEW b \in Block, get_block_hash(b) PROVE TypeOK'
  BY <1>4, AppendFacts DEF TypeOK, get_block_hash, world, calls, accesses
<1>5. ASSUME NEW a \in Addr, NEW l \in Log, emit_log(a, l) PROVE TypeOK'
  <2>1. [creator |-> a, log |-> l] \in [creator : Addr, log : Log]
    BY <1>5
  <2> QED
    BY <1>5, <2>1, AppendFacts DEF TypeOK, emit_log, world, calls, accesses
<1>6. CASE ClearRecordedCalls
  BY <1>6 DEF TypeOK, ClearRecordedCalls, world, accesses
<1>7. CASE UNCHANGED hostVars
  BY <1>7 DEF TypeOK, hostVars, world, calls, accesses
<1> QED
  BY <1>1, <1>2, <1>3, <1>4, <1>5, <1>6, <1>7, QueryType, CallType
     DEF Next, OtherMethods, account_exists, get_storage, get_balance,
         get_code_size, get_code_hash, copy_code, access_account

(* Type correctness of the host: every method leaves the world, the        *)
(* records and the pointers of the recorded calls well typed.              *)
THEOREM TypeCorrect == Spec => []TypeOK
<1>1. Init => TypeOK
  BY DEF Init, TypeOK
<1> QED
  BY <1>1, TypeStep, PTL DEF Spec

------------------------------------------------------------------------------
(* The record of accesses.                                                 *)

(* The record never holds an address that was not touched, and misses a    *)
(* touched one only when it is full.  AccessStatusBelowCap alone is not    *)
(* inductive: it says nothing of the size of the record.                   *)
AccessInv ==
    /\ Len(recorded_account_accesses) <= MaxRecordedAccesses
    /\ Range(recorded_account_accesses) \subseteq touched
    /\ Len(recorded_account_accesses) < MaxRecordedAccesses =>
          touched \subseteq Range(recorded_account_accesses)

(* Recording an access keeps the record in step with the history.          *)
LEMMA RecordAccessInv ==
    ASSUME TypeOK, AccessInv, NEW a \in Addr, record_account_access(a)
    PROVE  AccessInv'
<1> DEFINE s == recorded_account_accesses
<1>0. s \in Seq(Addr) /\ Len(s) \in Nat
  BY DEF TypeOK
<1>1. CASE Len(s) < MaxRecordedAccesses
  <2>1. /\ s' = Append(s, a)
        /\ touched' = touched \cup {a}
    BY <1>1 DEF record_account_access
  <2>2. /\ Len(s') = Len(s) + 1
        /\ Range(s') = Range(s) \cup {a}
    BY <1>0, <2>1, AppendFacts
  <2>3. Len(s') <= MaxRecordedAccesses
    BY <1>0, <1>1, <2>2, HostAssumption
  <2> QED
    BY <1>1, <2>1, <2>2, <2>3 DEF AccessInv
<1>2. CASE ~(Len(s) < MaxRecordedAccesses)
  BY <1>2 DEF record_account_access, AccessInv
<1> QED
  BY <1>1, <1>2

(* The methods that record no access leave the invariant alone.            *)
LEMMA AccessInvStep == TypeOK /\ AccessInv /\ [Next]_hostVars => AccessInv'
<1> SUFFICES ASSUME TypeOK, AccessInv, [Next]_hostVars PROVE AccessInv'
  OBVIOUS
<1>1. ASSUME NEW a \in Addr, record_account_access(a) PROVE AccessInv'
  BY <1>1, RecordAccessInv
<1>2. CASE UNCHANGED accesses
  BY <1>2 DEF AccessInv, accesses
<1> QED
  BY <1>1, <1>2
     DEF Next, OtherMethods, hostVars, account_exists, get_storage, get_balance,
         get_code_size, get_code_hash, copy_code, access_account, Query,
         set_storage, call, CommitSlot, access_storage, get_block_hash, emit_log,
         ClearRecordedCalls

(* access_account never reports an untouched account warm, and reports a   *)
(* touched one cold only when the record of accesses is full.              *)
THEOREM AccessStatusCorrect == Spec => []AccessStatusBelowCap
<1>1. Init => AccessInv
  BY HostAssumption DEF Init, AccessInv, Range
<1>2. TypeOK /\ AccessInv => AccessStatusBelowCap
  <2> SUFFICES ASSUME TypeOK, AccessInv, NEW a \in Addr \ Precompile
               PROVE  /\ AccessAccountStatus(a) = "WARM" => a \in touched
                      /\ /\ AccessAccountStatus(a) = "COLD"
                         /\ a \in touched
                         => Len(recorded_account_accesses) = MaxRecordedAccesses
    BY DEF AccessStatusBelowCap
  <2>1. Len(recorded_account_accesses) \in Nat
    BY DEF TypeOK
  <2> QED
    BY <2>1, HostAssumption DEF AccessInv, AccessAccountStatus
<1> QED
  BY <1>1, <1>2, AccessInvStep, TypeCorrect, PTL DEF Spec

------------------------------------------------------------------------------
(* The inputs of the recorded calls.                                       *)

(* The pointer of a recorded call designates the copy of its input, in the *)
(* place the copy had when it was made or a later one.                     *)
CallPointerOK(c, inputs, gen) ==
    c.input # NoInput =>
        /\ c.data.index \in 1..Len(inputs)
        /\ inputs[c.data.index] = c.input
        /\ c.data.generation <= gen

(* The copies move for the first time when one more than the reserved      *)
(* number of them is made, and there are never more of them than recorded  *)
(* calls unless the record was cleared.                                    *)
CallsInv ==
    /\ Len(recorded_calls) <= MaxRecordedCalls
    /\ recorded_calls # << >> => inputs_capacity >= MaxRecordedCalls
    /\ Len(m_recorded_calls_inputs) <= inputs_capacity
    /\ clears = 0 => Len(m_recorded_calls_inputs) <= Len(recorded_calls)
    /\ Len(m_recorded_calls_inputs) <= MaxRecordedCalls => generation = 0
    /\ \A i \in 1..Len(recorded_calls) :
          CallPointerOK(recorded_calls[i], m_recorded_calls_inputs, generation)

(* call() keeps the copies and the pointers to them in step.               *)
LEMMA CallKeepsInv ==
    ASSUME TypeOK, CallsInv, NEW a \in Addr, NEW input \in Input \cup {NoInput},
           call(a, input)
    PROVE  CallsInv'
<1> DEFINE ins == m_recorded_calls_inputs
           rec == recorded_calls
           cap == ReservedCapacity
<1>0. /\ ins \in Seq(Input) /\ Len(ins) \in Nat
      /\ rec \in Seq(RecordedCall) /\ Len(rec) \in Nat
      /\ inputs_capacity \in Nat /\ generation \in Nat
      /\ MaxRecordedCalls \in Nat \ {0}
  BY HostAssumption DEF TypeOK
<1>1. /\ cap \in Nat
      /\ cap >= MaxRecordedCalls
      /\ Len(ins) <= cap
  BY <1>0 DEF CallsInv, ReservedCapacity
<1>2. clears' = clears
  BY DEF call
<1>3. CASE Len(rec) < MaxRecordedCalls /\ input \in Input /\ RecordInput(a, input)
  <2> DEFINE c == [recipient |-> a, input |-> input,
                   data |-> [index |-> Len(ins'), generation |-> generation']]
  <2>1. /\ ins' = Append(ins, input)
        /\ Len(ins') = Len(ins) + 1
        /\ \A i \in 1..Len(ins) : ins'[i] = ins[i]
        /\ ins'[Len(ins) + 1] = input
    BY <1>0, <1>3, AppendFacts DEF RecordInput
  <2>2. /\ generation' = IF Len(ins) = cap THEN generation + 1 ELSE generation
        /\ inputs_capacity' = IF Len(ins) = cap THEN 2 * cap ELSE cap
    BY <1>3 DEF RecordInput, InputsFull
  <2>3. /\ inputs_capacity' \in Nat /\ generation' \in Nat
        /\ generation <= generation'
        /\ inputs_capacity' >= MaxRecordedCalls
        /\ Len(ins') <= inputs_capacity'
        /\ Len(ins') <= MaxRecordedCalls => generation' = 0
    BY <1>0, <1>1, <2>1, <2>2 DEF CallsInv
  <2>4. c \in RecordedCall
    BY <1>0, <1>3, <2>1, <2>3 DEF RecordedCall, Pointer
  <2>5. rec' = Append(rec, c)
    BY <1>3 DEF RecordInput
  <2>6. /\ Len(rec') = Len(rec) + 1
        /\ \A i \in 1..Len(rec) : rec'[i] = rec[i]
        /\ rec'[Len(rec) + 1] = c
        /\ rec' # << >>
    BY <1>0, <2>4, <2>5, AppendFacts
  <2>7. CallPointerOK(c, ins', generation')
    BY <1>0, <2>1, <2>3 DEF CallPointerOK
  <2>8. ASSUME NEW i \in 1..Len(rec) PROVE CallPointerOK(rec'[i], ins', generation')
    <3>1. CallPointerOK(rec[i], ins, generation)
      BY <2>8 DEF CallsInv
    <3>2. rec[i] \in RecordedCall
      BY <1>0, <2>8
    <3>3. rec[i].data.index \in Nat /\ rec[i].data.generation \in Nat
      BY <3>2 DEF RecordedCall, Pointer
    <3>4. rec'[i] = rec[i]
      BY <2>6, <2>8
    <3>5. CASE rec[i].input = NoInput
      BY <3>4, <3>5 DEF CallPointerOK
    <3>6. CASE rec[i].input # NoInput
      <4>1. /\ rec[i].data.index \in 1..Len(ins)
            /\ ins[rec[i].data.index] = rec[i].input
            /\ rec[i].data.generation <= generation
        BY <3>1, <3>6 DEF CallPointerOK
      <4>2. /\ rec[i].data.index \in 1..Len(ins')
            /\ ins'[rec[i].data.index] = rec[i].input
            /\ rec[i].data.generation <= generation'
        BY <1>0, <2>1, <2>3, <3>3, <4>1
      <4> QED
        BY <3>4, <4>2 DEF CallPointerOK
    <3> QED
      BY <3>5, <3>6
  <2>9. \A i \in 1..Len(rec') : CallPointerOK(rec'[i], ins', generation')
    BY <1>0, <2>6, <2>7, <2>8
  <2>10. /\ Len(rec') <= MaxRecordedCalls
         /\ clears' = 0 => Len(ins') <= Len(rec')
    BY <1>0, <1>2, <1>3, <2>1, <2>6 DEF CallsInv
  <2> QED
    BY <2>3, <2>9, <2>10 DEF CallsInv
<1>4. CASE Len(rec) < MaxRecordedCalls /\ input = NoInput /\ RecordEmptyInput(a)
  <2> DEFINE c == [recipient |-> a, input |-> NoInput, data |-> CallerPointer]
  <2>1. /\ ins' = ins /\ generation' = generation
        /\ inputs_capacity' = cap
        /\ rec' = Append(rec, c)
    BY <1>4 DEF RecordEmptyInput
  <2>2. c \in RecordedCall
    BY DEF RecordedCall, Pointer, CallerPointer
  <2>3. /\ Len(rec') = Len(rec) + 1
        /\ \A i \in 1..Len(rec) : rec'[i] = rec[i]
        /\ rec'[Len(rec) + 1] = c
    BY <1>0, <2>1, <2>2, AppendFacts
  <2>4. \A i \in 1..Len(rec') : CallPointerOK(rec'[i], ins', generation')
    BY <1>0, <2>1, <2>3 DEF CallPointerOK, CallsInv
  <2> QED
    BY <1>0, <1>1, <1>2, <1>4, <2>1, <2>3, <2>4 DEF CallsInv
<1>5. CASE UNCHANGED <<recorded_calls, m_recorded_calls_inputs,
                       inputs_capacity, generation>>
  BY <1>2, <1>5 DEF CallsInv, CallPointerOK
<1> QED
  BY <1>3, <1>4, <1>5 DEF call

(* Every step of the host keeps the calls and their inputs in step.        *)
LEMMA CallsInvStep == TypeOK /\ CallsInv /\ [Next]_hostVars => CallsInv'
<1> SUFFICES ASSUME TypeOK, CallsInv, [Next]_hostVars PROVE CallsInv'
  OBVIOUS
<1>1. CASE ClearRecordedCalls
  <2>1. /\ Len(recorded_calls') = 0
        /\ recorded_calls' = << >>
        /\ clears' # 0
    BY <1>1 DEF ClearRecordedCalls, TypeOK
  <2> QED
    BY <1>1, <2>1, HostAssumption DEF CallsInv, ClearRecordedCalls
<1>2. CASE UNCHANGED calls
  BY <1>2 DEF CallsInv, CallPointerOK, calls
<1> QED
  BY <1>1, <1>2, CallKeepsInv
     DEF Next, OtherMethods, hostVars, account_exists, get_storage, get_balance,
         get_code_size, get_code_hash, copy_code, access_account, Query,
         set_storage, CommitSlot, access_storage, get_block_hash, emit_log

(* The input of a recorded call can be read through its pointer as long as *)
(* nobody clears the record, or the copies fit the reserved capacity: the  *)
(* reserve() of call() is what keeps short inputs where they are.          *)
THEOREM CallInputsCorrect == Spec => []CallInputsValidUnlessOutgrown
<1>1. Init => CallsInv
  BY HostAssumption DEF Init, CallsInv
<1>2. TypeOK /\ CallsInv => CallInputsValidUnlessOutgrown
  <2> SUFFICES ASSUME TypeOK, CallsInv,
                      clears = 0 \/ Len(m_recorded_calls_inputs) <= MaxRecordedCalls,
                      NEW i \in DOMAIN recorded_calls,
                      recorded_calls[i].input # NoInput
               PROVE  PointsTo(recorded_calls[i].data, recorded_calls[i].input)
    BY DEF CallInputsValidUnlessOutgrown, CallInputsValid
  <2>1. /\ Len(m_recorded_calls_inputs) \in Nat /\ Len(recorded_calls) \in Nat
        /\ i \in 1..Len(recorded_calls)
        /\ recorded_calls[i] \in RecordedCall
    BY DEF TypeOK
  <2>2. generation = 0
    BY <2>1, HostAssumption DEF CallsInv
  <2>3. recorded_calls[i].data.generation \in Nat
    BY <2>1 DEF RecordedCall, Pointer
  <2>4. CallPointerOK(recorded_calls[i], m_recorded_calls_inputs, generation)
    BY <2>1 DEF CallsInv
  <2> QED
    BY <2>2, <2>3, <2>4 DEF CallPointerOK, PointsTo
<1> QED
  BY <1>1, <1>2, CallsInvStep, TypeCorrect, PTL DEF Spec

------------------------------------------------------------------------------
(* A difference that does not wrap is what it is modulo the width.         *)
LEMMA NoWrap == ASSUME NEW n \in Nat \ {0}, NEW x \in 0..(n - 1) PROVE x % n = x
BY SMT

(* copy_code() and get_code_size() agree for every code that fits in the   *)
(* memory and every offset and size.                                       *)
THEOREM CopyCodeCorrect == Spec => []CopyCodeConsistent
<1>1. TypeOK => CopyCodeConsistent
  <2> SUFFICES ASSUME TypeOK, NEW a \in Addr, NEW offset \in CodeOffset, NEW size \in BufferSize
               PROVE  LET n == CopyCodeResult(a, offset, size)
                          total == GetCodeSizeResult(a)
                      IN  /\ n <= size
                          /\ n = 0 \/ offset + n <= total
                          /\ n < size => offset + n >= total
    BY DEF CopyCodeConsistent
  <2> DEFINE length == Len(profile[a].code)
  <2>1. length \in 0..(SizeMod - 1)
    <3>1. profile[a] \in Profile \cup {DefaultProfile}
      BY DEF TypeOK
    <3>2. Len(DefaultProfile.code) = 0
      BY DEF DefaultProfile
    <3> QED
      BY <3>1, <3>2, HostAssumption
  <2>2. offset \in Nat /\ size \in Nat /\ SizeMod \in Nat \ {0}
    BY HostAssumption
  <2>3. CASE a \notin accounts \/ offset >= length
    <3>1. CopyCodeResult(a, offset, size) = 0
      BY <2>3 DEF CopyCodeResult
    <3>2. \/ GetCodeSizeResult(a) = 0
          \/ GetCodeSizeResult(a) = length /\ offset >= length
      BY <2>3 DEF GetCodeSizeResult
    <3> HIDE DEF length
    <3> QED
      BY <2>1, <2>2, <3>1, <3>2
  <2>4. CASE a \in accounts /\ ~(offset >= length)
    <3>1. length - offset \in 0..(SizeMod - 1)
      BY <2>1, <2>2, <2>4
    <3>2. (length - offset) % SizeMod = length - offset
      BY <2>2, <3>1, NoWrap
    <3>3. /\ CopyCodeResult(a, offset, size) =
                IF size <= length - offset THEN size ELSE length - offset
          /\ GetCodeSizeResult(a) = length
      BY <2>4, <3>2 DEF CopyCodeResult, GetCodeSizeResult
    <3> HIDE DEF length
    <3> QED
      BY <2>1, <2>2, <2>4, <3>3
  <2> QED
    BY <2>3, <2>4
<1> QED
  BY <1>1, TypeCorrect, PTL

(* access_storage() answers COLD for a slot at most once: none of the      *)
(* other methods, nor a commit, resets the access status.                  *)
THEOREM WarmSlotsStayWarm == Spec => WarmSlotStaysWarm
<1> DEFINE Kept == \A a \in Addr, k \in Key :
              storage[a][k].access_status = "WARM" => storage'[a][k].access_status = "WARM"
<1>1. TypeOK /\ [Next]_hostVars => [Kept]_hostVars
  <2> SUFFICES ASSUME TypeOK, Next, NEW a \in Addr, NEW k \in Key,
                      storage[a][k].access_status = "WARM"
               PROVE  storage'[a][k].access_status = "WARM"
    OBVIOUS
  <2>1. storage \in [Addr -> [Key -> StorageValue]]
    BY DEF TypeOK
  <2>2. ASSUME NEW b \in Addr, NEW l \in Key, NEW v \in Value, set_storage(b, l, v)
        PROVE  storage'[a][k].access_status = "WARM"
    BY <2>1, <2>2 DEF set_storage, StorageValue
  <2>3. ASSUME NEW b \in Addr, NEW l \in Key, CommitSlot(b, l)
        PROVE  storage'[a][k].access_status = "WARM"
    BY <2>1, <2>3 DEF CommitSlot, StorageValue
  <2>4. ASSUME NEW b \in Addr, NEW l \in Key, access_storage(b, l)
        PROVE  storage'[a][k].access_status = "WARM"
    BY <2>1, <2>4 DEF access_storage, StorageValue
  <2>5. CASE UNCHANGED storage
    BY <2>5
  <2> QED
    BY <2>2, <2>3, <2>4, <2>5
       DEF Next, OtherMethods, account_exists, get_storage, get_balance, get_code_size,
           get_code_hash, copy_code, access_account, Query, call, RecordInput, get_block_hash,
           emit_log, ClearRecordedCalls, world
<1> QED
  BY <1>1, TypeCorrect, PTL DEF Spec, WarmSlotStaysWarm

------------------------------------------------------------------------------
(* The statuses MockedHost returns add up: the net charge of a slot        *)
(* depends on its original and current value only, and the refund counter  *)
(* never goes negative.                                                    *)

(* The refund that stands for a slot that is cleared at the moment.        *)
StandingRefund(o, c) == IF o # Zero /\ c = Zero THEN Rsclear ELSE 0

(* The charges of every status are integers.                               *)
LEMMA ChargeType ==
    ASSUME NEW status
    PROVE  GasCost(status) \in Int /\ GasRefund(status) \in Int
BY GasAssumption DEF GasCost, GasRefund

(* The charges, status by status.                                          *)
LEMMA ChargeTable ==
    /\ GasCost("ASSIGNED") = Gwarmaccess /\ GasRefund("ASSIGNED") = 0
    /\ GasCost("ADDED") = Gsset /\ GasRefund("ADDED") = 0
    /\ GasCost("DELETED") = Gsreset /\ GasRefund("DELETED") = Rsclear
    /\ GasCost("MODIFIED") = Gsreset /\ GasRefund("MODIFIED") = 0
    /\ GasCost("DELETED_ADDED") = Gwarmaccess /\ GasRefund("DELETED_ADDED") = -Rsclear
    /\ GasCost("MODIFIED_DELETED") = Gwarmaccess /\ GasRefund("MODIFIED_DELETED") = Rsclear
    /\ GasCost("DELETED_RESTORED") = Gwarmaccess
    /\ GasRefund("DELETED_RESTORED") = Gsreset - Gwarmaccess - Rsclear
    /\ GasCost("ADDED_DELETED") = Gwarmaccess
    /\ GasRefund("ADDED_DELETED") = Gsset - Gwarmaccess
    /\ GasCost("MODIFIED_RESTORED") = Gwarmaccess
    /\ GasRefund("MODIFIED_RESTORED") = Gsreset - Gwarmaccess
BY DEF GasCost, GasRefund

(* One write: what it charges is exactly the change of the net charge of   *)
(* the slot, and what it adds to the refund counter is at least the change *)
(* of the refund that stands.                                              *)
LEMMA ChargeOfOneWrite ==
    ASSUME NEW o, NEW c, NEW v
    PROVE  LET status == StatusOf(o, c, v) IN
           /\ GasCost(status) - Gwarmaccess - GasRefund(status) =
                 NetCharge(o, v) - NetCharge(o, c)
           /\ StandingRefund(o, c) + GasRefund(status) >= StandingRefund(o, v)
<1>1. CASE c = v
  BY <1>1, StatusCases, ChargeTable, GasAssumption DEF NetCharge, StandingRefund
<1>2. CASE c # v /\ o = c
  BY <1>2, StatusCases, ChargeTable, GasAssumption DEF NetCharge, StandingRefund
<1>3. CASE c # v /\ o # c /\ o = Zero
  BY <1>3, StatusCases, ChargeTable, GasAssumption DEF NetCharge, StandingRefund
<1>4. CASE c # v /\ o # c /\ o # Zero
  BY <1>4, StatusCases, ChargeTable, GasAssumption DEF NetCharge, StandingRefund
<1> QED
  BY <1>1, <1>2, <1>3, <1>4

(* A step of the composition is a step of the host.                        *)
LEMMA GasStepIsHostStep == [GasNext]_gasVars => [Next]_hostVars
BY DEF GasNext, gasVars, SStore, Commit, Next

(* The ledger is well typed.                                               *)
LedgerType ==
    /\ spent \in [Addr -> [Key -> Int]]
    /\ refund \in [Addr -> [Key -> Int]]
    /\ writes \in 0..MaxWrites

GasInv == TypeOK /\ LedgerType /\ ChargeIsPathIndependent /\ RefundNeverNegative

(* Booking a cost g above the warm access w and a refund f.                *)
LEMMA Booking ==
    ASSUME NEW s \in Int, NEW r \in Int, NEW g \in Int, NEW w \in Int, NEW f \in Int,
           NEW before \in Int, NEW after \in Int,
           s - r = before, g - w - f = after - before
    PROVE  (s + g - w) - (r + f) = after
OBVIOUS

(* A write moves one slot: its ledger moves by the charge of the status,   *)
(* its current value becomes the new one, and the other slots stay.        *)
LEMMA SStoreStep ==
    ASSUME GasInv, NEW a \in Addr, NEW k \in Key, NEW v \in Value, SStore(a, k, v)
    PROVE  LedgerType' /\ ChargeIsPathIndependent' /\ RefundNeverNegative'
<1> DEFINE o == storage[a][k].original
           c == storage[a][k].current
           status == StatusOf(o, c, v)
<1>0. /\ spent \in [Addr -> [Key -> Int]]
      /\ refund \in [Addr -> [Key -> Int]]
      /\ writes \in 0..MaxWrites
      /\ storage \in [Addr -> [Key -> StorageValue]]
      /\ storage[a][k] \in StorageValue
  BY DEF GasInv, LedgerType, TypeOK
<1>1. /\ GasCost(status) \in Int /\ GasRefund(status) \in Int
  BY ChargeType
<1>2. /\ writes < MaxWrites /\ writes' = writes + 1
      /\ spent' = [spent EXCEPT ![a][k] = spent[a][k] + GasCost(status) - Gwarmaccess]
      /\ refund' = [refund EXCEPT ![a][k] = refund[a][k] + GasRefund(status)]
      /\ storage' = [storage EXCEPT ![a][k].current = v]
  BY <1>0 DEF SStore, set_storage, SetStorageStatus
<1>3. /\ spent[a][k] \in Int /\ refund[a][k] \in Int
      /\ spent[a][k] + GasCost(status) - Gwarmaccess \in Int
      /\ refund[a][k] + GasRefund(status) \in Int
  BY <1>0, <1>1, GasAssumption
<1>4. LedgerType'
  BY <1>0, <1>2, <1>3, WritesAssumption DEF LedgerType
<1>5. ASSUME NEW b \in Addr, NEW j \in Key
      PROVE  /\ <<b, j>> # <<a, k>> =>
                  /\ spent'[b][j] = spent[b][j] /\ refund'[b][j] = refund[b][j]
                  /\ storage'[b][j] = storage[b][j]
             /\ <<b, j>> = <<a, k>> =>
                  /\ spent'[b][j] = spent[a][k] + GasCost(status) - Gwarmaccess
                  /\ refund'[b][j] = refund[a][k] + GasRefund(status)
                  /\ storage'[b][j].original = o
                  /\ storage'[b][j].current = v
  <2>1. CASE b # a
    BY <1>0, <1>2, <1>5, <2>1
  <2>2. CASE b = a /\ j # k
    BY <1>0, <1>2, <1>5, <2>2
  <2>3. CASE b = a /\ j = k
    <3>1. storage'[a][k] = [storage[a][k] EXCEPT !.current = v]
      BY <1>0, <1>2
    <3>2. /\ storage'[a][k].original = o
          /\ storage'[a][k].current = v
      BY <1>0, <3>1 DEF StorageValue
    <3> QED
      BY <1>0, <1>2, <1>5, <2>3, <3>2
  <2> QED
    BY <2>1, <2>2, <2>3
<1>6. /\ GasCost(status) - Gwarmaccess - GasRefund(status) =
            NetCharge(o, v) - NetCharge(o, c)
      /\ StandingRefund(o, c) + GasRefund(status) >= StandingRefund(o, v)
  BY ChargeOfOneWrite
<1>7. NetCharge(o, v) \in Int /\ NetCharge(o, c) \in Int
  BY GasAssumption DEF NetCharge
<1>8. ChargeIsPathIndependent'
  <2>1. spent[a][k] - refund[a][k] = NetCharge(o, c)
    BY DEF GasInv, ChargeIsPathIndependent
  <2>2. (spent[a][k] + GasCost(status) - Gwarmaccess) - (refund[a][k] + GasRefund(status))
            = NetCharge(o, v)
    <3>1. Gwarmaccess \in Int
      BY GasAssumption
    <3> HIDE DEF status, o, c
    <3> QED
      BY <1>1, <1>3, <1>6, <1>7, <2>1, <3>1, Booking
  <2>3. ASSUME NEW b \in Addr, NEW j \in Key
        PROVE  spent'[b][j] - refund'[b][j] =
                  NetCharge(storage'[b][j].original, storage'[b][j].current)
    BY <1>5, <2>2, <2>3 DEF GasInv, ChargeIsPathIndependent
  <2> QED
    BY <2>3 DEF ChargeIsPathIndependent, NetCharge
<1>9. RefundNeverNegative'
  <2>1. refund[a][k] >= StandingRefund(o, c)
    BY DEF GasInv, RefundNeverNegative, StandingRefund
  <2>2. refund[a][k] + GasRefund(status) >= StandingRefund(o, v)
    BY <1>1, <1>3, <1>6, <2>1, GasAssumption DEF StandingRefund
  <2>3. ASSUME NEW b \in Addr, NEW j \in Key
        PROVE  refund'[b][j] >=
                  StandingRefund(storage'[b][j].original, storage'[b][j].current)
    BY <1>5, <2>2, <2>3 DEF GasInv, RefundNeverNegative, StandingRefund
  <2> QED
    BY <2>3 DEF RefundNeverNegative, StandingRefund
<1> QED
  BY <1>4, <1>8, <1>9

(* A new transaction for a slot makes it clean and clears its ledger.      *)
LEMMA CommitStep ==
    ASSUME GasInv, NEW a \in Addr, NEW k \in Key, Commit(a, k)
    PROVE  LedgerType' /\ ChargeIsPathIndependent' /\ RefundNeverNegative'
<1> DEFINE c == storage[a][k].current
<1>0. /\ spent \in [Addr -> [Key -> Int]]
      /\ refund \in [Addr -> [Key -> Int]]
      /\ writes \in 0..MaxWrites
      /\ storage \in [Addr -> [Key -> StorageValue]]
      /\ storage[a][k] \in StorageValue
  BY DEF GasInv, LedgerType, TypeOK
<1>1. /\ writes' = writes
      /\ spent' = [spent EXCEPT ![a][k] = 0]
      /\ refund' = [refund EXCEPT ![a][k] = 0]
      /\ storage' = [storage EXCEPT ![a][k].original = c]
  BY DEF Commit, CommitSlot
<1>2. LedgerType'
  BY <1>0, <1>1 DEF LedgerType
<1>3. ASSUME NEW b \in Addr, NEW j \in Key
      PROVE  /\ <<b, j>> # <<a, k>> =>
                  /\ spent'[b][j] = spent[b][j] /\ refund'[b][j] = refund[b][j]
                  /\ storage'[b][j] = storage[b][j]
             /\ <<b, j>> = <<a, k>> =>
                  /\ spent'[b][j] = 0 /\ refund'[b][j] = 0
                  /\ storage'[b][j].original = c
                  /\ storage'[b][j].current = c
  <2>1. CASE b # a
    BY <1>0, <1>1, <1>3, <2>1
  <2>2. CASE b = a /\ j # k
    BY <1>0, <1>1, <1>3, <2>2
  <2>3. CASE b = a /\ j = k
    <3>1. storage'[a][k] = [storage[a][k] EXCEPT !.original = c]
      BY <1>0, <1>1
    <3>2. /\ storage'[a][k].original = c
          /\ storage'[a][k].current = c
      BY <1>0, <3>1 DEF StorageValue
    <3> QED
      BY <1>0, <1>1, <1>3, <2>3, <3>2
  <2> QED
    BY <2>1, <2>2, <2>3
<1>4. NetCharge(c, c) = 0 /\ StandingRefund(c, c) = 0
  BY DEF NetCharge, StandingRefund
<1>5. ASSUME NEW b \in Addr, NEW j \in Key
      PROVE  /\ spent'[b][j] - refund'[b][j] =
                  NetCharge(storage'[b][j].original, storage'[b][j].current)
             /\ refund'[b][j] >=
                  StandingRefund(storage'[b][j].original, storage'[b][j].current)
  BY <1>3, <1>4, <1>5
     DEF GasInv, ChargeIsPathIndependent, RefundNeverNegative, StandingRefund
<1> QED
  BY <1>2, <1>5 DEF ChargeIsPathIndependent, RefundNeverNegative, NetCharge, StandingRefund

(* The other methods write no current or original value.                   *)
LEMMA OtherMethodsKeepValues ==
    ASSUME TypeOK, OtherMethods
    PROVE  \A b \in Addr, j \in Key :
              /\ storage'[b][j].original = storage[b][j].original
              /\ storage'[b][j].current = storage[b][j].current
<1>1. CASE UNCHANGED storage
  BY <1>1
<1>2. ASSUME NEW a \in Addr, NEW k \in Key, access_storage(a, k),
             NEW b \in Addr, NEW j \in Key
      PROVE  /\ storage'[b][j].original = storage[b][j].original
             /\ storage'[b][j].current = storage[b][j].current
  <2>0. /\ storage \in [Addr -> [Key -> StorageValue]]
        /\ storage[a][k] \in StorageValue
        /\ storage' = [storage EXCEPT ![a][k].access_status = "WARM"]
    BY <1>2 DEF TypeOK, access_storage
  <2>1. CASE b # a \/ j # k
    BY <1>2, <2>0, <2>1
  <2>2. CASE b = a /\ j = k
    <3>1. storage'[a][k] = [storage[a][k] EXCEPT !.access_status = "WARM"]
      BY <2>0
    <3> QED
      BY <2>0, <2>2, <3>1 DEF StorageValue
  <2> QED
    BY <2>1, <2>2
<1> QED
  BY <1>1, <1>2
     DEF OtherMethods, world, account_exists, get_storage, get_balance,
         get_code_size, get_code_hash, copy_code, access_account, Query,
         call, get_block_hash, emit_log, ClearRecordedCalls

(* The ledger is correct after every step.                                 *)
LEMMA GasInvStep == GasInv /\ [GasNext]_gasVars => GasInv'
<1> SUFFICES ASSUME GasInv, [GasNext]_gasVars PROVE GasInv'
  OBVIOUS
<1>1. TypeOK'
  BY GasStepIsHostStep, TypeStep DEF GasInv
<1>2. ASSUME NEW a \in Addr, NEW k \in Key, NEW v \in Value, SStore(a, k, v)
      PROVE  GasInv'
  BY <1>1, <1>2, SStoreStep DEF GasInv
<1>3. ASSUME NEW a \in Addr, NEW k \in Key, Commit(a, k)
      PROVE  GasInv'
  BY <1>1, <1>3, CommitStep DEF GasInv
<1>4. CASE OtherMethods /\ UNCHANGED ledger
  <2>1. \A b \in Addr, j \in Key :
              /\ storage'[b][j].original = storage[b][j].original
              /\ storage'[b][j].current = storage[b][j].current
    BY <1>4, OtherMethodsKeepValues DEF GasInv
  <2> QED
    BY <1>1, <1>4, <2>1
       DEF GasInv, LedgerType, ledger, ChargeIsPathIndependent, RefundNeverNegative
<1>5. CASE UNCHANGED gasVars
  BY <1>1, <1>5
     DEF GasInv, gasVars, hostVars, world, ledger, LedgerType, ChargeIsPathIndependent,
         RefundNeverNegative
<1> QED
  BY <1>2, <1>3, <1>4, <1>5 DEF GasNext

(* Initially every slot is clean and nothing is charged.                   *)
LEMMA GasInvInit == GasInit => GasInv
<1> SUFFICES ASSUME GasInit PROVE GasInv
  OBVIOUS
<1>1. TypeOK
  BY DEF GasInit, Init, TypeOK
<1>2. LedgerType
  BY WritesAssumption DEF GasInit, NoCharge, LedgerType
<1>3. ASSUME NEW a \in Addr, NEW k \in Key
      PROVE  /\ spent[a][k] = 0 /\ refund[a][k] = 0
             /\ storage[a][k].original = storage[a][k].current
  BY <1>3 DEF GasInit, NoCharge
<1>4. ChargeIsPathIndependent /\ RefundNeverNegative
  BY <1>3 DEF ChargeIsPathIndependent, RefundNeverNegative, NetCharge
<1> QED
  BY <1>1, <1>2, <1>4 DEF GasInv

(* The net charge of a slot depends on its original and current value      *)
(* alone, whatever sequence of set_storage led from one to the other.      *)
THEOREM PathIndependence == GasSpec => []ChargeIsPathIndependent
BY GasInvInit, GasInvStep, PTL DEF GasSpec, GasInv

(* No sequence of writes takes back a refund that was not given before.    *)
THEOREM RefundIsNonNegative == GasSpec => []RefundNeverNegative
BY GasInvInit, GasInvStep, PTL DEF GasSpec, GasInv

(* set_storage returns the documented status in every reachable state.     *)
THEOREM StatusCorrect == GasSpec => []StatusAsDocumented
<1>1. StatusAsDocumented
  BY StatusIsChecksumStatus DEF StatusAsDocumented, SetStorageStatus
<1> QED
  BY <1>1, PTL
==============================================================================
