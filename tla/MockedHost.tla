------------------------------ MODULE MockedHost ------------------------------
(***************************************************************************)
(* qrvmc::MockedHost (include/qrvmc/mocked_host.hpp): the Host the unit    *)
(* tests and the tooling run VMs against.  One action per Host method.     *)
(* What a method returns is an operator of the state it is called in       *)
(* (AccessAccountStatus, SetStorageStatus, ...), so an invariant about it  *)
(* speaks of every call that could come next.                              *)
(*                                                                         *)
(* An entry missing from the storage map of an account is the same as a    *)
(* default StorageValue for every method, so storage is a total function;  *)
(* which accounts are in the map is visible (account_exists) and is kept.  *)
(***************************************************************************)
EXTENDS StorageStatus, Sequences, Functions

CONSTANTS
    Addr, Key,
    Precompile,            \* the addresses 1..9
    Profile,               \* balance, code hash and code a test may give an account
    CodeOffset, BufferSize, \* arguments of copy_code
    SizeMod,               \* 2^64: size_t wraps at it
    Input,                 \* call inputs of at least one byte
    Inline,                \* the inputs short enough for the buffer inside a std::string
    NoInput,               \* a call with input_size = 0
    Block, Log,            \* arguments of get_block_hash and emit_log
    MaxRecordedAccesses,   \* max_recorded_account_accesses (200)
    MaxRecordedCalls,      \* max_recorded_calls (100)
    MaxBlockhashes, MaxLogs, \* bounds of the model: the code has none
    MaxClears              \* how often the user may clear recorded_calls

ASSUME HostAssumption ==
    /\ Precompile \subseteq Addr
    /\ Inline \subseteq Input
    /\ NoInput \notin Input
    /\ CodeOffset \subseteq 0..(SizeMod - 1)
    /\ BufferSize \subseteq 0..(SizeMod - 1)
    /\ SizeMod \in Nat \ {0}
    /\ \A p \in Profile : Len(p.code) \in 0..(SizeMod - 1)
    /\ MaxRecordedAccesses \in Nat \ {0}
    /\ MaxRecordedCalls \in Nat \ {0}
    /\ MaxBlockhashes \in Nat /\ MaxLogs \in Nat /\ MaxClears \in Nat

AccessStatus == {"COLD", "WARM"}

StorageValue == [current : Value, original : Value, access_status : AccessStatus]
DefaultStorageValue ==
    [current |-> Zero, original |-> Zero, access_status |-> "COLD"]

DefaultProfile == [balance |-> 0, codehash |-> Zero, code |-> << >>]

VARIABLES
    accounts,                  \* the addresses present in the accounts map
    profile,                   \* nonce-free part of MockedAccount: balance, codehash, code
    storage,                   \* MockedAccount::storage
    recorded_account_accesses,
    recorded_blockhashes,
    recorded_logs,
    recorded_calls,            \* the messages, with the pointer to their input
    m_recorded_calls_inputs,   \* the copies of the inputs
    inputs_capacity,           \* capacity() of that vector
    generation,                \* how often that vector has moved its elements
    clears,                    \* bounds ClearRecordedCalls
    touched                    \* history: every address passed to record_account_access

world == <<accounts, profile, storage>>
calls == <<recorded_calls, m_recorded_calls_inputs, inputs_capacity, generation, clears>>
accesses == <<recorded_account_accesses, touched>>
hostVars == <<world, accesses, calls, recorded_blockhashes, recorded_logs>>

(* The pointer stored in a recorded message: the caller's own for an empty *)
(* input, otherwise into element index of m_recorded_calls_inputs as it    *)
(* lay in memory in the given generation.                                  *)
CallerPointer == [index |-> 0, generation |-> 0]
Pointer == [index : Nat, generation : Nat]
RecordedCall == [recipient : Addr, input : Input \cup {NoInput}, data : Pointer]

------------------------------------------------------------------------------
(* The initial states are the hosts a test can set up: some accounts, with *)
(* storage preset through any of the three StorageValue constructors.      *)
Init ==
    /\ accounts \in SUBSET Addr
    /\ profile \in [Addr -> Profile \cup {DefaultProfile}]
    /\ storage \in [Addr -> [Key -> StorageValue]]
    /\ \A a \in Addr \ accounts :
          /\ profile[a] = DefaultProfile
          /\ storage[a] = [k \in Key |-> DefaultStorageValue]
    /\ recorded_account_accesses = << >> /\ touched = {}
    /\ recorded_blockhashes = << >>
    /\ recorded_logs = << >>
    /\ recorded_calls = << >>
    /\ m_recorded_calls_inputs = << >>
    /\ inputs_capacity = 0 /\ generation = 0
    /\ clears = 0

------------------------------------------------------------------------------
(* Recording an access: kept only while the record is below its cap.       *)
record_account_access(addr) ==
    /\ recorded_account_accesses' =
          IF Len(recorded_account_accesses) < MaxRecordedAccesses
          THEN Append(recorded_account_accesses, addr)
          ELSE recorded_account_accesses
    /\ touched' = touched \cup {addr}

(* The query methods only record the access.                               *)
Query(addr) ==
    /\ record_account_access(addr)
    /\ UNCHANGED <<world, calls, recorded_blockhashes, recorded_logs>>

account_exists(addr) == Query(addr)
AccountExistsResult(addr) == addr \in accounts

get_storage(addr, key) == Query(addr)
GetStorageResult(addr, key) ==
    IF addr \in accounts THEN storage[addr][key].current ELSE Zero

get_balance(addr) == Query(addr)
GetBalanceResult(addr) == IF addr \in accounts THEN profile[addr].balance ELSE 0

get_code_size(addr) == Query(addr)
GetCodeSizeResult(addr) == IF addr \in accounts THEN Len(profile[addr].code) ELSE 0

get_code_hash(addr) == Query(addr)
GetCodeHashResult(addr) == IF addr \in accounts THEN profile[addr].codehash ELSE Zero

copy_code(addr, offset, size) == Query(addr)
(* Mistake: no test that the offset is inside the code.                    *)
CopyCodeResultUnchecked(addr, offset, size) ==
    LET left == (Len(profile[addr].code) - offset) % SizeMod
    IN  IF addr \notin accounts THEN 0
        ELSE IF size <= left THEN size ELSE left

(* The number of bytes copied; the subtraction is one of size_t.           *)
CopyCodeResult(addr, offset, size) ==
    LET code == profile[addr].code
        left == (Len(code) - offset) % SizeMod
    IN  IF addr \notin accounts \/ offset >= Len(code) THEN 0
        ELSE IF size <= left THEN size ELSE left

------------------------------------------------------------------------------
(* Methods that change the world.                                          *)

SetStorageStatus(addr, key, value) ==
    StatusOf(storage[addr][key].original, storage[addr][key].current, value)

(* Mistake: the whole entry is overwritten, access status included.        *)
set_storage_overwrite(addr, key, value) ==
    /\ record_account_access(addr)
    /\ accounts' = accounts \cup {addr}
    /\ storage' = [storage EXCEPT ![addr][key] =
                      [@ EXCEPT !.current = value, !.access_status = "COLD"]]
    /\ UNCHANGED <<profile, calls, recorded_blockhashes, recorded_logs>>

(* accounts[addr].storage[key] creates the account and the entry.          *)
set_storage(addr, key, value) ==
    /\ record_account_access(addr)
    /\ accounts' = accounts \cup {addr}
    /\ storage' = [storage EXCEPT ![addr][key].current = value]
    /\ UNCHANGED <<profile, calls, recorded_blockhashes, recorded_logs>>

AccessStorageStatus(addr, key) == storage[addr][key].access_status

access_storage(addr, key) ==
    /\ accounts' = accounts \cup {addr}
    /\ storage' = [storage EXCEPT ![addr][key].access_status = "WARM"]
    /\ UNCHANGED <<profile, accesses, calls, recorded_blockhashes, recorded_logs>>

(* The record, not the set of touched addresses, is searched.              *)
AccessAccountStatus(addr) ==
    IF addr \in Precompile \/ addr \in Range(recorded_account_accesses)
    THEN "WARM" ELSE "COLD"

(* Mistake: the access is looked up and not recorded.                      *)
access_account_unrecorded(addr) ==
    /\ touched' = touched \cup {addr}
    /\ UNCHANGED <<world, recorded_account_accesses, calls, recorded_blockhashes,
                   recorded_logs>>

access_account(addr) == Query(addr)

get_block_hash(block) ==
    /\ Len(recorded_blockhashes) < MaxBlockhashes
    /\ recorded_blockhashes' = Append(recorded_blockhashes, block)
    /\ UNCHANGED <<world, accesses, calls, recorded_logs>>

emit_log(addr, log) ==
    /\ Len(recorded_logs) < MaxLogs
    /\ recorded_logs' = Append(recorded_logs, [creator |-> addr, log |-> log])
    /\ UNCHANGED <<world, accesses, calls, recorded_blockhashes>>

------------------------------------------------------------------------------
(* call(): the message is recorded below the cap, with a copy of its       *)
(* input; the recorded pointer is redirected to the copy.                  *)

(* Mistake: no reserve() for the copies of the inputs.                     *)
UnreservedCapacity == IF inputs_capacity = 0 THEN 1 ELSE inputs_capacity

(* reserve() is called only when recorded_calls is empty.                  *)
ReservedCapacity ==
    IF recorded_calls = << >> /\ inputs_capacity < MaxRecordedCalls
    THEN MaxRecordedCalls ELSE inputs_capacity

(* emplace_back() into a full vector moves every element.                  *)
InputsFull == Len(m_recorded_calls_inputs) = ReservedCapacity

(* Mistake: the pointer is taken before the copy is made.                  *)
RecordInputEarlyPointer(recipient, input) ==
    /\ m_recorded_calls_inputs' = Append(m_recorded_calls_inputs, input)
    /\ inputs_capacity' = IF InputsFull THEN 2 * ReservedCapacity ELSE ReservedCapacity
    /\ generation' = IF InputsFull THEN generation + 1 ELSE generation
    /\ recorded_calls' =
          Append(recorded_calls,
                 [recipient |-> recipient, input |-> input,
                  data |-> [index |-> Len(m_recorded_calls_inputs) - 1,
                            generation |-> generation']])

RecordInput(recipient, input) ==
    /\ m_recorded_calls_inputs' = Append(m_recorded_calls_inputs, input)
    /\ inputs_capacity' = IF InputsFull THEN 2 * ReservedCapacity ELSE ReservedCapacity
    /\ generation' = IF InputsFull THEN generation + 1 ELSE generation
    /\ recorded_calls' =
          Append(recorded_calls,
                 [recipient |-> recipient, input |-> input,
                  data |-> [index |-> Len(m_recorded_calls_inputs'),
                            generation |-> generation']])

RecordEmptyInput(recipient) ==
    /\ inputs_capacity' = ReservedCapacity
    /\ recorded_calls' =
          Append(recorded_calls,
                 [recipient |-> recipient, input |-> NoInput, data |-> CallerPointer])
    /\ UNCHANGED <<m_recorded_calls_inputs, generation>>

call(recipient, input) ==
    /\ record_account_access(recipient)
    /\ \/ /\ Len(recorded_calls) < MaxRecordedCalls
          /\ input \in Input
          /\ RecordInput(recipient, input)
       \/ /\ Len(recorded_calls) < MaxRecordedCalls
          /\ input = NoInput
          /\ RecordEmptyInput(recipient)
       \/ /\ Len(recorded_calls) >= MaxRecordedCalls
          /\ UNCHANGED <<recorded_calls, m_recorded_calls_inputs,
                         inputs_capacity, generation>>
    /\ UNCHANGED <<world, clears, recorded_blockhashes, recorded_logs>>

------------------------------------------------------------------------------
(* What the user of the host does to its public members between calls.     *)

(* A new transaction for one slot: original = current.                     *)
CommitSlot(addr, key) ==
    /\ addr \in accounts
    /\ storage' = [storage EXCEPT ![addr][key].original = storage[addr][key].current]
    /\ UNCHANGED <<accounts, profile, accesses, calls, recorded_blockhashes, recorded_logs>>

(* recorded_calls.clear(): the private copies of the inputs stay.          *)
ClearRecordedCalls ==
    /\ clears < MaxClears
    /\ recorded_calls' = << >>
    /\ clears' = clears + 1
    /\ UNCHANGED <<world, accesses, m_recorded_calls_inputs, inputs_capacity,
                   generation, recorded_blockhashes, recorded_logs>>

------------------------------------------------------------------------------
(* Everything but set_storage and CommitSlot, which StorageGas composes    *)
(* with the charges of the VM.                                             *)
OtherMethods ==
    \/ \E a \in Addr : account_exists(a)
    \/ \E a \in Addr, k \in Key : get_storage(a, k)
    \/ \E a \in Addr : get_balance(a)
    \/ \E a \in Addr : get_code_size(a)
    \/ \E a \in Addr : get_code_hash(a)
    \/ \E a \in Addr, offset \in CodeOffset, size \in BufferSize :
          copy_code(a, offset, size)
    \/ \E a \in Addr, k \in Key : access_storage(a, k)
    \/ \E a \in Addr : access_account(a)
    \/ \E block \in Block : get_block_hash(block)
    \/ \E a \in Addr, log \in Log : emit_log(a, log)
    \/ \E a \in Addr, input \in Input \cup {NoInput} : call(a, input)
    \/ ClearRecordedCalls

Next ==
    \/ \E a \in Addr, k \in Key, v \in Value : set_storage(a, k, v)
    \/ \E a \in Addr, k \in Key : CommitSlot(a, k)
    \/ OtherMethods

Spec == Init /\ [][Next]_hostVars

------------------------------------------------------------------------------
TypeOK ==
    /\ accounts \subseteq Addr
    /\ profile \in [Addr -> Profile \cup {DefaultProfile}]
    /\ storage \in [Addr -> [Key -> StorageValue]]
    /\ recorded_account_accesses \in Seq(Addr)
    /\ touched \subseteq Addr
    /\ recorded_blockhashes \in Seq(Block)
    /\ recorded_logs \in Seq([creator : Addr, log : Log])
    /\ recorded_calls \in Seq(RecordedCall)
    /\ m_recorded_calls_inputs \in Seq(Input)
    /\ inputs_capacity \in Nat
    /\ generation \in Nat
    /\ clears \in Nat

(* The state behind a call of access_account: until the record is full it  *)
(* holds exactly the addresses any method was called for, and never one    *)
(* that was not touched; an address is therefore reported cold a second    *)
(* time only when the record was already full when it was first touched.   *)
AccessStatusBelowCap ==
    \A a \in Addr \ Precompile :
        /\ AccessAccountStatus(a) = "WARM" => a \in touched
        /\ /\ AccessAccountStatus(a) = "COLD"
           /\ a \in touched
           => Len(recorded_account_accesses) = MaxRecordedAccesses

(* The documented result of access_account: warm if the account has been   *)
(* accessed before (or is a precompile), cold otherwise.                   *)
AccessStatusAsDocumented ==
    \A a \in Addr :
        AccessAccountStatus(a) = "WARM" <=> a \in touched \/ a \in Precompile

(* What is read through the pointer of a recorded call: the elements of    *)
(* the vector stay where they are until it reallocates, and a string that  *)
(* has its characters on the heap keeps them there when it is moved.       *)
PointsTo(ptr, input) ==
    /\ ptr.index \in 1..Len(m_recorded_calls_inputs)
    /\ m_recorded_calls_inputs[ptr.index] = input
    /\ ptr.generation = generation \/ input \notin Inline

(* The input of every recorded call can be read through its pointer.       *)
CallInputsValid ==
    \A i \in DOMAIN recorded_calls :
        LET c == recorded_calls[i] IN
        c.input # NoInput => PointsTo(c.data, c.input)

(* "Iterators will not invalidate", the comment at reserve(): recorded     *)
(* inputs stay readable as long as the record was never cleared, or the    *)
(* private copies, which a clear leaves behind, still fit the capacity     *)
(* reserved for them.                                                      *)
CallInputsValidUnlessOutgrown ==
    clears = 0 \/ Len(m_recorded_calls_inputs) <= MaxRecordedCalls => CallInputsValid

(* A storage key once reported to be accessed stays warm whatever is       *)
(* written to it or committed: access_storage answers COLD at most once.   *)
WarmSlotStaysWarm ==
    [][\A a \in Addr, k \in Key :
          storage[a][k].access_status = "WARM" =>
             storage'[a][k].access_status = "WARM"]_hostVars

(* copy_code and get_code_size agree: a copy stays inside the buffer and   *)
(* inside the code, and it is shorter than the buffer only when it reached *)
(* the end of the code, so a caller may read the code piece by piece.      *)
CopyCodeConsistent ==
    \A a \in Addr, offset \in CodeOffset, size \in BufferSize :
        LET n == CopyCodeResult(a, offset, size)
            total == GetCodeSizeResult(a)
        IN  /\ n <= size
            /\ n = 0 \/ offset + n <= total
            /\ n < size => offset + n >= total

(* The status reported by set_storage, for whatever slot it is called on   *)
(* next, is the one documented for the four checks; in particular none of  *)
(* its assertions fails and no "impossible" combination occurs.            *)
StatusAsDocumented ==
    \A a \in Addr, k \in Key, v \in Value :
        LET s == storage[a][k] IN
        /\ SetStorageStatus(a, k, v) \in Status
        /\ SetStorageStatus(a, k, v) = ChecksumStatus(Checksum(s.original, s.current, v))

==============================================================================
