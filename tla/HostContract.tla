----------------------------- MODULE HostContract -----------------------------
(***************************************************************************)
(* What qrvmc.h promises a VM of any Host, seen through the functions of   *)
(* qrvmc_host_interface: what each of them answers, and that a call        *)
(* changes nothing a later call can observe, except set_storage the one    *)
(* slot it writes, and a write or an access the existence of its account.  *)
(***************************************************************************)
EXTENDS Integers, Sequences

CONSTANTS
    Address, Key, Value,
    Zero,         \* the null value
    CodeHash,     \* the hash of each code
    Offset, Size, \* arguments of copy_code
    BlockNumber,  \* arguments of get_block_hash
    BlockHash,    \* what get_block_hash answers of an available block
    Gas,          \* gas of the messages of calls
    TxContext     \* what the Host was made with

VARIABLES
    exists,   \* the accounts that exist
    storage,  \* [Address -> [Key -> Value]]
    balance,  \* [Address -> Value]
    code,     \* [Address -> sequence of bytes]
    answer    \* what a call returned, until the VM takes it

contractVars == <<exists, storage, balance, code, answer>>

NoAnswer == [method |-> "none", arguments |-> << >>, value |-> Zero]

Answered(method, arguments, value) ==
    /\ answer = NoAnswer
    /\ answer' = [method |-> method, arguments |-> arguments, value |-> value]

Smaller(a, b) == IF a < b THEN a ELSE b

(* The part of the code from the offset on, as far as the buffer goes.     *)
Copied(bytes, offset, size) ==
    SubSeq(bytes, offset + 1, Smaller(offset + size, Len(bytes)))

(* An account that does not exist has no storage, balance and code.        *)
Init ==
    /\ \A a \in Address \ exists :
          storage[a] = [k \in Key |-> Zero] /\ balance[a] = Zero /\ code[a] = << >>
    /\ answer = NoAnswer

(* The queries of an account change nothing.                               *)
account_exists(a) == Answered("account_exists", <<a>>, a \in exists)
get_storage(a, k) == Answered("get_storage", <<a, k>>, storage[a][k])
get_balance(a) == Answered("get_balance", <<a>>, balance[a])
get_code_size(a) == Answered("get_code_size", <<a>>, Len(code[a]))
get_code_hash(a) ==
    Answered("get_code_hash", <<a>>, IF a \in exists THEN CodeHash[code[a]] ELSE Zero)
copy_code(a, offset, size) ==
    Answered("copy_code", <<a, offset, size>>, Copied(code[a], offset, size))

get_tx_context == Answered("get_tx_context", << >>, TxContext)

(* The block hash is null unless the block is before the current one.      *)
get_block_hash(n) ==
    \E hash \in {Zero, BlockHash} :
        /\ hash # Zero => n < TxContext.block_number
        /\ Answered("get_block_hash", <<n>>, hash)

(* A write that does not change the value is reported as such.             *)
set_storage(a, k, v) ==
    /\ \E status \in {"ASSIGNED", "MODIFIED"} :
          /\ storage[a][k] = v => status = "ASSIGNED"
          /\ Answered("set_storage", <<a, k, v>>, status)
    /\ exists' = exists \cup {a}
    /\ storage' = [storage EXCEPT ![a][k] = v]
    /\ UNCHANGED <<balance, code>>

(* An access may create the account; its answer is free.                   *)
Accessed(a, method, arguments) ==
    /\ \E status \in {"COLD", "WARM"} : Answered(method, arguments, status)
    /\ exists' \in {exists, exists \cup {a}}
    /\ UNCHANGED <<storage, balance, code>>

access_account(a) == Accessed(a, "access_account", <<a>>)
access_storage(a, k) == Accessed(a, "access_storage", <<a, k>>)

(* The result of a call keeps no more gas than the call was given, and     *)
(* none when it neither succeeded nor reverted.                            *)
call(gas) ==
    /\ Answered("call", <<gas>>, answer'.value)
    /\ answer'.value.gas_left \in 0..gas
    /\ answer'.value.status_code \notin {"SUCCESS", "REVERT"} => answer'.value.gas_left = 0

(* A log is not answered.                                                  *)
emit_log == Answered("emit_log", << >>, Zero)

Take ==
    /\ answer' = NoAnswer
    /\ UNCHANGED <<exists, storage, balance, code>>

(* The functions after which every later call answers as before.           *)
Unobservable ==
    \/ \E a \in Address :
          \/ account_exists(a) \/ get_balance(a) \/ get_code_size(a) \/ get_code_hash(a)
          \/ \E k \in Key : get_storage(a, k)
          \/ \E offset \in Offset, size \in Size : copy_code(a, offset, size)
    \/ get_tx_context
    \/ \E n \in BlockNumber : get_block_hash(n)
    \/ \E gas \in Gas : call(gas)
    \/ emit_log

Next ==
    \/ Unobservable /\ UNCHANGED <<exists, storage, balance, code>>
    \/ \E a \in Address, k \in Key, v \in Value : set_storage(a, k, v)
    \/ \E a \in Address : access_account(a) \/ \E k \in Key : access_storage(a, k)
    \/ Take

Spec == Init /\ [][Next]_contractVars
==============================================================================
