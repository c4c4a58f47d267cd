------------------------------ MODULE ExampleHost ------------------------------
(***************************************************************************)
(* The example Host (examples/example_host.cpp), as a VM reaches it: a     *)
(* function of the table Host::get_interface(), called with the context    *)
(* directly or through the wrapper HostContext, runs an adaptor of         *)
(* qrvmc.hpp, which calls a method of the Host object.  The object keeps   *)
(* its accounts, and the storage of each, in a std::map ordered by         *)
(* operator<.  The VM is external: it calls anything in any order.         *)
(***************************************************************************)
EXTENDS ByteTypes

CONSTANTS
    Addr,         \* addresses the VM names
    Key, Value,   \* storage keys and values, bytes32 both
    Balance,      \* balances of the accounts a client of the class provides
    Code,         \* their codes, sequences of bytes
    Offset, Size, \* arguments of copy_code
    BlockNumber,  \* arguments of get_block_hash
    Gas, Input,   \* messages of calls: their gas, the size of their input
    CurrentBlock, \* tx_context.block_number
    BlockWindow,  \* 256
    BlockHash     \* 0xb10c8a5f...

ASSUME HostAssumption ==
    /\ Addr \subseteq AllAddresses
    /\ Key \subseteq AllBytes32 /\ Value \subseteq AllBytes32 /\ Balance \subseteq AllBytes32
    /\ bytes32_0 \in Value /\ BlockHash \in AllBytes32 /\ Code \subseteq Seq(Byte)
    /\ Offset \subseteq Nat /\ Size \subseteq Nat /\ Gas \subseteq Nat /\ Input \subseteq Nat
    /\ BlockNumber \subseteq Int /\ CurrentBlock \in Int /\ BlockWindow \in Nat

VARIABLES
    accounts,  \* the map of accounts: [addresses present -> balance, code, storage]
    answer     \* what a call returned, until the VM takes it

hostVars == <<accounts, answer>>

NoAccount == [balance |-> bytes32_0, code |-> << >>, storage |-> << >>]
NoMap == << >>
NoAnswer == [method |-> "none", arguments |-> << >>, value |-> bytes32_0]

------------------------------------------------------------------------------
(* operator< as the comparison of each map.                                *)
AddressLess == [a \in Addr |-> [b \in Addr |-> address_less(a, b)]]
KeyLess == [a \in Key |-> [b \in Key |-> bytes32_less(a, b)]]

(* std::map: the entry equivalent to a key, if there is one.               *)
Found(map, key, less) == {e \in DOMAIN map : ~less[e][key] /\ ~less[key][e]}
At(map, key, less, default) ==
    IF Found(map, key, less) = {} THEN default
    ELSE map[CHOOSE e \in Found(map, key, less) : TRUE]
Insert(map, key, less, value) ==
    IF Found(map, key, less) = {}
    THEN [e \in DOMAIN map \cup {key} |-> IF e = key THEN value ELSE map[e]]
    ELSE [map EXCEPT ![CHOOSE e \in Found(map, key, less) : TRUE] = value]

account(a) == At(accounts, a, AddressLess, NoAccount)

(* operator^ of two bytes, digit by digit in base 2.                       *)
Xor ==
    LET xor[x \in Byte, y \in Byte] ==
            IF x + y = 0 THEN 0 ELSE 2 * xor[x \div 2, y \div 2] + ((x + y) % 2)
    IN  xor

(* The "extremely dumb" hash: each byte is xored into one place.           *)
code_hash(code) ==
    FoldLeft(LAMBDA ret, v : [ret EXCEPT ![(v % Len(ret)) + 1] = Xor[@, v]], bytes32_0, code)

------------------------------------------------------------------------------
(* The queries of the Host object: none of them inserts an entry.          *)
account_exists(a) == Found(accounts, a, AddressLess) # {}
get_storage(a, k) == At(account(a).storage, k, KeyLess, bytes32_0)
get_balance(a) == account(a).balance
get_code_size(a) == Len(account(a).code)
get_code_hash(a) == IF account_exists(a) THEN code_hash(account(a).code) ELSE bytes32_0

(* The bytes copied: none unless the offset is inside the code.            *)
copy_code(a, code_offset, buffer_size) ==
    LET code == account(a).code
        n == IF buffer_size < Len(code) - code_offset THEN buffer_size ELSE Len(code) - code_offset
    IN  IF code_offset >= Len(code) THEN << >> ELSE SubSeq(code, code_offset + 1, code_offset + n)

get_block_hash(number) ==
    IF number < CurrentBlock /\ number >= CurrentBlock - BlockWindow THEN BlockHash ELSE bytes32_0

tx_context == [block_number |-> CurrentBlock]

(* A Result that reverts with the input as output, or without memory for   *)
(* the copy.                                                               *)
CallResults(gas, input_size) ==
    {[status_code |-> "REVERT", gas_left |-> gas, output_size |-> input_size]}
    \cup (IF input_size = 0 THEN {}
          ELSE {[status_code |-> "OUT_OF_MEMORY", gas_left |-> 0, output_size |-> 0]})

------------------------------------------------------------------------------
(* The way of a call.  The methods that take an address and return a value *)
(* can be confused by a copy of the wrong line.                            *)
AddressMethod == {"account_exists", "get_balance", "get_code_size", "get_code_hash",
                  "access_account"}

(* struct qrvmc_host_interface: the order of its fields.                   *)
Fields == <<"account_exists", "get_storage", "set_storage", "get_balance", "get_code_size",
            "get_code_hash", "copy_code", "call", "get_tx_context", "get_block_hash",
            "emit_log", "access_account", "access_storage">>

(* Mistake: two functions of the same type change places.                  *)
get_interface_swapped ==
    <<"account_exists", "get_storage", "set_storage", "get_code_hash", "get_code_size",
      "get_balance", "copy_code", "call", "get_tx_context", "get_block_hash",
      "emit_log", "access_account", "access_storage">>

(* Host::get_interface(): the adaptors in the order of the initialisers.   *)
get_interface ==
    <<"account_exists", "get_storage", "set_storage", "get_balance", "get_code_size",
      "get_code_hash", "copy_code", "call", "get_tx_context", "get_block_hash",
      "emit_log", "access_account", "access_storage">>

(* HostContext: each method calls the field of its name.                   *)
HostContextField == [m \in ToSet(Fields) |-> m]
(* namespace internal: each adaptor calls the method of its name.          *)
AdaptorMethod == [f \in ToSet(Fields) |-> f]

(* The method of the Host object that runs for a method of HostContext.    *)
Reached(method) ==
    AdaptorMethod[get_interface[CHOOSE i \in DOMAIN Fields : Fields[i] = HostContextField[method]]]

Query(method, a) ==
    CASE method = "account_exists" -> account_exists(a)
      [] method = "get_balance"    -> get_balance(a)
      [] method = "get_code_size"  -> get_code_size(a)
      [] method = "get_code_hash"  -> get_code_hash(a)
      [] method = "access_account" -> "COLD"

Answer(method, arguments, value) ==
    /\ answer = NoAnswer
    /\ answer' = [method |-> method, arguments |-> arguments, value |-> value]

------------------------------------------------------------------------------
HostInit(initial) ==
    /\ accounts = initial
    /\ answer = NoAnswer

Ask(method, a) ==
    /\ Answer(method, <<a>>, Query(Reached(method), a))
    /\ UNCHANGED accounts

AskStorage(a, k) ==
    /\ Answer("get_storage", <<a, k>>, get_storage(a, k))
    /\ UNCHANGED accounts

(* Mistake: operator[] of the accounts starts from an empty account.       *)
set_storage_new_account(a, k, v) ==
    /\ Answer("set_storage", <<a, k, v>>,
              IF bytes32_equal(get_storage(a, k), v) THEN "ASSIGNED" ELSE "MODIFIED")
    /\ accounts' = Insert(accounts, a, AddressLess,
                          [account(a) EXCEPT !.storage = Insert(NoMap, k, KeyLess, v)])

(* operator[] inserts an empty account and an empty entry where there is   *)
(* none, then the value is assigned.                                       *)
set_storage(a, k, v) ==
    /\ Answer("set_storage", <<a, k, v>>,
              IF bytes32_equal(get_storage(a, k), v) THEN "ASSIGNED" ELSE "MODIFIED")
    /\ accounts' = Insert(accounts, a, AddressLess,
                          [account(a) EXCEPT !.storage = Insert(@, k, KeyLess, v)])

AskCode(a, code_offset, buffer_size) ==
    /\ Answer("copy_code", <<a, code_offset, buffer_size>>, copy_code(a, code_offset, buffer_size))
    /\ UNCHANGED accounts

call(gas, input_size) ==
    /\ \E result \in CallResults(gas, input_size) : Answer("call", <<gas>>, result)
    /\ UNCHANGED accounts

get_tx_context ==
    /\ Answer("get_tx_context", << >>, tx_context)
    /\ UNCHANGED accounts

AskBlockHash(number) ==
    /\ Answer("get_block_hash", <<number>>, get_block_hash(number))
    /\ UNCHANGED accounts

emit_log ==
    /\ Answer("emit_log", << >>, bytes32_0)
    /\ UNCHANGED accounts

access_storage(a, k) ==
    /\ Answer("access_storage", <<a, k>>, "COLD")
    /\ UNCHANGED accounts

(* The VM goes on with what it got.                                        *)
TakeAnswer ==
    /\ answer # NoAnswer
    /\ answer' = NoAnswer
    /\ UNCHANGED accounts

HostCall ==
    \/ \E method \in AddressMethod, a \in Addr : Ask(method, a)
    \/ \E a \in Addr, k \in Key : AskStorage(a, k) \/ access_storage(a, k)
    \/ \E a \in Addr, k \in Key, v \in Value : set_storage(a, k, v)
    \/ \E a \in Addr, offset \in Offset, size \in Size : AskCode(a, offset, size)
    \/ \E gas \in Gas, input_size \in Input : call(gas, input_size)
    \/ \E number \in BlockNumber : AskBlockHash(number)
    \/ get_tx_context \/ emit_log

------------------------------------------------------------------------------
(* The comparisons that order the maps agree with the numbers the keys     *)
(* encode, for all addresses and bytes32, so an entry is found under its   *)
(* own key and never under another.                                        *)
MapsFindTheirEntries ==
    /\ ComparesAsNumbers
    /\ \A a \in Addr : account_exists(a) <=> a \in DOMAIN accounts
    /\ \A a \in DOMAIN accounts, k \in Key :
          Found(accounts[a].storage, k, KeyLess) = {k} \cap DOMAIN accounts[a].storage

(* The Host as a VM sees it is what the queries answer.                    *)
Contract == INSTANCE HostContract WITH
    Address <- Addr, Zero <- bytes32_0, TxContext <- tx_context,
    CodeHash <- [code \in Code \cup {<< >>} |-> code_hash(code)],
    exists <- {a \in Addr : account_exists(a)},
    storage <- [a \in Addr |-> [k \in Key |-> get_storage(a, k)]],
    balance <- [a \in Addr |-> get_balance(a)],
    code <- [a \in Addr |-> account(a).code]

(* Every call of the interface answers what qrvmc.h says and changes only  *)
(* what it may: a wrong entry of the table, a write to another account or  *)
(* slot, or an entry made by a query would show in some later answer.      *)
ImplementsHost == Contract!Spec
==============================================================================
