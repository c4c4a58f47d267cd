------------------------------ MODULE StorageGas ------------------------------
(***************************************************************************)
(* MockedHost composed with a VM that charges SSTORE by the status the     *)
(* host returns, as docs/QRVM_Storage_Change_Status.md prescribes: the     *)
(* status is the only thing the VM learns about the slot, so the sequence  *)
(* of statuses alone has to add up to the right charge.                    *)
(***************************************************************************)
EXTENDS MockedHost

CONSTANT MaxWrites   \* bound of the model on the number of set_storage calls

ASSUME WritesAssumption == MaxWrites \in Nat

VARIABLES
    spent,     \* per slot: gas charged in this transaction beyond Gwarmaccess per write
    refund,    \* per slot: what the slot has added to the refund counter
    writes

ledger == <<spent, refund, writes>>
gasVars == <<hostVars, ledger>>

NoCharge == [a \in Addr |-> [k \in Key |-> 0]]

(* The transaction starts with clean slots.                                *)
GasInit ==
    /\ Init
    /\ \A a \in Addr, k \in Key : storage[a][k].original = storage[a][k].current
    /\ spent = NoCharge /\ refund = NoCharge
    /\ writes = 0

(* The VM executes SSTORE and books the charges of the returned status.    *)
SStore(a, k, v) ==
    LET status == SetStorageStatus(a, k, v) IN
    /\ writes < MaxWrites
    /\ set_storage(a, k, v)
    /\ spent' = [spent EXCEPT ![a][k] = @ + GasCost(status) - Gwarmaccess]
    /\ refund' = [refund EXCEPT ![a][k] = @ + GasRefund(status)]
    /\ writes' = writes + 1

(* A new transaction starts for a slot: its ledger starts again.           *)
Commit(a, k) ==
    /\ CommitSlot(a, k)
    /\ spent' = [spent EXCEPT ![a][k] = 0]
    /\ refund' = [refund EXCEPT ![a][k] = 0]
    /\ UNCHANGED writes

GasNext ==
    \/ \E a \in Addr, k \in Key, v \in Value : SStore(a, k, v)
    \/ \E a \in Addr, k \in Key : Commit(a, k)
    \/ OtherMethods /\ UNCHANGED ledger

GasSpec == GasInit /\ [][GasNext]_gasVars

------------------------------------------------------------------------------
(* What the change of a slot from o to c is worth, whatever happened in    *)
(* between: setting a zero slot costs Gsset - Gwarmaccess, changing a      *)
(* nonzero one Gsreset - Gwarmaccess, and clearing it earns Rsclear.       *)
NetCharge(o, c) ==
    IF o = c THEN 0
    ELSE IF o = Zero THEN Gsset - Gwarmaccess
    ELSE (Gsreset - Gwarmaccess) - (IF c = Zero THEN Rsclear ELSE 0)

GasTypeOK ==
    /\ TypeOK
    /\ spent \in [Addr -> [Key -> Int]]
    /\ refund \in [Addr -> [Key -> Int]]
    /\ writes \in 0..MaxWrites

(* Path independence: what was charged for a slot less what was refunded   *)
(* depends only on its original and its current value, not on the writes   *)
(* in between.  A wrong status anywhere in a sequence breaks it.           *)
ChargeIsPathIndependent ==
    \A a \in Addr, k \in Key :
        spent[a][k] - refund[a][k] =
            NetCharge(storage[a][k].original, storage[a][k].current)

(* The refund counter never goes negative although DELETED_ADDED and       *)
(* DELETED_RESTORED subtract from it: a clear is always refunded before it *)
(* is taken back, and what is left covers the clear that still stands.     *)
RefundNeverNegative ==
    \A a \in Addr, k \in Key :
        LET s == storage[a][k] IN
        refund[a][k] >= IF s.original # Zero /\ s.current = Zero THEN Rsclear ELSE 0

==============================================================================
