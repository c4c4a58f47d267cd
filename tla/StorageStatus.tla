---------------------------- MODULE StorageStatus ----------------------------
(***************************************************************************)
(* The storage status of one set_storage(): a pure function of the         *)
(* original value o, the current value c and the new value v of a slot.    *)
(*                                                                         *)
(* StatusOf is the clause tree of MockedHost::set_storage (EIP-2200),      *)
(* with its C++ assertions.  GasCost and GasRefund are the columns of the  *)
(* table in docs/QRVM_Storage_Change_Status.md that a VM charges for each  *)
(* status, and ChecksumStatus is the "efficient implementation" the same   *)
(* document (and a comment in the code) proposes: a lookup by four checks. *)
(***************************************************************************)
EXTENDS Integers

CONSTANTS
    Value,        \* bytes32 storage values
    Zero,         \* bytes32{}
    Gwarmaccess, Gsset, Gsreset, Rsclear  \* the cost constants of the document

ASSUME ZeroAssumption == Zero \in Value

(* Both columns of cost constants (EIP-2200 and EIP-2929) satisfy this.    *)
ASSUME GasAssumption ==
    /\ Gwarmaccess \in Nat /\ Gsset \in Nat /\ Gsreset \in Nat /\ Rsclear \in Nat
    /\ Gwarmaccess <= Gsset
    /\ Gwarmaccess <= Gsreset

Status == {"ASSIGNED", "ADDED", "DELETED", "MODIFIED", "DELETED_ADDED",
           "MODIFIED_DELETED", "DELETED_RESTORED", "ADDED_DELETED",
           "MODIFIED_RESTORED"}

(* What the lambda yields when it reaches an assert whose condition fails. *)
AssertFailed == "ASSERT_FAILED"

------------------------------------------------------------------------------
(* The clause tree of set_storage.                                         *)

(* Mistake: clause 3.2.1.2 applied whatever the original value is.         *)
TriggeredClausesNoOriginalCheck(o, c, v) ==
    (IF o # Zero /\ c = Zero THEN {"RemoveClearsSchedule"} ELSE {})
    \cup (IF v = Zero THEN {"AddClearsSchedule"} ELSE {})
    \cup (IF o = v /\ o = Zero THEN {"RestoredBySet"} ELSE {})
    \cup (IF o = v /\ o # Zero THEN {"RestoredByReset"} ELSE {})

(* The bits collected for a dirty slot (clauses 3.2.1 and 3.2.2).          *)
TriggeredClauses(o, c, v) ==
    {cl \in {"RemoveClearsSchedule", "AddClearsSchedule",
             "RestoredBySet", "RestoredByReset"} :
        \/ cl = "RemoveClearsSchedule" /\ o # Zero /\ c = Zero
        \/ cl = "AddClearsSchedule"    /\ o # Zero /\ v = Zero
        \/ cl = "RestoredBySet"        /\ o = v /\ o = Zero
        \/ cl = "RestoredByReset"      /\ o = v /\ o # Zero}

(* Mistake: a cleared slot that gets its original value back is reported   *)
(* as DELETED_ADDED.                                                       *)
ClauseStatusRestoreLost(triggered) ==
    CASE "RemoveClearsSchedule" \in triggered -> "DELETED_ADDED"
      [] triggered = {"AddClearsSchedule"}    -> "MODIFIED_DELETED"
      [] triggered = {"RestoredBySet"}        -> "ADDED_DELETED"
      [] triggered = {"RestoredByReset"}      -> "MODIFIED_RESTORED"
      [] triggered = {}                       -> "ASSIGNED"
      [] OTHER                                -> AssertFailed

(* The switch over the combination of clauses; any other one is the        *)
(* default branch, assert(false).                                          *)
ClauseStatus(triggered) ==
    CASE triggered = {"RemoveClearsSchedule"}                    -> "DELETED_ADDED"
      [] triggered = {"AddClearsSchedule"}                       -> "MODIFIED_DELETED"
      [] triggered = {"RemoveClearsSchedule", "RestoredByReset"} -> "DELETED_RESTORED"
      [] triggered = {"RestoredBySet"}                           -> "ADDED_DELETED"
      [] triggered = {"RestoredByReset"}                         -> "MODIFIED_RESTORED"
      [] triggered = {}                                          -> "ASSIGNED"
      [] OTHER                                                   -> AssertFailed

(* assert(!is_zero(value)) of 3.2.1.1 and assert(!is_zero(current)) of     *)
(* 3.2.1.2.                                                                *)
ClauseAssertsHold(o, c, v) ==
    o # Zero => /\ c = Zero => v # Zero
                /\ v = Zero => c # Zero

(* Mistake: clearing a clean slot reported as a modification.              *)
CleanStatusClearLost(o, v) == IF o = Zero THEN "ADDED" ELSE "MODIFIED"

CleanStatus(o, v) ==
    IF o = Zero THEN "ADDED"
    ELSE IF v = Zero THEN "DELETED" ELSE "MODIFIED"

DirtyStatus(o, c, v) ==
    IF ClauseAssertsHold(o, c, v) THEN ClauseStatus(TriggeredClauses(o, c, v))
                                  ELSE AssertFailed

StatusOf(o, c, v) ==
    IF c = v THEN "ASSIGNED"
    ELSE IF o = c THEN CleanStatus(o, v)
                  ELSE DirtyStatus(o, c, v)

------------------------------------------------------------------------------
(* What the documentation promises of the status.                          *)

(* Column "gas cost" of the table of statuses.                             *)
GasCost(status) ==
    CASE status = "ADDED"                    -> Gsset
      [] status \in {"DELETED", "MODIFIED"}  -> Gsreset
      [] OTHER                               -> Gwarmaccess

(* Column "gas refund" of the table of statuses.                           *)
GasRefund(status) ==
    CASE status \in {"DELETED", "MODIFIED_DELETED"} -> Rsclear
      [] status = "DELETED_ADDED"     -> -Rsclear
      [] status = "DELETED_RESTORED"  -> Gsreset - Gwarmaccess - Rsclear
      [] status = "ADDED_DELETED"     -> Gsset - Gwarmaccess
      [] status = "MODIFIED_RESTORED" -> Gsreset - Gwarmaccess
      [] OTHER                        -> 0

(* The checksum of the document: one bit per check.                        *)
Checksum(o, c, v) ==
      (IF o # c    THEN 8 ELSE 0)
    + (IF o = v    THEN 4 ELSE 0)
    + (IF c # Zero THEN 2 ELSE 0)
    + (IF v # Zero THEN 1 ELSE 0)

(* The second table: the status is looked up by the checksum alone; four   *)
(* checksums are declared impossible.                                      *)
ChecksumStatus(sum) ==
    CASE sum \in {4, 7, 8, 11} -> "ASSIGNED"
      [] sum = 1               -> "ADDED"
      [] sum = 2               -> "DELETED"
      [] sum = 3               -> "MODIFIED"
      [] sum = 9               -> "DELETED_ADDED"
      [] sum = 10              -> "MODIFIED_DELETED"
      [] sum = 13              -> "DELETED_RESTORED"
      [] sum = 14              -> "ADDED_DELETED"
      [] sum = 15              -> "MODIFIED_RESTORED"
      [] OTHER                 -> "impossible"
==============================================================================
