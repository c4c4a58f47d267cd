--------------------------- MODULE ResultOwnership ---------------------------
(***************************************************************************)
(* Who releases the output of an execution: qrvmc_result with its release  *)
(* pointer, qrvmc_make_result (helpers.h), the RAII wrapper qrvmc::Result  *)
(* and the crossings between the two (qrvmc.hpp), and MockedHost::call,    *)
(* which makes a Result of the call_result kept in the host.               *)
(*                                                                         *)
(* A client calls the operations in any order the documentation allows: it *)
(* destroys every Result once, releases or wraps every raw result it is    *)
(* given once, does not use it afterwards, and never assigns a Result to   *)
(* itself ("The self-assignment MUST never happen").                       *)
(***************************************************************************)
EXTENDS Integers

CONSTANTS
    Obj,        \* places where a Result object can live
    Raw,        \* places where a raw qrvmc_result can live
    Buffer,     \* output buffers malloc() can return, never the same one twice
    NULL,       \* no output data
    Static,     \* output data nobody has to release
    HostResultOwned \* whether the user gave MockedHost::call_result a release function

ASSUME OwnershipAssumption ==
    /\ Obj \cap Raw = {}
    /\ NULL \notin Buffer /\ Static \notin Buffer /\ NULL # Static
    /\ HostResultOwned \in BOOLEAN

Data == Buffer \cup {NULL, Static}

(* A qrvmc_result in memory: its output_data, whether release is set, and  *)
(* whether it was moved from or released (it must not be used any more).   *)
Cell == [alive : BOOLEAN, data : Data, release : BOOLEAN, spent : BOOLEAN]
Dead == [alive |-> FALSE, data |-> NULL, release |-> FALSE, spent |-> FALSE]
Filled(data, release) ==
    [alive |-> TRUE, data |-> data, release |-> release, spent |-> FALSE]

Holder == Obj \cup Raw

VARIABLES
    cell,        \* [Holder -> Cell]
    allocated,   \* buffers that malloc() returned and nobody freed
    fresh,       \* buffers malloc() has not returned yet
    releases,    \* how often the release function ran for a buffer
    call_result  \* MockedHost::call_result

vars == <<cell, allocated, fresh, releases, call_result>>

------------------------------------------------------------------------------
Init ==
    /\ cell = [h \in Holder |-> Dead]
    /\ releases = [b \in Buffer |-> 0]
    /\ \/ /\ ~HostResultOwned
          /\ allocated = {} /\ fresh = Buffer
          /\ \E d \in {NULL, Static} : call_result = Filled(d, FALSE)
       \/ /\ HostResultOwned
          /\ \E b \in Buffer : /\ call_result = Filled(b, TRUE)
                               /\ allocated = {b} /\ fresh = Buffer \ {b}

(* if (release != nullptr) release(this): qrvmc_free_result_memory frees   *)
(* the buffer the structure points to.                                     *)
Release(c) ==
    IF c.release
    THEN /\ allocated' = allocated \ {c.data}
         /\ releases' = [releases EXCEPT ![c.data] = @ + 1]
    ELSE UNCHANGED <<allocated, releases>>

(* The structure stays where it is, without the right to release.          *)
Disowned(c) == [c EXCEPT !.release = FALSE, !.spent = TRUE]

(* qrvmc_make_result() into h: a copy of a nonempty output is allocated;   *)
(* without output, or without memory, there is nothing to release.         *)
make_result(h) ==
    /\ ~cell[h].alive
    /\ \/ \E b \in fresh :
             /\ cell' = [cell EXCEPT ![h] = Filled(b, TRUE)]
             /\ allocated' = allocated \cup {b}
             /\ fresh' = fresh \ {b}
       \/ /\ cell' = [cell EXCEPT ![h] = Filled(NULL, FALSE)]
          /\ UNCHANGED <<allocated, fresh>>
    /\ UNCHANGED <<releases, call_result>>

(* Result(const qrvmc_result&): takes the ownership of the raw result r,   *)
(* which the caller does not use again.                                    *)
FromRaw(o, r) ==
    /\ ~cell[o].alive
    /\ cell[r].alive /\ ~cell[r].spent
    /\ cell' = [cell EXCEPT ![o] = cell[r], ![r] = Dead]
    /\ UNCHANGED <<allocated, fresh, releases, call_result>>

(* MockedHost::call(): Result{call_result}, a bitwise copy.                *)
HostCall(o) ==
    /\ ~cell[o].alive
    /\ cell' = [cell EXCEPT ![o] = call_result]
    /\ UNCHANGED <<allocated, fresh, releases, call_result>>

(* ~Result()                                                               *)
Destroy(o) ==
    /\ cell[o].alive
    /\ Release(cell[o])
    /\ cell' = [cell EXCEPT ![o] = Dead]
    /\ UNCHANGED <<fresh, call_result>>

(* Mistake: other.release is not reset.                                    *)
MoveConstructShared(o, p) ==
    /\ ~cell[o].alive
    /\ cell[p].alive
    /\ cell' = [cell EXCEPT ![o] = cell[p]]
    /\ UNCHANGED <<allocated, fresh, releases, call_result>>

(* Result(Result&&)                                                        *)
MoveConstruct(o, p) ==
    /\ ~cell[o].alive
    /\ cell[p].alive
    /\ cell' = [cell EXCEPT ![o] = cell[p], ![p] = Disowned(cell[p])]
    /\ UNCHANGED <<allocated, fresh, releases, call_result>>

(* Mistake: the object assigned to is not released first.                  *)
MoveAssignLeak(o, p) ==
    /\ o # p
    /\ cell[o].alive /\ cell[p].alive
    /\ cell' = [cell EXCEPT ![o] = cell[p], ![p] = Disowned(cell[p])]
    /\ UNCHANGED <<allocated, fresh, releases, call_result>>

(* Result::operator=(Result&&): this object is released first.             *)
MoveAssign(o, p) ==
    /\ o # p
    /\ cell[o].alive /\ cell[p].alive
    /\ Release(cell[o])
    /\ cell' = [cell EXCEPT ![o] = cell[p], ![p] = Disowned(cell[p])]
    /\ UNCHANGED <<fresh, call_result>>

(* Mistake: the object keeps its release function.                         *)
release_raw_shared(o, r) ==
    /\ cell[o].alive /\ ~cell[o].spent
    /\ ~cell[r].alive
    /\ cell' = [cell EXCEPT ![r] = cell[o]]
    /\ UNCHANGED <<allocated, fresh, releases, call_result>>

(* Result::release_raw() into r, as internal::call and the VMs return it.  *)
release_raw(o, r) ==
    /\ cell[o].alive /\ ~cell[o].spent
    /\ ~cell[r].alive
    /\ cell' = [cell EXCEPT ![r] = cell[o], ![o] = Disowned(cell[o])]
    /\ UNCHANGED <<allocated, fresh, releases, call_result>>

(* qrvmc_release_result() on a raw result, which is not used again.        *)
qrvmc_release_result(r) ==
    /\ cell[r].alive /\ ~cell[r].spent
    /\ Release(cell[r])
    /\ cell' = [cell EXCEPT ![r] = Dead]
    /\ UNCHANGED <<fresh, call_result>>

Next ==
    \/ \E h \in Holder : make_result(h)
    \/ \E o \in Obj, r \in Raw : FromRaw(o, r)
    \/ \E o \in Obj : HostCall(o)
    \/ \E o \in Obj : Destroy(o)
    \/ \E o, p \in Obj : MoveConstruct(o, p)
    \/ \E o, p \in Obj : MoveAssign(o, p)
    \/ \E o \in Obj, r \in Raw : release_raw(o, r)
    \/ \E r \in Raw : qrvmc_release_result(r)

Spec == Init /\ [][Next]_vars

------------------------------------------------------------------------------
TypeOK ==
    /\ cell \in [Holder -> Cell]
    /\ allocated \subseteq Buffer
    /\ fresh \subseteq Buffer
    /\ releases \in [Buffer -> Nat]
    /\ call_result \in Cell

(* "If set it MUST be called by the user once": release() never runs twice *)
(* for the same output.                                                    *)
ReleasedAtMostOnce == \A b \in Buffer : releases[b] <= 1

(* Nothing leaks and nothing is owned twice: an output that is allocated   *)
(* has exactly one holder that will release it.                            *)
OneOwner ==
    \A b \in allocated :
        \E h \in Holder :
            /\ cell[h].alive /\ cell[h].release /\ cell[h].data = b
            /\ \A g \in Holder \ {h} : ~(cell[g].release /\ cell[g].data = b)

(* The output of a result that was not moved from or released can be read: *)
(* moving and releasing another result never frees it.                     *)
OutputReadable ==
    \A h \in Holder :
        cell[h].alive /\ ~cell[h].spent /\ cell[h].data \in Buffer =>
            cell[h].data \in allocated

==============================================================================
