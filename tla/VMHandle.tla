------------------------------- MODULE VMHandle -------------------------------
(***************************************************************************)
(* The C++ handle of a VM instance, qrvmc::VM (qrvmc.hpp): an object that  *)
(* owns the instance its m_instance points to and destroys it.             *)
(*                                                                         *)
(* The create function of the VM module is external: an instance is new    *)
(* each time.                                                              *)
(* The client destroys every object once and passes a raw pointer to one   *)
(* handle at most, as the ownership in qrvmc.hpp demands; it may assign a  *)
(* handle to itself, which nothing forbids.                                *)
(***************************************************************************)
EXTENDS Integers

CONSTANTS
    Handle,     \* places where a VM object can live
    Instance,   \* VM instances, never the same one twice
    nullptr

ASSUME HandleAssumption == nullptr \notin Instance

VARIABLES
    objects,    \* VM objects that are alive
    m_instance, \* what each of them points to
    raw,        \* instances somebody has as a raw pointer, and must destroy
    live,       \* instances created and not destroyed
    unborn,     \* instances not created yet
    destroyed   \* how often destroy() ran for each instance

handleVars == <<objects, m_instance, raw, live, unborn, destroyed>>

HandleInit ==
    /\ objects = {}
    /\ m_instance = [h \in Handle |-> nullptr]
    /\ raw = {} /\ live = {} /\ unborn = Instance
    /\ destroyed = [i \in Instance |-> 0]

(* A create function of a VM module, called directly or by the loader.     *)
qrvmc_create(i) ==
    /\ i \in unborn
    /\ unborn' = unborn \ {i}
    /\ live' = live \cup {i}
    /\ raw' = raw \cup {i}
    /\ UNCHANGED <<objects, m_instance, destroyed>>

(* qrvmc_destroy() of an instance no handle was made for.                  *)
qrvmc_destroy(i) ==
    /\ i \in raw
    /\ raw' = raw \ {i}
    /\ live' = live \ {i}
    /\ destroyed' = [destroyed EXCEPT ![i] = @ + 1]
    /\ UNCHANGED <<objects, m_instance, unborn>>

(* if (m_instance != nullptr) m_instance->destroy(m_instance)              *)
DestroyInstance(i) ==
    IF i = nullptr
    THEN UNCHANGED <<live, destroyed>>
    ELSE /\ live' = live \ {i}
         /\ destroyed' = [destroyed EXCEPT ![i] = @ + 1]

(* VM(), and VM() of a raw pointer, which may be null.                     *)
VM_construct(h, i) ==
    /\ h \notin objects
    /\ i \in raw \cup {nullptr}
    /\ objects' = objects \cup {h}
    /\ m_instance' = [m_instance EXCEPT ![h] = i]
    /\ raw' = raw \ {i}
    /\ UNCHANGED <<live, unborn, destroyed>>

(* VM() of a raw pointer and options: set_option() for each of them, which *)
(* reads the instance, so the pointer is not null.  The answers are        *)
(* ignored: an instance that refuses an option is owned like any other.    *)
VM_construct_options(h, i) ==
    /\ i # nullptr
    /\ VM_construct(h, i)

(* Mistake: other.m_instance is not reset.                                 *)
VM_move_construct_shared(h, other) ==
    /\ h \notin objects /\ other \in objects
    /\ objects' = objects \cup {h}
    /\ m_instance' = [m_instance EXCEPT ![h] = m_instance[other]]
    /\ UNCHANGED <<raw, live, unborn, destroyed>>

(* VM(VM&&)                                                                *)
VM_move_construct(h, other) ==
    /\ h \notin objects /\ other \in objects
    /\ objects' = objects \cup {h}
    /\ m_instance' = [m_instance EXCEPT ![h] = m_instance[other], ![other] = nullptr]
    /\ UNCHANGED <<raw, live, unborn, destroyed>>

(* Mistake: a handle keeps the instance it had, without this->~VM().       *)
VM_move_assign_leak(h, other) ==
    /\ h \in objects /\ other \in objects
    /\ m_instance' = [[m_instance EXCEPT ![h] = m_instance[other]] EXCEPT ![other] = nullptr]
    /\ UNCHANGED <<objects, raw, live, unborn, destroyed>>

(* Mistake: other.m_instance is not reset.                                 *)
VM_move_assign_shared(h, other) ==
    /\ h \in objects /\ other \in objects
    /\ DestroyInstance(m_instance[h])
    /\ m_instance' = [m_instance EXCEPT ![h] = m_instance[other]]
    /\ UNCHANGED <<objects, raw, unborn>>

(* operator=(VM&&): the destructor of this object runs first, then its     *)
(* pointer is replaced, then the other one is reset: when both are one     *)
(* object, the instance is destroyed and the handle is null.               *)
VM_move_assign(h, other) ==
    /\ h \in objects /\ other \in objects
    /\ DestroyInstance(m_instance[h])
    /\ m_instance' = [[m_instance EXCEPT ![h] = m_instance[other]] EXCEPT ![other] = nullptr]
    /\ UNCHANGED <<objects, raw, unborn>>

(* ~VM()                                                                   *)
VM_destruct(h) ==
    /\ h \in objects
    /\ DestroyInstance(m_instance[h])
    /\ objects' = objects \ {h}
    /\ m_instance' = [m_instance EXCEPT ![h] = nullptr]
    /\ UNCHANGED <<raw, unborn>>

------------------------------------------------------------------------------
(* An instance is alive exactly while one handle, or the one owner of its  *)
(* raw pointer, will destroy it: moving, assigning (also a handle to       *)
(* itself) and destroying handles in any order neither leaks nor shares.   *)
InstanceHasOneOwner ==
    \A i \in Instance : i \in live <=>
        \/ /\ i \in raw
           /\ \A h \in objects : m_instance[h] # i
        \/ /\ i \notin raw
           /\ \E h \in objects : /\ m_instance[h] = i
                                 /\ \A g \in objects \ {h} : m_instance[g] # i

(* The pointer of a handle, which a client uses after checking that it is  *)
(* not null, is that of an instance that is alive, and destroy() runs at   *)
(* most once for each.                                                     *)
NoHandleDangles ==
    /\ \A h \in objects : m_instance[h] \in live \cup {nullptr}
    /\ \A i \in Instance : destroyed[i] <= 1
==============================================================================
