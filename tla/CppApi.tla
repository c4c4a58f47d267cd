-------------------------------- MODULE CppApi --------------------------------
(***************************************************************************)
(* The C++ API as a client uses it (qrvmc.hpp): VM handles (VMHandle) and  *)
(* execution results (ResultOwnership) side by side.  They meet where a    *)
(* handle executes code: the result belongs to the client and outlives the *)
(* instance that made it.                                                  *)
(***************************************************************************)
EXTENDS ResultOwnership, VMHandle

apiVars == <<vars, handleVars>>

ApiInit == Init /\ HandleInit

(* VM::execute() through the handle h: the raw result of the instance is   *)
(* wrapped in a Result, here with an output of qrvmc_make_result().        *)
VM_execute(h, o) ==
    /\ h \in objects /\ m_instance[h] # nullptr
    /\ o \in Obj
    /\ make_result(o)
    /\ UNCHANGED handleVars

HandleNext ==
    \/ \E i \in Instance : qrvmc_create(i) \/ qrvmc_destroy(i)
    \/ \E h \in Handle, i \in Instance \cup {nullptr} :
          VM_construct(h, i) \/ VM_construct_options(h, i)
    \/ \E h, other \in Handle : VM_move_construct(h, other) \/ VM_move_assign(h, other)
    \/ \E h \in Handle : VM_destruct(h)

ApiNext ==
    \/ HandleNext /\ UNCHANGED vars
    \/ Next /\ UNCHANGED handleVars
    \/ \E h \in Handle, o \in Obj : VM_execute(h, o)

ApiSpec == ApiInit /\ [][ApiNext]_apiVars
==============================================================================
