-------------------------------- MODULE Loader --------------------------------
(***************************************************************************)
(* The loader of VM modules (lib/loader/loader.c): qrvmc_load,             *)
(* qrvmc_load_and_create, qrvmc_load_and_configure, qrvmc_last_error_msg,  *)
(* called by any number of threads.  A call advances step by step; the     *)
(* steps of two calls interleave wherever both touch the static variables, *)
(* the dynamic linker or the VM instances.                                 *)
(*                                                                         *)
(* The three functions call each other: each layer has its own error code, *)
(* stores it through the pointer of the caller at its own exit, and leaves *)
(* early when the layer below it failed.                                   *)
(*                                                                         *)
(* The dynamic linker and the VM module are external: opening a file,      *)
(* finding a symbol, creating an instance, its ABI version and its answer  *)
(* to set_option are free choices, while what a library exports is given.  *)
(* File names and configurations are sequences of characters, because the  *)
(* code takes them apart; a message is the error it is about.              *)
(***************************************************************************)
EXTENDS Integers, Sequences, FiniteSets

CONSTANTS
    Thread,
    Unasking,         \* threads that pass no pointer for the error code
    File,             \* file names the callers pass, as sequences of characters
    Exports,          \* [File -> create functions the library exports]
    NameSample,       \* names to compare with the documented rules, beside File
    Instance,         \* VM instances, never the same one twice
    NULL,
    Config,           \* configuration strings, as sequences of characters
    PATH_MAX_LENGTH,  \* 4096
    MaxCalls          \* bound of the model on the number of calls

(* A create function: "qrvmc_create_" with a base name, or "qrvmc_create". *)
Prefixed(base) == <<"qrvmc_create_", base>>
Unprefixed == <<"qrvmc_create">>

ErrorCode == {"SUCCESS", "CANNOT_OPEN", "SYMBOL_NOT_FOUND", "INVALID_ARGUMENT",
              "VM_CREATION_FAILURE", "ABI_VERSION_MISMATCH",
              "INVALID_OPTION_NAME", "INVALID_OPTION_VALUE"}

(* The functions, by what they do; the later ones call the earlier ones.   *)
Layer == {"load", "create", "configure"}

Pc == {"idle", "copy", "reset", "open", "symbol", "create", "abi", "mismatch",
       "options", "format", "publish", "exit", "returned"}

VARIABLES
    (* per thread: the call in progress and its local variables *)
    pc,
    op,           \* the function the caller called
    layer,        \* the function that is running, op or one below it
    file, config,
    options,      \* the string that the pointer into the copied configuration points to
    create_fn, vm,
    passed,       \* the options passed to vm, in order
    ec,           \* of qrvmc_load or qrvmc_load_and_create, whichever is running
    ec_configure, \* of qrvmc_load_and_configure, which the calls of those leave alone
    error_code,   \* what the pointer of the caller points to, NULL if it is null
    solo,         \* no other call has been in progress during this one
    (* the static variables of the loader *)
    last_error_msg,         \* NULL, or what it points to: "buffer" or "dlerror"
    last_error_msg_buffer,  \* the error the buffered message is about
    (* the process *)
    handles,      \* reference count of each library in the dynamic linker
    live,         \* instances created and not destroyed
    fresh,        \* instances not created yet
    destroyed,    \* how often each instance was destroyed
    module,       \* per living instance: the file it was created from
    set_option,   \* per living instance: whether the method is there
    owned,        \* instances handed to the callers
    functions,    \* files whose create function was handed to the callers
    calls

locals  == <<op, config, solo>>
args    == <<file, options, passed>>
held    == <<create_fn, vm>>
codes   == <<ec, ec_configure>>
statics == <<last_error_msg, last_error_msg_buffer>>
linker  == <<handles, functions>>
vms     == <<live, fresh, destroyed, module, set_option, owned>>
vars == <<pc, layer, locals, args, held, codes, error_code, statics, linker, vms, calls>>

------------------------------------------------------------------------------
(* strcpy_sx(): the terminating null has to fit too.                       *)
strcpy_sx_fits(length, destsz) == ~(length >= destsz)

(* The name of the create function.  PartAfter is what follows the last    *)
(* separator, PartBefore what precedes the first.                          *)
PartAfter(separator, name) ==
    LET at == {0} \cup {i \in DOMAIN name : name[i] = separator}
        last == CHOOSE i \in at : \A j \in at : j <= i
    IN  SubSeq(name, last + 1, Len(name))

PartBefore(separator, name) ==
    LET at == {Len(name) + 1} \cup {i \in DOMAIN name : name[i] = separator}
        first == CHOOSE i \in at : \A j \in at : i <= j
    IN  SubSeq(name, 1, first - 1)

lib_prefix == <<"l", "i", "b">>
SkipLib(name) ==
    IF Len(name) >= Len(lib_prefix) /\ SubSeq(name, 1, Len(lib_prefix)) = lib_prefix
    THEN SubSeq(name, Len(lib_prefix) + 1, Len(name))
    ELSE name

(* A name that does not fit is copied as the empty one, and the answer of  *)
(* strcpy_sx() is not looked at.                                           *)
CopiedName(name) == IF strcpy_sx_fits(Len(name), PATH_MAX_LENGTH) THEN name ELSE << >>

DashesReplaced(name) == [i \in DOMAIN name |-> IF name[i] = "-" THEN "_" ELSE name[i]]

(* Mistake: only the last extension is trimmed.                            *)
base_name_one_extension(filename) ==
    LET name == CopiedName(SkipLib(PartAfter("/", filename)))
        at == {i \in DOMAIN name : name[i] = "."}
    IN  DashesReplaced(IF at = {} THEN name
                       ELSE SubSeq(name, 1, (CHOOSE i \in at : \A j \in at : j <= i) - 1))

base_name(filename) ==
    DashesReplaced(PartBefore(".", CopiedName(SkipLib(PartAfter("/", filename)))))

(* The prefixed name is searched first.                                    *)
Lookup(f) ==
    IF Prefixed(base_name(f)) \in Exports[f] THEN Prefixed(base_name(f))
    ELSE IF Unprefixed \in Exports[f] THEN Unprefixed ELSE NULL

------------------------------------------------------------------------------
(* What separates the path and the options.                                *)
Comma == ","

(* Mistake: strtok(), which passes over empty tokens.                      *)
get_token_strtok(str, delim) ==
    LET other == {i \in DOMAIN str : str[i] # delim}
        first == CHOOSE i \in other : \A j \in other : i <= j
        text == IF other = {} THEN << >> ELSE SubSeq(str, first, Len(str))
        token == PartBefore(delim, text)
    IN  [token |-> token, rest |-> SubSeq(text, Len(token) + 2, Len(text))]

(* The token, and the string that the pointer points to afterwards: what   *)
(* follows the delimiter, or the end.                                      *)
get_token(str, delim) ==
    LET token == PartBefore(delim, str) IN
    IF \E i \in DOMAIN str : str[i] = delim
    THEN [token |-> token, rest |-> SubSeq(str, Len(token) + 2, Len(str))]
    ELSE [token |-> str, rest |-> << >>]

ASSUME LoaderAssumption ==
    /\ NULL \notin Instance /\ NULL \notin File
    /\ NULL \notin {"buffer", "dlerror", "unset"} \cup ErrorCode
    /\ File \cup NameSample \cup Config \subseteq Seq(STRING)
    /\ \A c \in Config : get_token(c, Comma).token \in File
    /\ DOMAIN Exports = File
    /\ \A f \in File : \A e \in Exports[f] :
          e = Unprefixed \/ (e = Prefixed(e[2]) /\ e[2] \in Seq(STRING))
    /\ PATH_MAX_LENGTH \in Nat
    /\ MaxCalls \in Nat

------------------------------------------------------------------------------
Init ==
    /\ pc = [t \in Thread |-> "idle"]
    /\ op = [t \in Thread |-> "load"]
    /\ layer = [t \in Thread |-> "load"]
    /\ file = [t \in Thread |-> NULL]
    /\ solo = [t \in Thread |-> TRUE]
    /\ config = [t \in Thread |-> << >>]
    /\ options = [t \in Thread |-> << >>]
    /\ passed = [t \in Thread |-> << >>]
    /\ create_fn = [t \in Thread |-> NULL]
    /\ vm = [t \in Thread |-> NULL]
    /\ ec = [t \in Thread |-> "SUCCESS"]
    /\ ec_configure = [t \in Thread |-> "SUCCESS"]
    /\ error_code = [t \in Thread |-> NULL]
    /\ last_error_msg = NULL
    /\ last_error_msg_buffer = "SUCCESS"
    /\ handles = [f \in File |-> 0]
    /\ live = {} /\ fresh = Instance /\ owned = {}
    /\ destroyed = [i \in Instance |-> 0]
    /\ module = [i \in Instance |-> NULL]
    /\ set_option = [i \in Instance |-> FALSE]
    /\ functions = {}
    /\ calls = 0

Goto(t, label) == pc' = [pc EXCEPT ![t] = label]

(* The function that is running calls the one below it, or one returned.   *)
Enter(t, function, label) ==
    /\ layer' = [layer EXCEPT ![t] = function]
    /\ Goto(t, label)

(* The code of the running function.                                       *)
Code(t) == IF layer[t] = "configure" THEN ec_configure[t] ELSE ec[t]

(* set_error(): the code of the running function is set here, the message  *)
(* in the steps to come.                                                   *)
Fail(t, code) ==
    /\ \/ /\ layer[t] = "configure"
          /\ ec_configure' = [ec_configure EXCEPT ![t] = code]
          /\ UNCHANGED ec
       \/ /\ layer[t] # "configure"
          /\ ec' = [ec EXCEPT ![t] = code]
          /\ UNCHANGED ec_configure
    /\ Goto(t, "format")

(* if (error_code) *error_code = ec;                                       *)
Store(t) ==
    error_code' = [error_code EXCEPT ![t] = IF @ = NULL THEN NULL ELSE Code(t)]

------------------------------------------------------------------------------
(* The calls.  Each function begins with an error code of its own that     *)
(* says success; the variable of the caller, if any, has no value yet.     *)
Begin(t, operation, name, cfg, function, label) ==
    /\ pc[t] = "idle" /\ calls < MaxCalls
    /\ calls' = calls + 1
    /\ op' = [op EXCEPT ![t] = operation]
    /\ file' = [file EXCEPT ![t] = name]
    /\ config' = [config EXCEPT ![t] = cfg]
    /\ options' = [options EXCEPT ![t] = << >>]
    /\ passed' = [passed EXCEPT ![t] = << >>]
    /\ create_fn' = [create_fn EXCEPT ![t] = NULL]
    /\ solo' = [u \in Thread |-> IF u = t THEN \A v \in Thread : pc[v] = "idle"
                                          ELSE solo[u] /\ pc[u] = "idle"]
    /\ vm' = [vm EXCEPT ![t] = NULL]
    /\ ec' = [ec EXCEPT ![t] = "SUCCESS"]
    /\ ec_configure' = [ec_configure EXCEPT ![t] = "SUCCESS"]
    /\ error_code' = [error_code EXCEPT ![t] = IF t \in Unasking THEN NULL ELSE "unset"]
    /\ Enter(t, function, label)
    /\ UNCHANGED <<statics, linker, vms>>

qrvmc_load(t, name) == Begin(t, "load", name, << >>, "load", "reset")
qrvmc_load_and_create(t, name) == Begin(t, "create", name, << >>, "load", "reset")
qrvmc_load_and_configure(t, cfg) == Begin(t, "configure", NULL, cfg, "configure", "copy")

------------------------------------------------------------------------------
(* The steps of a call.                                                    *)

(* NULL, the empty name and names beyond the maximum are refused.          *)
ValidName(name) == name # NULL /\ name # << >> /\ ~(Len(name) > PATH_MAX_LENGTH)

(* qrvmc_load_and_configure copies the configuration into a fixed buffer,  *)
(* takes the path off it and has the VM loaded and created.                *)
CopyConfig(t) ==
    /\ pc[t] = "copy"
    /\ \/ /\ strcpy_sx_fits(Len(config[t]), PATH_MAX_LENGTH)
          /\ LET path == get_token(config[t], Comma) IN
                /\ file' = [file EXCEPT ![t] = path.token]
                /\ options' = [options EXCEPT ![t] = path.rest]
          /\ Enter(t, "load", "reset")
          /\ UNCHANGED codes
       \/ /\ ~strcpy_sx_fits(Len(config[t]), PATH_MAX_LENGTH)
          /\ Fail(t, "INVALID_ARGUMENT")
          /\ UNCHANGED <<layer, file, options>>
    /\ UNCHANGED <<locals, passed, held, error_code, statics, linker, vms, calls>>

(* Mistake: a message nobody read outlives the next call.                  *)
ResetAndCheckStale(t) ==
    /\ pc[t] = "reset"
    /\ \/ /\ ValidName(file[t])
          /\ Goto(t, "open")
          /\ UNCHANGED codes
       \/ /\ ~ValidName(file[t])
          /\ Fail(t, "INVALID_ARGUMENT")
    /\ UNCHANGED <<layer, locals, args, held, error_code, statics, linker, vms, calls>>

(* qrvmc_load resets the message and checks the file name.                 *)
ResetAndCheck(t) ==
    /\ pc[t] = "reset"
    /\ last_error_msg' = NULL
    /\ \/ /\ ValidName(file[t])
          /\ Goto(t, "open")
          /\ UNCHANGED codes
       \/ /\ ~ValidName(file[t])
          /\ Fail(t, "INVALID_ARGUMENT")
    /\ UNCHANGED <<layer, locals, args, held, error_code, last_error_msg_buffer, linker, vms, calls>>

(* DLL_OPEN: the message of the linker is used when there is one.          *)
Open(t) ==
    /\ pc[t] = "open"
    /\ \/ /\ handles' = [handles EXCEPT ![file[t]] = @ + 1]
          /\ Goto(t, "symbol")
          /\ UNCHANGED <<codes, last_error_msg>>
       \/ /\ last_error_msg' = "dlerror"
          /\ ec' = [ec EXCEPT ![t] = "CANNOT_OPEN"]
          /\ Goto(t, "exit")
          /\ UNCHANGED <<ec_configure, handles>>
       \/ /\ last_error_msg' = NULL
          /\ Fail(t, "CANNOT_OPEN")
          /\ UNCHANGED handles
    /\ UNCHANGED <<layer, locals, args, held, error_code, last_error_msg_buffer,
                   functions, vms, calls>>

(* Mistake: the library is closed after the lookup in both cases.          *)
FindSymbolAlwaysCloses(t) ==
    /\ pc[t] = "symbol"
    /\ handles' = [handles EXCEPT ![file[t]] = @ - 1]
    /\ \/ /\ Lookup(file[t]) # NULL
          /\ create_fn' = [create_fn EXCEPT ![t] = Lookup(file[t])]
          /\ Goto(t, "exit")
          /\ UNCHANGED codes
       \/ /\ Lookup(file[t]) = NULL
          /\ Fail(t, "SYMBOL_NOT_FOUND")
          /\ UNCHANGED create_fn
    /\ UNCHANGED <<layer, locals, args, vm, error_code, statics, functions, vms, calls>>

(* Mistake: the library is closed after each of the two lookups.           *)
FindSymbolClosesTwice(t) ==
    /\ pc[t] = "symbol"
    /\ \/ /\ Lookup(file[t]) # NULL
          /\ create_fn' = [create_fn EXCEPT ![t] = Lookup(file[t])]
          /\ Goto(t, "exit")
          /\ UNCHANGED <<codes, handles>>
       \/ /\ Lookup(file[t]) = NULL
          /\ handles' = [handles EXCEPT ![file[t]] = @ - 2]
          /\ Fail(t, "SYMBOL_NOT_FOUND")
          /\ UNCHANGED create_fn
    /\ UNCHANGED <<layer, locals, args, vm, error_code, statics, functions, vms, calls>>

(* The prefixed name, then "qrvmc_create"; the library is closed when it   *)
(* has neither.                                                            *)
FindSymbol(t) ==
    /\ pc[t] = "symbol"
    /\ \/ /\ Lookup(file[t]) # NULL
          /\ create_fn' = [create_fn EXCEPT ![t] = Lookup(file[t])]
          /\ Goto(t, "exit")
          /\ UNCHANGED <<codes, handles>>
       \/ /\ Lookup(file[t]) = NULL
          /\ handles' = [handles EXCEPT ![file[t]] = @ - 1]
          /\ Fail(t, "SYMBOL_NOT_FOUND")
          /\ UNCHANGED create_fn
    /\ UNCHANGED <<layer, locals, args, vm, error_code, statics, functions, vms, calls>>

(* The end of qrvmc_load.  The functions above it return NULL at once when *)
(* there is no create function: the code stored here stays.                *)
ExitLoad(t) ==
    /\ pc[t] = "exit" /\ layer[t] = "load"
    /\ Store(t)
    /\ \/ /\ op[t] = "load" \/ create_fn[t] = NULL
          /\ Goto(t, "returned")
          /\ UNCHANGED <<layer, ec>>
       \/ /\ op[t] # "load" /\ create_fn[t] # NULL
          /\ Enter(t, "create", "create")
          /\ ec' = [ec EXCEPT ![t] = "SUCCESS"]
    /\ UNCHANGED <<locals, args, held, ec_configure, statics, linker, vms, calls>>

(* create_fn(); which of the fresh instances it is makes no difference.    *)
Create(t) ==
    /\ pc[t] = "create"
    /\ \/ /\ fresh # {}
          /\ LET i == CHOOSE i \in fresh : TRUE IN
                /\ vm' = [vm EXCEPT ![t] = i]
                /\ live' = live \cup {i}
                /\ fresh' = fresh \ {i}
                /\ module' = [module EXCEPT ![i] = file[t]]
                /\ \E has \in BOOLEAN : set_option' = [set_option EXCEPT ![i] = has]
          /\ Goto(t, "abi")
          /\ UNCHANGED codes
       \/ /\ Fail(t, "VM_CREATION_FAILURE")
          /\ UNCHANGED <<vm, live, fresh, module, set_option>>
    /\ UNCHANGED <<layer, locals, args, create_fn, error_code, statics, linker,
                   destroyed, owned, calls>>

CheckAbi(t) ==
    /\ pc[t] = "abi"
    /\ \/ Goto(t, "exit") /\ UNCHANGED codes
       \/ Fail(t, "ABI_VERSION_MISMATCH")
    /\ UNCHANGED <<layer, locals, args, held, error_code, statics, linker, vms, calls>>

(* qrvmc_destroy(vm) of the loader.                                        *)
Destroy(t) ==
    /\ live' = live \ {vm[t]}
    /\ destroyed' = [destroyed EXCEPT ![vm[t]] = @ + 1]
    /\ module' = [module EXCEPT ![vm[t]] = NULL]
    /\ set_option' = [set_option EXCEPT ![vm[t]] = FALSE]
    /\ vm' = [vm EXCEPT ![t] = NULL]

(* After the message about the mismatch.                                   *)
DestroyMismatched(t) ==
    /\ pc[t] = "mismatch"
    /\ Destroy(t)
    /\ Goto(t, "exit")
    /\ UNCHANGED <<layer, locals, args, create_fn, codes, error_code, statics, linker,
                   fresh, owned, calls>>

(* Mistake: without an instance qrvmc_load_and_configure goes to its exit, *)
(* where its own code, still that of success, is stored.                   *)
ExitCreateStale(t) ==
    /\ pc[t] = "exit" /\ layer[t] = "create"
    /\ Store(t)
    /\ \/ /\ op[t] = "create"
          /\ Goto(t, "returned")
          /\ UNCHANGED layer
       \/ /\ op[t] # "create"
          /\ Enter(t, "configure", IF vm[t] = NULL THEN "exit" ELSE "options")
    /\ UNCHANGED <<locals, args, held, codes, statics, linker, vms, calls>>

(* The end of qrvmc_load_and_create.  The function above it returns NULL   *)
(* at once when there is no instance: the code stored here stays.          *)
ExitCreate(t) ==
    /\ pc[t] = "exit" /\ layer[t] = "create"
    /\ Store(t)
    /\ \/ /\ op[t] = "create" \/ vm[t] = NULL
          /\ Goto(t, "returned")
          /\ UNCHANGED layer
       \/ /\ op[t] # "create" /\ vm[t] # NULL
          /\ Enter(t, "configure", "options")
    /\ UNCHANGED <<locals, args, held, codes, statics, linker, vms, calls>>

(* The loop over the options: none left, no set_option method, or one      *)
(* option passed to the VM and its answer.                                 *)
OptionsDone(t) ==
    /\ pc[t] = "options" /\ Len(options[t]) = 0
    /\ Goto(t, "exit")
    /\ UNCHANGED <<layer, locals, args, held, codes, error_code, statics, linker, vms, calls>>

OptionsUnsupported(t) ==
    /\ pc[t] = "options" /\ Len(options[t]) # 0
    /\ ~set_option[vm[t]]
    /\ Fail(t, "INVALID_OPTION_NAME")
    /\ UNCHANGED <<layer, locals, args, held, error_code, statics, linker, vms, calls>>

(* Mistake: without a delimiter the pointer goes back to the first option, *)
(* not to the end, and the options are passed again and again.             *)
PassOptionAgain(t) ==
    /\ pc[t] = "options" /\ Len(options[t]) # 0
    /\ set_option[vm[t]]
    /\ LET option == get_token(options[t], Comma)
           name == get_token(option.token, "=")
       IN  /\ options' = [options EXCEPT ![t] =
                IF option.rest = << >> THEN get_token(config[t], Comma).rest ELSE option.rest]
           /\ passed' = [passed EXCEPT ![t] = <<[name |-> name.token, value |-> name.rest]>>]
    /\ \/ UNCHANGED <<pc, codes>>
       \/ Fail(t, "INVALID_OPTION_NAME")
       \/ Fail(t, "INVALID_OPTION_VALUE")
    /\ UNCHANGED <<layer, locals, file, held, error_code, statics, linker, live, fresh,
                   destroyed, module, set_option, owned, calls>>

(* The next token is an option; its name is the token before "=", and the  *)
(* rest, possibly empty, its value.  Any answer but success, known or not, *)
(* ends the loop.                                                          *)
PassOption(t) ==
    /\ pc[t] = "options" /\ Len(options[t]) # 0
    /\ set_option[vm[t]]
    /\ LET option == get_token(options[t], Comma)
           name == get_token(option.token, "=")
       IN  /\ options' = [options EXCEPT ![t] = option.rest]
           /\ passed' = [passed EXCEPT ![t] =
                            Append(@, [name |-> name.token, value |-> name.rest])]
    /\ \/ UNCHANGED <<pc, codes>>
       \/ Fail(t, "INVALID_OPTION_NAME")
       \/ Fail(t, "INVALID_OPTION_VALUE")
    /\ UNCHANGED <<layer, locals, file, held, error_code, statics, linker, live, fresh,
                   destroyed, module, set_option, owned, calls>>

(* Mistake: "return NULL" without qrvmc_destroy(vm).                       *)
ExitConfigureLeak(t) ==
    /\ pc[t] = "exit" /\ layer[t] = "configure"
    /\ Store(t)
    /\ vm' = [vm EXCEPT ![t] = IF ec_configure[t] = "SUCCESS" THEN @ ELSE NULL]
    /\ Goto(t, "returned")
    /\ UNCHANGED <<layer, locals, args, create_fn, codes, statics, linker, vms, calls>>

(* The end of qrvmc_load_and_configure: an instance whose options were not *)
(* all accepted is destroyed, and NULL is returned.                        *)
ExitConfigure(t) ==
    /\ pc[t] = "exit" /\ layer[t] = "configure"
    /\ Store(t)
    /\ \/ /\ ec_configure[t] # "SUCCESS" /\ vm[t] # NULL
          /\ Destroy(t)
       \/ /\ ec_configure[t] = "SUCCESS" \/ vm[t] = NULL
          /\ UNCHANGED <<live, destroyed, module, set_option, vm>>
    /\ Goto(t, "returned")
    /\ UNCHANGED <<layer, locals, args, create_fn, codes, statics, linker, fresh, owned, calls>>

(* set_error(): vsnprintf() into the buffer, then, when the text fitted,   *)
(* the pointer.  The texts for invalid arguments are short.                *)
FormatError(t) ==
    /\ pc[t] = "format"
    /\ last_error_msg_buffer' = Code(t)
    /\ Goto(t, "publish")
    /\ UNCHANGED <<layer, locals, args, held, codes, error_code, last_error_msg, linker, vms, calls>>

PublishError(t) ==
    /\ pc[t] = "publish"
    /\ \/ last_error_msg' = "buffer"
       \/ Code(t) # "INVALID_ARGUMENT" /\ UNCHANGED last_error_msg
    /\ Goto(t, IF Code(t) = "ABI_VERSION_MISMATCH" THEN "mismatch" ELSE "exit")
    /\ UNCHANGED <<layer, locals, args, held, codes, error_code, last_error_msg_buffer,
                   linker, vms, calls>>

------------------------------------------------------------------------------
(* The caller takes what was returned; the local variables are gone.       *)
TakeResult(t) ==
    /\ pc[t] = "returned"
    /\ functions' = IF op[t] = "load" /\ create_fn[t] # NULL THEN functions \cup {file[t]} ELSE functions
    /\ owned' = IF vm[t] # NULL THEN owned \cup {vm[t]} ELSE owned
    /\ op' = [op EXCEPT ![t] = "load"]
    /\ file' = [file EXCEPT ![t] = NULL]
    /\ config' = [config EXCEPT ![t] = << >>]
    /\ options' = [options EXCEPT ![t] = << >>]
    /\ passed' = [passed EXCEPT ![t] = << >>]
    /\ create_fn' = [create_fn EXCEPT ![t] = NULL]
    /\ vm' = [vm EXCEPT ![t] = NULL]
    /\ ec' = [ec EXCEPT ![t] = "SUCCESS"]
    /\ ec_configure' = [ec_configure EXCEPT ![t] = "SUCCESS"]
    /\ error_code' = [error_code EXCEPT ![t] = NULL]
    /\ solo' = [solo EXCEPT ![t] = TRUE]
    /\ Enter(t, "load", "idle")
    /\ UNCHANGED <<statics, handles, live, fresh, destroyed, module, set_option, calls>>

(* The message is consumed.                                                *)
qrvmc_last_error_msg(t) ==
    /\ pc[t] = "idle"
    /\ last_error_msg' = NULL
    /\ UNCHANGED <<pc, layer, locals, args, held, codes, error_code, last_error_msg_buffer,
                   linker, vms, calls>>

(* qrvmc_destroy() of an instance the caller got.                          *)
qrvmc_destroy(i) ==
    /\ i \in owned
    /\ owned' = owned \ {i}
    /\ live' = live \ {i}
    /\ destroyed' = [destroyed EXCEPT ![i] = @ + 1]
    /\ module' = [module EXCEPT ![i] = NULL]
    /\ set_option' = [set_option EXCEPT ![i] = FALSE]
    /\ UNCHANGED <<pc, layer, locals, args, held, codes, error_code, statics, linker, fresh, calls>>

------------------------------------------------------------------------------
LoadStep(t) == ResetAndCheck(t) \/ Open(t) \/ FindSymbol(t) \/ ExitLoad(t)
CreateStep(t) == Create(t) \/ CheckAbi(t) \/ DestroyMismatched(t) \/ ExitCreate(t)
ConfigureStep(t) ==
    \/ CopyConfig(t)
    \/ OptionsDone(t) \/ OptionsUnsupported(t) \/ PassOption(t)
    \/ ExitConfigure(t)

Step(t) ==
    \/ LoadStep(t) \/ CreateStep(t) \/ ConfigureStep(t)
    \/ FormatError(t) \/ PublishError(t) \/ TakeResult(t)

CallerStep(t) ==
    \/ \E name \in File \cup {NULL} : qrvmc_load(t, name)
    \/ \E name \in File \cup {NULL} : qrvmc_load_and_create(t, name)
    \/ \E cfg \in Config : qrvmc_load_and_configure(t, cfg)
    \/ qrvmc_last_error_msg(t)

Next ==
    \/ \E t \in Thread : Step(t)
    \/ \E t \in Thread : CallerStep(t)
    \/ \E i \in Instance : qrvmc_destroy(i)

Spec == Init /\ [][Next]_vars

(* A function that was called runs to its end.                             *)
FairSpec == Spec /\ \A t \in Thread : WF_vars(Step(t))

------------------------------------------------------------------------------
TypeOK ==
    /\ pc \in [Thread -> Pc]
    /\ op \in [Thread -> Layer] /\ layer \in [Thread -> Layer]
    /\ file \in [Thread -> File \cup {NULL}]
    /\ solo \in [Thread -> BOOLEAN]
    /\ config \in [Thread -> Config \cup {<< >>}]
    /\ create_fn \in [Thread -> (UNION {Exports[f] : f \in File}) \cup {NULL}]
    /\ vm \in [Thread -> Instance \cup {NULL}]
    /\ ec \in [Thread -> ErrorCode] /\ ec_configure \in [Thread -> ErrorCode]
    /\ error_code \in [Thread -> ErrorCode \cup {NULL, "unset"}]
    /\ last_error_msg \in {NULL, "buffer", "dlerror"}
    /\ last_error_msg_buffer \in ErrorCode
    /\ handles \in [File -> Nat]
    /\ live \subseteq Instance /\ fresh \subseteq Instance /\ owned \subseteq Instance
    /\ destroyed \in [Instance -> Nat]
    /\ module \in [Instance -> File \cup {NULL}]
    /\ set_option \in [Instance -> BOOLEAN]
    /\ functions \subseteq File
    /\ calls \in 0..MaxCalls

(* What the function called gives back: a create function or an instance.  *)
Succeeded(t) == IF op[t] = "load" THEN create_fn[t] # NULL ELSE vm[t] # NULL

(* A call always sets the variable of the caller, if there is one, and     *)
(* says QRVMC_LOADER_SUCCESS there if and only if it returns a create      *)
(* function or an instance: whichever of the three functions failed, the   *)
(* code that is there at the end is the one of the failure, and not that   *)
(* of a function around it, which was still successful, or below it, which *)
(* had been.                                                               *)
ResultMatchesCode ==
    \A t \in Thread : pc[t] = "returned" /\ error_code[t] # NULL =>
        /\ error_code[t] # "unset"
        /\ error_code[t] = "SUCCESS" <=> Succeeded(t)
        /\ error_code[t] # "SUCCESS" => error_code[t] \in {ec[t], ec_configure[t]}

(* "This function performs the following actions atomically": an instance  *)
(* is alive exactly while one running call or one caller has it, so a call *)
(* that fails half way through the options leaves none behind, and none is *)
(* destroyed twice.                                                        *)
InstanceHasOneHolder ==
    /\ \A i \in Instance :
          i \in live <=> i \in owned \/ \E t \in Thread : vm[t] = i
    /\ \A t, u \in Thread : vm[t] # NULL =>
          vm[t] \notin owned /\ (vm[t] = vm[u] => t = u)
    /\ \A i \in Instance : destroyed[i] <= 1 /\ (destroyed[i] = 1 => i \notin live)

(* A library is never unloaded under an instance or a create function that *)
(* came from it, although a failing call closes the library.               *)
CodeStaysLoaded ==
    /\ \A i \in live : handles[module[i]] > 0
    /\ \A f \in functions : handles[f] > 0

(* The syntax of a configuration, "<path> ("," <option-name> ["="          *)
(* <option-value>])*", read without taking it apart: option o is specified *)
(* as the k-th one if it stands between the k-th comma and the next one or *)
(* the end, its name goes to the first "=", and without one the value is   *)
(* empty.                                                                  *)
Commas(cfg, n) == {p \in 1..n : cfg[p] = Comma}

WrittenAs(o, s) ==
    /\ \A p \in DOMAIN o.name : o.name[p] # "="
    /\ s = o.name \o <<"=">> \o o.value \/ (s = o.name /\ o.value = << >>)

Specified(cfg, k, o) ==
    \E from \in DOMAIN cfg : \E to \in from + 1..Len(cfg) + 1 :
        /\ cfg[from] = Comma /\ Cardinality(Commas(cfg, from)) = k
        /\ to = Len(cfg) + 1 \/ cfg[to] = Comma
        /\ \A p \in from + 1..to - 1 : cfg[p] # Comma
        /\ WrittenAs(o, SubSeq(cfg, from + 1, to - 1))

(* "Options are passed to a VM in the order they are specified in the      *)
(* configuration string": the k-th option that reached the instance is the *)
(* k-th one of the configuration, empty ones included, and a call that     *)
(* succeeds has passed as many as there are commas, where "the additional  *)
(* comma at the end of the configuration string is ignored".               *)
OptionsInOrder ==
    \A t \in Thread : pc[t] # "idle" /\ op[t] = "configure" /\ vm[t] # NULL =>
        /\ \A k \in DOMAIN passed[t] : Specified(config[t], k, passed[t][k])
        /\ pc[t] = "returned" =>
              Len(passed[t]) = Cardinality(Commas(config[t], Len(config[t]) - 1))

(* "This function is not thread-safe": after a call that no other call     *)
(* overlapped, although calls that ended before it may have overlapped and *)
(* left any message, the message is about the error of this call, and      *)
(* there is none after a success.                                          *)
MessageDescribesLastError ==
    \A t \in Thread : pc[t] = "returned" /\ solo[t] =>
        /\ Succeeded(t) => last_error_msg = NULL
        /\ error_code[t] # NULL /\ last_error_msg = "buffer" => last_error_msg_buffer = error_code[t]
        /\ error_code[t] # NULL /\ last_error_msg = "dlerror" => error_code[t] = "CANNOT_OPEN"

(* The rules of loader.h for the base name b of a path: the name is taken  *)
(* from the path; "lib" and all file extensions are stripped; all "-" are  *)
(* replaced with "_".                                                      *)
DocumentedBaseName(path, b) ==
    \E i \in 0..Len(path) :
        /\ i = 0 \/ path[i] = "/"
        /\ \A j \in (i + 1)..Len(path) : path[j] # "/"
        /\ LET lib == i + 3 <= Len(path) /\ <<path[i+1], path[i+2], path[i+3]>> = <<"l", "i", "b">>
               from == IF lib THEN i + 3 ELSE i
           IN  /\ from + Len(b) <= Len(path)
               /\ \A j \in DOMAIN b :
                     path[from + j] # "." /\ b[j] = (IF path[from + j] = "-" THEN "_" ELSE path[from + j])
               /\ from + Len(b) = Len(path) \/ path[from + Len(b) + 1] = "."

(* Nothing but a base name, and as long as the greatest path.              *)
LongBaseName(path) == Len(SkipLib(PartAfter("/", path))) >= PATH_MAX_LENGTH

NamesAsDocumented ==
    \A path \in {p \in File \cup NameSample : ValidName(p)} :
        IF LongBaseName(path) THEN base_name(path) = << >>
                              ELSE DocumentedBaseName(path, base_name(path))

(* A call that finds a create function has the one loader.h names: the one *)
(* prefixed with the documented base name when the library exports it, and *)
(* qrvmc_create otherwise.  The one exception is a path that is nothing    *)
(* but a base name of the greatest length, which is searched as empty.     *)
CreateFunctionAsDocumented ==
    /\ NamesAsDocumented
    /\ \A t \in Thread : create_fn[t] # NULL =>
          /\ create_fn[t] \in Exports[file[t]]
          /\ create_fn[t] = Unprefixed /\ ~LongBaseName(file[t]) =>
                ~\E e \in Exports[file[t]] : e # Unprefixed /\ DocumentedBaseName(file[t], e[2])

(* Every call returns, whatever the other threads do: each thread is idle  *)
(* again and again.  The loop over the options ends: every token slides    *)
(* the pointer, also the last one, which no delimiter ends.                *)
EveryCallReturns == \A t \in Thread : []<>(pc[t] = "idle")

==============================================================================
