----------------------------- MODULE LoaderProofs -----------------------------
(***************************************************************************)
(* The loader for any number of threads, files, instances and options: the *)
(* code that the caller finds is that of the function that failed,         *)
(* instances have one holder, no code is unloaded while it is used, the    *)
(* tokens of a configuration are its options in order, and the message of  *)
(* a call that no other overlapped is about this call.                     *)
(***************************************************************************)
EXTENDS Loader, SequenceTheorems, FiniteSetTheorems, WellFoundedInduction, TLAPS

(* The characters of names.  The second set adds nothing, but the provers  *)
(* do not know that a literal is a string.                                 *)
Character == STRING \cup {"_", "="}

CreateFn == (UNION {Exports[f] : f \in File}) \cup {NULL}

(* The types.  That a reference count is never negative is CountInv.       *)
CallTypeInv ==
    /\ pc \in [Thread -> Pc]
    /\ op \in [Thread -> Layer] /\ layer \in [Thread -> Layer]
    /\ file \in [Thread -> File \cup {NULL}]
    /\ create_fn \in [Thread -> CreateFn]
    /\ vm \in [Thread -> Instance \cup {NULL}]
    /\ ec \in [Thread -> ErrorCode] /\ ec_configure \in [Thread -> ErrorCode]
    /\ error_code \in [Thread -> ErrorCode \cup {NULL, "unset"}]
    /\ config \in [Thread -> Config \cup {<< >>}]

VMTypeInv ==
    /\ live \subseteq Instance /\ fresh \subseteq Instance /\ owned \subseteq Instance
    /\ destroyed \in [Instance -> Nat]
    /\ module \in [Instance -> File \cup {NULL}]
    /\ set_option \in [Instance -> BOOLEAN]

TypeInv == CallTypeInv /\ VMTypeInv

(* Which function runs at which step: never one above the function called. *)
LayerOf(t) ==
    /\ pc[t] \in {"reset", "open", "symbol"} => layer[t] = "load"
    /\ pc[t] \in {"create", "abi", "mismatch"} => layer[t] = "create"
    /\ pc[t] \in {"copy", "options"} => layer[t] = "configure"
    /\ pc[t] # "idle" /\ layer[t] = "create" => op[t] # "load"
    /\ pc[t] # "idle" /\ layer[t] = "configure" => op[t] = "configure"
    /\ pc[t] = "copy" => config[t] \in Config
    /\ pc[t] \in {"open", "symbol"} => file[t] \in File

(* The codes of the functions around the running one say success, its own  *)
(* says so until it fails.                                                 *)
CodesOf(t) ==
    /\ pc[t] \notin {"idle", "returned"} /\ layer[t] # "configure" => ec_configure[t] = "SUCCESS"
    /\ pc[t] \in {"copy", "reset", "open", "symbol", "create", "abi", "options"} =>
          Code(t) = "SUCCESS"
    /\ pc[t] \in {"format", "publish"} => Code(t) # "SUCCESS"
    /\ pc[t] = "copy" => ec[t] = "SUCCESS"
    /\ pc[t] = "mismatch" => ec[t] # "SUCCESS"
    /\ layer[t] # "create" => Code(t) # "ABI_VERSION_MISMATCH"

(* How far a call has come says what it has: the function, the instance.   *)
HeldBy(t) ==
    /\ pc[t] = "idle" => vm[t] = NULL /\ create_fn[t] = NULL
    /\ pc[t] \in {"copy", "reset", "open", "symbol"} => create_fn[t] = NULL
    /\ pc[t] # "returned" /\ layer[t] = "load" => vm[t] = NULL
    /\ pc[t] \in {"format", "publish"} /\ layer[t] = "load" => create_fn[t] = NULL
    /\ pc[t] = "exit" /\ layer[t] = "load" =>
          (ec[t] = "SUCCESS" <=> create_fn[t] # NULL)
    /\ pc[t] = "copy" => vm[t] = NULL
    /\ pc[t] = "create" => create_fn[t] # NULL /\ vm[t] = NULL
    /\ pc[t] \in {"abi", "mismatch", "options"} => vm[t] # NULL
    /\ pc[t] \in {"format", "publish"} /\ layer[t] = "create" =>
          (vm[t] # NULL <=> ec[t] = "ABI_VERSION_MISMATCH")
    /\ pc[t] = "exit" /\ layer[t] = "create" =>
          (ec[t] = "SUCCESS" <=> vm[t] # NULL)
    /\ pc[t] = "exit" /\ layer[t] = "configure" /\ ec_configure[t] = "SUCCESS" => vm[t] # NULL

ProgressInv == \A t \in Thread : LayerOf(t) /\ CodesOf(t) /\ HeldBy(t)

(* Instances: the property itself, and that one that was not created yet   *)
(* was not destroyed either.                                               *)
HolderInv ==
    /\ InstanceHasOneHolder
    /\ \A i \in fresh : i \notin live /\ destroyed[i] = 0

(* A library that has a create function is closed by nobody: it stays      *)
(* loaded from the moment it was opened.                                   *)
Kept(f) == f \in File /\ Lookup(f) # NULL /\ handles[f] > 0

CodeInv ==
    /\ handles \in [File -> Int]
    /\ \A f \in File : Lookup(f) # NULL => handles[f] >= 0
    /\ \A t \in Thread : pc[t] = "symbol" /\ Lookup(file[t]) # NULL => handles[file[t]] > 0
    /\ \A t \in Thread : create_fn[t] # NULL =>
          Kept(file[t]) /\ create_fn[t] = Lookup(file[t])
    /\ \A i \in live : Kept(module[i])
    /\ \A f \in functions : Kept(f)

(* The options that are left are the end of the configuration, behind the  *)
(* comma after those that were passed.                                     *)
Option == [name : Seq(Character), value : Seq(Character)]

OptionTypeInv ==
    /\ options \in [Thread -> Seq(Character)]
    /\ passed \in [Thread -> Seq(Option)]

(* What was passed are the first options of cfg, and rest is what follows. *)
SplitAt(cfg, done, rest) ==
    /\ Len(rest) <= Len(cfg)
    /\ rest = SubSeq(cfg, Len(cfg) - Len(rest) + 1, Len(cfg))
    /\ \A k \in DOMAIN done : Specified(cfg, k, done[k])
    /\ Len(rest) # 0 =>
          /\ Len(rest) < Len(cfg)
          /\ cfg[Len(cfg) - Len(rest)] = Comma
          /\ Cardinality(Commas(cfg, Len(cfg) - Len(rest))) = Len(done) + 1
    /\ Len(rest) = 0 => Cardinality(Commas(cfg, Len(cfg) - 1)) = Len(done)

OptionsOf(t) ==
    /\ pc[t] \in {"idle", "copy"} => passed[t] = << >>
    /\ pc[t] # "idle" /\ op[t] = "configure" => config[t] \in Config
    /\ pc[t] # "idle" /\ op[t] = "configure" /\ (layer[t] # "configure" \/ vm[t] # NULL) =>
          SplitAt(config[t], passed[t], options[t])
    /\ pc[t] = "exit" /\ layer[t] = "configure" /\ ec_configure[t] = "SUCCESS" => Len(options[t]) = 0
    /\ pc[t] = "returned" /\ op[t] = "configure" /\ vm[t] # NULL => Len(options[t]) = 0

OptionsInv == OptionTypeInv /\ \A t \in Thread : OptionsOf(t)

(* A call without overlap finds the static variables as it left them.      *)
AboutCode(code) ==
    /\ code = "SUCCESS" => last_error_msg = NULL
    /\ last_error_msg = "buffer" => last_error_msg_buffer = code
    /\ last_error_msg = "dlerror" => code = "CANNOT_OPEN"

MessageOf(t) ==
    /\ \A u \in Thread : u # t => pc[u] = "idle"
    /\ pc[t] \in {"open", "symbol", "create", "abi", "options"} => last_error_msg = NULL
    /\ pc[t] \in {"format", "publish"} =>
          last_error_msg = NULL \/ Code(t) = "INVALID_ARGUMENT"
    /\ pc[t] = "publish" => last_error_msg_buffer = Code(t)
    /\ pc[t] \in {"mismatch", "exit"} => AboutCode(Code(t))
    /\ pc[t] = "returned" =>
          /\ Succeeded(t) => last_error_msg = NULL
          /\ error_code[t] # NULL => AboutCode(error_code[t])

MessageInv ==
    /\ solo \in [Thread -> BOOLEAN]
    /\ last_error_msg \in {NULL, "buffer", "dlerror"}
    /\ \A t \in Thread : solo[t] /\ pc[t] # "idle" => MessageOf(t)

(* A call that has opened a library and not looked at it yet may close it: *)
(* the count of the library covers all such calls.                         *)
Opened(f) == {t \in Thread : pc[t] = "symbol" /\ file[t] = f}

CountInv ==
    /\ \A f \in File : IsFiniteSet(Opened(f)) /\ handles[f] >= Cardinality(Opened(f))
    /\ last_error_msg_buffer \in ErrorCode
    /\ calls \in 0..MaxCalls

------------------------------------------------------------------------------
(* What the proofs use of the assumptions.                                 *)
LEMMA Distinct ==
    /\ NULL \notin Instance /\ NULL \notin File /\ NULL \notin {"buffer", "dlerror", "unset"}
    /\ NULL \notin ErrorCode
BY LoaderAssumption

LEMMA PathType == \A c \in Config : get_token(c, Comma).token \in File
BY LoaderAssumption

LEMMA LookupType == NULL \in CreateFn /\ \A f \in File : Lookup(f) \in CreateFn
<1>1. \A f \in File : \A e \in Exports[f] : e \in CreateFn
  BY DEF CreateFn
<1>2. NULL \in CreateFn
  BY DEF CreateFn
<1>3. \A f \in File : Lookup(f) \in Exports[f] \/ Lookup(f) = NULL
  BY Zenon DEF Lookup
<1> QED
  BY <1>1, <1>2, <1>3

------------------------------------------------------------------------------
LEMMA InitialState ==
    Init => /\ TypeInv /\ ProgressInv /\ ResultMatchesCode /\ HolderInv
            /\ CodeInv /\ OptionsInv /\ MessageInv /\ CountInv
<1> USE Distinct, LookupType DEF Init, Pc, ErrorCode
<1>1. Init => TypeInv
  BY DEF TypeInv, CallTypeInv, VMTypeInv, Layer
<1>2. Init => ProgressInv /\ ResultMatchesCode
  BY DEF ProgressInv, LayerOf, CodesOf, HeldBy, Code, ResultMatchesCode, Layer
<1>3. Init => HolderInv
  BY DEF HolderInv, InstanceHasOneHolder
<1>4. Init => CodeInv
  BY DEF CodeInv
<1>5. Init => MessageInv
  BY DEF MessageInv
<1>6. Init => OptionsInv
  BY DEF OptionsInv, OptionTypeInv, OptionsOf
<1>7. ASSUME Init PROVE CountInv
  <2>1. /\ \A f \in File : Opened(f) = {} /\ handles[f] = 0
        /\ last_error_msg_buffer \in ErrorCode /\ calls = 0
    BY <1>7 DEF Opened
  <2>2. MaxCalls \in Nat
    BY LoaderAssumption
  <2> QED
    BY <2>1, <2>2, FS_EmptySet DEF CountInv
<1> QED
  BY <1>1, <1>2, <1>3, <1>4, <1>5, <1>6, <1>7

(* A call begins with one of the operations of the interface, and only the *)
(* configuring one has a configuration.                                    *)
Beginning(t) ==
    \E operation \in Layer, name \in File \cup {NULL}, cfg \in Config \cup {<< >>} :
        \/ operation # "configure" /\ Begin(t, operation, name, cfg, "load", "reset")
        \/ /\ operation = "configure" /\ cfg \in Config
           /\ Begin(t, operation, name, cfg, "configure", "copy")

LEMMA CallerCases ==
    ASSUME NEW t \in Thread, CallerStep(t)
    PROVE  Beginning(t) \/ qrvmc_last_error_msg(t)
<1> USE DEF Beginning, Layer
<1>1. CASE \E name \in File \cup {NULL} : qrvmc_load(t, name)
  BY <1>1 DEF qrvmc_load
<1>2. CASE \E name \in File \cup {NULL} : qrvmc_load_and_create(t, name)
  BY <1>2 DEF qrvmc_load_and_create
<1>3. CASE \E cfg \in Config : qrvmc_load_and_configure(t, cfg)
  BY <1>3, LoaderAssumption DEF qrvmc_load_and_configure
<1> QED
  BY <1>1, <1>2, <1>3 DEF CallerStep

(* What the steps that are more than a jump do to the variables.           *)
LEMMA CreateCases ==
    ASSUME NEW t \in Thread, Create(t)
    PROVE  /\ pc[t] = "create"
           /\ UNCHANGED <<layer, op, config, solo, file, options, passed, create_fn,
                          error_code, handles, functions, destroyed, owned, calls>>
           /\ \/ UNCHANGED <<vm, live, fresh, module, set_option>> /\ Fail(t, "VM_CREATION_FAILURE")
              \/ /\ Goto(t, "abi")
                 /\ \E i \in fresh :
                       /\ vm' = [vm EXCEPT ![t] = i]
                       /\ live' = live \cup {i} /\ fresh' = fresh \ {i}
                       /\ module' = [module EXCEPT ![i] = file[t]]
<1> QED
  BY DEF Create, locals, args, linker

LEMMA CopyConfigCases ==
    ASSUME NEW t \in Thread, CopyConfig(t)
    PROVE  /\ pc[t] = "copy"
           /\ UNCHANGED <<op, config, solo, passed, create_fn, vm, error_code, last_error_msg,
                          last_error_msg_buffer, handles, functions, live, module, calls>>
           /\ \/ /\ Enter(t, "load", "reset") /\ UNCHANGED codes
                 /\ file' = [file EXCEPT ![t] = get_token(config[t], Comma).token]
                 /\ options' = [options EXCEPT ![t] = get_token(config[t], Comma).rest]
              \/ Fail(t, "INVALID_ARGUMENT") /\ UNCHANGED <<layer, file, options>>
<1> QED
  BY DEF CopyConfig, locals, held, statics, linker, vms

LEMMA PassOptionCases ==
    ASSUME NEW t \in Thread, PassOption(t)
    PROVE  /\ pc[t] = "options"
           /\ UNCHANGED <<layer, op, config, solo, file, create_fn, vm, error_code, last_error_msg,
                          last_error_msg_buffer, handles, functions, live, module, calls>>
           /\ \/ UNCHANGED <<pc, codes>>
              \/ Fail(t, "INVALID_OPTION_NAME") \/ Fail(t, "INVALID_OPTION_VALUE")
<1> QED
  BY DEF PassOption, locals, held, statics, linker

(* A failing function sets its code and goes on to the message.            *)
LEMMA FailTypes ==
    ASSUME TypeInv, NEW t \in Thread, NEW code \in ErrorCode, Fail(t, code)
    PROVE  /\ pc' \in [Thread -> Pc]
           /\ ec' \in [Thread -> ErrorCode] /\ ec_configure' \in [Thread -> ErrorCode]
BY DEF TypeInv, CallTypeInv, Fail, Goto, Pc

(* The types are preserved.                                                *)
LEMMA TypesPreserved ==
    ASSUME TypeInv, ProgressInv, [Next]_vars
    PROVE  TypeInv'
<1> USE Distinct, LookupType DEF TypeInv, CallTypeInv, VMTypeInv, Pc, ErrorCode,
      Enter, Goto, Fail, Store, Code, Layer, locals, args, held, codes, statics, linker, vms
<1>1. ASSUME NEW t \in Thread, Step(t) PROVE TypeInv'
  <2>1. CASE ResetAndCheck(t)
    BY <2>1 DEF ResetAndCheck
  <2>2. CASE Open(t)
    BY <2>2 DEF Open
  <2>3. CASE FindSymbol(t)
    <3>1. Lookup(file[t]) \in CreateFn
      BY <2>3 DEF FindSymbol, ProgressInv, LayerOf
    <3>2. /\ pc' \in [Thread -> Pc]
          /\ ec' \in [Thread -> ErrorCode] /\ ec_configure' \in [Thread -> ErrorCode]
      BY <2>3, FailTypes DEF FindSymbol
    <3>3. create_fn' \in [Thread -> CreateFn]
      BY <2>3, <3>1 DEF FindSymbol
    <3>4. UNCHANGED <<layer, locals, args, vm, error_code, statics, functions, vms, calls>>
      BY <2>3 DEF FindSymbol
    <3> QED
      BY <3>2, <3>3, <3>4
  <2>4. CASE ExitLoad(t)
    BY <2>4 DEF ExitLoad
  <2>5. CASE Create(t)
    <3>1. CASE UNCHANGED fresh
      BY <2>5, <3>1 DEF Create
    <3>2. CASE ~UNCHANGED fresh
      <4>1. PICK i \in fresh :
               /\ vm' = [vm EXCEPT ![t] = i]
               /\ live' = live \cup {i} /\ fresh' = fresh \ {i}
               /\ module' = [module EXCEPT ![i] = file[t]]
               /\ \E has \in BOOLEAN : set_option' = [set_option EXCEPT ![i] = has]
        BY <2>5, <3>2 DEF Create
      <4>2. PICK has \in BOOLEAN : set_option' = [set_option EXCEPT ![i] = has]
        BY <4>1
      <4> QED
        BY <2>5, <4>1, <4>2 DEF Create
    <3> QED
      BY <3>1, <3>2
  <2>6. CASE CheckAbi(t)
    BY <2>6 DEF CheckAbi
  <2>7. CASE DestroyMismatched(t)
    <3>1. vm[t] \in Instance
      BY <2>7 DEF DestroyMismatched, ProgressInv, HeldBy
    <3> QED
      BY <2>7, <3>1 DEF DestroyMismatched, Destroy
  <2>8. CASE ExitCreate(t)
    BY <2>8 DEF ExitCreate
  <2>9. CASE CopyConfig(t)
    <3>1. /\ pc' \in [Thread -> Pc]
          /\ ec' \in [Thread -> ErrorCode] /\ ec_configure' \in [Thread -> ErrorCode]
      BY <2>9, FailTypes DEF CopyConfig
    <3>2. get_token(config[t], Comma).token \in File
      BY <2>9, PathType DEF CopyConfig, ProgressInv, LayerOf
    <3>3. file' \in [Thread -> File \cup {NULL}] /\ layer' \in [Thread -> Layer]
      BY <2>9, <3>2 DEF CopyConfig
    <3>4. UNCHANGED <<locals, passed, held, error_code, statics, linker, vms, calls>>
      BY <2>9 DEF CopyConfig
    <3> QED
      BY <3>1, <3>3, <3>4
  <2>10. CASE OptionsDone(t)
    BY <2>10 DEF OptionsDone
  <2>11. CASE OptionsUnsupported(t)
    BY <2>11 DEF OptionsUnsupported
  <2>12. CASE PassOption(t)
    <3>1. /\ pc' \in [Thread -> Pc]
          /\ ec' \in [Thread -> ErrorCode] /\ ec_configure' \in [Thread -> ErrorCode]
      BY <2>12, FailTypes DEF PassOption
    <3>2. UNCHANGED <<layer, locals, file, held, error_code, live, fresh,
                      destroyed, module, set_option, owned>>
      BY <2>12 DEF PassOption
    <3> QED
      BY <3>1, <3>2
  <2>13. CASE ExitConfigure(t)
    <3>1. CASE Destroy(t) /\ vm[t] # NULL
      BY <2>13, <3>1 DEF ExitConfigure, Destroy
    <3>2. CASE UNCHANGED <<live, destroyed, module, set_option, vm>>
      BY <2>13, <3>2 DEF ExitConfigure
    <3> QED
      BY <2>13, <3>1, <3>2 DEF ExitConfigure
  <2>14. CASE FormatError(t)
    BY <2>14 DEF FormatError
  <2>15. CASE PublishError(t)
    BY <2>15 DEF PublishError
  <2>16. CASE TakeResult(t)
    BY <2>16 DEF TakeResult
  <2> QED
    BY <1>1, <2>1, <2>2, <2>3, <2>4, <2>5, <2>6, <2>7, <2>8, <2>9,
       <2>10, <2>11, <2>12, <2>13, <2>14, <2>15, <2>16
       DEF Step, LoadStep, CreateStep, ConfigureStep
<1>2. ASSUME NEW t \in Thread, CallerStep(t) PROVE TypeInv'
  <2>1. CASE Beginning(t)
    <3>1. PICK operation \in Layer, name \in File \cup {NULL}, cfg \in Config \cup {<< >>},
               function \in Layer, label \in Pc :
                  Begin(t, operation, name, cfg, function, label)
      BY <2>1 DEF Beginning
    <3> QED
      BY <3>1 DEF Begin
  <2>2. CASE qrvmc_last_error_msg(t)
    BY <2>2 DEF qrvmc_last_error_msg
  <2> QED
    BY <1>2, <2>1, <2>2, CallerCases
<1>3. ASSUME NEW i \in Instance, qrvmc_destroy(i) PROVE TypeInv'
  BY <1>3 DEF qrvmc_destroy
<1>4. CASE UNCHANGED vars
  BY <1>4 DEF vars
<1> QED
  BY <1>1, <1>2, <1>3, <1>4 DEF Next

(* Each step leaves what the next one needs.                               *)
LEMMA ProgressPreserved ==
    ASSUME TypeInv, ProgressInv, [Next]_vars
    PROVE  ProgressInv'
<1> USE Distinct, LookupType DEF TypeInv, CallTypeInv, VMTypeInv, Pc, ErrorCode,
      ProgressInv, LayerOf, CodesOf, HeldBy, Code, Enter, Goto, Fail, Store, Layer, locals, args, held, codes, statics, linker, vms
<1>1. ASSUME NEW t \in Thread, Step(t) PROVE ProgressInv'
  <2>1. CASE ResetAndCheck(t)
    BY <2>1 DEF ResetAndCheck, ValidName
  <2>2. CASE Open(t)
    BY <2>2 DEF Open
  <2>3. CASE FindSymbol(t)
    BY <2>3 DEF FindSymbol
  <2>4. CASE ExitLoad(t)
    BY <2>4 DEF ExitLoad
  <2>5. CASE Create(t)
    BY <2>5 DEF Create
  <2>6. CASE CheckAbi(t)
    BY <2>6 DEF CheckAbi
  <2>7. CASE DestroyMismatched(t)
    BY <2>7 DEF DestroyMismatched, Destroy
  <2>8. CASE ExitCreate(t)
    BY <2>8 DEF ExitCreate
  <2>9. CASE CopyConfig(t)
    <3>1. CASE Enter(t, "load", "reset") /\ UNCHANGED codes
      <4>1. /\ pc[t] = "copy" /\ UNCHANGED <<op, config, create_fn, vm, error_code>>
            /\ \A u \in Thread : u # t => file'[u] = file[u]
        BY <2>9 DEF CopyConfig
      <4> QED
        BY <3>1, <4>1
    <3>2. CASE Fail(t, "INVALID_ARGUMENT") /\ UNCHANGED <<layer, file>>
      <4>1. pc[t] = "copy" /\ UNCHANGED <<op, config, create_fn, vm, error_code>>
        BY <2>9 DEF CopyConfig
      <4> QED
        BY <3>2, <4>1
    <3> QED
      BY <2>9, <3>1, <3>2 DEF CopyConfig
  <2>10. CASE OptionsDone(t)
    BY <2>10 DEF OptionsDone
  <2>11. CASE OptionsUnsupported(t)
    BY <2>11 DEF OptionsUnsupported
  <2>12. CASE PassOption(t)
    <3>1. UNCHANGED <<pc, codes>> \/ Fail(t, "INVALID_OPTION_NAME") \/ Fail(t, "INVALID_OPTION_VALUE")
      BY <2>12 DEF PassOption
    <3>2. /\ pc[t] = "options"
          /\ UNCHANGED <<layer, op, config, file, create_fn, vm, error_code>>
      BY <2>12 DEF PassOption
    <3> QED
      BY <3>1, <3>2
  <2>13. CASE ExitConfigure(t)
    BY <2>13 DEF ExitConfigure, Destroy
  <2>14. CASE FormatError(t)
    BY <2>14 DEF FormatError
  <2>15. CASE PublishError(t)
    BY <2>15 DEF PublishError
  <2>16. CASE TakeResult(t)
    BY <2>16 DEF TakeResult
  <2> QED
    BY <1>1, <2>1, <2>2, <2>3, <2>4, <2>5, <2>6, <2>7, <2>8, <2>9,
       <2>10, <2>11, <2>12, <2>13, <2>14, <2>15, <2>16
       DEF Step, LoadStep, CreateStep, ConfigureStep
<1>2. ASSUME NEW t \in Thread, CallerStep(t) PROVE ProgressInv'
  <2>1. CASE Beginning(t)
    <3>1. PICK operation \in Layer, name \in File \cup {NULL}, cfg \in Config \cup {<< >>},
               function \in Layer, label \in Pc :
                  /\ Begin(t, operation, name, cfg, function, label)
                  /\ \/ function = "load" /\ label = "reset" /\ operation # "configure"
                     \/ function = "configure" /\ label = "copy" /\ operation = "configure" /\ cfg \in Config
      BY <2>1 DEF Beginning
    <3> QED
      BY <3>1 DEF Begin
  <2>2. CASE qrvmc_last_error_msg(t)
    BY <2>2 DEF qrvmc_last_error_msg
  <2> QED
    BY <1>2, <2>1, <2>2, CallerCases
<1>3. ASSUME NEW i \in Instance, qrvmc_destroy(i) PROVE ProgressInv'
  BY <1>3 DEF qrvmc_destroy
<1>4. CASE UNCHANGED vars
  BY <1>4 DEF vars
<1> QED
  BY <1>1, <1>2, <1>3, <1>4 DEF Next

(* At its end a call has a result or a code, not both.                     *)
LEMMA ResultPreserved ==
    ASSUME TypeInv, ProgressInv, ResultMatchesCode, [Next]_vars
    PROVE  ResultMatchesCode'
<1> USE Distinct, LookupType DEF TypeInv, CallTypeInv, Pc, ErrorCode, ProgressInv, LayerOf, CodesOf, HeldBy, Code,
      ResultMatchesCode, Succeeded, Enter, Goto, Fail, Store, Layer, locals, args, held, codes, statics, linker, vms
<1>1. ASSUME NEW t \in Thread, Step(t) PROVE ResultMatchesCode'
  <2>1. CASE ResetAndCheck(t)
    BY <2>1 DEF ResetAndCheck
  <2>2. CASE Open(t)
    BY <2>2 DEF Open
  <2>3. CASE FindSymbol(t)
    BY <2>3 DEF FindSymbol
  <2>4. CASE ExitLoad(t)
    BY <2>4 DEF ExitLoad
  <2>5. CASE Create(t)
    BY <2>5 DEF Create
  <2>6. CASE CheckAbi(t)
    BY <2>6 DEF CheckAbi
  <2>7. CASE DestroyMismatched(t)
    BY <2>7 DEF DestroyMismatched, Destroy
  <2>8. CASE ExitCreate(t)
    BY <2>8 DEF ExitCreate
  <2>9. CASE CopyConfig(t)
    <3>1. CASE Enter(t, "load", "reset") /\ UNCHANGED codes
      <4>1. /\ pc[t] = "copy" /\ UNCHANGED <<op, config, create_fn, vm, error_code>>
            /\ \A u \in Thread : u # t => file'[u] = file[u]
        BY <2>9 DEF CopyConfig
      <4> QED
        BY <3>1, <4>1
    <3>2. CASE Fail(t, "INVALID_ARGUMENT") /\ UNCHANGED <<layer, file>>
      <4>1. pc[t] = "copy" /\ UNCHANGED <<op, config, create_fn, vm, error_code>>
        BY <2>9 DEF CopyConfig
      <4> QED
        BY <3>2, <4>1
    <3> QED
      BY <2>9, <3>1, <3>2 DEF CopyConfig
  <2>10. CASE OptionsDone(t)
    BY <2>10 DEF OptionsDone
  <2>11. CASE OptionsUnsupported(t)
    BY <2>11 DEF OptionsUnsupported
  <2>12. CASE PassOption(t)
    <3>1. UNCHANGED <<pc, codes>> \/ Fail(t, "INVALID_OPTION_NAME") \/ Fail(t, "INVALID_OPTION_VALUE")
      BY <2>12 DEF PassOption
    <3>2. /\ pc[t] = "options"
          /\ UNCHANGED <<layer, op, config, file, create_fn, vm, error_code>>
      BY <2>12 DEF PassOption
    <3> QED
      BY <3>1, <3>2
  <2>13. CASE ExitConfigure(t)
    BY <2>13 DEF ExitConfigure, Destroy
  <2>14. CASE FormatError(t)
    BY <2>14 DEF FormatError
  <2>15. CASE PublishError(t)
    BY <2>15 DEF PublishError
  <2>16. CASE TakeResult(t)
    BY <2>16 DEF TakeResult
  <2> QED
    BY <1>1, <2>1, <2>2, <2>3, <2>4, <2>5, <2>6, <2>7, <2>8, <2>9,
       <2>10, <2>11, <2>12, <2>13, <2>14, <2>15, <2>16
       DEF Step, LoadStep, CreateStep, ConfigureStep
<1>2. ASSUME NEW t \in Thread, CallerStep(t) PROVE ResultMatchesCode'
  <2>1. CASE Beginning(t)
    <3>1. PICK operation \in Layer, name \in File \cup {NULL}, cfg \in Config \cup {<< >>},
               function \in Layer, label \in Pc :
                  /\ Begin(t, operation, name, cfg, function, label)
                  /\ \/ function = "load" /\ label = "reset" /\ operation # "configure"
                     \/ function = "configure" /\ label = "copy" /\ operation = "configure" /\ cfg \in Config
      BY <2>1 DEF Beginning
    <3> QED
      BY <3>1 DEF Begin
  <2>2. CASE qrvmc_last_error_msg(t)
    BY <2>2 DEF qrvmc_last_error_msg
  <2> QED
    BY <1>2, <2>1, <2>2, CallerCases
<1>3. ASSUME NEW i \in Instance, qrvmc_destroy(i) PROVE ResultMatchesCode'
  BY <1>3 DEF qrvmc_destroy
<1>4. CASE UNCHANGED vars
  BY <1>4 DEF vars
<1> QED
  BY <1>1, <1>2, <1>3, <1>4 DEF Next

(* Only the steps that create, hand over and destroy touch the holders.    *)
LEMMA HolderPreserved ==
    ASSUME TypeInv, ProgressInv, HolderInv, [Next]_vars
    PROVE  HolderInv'
<1> USE Distinct, LookupType DEF TypeInv, CallTypeInv, VMTypeInv, ProgressInv, LayerOf, CodesOf, HeldBy, Code,
      HolderInv, InstanceHasOneHolder, Enter, Goto, Fail, Store, Layer, locals, args, held, codes, statics, linker, vms
<1>1. ASSUME NEW t \in Thread, Step(t) PROVE HolderInv'
  <2>1. CASE ResetAndCheck(t)
    BY <2>1 DEF ResetAndCheck
  <2>2. CASE Open(t)
    BY <2>2 DEF Open
  <2>3. CASE FindSymbol(t)
    BY <2>3 DEF FindSymbol
  <2>4. CASE ExitLoad(t)
    BY <2>4 DEF ExitLoad
  <2>5. CASE Create(t)
    <3>1. UNCHANGED <<destroyed, owned>> /\ vm[t] = NULL
      BY <2>5, CreateCases
    <3>2. CASE UNCHANGED <<vm, live, fresh>>
      BY <3>1, <3>2
    <3>3. CASE \E i \in fresh : /\ vm' = [vm EXCEPT ![t] = i]
                                /\ live' = live \cup {i} /\ fresh' = fresh \ {i}
      BY <3>1, <3>3
    <3> QED
      BY <2>5, <3>2, <3>3, CreateCases
  <2>6. CASE CheckAbi(t)
    BY <2>6 DEF CheckAbi
  <2>7. CASE DestroyMismatched(t)
    BY <2>7 DEF DestroyMismatched, Destroy
  <2>8. CASE ExitCreate(t)
    BY <2>8 DEF ExitCreate
  <2>9. CASE CopyConfig(t)
    <3>1. UNCHANGED <<vm, live, fresh, destroyed, owned>>
      BY <2>9 DEF CopyConfig
    <3> QED
      BY <3>1
  <2>10. CASE OptionsDone(t)
    BY <2>10 DEF OptionsDone
  <2>11. CASE OptionsUnsupported(t)
    BY <2>11 DEF OptionsUnsupported
  <2>12. CASE PassOption(t)
    <3>1. UNCHANGED <<vm, live, fresh, destroyed, owned>>
      BY <2>12 DEF PassOption
    <3> QED
      BY <3>1
  <2>13. CASE ExitConfigure(t)
    <3>1. CASE Destroy(t) /\ vm[t] # NULL
      BY <2>13, <3>1 DEF ExitConfigure, Destroy
    <3>2. CASE UNCHANGED <<live, destroyed, vm>>
      BY <2>13, <3>2 DEF ExitConfigure
    <3> QED
      BY <2>13, <3>1, <3>2 DEF ExitConfigure
  <2>14. CASE FormatError(t)
    BY <2>14 DEF FormatError
  <2>15. CASE PublishError(t)
    BY <2>15 DEF PublishError
  <2>16. CASE TakeResult(t)
    BY <2>16 DEF TakeResult
  <2> QED
    BY <1>1, <2>1, <2>2, <2>3, <2>4, <2>5, <2>6, <2>7, <2>8, <2>9,
       <2>10, <2>11, <2>12, <2>13, <2>14, <2>15, <2>16
       DEF Step, LoadStep, CreateStep, ConfigureStep
<1>2. ASSUME NEW t \in Thread, CallerStep(t) PROVE HolderInv'
  <2>1. CASE Beginning(t)
    <3>1. vm[t] = NULL /\ vm' = [vm EXCEPT ![t] = NULL] /\ UNCHANGED <<live, fresh, destroyed, owned>>
      BY <2>1 DEF Beginning, Begin
    <3>2. UNCHANGED vm
      BY <3>1
    <3> QED
      BY <3>1, <3>2
  <2>2. CASE qrvmc_last_error_msg(t)
    BY <2>2 DEF qrvmc_last_error_msg
  <2> QED
    BY <1>2, <2>1, <2>2, CallerCases
<1>3. ASSUME NEW i \in Instance, qrvmc_destroy(i) PROVE HolderInv'
  BY <1>3 DEF qrvmc_destroy
<1>4. CASE UNCHANGED vars
  BY <1>4 DEF vars
<1> QED
  BY <1>1, <1>2, <1>3, <1>4 DEF Next

(* A library is closed only when it has no create function.                *)
LEMMA CodePreserved ==
    ASSUME TypeInv, ProgressInv, HolderInv, CodeInv, [Next]_vars
    PROVE  CodeInv'
<1> USE Distinct, LookupType DEF TypeInv, CallTypeInv, VMTypeInv, ProgressInv, LayerOf, CodesOf, HeldBy, Code,
      HolderInv, InstanceHasOneHolder, CodeInv, Kept, Enter, Goto, Fail, Store, Layer, locals, args, held,
      codes, statics, linker, vms
<1>1. ASSUME NEW t \in Thread, Step(t) PROVE CodeInv'
  <2>1. CASE ResetAndCheck(t)
    BY <2>1 DEF ResetAndCheck
  <2>2. CASE Open(t)
    <3>1. /\ pc[t] = "open" /\ file[t] \in File
          /\ UNCHANGED <<file, create_fn, live, module, functions>>
      BY <2>2 DEF Open
    <3>2. \/ pc' = [pc EXCEPT ![t] = "symbol"] /\ handles' = [handles EXCEPT ![file[t]] = @ + 1]
          \/ UNCHANGED handles /\ \E l \in {"exit", "format"} : pc' = [pc EXCEPT ![t] = l]
      BY <2>2 DEF Open
    <3>3. CASE UNCHANGED handles /\ \E l \in {"exit", "format"} : pc' = [pc EXCEPT ![t] = l]
      BY <3>1, <3>3
    <3>4. CASE pc' = [pc EXCEPT ![t] = "symbol"] /\ handles' = [handles EXCEPT ![file[t]] = @ + 1]
      <4>1. handles' \in [File -> Int] /\ \A f \in File : handles'[f] >= handles[f]
        BY <3>1, <3>4
      <4>2. \A f \in File : Kept(f) => Kept(f)'
        BY <4>1
      <4>3. \A u \in Thread : pc'[u] = "symbol" /\ Lookup(file[u]) # NULL => handles'[file[u]] > 0
        BY <3>1, <3>4, <4>1
      <4> QED
        BY <3>1, <4>1, <4>2, <4>3
    <3> QED
      BY <3>2, <3>3, <3>4
  <2>3. CASE FindSymbol(t)
    <3> DEFINE f == file[t]
    <3>1. f \in File /\ create_fn[t] = NULL /\ live' = live /\ module' = module /\ file' = file /\ functions' = functions
      BY <2>3 DEF FindSymbol
    <3>2. \A u \in Thread : pc'[u] = "symbol" => pc[u] = "symbol"
      BY <2>3 DEF FindSymbol
    <3>3. CASE Lookup(f) # NULL
      <4>1. handles' = handles /\ create_fn' = [create_fn EXCEPT ![t] = Lookup(f)] /\ handles[f] > 0
        BY <2>3, <3>3 DEF FindSymbol
      <4> QED
        BY <3>1, <3>2, <3>3, <4>1
    <3>4. CASE Lookup(f) = NULL
      <4>1. handles' = [handles EXCEPT ![f] = @ - 1] /\ create_fn' = create_fn
        BY <2>3, <3>4 DEF FindSymbol
      <4>2. \A g \in File : Lookup(g) # NULL => handles'[g] = handles[g]
        BY <3>1, <3>4, <4>1
      <4>3. handles' \in [File -> Int]
        BY <3>1, <4>1
      <4>4. \A u \in Thread : pc[u] = "symbol" => file[u] \in File
        OBVIOUS
      <4> HIDE DEF f
      <4> QED
        BY <3>1, <3>2, <4>1, <4>2, <4>3, <4>4
    <3> QED
      BY <3>3, <3>4
  <2>4. CASE ExitLoad(t)
    BY <2>4 DEF ExitLoad
  <2>5. CASE Create(t)
    <3>1. /\ UNCHANGED <<file, create_fn, functions, handles>> /\ create_fn[t] # NULL
          /\ \A u \in Thread : pc'[u] = "symbol" => pc[u] = "symbol"
      BY <2>5, CreateCases
    <3>2. CASE UNCHANGED <<live, module>>
      BY <3>1, <3>2
    <3>3. CASE \E i \in fresh : live' = live \cup {i} /\ module' = [module EXCEPT ![i] = file[t]]
      BY <3>1, <3>3
    <3> QED
      BY <2>5, <3>2, <3>3, CreateCases
  <2>6. CASE CheckAbi(t)
    BY <2>6 DEF CheckAbi
  <2>7. CASE DestroyMismatched(t)
    BY <2>7 DEF DestroyMismatched, Destroy
  <2>8. CASE ExitCreate(t)
    BY <2>8 DEF ExitCreate
  <2>9. CASE CopyConfig(t)
    <3>1. create_fn[t] = NULL /\ UNCHANGED <<create_fn, live, module, functions, handles>>
      BY <2>9, CopyConfigCases
    <3>2. pc'[t] # "symbol" /\ \A u \in Thread : u # t => pc'[u] = pc[u] /\ file'[u] = file[u]
      <4>1. CASE Enter(t, "load", "reset") /\ \E f : file' = [file EXCEPT ![t] = f]
        BY <4>1
      <4>2. CASE Fail(t, "INVALID_ARGUMENT") /\ UNCHANGED file
        BY <4>2
      <4>3. (\E f : file' = [file EXCEPT ![t] = f]) \/ UNCHANGED file
        BY <2>9, CopyConfigCases
      <4> QED
        BY <2>9, <4>1, <4>2, <4>3, CopyConfigCases
    <3>3. \A u \in Thread : pc'[u] = "symbol" =>
             pc[u] = "symbol" /\ file'[u] = file[u] /\ file[u] \in File
      BY <3>2
    <3>4. \A u \in Thread : create_fn'[u] # NULL => create_fn[u] # NULL /\ file'[u] = file[u]
      BY <3>1, <3>2
    <3> HIDE DEF TypeInv, ProgressInv, HolderInv
    <3> QED
      BY <3>1, <3>3, <3>4
  <2>10. CASE OptionsDone(t)
    BY <2>10 DEF OptionsDone
  <2>11. CASE OptionsUnsupported(t)
    BY <2>11 DEF OptionsUnsupported
  <2>12. CASE PassOption(t)
    <3>1. /\ UNCHANGED <<file, create_fn, live, module, functions, handles>>
          /\ \A u \in Thread : pc'[u] = "symbol" => pc[u] = "symbol"
      BY <2>12, PassOptionCases
    <3> QED
      BY <3>1
  <2>13. CASE ExitConfigure(t)
    BY <2>13 DEF ExitConfigure, Destroy
  <2>14. CASE FormatError(t)
    BY <2>14 DEF FormatError
  <2>15. CASE PublishError(t)
    BY <2>15 DEF PublishError
  <2>16. CASE TakeResult(t)
    BY <2>16 DEF TakeResult
  <2> QED
    BY <1>1, <2>1, <2>2, <2>3, <2>4, <2>5, <2>6, <2>7, <2>8, <2>9,
       <2>10, <2>11, <2>12, <2>13, <2>14, <2>15, <2>16
       DEF Step, LoadStep, CreateStep, ConfigureStep
<1>2. ASSUME NEW t \in Thread, CallerStep(t) PROVE CodeInv'
  <2>1. CASE Beginning(t)
    <3>1. PICK operation \in Layer, name \in File \cup {NULL}, cfg \in Config \cup {<< >>},
               function \in Layer, label \in {"reset", "copy"} :
                  Begin(t, operation, name, cfg, function, label)
      BY <2>1 DEF Beginning
    <3>2. /\ create_fn' = [create_fn EXCEPT ![t] = NULL]
          /\ UNCHANGED <<live, module, functions, handles>>
          /\ pc'[t] # "symbol" /\ \A u \in Thread : u # t => pc'[u] = pc[u] /\ file'[u] = file[u]
      BY <3>1 DEF Begin
    <3> QED
      BY <3>2
  <2>2. CASE qrvmc_last_error_msg(t)
    BY <2>2 DEF qrvmc_last_error_msg
  <2> QED
    BY <1>2, <2>1, <2>2, CallerCases
<1>3. ASSUME NEW i \in Instance, qrvmc_destroy(i) PROVE CodeInv'
  BY <1>3 DEF qrvmc_destroy
<1>4. CASE UNCHANGED vars
  BY <1>4 DEF vars
<1> QED
  BY <1>1, <1>2, <1>3, <1>4 DEF Next

(* The other threads are idle, or the call is not alone.                   *)
LEMMA MessagePreserved ==
    ASSUME TypeInv, ProgressInv, MessageInv, [Next]_vars
    PROVE  MessageInv'
<1> USE Distinct, LookupType DEF TypeInv, CallTypeInv, ProgressInv, LayerOf, CodesOf, HeldBy, Code, MessageInv, MessageOf, AboutCode, Succeeded,
      Enter, Goto, Fail, Store, Layer, locals, args, held, codes, statics, linker, vms
<1>1. ASSUME NEW t \in Thread, Step(t) PROVE MessageInv'
  <2>1. CASE ResetAndCheck(t)
    BY <2>1 DEF ResetAndCheck
  <2>2. CASE Open(t)
    BY <2>2 DEF Open
  <2>3. CASE FindSymbol(t)
    BY <2>3 DEF FindSymbol
  <2>4. CASE ExitLoad(t)
    BY <2>4 DEF ExitLoad
  <2>5. CASE Create(t)
    BY <2>5 DEF Create
  <2>6. CASE CheckAbi(t)
    BY <2>6 DEF CheckAbi
  <2>7. CASE DestroyMismatched(t)
    BY <2>7 DEF DestroyMismatched, Destroy
  <2>8. CASE ExitCreate(t)
    BY <2>8 DEF ExitCreate
  <2>9. CASE CopyConfig(t)
    <3>1. CASE Enter(t, "load", "reset") /\ UNCHANGED codes
      <4>1. pc[t] = "copy" /\ UNCHANGED <<solo, op, create_fn, vm, error_code, statics>>
        BY <2>9 DEF CopyConfig
      <4> QED
        BY <3>1, <4>1
    <3>2. CASE Fail(t, "INVALID_ARGUMENT") /\ UNCHANGED layer
      <4>1. pc[t] = "copy" /\ UNCHANGED <<solo, op, create_fn, vm, error_code, statics>>
        BY <2>9 DEF CopyConfig
      <4> QED
        BY <3>2, <4>1
    <3> QED
      BY <2>9, <3>1, <3>2 DEF CopyConfig
  <2>10. CASE OptionsDone(t)
    BY <2>10 DEF OptionsDone
  <2>11. CASE OptionsUnsupported(t)
    BY <2>11 DEF OptionsUnsupported
  <2>12. CASE PassOption(t)
    <3>1. UNCHANGED <<pc, codes>> \/ Fail(t, "INVALID_OPTION_NAME") \/ Fail(t, "INVALID_OPTION_VALUE")
      BY <2>12 DEF PassOption
    <3>2. /\ pc[t] = "options"
          /\ UNCHANGED <<layer, solo, op, create_fn, vm, error_code, statics>>
      BY <2>12 DEF PassOption
    <3> QED
      BY <3>1, <3>2
  <2>13. CASE ExitConfigure(t)
    BY <2>13 DEF ExitConfigure, Destroy
  <2>14. CASE FormatError(t)
    BY <2>14 DEF FormatError
  <2>15. CASE PublishError(t)
    BY <2>15 DEF PublishError
  <2>16. CASE TakeResult(t)
    BY <2>16 DEF TakeResult
  <2> QED
    BY <1>1, <2>1, <2>2, <2>3, <2>4, <2>5, <2>6, <2>7, <2>8, <2>9,
       <2>10, <2>11, <2>12, <2>13, <2>14, <2>15, <2>16
       DEF Step, LoadStep, CreateStep, ConfigureStep
<1>2. ASSUME NEW t \in Thread, CallerStep(t) PROVE MessageInv'
  <2>1. CASE Beginning(t)
    <3>1. PICK operation \in Layer, name \in File \cup {NULL}, cfg \in Config \cup {<< >>},
               function \in Layer, label \in {"reset", "copy"} :
                  Begin(t, operation, name, cfg, function, label)
      BY <2>1 DEF Beginning
    <3>2. solo' = [u \in Thread |-> IF u = t THEN \A v \in Thread : pc[v] = "idle"
                                          ELSE solo[u] /\ pc[u] = "idle"]
      BY <3>1 DEF Begin
    <3>3. pc' = [pc EXCEPT ![t] = label] /\ last_error_msg' = last_error_msg
      BY <3>1 DEF Begin
    <3>4. \A u \in Thread : solo'[u] /\ pc'[u] # "idle" => u = t /\ \A v \in Thread : pc[v] = "idle"
      <4>1. pc \in [Thread -> Pc]
        OBVIOUS
      <4> HIDE DEF TypeInv, ProgressInv, MessageInv
      <4> QED
        BY <3>2, <3>3, <4>1
    <3>5. solo' \in [Thread -> BOOLEAN]
      BY Zenon, <3>2
    <3>6. /\ pc'[t] \in {"reset", "copy"} /\ \A u \in Thread : u # t => pc'[u] = pc[u]
          /\ last_error_msg' = last_error_msg
      BY <3>3
    <3> QED
      BY <3>4, <3>5, <3>6
  <2>2. CASE qrvmc_last_error_msg(t)
    BY <2>2 DEF qrvmc_last_error_msg
  <2> QED
    BY <1>2, <2>1, <2>2, CallerCases
<1>3. ASSUME NEW i \in Instance, qrvmc_destroy(i) PROVE MessageInv'
  BY <1>3 DEF qrvmc_destroy
<1>4. CASE UNCHANGED vars
  BY <1>4 DEF vars
<1> QED
  BY <1>1, <1>2, <1>3, <1>4 DEF Next

(* One call more or one call less between opening and lookup.              *)
LEMMA CountsPreserved ==
    ASSUME TypeInv, ProgressInv, CodeInv, CountInv, [Next]_vars
    PROVE  CountInv'
<1> USE DEF TypeInv, CallTypeInv, Enter, Goto, Fail, Store, Layer, locals, args, held, codes, statics, linker, vms, ErrorCode
<1>1. ASSUME UNCHANGED handles, \A f \in File : Opened(f)' = Opened(f),
             last_error_msg_buffer' \in ErrorCode, calls' \in 0..MaxCalls
      PROVE  CountInv'
  BY <1>1 DEF CountInv
<1>2. ASSUME NEW t \in Thread, Open(t) PROVE CountInv'
  <2>1. /\ UNCHANGED <<file, last_error_msg_buffer, calls>>
        /\ pc[t] = "open" /\ file[t] \in File /\ handles \in [File -> Int]
    BY <1>2 DEF Open, ProgressInv, LayerOf, CodeInv
  <2>2. CASE pc' = [pc EXCEPT ![t] = "symbol"] /\ handles' = [handles EXCEPT ![file[t]] = @ + 1]
    <3>1. Opened(file[t])' = Opened(file[t]) \cup {t} /\ t \notin Opened(file[t])
      BY <2>1, <2>2 DEF Opened
    <3>2. ASSUME NEW f \in File, f # file[t] PROVE Opened(f)' = Opened(f) /\ handles'[f] = handles[f]
      BY <2>1, <2>2, <3>2 DEF Opened
    <3>3. handles'[file[t]] = handles[file[t]] + 1
      BY <2>1, <2>2
    <3>4. /\ IsFiniteSet(Opened(file[t])')
          /\ Cardinality(Opened(file[t])') = Cardinality(Opened(file[t])) + 1
      BY <2>1, <3>1, FS_AddElement DEF CountInv
    <3>5. Cardinality(Opened(file[t])) \in Nat
      BY <2>1, FS_CardinalityType DEF CountInv
    <3>6. handles'[file[t]] >= Cardinality(Opened(file[t])')
      BY <2>1, <3>3, <3>4, <3>5 DEF CountInv
    <3>7. ASSUME NEW f \in File
          PROVE  IsFiniteSet(Opened(f)') /\ handles'[f] >= Cardinality(Opened(f)')
      BY <2>1, <3>2, <3>4, <3>6 DEF CountInv
    <3>. QED BY <2>1, <3>7 DEF CountInv, Opened
  <2>3. CASE UNCHANGED handles /\ \E l \in {"exit", "format"} : pc' = [pc EXCEPT ![t] = l]
    <3>1. \A f \in File : Opened(f)' = Opened(f)
      BY <2>1, <2>3 DEF Opened
    <3>. QED BY <1>1, <2>1, <2>3, <3>1 DEF CountInv
  <2>. QED BY <1>2, <2>2, <2>3 DEF Open
<1>3. ASSUME NEW t \in Thread, FindSymbol(t) PROVE CountInv'
  <2>1. /\ UNCHANGED <<file, last_error_msg_buffer, calls>>
        /\ pc[t] = "symbol" /\ file[t] \in File /\ handles \in [File -> Int]
        /\ \E l \in {"exit", "format"} : pc' = [pc EXCEPT ![t] = l]
        /\ handles' \in {handles, [handles EXCEPT ![file[t]] = @ - 1]}
    BY <1>3 DEF FindSymbol, ProgressInv, LayerOf, CodeInv
  <2>2. Opened(file[t])' = Opened(file[t]) \ {t} /\ t \in Opened(file[t])
    BY <2>1 DEF Opened
  <2>3. /\ IsFiniteSet(Opened(file[t])') /\ Cardinality(Opened(file[t])) \in Nat
        /\ Cardinality(Opened(file[t])') = Cardinality(Opened(file[t])) - 1
    BY <2>1, <2>2, FS_RemoveElement, FS_CardinalityType DEF CountInv
  <2>4. ASSUME NEW f \in File, f # file[t] PROVE Opened(f)' = Opened(f) /\ handles'[f] = handles[f]
    BY <2>1, <2>4 DEF Opened
  <2>5. handles[file[t]] \in Int /\ handles'[file[t]] \in {handles[file[t]], handles[file[t]] - 1}
    BY <2>1
  <2>6. handles'[file[t]] >= Cardinality(Opened(file[t])')
    BY <2>1, <2>3, <2>5 DEF CountInv
  <2>7. ASSUME NEW f \in File
        PROVE  IsFiniteSet(Opened(f)') /\ handles'[f] >= Cardinality(Opened(f)')
    BY <2>1, <2>3, <2>4, <2>6 DEF CountInv
  <2>. QED BY <2>1, <2>7 DEF CountInv, Opened
<1>4. ASSUME NEW t \in Thread,
             \/ ResetAndCheck(t) \/ ExitLoad(t) \/ CreateStep(t)
             \/ ConfigureStep(t) \/ FormatError(t) \/ PublishError(t) \/ TakeResult(t)
      PROVE  CountInv'
  <2>1. /\ UNCHANGED <<handles, calls>> /\ pc[t] # "symbol"
        /\ pc' = pc \/ \E l \in Pc \ {"symbol"} : pc' = [pc EXCEPT ![t] = l]
        /\ file' = file \/ \E f : file' = [file EXCEPT ![t] = f]
        /\ last_error_msg_buffer' \in {last_error_msg_buffer, Code(t)}
    BY <1>4 DEF ResetAndCheck, ExitLoad, CreateStep, Create, CheckAbi, DestroyMismatched, Destroy,
       ExitCreate, ConfigureStep, CopyConfig, OptionsDone, OptionsUnsupported, PassOption,
       ExitConfigure, FormatError, PublishError, TakeResult, Pc
  <2>2. \A f \in File : Opened(f)' = Opened(f)
    BY <2>1 DEF Opened
  <2>3. Code(t) \in ErrorCode
    BY DEF Code
  <2>. QED BY <1>1, <2>1, <2>2, <2>3 DEF CountInv
<1>5. ASSUME NEW t \in Thread, Beginning(t) PROVE CountInv'
  <2>1. /\ UNCHANGED <<handles, last_error_msg_buffer>> /\ pc[t] = "idle"
        /\ \E l \in {"reset", "copy"}, name \in File \cup {NULL} :
              pc' = [pc EXCEPT ![t] = l] /\ file' = [file EXCEPT ![t] = name]
        /\ calls < MaxCalls /\ calls' = calls + 1
    BY <1>5 DEF Beginning, Begin
  <2>2. \A f \in File : Opened(f)' = Opened(f)
    BY <2>1 DEF Opened
  <2>3. calls' \in 0..MaxCalls
    <3>1. MaxCalls \in Nat
      BY LoaderAssumption
    <3> QED
      BY <2>1, <3>1 DEF CountInv
  <2>. QED BY <1>1, <2>1, <2>2, <2>3 DEF CountInv
<1>6. CASE UNCHANGED <<pc, file, handles, last_error_msg_buffer, calls>>
  BY <1>6 DEF CountInv, Opened
<1>7. ASSUME NEW t \in Thread, qrvmc_last_error_msg(t) PROVE CountInv'
  BY <1>6, <1>7 DEF qrvmc_last_error_msg
<1>8. ASSUME NEW i \in Instance, qrvmc_destroy(i) PROVE CountInv'
  BY <1>6, <1>8 DEF qrvmc_destroy
<1>9. CASE UNCHANGED vars
  BY <1>6, <1>9 DEF vars
<1> QED
  BY <1>2, <1>3, <1>4, <1>5, <1>7, <1>8, <1>9, CallerCases DEF Next, Step, LoadStep

------------------------------------------------------------------------------
(* The first and the last of a set of positions.                           *)
LEMMA LeastElement ==
    ASSUME NEW S \in SUBSET Nat, S # {}
    PROVE  \E n \in S : \A m \in S : n <= m
<1> DEFINE UpTo(n) == 1..n
           T == {UpTo(n) : n \in S}
<1>1. T \subseteq FiniteSubsetsOf(Nat)
  BY FS_Interval DEF FiniteSubsetsOf
<1>2. T # {}
  OBVIOUS
<1>3. PICK x \in T : \A y \in T : ~(<<y, x>> \in StrictSubsetOrdering(Nat))
  BY <1>1, <1>2, FS_StrictSubsetOrderingWellFounded, WFMin
<1>4. PICK n \in S : x = UpTo(n)
  OBVIOUS
<1>5. ASSUME NEW m \in S PROVE n <= m
  <2>1. ~(<<UpTo(m), UpTo(n)>> \in StrictSubsetOrdering(Nat))
    BY <1>3, <1>4
  <2>2. UpTo(m) \in SUBSET Nat /\ UpTo(n) \in SUBSET Nat
    OBVIOUS
  <2>3. ~(UpTo(m) \subseteq UpTo(n) /\ UpTo(m) # UpTo(n))
    BY <2>1, <2>2 DEF StrictSubsetOrdering
  <2>4. CASE m < n
    <3>1. n \in UpTo(n) /\ n \notin UpTo(m)
      BY <2>4
    <3>2. UpTo(m) \subseteq UpTo(n)
      BY <2>4
    <3> QED
      BY <2>3, <3>1, <3>2
  <2> QED
    BY <2>4
<1> QED
  BY <1>5

LEMMA GreatestElement ==
    ASSUME NEW l \in Nat, NEW S \in SUBSET (0..l), S # {}
    PROVE  \E n \in S : \A m \in S : m <= n
<1> DEFINE T == {l - n : n \in S}
<1>1. T \in SUBSET Nat
  OBVIOUS
<1>2. T # {}
  OBVIOUS
<1>3. PICK x \in T : \A y \in T : x <= y
  <2> HIDE DEF T
  <2> QED
    BY <1>1, <1>2, LeastElement
<1>4. PICK n \in S : x = l - n
  OBVIOUS
<1>5. ASSUME NEW m \in S PROVE m <= n
  <2>1. l - m \in T
    OBVIOUS
  <2>2. l - n <= l - m
    BY <1>3, <1>4, <2>1
  <2> QED
    BY <2>2
<1> QED
  BY <1>5

LEMMA Suffix ==
    ASSUME NEW S, NEW s \in Seq(S), NEW m \in Nat, m <= Len(s),
           NEW t, t = SubSeq(s, m + 1, Len(s))
    PROVE  /\ t \in Seq(S) /\ Len(t) = Len(s) - m
           /\ \A j \in 1..Len(s) - m : t[j] = s[m + j]
<1>1. Len(s) \in Nat /\ \A i \in (m + 1)..Len(s) : i \in 1..Len(s)
  OBVIOUS
<1>2. \A i \in (m + 1)..Len(s) : s[i] \in S
  BY <1>1, LenProperties
<1>3. t \in Seq(S)
  BY <1>2
<1>4. Len(t) = IF m + 1 <= Len(s) THEN Len(s) - (m + 1) + 1 ELSE 0
  BY <1>2
<1>5. \A i \in 1..Len(s) - (m + 1) + 1 : t[i] = s[m + 1 + i - 1]
  BY <1>2
<1>6. /\ Len(s) - (m + 1) + 1 = Len(s) - m
      /\ (IF m + 1 <= Len(s) THEN Len(s) - (m + 1) + 1 ELSE 0) = Len(s) - m
  BY <1>1
<1>7. \A i \in 1..Len(s) - m : t[i] = s[m + i]
  <2>1. \A i \in 1..Len(s) - m : m + 1 + i - 1 = m + i
    BY <1>1
  <2> QED
    BY <1>5, <1>6, <2>1
<1> QED
  BY <1>3, <1>4, <1>6, <1>7

LEMMA Prefix ==
    ASSUME NEW S, NEW s \in Seq(S), NEW n \in Nat, n <= Len(s), NEW t, t = SubSeq(s, 1, n)
    PROVE  t \in Seq(S) /\ Len(t) = n /\ \A j \in 1..n : t[j] = s[j]
<1>1. Len(s) \in Nat /\ \A i \in 1..n : i \in 1..Len(s)
  OBVIOUS
<1>2. \A i \in 1..n : s[i] \in S
  BY <1>1, LenProperties
<1>3. t \in Seq(S)
  BY <1>2
<1>4. Len(t) = n
  BY <1>2
<1>5. \A i \in 1..n : t[i] = s[i]
  BY <1>2
<1> QED
  BY <1>3, <1>4, <1>5

LEMMA ReplaceInSeq ==
    ASSUME NEW S, NEW s \in Seq(S), NEW a, NEW b \in S,
           NEW r, r = [i \in DOMAIN s |-> IF s[i] = a THEN b ELSE s[i]]
    PROVE  /\ r \in Seq(S) /\ Len(r) = Len(s)
           /\ \A j \in 1..Len(s) : r[j] = IF s[j] = a THEN b ELSE s[j]
<1>1. Len(s) \in Nat /\ DOMAIN s = 1..Len(s) /\ s \in [1..Len(s) -> S]
  BY LenProperties
<1>2. r \in [1..Len(s) -> S]
  BY <1>1
<1>3. r \in Seq(S)
  BY <1>1, <1>2
<1>4. DOMAIN r = 1..Len(s) /\ DOMAIN r = 1..Len(r) /\ Len(r) \in Nat
  BY <1>1, <1>3, LenProperties
<1> QED
  BY <1>1, <1>3, <1>4

LEMMA DashesInSeq ==
    ASSUME NEW s \in Seq(Character), NEW r, r = DashesReplaced(s)
    PROVE  /\ r \in Seq(Character) /\ Len(r) = Len(s)
           /\ \A j \in 1..Len(s) : r[j] = IF s[j] = "-" THEN "_" ELSE s[j]
<1>1. PICK underscore \in Character : underscore = "_"
  BY DEF Character
<1>2. r = [i \in DOMAIN s |-> IF s[i] = "-" THEN underscore ELSE s[i]]
  BY <1>1 DEF DashesReplaced
<1>3. /\ r \in Seq(Character) /\ Len(r) = Len(s)
      /\ \A j \in 1..Len(s) : r[j] = IF s[j] = "-" THEN underscore ELSE s[j]
  BY <1>2, ReplaceInSeq
<1> QED
  BY <1>1, <1>3

LEMMA AfterLast ==
    ASSUME NEW name \in Seq(Character), NEW c
    PROVE  \E i \in 0..Len(name) :
              /\ i = 0 \/ name[i] = c
              /\ \A j \in (i + 1)..Len(name) : name[j] # c
              /\ PartAfter(c, name) = SubSeq(name, i + 1, Len(name))
<1> DEFINE at == {0} \cup {i \in DOMAIN name : name[i] = c}
           last == CHOOSE i \in at : \A j \in at : j <= i
<1>1. at \in SUBSET (0..Len(name)) /\ at # {} /\ Len(name) \in Nat
  OBVIOUS
<1>2. \E i \in at : \A j \in at : j <= i
  BY <1>1, GreatestElement
<1>3. last \in at /\ \A j \in at : j <= last
  BY <1>2
<1>4. PartAfter(c, name) = SubSeq(name, last + 1, Len(name))
  BY DEF PartAfter
<1> HIDE DEF last
<1>5. last \in 0..Len(name) /\ (last = 0 \/ name[last] = c)
  BY <1>3
<1>6. \A j \in (last + 1)..Len(name) : name[j] # c
  BY <1>3, <1>5
<1> QED
  BY <1>4, <1>5, <1>6

LEMMA BeforeFirst ==
    ASSUME NEW name \in Seq(Character), NEW c
    PROVE  \E i \in 1..Len(name) + 1 :
              /\ i = Len(name) + 1 \/ name[i] = c
              /\ \A j \in 1..i - 1 : name[j] # c
              /\ PartBefore(c, name) = SubSeq(name, 1, i - 1)
<1> DEFINE at == {Len(name) + 1} \cup {i \in DOMAIN name : name[i] = c}
           first == CHOOSE i \in at : \A j \in at : i <= j
<1>1. at \in SUBSET Nat /\ at # {}
  OBVIOUS
<1>2. \E i \in at : \A j \in at : i <= j
  BY <1>1, LeastElement
<1>3. first \in at /\ \A j \in at : first <= j
  BY <1>2
<1>4. PartBefore(c, name) = SubSeq(name, 1, first - 1)
  BY DEF PartBefore
<1> HIDE DEF first
<1>5. first \in 1..Len(name) + 1 /\ (first = Len(name) + 1 \/ name[first] = c)
  BY <1>3
<1>6. \A j \in 1..first - 1 : name[j] # c
  BY <1>3, <1>5
<1> QED
  BY <1>4, <1>5, <1>6

(* The documented base name in two parts: where it begins, and how far it  *)
(* goes from there.                                                        *)
NameIn(path, i) ==
    /\ i \in 0..Len(path)
    /\ i = 0 \/ path[i] = "/"
    /\ \A j \in (i + 1)..Len(path) : path[j] # "/"

From(path, i) ==
    IF i + 3 <= Len(path) /\ <<path[i+1], path[i+2], path[i+3]>> = <<"l", "i", "b">>
    THEN i + 3 ELSE i

BaseAt(path, from, b) ==
    /\ from + Len(b) <= Len(path)
    /\ \A j \in DOMAIN b :
          path[from + j] # "." /\ b[j] = (IF path[from + j] = "-" THEN "_" ELSE path[from + j])
    /\ from + Len(b) = Len(path) \/ path[from + Len(b) + 1] = "."

LEMMA DocumentedParts ==
    ASSUME NEW path, NEW b
    PROVE  DocumentedBaseName(path, b) <=> \E i : NameIn(path, i) /\ BaseAt(path, From(path, i), b)
BY Zenon DEF DocumentedBaseName, NameIn, From, BaseAt

LEMMA OneName ==
    ASSUME NEW path \in Seq(Character), NEW i, NEW j, NameIn(path, i), NameIn(path, j)
    PROVE  i = j /\ From(path, i) \in 0..Len(path)
BY DEF NameIn, From

LEMMA OneBase ==
    ASSUME NEW path \in Seq(Character), NEW from \in 0..Len(path),
           NEW a \in Seq(Character), NEW b \in Seq(Character),
           BaseAt(path, from, a), BaseAt(path, from, b)
    PROVE  a = b
<1>1. ASSUME NEW x \in Seq(Character), NEW y \in Seq(Character),
             BaseAt(path, from, x), BaseAt(path, from, y), Len(x) < Len(y)
      PROVE  FALSE
  <2>1. from \in Nat /\ Len(x) \in Nat /\ Len(y) \in Nat /\ Len(path) \in Nat
    OBVIOUS
  <2>2. from + Len(y) <= Len(path) /\ from + Len(x) <= Len(path)
    BY <1>1, Zenon DEF BaseAt
  <2>3. from + Len(x) # Len(path) /\ Len(x) + 1 \in 1..Len(y)
    BY <1>1, <2>1, <2>2
  <2>4. from + (Len(x) + 1) = from + Len(x) + 1 /\ DOMAIN y = 1..Len(y)
    BY <2>1
  <2>5. path[from + Len(x) + 1] = "."
    BY <1>1, <2>3, Zenon DEF BaseAt
  <2>6. path[from + (Len(x) + 1)] # "."
    BY <1>1, <2>3, <2>4, Zenon DEF BaseAt
  <2> QED
    BY <2>4, <2>5, <2>6
<1>2. Len(a) = Len(b) /\ DOMAIN a = 1..Len(a) /\ DOMAIN b = 1..Len(b)
  BY <1>1
<1>3. ASSUME NEW j \in 1..Len(a) PROVE a[j] = b[j]
  <2>1. j \in DOMAIN a /\ j \in DOMAIN b
    BY <1>2
  <2> QED
    BY <2>1 DEF BaseAt
<1> QED
  BY <1>2, <1>3, SeqEqual

(* strncmp(name_pos, "lib", 3) == 0                                        *)
HasLib(name) == Len(name) >= 3 /\ name[1] = "l" /\ name[2] = "i" /\ name[3] = "b"

LEMMA LibSkipped ==
    ASSUME NEW name \in Seq(Character), NEW stem, stem = SkipLib(name)
    PROVE  /\ stem \in Seq(Character)
           /\ HasLib(name) => /\ Len(stem) = Len(name) - 3
                              /\ \A j \in 1..Len(stem) : stem[j] = name[3 + j]
           /\ ~HasLib(name) => stem = name
<1>1. Len(lib_prefix) = 3 /\ lib_prefix[1] = "l" /\ lib_prefix[2] = "i" /\ lib_prefix[3] = "b"
  BY DEF lib_prefix
<1>2. ASSUME Len(name) >= 3, NEW head, head = SubSeq(name, 1, 3)
      PROVE  head = lib_prefix <=> HasLib(name)
  <2>1. head \in Seq(Character)
    BY <1>2, Prefix
  <2>2. Len(head) = 3
    BY <1>2, Prefix
  <2>3. \A j \in 1..3 : head[j] = name[j]
    BY <1>2, Prefix
  <2>4. head[1] = name[1] /\ head[2] = name[2] /\ head[3] = name[3]
    BY <2>3
  <2>5. head = <<head[1], head[2], head[3]>>
    BY <2>1, <2>2
  <2> QED
    BY <1>1, <1>2, <2>4, <2>5 DEF HasLib, lib_prefix
<1>3. CASE HasLib(name)
  <2>1. PICK k \in Nat : k = 3
    OBVIOUS
  <2>2. stem = SubSeq(name, k + 1, Len(name)) /\ Len(name) >= k
    BY <1>1, <1>2, <1>3, <2>1 DEF SkipLib, HasLib
  <2>3. stem \in Seq(Character)
    BY <2>2, Suffix
  <2>4. Len(stem) = Len(name) - k
    BY <2>2, Suffix
  <2>5. \A j \in 1..Len(name) - k : stem[j] = name[k + j]
    BY <2>2, Suffix
  <2> QED
    BY <1>3, <2>1, <2>3, <2>4, <2>5
<1>4. CASE ~HasLib(name)
  BY <1>1, <1>2, <1>4 DEF SkipLib
<1> QED
  BY <1>3, <1>4

(* The part of the path that is searched for the first extension.          *)
IsStem(path, i, stem) ==
    /\ NameIn(path, i)
    /\ stem \in Seq(Character)
    /\ From(path, i) + Len(stem) = Len(path)
    /\ \A j \in 1..Len(stem) : stem[j] = path[From(path, i) + j]

LEMMA StemAfterLib ==
    ASSUME NEW path \in Seq(Character), NEW i \in Nat, i <= Len(path), NameIn(path, i),
           NEW name, name = SubSeq(path, i + 1, Len(path)), NEW stem, stem = SkipLib(name)
    PROVE  IsStem(path, i, stem)
<1>1. name \in Seq(Character)
  BY Suffix
<1>2. Len(name) = Len(path) - i
  BY Suffix
<1>3. \A j \in 1..Len(name) : name[j] = path[i + j]
  BY <1>2, Suffix
<1>4. Len(path) \in Nat /\ Len(name) \in Nat
  BY <1>1
<1>5. HasLib(name) <=> i + 3 <= Len(path) /\ <<path[i+1], path[i+2], path[i+3]>> = <<"l", "i", "b">>
  <2>1. CASE Len(name) >= 3
    <3>1. name[1] = path[i+1] /\ name[2] = path[i+2] /\ name[3] = path[i+3]
      BY <1>3, <1>4, <2>1
    <3> QED
      BY <1>2, <1>4, <2>1, <3>1 DEF HasLib
  <2>2. CASE ~(Len(name) >= 3)
    BY <1>2, <1>4, <2>2 DEF HasLib
  <2> QED
    BY <2>1, <2>2
<1>6. CASE HasLib(name)
  <2>1. From(path, i) = i + 3
    BY <1>5, <1>6 DEF From
  <2>2. stem \in Seq(Character) /\ Len(stem) = Len(name) - 3 /\ Len(name) >= 3
    BY <1>1, <1>6, LibSkipped DEF HasLib
  <2>3. ASSUME NEW j \in 1..Len(stem) PROVE stem[j] = path[From(path, i) + j]
    <3>1. stem[j] = name[3 + j]
      BY <1>1, <1>6, LibSkipped
    <3>2. 3 + j \in 1..Len(name) /\ i + 3 + j = i + (3 + j)
      BY <1>4, <2>2
    <3> QED
      BY <1>3, <2>1, <3>1, <3>2
  <2>4. From(path, i) + Len(stem) = Len(path)
    BY <1>2, <1>4, <2>1, <2>2
  <2> QED
    BY <2>2, <2>3, <2>4 DEF IsStem
<1>7. CASE ~HasLib(name)
  <2>1. From(path, i) = i
    BY <1>5, <1>7 DEF From
  <2>2. stem = name
    BY <1>1, <1>7, LibSkipped
  <2>3. From(path, i) + Len(stem) = Len(path)
    BY <1>2, <1>4, <2>1, <2>2
  <2>4. \A j \in 1..Len(stem) : stem[j] = path[From(path, i) + j]
    BY <1>3, <2>1, <2>2
  <2> QED
    BY <1>1, <2>2, <2>3, <2>4 DEF IsStem
<1> QED
  BY <1>6, <1>7

LEMMA Stem ==
    ASSUME NEW path \in Seq(Character)
    PROVE  \E i : IsStem(path, i, SkipLib(PartAfter("/", path)))
<1>1. PICK i \in 0..Len(path) : NameIn(path, i) /\ PartAfter("/", path) = SubSeq(path, i + 1, Len(path))
  BY AfterLast DEF NameIn
<1>2. i \in Nat /\ i <= Len(path)
  OBVIOUS
<1> QED
  BY <1>1, <1>2, StemAfterLib

(* From the stem to the base name.                                         *)
LEMMA BaseOfStem ==
    ASSUME NEW path \in Seq(Character), NEW i, NEW stem, IsStem(path, i, stem),
           NEW part, part = PartBefore(".", stem), NEW base, base = DashesReplaced(part)
    PROVE  base \in Seq(Character) /\ BaseAt(path, From(path, i), base)
<1>1. /\ NameIn(path, i)
      /\ stem \in Seq(Character)
      /\ From(path, i) + Len(stem) = Len(path)
      /\ \A j \in 1..Len(stem) : stem[j] = path[From(path, i) + j]
  BY DEF IsStem
<1>2. PICK f \in 1..Len(stem) + 1 :
        /\ f = Len(stem) + 1 \/ stem[f] = "."
        /\ \A j \in 1..f - 1 : stem[j] # "."
        /\ part = SubSeq(stem, 1, f - 1)
  BY <1>1, BeforeFirst
<1>3. /\ Len(stem) \in Nat /\ f \in Nat /\ 1 <= f /\ f <= Len(stem) + 1
      /\ From(path, i) \in Nat /\ Len(path) \in Nat
  BY <1>1, OneName
<1>4. f - 1 \in Nat /\ f - 1 <= Len(stem)
  BY <1>3
<1>5. part \in Seq(Character)
  BY <1>1, <1>2, <1>4, Prefix
<1>6. Len(part) = f - 1
  BY <1>1, <1>2, <1>4, Prefix
<1>7. \A j \in 1..f - 1 : part[j] = stem[j]
  BY <1>1, <1>2, <1>4, Prefix
<1>8. base \in Seq(Character)
  BY <1>5, DashesInSeq
<1>9. Len(base) = f - 1
  BY <1>5, <1>6, DashesInSeq
<1>10. \A j \in 1..f - 1 : base[j] = IF part[j] = "-" THEN "_" ELSE part[j]
  BY <1>5, <1>6, DashesInSeq
<1>11. DOMAIN base = 1..f - 1 /\ From(path, i) + Len(base) <= Len(path)
  BY <1>1, <1>3, <1>4, <1>8, <1>9
<1>12. ASSUME NEW j \in 1..f - 1
       PROVE  /\ path[From(path, i) + j] # "."
              /\ base[j] = IF path[From(path, i) + j] = "-" THEN "_" ELSE path[From(path, i) + j]
  <2>1. j \in 1..Len(stem)
    BY <1>3
  <2>2. part[j] = path[From(path, i) + j] /\ stem[j] = path[From(path, i) + j] /\ stem[j] # "."
    BY <1>1, <1>2, <1>7, <2>1
  <2> QED
    BY <1>10, <2>2
<1>13. From(path, i) + Len(base) = Len(path) \/ path[From(path, i) + Len(base) + 1] = "."
  <2>1. CASE f = Len(stem) + 1
    BY <1>1, <1>3, <1>9, <2>1
  <2>2. CASE f # Len(stem) + 1
    <3>1. f \in 1..Len(stem) /\ stem[f] = "." /\ From(path, i) + (f - 1) + 1 = From(path, i) + f
      BY <1>2, <1>3, <2>2
    <3> QED
      BY <1>1, <1>9, <3>1
  <2> QED
    BY <2>1, <2>2
<1> QED
  BY <1>8, <1>11, <1>12, <1>13 DEF BaseAt

LEMMA BaseNameIsDocumented ==
    ASSUME NEW path \in Seq(Character), ~LongBaseName(path)
    PROVE  base_name(path) \in Seq(Character) /\ DocumentedBaseName(path, base_name(path))
<1>1. PICK i : IsStem(path, i, SkipLib(PartAfter("/", path)))
  BY Stem
<1>2. base_name(path) = DashesReplaced(PartBefore(".", SkipLib(PartAfter("/", path))))
  BY DEF base_name, CopiedName, strcpy_sx_fits, LongBaseName
<1>3. base_name(path) \in Seq(Character) /\ BaseAt(path, From(path, i), base_name(path))
  BY <1>1, <1>2, BaseOfStem
<1>4. NameIn(path, i)
  BY <1>1 DEF IsStem
<1> QED
  BY <1>3, <1>4, DocumentedParts

LEMMA DocumentedOnce ==
    ASSUME NEW path \in Seq(Character), NEW a \in Seq(Character), NEW b \in Seq(Character),
           DocumentedBaseName(path, a), DocumentedBaseName(path, b)
    PROVE  a = b
<1>1. PICK i : NameIn(path, i) /\ BaseAt(path, From(path, i), a)
  BY DocumentedParts
<1>2. PICK j : NameIn(path, j) /\ BaseAt(path, From(path, j), b)
  BY DocumentedParts
<1>3. i = j /\ From(path, i) \in 0..Len(path)
  BY <1>1, <1>2, OneName
<1> QED
  BY <1>1, <1>2, <1>3, OneBase

LEMMA LongNamesAreEmpty ==
    ASSUME NEW path, LongBaseName(path)
    PROVE  base_name(path) = << >>
<1>1. << >> \in Seq(Character) /\ Len(<< >>) = 0
  OBVIOUS
<1>2. ASSUME NEW e \in Seq(Character), Len(e) = 0 PROVE Len(PartBefore(".", e)) = 0
  <2>1. PICK f \in 1..Len(e) + 1 : PartBefore(".", e) = SubSeq(e, 1, f - 1)
    BY BeforeFirst
  <2>2. f - 1 = 0
    BY <1>2
  <2>3. Len(SubSeq(e, 1, 0)) = 0
    BY <1>2, Prefix
  <2> QED
    BY <2>1, <2>2, <2>3
<1>3. ASSUME NEW e \in Seq(Character), Len(e) = 0 PROVE PartBefore(".", e) \in Seq(Character)
  <2>1. PICK f \in 1..Len(e) + 1 : PartBefore(".", e) = SubSeq(e, 1, f - 1)
    BY BeforeFirst
  <2> QED
    BY <1>3, <2>1, Prefix
<1>4. PartBefore(".", << >>) = << >>
  <2>1. PartBefore(".", << >>) \in Seq(Character) /\ Len(PartBefore(".", << >>)) = 0
    BY <1>1, <1>2, <1>3
  <2> QED
    BY <2>1
<1>5. DashesReplaced(<< >>) = << >>
  BY DEF DashesReplaced
<1> QED
  BY <1>4, <1>5 DEF base_name, CopiedName, strcpy_sx_fits, LongBaseName

------------------------------------------------------------------------------
(* The tokens of a configuration.                                          *)
LEMMA Slice ==
    ASSUME NEW S, NEW s \in Seq(S), NEW a \in Nat, NEW b \in Nat, a <= b, b <= Len(s),
           NEW t, t = SubSeq(s, a + 1, b)
    PROVE  /\ t \in Seq(S) /\ Len(t) = b - a
           /\ \A j \in 1..b - a : t[j] = s[a + j]
<1>1. Len(s) \in Nat /\ \A i \in (a + 1)..b : i \in 1..Len(s)
  OBVIOUS
<1>2. \A i \in (a + 1)..b : s[i] \in S
  BY <1>1, LenProperties
<1>3. t \in Seq(S)
  BY <1>2
<1>4. Len(t) = IF a + 1 <= b THEN b - (a + 1) + 1 ELSE 0
  BY <1>2
<1>5. \A i \in 1..b - (a + 1) + 1 : t[i] = s[a + 1 + i - 1]
  BY <1>2
<1>6. b - (a + 1) + 1 = b - a /\ (IF a + 1 <= b THEN b - (a + 1) + 1 ELSE 0) = b - a
  OBVIOUS
<1>7. \A i \in 1..b - a : t[i] = s[a + i]
  <2>1. \A i \in 1..b - a : a + 1 + i - 1 = a + i
    OBVIOUS
  <2> QED
    BY <1>5, <1>6, <2>1
<1> QED
  BY <1>3, <1>4, <1>6, <1>7

(* A part of a part is a part of the whole.                                *)
LEMMA SliceOfSlice ==
    ASSUME NEW S, NEW s \in Seq(S), NEW m \in Nat, m <= Len(s),
           NEW r, r = SubSeq(s, m + 1, Len(s)),
           NEW a \in Nat, NEW b \in Nat, a <= b, b <= Len(r)
    PROVE  SubSeq(r, a + 1, b) = SubSeq(s, m + a + 1, m + b)
<1> DEFINE x == SubSeq(r, a + 1, b)
           y == SubSeq(s, (m + a) + 1, m + b)
<1>1. Len(s) \in Nat
  OBVIOUS
<1>2. r \in Seq(S)
  BY Suffix
<1>3. Len(r) = Len(s) - m
  BY Suffix
<1>4. \A j \in 1..Len(s) - m : r[j] = s[m + j]
  BY Suffix
<1>5. x \in Seq(S)
  BY <1>2, Slice
<1>6. Len(x) = b - a
  BY <1>2, Slice
<1>7. \A j \in 1..b - a : x[j] = r[a + j]
  BY <1>2, Slice
<1>8. m + a \in Nat /\ m + b \in Nat /\ m + a <= m + b /\ m + b <= Len(s) /\ (m + b) - (m + a) = b - a
  BY <1>1, <1>3
<1>9. y \in Seq(S)
  BY <1>8, Slice
<1>10. Len(y) = b - a
  BY <1>8, Slice
<1>11. \A j \in 1..(m + b) - (m + a) : y[j] = s[(m + a) + j]
  BY <1>8, Slice
<1>12. ASSUME NEW j \in 1..b - a PROVE x[j] = y[j]
  <2>1. a + j \in 1..Len(s) - m /\ m + (a + j) = (m + a) + j
    BY <1>1, <1>3
  <2> QED
    BY <1>4, <1>7, <1>8, <1>11, <2>1
<1> QED
  BY <1>5, <1>6, <1>9, <1>10, <1>12, SeqEqual

(* get_token(): where the token ends, and what is left.                    *)
IsToken(str, delim, at) ==
    /\ at \in 1..Len(str) + 1
    /\ \A j \in 1..at - 1 : str[j] # delim
    /\ get_token(str, delim).token = SubSeq(str, 1, at - 1)
    /\ \/ at = Len(str) + 1 /\ get_token(str, delim).rest = << >>
       \/ /\ at \in 1..Len(str) /\ str[at] = delim
          /\ get_token(str, delim).rest = SubSeq(str, at + 1, Len(str))

LEMMA TokenFound ==
    ASSUME NEW str \in Seq(Character), NEW delim
    PROVE  \E at : IsToken(str, delim, at)
<1>1. Len(str) \in Nat
  OBVIOUS
<1>2. CASE \E i \in DOMAIN str : str[i] = delim
  <2>1. PICK at \in 1..Len(str) + 1 :
              /\ at = Len(str) + 1 \/ str[at] = delim
              /\ \A j \in 1..at - 1 : str[j] # delim
              /\ PartBefore(delim, str) = SubSeq(str, 1, at - 1)
    BY BeforeFirst
  <2>2. PICK i \in 1..Len(str) : str[i] = delim
    BY <1>2
  <2>3. at \in 1..Len(str) /\ str[at] = delim /\ at - 1 \in Nat /\ at - 1 <= Len(str)
    BY <1>1, <2>1, <2>2
  <2>4. Len(PartBefore(delim, str)) = at - 1
    BY <2>1, <2>3, Prefix
  <2>5. at - 1 + 2 = at + 1
    BY <2>3
  <2>6. /\ get_token(str, delim).token = SubSeq(str, 1, at - 1)
        /\ get_token(str, delim).rest = SubSeq(str, at + 1, Len(str))
    BY <1>2, <2>1, <2>4, <2>5 DEF get_token
  <2> QED
    BY <2>1, <2>3, <2>6 DEF IsToken
<1>3. CASE ~\E i \in DOMAIN str : str[i] = delim
  <2>1. get_token(str, delim).token = str /\ get_token(str, delim).rest = << >>
    BY <1>3 DEF get_token
  <2>2. \A j \in 1..Len(str) : str[j] # delim
    BY <1>3
  <2>3. SubSeq(str, 1, Len(str)) = str
    <3>1. SubSeq(str, 1, Len(str)) \in Seq(Character)
      BY <1>1, Prefix
    <3>2. Len(SubSeq(str, 1, Len(str))) = Len(str)
      BY <1>1, Prefix
    <3>3. \A j \in 1..Len(str) : SubSeq(str, 1, Len(str))[j] = str[j]
      BY <1>1, Prefix
    <3> QED
      BY <3>1, <3>2, <3>3, SeqEqual
  <2>4. Len(str) + 1 - 1 = Len(str) /\ Len(str) + 1 \in 1..Len(str) + 1
    BY <1>1
  <2> QED
    BY <2>1, <2>2, <2>3, <2>4 DEF IsToken
<1> QED
  BY <1>2, <1>3

LEMMA TokenTypes ==
    ASSUME NEW str \in Seq(Character), NEW delim
    PROVE  get_token(str, delim).token \in Seq(Character) /\ get_token(str, delim).rest \in Seq(Character)
<1>1. PICK at : IsToken(str, delim, at)
  BY TokenFound
<1>2. Len(str) \in Nat /\ at \in Nat /\ at - 1 \in Nat /\ at - 1 <= Len(str)
  BY <1>1 DEF IsToken
<1>3. SubSeq(str, 1, at - 1) \in Seq(Character)
  BY <1>2, Prefix
<1>4. at <= Len(str) => SubSeq(str, at + 1, Len(str)) \in Seq(Character)
  BY <1>2, Suffix
<1>5. << >> \in Seq(Character)
  OBVIOUS
<1>6. get_token(str, delim).token \in Seq(Character)
  BY <1>1, <1>3 DEF IsToken
<1>7. CASE get_token(str, delim).rest = << >>
  BY <1>5, <1>6, <1>7
<1>8. CASE at \in 1..Len(str) /\ get_token(str, delim).rest = SubSeq(str, at + 1, Len(str))
  <2>1. at <= Len(str)
    BY <1>2, <1>8
  <2> QED
    BY <1>4, <1>6, <1>8, <2>1
<1> QED
  BY <1>1, <1>7, <1>8 DEF IsToken

(* The name and the value of an option, taken apart at the first "=", are  *)
(* written as the option.                                                  *)
LEMMA OptionSplit ==
    ASSUME NEW str \in Seq(Character), NEW o,
           o = [name |-> get_token(str, "=").token, value |-> get_token(str, "=").rest]
    PROVE  o \in Option /\ WrittenAs(o, str)
<1>1. PICK at : IsToken(str, "=", at)
  BY TokenFound
<1>2. Len(str) \in Nat /\ at \in Nat /\ at - 1 \in Nat /\ at - 1 <= Len(str)
  BY <1>1 DEF IsToken
<1>3. o.name = SubSeq(str, 1, at - 1) /\ o.name \in Seq(Character) /\ o.value \in Seq(Character)
  BY <1>1, TokenTypes DEF IsToken
<1>4. Len(o.name) = at - 1
  BY <1>2, <1>3, Prefix
<1>5. \A j \in 1..at - 1 : o.name[j] = str[j]
  BY <1>2, <1>3, Prefix
<1>6. \A p \in DOMAIN o.name : o.name[p] # "="
  BY <1>1, <1>3, <1>4, <1>5 DEF IsToken
<1>7. CASE at = Len(str) + 1 /\ o.value = << >>
  <2>1. Len(o.name) = Len(str)
    BY <1>2, <1>4, <1>7
  <2>2. \A j \in 1..Len(str) : o.name[j] = str[j]
    BY <1>2, <1>5, <1>7
  <2>3. o.name = str
    BY <1>3, <2>1, <2>2, SeqEqual
  <2> QED
    BY <1>3, <1>6, <1>7, <2>3 DEF WrittenAs, Option
<1>8. CASE at \in 1..Len(str) /\ str[at] = "=" /\ o.value = SubSeq(str, at + 1, Len(str))
  <2> DEFINE left == o.name \o <<"=">>
             whole == left \o o.value
  <2>1. PICK equals \in Character : equals = "="
    BY DEF Character
  <2>2. <<"=">> \in Seq(Character)
    BY <2>1
  <2>3. left \in Seq(Character) /\ Len(left) = at
    BY <1>3, <1>4, <1>2, <2>2, ConcatProperties
  <2>4. ASSUME NEW j \in 1..at PROVE left[j] = str[j]
    BY <1>2, <1>3, <1>4, <1>5, <1>8, <2>2, ConcatProperties
  <2>5. Len(o.value) = Len(str) - at
    BY <1>2, <1>8, Suffix
  <2>6. \A j \in 1..Len(str) - at : o.value[j] = str[at + j]
    BY <1>2, <1>8, Suffix
  <2> HIDE DEF left
  <2>7. whole \in Seq(Character) /\ Len(whole) = Len(str)
    BY <1>2, <1>3, <1>8, <2>3, <2>5, ConcatProperties
  <2>8. ASSUME NEW j \in 1..Len(str) PROVE whole[j] = str[j]
    <3>1. CASE j <= at
      <4>1. j \in 1..at
        BY <1>2, <3>1
      <4>2. whole[j] = left[j]
        BY <1>2, <1>3, <2>3, <4>1, ConcatProperties
      <4> QED
        BY <2>4, <4>1, <4>2
    <3>2. CASE ~(j <= at)
      <4>1. j - at \in 1..Len(str) - at /\ at + (j - at) = j
        BY <1>2, <3>2
      <4>2. whole[j] = o.value[j - at]
        BY <1>2, <1>3, <2>3, <2>5, <3>2, ConcatProperties
      <4> QED
        BY <2>6, <4>1, <4>2
    <3> QED
      BY <3>1, <3>2
  <2>9. whole = str
    BY <2>7, <2>8, SeqEqual
  <2> QED
    BY <1>3, <1>6, <2>9 DEF WrittenAs, Option, left
<1> QED
  BY <1>1, <1>7, <1>8 DEF IsToken

(* Counting commas.                                                        *)
LEMMA CommaCount ==
    ASSUME NEW cfg, NEW n \in Nat
    PROVE  IsFiniteSet(Commas(cfg, n)) /\ Cardinality(Commas(cfg, n)) \in Nat
<1>1. IsFiniteSet(1..n)
  BY FS_Interval
<1>2. IsFiniteSet(Commas(cfg, n))
  BY <1>1, FS_Subset DEF Commas
<1> QED
  BY <1>2, FS_CardinalityType

LEMMA NoCommaBetween ==
    ASSUME NEW cfg, NEW a \in Nat, NEW b \in Nat, a <= b, \A p \in a + 1..b : cfg[p] # Comma
    PROVE  Commas(cfg, a) = Commas(cfg, b)
BY DEF Commas

LEMMA OneCommaMore ==
    ASSUME NEW cfg, NEW b \in Nat, b # 0, cfg[b] = Comma
    PROVE  Cardinality(Commas(cfg, b)) = Cardinality(Commas(cfg, b - 1)) + 1
<1>1. Commas(cfg, b) = Commas(cfg, b - 1) \cup {b} /\ b \notin Commas(cfg, b - 1)
  BY DEF Commas
<1>2. IsFiniteSet(Commas(cfg, b - 1))
  BY CommaCount
<1> QED
  BY <1>1, <1>2, FS_AddElement

(* The path leaves the options.                                            *)
LEMMA FirstSplit ==
    ASSUME NEW cfg \in Seq(Character), NEW rest, rest = get_token(cfg, Comma).rest
    PROVE  SplitAt(cfg, << >>, rest)
<1>1. PICK at : IsToken(cfg, Comma, at)
  BY TokenFound
<1>2. Len(cfg) \in Nat /\ at \in Nat /\ at - 1 \in Nat /\ at - 1 <= Len(cfg)
  BY <1>1 DEF IsToken
<1>3. \A p \in 1..at - 1 : cfg[p] # Comma
  BY <1>1 DEF IsToken
<1>4. Commas(cfg, at - 1) = {}
  BY <1>3 DEF Commas
<1>5. Cardinality(Commas(cfg, at - 1)) = 0
  BY <1>4, FS_EmptySet
<1>6. DOMAIN << >> = {} /\ Len(<< >>) = 0
  OBVIOUS
<1>7. CASE at = Len(cfg) + 1 /\ rest = << >>
  <2>1. Len(rest) = 0
    BY <1>7
  <2>2. SubSeq(cfg, Len(cfg) + 1, Len(cfg)) = << >>
    <3>1. SubSeq(cfg, Len(cfg) + 1, Len(cfg)) \in Seq(Character)
      BY <1>2, Suffix
    <3>2. Len(SubSeq(cfg, Len(cfg) + 1, Len(cfg))) = Len(cfg) - Len(cfg)
      BY <1>2, Suffix
    <3> QED
      BY <1>2, <3>1, <3>2
  <2>3. Len(cfg) - Len(rest) + 1 = Len(cfg) + 1 /\ Len(rest) <= Len(cfg)
    BY <1>2, <2>1
  <2>4. Commas(cfg, Len(cfg) - 1) = {}
    BY <1>2, <1>3, <1>7 DEF Commas
  <2>5. Cardinality(Commas(cfg, Len(cfg) - 1)) = 0
    BY <2>4, FS_EmptySet
  <2> QED
    BY <1>6, <1>7, <2>1, <2>2, <2>3, <2>5 DEF SplitAt
<1>8. CASE at \in 1..Len(cfg) /\ cfg[at] = Comma /\ rest = SubSeq(cfg, at + 1, Len(cfg))
  <2>1. Len(rest) = Len(cfg) - at
    BY <1>2, <1>8, Suffix
  <2>2. Len(cfg) - Len(rest) = at /\ Len(rest) <= Len(cfg) /\ Len(rest) < Len(cfg)
    BY <1>2, <1>8, <2>1
  <2>3. Cardinality(Commas(cfg, at)) = 1
    BY <1>2, <1>5, <1>8, OneCommaMore
  <2>4. Len(rest) = 0 => Cardinality(Commas(cfg, Len(cfg) - 1)) = 0
    BY <1>2, <1>5, <2>2
  <2>5. rest = SubSeq(cfg, Len(cfg) - Len(rest) + 1, Len(cfg))
    BY <1>8, <2>2
  <2>6. cfg[Len(cfg) - Len(rest)] = Comma /\ Cardinality(Commas(cfg, Len(cfg) - Len(rest))) = 0 + 1
    BY <1>8, <2>2, <2>3
  <2> QED
    BY <1>6, <2>2, <2>4, <2>5, <2>6 DEF SplitAt
<1> QED
  BY <1>1, <1>7, <1>8 DEF IsToken

(* One more option goes from what is left to what was passed.              *)
LEMMA NextSplit ==
    ASSUME NEW cfg \in Seq(Character), NEW done \in Seq(Option), NEW rest \in Seq(Character),
           SplitAt(cfg, done, rest), Len(rest) # 0,
           NEW token, token = get_token(rest, Comma).token,
           NEW left, left = get_token(rest, Comma).rest,
           NEW o, o = [name |-> get_token(token, "=").token, value |-> get_token(token, "=").rest]
    PROVE  /\ left \in Seq(Character) /\ Append(done, o) \in Seq(Option)
           /\ SplitAt(cfg, Append(done, o), left)
<1> DEFINE m == Len(cfg) - Len(rest)
           to(at) == m + at
<1>1. PICK at : IsToken(rest, Comma, at)
  BY TokenFound
<1>2. /\ Len(cfg) \in Nat /\ Len(rest) \in Nat /\ Len(done) \in Nat /\ m \in Nat /\ m # 0
      /\ m < Len(cfg) /\ at \in Nat /\ at # 0 /\ at - 1 \in Nat /\ at - 1 <= Len(rest)
  BY <1>1 DEF IsToken, SplitAt
<1>3. /\ rest = SubSeq(cfg, m + 1, Len(cfg)) /\ cfg[m] = Comma /\ Len(rest) = Len(cfg) - m
      /\ Cardinality(Commas(cfg, m)) = Len(done) + 1
      /\ \A k \in DOMAIN done : Specified(cfg, k, done[k])
  BY <1>2 DEF SplitAt
<1> HIDE DEF m
<1>4. \A j \in 1..Len(rest) : rest[j] = cfg[m + j]
  BY <1>2, <1>3, Suffix
<1>5. token = SubSeq(cfg, m + 1, m + at - 1)
  <2>1. SubSeq(rest, 0 + 1, at - 1) = SubSeq(cfg, m + 0 + 1, m + (at - 1))
    BY <1>2, <1>3, SliceOfSlice
  <2>2. 0 + 1 = 1 /\ m + 0 + 1 = m + 1 /\ m + (at - 1) = m + at - 1
    BY <1>2
  <2> QED
    BY <1>1, <2>1, <2>2 DEF IsToken
<1>6. token \in Seq(Character) /\ left \in Seq(Character)
  BY TokenTypes
<1>7. o \in Option /\ WrittenAs(o, token)
  BY <1>6, OptionSplit
<1>8. \A p \in m + 1..m + at - 1 : cfg[p] # Comma
  <2>1. ASSUME NEW p \in m + 1..m + at - 1 PROVE cfg[p] # Comma
    <3>1. p - m \in 1..at - 1 /\ p - m \in 1..Len(rest) /\ m + (p - m) = p
      BY <1>2
    <3>2. rest[p - m] # Comma
      BY <1>1, <3>1 DEF IsToken
    <3> QED
      BY <1>4, <3>1, <3>2
  <2> QED
    BY <2>1
<1>9. m + at \in m + 1..Len(cfg) + 1 /\ (m + at = Len(cfg) + 1 \/ cfg[m + at] = Comma)
  BY <1>1, <1>2, <1>3, <1>4 DEF IsToken
<1>10. Specified(cfg, Len(done) + 1, o)
  <2> DEFINE end == m + at
  <2>1. m \in DOMAIN cfg
    BY <1>2
  <2>2. end \in m + 1..Len(cfg) + 1 /\ (end = Len(cfg) + 1 \/ cfg[end] = Comma)
    BY <1>9
  <2>3. end - 1 = m + at - 1
    BY <1>2
  <2>4. \A p \in m + 1..end - 1 : cfg[p] # Comma
    BY <1>8, <2>3
  <2>5. WrittenAs(o, SubSeq(cfg, m + 1, end - 1))
    BY <1>5, <1>7, <2>3
  <2> HIDE DEF end
  <2> QED
    BY <1>3, <2>1, <2>2, <2>4, <2>5 DEF Specified
<1>11. Append(done, o) \in Seq(Option) /\ Len(Append(done, o)) = Len(done) + 1
  BY <1>7
<1>12. \A k \in DOMAIN Append(done, o) : Specified(cfg, k, Append(done, o)[k])
  <2>1. ASSUME NEW k \in 1..Len(done) + 1 PROVE Specified(cfg, k, Append(done, o)[k])
    <3>1. CASE k = Len(done) + 1
      <4>1. Append(done, o)[k] = o
        BY <1>2, <1>7, <3>1
      <4> QED
        BY <1>10, <3>1, <4>1
    <3>2. CASE k # Len(done) + 1
      <4>1. k \in DOMAIN done /\ Append(done, o)[k] = done[k]
        BY <1>2, <1>7, <3>2
      <4> QED
        BY <1>3, <4>1
    <3> QED
      BY <3>1, <3>2
  <2> QED
    BY <1>2, <1>11, <2>1
<1>13. Commas(cfg, m) = Commas(cfg, m + at - 1)
  BY <1>2, <1>8, NoCommaBetween
<1>14. CASE at = Len(rest) + 1 /\ left = << >>
  <2>1. Len(left) = 0
    BY <1>14
  <2>2. SubSeq(cfg, Len(cfg) + 1, Len(cfg)) = << >>
    <3>1. SubSeq(cfg, Len(cfg) + 1, Len(cfg)) \in Seq(Character)
      BY <1>2, Suffix
    <3>2. Len(SubSeq(cfg, Len(cfg) + 1, Len(cfg))) = Len(cfg) - Len(cfg)
      BY <1>2, Suffix
    <3> QED
      BY <1>2, <3>1, <3>2
  <2>3. Len(cfg) - Len(left) + 1 = Len(cfg) + 1 /\ Len(left) <= Len(cfg)
    BY <1>2, <2>1
  <2>4. \A p \in m + 1..Len(cfg) - 1 : cfg[p] # Comma
    BY <1>2, <1>3, <1>8, <1>14
  <2>5. Len(cfg) - 1 \in Nat /\ m <= Len(cfg) - 1
    BY <1>2
  <2>6. Commas(cfg, Len(cfg) - 1) = Commas(cfg, m)
    BY <1>2, <2>4, <2>5, NoCommaBetween
  <2>7. Cardinality(Commas(cfg, Len(cfg) - 1)) = Len(Append(done, o))
    BY <1>3, <1>11, <2>6
  <2> QED
    BY <1>6, <1>11, <1>12, <1>14, <2>1, <2>2, <2>3, <2>7 DEF SplitAt
<1>15. CASE at \in 1..Len(rest) /\ rest[at] = Comma /\ left = SubSeq(rest, at + 1, Len(rest))
  <2>1. left = SubSeq(cfg, m + at + 1, Len(cfg))
    <3>1. SubSeq(rest, at + 1, Len(rest)) = SubSeq(cfg, m + at + 1, m + Len(rest))
      BY <1>2, <1>3, <1>15, SliceOfSlice
    <3>2. m + Len(rest) = Len(cfg)
      BY <1>2, <1>3
    <3> QED
      BY <1>15, <3>1, <3>2
  <2>2. Len(left) = Len(rest) - at
    BY <1>2, <1>15, Suffix
  <2>3. /\ Len(cfg) - Len(left) = m + at /\ Len(left) <= Len(cfg) /\ Len(left) < Len(cfg)
        /\ m + at \in Nat /\ m + at # 0 /\ m + at <= Len(cfg)
    <3>1. at <= Len(rest) /\ Len(left) \in Nat
      BY <1>2, <1>15, <2>2
    <3>2. Len(rest) = Len(cfg) - m
      BY <1>3
    <3>3. /\ Len(cfg) \in Nat /\ Len(rest) \in Nat /\ m \in Nat /\ m # 0 /\ at \in Nat /\ at # 0
          /\ at <= Len(rest) /\ Len(left) \in Nat /\ Len(left) = Len(rest) - at
          /\ Len(rest) = Len(cfg) - m
      BY <1>2, <2>2, <3>1, <3>2
    <3> QED
      <4> DEFINE c == Len(cfg)
                 r == Len(rest)
                 l == Len(left)
      <4>1. c \in Nat /\ r \in Nat /\ l \in Nat /\ l = r - at /\ r = c - m /\ at <= r
        BY <3>3
      <4> HIDE DEF c, r, l
      <4>2. c - l = m + at /\ l <= c /\ l < c /\ m + at \in Nat /\ m + at # 0 /\ m + at <= c
        BY <3>3, <4>1
      <4> QED
        BY <4>2 DEF c, r, l
  <2>4. cfg[m + at] = Comma
    BY <1>4, <1>15
  <2>5. Cardinality(Commas(cfg, m + at)) = Len(done) + 1 + 1
    <3>1. Cardinality(Commas(cfg, m + at)) = Cardinality(Commas(cfg, (m + at) - 1)) + 1
      BY <2>3, <2>4, OneCommaMore
    <3>2. (m + at) - 1 = m + at - 1
      BY <1>2
    <3> QED
      BY <1>3, <1>13, <3>1, <3>2
  <2>6. Len(left) = 0 => Cardinality(Commas(cfg, Len(cfg) - 1)) = Len(done) + 1
    <3>1. Len(left) = 0 => Len(cfg) - 1 = m + at - 1
      BY <1>2, <2>3
    <3> QED
      BY <1>3, <1>13, <3>1
  <2> QED
    BY <1>6, <1>11, <1>12, <2>1, <2>3, <2>4, <2>5, <2>6 DEF SplitAt
<1> QED
  BY <1>1, <1>14, <1>15 DEF IsToken

LEMMA ConfigType == \A c \in Config : c \in Seq(Character)
<1>1. Seq(STRING) \subseteq Seq(Character)
  BY SeqMonotonic DEF Character
<1> QED
  BY <1>1, LoaderAssumption

(* A step of t that touches neither options nor what was passed.           *)
LEMMA OptionsUntouched ==
    ASSUME OptionsInv, NEW t \in Thread, UNCHANGED <<options, passed, config, op>>,
           \A u \in Thread : u # t => /\ pc'[u] = pc[u] /\ layer'[u] = layer[u]
                                     /\ vm'[u] = vm[u] /\ ec_configure'[u] = ec_configure[u],
           OptionsOf(t)'
    PROVE  OptionsInv'
<1>1. OptionTypeInv'
  BY DEF OptionsInv, OptionTypeInv
<1>2. ASSUME NEW u \in Thread, u # t PROVE OptionsOf(u)'
  BY <1>2 DEF OptionsInv, OptionsOf
<1> QED
  BY <1>1, <1>2 DEF OptionsInv

(* What is left and what was passed change together.                       *)
LEMMA OptionsPreserved ==
    ASSUME TypeInv, ProgressInv, OptionsInv, [Next]_vars
    PROVE  OptionsInv'
<1> USE Distinct, LookupType DEF TypeInv, CallTypeInv, VMTypeInv, Layer,
      Enter, Goto, Fail, Store, locals, args, held, codes, statics, linker, vms
<1>1. ASSUME NEW t \in Thread, Step(t) PROVE OptionsInv'
  <2>1. CASE ResetAndCheck(t)
    <3>1. UNCHANGED <<options, passed, config, op>>
      BY <2>1 DEF ResetAndCheck
    <3>2. \A u \in Thread : u # t => /\ pc'[u] = pc[u] /\ layer'[u] = layer[u]
                                    /\ vm'[u] = vm[u] /\ ec_configure'[u] = ec_configure[u]
      BY <2>1 DEF ResetAndCheck
    <3>3. OptionsOf(t)'
      BY <2>1 DEF ResetAndCheck, OptionsInv, OptionTypeInv, OptionsOf, ProgressInv, LayerOf, CodesOf, HeldBy, Code
    <3> QED
      BY <3>1, <3>2, <3>3, OptionsUntouched
  <2>2. CASE Open(t)
    <3>1. UNCHANGED <<options, passed, config, op>>
      BY <2>2 DEF Open
    <3>2. \A u \in Thread : u # t => /\ pc'[u] = pc[u] /\ layer'[u] = layer[u]
                                    /\ vm'[u] = vm[u] /\ ec_configure'[u] = ec_configure[u]
      BY <2>2 DEF Open
    <3>3. OptionsOf(t)'
      BY <2>2 DEF Open, OptionsInv, OptionTypeInv, OptionsOf, ProgressInv, LayerOf, CodesOf, HeldBy, Code
    <3> QED
      BY <3>1, <3>2, <3>3, OptionsUntouched
  <2>3. CASE FindSymbol(t)
    <3>1. UNCHANGED <<options, passed, config, op>>
      BY <2>3 DEF FindSymbol
    <3>2. \A u \in Thread : u # t => /\ pc'[u] = pc[u] /\ layer'[u] = layer[u]
                                    /\ vm'[u] = vm[u] /\ ec_configure'[u] = ec_configure[u]
      BY <2>3 DEF FindSymbol
    <3>3. OptionsOf(t)'
      BY <2>3 DEF FindSymbol, OptionsInv, OptionTypeInv, OptionsOf, ProgressInv, LayerOf, CodesOf, HeldBy, Code
    <3> QED
      BY <3>1, <3>2, <3>3, OptionsUntouched
  <2>4. CASE ExitLoad(t)
    <3>1. UNCHANGED <<options, passed, config, op>>
      BY <2>4 DEF ExitLoad
    <3>2. \A u \in Thread : u # t => /\ pc'[u] = pc[u] /\ layer'[u] = layer[u]
                                    /\ vm'[u] = vm[u] /\ ec_configure'[u] = ec_configure[u]
      BY <2>4 DEF ExitLoad
    <3>3. OptionsOf(t)'
      BY <2>4 DEF ExitLoad, OptionsInv, OptionTypeInv, OptionsOf, ProgressInv, LayerOf, CodesOf, HeldBy, Code
    <3> QED
      BY <3>1, <3>2, <3>3, OptionsUntouched
  <2>5. CASE Create(t)
    <3>1. UNCHANGED <<options, passed, config, op>>
      BY <2>5 DEF Create
    <3>2. \A u \in Thread : u # t => /\ pc'[u] = pc[u] /\ layer'[u] = layer[u]
                                    /\ vm'[u] = vm[u] /\ ec_configure'[u] = ec_configure[u]
      BY <2>5 DEF Create
    <3>3. OptionsOf(t)'
      BY <2>5 DEF Create, OptionsInv, OptionTypeInv, OptionsOf, ProgressInv, LayerOf, CodesOf, HeldBy, Code
    <3> QED
      BY <3>1, <3>2, <3>3, OptionsUntouched
  <2>6. CASE CheckAbi(t)
    <3>1. UNCHANGED <<options, passed, config, op>>
      BY <2>6 DEF CheckAbi
    <3>2. \A u \in Thread : u # t => /\ pc'[u] = pc[u] /\ layer'[u] = layer[u]
                                    /\ vm'[u] = vm[u] /\ ec_configure'[u] = ec_configure[u]
      BY <2>6 DEF CheckAbi
    <3>3. OptionsOf(t)'
      BY <2>6 DEF CheckAbi, OptionsInv, OptionTypeInv, OptionsOf, ProgressInv, LayerOf, CodesOf, HeldBy, Code
    <3> QED
      BY <3>1, <3>2, <3>3, OptionsUntouched
  <2>7. CASE DestroyMismatched(t)
    <3>1. UNCHANGED <<options, passed, config, op>>
      BY <2>7 DEF DestroyMismatched, Destroy
    <3>2. \A u \in Thread : u # t => /\ pc'[u] = pc[u] /\ layer'[u] = layer[u]
                                    /\ vm'[u] = vm[u] /\ ec_configure'[u] = ec_configure[u]
      BY <2>7 DEF DestroyMismatched, Destroy
    <3>3. OptionsOf(t)'
      BY <2>7 DEF DestroyMismatched, Destroy, OptionsInv, OptionTypeInv, OptionsOf, ProgressInv, LayerOf, CodesOf, HeldBy, Code
    <3> QED
      BY <3>1, <3>2, <3>3, OptionsUntouched
  <2>8. CASE ExitCreate(t)
    <3>1. UNCHANGED <<options, passed, config, op>>
      BY <2>8 DEF ExitCreate
    <3>2. \A u \in Thread : u # t => /\ pc'[u] = pc[u] /\ layer'[u] = layer[u]
                                    /\ vm'[u] = vm[u] /\ ec_configure'[u] = ec_configure[u]
      BY <2>8 DEF ExitCreate
    <3>3. OptionsOf(t)'
      BY <2>8 DEF ExitCreate, OptionsInv, OptionTypeInv, OptionsOf, ProgressInv, LayerOf, CodesOf, HeldBy, Code
    <3> QED
      BY <3>1, <3>2, <3>3, OptionsUntouched
  <2>9. CASE CopyConfig(t)
    <3>1. CASE pc' = [pc EXCEPT ![t] = "format"]
      <4>1. UNCHANGED <<options, passed, config, op, layer, vm>>
        BY <2>9, <3>1 DEF CopyConfig
      <4>2. \A u \in Thread : u # t => pc'[u] = pc[u] /\ ec_configure'[u] = ec_configure[u]
        BY <2>9 DEF CopyConfig
      <4>3. OptionsOf(t)'
        BY <2>9, <3>1, <4>1 DEF CopyConfig, OptionsInv, OptionsOf, ProgressInv, LayerOf, HeldBy
      <4> QED
        BY <4>1, <4>2, <4>3, OptionsUntouched
    <3>2. CASE pc' = [pc EXCEPT ![t] = "reset"]
      <4>1. /\ options' = [options EXCEPT ![t] = get_token(config[t], Comma).rest]
            /\ UNCHANGED <<passed, config, op, vm, ec_configure>>
            /\ layer' = [layer EXCEPT ![t] = "load"]
        BY <2>9, <3>2 DEF CopyConfig
      <4>2. config[t] \in Seq(Character) /\ passed[t] = << >>
        BY <2>9, ConfigType DEF CopyConfig, OptionsInv, OptionsOf, ProgressInv, LayerOf
      <4>3. SplitAt(config[t], << >>, options'[t]) /\ options'[t] \in Seq(Character)
        BY <4>1, <4>2, FirstSplit, TokenTypes DEF OptionsInv, OptionTypeInv
      <4>4. OptionTypeInv'
        BY <4>1, <4>3 DEF OptionsInv, OptionTypeInv
      <4>5. OptionsOf(t)'
        BY <2>9, <3>2, <4>1, <4>2, <4>3 DEF CopyConfig, OptionsOf, ProgressInv, LayerOf
      <4>6. ASSUME NEW u \in Thread, u # t PROVE OptionsOf(u)'
        BY <3>2, <4>1, <4>6 DEF OptionsInv, OptionTypeInv, OptionsOf
      <4> QED
        BY <4>4, <4>5, <4>6 DEF OptionsInv
    <3> QED
      BY <2>9, <3>1, <3>2 DEF CopyConfig
  <2>10. CASE OptionsDone(t)
    <3>1. UNCHANGED <<options, passed, config, op>>
      BY <2>10 DEF OptionsDone
    <3>2. \A u \in Thread : u # t => /\ pc'[u] = pc[u] /\ layer'[u] = layer[u]
                                    /\ vm'[u] = vm[u] /\ ec_configure'[u] = ec_configure[u]
      BY <2>10 DEF OptionsDone
    <3>3. OptionsOf(t)'
      BY <2>10 DEF OptionsDone, OptionsInv, OptionTypeInv, OptionsOf, ProgressInv, LayerOf, CodesOf, HeldBy, Code
    <3> QED
      BY <3>1, <3>2, <3>3, OptionsUntouched
  <2>11. CASE OptionsUnsupported(t)
    <3>1. UNCHANGED <<options, passed, config, op>>
      BY <2>11 DEF OptionsUnsupported
    <3>2. \A u \in Thread : u # t => /\ pc'[u] = pc[u] /\ layer'[u] = layer[u]
                                    /\ vm'[u] = vm[u] /\ ec_configure'[u] = ec_configure[u]
      BY <2>11 DEF OptionsUnsupported
    <3>3. OptionsOf(t)'
      BY <2>11 DEF OptionsUnsupported, OptionsInv, OptionTypeInv, OptionsOf, ProgressInv, LayerOf, CodesOf, HeldBy, Code
    <3> QED
      BY <3>1, <3>2, <3>3, OptionsUntouched
  <2>12. CASE PassOption(t)
    <3> DEFINE token == get_token(options[t], Comma).token
               left == get_token(options[t], Comma).rest
               o == [name |-> get_token(token, "=").token, value |-> get_token(token, "=").rest]
    <3>1. /\ pc[t] = "options" /\ op[t] = "configure" /\ layer[t] = "configure"
          /\ vm[t] # NULL /\ Len(options[t]) # 0
      BY <2>12 DEF PassOption, ProgressInv, LayerOf, HeldBy
    <3>2. /\ passed[t] \in Seq(Option) /\ options[t] \in Seq(Character)
          /\ config[t] \in Config /\ config[t] \in Seq(Character)
          /\ SplitAt(config[t], passed[t], options[t])
      BY <3>1, ConfigType DEF OptionsInv, OptionTypeInv, OptionsOf
    <3>3. /\ left \in Seq(Character) /\ Append(passed[t], o) \in Seq(Option)
          /\ SplitAt(config[t], Append(passed[t], o), left)
      BY <3>1, <3>2, NextSplit
    <3>4. /\ passed' = [passed EXCEPT ![t] = Append(passed[t], o)]
          /\ options' = [options EXCEPT ![t] = left]
          /\ UNCHANGED <<config, op, layer, vm>>
      BY <2>12 DEF PassOption
    <3>5. /\ pc'[t] \in {"options", "format"}
          /\ \A u \in Thread : u # t => pc'[u] = pc[u] /\ ec_configure'[u] = ec_configure[u]
      BY <2>12 DEF PassOption
    <3> HIDE DEF left, o
    <3>6. OptionTypeInv'
      BY <3>3, <3>4 DEF OptionsInv, OptionTypeInv
    <3>7. OptionsOf(t)'
      <4>1. passed'[t] = Append(passed[t], o) /\ options'[t] = left
        BY <3>4 DEF OptionsInv, OptionTypeInv
      <4> QED
        BY <3>1, <3>2, <3>3, <3>4, <3>5, <4>1 DEF OptionsOf
    <3>8. ASSUME NEW u \in Thread, u # t PROVE OptionsOf(u)'
      <4>1. passed'[u] = passed[u] /\ options'[u] = options[u]
        BY <3>4, <3>8 DEF OptionsInv, OptionTypeInv
      <4>2. OptionsOf(u)
        BY DEF OptionsInv
      <4> QED
        BY <3>4, <3>5, <3>8, <4>1, <4>2 DEF OptionsOf
    <3> QED
      BY <3>6, <3>7, <3>8 DEF OptionsInv
  <2>13. CASE ExitConfigure(t)
    <3>1. UNCHANGED <<options, passed, config, op>>
      BY <2>13 DEF ExitConfigure, Destroy
    <3>2. \A u \in Thread : u # t => /\ pc'[u] = pc[u] /\ layer'[u] = layer[u]
                                    /\ vm'[u] = vm[u] /\ ec_configure'[u] = ec_configure[u]
      BY <2>13 DEF ExitConfigure, Destroy
    <3>3. OptionsOf(t)'
      BY <2>13 DEF ExitConfigure, Destroy, OptionsInv, OptionTypeInv, OptionsOf, ProgressInv, LayerOf, CodesOf, HeldBy, Code
    <3> QED
      BY <3>1, <3>2, <3>3, OptionsUntouched
  <2>14. CASE FormatError(t)
    <3>1. UNCHANGED <<options, passed, config, op>>
      BY <2>14 DEF FormatError
    <3>2. \A u \in Thread : u # t => /\ pc'[u] = pc[u] /\ layer'[u] = layer[u]
                                    /\ vm'[u] = vm[u] /\ ec_configure'[u] = ec_configure[u]
      BY <2>14 DEF FormatError
    <3>3. OptionsOf(t)'
      BY <2>14 DEF FormatError, OptionsInv, OptionTypeInv, OptionsOf, ProgressInv, LayerOf, CodesOf, HeldBy, Code
    <3> QED
      BY <3>1, <3>2, <3>3, OptionsUntouched
  <2>15. CASE PublishError(t)
    <3>1. UNCHANGED <<options, passed, config, op>>
      BY <2>15 DEF PublishError
    <3>2. \A u \in Thread : u # t => /\ pc'[u] = pc[u] /\ layer'[u] = layer[u]
                                    /\ vm'[u] = vm[u] /\ ec_configure'[u] = ec_configure[u]
      BY <2>15 DEF PublishError
    <3>3. OptionsOf(t)'
      BY <2>15 DEF PublishError, OptionsInv, OptionTypeInv, OptionsOf, ProgressInv, LayerOf, CodesOf, HeldBy, Code
    <3> QED
      BY <3>1, <3>2, <3>3, OptionsUntouched
  <2>16. CASE TakeResult(t)
    <3>1. /\ options' = [options EXCEPT ![t] = << >>] /\ passed' = [passed EXCEPT ![t] = << >>]
          /\ config' = [config EXCEPT ![t] = << >>] /\ op' = [op EXCEPT ![t] = "load"]
          /\ layer' = [layer EXCEPT ![t] = "load"] /\ pc' = [pc EXCEPT ![t] = "idle"]
          /\ vm' = [vm EXCEPT ![t] = NULL]
          /\ ec_configure' = [ec_configure EXCEPT ![t] = "SUCCESS"]
      BY <2>16 DEF TakeResult
    <3>2. OptionTypeInv'
      BY <3>1 DEF OptionsInv, OptionTypeInv
    <3>3. OptionsOf(t)'
      BY <3>1 DEF OptionsInv, OptionTypeInv, OptionsOf
    <3>4. ASSUME NEW u \in Thread, u # t PROVE OptionsOf(u)'
      BY <3>1, <3>4 DEF OptionsInv, OptionTypeInv, OptionsOf
    <3> QED
      BY <3>2, <3>3, <3>4 DEF OptionsInv
  <2> QED
    BY <1>1, <2>1, <2>2, <2>3, <2>4, <2>5, <2>6, <2>7, <2>8, <2>9,
       <2>10, <2>11, <2>12, <2>13, <2>14, <2>15, <2>16
       DEF Step, LoadStep, CreateStep, ConfigureStep
<1>2. ASSUME NEW t \in Thread, CallerStep(t) PROVE OptionsInv'
  <2>1. CASE Beginning(t)
    <3>1. /\ options' = [options EXCEPT ![t] = << >>] /\ passed' = [passed EXCEPT ![t] = << >>]
          /\ vm' = [vm EXCEPT ![t] = NULL] /\ ec_configure' = [ec_configure EXCEPT ![t] = "SUCCESS"]
      BY <2>1 DEF Beginning, Begin
    <3>2. \E operation \in Layer, cfg \in Config \cup {<< >>} :
             /\ op' = [op EXCEPT ![t] = operation] /\ config' = [config EXCEPT ![t] = cfg]
             /\ \/ /\ operation # "configure"
                   /\ pc' = [pc EXCEPT ![t] = "reset"] /\ layer' = [layer EXCEPT ![t] = "load"]
                \/ /\ cfg \in Config
                   /\ pc' = [pc EXCEPT ![t] = "copy"] /\ layer' = [layer EXCEPT ![t] = "configure"]
      BY <2>1 DEF Beginning, Begin
    <3>3. OptionTypeInv'
      BY <3>1 DEF OptionsInv, OptionTypeInv
    <3>4. ASSUME NEW u \in Thread, u # t PROVE OptionsOf(u)'
      BY <3>1, <3>2, <3>4 DEF OptionsInv, OptionTypeInv, OptionsOf
    <3>5. OptionsOf(t)'
      BY <3>1, <3>2 DEF OptionsInv, OptionTypeInv, OptionsOf
    <3> QED
      BY <3>3, <3>4, <3>5 DEF OptionsInv
  <2>2. CASE qrvmc_last_error_msg(t)
    BY <2>2 DEF qrvmc_last_error_msg, OptionsInv, OptionTypeInv, OptionsOf
  <2> QED
    BY <1>2, <2>1, <2>2, CallerCases
<1>3. ASSUME NEW i \in Instance, qrvmc_destroy(i) PROVE OptionsInv'
  BY <1>3 DEF qrvmc_destroy, OptionsInv, OptionTypeInv, OptionsOf
<1>4. CASE UNCHANGED vars
  BY <1>4 DEF vars, OptionsInv, OptionTypeInv, OptionsOf
<1> QED
  BY <1>1, <1>2, <1>3, <1>4 DEF Next

------------------------------------------------------------------------------
Inv == /\ TypeInv /\ ProgressInv /\ ResultMatchesCode /\ HolderInv
       /\ CodeInv /\ OptionsInv /\ MessageInv /\ CountInv

LEMMA Invariant == Spec => []Inv
<1>1. Init => Inv
  BY InitialState DEF Inv
<1>2. Inv /\ [Next]_vars => Inv'
  BY TypesPreserved, ProgressPreserved, ResultPreserved, HolderPreserved, CodePreserved,
     OptionsPreserved, MessagePreserved, CountsPreserved DEF Inv
<1> QED
  BY <1>1, <1>2, PTL DEF Spec

(* The types, among them that no library is closed more often than it was  *)
(* opened, however the calls of the threads interleave.                    *)
THEOREM TypeCorrect == Spec => []TypeOK
<1>1. ASSUME Inv PROVE TypeOK
  <2>1. ASSUME NEW f \in File PROVE handles[f] \in Nat
    <3>1. /\ handles[f] \in Int /\ handles[f] >= Cardinality(Opened(f))
          /\ Cardinality(Opened(f)) \in Nat
      BY <1>1, FS_CardinalityType DEF Inv, CodeInv, CountInv
    <3> QED
      BY <3>1
  <2>2. handles \in [File -> Nat]
    BY <1>1, <2>1 DEF Inv, CodeInv
  <2>3. functions \subseteq File
    BY <1>1 DEF Inv, CodeInv, Kept
  <2> QED
    BY <1>1, <2>2, <2>3 DEF Inv, TypeInv, CallTypeInv, VMTypeInv, OptionsInv, OptionTypeInv,
       MessageInv, CountInv, CreateFn, TypeOK
<1> QED
  BY <1>1, Invariant, PTL

(* qrvmc_load() and the two functions on top of it return something        *)
(* exactly if they signal QRVMC_LOADER_SUCCESS: what the caller finds was  *)
(* stored last by the function that failed, although each has an error     *)
(* code of its own and leaves without storing it when the one below fails. *)
THEOREM ResultsMatchCodes == Spec => []ResultMatchesCode
<1>1. Inv => ResultMatchesCode
  BY DEF Inv
<1> QED
  BY <1>1, Invariant, PTL

(* Every instance that is alive has one holder, and qrvmc_destroy() of the *)
(* loader and of the callers ends each once.                               *)
THEOREM InstancesHaveOneHolder == Spec => []InstanceHasOneHolder
<1>1. Inv => InstanceHasOneHolder
  BY DEF Inv, HolderInv
<1> QED
  BY <1>1, Invariant, PTL

(* DLL_CLOSE() in one thread never unloads code another thread, or a       *)
(* caller, can still run.                                                  *)
THEOREM UsedCodeStaysLoaded == Spec => []CodeStaysLoaded
<1>1. Inv => CodeStaysLoaded
  BY DEF Inv, CodeInv, Kept, CodeStaysLoaded
<1> QED
  BY <1>1, Invariant, PTL

(* Where get_token() slides its pointer in a configuration of any length,  *)
(* with empty options, several "=" and a comma at the end, the k-th option *)
(* passed to the instance stands between the k-th comma and the next.      *)
THEOREM OptionsArriveInOrder == Spec => []OptionsInOrder
<1>1. Inv => OptionsInOrder
  <2> SUFFICES ASSUME Inv, NEW t \in Thread, pc[t] # "idle", op[t] = "configure", vm[t] # NULL
               PROVE  /\ \A k \in DOMAIN passed[t] : Specified(config[t], k, passed[t][k])
                      /\ pc[t] = "returned" =>
                            Len(passed[t]) = Cardinality(Commas(config[t], Len(config[t]) - 1))
    BY DEF OptionsInOrder
  <2>1. SplitAt(config[t], passed[t], options[t]) /\ (pc[t] = "returned" => Len(options[t]) = 0)
    BY DEF Inv, OptionsInv, OptionsOf
  <2> QED
    BY <2>1 DEF SplitAt
<1> QED
  BY <1>1, Invariant, PTL

(* What set_error() leaves after a call without overlap is the error of    *)
(* this call, whatever calls that did overlap left before.                 *)
THEOREM MessagesDescribeLastError == Spec => []MessageDescribesLastError
<1>1. Inv => MessageDescribesLastError
  BY DEF Inv, MessageInv, MessageOf, AboutCode, MessageDescribesLastError
<1> QED
  BY <1>1, Invariant, PTL

(* qrvmc_load() builds the name that loader.h describes, for every path, *)
(* and the lookup takes the function with this name when there is one.     *)
THEOREM CreateFunctionsAreDocumented == Spec => []CreateFunctionAsDocumented
<1>1. Seq(STRING) \subseteq Seq(Character)
  BY SeqMonotonic DEF Character
<1>2. NamesAsDocumented
  BY <1>1, BaseNameIsDocumented, LongNamesAreEmpty, LoaderAssumption DEF NamesAsDocumented
<1>3. ASSUME NEW f \in File, Lookup(f) # NULL
      PROVE  /\ Lookup(f) \in Exports[f]
             /\ Lookup(f) = Unprefixed /\ ~LongBaseName(f) =>
                  ~\E e \in Exports[f] : e # Unprefixed /\ DocumentedBaseName(f, e[2])
  <2>1. Lookup(f) \in Exports[f]
    BY <1>3, Zenon DEF Lookup
  <2>2. ASSUME Lookup(f) = Unprefixed, ~LongBaseName(f),
               NEW e \in Exports[f], e # Unprefixed, DocumentedBaseName(f, e[2])
        PROVE  FALSE
    <3>1. f \in Seq(STRING) /\ e = Prefixed(e[2]) /\ e[2] \in Seq(STRING)
      BY <2>2, LoaderAssumption
    <3>2. e[2] = base_name(f)
      BY <1>1, <2>2, <3>1, BaseNameIsDocumented, DocumentedOnce
    <3>3. Prefixed(base_name(f)) \in Exports[f]
      BY <3>1, <3>2
    <3>4. Lookup(f) = e
      BY <3>1, <3>2, <3>3, Zenon DEF Lookup
    <3> QED
      BY <2>2, <3>4
  <2> QED
    BY <2>1, <2>2
<1>4. CodeInv => CreateFunctionAsDocumented
  BY <1>3, <1>2 DEF CodeInv, Kept, CreateFunctionAsDocumented
<1> QED
  BY <1>4, Invariant, PTL DEF Inv
==============================================================================
