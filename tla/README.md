# A TLA+ development for QRVMC

QRVMC is the C and C++ interface between a client (the *Host*) and a virtual
machine (the *VM*), with the code around it: a loader of VM modules, C++
wrappers, a mocked host for tests, two example VMs, a hex codec and tools.  This
directory holds TLA+ models of that code, the TLC configurations that check them
on small instances, and proofs of the main results for all sizes.  Paths below
are relative to the repository.

## 1. The system

| Component | Code | State | Operations |
|---|---|---|---|
| Storage status | `include/qrvmc/mocked_host.hpp` 167-310, `docs/QRVM_Storage_Change_Status.md` | original and current value of a slot | classify a write into nine statuses |
| MockedHost | `include/qrvmc/mocked_host.hpp` | accounts, storage, records of accesses, calls, logs, block hashes; private copies of call inputs | the Host methods; its users also write the public fields |
| Execution results | `include/qrvmc/qrvmc.h` 390-475, `helpers.h`, class `Result` of `qrvmc.hpp` | output pointer, release function | make, move, assign, destroy, release, cross between C and C++ |
| Loader | `lib/loader/loader.c`, `loader.h` | static message pointer and buffer; libraries open in the process | load, load and create, load and configure, last error message |
| Example VM | `examples/example_vm/example_vm.cpp`, `lib/instructions/instruction_metrics.c` | option, pc, gas, stack of 1024 items, memory of 1024 bytes | set_option, one case per instruction |
| Precompiles VM | `examples/example_precompiles_vm/...cpp` | none (a static instance) | dispatch on the code address |
| Hex codec | `include/qrvmc/hex.hpp`, `filter_iterator.hpp` | loop state | encode; decode through five entry points |
| VM handle | class `VM` of `include/qrvmc/qrvmc.hpp`, `helpers.h` | an instance pointer | construct, move, assign, destroy, execute |
| Byte types | `address`, `bytes32` of `qrvmc.hpp` | an array of bytes | convert, compare, test for zero |
| Host adaptors | `qrvmc.hpp` 505-861 | a pointer to the interface table and one to the context | forward each Host method through C |
| Example host and client | `examples/example_host.cpp`, `examples/example.c` | two nested maps; a VM, a Host context, a result | the Host methods; load, execute, print, release |
| Tooling, command line tool | `lib/tooling/run.cpp`, `tools/qrvmc/main.cpp` | a VM handle, a MockedHost, buffers of code | parse, load, create, execute, benchmark |
| vmtester | `tools/vmtester/` | arguments; a static VM handle | parse, load, hand over, run tests |

The parts meet in these places.  The client calls `execute` of a VM and gets a
result that it must release once.  The VM calls back into the Host: storage
writes return a status by which the VM charges gas, calls return results whose
ownership passes from the `Result` of the host through a raw C struct into a
`Result` of the VM.  The loader produces VM instances for any caller, keeps no
handle to a library it opened successfully, and reports errors in a static
buffer.  The programs wrap these instances in VM handles, which destroy them on
every way out, and run them on a Host.

What is hard here, and hard to reach with unit tests:

- the status of a storage write depends on the whole history of the slot, and
  the code relies on some combinations of clauses never occurring;
- ownership of outputs and of VM instances across moves, failures half way and
  two languages;
- pointers and records that are right until a cap is reached or a vector grows;
- two threads in the loader, which closes a library on one of its error paths;
- 32-bit sums, fixed arrays, data read behind the end of the code;
- an interface table whose functions are given by position, and maps whose order
  is a nest of comparisons of words;
- programs that read again what they checked before: a file, a Host that an
  execution has changed, a buffer whose owner may be gone;
- loops that must end although two places move the same counter or pointer.

`PROJECT.json` lists each such place under `hazards`, with the properties that
watch it.

### What correct means, component by component

- Storage status: the statuses a slot is given add up.  Whatever the sequence of
  writes, gas less refund depends on the original and current value alone, and no
  refund is taken back that was not given.
- MockedHost: below the cap an account is warm exactly if it was accessed, and a
  slot stays warm; recorded calls can be read later; the code copied agrees with
  the code size.
- Results: every allocated output has one holder that will release it, and is
  released once, after its last reader.
- Loader: the caller finds the error code of the function that failed, no instance
  leaks or is destroyed twice, no code is unloaded under a live instance, the
  options of a configuration arrive in order, the message is about the last error,
  and every call returns.
- VM handles: an instance is alive exactly while one handle or one raw pointer
  has it, and is destroyed once.
- A Host: its answers are those `qrvmc.h` describes, whatever calls came before,
  and only a write changes what a VM can observe.
- Programs: a VM is used while it is alive and destroyed on every exit; exit code
  0 of a run means that it was carried out; the code executed is the code given; each run ends.
- VMs: the result of every execution is valid for the gas of its message, the
  interpreter stays in its arrays, and execution ends.
- Hex codec: each entry point accepts exactly its language, decoding inverts
  encoding, no write outside the result.

## 2. Modules

| Module | Models | Notes |
|---|---|---|
| `StorageStatus` | the clause tree of `set_storage` with its assertions, and the table of the document | operators only |
| `MockedHost` | class `MockedHost` | extends `StorageStatus`; one action per Host method |
| `StorageGas` | a VM that charges by status, composed with `MockedHost` | the charge table is external |
| `ResultOwnership` | `qrvmc_result`, `qrvmc::Result`, `qrvmc_make_result`, `MockedHost::call` as a source of results | |
| `VMHandle` | class `VM`, `qrvmc_create_...`, `qrvmc_destroy` | used by every module with a handle |
| `CppApi` | a client of the C++ API | composes `VMHandle` and `ResultOwnership` |
| `Loader` | `loader.c`, and the callers' `qrvmc_destroy` | per-thread program counter |
| `VMContract` | what `qrvmc.h` promises of `qrvmc_execute_fn` | abstract specification |
| `ExampleVM` | the example VM | implements `VMContract` |
| `ExamplePrecompilesVM` | the precompiles VM, with its proof | implements `VMContract` |
| `HostContract` | what `qrvmc.h` promises a VM of any Host | abstract specification |
| `ByteTypes` | `address` and `bytes32`: conversions, comparisons | operators only |
| `ExampleHost` | `ExampleHost`, the interface table and `HostContext` | extends `ByteTypes`; implements `HostContract` |
| `ExampleProgram` | `example.c` | composes `ExampleHost` with the client and any VM |
| `QrvmcTool` | `main.cpp` of the command line tool, `run.cpp` | extends `VMHandle` |
| `VmTester` | the runner of vmtester | extends `VMHandle` |
| `Tools` | a run of either program | composes `QrvmcTool` and `VmTester` |
| `HexCodec` | the codec | checked against the encoder and a declarative language |
| `CppApiProofs`, `LoaderProofs`, `ExampleVMProofs`, `HexCodecProofs`, `ExampleProgramProofs`, `ToolsProofs` | proofs about the module of that name, and about those it composes | |
| `MockedHostProofs` | proofs about `StorageStatus`, `MockedHost` and `StorageGas` | |
| `MC*` | constants for TLC | |

How state and actions correspond to the code:

**StorageStatus.**  `TriggeredClauses` is the nest of conditions that sets
`triggered_clauses` in `set_storage`, `ClauseStatus` the switch over it,
`ClauseAssertsHold` the assertions inside the clauses; a combination outside the
switch is the outcome `ASSERT_FAILED`.  `StatusOf` includes the early cases of a
clean slot.

**MockedHost.**  `accounts`, `profile` and `storage` are the fields of
`MockedAccount`; the records are sequences.  A pointer into the private copies
of call inputs is an index with the *generation* of the vector: a reallocation
starts a new generation, and a pointer to an input small enough to live inside
its `std::string` (the constant `Inline`) is valid in its own generation only.
`touched` is a history variable: the addresses passed to the recording methods.
Each of the methods `account_exists`, `get_storage`, `get_balance`,
`get_code_size`, `get_code_hash`, `copy_code`, `set_storage`, `access_account`,
`access_storage`, `call`, `get_block_hash`, `emit_log` is an action that
includes its recording.  `get_tx_context` and the value of a block hash only
return fields.  `CommitSlot` and `ClearRecordedCalls` are what users of the mock
do to its public fields (tests commit a slot; a public vector can be cleared).

**ResultOwnership.**  A cell is a `Result` object or a raw `qrvmc_result`: alive,
its data, whether `release` is set, and whether it has been moved from or
released.  Buffers are allocated once; `releases` counts the calls of the release
function.  `make_result` may fail to allocate.

**VMHandle and CppApi.**  `objects` are the `VM` objects alive, `m_instance` their
field, `raw` the instances whose C pointer a caller has.  The move assignment runs
the destructor of its target first, so assigning a handle to itself destroys the
instance and leaves a null handle; that is modelled and is one of the cases
`InstanceHasOneOwner` covers.  The constructor with options passes them to an
instance that is there, ignores the answers and owns it just the same.  `VM_execute` is one more way to call
`qrvmc_make_result`, through a handle that is not null.

**Loader.**  A call runs in steps between accesses to shared state: copy of the
configuration, reset and checks, `dlopen`, search of the symbol (closing the
library if there is none), create, check of the ABI, one step per option, and the
two halves of `set_error` (format into the buffer, publish the pointer).  `layer` is
the function that is running: `qrvmc_load_and_configure` calls
`qrvmc_load_and_create`, which calls `qrvmc_load`.  Each has its own local `ec` and
its own exit, where it stores it through the caller's pointer; `ec` is that of the
lower two, whose lifetimes do not overlap, and `ec_configure` that of the upper one,
which is alive below them.  `ExitLoad` and `ExitCreate` contain the early returns of
the function above: what was stored last stays.  The threads in `Unasking` pass a
null pointer.  File names and configurations are sequences of characters:
`base_name` is the construction of the symbol name, with the copy into a fixed buffer
whose failure the code does not look at, and `get_token` takes the path, the
options, and the name of each option off the copied configuration, sliding the
pointer `options` behind the delimiter or to the end.
A message is the error it is about.  `solo` is a history variable: no other call
overlapped this one.  The dynamic linker counts references and its answers are
free, as are the answers of the VM module; what a library exports is given.

**ExampleHost and ExampleProgram.**  A byte has `Base` values and a word `W` bytes,
and a type keeps its number of words, so the comparisons run over the same nest of
words as the code.  A `std::map` is a set of entries searched by `operator<` alone,
so a wrong order loses entries.  A call goes through the table (`Fields` in the
order of the C struct, `get_interface` in the order of the initialiser), the
adaptor, and the method.  The VM calls any method in any order and takes the
answer before the next call.  `ExampleProgram` adds the client: load or link,
context, execution, printing, and the release of what it holds on each exit.

**QrvmcTool and VmTester.**  `pc` and `tester_pc` are the places in `main()`, in
the function it calls, and on the way out, where the destructors run.  The tool's
VM is any deterministic one: its outcome for a code and a state of the Host is
chosen when it first occurs and remembered.  `buffers` are the owners of code and
`exec_code` names one of them, so a view of a buffer that is gone is visible.  The
file of `@FILE` may be changed by another process at any time.  A division by a
probe of zero ticks is the phase `undefined`.

**ExampleVM.**  The code of the VM has no jumps, so it is chosen as it is read.
A stack item is the number it encodes; the memory is its size plus the regions
touched.  Leaving an array is undefined behaviour: the model stops there in the
phase `undefined`.  History variables record what a static check by the metrics
table would say (`height`, `disciplined`), whether a sum of offset and size
wrapped, whether the output of a call was dropped, and whether a PUSH read behind
the code.  Limits and widths are constants, so that small ones show the edges.

**HexCodec.**  The loop of `from_hex` runs one character per step.  The five entry
points differ in the prefix they remove, the iterator, and where bytes go.  The
properties speak of the argument: `Readings` are the parts of it that are left when
the entry point's own prefix is taken off, and `Digits` what is left of one behind the
`0x` that the decoder itself passes over.  So `0x0x` is an argument that
`from_hex<T>` accepts, with no digits, and `from_hex` does not.

Abstractions common to all: addresses, keys, values, payloads and names are
members of small sets; text of messages, logging and formatting are left out.
Definitions marked "Mistake" are plausible wrong versions of the definition that
follows them; they are not part of any specification and serve to test the
properties (section 6).

## 3. Runs

Each run answers one question.  Deadlock is checked except where a run says so.

| Run | Configuration | Shows |
|---|---|---|
| `storage_gas` | `MCStorageGas.cfg` | writes, accesses and commits of two slots over four values, with queries, calls, logs and block hashes in between; the values are zero and three others, enough for original, current and new to differ; charges are path independent, refunds stay covered, statuses are the documented ones, warm slots stay warm |
| `host` | `MCMockedHost.cfg` | the Host methods on an account and a precompile, with records of two accesses and two calls, so that both caps are reached and exceeded; calls with inline, heap and no input, a clear of the record, `copy_code` at each boundary of offset and size |
| `host_access_doc` | `MCMockedHostAccessDoc.cfg` | finding 1 below |
| `cpp_api` | `MCCppApi.cfg` | results and VM handles made, moved, assigned (handles also to themselves), wrapped, unwrapped and destroyed in every order, with executions through the handles: one owner and one release of every output and every instance |
| `loader` | `MCLoader.cfg` | two threads, every interleaving of two calls and every failure in each of the three layers, one thread without a pointer for the error code; configurations with empty and repeated options, several `=`, a comma at the end, no path: codes, holders, loaded libraries, options, messages, the documented create function, and that every call returns |
| `example_vm` | `MCExampleVM.cfg` | codes of up to nine bytes of every instruction, CALL included, with gas that runs out in the middle, offsets and sizes below, at and beyond the memory and the width of the sum; memory of 4 bytes, numbers modulo 8 |
| `example_vm_memory` | `MCExampleVMMemory.cfg` | finding 2 |
| `precompiles` | `MCExamplePrecompilesVM.cfg` | every kind of address, gas around the cost, inputs around word boundaries |
| `hex_codec` | `MCHexCodec.cfg` | all inputs of up to five characters through all entry points |
| `hex_padding` | `MCHexCodecPadding.cfg` | finding 3 |
| `example_program` | `MCExampleProgram.cfg` | the example client with every failure of loading, and up to three Host calls of any kind: the Host implements `HostContract`, its maps find what was put in, the printed slot is the one written last, everything is released |
| `tools` | `MCTools.cfg` | the tool with each option alone and with those it interferes with, files that change, VMs that answer differently on a changed Host and take any time; vmtester with every list of up to three arguments |

Why the bounds suffice.  The storage status only compares three values and zero.
A record of two shows first access, second access, full and over-full; no
operation looks at more than the last element and the length.  Three result
objects are enough for a chain of moves and an assignment over a live value, two
handles and two instances for an assignment that destroys one.  Two threads are
enough for every pair of loader steps to meet; what more threads could add is one
more reader of the same two static variables, and the proofs cover any number.
Two calls leave no room for a third after two that overlapped; that its message is its
own is left to the proof.
`PATH_MAX_LENGTH` is 12, long enough for a name with a directory, a prefix and an
extension and for two options, and names and configurations are tried at its
boundary; beside the files that are loaded,
the construction of the symbol name is compared with the documented rules for
every name of up to five characters over the ones it treats differently.  In the
example VM the limits are small enough for code of nine bytes to reach them; that
the results do not depend on the limits is what the proofs show.  Inputs of five
characters contain a prefix, a second prefix, and a byte.  With bytes of one bit
and words of two bytes, addresses and keys differ in each word and in none; three
Host calls are a write, a call in between, and the read that shows it.  Executions
of zero to three ticks against a target of two give no iteration, one, and
several.

Deadlock is not checked where the system stops: undefined behaviour is a final
state of `ExampleVM`, and in `ExampleProgram` and `Tools` the program ends.  The
symmetry sets of `cpp_api` permute names no definition distinguishes, and that
run has no liveness property.

`MaxCalls`, `MaxWrites`, `MaxClears`, `MaxBlockhashes`, `MaxLogs`, `MaxLength`,
`MaxHostCalls`, `MaxTicks` and `Tests` bound the models and not the code; the other bounds are constants of the code.

### Fairness

`Loader!FairSpec` assumes weak fairness of the steps of each thread that is inside
a call: a called C function runs, nothing in it waits, and the external functions
it calls are assumed to return.  `ExampleVM!FairSpec` assumes weak fairness of the
interpreter steps, for the same reason.  Nothing is assumed of the callers: they
may stop calling at any time.  `Tools!FairSpec` assumes weak fairness of the one
process that was started: it runs on, and the loader, the clock, the VM and each
test return.  Nothing is assumed of the process that changes the file.
`EveryCallReturns`, `Terminates` and `ProgramEnds` depend on fairness, all other
properties are safety properties.

## 4. Proofs

The proofs hold for all values of the constants that satisfy the named
assumptions; these are in the module that declares the constants, and TLC
evaluates them in the runs.

| Theorem | Module | Rests on |
|---|---|---|
| `StatusIsChecksumStatus` | `MockedHostProofs` | case analysis of the clauses for any set of values with a zero |
| `PathIndependence`, `RefundIsNonNegative`, `StatusCorrect` | `MockedHostProofs` | `GasInv` and `StatusIsChecksumStatus` |
| `TypeCorrect`, `CopyCodeCorrect` | `MockedHostProofs` | type invariant; no code is as large as the range of `size_t` |
| `AccessStatusCorrect`, `CallInputsCorrect` | `MockedHostProofs` | `AccessInv`, `CallsInv` |
| `WarmSlotsStayWarm` | `MockedHostProofs` | type invariant, one case per method |
| `NeverReleasedTwice`, `UniqueOwner`, `OutputStaysReadable` | `CppApiProofs` | `OwnInv`; they assume that the host's `call_result` has no release function |
| `HandlesOwnInstances`, `HandlesNeverDangle` | `CppApiProofs` | `HandleInv` |
| `ResultsUnaffected`, `ResultsOutliveInstances` | `CppApiProofs` | the composition implements the specification of results, so their theorems carry over |
| `TypeCorrect`, `ResultsMatchCodes`, `InstancesHaveOneHolder`, `UsedCodeStaysLoaded`, `OptionsArriveInOrder`, `MessagesDescribeLastError` | `LoaderProofs` | the parts of `Inv` |
| `CreateFunctionsAreDocumented` | `LoaderProofs` | `Inv`; the construction of the symbol name, for paths of any length (`BaseNameIsDocumented`) |
| `TypeCorrect`, `StackDiscipline`, `MemoryDiscipline`, `OverreadHasNoEffect`, `Refinement` | `ExampleVMProofs` | `VMInv` |
| `Refinement` | `ExamplePrecompilesVM` | types of the message |
| `LanguagesAreExact`, `DecodingInvertsEncoding`, `OutputStaysInside` | `HexCodecProofs` | `CodecInv` and `InputInv`, for inputs of any length, any prefix and any size of array |
| `WordsCompareAsNumbers` | `ExampleProgramProofs` | arithmetic of digits, for any even width of a word and any base of a byte |
| `EntriesAreFound` | `ExampleProgramProofs` | `MapsInv`, `WordsCompareAsNumbers` |
| `ProgramReleasesAll` | `ExampleProgramProofs` | `ProgressInv` |
| `PrintedIsWritten` | `ExampleProgramProofs` | `MapsInv`, `WrittenInv` |
| `HostImplementsContract` | `ExampleProgramProofs` | `MapsInv`: the refinement of `HostContract`, one lemma for each kind of call |
| `InstancesOutliveTheirUse` | `ToolsProofs` | `HandleInv` |
| `ExitCodeIsTrue` | `ToolsProofs` | `ReportInv`, `CodeInv`, `DoneInv` |
| `GivenCodeIsExecuted` | `ToolsProofs` | `HandleInv`, `CodeInv` |
| `WarningsAreJustified` | `ToolsProofs` | `WarningInv` |
| `ParserAsDocumented` | `ToolsProofs` | `ParserInv` |

The inductive invariants, and what they add to the property:

- `AccessInv`: the record holds only touched addresses, and all of them while it is
  not full.  The property speaks of one answer of `access_account`; the invariant
  relates the record to the history.
- `CallsInv`: each recorded pointer refers to an existing copy of its input, made in
  a generation not later than the present one, and the vector has not been
  reallocated while its copies fit the reserve.
- `GasInv`: for each slot the net charge is a function of original and current
  value, and the refund contains what stands for a slot that is now clear.  The
  second part is what makes taking a refund back safe.
- `OwnInv`: a holder with the right to release is alive, unspent and refers to an
  allocated buffer; two holders never share that right; a buffer that was released
  has no holder; the host's own result has no right to give away.
- `HandleInv`: a handle points to a live instance that is not raw, no two handles
  point to the same one, and every live instance is raw or in a handle; what is
  alive or not made yet was not destroyed.  The assignment to itself keeps it: the
  handle is null before it takes its own pointer back.
- `Inv` of `LoaderProofs`: how far a call has come says which function runs, what
  each of the two error codes can be, and what the call holds (`ProgressInv`); that
  `ec_configure` says success while the functions below run is why only the early
  returns keep the code of a failure.  `CodeInv` is the argument against unloading: whether a library
  has a create function depends on the file alone, so the only `dlclose`, which
  follows a search that found none, never touches a library in which another
  thread's search succeeds, and the count of that library stays positive.
  `OptionsInv`: the string the pointer points to is a suffix of the configuration that
  begins behind a comma, as many commas are before it as options were passed and one
  for the next, and each option passed stands behind the comma of its number
  (`SplitAt`); `get_token` keeps it because it stops at the first comma of the suffix.
  `MessageInv`: a call that no other overlapped finds the two static variables as it
  left them; it says nothing of the others, and needs nothing from them.
  `CountInv`: the number the dynamic linker counts for a library is at least the
  number of threads that have opened it and not looked for its symbol yet, so the
  `dlclose` of one of them leaves enough for the others.
- `VMInv`: types; a running execution has gas that is not negative, an idle VM has
  an empty stack, and no execution follows a fault; a disciplined execution has
  the stack height of the metrics; a memory fault or a dropped output implies a
  wrapped sum.  The last uses that a part of a region that did not wrap can be
  expanded too (`NarrowRegion`), which is why the unchecked store after a call is
  safe.  `OverreadIsHarmless` is inductive relative to it: once a PUSH has read
  behind the code, the loop head refuses every further instruction.
- `CodecInv`: while the loop runs, the iterator is behind the first `i` characters that
  are kept (`RestAt`), those behind the prefix are digits, the bytes written are the
  ones their pairs make, and the first half of a byte is in `hi_nibble`.  `i` counts the
  `x` of the prefix too, so its parity is that of the digits; and `hi_nibble = 0` at
  `i = 1` means that the first character was `0`, which is what makes the lookahead
  right.  Where white space is skipped, `Kept` gives the characters by their rank
  among the visible places, and the iterator moves over places that do not count.
  `CodecInv` is about `text`, what the loop is run on; `InputInv` says how it came out
  of the argument.  An argument of `from_hex<T>` with a `0x` has two readings, and a
  valid one without a second `0x` is the same under both (`TextIsTheReading`).
- `MapsInv`: the two nested maps are maps from arrays of the right size to accounts
  and words.  With `WordsCompareAsNumbers` the order of each map is that of numbers, so
  `Found` finds the entry of an equal key and no other, and `OnlySlotWritten` says that
  a write, which inserts an account and a slot on the way, changes one answer of
  `get_storage` and adds at most that account.
- `WrittenInv`: the slot the client prints holds what the history says was written there
  last; nothing is printed before the execution
  has ended.
- `ProgressInv` of `ExampleProgramProofs`: what the client has to release at each
  place in `main()`.
- `HandleInv` of `ToolsProofs`: at each place of each program, which handles exist,
  that one of them at most has an instance, and that this is the only one alive.  The
  hand-over from the loader through a temporary, or through two handles to a static
  one, is one line for each place.
- `ReportInv`: a report is made on the way to a successful end and nowhere else.
- `DoneInv`: from the creation to the report, the answers of the VM on which the report
  rests are kept, and the counter of the benchmark is between zero and the number of
  iterations, which is not zero.
- `CodeInv`: follows the code from the argument through the file, the buffer of the
  creation and back; no step in between leaves `exec_code` at a buffer that is gone.
- `WarningInv`: while the probe of the benchmark runs, the answer to the first
  execution is remembered for the world it started in.  A deterministic VM answers
  the probe from the same entry when the world is the same.
- `ParserInv`: the parser has as many names as there are among the arguments behind
  it, no wrong option is behind it, and its two flags say whether it passed one.

The two refinements of `VMContract` map the phase `undefined` to `running`: nothing
is promised of an execution that left defined behaviour, and everything up to
there is covered.  The refinement of `HostContract` maps the maps of the Host to what
a VM can see of them (`Seen`); a call reaches the method of its name because the
table, its initialiser and the adaptors agree (`ReachesItsMethod`).

Some of these results are inductions over numbers or characters.  The induction
principles of the library take an operator as parameter, which these provers do not
instantiate; the proofs use sets in their place.  `LeastElement` says that a nonempty
set of natural numbers has a least one, from the finiteness of intervals, and
`InductiveSet` that a set with zero and every successor is all of an interval; each
induction then names the set of numbers for which its claim holds.  `Recursion` shows
that a recursive function on an interval satisfies its equation, which is an
induction over how far such functions exist.  In `LoaderProofs` the least element is
the first of the places of a character (`BeforeFirst`), the greatest the last
(`AfterLast`); in `HexCodecProofs` it is the next visible place (`Forwards`).  The arithmetic is `Dominates` (a number whose first different digit is
greater is greater), `NextWord` (a comparison by words is one by digits), and
`Converts` (repeated division gives the digits back).

Only model-checked:

- `EveryCallReturns`, `Terminates`, `ProgramEnds`: liveness under fairness is
  outside the prover.
- The disagreements of section 5, which are violations.

## 5. Where the code and its documentation disagree

1. `access_account` uses the bounded record of accesses as the set of warm
   addresses; after 200 entries a repeated access is still reported cold, while its
   comment says warm if accessed before.
2. `Memory::expand` of the example VM returns a pointer for some regions that do
   not fit, because the sum of offset and size is taken in 32 bits, while its
   comment promises `nullptr`.  `MemoryDiscipline` shows that this is the only way.
3. `from_hex<T>` and `from_prefixed_hex<T>` accept a further `0x` after the prefix
   they removed (which is why their languages in `AcceptsExactly` are not that of
   `from_hex`), and the value is then not aligned to the right as documented.

Limits of the guarantees, which are conditions of the properties or cases that the
models keep as the code has them:

- `CallInputsValidUnlessOutgrown` excludes a host whose user cleared
  `recorded_calls` and then recorded more inputs than were reserved: the private
  copies are not emptied with the public record, so the vector grows and pointers
  to short inputs recorded before dangle.
- The results about `ResultOwnership` are for a `call_result` without a release
  function (`HostResultOwned = FALSE`): `MockedHost::call` hands the same
  `call_result` to each caller, and with a release function it runs once per call.
- The loader accepts configurations of up to 4095 characters; its error message
  names 4096 as the maximum.  A path of the greatest length that has neither a
  directory nor `lib` in front passes the check of the length and does not fit in the
  buffer, so the symbol searched for is the prefix alone (`LongBaseName`).
- The message of the loader is static: for calls that overlap it may be about
  another call, which is why `MessageDescribesLastError` is about `solo` calls.
- `ExampleHost` reports every access cold and every write as assigned or modified;
  `qrvmc.h` describes more statuses.  Its `get_block_hash` answers for negative
  numbers while the current block is below 256.  `HostContract` leaves these answers
  open.
- `example.c` linked with the VM it creates leaks the instance when the ABI check
  fails; `EverythingReleased` is about the other exits.
- The command line tool executes a code file that it cannot read as empty code and
  exits with 0: `ExecutesWhatWasGiven` and `ExitCodeTells` name this exception
  (`CodeAsRead`).  An input file that cannot be read is empty input; the model does
  not tell inputs apart.  Exit code 0 says nothing of the status of the result.
  Invalid hex in a file ends it with an error although the comment of
  `load_from_hex` says that the content is not validated.
- The benchmark divides by the time of its probe, which may be zero ticks:
  `ProgramEnds` promises no end in this case, and an end in all others.  Its
  warning compares output and gas but not the status.

## 6. Testing the properties

Every property of a passing run has a mutant in `PROJECT.json`: a definition that
models code, replaced by a wrong version of it (a dropped guard, a missing reset, a
swapped order), for which TLC finds the property violated.

## 7. Not modelled

- Literals and FNV hashes of the byte types: constant computations, used as keys of
  unordered containers only.
- Instruction names and gas costs: constant data that nothing in the repository
  computes with; only the stack columns of the metrics are used.
- The C API header as such: it declares.  Its conditions on VMs and Hosts are
  `VMContract` and `HostContract`, others are properties of the modules above.
- CLI11 and the parts of GoogleTest that vmtester starts: external, as is what the
  loader and the programs use of the dynamic linker, the clock and files.
- The tests of vmtester that only look at constant fields of an instance.
- Build files and tests: no behaviour of the program.  Tests were read as
  statements about it.

## 8. Plan

Done, in this order: storage status and the mocked host, gas composed with the
host, results, the loader, the contract of a VM with two implementations, the hex
codec; then VM handles and their composition with results, the symbol names of the
loader, the contract of a Host and the example host, the example client, the two
programs; and proofs of all safety properties.

Next:

1. `MockedHost` against `HostContract`, with the conditions under which a mock
   answers as a Host must.
2. The conformance tests of vmtester as a client of any VM that keeps `VMContract`.
