# Verification of pybind11_protobuf

TLA+ models of the C++ code that carries protobuf messages between Python and C++
(`src/pybind11_protobuf`), TLC configurations that check them on small instances, and
TLAPS proofs for instances of any size. `PROJECT.json` is the machine-readable index:
components, runs, the source lines of every definition, hazards, findings, theorems.

The versions the code is built against are protobuf 29.2 and pybind11 2.13.6; their
behaviour appears only as environment, in actions marked external.

## 1. The system

A binding is a C++ function that pybind11 exposes to Python. For a parameter of message
type, a *caster* serializes the Python message and parses the bytes into a new C++ message;
for a result it does the opposite. In this build no C++ message is ever shared between the
languages (`PyProtoGetCppMessagePointer` returns a null pointer, `GenericFastCppProtoCast`
is not compiled).

| Component | Source | State it keeps | Operations | Module |
|---|---|---|---|---|
| Casters | `proto_caster_impl.h`, `native_proto_caster.h`, `wrapped_proto_caster.h`, helpers of `proto_cast_util.cc` | the message a caster has loaded; Python's error indicator | `load`, conversion to `const T*`, `const T&`, `T&&`, `unique_ptr`, `shared_ptr`, `WrappedProto`, `WrappedProtoVector`; `WithWrappedProtos`; `cast` for every form and policy | `ProtoCasters` |
| Descriptor pools | `PythonDescriptorPoolWrapper`, `AllocateCProtoFromPythonSymbolDatabase` in `proto_cast_util.cc` | `pools_map`: for each Python pool a C++ pool, its database, its factory | `GetPoolFromPythonPool`, the three `FindFile...` callbacks, allocation of a message | `PoolWrapper`, `DescriptorCache` |
| Python message classes | `GlobalState`, `ImportProtoDescriptorModule`, `GenericPyProtoCast` in `proto_cast_util.cc` | the singleton, `import_cache_`, `global_pool_` | `instance`, `ImportCached`, `PyMessageInstance` | `GlobalState` |
| Unknown-field check | `check_unknown_fields.{h,cc}` | the memo of message types, the allow list | `CheckRecursively`, `MessageMayContainExtensions`, `AllowUnknownFieldsFor` | `MayContainExtensions`, `UnknownFields` |
| Extension policy | `check_unknown_fields.h`, `disallow_extensions_with_unknown_fields.cc` | one enumeration | `WeakEnable...`, `StrongSetDisallow` | `UnknownFields` |
| Dynamic access to fields | `proto_utils.{h,cc}` | the fields of a message | `RepeatedFieldContainer`, `MapFieldContainer`, `ProtoInitFields`, `ProtoCopyFrom`, allocation | `FieldContainers` |
| Enum caster | `enum_type_caster.h` | none | `load`, `cast` | `ProtoCasters` |
| Module names | `InferPythonModuleName...` | none | a function of the file name | a constant of `GlobalState` |
| Tests, dependency modules, build files | `tests/`, `CMakeLists.txt`, `*.BUILD`, `cmake/` | - | - | not modelled |

How they interact. The caster of `Message` calls `AllocateCProtoFromPythonSymbolDatabase`,
which looks a type up in a C++ `DescriptorPool` whose fallback database calls methods of the
Python pool: C++ under a mutex calls Python, which may let another thread run. `cast` calls
`GlobalState::PyMessageInstance`, which calls Python too, and may import a module: arbitrary
code. `GetPoolFromPythonPool` asks `GlobalState` whether the pool is the default one. The
dispatcher of pybind11 drives the casters of all overloads, twice. The unknown-field check
has no caller left in the repository, although the top-level README still describes it as a
safety mechanism; it is modelled as its former callers used it. Nor has every member of the
class templates in `proto_utils.cc` a caller: nothing in the repository binds
`RepeatedFieldContainer` and `MapFieldContainer` to Python, so that insertion, deletion, slices
and the look-ups and iterators of maps are not instantiated outside of it. What
`ProtoInitFields` reaches is: `Clear`, `Extend`, `UpdateFromHandle` with `SetItem`, `Append` and
`SetPython`. The others are modelled as the interface that they are.

What is hard. Two locks in both orders (GIL and pool mutex; GIL, `call_once` and import
locks). A pointer into a hash table kept across a call that may run Python. A table keyed by
addresses of objects that die. A cache that is tested before and filled after an import. A
memo with placeholders that outlives the query. Ownership of results by form and policy, with
exceptions in between. The error indicator, a hidden variable that survives early returns.
Calls on fields that convert, insert and swap elements one by one and stop halfway; keys that
are compared in Python's form and stored in C++'s; an entry of a map held while the Python code
of a key or a value uses the same map.

## 2. The modules

**`PoolWrapper`** (`proto_cast_util.cc` 285-441, 560-584; `proto_caster_impl.h` 96-127).
Threads run under a GIL; Python pools are created, dropped, collected, and their addresses
used again. `pools_map` is three functions over addresses: `database` (the Python pool an
entry wraps, and whether there is one: "if (pool_entry.database)"), `underlay` and `built`.
`table_gen` counts the growths of the `flat_hash_map`; a `Data*` is an address with the
generation it was taken in. One action per operation: `GetPoolFromPythonPool`, the cached
lookup, the lookup that takes the mutex and asks the database (`AskDatabase`), the database's
answer (`FindFile`) or exception (`FindFileRaises`), the end of printing it (`ErrorPrinted`), the
builder's steps (`LoadImport`, `CrossLink`), `GetPrototype`, and the same statement through a
moved slot. A name stands for a message type and the one file that declares it. The constant
`Yielding` is the set of pools whose methods run bytecode even when they succeed, and so may let
the GIL go: a pool over a Python `DescriptorDatabase`, or any pool of the pure Python runtime.
Printing an exception (`PyErr_Print`, lines 375, 395 and 423) runs `sys.excepthook` and writes
`sys.stderr` with the mutex held: in "print_error" any Python code may run and the GIL may
change hands, whatever the pool. A thread that waits for a mutex keeps the GIL: nothing in the
code releases it.

**`DescriptorCache`** is what callers may rely on: for each Python pool a growing set of
types, each learnt after its imports, and messages made of known types only. No threads,
addresses, locks or failures. `PoolWrapper!ActsAsCache` is the refinement.

**`GlobalState`** (`proto_cast_util.cc` 147-280, 450-474, 619-628). The singleton under
`gil_safe_call_once_and_store` (which gives up the GIL, enters `std::call_once`, takes the GIL
again inside), its constructor with the imports that may fail, `ImportCached` split where an
import lets other threads run, the three ways of `PyMessageInstance` to a class. The import
system is external: module locks, modules that add their file to the default pool before they
are complete, modules that raise.

**`ProtoCasters`** (`proto_caster_impl.h`, `wrapped_proto_caster.h`, `proto_cast_util.cc`
83-136, 476-584, 619-640). One call of a bound function with one parameter and any number of
overloads. The dispatcher is external; `load` is one action for each way out; the conversion
to the parameter's form, the function itself (external: it may keep holders, return an object
of its own, a pointer to the argument or to an object of the library, or throw) and `cast`
follow. `owner` says for every C++ message who will delete it. A parameter may also be an enum, which
an integer in the range of the underlying type converts to in the second pass only, or any
Python object, so that overload sets mix all of them; a result may be no message at all.
`WithWrappedProtos` is the function from a binding to the one it registers: references and
pointers become `WrappedProto`, vectors `WrappedProtoVector`.

**`MayContainExtensions`** (`check_unknown_fields.cc` 41-67) is the memoized recursion with
an explicit stack: `NextField`, `NoField`, `FieldSaysYes`, `Query`, `Return`. The schema is a
variable that never changes, so that one run covers all schemas. **`UnknownFields`** (the
rest of that file, and the header) extends it with the search of a message, the allow list
and the policy.

**`FieldContainers`** (`proto_utils.{h,cc}`). One C++ message seen from Python: singular,
repeated and map fields, a map being a sequence of entries with keys and values, as reflection
shows it. Each operation (`AppendTo`, `InsertInto`, `DeleteFrom`, `SetElement`, `GetSlice`,
`SetSlice`, `DelSlice`, `FindMapPair`, `SetItem`) is a function from what the field holds to
what it holds then and whether the call went through; loops of swaps are recursive functions.
Actions apply them. Calls with several elements (`Extend`, `UpdateFromHandle`,
`ProtoInitFields`, allocation with keyword arguments) put their elements on `todo` and take one
per step, so that they stop where the code throws. What a conversion accepts is a constant:
`ValueCast`, `KeyCast` and the Python form `KeyPython` of a key, with Python's equality as
`Class`.

`FindMapPair` is one function for keys and values of built-in types, because no Python code runs
inside it then. Other objects (the constant `Calling`) have an `__eq__`, `__index__` or
`SerializeToString` of their own, which may use the message. An item with one of them is looked
up step by step: `SearchPair` compares one entry, `AddPair` adds a new one, `SetKey` converts the
key, `SetValue` or `GetValue` goes to the value (`FindPair` is the search when only the value is
such an object). `pair` says how far the look-up is and which entry it holds. Wherever Python
code runs (`InPython`), the other operations may happen, and it may raise (`PythonRaises`). A
call inside such code does not itself call back a second time. When the entry is removed
meanwhile (`Forget`), the code goes on with its pointer; in the model what it writes there is
lost. Calls that convert a value before they touch the field (`Append`) need no steps. `SetItem`
and `SetSlice` of repeated messages hold the element's pointer while they serialize the value:
they are not split, and take no `Calling` objects.

`MC...` modules give the constants their values. `...Proofs` modules, and
`PoolWrapperRefinement`, hold theorems (section 4).

## 3. The runs

| Run | Specification and instance | Shows |
|---|---|---|
| `pool_progress` | 2 threads, 2 pools, 2 addresses, 2 names, lookups of the default pool run bytecode, errors are printed for both; fair | in a pool whose lookups run none, the pointer into `pools_map` is good when it is followed (`FollowedPointerValid`); a thread that has the GIL waits for no mutex but one left behind in Python code (`OnlyPythonIsWaitedFor`); every call returns unless there is a lock cycle or undefined behaviour (`CallsReturnUnlessStuck`) |
| `pool_yield` | 2 threads, 3 pools on 2 addresses, every lookup may let the GIL go | a key of the table is never the address of a dead pool; a message is made by the definitions of its own pool; descriptors outlive pools; nothing cached is lost; refinement of `DescriptorCache` |
| `pool_moved_slot` | 2 pools, 3 names; the lookups of one pool run bytecode | **violation**: the `Data*` used at line 579 may have moved |
| `pool_lock_cycle` | the same, but no lookup that succeeds runs bytecode; fair | **violation**: GIL and pool mutex are taken in both orders; two calls never return, because one prints an error |
| `global_state` | 2 threads, 2 types (one with a Python module, one without), 1 extension module; fair | the cache holds complete modules only, a type that was cast or whose module is loaded stays castable, every call returns |
| `may_contain_extensions` | all schemas of 3 types | `true` is always right; `false` is right until the first `true`, and always without recursive types; the recursion never comes back to a type it is in (`NoTypeTwice`) |
| `unknown_fields` | 9 messages of 4 types, one with a foreign field before a known one, 2 allow-list keys | verdicts are justified whatever was checked before, and only a field behind one that Python does not know is missed; the policy functions commute |
| `unknown_fields_recursive_types` | two types that contain each other | **violation**: a check passes a message with a known unknown field |
| `field_containers` | a singular, a repeated and a map field; indices and slices in and out of range, steps -2 to 2; keys of two Python forms, keys and values that cannot be converted, messages that cannot be parsed, an object with Python code of its own as key and value | elements move as in Python's list, for every index; slices of consecutive elements are right and others change as many elements as they should; a failed call keeps what was there; keys are distinct but for keys of several forms and the default key; what is set is found; a value never goes to the entry of another key, whatever Python code does to the map during its look-up (`ValueGoesToItsKey`) |
| `proto_casters` | every form of parameter (enum and any object too), overload sets that share arguments, every form of result with every policy, bindings through `WithWrappedProtos`, well-formed and fake arguments; 3 messages, up to symmetry | the overload that runs is the first that accepts; it gets its own argument and nothing of an earlier attempt; nothing leaks, also when `cast` throws; no call deletes an object of the library, but for a wrapped `const T&` under `take_ownership` (section 6) |
| `proto_casters_none` | the same | **violation**: None is copied through a null pointer by `WrappedProto` by value and `WrappedProtoVector` |
| `proto_casters_leftover` | the same without those forms | **violation**: a failed serialization leaves the error indicator set behind a result |

Every property of a passing run is tested against a plausible bug: `PROJECT.json` "mutants"
replaces one definition of the model by a mutated form, defined beside it (a dropped guard, a
reset that is missing, a lock not given back), and TLC then reports the property.

**Bounds.** *Pools*: three pools on two addresses are the least with which an address is used
again while another pool lives and a third must wait; a chain Ext -> Msg -> Base is the
shortest in which a failed import lies under a file that is itself an import, and in which the
innermost file may come from the underlay. Growth happens at sizes 0, 1, 3 and 7, as in
`absl::flat_hash_map`. *GlobalState*: two threads suffice for each race in the code (one pair
of test and insertion, one flag, one lock); two types separate "in the pool from the start" from
"added by a module", and one module that is not installed makes imports fail. *Casters*: a call
never needs more than three live messages: two list elements, or an argument and a kept one,
and a result. *Schemas*: with three types there are self loops, two-cycles with an exit and
three-cycles; the wrong `false` needs only two. *Fields*: no call adds to a message with
two elements (`MaxLen`), and a call with several may go beyond: lists and maps get three and
more; the shifts of insertion
and deletion differ at the first, an inner and the last position, and a slice of step 2 needs
three elements to have two. Python code inside a look-up makes any number of calls, one after
the other. *Second calls*: no run bounds the number of calls.

**Deadlock** is checked in `global_state`, `may_contain_extensions`, `unknown_fields` and
`field_containers`. It is switched off in the pools' runs, where the lock cycle is a real stop
(`pool_progress` states what else is not), and in the casters' runs, where undefined behaviour
ends the program.

**Fairness.** *PoolWrapper*: weak fairness of a thread's C++ steps (code that has the GIL runs
on); strong fairness of giving up the GIL between calls (the switch interval) and of getting it
back inside a callback or while an error is printed (the interpreter hands it to a waiting
thread); strong fairness of the end of that Python code. It is not assumed to give the GIL up.
*GlobalState*: weak fairness of steps, strong fairness of the GIL's hand-over, as above; threads
blocked in `call_once` or in an import lock proceed when it is free; the code of a module ends
sooner or later. The other modules state no liveness: that the recursion over types ends is the
invariant `NoTypeTwice`. No fairness is assumed of the program: nobody has to call anything. Of
the unknown-field check only the query about a type runs under a lock (`check_unknown_fields.cc`
65); the search of a message is one thread's, and shares with others nothing but the memo that the
lock protects. `UnknownFields` therefore checks one message at a time, and the answers of queries
in between are those that any earlier checks could have left.

## 4. What is proved

`PoolWrapperProofs` proves, for every set of threads, pools, addresses and names that satisfies
`PoolAssumption`:

- `Typing`: `Spec => []TypeOK`;
- `CachedPoolsLive`, `MessagesOfTheirOwnPool`, `DescriptorsAlive`: the state invariants of run
  `pool_yield`;
- `ResultsStayCached`: the action property that no entry of `pools_map`, and no descriptor in
  one, is ever dropped;
- `FollowedPointers`: in a pool whose successful lookups run no bytecode, the pointer into
  `pools_map` is valid whenever it is followed, although errors are printed and slots move;
- `OnlyPythonIsWaited`: a thread that cannot go on waits for a mutex whose owner is in Python
  code (a lookup, or the printing of an error): there is no lock cycle among C++ code alone.

The assumptions on constants are that the default pool is a pool, compiled types import
compiled types only (the linker's guarantee), names and addresses exist and `Null` is none of
them. `MessageOfItsOwnPool` is not inductive: the invariant `IInv` adds

- `HeapInv`: live pools have different addresses, what the program or a call refers to is
  live, and cached pools are (this is what `DescriptorPoolDatabase::pool_` buys: `CollectPool`
  cannot take a pool a database holds, so `where[p]` is never reused while it is a key);
- `CallInv`: C++ code runs under the GIL except inside callbacks; the entry a call works on wraps
  the call's own pool; a mutex is owned exactly by the thread building in that pool;
- `WorkInv`: an entry lies over the compiled types iff it is the default pool's, and then builds
  none of them; the last file of the work is the one asked for; `GetPrototype` runs only for a
  visible type;
- `MessageInv`: the two properties of messages.

`Finish`, which ends a file in any of three ways, has the longest case; lemmas state what it
keeps. `OnlyPythonIsWaited` follows from `CallInv`. `FollowedPointers` needs an invariant of its
own, `LookupInv`. While an error is printed the GIL may be lost and the pointer may move, but the
lookup that printed it can no longer succeed: the file it failed for is bad, and so is, one after
the other, every file that waits for it (`Doomed`), the one asked for being the last (`WorkOK`). So
a pointer that may have moved belongs to a doomed lookup (`PointerOK`), and a doomed lookup does
not reach the statement that follows the pointer.

`MayContainExtensionsProofs` proves, for every set of types and every schema that satisfies
`TypesAssumption`, the safety properties of run `may_contain_extensions`:

- `YesIsAlwaysRight`. `IInv` says that each call on the stack was made for a field of the call
  below it, that a type with an entry has no extension ranges of its own, and that the type of
  the last "yes" may contain extensions; `FieldYes` carries that down the stack.
- `EarlyNoIsRight`. While nothing has said yes, the fields that calls have looked at are
  memoized false (`QuietInv`); when no call is in progress the other types are a closed set.
- `AcyclicNoIsRight`. Heights rise along the stack (`HeightInv`), so a type met again is never
  one whose call is in progress: its entry is final. `FieldsSeen` and `FinishedNo` say that
  fields already looked at, and types whose calls are over, are free of extensions; `FieldsNo`
  removes a type from the least closed set when its last field has been looked at.

- `RecursionEnds`. A type comes onto the stack only if it has no entry, and its entry, the
  placeholder, is made at once; so no type is there twice.

The violation in run `unknown_fields_recursive_types` needs what these two exclude: a recursive
type and an earlier yes.

`PoolWrapperRefinement` proves `PoolsActAsCache`: `Spec => ActsAsCache`, the refinement of
`DescriptorCache`. Beyond `IInv` it needs `FoundInv`: the Python pool has every file that a
lookup builds, except the one it is being asked for. Then a file that is built is a `Learn`
(its imports are visible, hence known), `GetPrototype` is a `Make`, a new entry of `pools_map`
has learnt nothing yet, and every other step stutters.

`GlobalStateProofs` proves `Typing`, `CachedModules` and `PromisedCasts`, for any threads,
modules, inferred module names and failing imports. `IInv` consists of `Shared` (cached modules
are loaded; types a message was made of can be found by the pool or by their module) and, for
each thread, what it may be doing where (`TaskInv`), that only the thread inside `call_once` is
in the constructor, and for the first time (`OnceInv`), which module it imports (`ModuleInv`)
and that the promise of its cast is still kept (`PromiseInv`). `Changes` states what a step
leaves to other threads; `ChangesInv` derives their part of the invariant from it once, so that
each action only has to restore its own thread's.

`ProtoCastersProofs` proves all five properties of run `proto_casters` (`Typing`,
`TheRightOverload`, `TheWholeArgument`, `NoLeaks`, `LibraryObjectsSurvive`), for any overloads,
arguments, results and policies. `LibraryObjectsSurvive` excepts one kind of function by name
(`GivesAwayReference`, section 6). `IInv` adds to the types where a call is (`Running`), who owns
which message at each point of it (`Owners`), what has been loaded so far (`Loading`), that
overloads left behind do not accept the argument (`Tried`), and where a set error indicator
comes from (`Leftover`).

`UnknownFieldsProofs` proves `ChecksAskAsSpecified`: the checks of messages, composed with the
recursion, implement `MayContainExtensions`. So `ChecksGetRightYes` follows from
`YesIsAlwaysRight`. `CheckTyping` and `PolicyIsCommutative` have small invariants of their own.

`VerdictsAreJustified` is about whole searches. An error or a permission is about a submessage of
the message that has a field Python knows, at the place the search names, and is what the allow
list says of that place. If no type contains itself, a message found clean has a field that Python
knows, if any, only in a submessage whose first unknown field Python does not know: the code looks
up the first field of an `UnknownFieldSet` and no other (section 6). `FullInv` is its invariant.
`PathInv`: the messages whose search is in progress are a path to the top message. `LeftInv`: what
a loop has still to go into has not been touched, nor has anything below it. `Progress`: what the
loops have gone into is free, that is, it lies in a set of submessages that holds everything below
its members, and the first unknown field of none of them is one that Python knows (`Free`; stated
with a set, so that no induction over the depth is needed). `VerdictInv`: what each place of the
check knows of the innermost message. A submessage that is not entered because its type may not
contain extensions is free by `AcyclicNoIsRight` (`NoExtensionsFree`). `Lineage`, the recursive
reference definition of a place, is shown to satisfy its equation because messages are finite
trees (`LineageIsWay`), and then equal to the path (`PathIsLineage`). The theorem needs two
assumptions on the constants: `TreeAssumption` (going up from a submessage ends at its top
message) and `SchemaAssumption` (a submessage is the value of a declared field or of an extension,
and only a type with extension ranges has extensions that Python knows).

`FieldContainersProofs` proves `DistinctKeys`, `ItemsFound` and `ItemsGoToTheirKeys`, for any
message type, conversions, keys and arguments. An entry gets its key when it is appended, or, if
the key is an object with Python code of its own, when that is converted; a key of a built-in
type is appended only if no entry has a key equal to it, which for a key of one form means the
same key (`FindMapPairKeeps`). `DistinctKeys` therefore leaves out the default key, keys of
several forms, and keys that such objects convert to. `FirstPair` exists because the natural
numbers are well-founded. `ItemsGoToTheirKeys` needs `CallInv`: from the end of its search on, a
look-up holds no entry, or one that is there and has the key of the item. Whatever runs inside its
Python code either keeps the keys of the entries and their places (`KeepsKeys`), or removes them
all, and then the look-up holds none (`Forget`).

`RepeatedFieldsProofs` proves the other four properties of run `field_containers`, for fields
and arguments of any length and any indices and steps: `FieldsTyped`, `InsertAndDelete`,
`SlicesOfLists` and `FailedCalls`. The loops of the code
are recursive functions of the model. A function that TLA+ defines by an equation is known to
satisfy it only if some function does; then the equation can be followed from turn to turn.

- *That there is one.* For insertion and deletion it is written down: `Slid` (the new element
  after the first `dst`) and `Moved` (the element to be deleted moved up to `dst`) are what the
  swaps of the loops make of the field (`SwapSlides`, `SwapMoves`). For the loops over slices
  `Chain` proves that any sequence of total turns has one.
- *From turn to turn.* `UpTo` is induction over an interval, by the least index that is left
  out; it takes a set where the library's theorem takes an operator.
- *What the loops maintain.* `SetUpTo`: the elements before the first bad value are set and no
  others, the length stays. `StepOne`: after `i` deletions of a slice of step 1 the last `i` of
  its elements are gone (`Cut`), so the next index, counted from the slice's stop, is still its
  element's. `DelTurnTyped`: with any step a turn deletes one element or raises.
- `SliceTyped`: every position of a slice is inside the field, and no two are the same, for
  either sign of the step; from the division in `slice.compute()`.

What is proved of `FieldContainers` goes through the invariant `FieldInv`: the types, the keys of
the maps, and `CallInv`, what is left to do of a call and how far its look-up is. Calls that
convert their elements one after another need it for the items not yet looked at.

Only model-checked: the liveness properties `CallsReturnUnlessStuck` and, in `GlobalState`,
`EveryCallReturns` (`WF_` and `SF_` conditions need `ENABLED`, which is beyond the prover), and the
findings, which are counterexamples.

## 5. Findings

1. **Moved slot** (`proto_cast_util.cc:579`, run `pool_moved_slot`). The map's slots move when it
   grows; the comment at 307 promises a pointer as stable as the Python pool. A node-based map,
   or reading `factory` before the lookup, would do. It takes a lookup that gives the GIL away and
   still succeeds, hence a pool whose methods run bytecode (`FollowedPointerValid`).
2. **Lock cycle** (`proto_cast_util.cc:575`, run `pool_lock_cycle`). The GIL would have to be
   released before the mutex is waited for, or the lookups be serialized by a lock that is. It
   takes no unusual pool: a lookup that fails prints the exception (lines 375, 395, 423) with the mutex held, which is
   enough.
3. **Placeholder `false`** (`check_unknown_fields.cc:47`, run `unknown_fields_recursive_types`).
4. **None by value** (`wrapped_proto_caster.h:175` and 269, run `proto_casters_none`).
5. **Error left set** (`proto_cast_util.cc:526`, run `proto_casters_leftover`).

## 6. Not modelled, and why

- The path over `PyProto_API` and `fast_cpp_cast_impl`: not compiled in this configuration.
- Calls nested in a callback (a Python database that casts a message of its own pool): a thread
  has one call at a time. Programs that never call `ImportNativeProtoCasters`, so that
  `GetPoolFromPythonPool` is the first to build `GlobalState`: `PoolWrapper` takes the singleton
  as built, as `native_proto_caster.h:43` requires.
- Sizes: messages of 2 GiB (`SerializePartialAsString` returns an empty string).
- Casters inside other casters (`optional`, `StatusOr`, `variant`, tuples): pybind11 composes them
  out of what `ProtoCasters` models.
- Reads of fields (`Repr`, iterators, conversions to Python) change nothing and are one action
  `Read`; the references that keep a message alive while Python holds a part of it are
  pybind11's (`keep_alive`).
- `DelSlice` with a step other than 1 removes other elements than Python's `del` would, or stops
  halfway; no document or test of the repository says otherwise, so it is not a finding.
  `SlicesLikeList` claims of such slices only their length.
- Calls nested in a call inside the Python code of a key or a value (`Calling`); and such values in
  `SetItem` and `SetSlice` of repeated messages, where `SetPython` (line 365) keeps a pointer to the
  element while it serializes the value. What `FindMapPair` writes through the pointer to an entry
  that is removed meanwhile is lost in the model.
- The inference of a module's name from a file's: `GlobalState` takes any function.
- Wording of errors, except for the field names that are keys of the allow list.
- Tests and build files have no logic of their own.

What the code does, the model follows and no property forbids:

- `pools_map` only grows, although the comments at `proto_cast_util.cc` 287 to 289 and 307 to 308
  speak of data that is cleared with its Python pool: the database's strong reference to the pool
  (357) keeps it alive. `CachedPoolAlive` rests on that reference.
- Only the first field of an `UnknownFieldSet` is looked up (`check_unknown_fields.cc` 103), so a
  field that Python knows behind one that it does not know passes, although the README of the
  repository (117 to 125) has every message with a non-empty set raise. `VerdictIsJustified`
  excepts such messages by name. The allow list is consulted for the first such submessage the
  search finds, and for no other (189 to 197).
- A wrapped function with a result `const T&` under `take_ownership` has the library's object
  deleted: `WithWrappedProtos` makes a pointer of the reference (`wrapped_proto_caster.h` 154), and
  the caster believes the policy; without the wrapper the reference is copied.
  `LibraryKeepsItsObjects` excepts `GivesAwayReference`.
- `SetPython` ignores the result of `ParseFromString` (`proto_utils.cc` 365), where `Append` does
  not: what was parsed of a malformed message stays in a field that is set, and in one that `Add`
  makes from keyword arguments (`ListAdd` may add any contents).

## 7. What could follow

1. `PoolWrapper` composed with `GlobalState` for programs that skip the set-up, and calls nested
   in callbacks: both need the call of a thread to become a stack of calls.
2. An abstract specification of a call (`ProtoCasters`) and of a container (`FieldContainers`),
   with the refinements proved from the invariants of section 4.
