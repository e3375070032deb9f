----------------------------- MODULE PoolWrapper -----------------------------
(***************************************************************************)
(* PythonDescriptorPoolWrapper of proto_cast_util.cc, and the only code    *)
(* that uses it: AllocateCProtoFromPythonSymbolDatabase, called by the     *)
(* caster of ::google::protobuf::Message.                                  *)
(*                                                                         *)
(* A C++ DescriptorPool is kept for every Python DescriptorPool a message  *)
(* has come from.  The C++ pool starts empty and asks the Python pool for  *)
(* the files it lacks, holding its own mutex while it does; the Python     *)
(* code that answers runs under the GIL and may let another thread take    *)
(* it, and so may the code that prints an error the Python pool raises.    *)
(* Python pools are ordinary Python objects: they are created, dropped and *)
(* collected, and their addresses are used again.                          *)
(*                                                                         *)
(* A name stands for a message type and for the one file that declares it. *)
(***************************************************************************)
EXTENDS Naturals, Sequences, FiniteSets

CONSTANTS
  Threads,        \* Python threads
  Pools,          \* Python DescriptorPool objects
  DefaultPool,    \* descriptor_pool.Default(), kept alive by GlobalState
  Addr,           \* addresses of Python objects, the keys of pools_map
  Names,          \* full names of messages
  Defines,        \* the names each Python pool can find
  Imports,        \* the names each name's file imports
  Generated,      \* the names in the C++ generated_pool()
  Yielding,       \* the pools whose lookups run Python bytecode even when they
                  \* succeed: a pool over a Python DescriptorDatabase, the pure
                  \* Python runtime, or one that collects garbage
  RehashAt,       \* the sizes at which an insertion moves pools_map's slots
  Null            \* no thread, no pool, no name, no address

ASSUME PoolAssumption ==
  /\ DefaultPool \in Pools
  /\ Defines \in [Pools -> SUBSET Names]
  /\ Imports \in [Names -> SUBSET Names]
  /\ Generated \subseteq Names
  /\ \A n \in Generated : Imports[n] \subseteq Generated
  /\ Yielding \subseteq Pools
  /\ Names # {}
  /\ Addr # {}
  /\ Null \notin Threads \cup Pools \cup Names \cup Addr

VARIABLES
  gil,        \* the thread that holds the GIL
  where,      \* the address of each live Python pool
  held,       \* the Python pools the Python program still refers to
  database,   \* pools_map: the Python pool an entry's database wraps (pool_)
  underlay,   \* pools_map: whether an entry's pool lies over generated_pool()
  built,      \* pools_map: the names an entry's pool has built itself
  table_gen,  \* how often pools_map has moved its slots
  mutex,      \* the thread that holds the mutex of an entry's DescriptorPool
  pc,         \* where each thread is
  call,       \* the arguments of its call: src's pool and type, and the type
              \* of an extension that src's serialized form contains
  stage,      \* whether it looks up the message's type or the extension
  pool_data,  \* the Data* of its call: a slot, and the layout it belongs to
  work,       \* the files its lookup is building, the innermost first
  bad,        \* the files its lookup failed to build
  messages    \* the C++ messages allocated so far

calls == <<pc, call, stage, pool_data>>
program == <<where, held>>
tables  == <<database, underlay, built, table_gen>>
lookup  == <<work, bad>>
vars == <<gil, program, tables, mutex, calls, lookup, messages>>

(***************************************************************************)
(* The labels of a thread.  In "call_python" a method of the Python pool   *)
(* is running for the file at the top of the thread's work; in             *)
(* "print_error" PyErr_Print reports what that method raised.              *)
(***************************************************************************)
InPython == {"call_python", "print_error"}
Building == {"call_python", "print_error", "cross_link"}
Label == {"outside", "get_pool", "find", "get_prototype", "undefined"}
         \cup Building

Call == [pool : Pools, name : Names, ext : Names \cup {Null}]

(* Data*: valid as long as the flat_hash_map keeps its slots in place.     *)
DataPtr == [addr : Addr, gen : Nat]

(* The locals of a thread that is in no call: they have no meaning.        *)
NoCall == CHOOSE c \in Call : TRUE
NoData == CHOOSE d \in [addr : Addr, gen : {0}] : TRUE

Message == [asked : Pools, from : Pools, name : Names, compiled : BOOLEAN]

TypeOK ==
  /\ gil \in Threads \cup {Null}
  /\ where \in [Pools -> Addr \cup {Null}]
  /\ held \subseteq Pools
  /\ database \in [Addr -> Pools \cup {Null}]
  /\ underlay \in [Addr -> BOOLEAN]
  /\ built \in [Addr -> SUBSET Names]
  /\ table_gen \in Nat
  /\ mutex \in [Addr -> Threads \cup {Null}]
  /\ pc \in [Threads -> Label]
  /\ call \in [Threads -> Call]
  /\ stage \in [Threads -> {"message", "extension"}]
  /\ pool_data \in [Threads -> DataPtr]
  /\ work \in [Threads -> Seq(Names)]
  /\ bad \in [Threads -> SUBSET Names]
  /\ messages \subseteq Message

-----------------------------------------------------------------------------
(* What a C++ pool can find without asking its database.                   *)
Visible(a) == built[a] \cup IF underlay[a] THEN Generated ELSE {}

(* The call runs on a pointer whose slot has not moved.                    *)
PointerValid(t) == pool_data[t].gen = table_gen

GoalMutant(t) == IF stage[t] = "message" THEN call[t].ext ELSE call[t].name

Goal(t) == IF stage[t] = "extension" THEN call[t].ext ELSE call[t].name

Goto(t, label) == pc' = [pc EXCEPT ![t] = label]

(* The call returns or throws, and its locals are gone.                    *)
Return(t) ==
  /\ Goto(t, "outside")
  /\ call' = [call EXCEPT ![t] = NoCall]
  /\ stage' = [stage EXCEPT ![t] = "message"]
  /\ pool_data' = [pool_data EXCEPT ![t] = NoData]

(* Python code of the program is running: between calls, in a lookup that  *)
(* a Python pool answers with bytecode, or, whatever the pool, in the      *)
(* sys.excepthook and sys.stderr that print an error.                      *)
RunsPython(t) ==
  /\ gil = t
  /\ \/ pc[t] \in {"outside", "print_error"}
     \/ pc[t] = "call_python" /\ call[t].pool \in Yielding

Init ==
  /\ gil = Null
  /\ \E a \in Addr :
       where = [p \in Pools |-> IF p = DefaultPool THEN a ELSE Null]
  /\ held = {DefaultPool}
  /\ database = [a \in Addr |-> Null]
  /\ underlay = [a \in Addr |-> FALSE]
  /\ built = [a \in Addr |-> {}]
  /\ table_gen = 0
  /\ mutex = [a \in Addr |-> Null]
  /\ pc = [t \in Threads |-> "outside"]
  /\ call = [t \in Threads |-> NoCall]
  /\ stage = [t \in Threads |-> "message"]
  /\ pool_data = [t \in Threads |-> NoData]
  /\ work = [t \in Threads |-> <<>>]
  /\ bad = [t \in Threads |-> {}]
  /\ messages = {}

-----------------------------------------------------------------------------
(* The interpreter and the Python program (external). *)

AcquireGil(t) ==
  /\ gil = Null
  /\ pc[t] \in InPython \cup {"outside"}
  /\ gil' = t
  /\ UNCHANGED <<program, tables, mutex, calls, lookup, messages>>

ReleaseGil(t) ==
  /\ RunsPython(t)
  /\ gil' = Null
  /\ UNCHANGED <<program, tables, mutex, calls, lookup, messages>>

(* A new Python pool takes an address no live object has.                  *)
CreatePool(t, p, a) ==
  /\ RunsPython(t)
  /\ where[p] = Null
  /\ \A q \in Pools : where[q] # a
  /\ where' = [where EXCEPT ![p] = a]
  /\ held' = held \cup {p}
  /\ UNCHANGED <<gil, tables, mutex, calls, lookup, messages>>

(* The program drops its last message, descriptor or name of the pool.     *)
DropPool(t, p) ==
  /\ RunsPython(t)
  /\ p \in held \ {DefaultPool}
  /\ held' = held \ {p}
  /\ UNCHANGED <<gil, where, tables, mutex, calls, lookup, messages>>

(* DescriptorPoolDatabase::pool_ owns a reference to the Python pool.      *)
HeldByDatabaseMutant(p) == FALSE  \* a py::handle instead of a py::object

HeldByDatabase(p) == \E a \in Addr : database[a] = p

(* The interpreter frees a pool nothing refers to: not the program, not    *)
(* the arguments of a running call, not a DescriptorPoolDatabase.          *)
CollectPool(t, p) ==
  /\ RunsPython(t)
  /\ where[p] # Null
  /\ p \notin held
  /\ ~HeldByDatabase(p)
  /\ \A u \in Threads : pc[u] # "outside" => call[u].pool # p
  /\ where' = [where EXCEPT ![p] = Null]
  /\ UNCHANGED <<gil, held, tables, mutex, calls, lookup, messages>>

-----------------------------------------------------------------------------
(* The call: load() of the Message caster, once the type's name and the    *)
(* serialized form of src are known.                                       *)

LoadMessage(t, p, n, x) ==
  /\ gil = t
  /\ pc[t] = "outside"
  /\ p \in held
  /\ n \in Defines[p]
  /\ call' = [call EXCEPT ![t] = [pool |-> p, name |-> n, ext |-> x]]
  /\ stage' = [stage EXCEPT ![t] = "message"]
  /\ Goto(t, "get_pool")
  /\ UNCHANGED <<gil, program, tables, mutex, pool_data, lookup, messages>>

(* The size of pools_map is one of those at which it has no room left.     *)
TableFull == Cardinality({a \in Addr : database[a] # Null}) \in RehashAt

CachedMutant(a) == FALSE  \* a test of a member that is never set

(* "if (pool_entry.database)": the entry is complete.                      *)
Cached(a) == database[a] # Null

HasUnderlayMutant(p) == p \in Pools  \* the optimization for every pool

(* "if (python_pool.is(GlobalState::instance()->global_pool()))".          *)
HasUnderlay(p) == p = DefaultPool

(* The pointer taken from a lookup that precedes the insertion.            *)
PoolEntryMutant(a) == [addr |-> a, gen |-> table_gen]

(* "return &pool_entry".                                                   *)
PoolEntry(a) == [addr |-> a, gen |-> table_gen']

GetPoolFromPythonPool(t) ==
  /\ gil = t
  /\ pc[t] = "get_pool"
  /\ LET p == call[t].pool
         a == where[p]
     IN /\ \/ Cached(a) /\ UNCHANGED tables
           \/ /\ ~Cached(a)
              /\ database' = [database EXCEPT ![a] = p]
              /\ underlay' = [underlay EXCEPT ![a] = HasUnderlay(p)]
              /\ built' = [built EXCEPT ![a] = {}]
              /\ table_gen' = IF TableFull THEN table_gen + 1 ELSE table_gen
        /\ pool_data' = [pool_data EXCEPT ![t] = PoolEntry(a)]
  /\ Goto(t, "find")
  /\ UNCHANGED <<gil, program, mutex, call, stage, lookup, messages>>

(***************************************************************************)
(* DescriptorPool::FindMessageTypeByName, and FindExtensionByNumber while  *)
(* the message is parsed (external).  Both wait for the pool's mutex       *)
(* without letting the GIL go.                                             *)
(***************************************************************************)

(* What follows a lookup.  A type that is not found is a type_error; an    *)
(* extension that is not found stays an unknown field of the message.      *)
AfterLookup(t, found) ==
  IF stage[t] = "message" /\ found
  THEN Goto(t, "get_prototype") /\ UNCHANGED <<call, stage, pool_data>>
  ELSE Return(t)

MutexFree(a) == mutex[a] = Null

(* The name is in the pool or its underlay: no Python is needed.           *)
FindCached(t) ==
  /\ gil = t
  /\ pc[t] = "find"
  /\ MutexFree(pool_data[t].addr)
  /\ Goal(t) \in Visible(pool_data[t].addr)
  /\ AfterLookup(t, TRUE)
  /\ UNCHANGED <<gil, program, tables, mutex, lookup, messages>>

(* The pool goes to its database, and keeps its mutex until it is done.    *)
AskDatabase(t) ==
  LET a == pool_data[t].addr IN
  /\ gil = t
  /\ pc[t] = "find"
  /\ MutexFree(a)
  /\ Goal(t) \notin Visible(a)
  /\ mutex' = [mutex EXCEPT ![a] = t]
  /\ work' = [work EXCEPT ![t] = <<Goal(t)>>]
  /\ Goto(t, "call_python")
  /\ UNCHANGED <<gil, program, tables, call, stage, pool_data, bad, messages>>

(* FindFileByName, FindFileContainingSymbol, FindFileContainingExtension:  *)
(* the Python pool has the file, and its serialized_pb is copied.          *)
FindFile(t) ==
  /\ gil = t
  /\ pc[t] = "call_python"
  /\ Head(work[t]) \in Defines[call[t].pool]
  /\ Goto(t, "cross_link")
  /\ UNCHANGED <<gil, program, tables, mutex, call, stage, pool_data, lookup,
                 messages>>

(* The mutex is not given back when the lookup throws.                     *)
UnlockMutant(a, isBuilt) ==
  mutex' = IF isBuilt THEN [mutex EXCEPT ![a] = Null] ELSE mutex

Unlock(a, isBuilt) == mutex' = [mutex EXCEPT ![a] = Null]

(* The file at the top of the work is done with.  The one below it goes    *)
(* on; under the last one the lookup ends and gives the mutex back.        *)
Finish(t, isBuilt) ==
  LET n    == Head(work[t])
      rest == Tail(work[t])
      a    == pool_data[t].addr
  IN /\ built' = IF isBuilt THEN [built EXCEPT ![a] = @ \cup {n}] ELSE built
     /\ work' = [work EXCEPT ![t] = rest]
     /\ \/ /\ rest # <<>>
           /\ bad' = IF isBuilt THEN bad ELSE [bad EXCEPT ![t] = @ \cup {n}]
           /\ Goto(t, "cross_link")
           /\ UNCHANGED <<mutex, call, stage, pool_data>>
        \/ /\ rest = <<>>
           /\ bad' = [bad EXCEPT ![t] = {}]
           /\ Unlock(a, isBuilt)
           /\ AfterLookup(t, isBuilt)
     /\ UNCHANGED <<gil, program, database, underlay, table_gen, messages>>

(* The three methods again: the Python pool raises, because it has no such *)
(* file or for a reason of its own.  The error is restored and printed.    *)
FindFileRaises(t) ==
  /\ gil = t
  /\ pc[t] = "call_python"
  /\ Goto(t, "print_error")
  /\ UNCHANGED <<gil, program, tables, mutex, call, stage, pool_data, lookup,
                 messages>>

(* "return true": the lookup goes on with a file that is empty.            *)
AfterErrorMutant(t) == Finish(t, TRUE)

(* "return false".                                                         *)
AfterError(t) == Finish(t, FALSE)

(* PyErr_Print has printed the error and cleared it.                       *)
ErrorPrinted(t) ==
  /\ gil = t
  /\ pc[t] = "print_error"
  /\ AfterError(t)

(* An import of a file that is itself being built is an error.             *)
MissingImports(t) ==
  {n \in Imports[Head(work[t])] :
     /\ n \notin Visible(pool_data[t].addr) \cup bad[t]
     /\ \A i \in 1 .. Len(work[t]) : work[t][i] # n}

(* DescriptorBuilder::BuildFile (external) loads an import it lacks.       *)
LoadImport(t) ==
  /\ gil = t
  /\ pc[t] = "cross_link"
  /\ \E n \in MissingImports(t) : work' = [work EXCEPT ![t] = <<n>> \o @]
  /\ Goto(t, "call_python")
  /\ UNCHANGED <<gil, program, tables, mutex, call, stage, pool_data, bad,
                 messages>>

ImportsFoundMutant(t) == TRUE  \* a failed import is not noticed

ImportsFound(t) == Imports[Head(work[t])] \subseteq Visible(pool_data[t].addr)

(* It builds the file, or rolls it back if an import could not be built.   *)
CrossLink(t) ==
  /\ gil = t
  /\ pc[t] = "cross_link"
  /\ MissingImports(t) = {}
  /\ Finish(t, ImportsFound(t))

-----------------------------------------------------------------------------
(* pool_data->factory->GetPrototype(descriptor) and New(): compiled code   *)
(* for a descriptor of the underlay, a dynamic message otherwise.  Only a  *)
(* dynamic message looks for the extensions it parses in the wrapped pool. *)
GetPrototype(t) ==
  LET a == pool_data[t].addr
      n == call[t].name
  IN /\ gil = t
     /\ pc[t] = "get_prototype"
     /\ PointerValid(t)
     /\ messages' = messages \cup {[asked |-> call[t].pool, from |-> database[a],
                                    name |-> n, compiled |-> n \notin built[a]]}
     /\ IF n \in built[a] /\ call[t].ext # Null
        THEN /\ Goto(t, "find")
             /\ stage' = [stage EXCEPT ![t] = "extension"]
             /\ UNCHANGED <<call, pool_data>>
        ELSE Return(t)
     /\ UNCHANGED <<gil, program, tables, mutex, lookup>>

(* The same statement after the slots have moved reads freed memory: the   *)
(* program's further behaviour is undefined.                               *)
GetPrototypeOfMovedSlot(t) ==
  /\ gil = t
  /\ pc[t] = "get_prototype"
  /\ ~PointerValid(t)
  /\ Goto(t, "undefined")
  /\ UNCHANGED <<gil, program, tables, mutex, call, stage, pool_data, lookup,
                 messages>>

-----------------------------------------------------------------------------
Interpreter(t) ==
  \/ AcquireGil(t)
  \/ ReleaseGil(t)
  \/ \E p \in Pools, a \in Addr : CreatePool(t, p, a)
  \/ \E p \in Pools : DropPool(t, p)
  \/ \E p \in Pools : CollectPool(t, p)

(* The steps of a call that is under way.                                  *)
Step(t) ==
  \/ GetPoolFromPythonPool(t)
  \/ FindCached(t)
  \/ AskDatabase(t)
  \/ FindFile(t)
  \/ FindFileRaises(t)
  \/ ErrorPrinted(t)
  \/ LoadImport(t)
  \/ CrossLink(t)
  \/ GetPrototype(t)
  \/ GetPrototypeOfMovedSlot(t)

Next == \E t \in Threads :
  \/ Interpreter(t)
  \/ \E p \in Pools, n \in Names, x \in Names \cup {Null} : LoadMessage(t, p, n, x)
  \/ Step(t)

Spec == Init /\ [][Next]_vars

(* A thread that holds the GIL in C++ code runs on; the interpreter takes  *)
(* the GIL from running bytecode at its switch interval; a lookup's Python *)
(* code that has given up the GIL gets it again, and comes to its end.     *)
Fairness == \A t \in Threads :
  /\ WF_vars(Step(t))
  /\ SF_vars(pc[t] = "outside" /\ ReleaseGil(t))
  /\ SF_vars(pc[t] \in InPython /\ AcquireGil(t))
  /\ SF_vars(pc[t] \in InPython /\ Step(t))

FairSpec == Spec /\ Fairness

-----------------------------------------------------------------------------
(* A Python pool whose address is a key of pools_map is alive at that      *)
(* address, so a cached entry is never that of an earlier object that had  *)
(* the address of a new pool (DescriptorPoolDatabase::pool_).              *)
CachedPoolAlive ==
  \A a \in Addr : database[a] # Null => where[database[a]] = a

(* A message is made from the definitions of the pool its src came from,   *)
(* whichever pools lived and died in the meantime; it is of the compiled   *)
(* class exactly when that is the default pool and the class is linked in. *)
MessageOfItsOwnPool ==
  \A m \in messages :
    /\ m.from = m.asked
    /\ m.compiled <=> m.asked = DefaultPool /\ m.name \in Generated

(* The descriptor of a C++ message exists as long as the message may: it   *)
(* may outlive every reference the program holds to the Python pool.       *)
MessageDescriptorsAlive ==
  \A m \in messages : \E a \in Addr :
    database[a] = m.from /\ m.name \in Visible(a)

(* "The result stays cached": no step takes an entry out of pools_map, or  *)
(* replaces the pool of an entry and with it the descriptors it has built. *)
EntriesKept ==
  \A a \in Addr :
    /\ database[a] # Null => database'[a] = database[a]
    /\ built[a] \subseteq built'[a]

ResultStaysCached == [][EntriesKept]_vars

(* The abstract promise.  Types learnt from a Python pool are those of the *)
(* entry whose database wraps it.                                          *)
Promise == INSTANCE DescriptorCache WITH
  Compiled <- [p \in Pools |-> IF p = DefaultPool THEN Generated ELSE {}],
  known <- [p \in Pools |-> UNION {built[a] : a \in {b \in Addr : database[b] = p}}],
  made <- {<<m.asked, m.name>> : m \in messages}

(* Whatever threads do to each other and whichever lookups fail, the pools *)
(* act as one cache per Python pool: nothing learnt is forgotten, nothing  *)
(* is learnt before its imports or from another pool, and every message is *)
(* made of a type its own pool knows.                                      *)
ActsAsCache == Promise!Spec

(* pool_data, a pointer into the slots of pools_map, is followed a second  *)
(* time after a lookup that may have run Python: until then the slots must *)
(* not move from where they were when GetPoolFromPythonPool returned it.   *)
PoolDataValid ==
  \A t \in Threads :
    /\ stage[t] = "message"
    /\ pc[t] \in {"find", "get_prototype"} \cup Building
    => PointerValid(t)

(* Where lookups that succeed run no bytecode, that second use is good.    *)
(* Printing an error lets other threads in, which may move the slots; but  *)
(* then a file is missing, so the lookup fails and the pointer, although   *)
(* it dangles, is not followed again.                                      *)
FollowedPointerValid ==
  \A t \in Threads :
    /\ pc[t] \in {"get_prototype", "undefined"}
    /\ call[t].pool \notin Yielding
    => PointerValid(t)

(* A thread that has the GIL waits for the mutex of a pool only if another *)
(* thread is inside Python, in a lookup or printing its error: no mutex is *)
(* left locked, and none is held by C++ code that has lost the GIL.        *)
OnlyPythonIsWaitedFor ==
  \A t \in Threads :
    LET owner == mutex[pool_data[t].addr] IN
    gil = t /\ pc[t] = "find" /\ owner # Null =>
      owner # t /\ pc[owner] \in InPython

(* One thread has the GIL and waits for a mutex, whose owner waits for the *)
(* GIL in the middle of a lookup.                                          *)
LockCycle ==
  \E t, u \in Threads :
    gil = t /\ pc[t] = "find" /\ mutex[pool_data[t].addr] = u /\ pc[u] \in InPython

(* "The Python pool will provide message definitions when they are         *)
(* needed": every call of the caster returns or throws.                    *)
EveryCallReturns ==
  \A t \in Threads : pc[t] # "outside" ~> pc[t] = "outside"

(* Nothing else than a lock cycle, or the end of defined behaviour, keeps  *)
(* a call from returning: whichever lookups fail, and however often the    *)
(* GIL changes hands in them.                                              *)
CallsReturnUnlessStuck ==
  \A t \in Threads :
    pc[t] # "outside" ~>
      pc[t] = "outside" \/ LockCycle \/ \E u \in Threads : pc[u] = "undefined"
=============================================================================
