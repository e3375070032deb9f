----------------------------- MODULE GlobalState -----------------------------
(***************************************************************************)
(* GlobalState of proto_cast_util.cc: the singleton that is built once,    *)
(* its cache of Python modules, and PyMessageInstance, which makes the     *)
(* Python message for a C++ one.  Importing a module runs Python, so other *)
(* threads get the GIL while GlobalState is being built and between the    *)
(* lookup of a module in the cache and its insertion.                      *)
(***************************************************************************)
EXTENDS Naturals, FiniteSets

CONSTANTS
  Threads,      \* Python threads
  Types,        \* message types of C++ messages that are cast to Python
  ProtoModules, \* the Python modules of .proto files
  Google,       \* the module of the protobuf runtime that is imported last
  Extensions,   \* extension modules, whose initialization calls
                \* ImportNativeProtoCasters or ImportWrappedProtoCasters
  ModuleOf,     \* InferPythonModuleNameFromDescriptorFileName of a type's file
  Provides,     \* the types that a module defines
  Importable,   \* the modules that are installed
  Linked,       \* the types the default pool knows from the start
  Null

Modules == ProtoModules \cup {Google} \cup Extensions

ASSUME GlobalStateAssumption ==
  /\ ModuleOf \in [Types -> ProtoModules]
  /\ Provides \in [Modules -> SUBSET Types]
  /\ Importable \subseteq Modules
  /\ Linked \subseteq Types
  /\ Google \notin ProtoModules \cup Extensions
  /\ ProtoModules \cap Extensions = {}
  /\ Null \notin Threads \cup Modules \cup Types

VARIABLES
  gil,           \* the thread that holds the GIL
  loaded,        \* sys.modules: the modules whose code has run to its end
  importer,      \* the thread that holds the import lock of a module
  pool,          \* the types the Python default pool knows
  once,          \* the thread inside std::call_once
  initialized,   \* is_initialized_ of the stored GlobalState
  global_pool,   \* whether global_pool_ and its methods are set
  import_cache,  \* import_cache_: the names of its modules
  pc,            \* where each thread is
  task,          \* what it was asked to do
  desc,          \* the type it casts
  module,        \* the module it imports
  ext,           \* the extension module it is initializing
  made,          \* the types a Python message was ever made of
  promised       \* whether the type of a thread's cast was one of them, or its
                 \* module loaded, when the cast began

python == <<loaded, importer, pool>>
state  == <<once, initialized, global_pool, import_cache>>
locals == <<task, desc, module, ext>>
history == <<made, promised>>
vars == <<gil, python, state, pc, locals, history>>

(***************************************************************************)
(* "once": waits for the flag of std::call_once.  "enter" and "leave":     *)
(* has the flag, before it takes the GIL and after it gave it back.        *)
(* "lock": waits for an import lock.  "exec": a module's code is running.  *)
(* "imported", "not_imported": py::module_::import returns or throws.      *)
(***************************************************************************)
Label == {"outside", "instance", "once", "enter", "construct", "leave",
          "lookup", "find", "import_cached", "lock", "exec", "imported", "not_imported",
          "resolve", "type_error", "attribute_error"}

Task == {"none", "initialize", "cast", "descriptor_module", "program"}

TypeOK ==
  /\ gil \in Threads \cup {Null}
  /\ loaded \subseteq Modules
  /\ importer \in [Modules -> Threads \cup {Null}]
  /\ pool \subseteq Types
  /\ once \in Threads \cup {Null}
  /\ initialized \in BOOLEAN
  /\ global_pool \in BOOLEAN
  /\ import_cache \subseteq Modules
  /\ pc \in [Threads -> Label]
  /\ task \in [Threads -> Task]
  /\ desc \in [Threads -> Types \cup {Null}]
  /\ module \in [Threads -> Modules \cup {Null}]
  /\ ext \in [Threads -> Extensions \cup {Null}]
  /\ made \subseteq Types
  /\ promised \in [Threads -> BOOLEAN]

Goto(t, label) == pc' = [pc EXCEPT ![t] = label]

Init ==
  /\ gil = Null
  /\ loaded = {}
  /\ importer = [m \in Modules |-> Null]
  /\ pool = Linked
  /\ once = Null
  /\ initialized = FALSE
  /\ global_pool = FALSE
  /\ import_cache = {}
  /\ pc = [t \in Threads |-> "outside"]
  /\ task = [t \in Threads |-> "none"]
  /\ desc = [t \in Threads |-> Null]
  /\ module = [t \in Threads |-> Null]
  /\ ext = [t \in Threads |-> Null]
  /\ made = {}
  /\ promised = [t \in Threads |-> FALSE]

-----------------------------------------------------------------------------
(* The interpreter (external). *)

(* A thread that waits for a lock or a flag does not ask for the GIL.      *)
WantsGil(t) ==
  \/ pc[t] \in {"outside", "instance", "enter", "exec"}
  \/ pc[t] = "lock" /\ importer[module[t]] = Null

AcquireGil(t) ==
  /\ gil = Null
  /\ WantsGil(t)
  /\ gil' = t
  /\ UNCHANGED <<python, state, pc, locals, history>>

(* At the switch interval, or because the thread must wait for a lock.     *)
ReleaseGil(t) ==
  /\ gil = t
  /\ \/ pc[t] \in {"outside", "exec"}
     \/ pc[t] = "lock" /\ importer[module[t]] # Null
  /\ gil' = Null
  /\ UNCHANGED <<python, state, pc, locals, history>>

(* A module that another thread is importing is waited for.                *)
Lock(t) ==
  LET m == module[t] IN
  /\ gil = t
  /\ pc[t] = "lock"
  /\ importer[m] = Null
  /\ \/ /\ m \in loaded
        /\ Goto(t, "imported")
        /\ UNCHANGED importer
     \/ /\ m \notin loaded
        /\ m \in Importable
        /\ importer' = [importer EXCEPT ![m] = t]
        /\ Goto(t, "exec")
     \/ /\ m \notin Importable
        /\ Goto(t, "not_imported")
        /\ UNCHANGED importer
  /\ UNCHANGED <<gil, loaded, pool, state, locals, history>>

(* The module adds its file to the default pool before it makes classes.   *)
AddToPool(t) ==
  /\ gil = t
  /\ pc[t] = "exec"
  /\ ~ Provides[module[t]] \subseteq pool
  /\ pool' = pool \cup Provides[module[t]]
  /\ UNCHANGED <<gil, loaded, importer, state, pc, locals, history>>

(* Its code ends, or raises.                                               *)
EndOfModule(t) ==
  LET m == module[t] IN
  /\ gil = t
  /\ pc[t] = "exec"
  /\ importer' = [importer EXCEPT ![m] = Null]
  /\ \/ /\ Provides[m] \subseteq pool
        /\ loaded' = loaded \cup {m}
        /\ Goto(t, "imported")
     \/ /\ Goto(t, "not_imported")
        /\ UNCHANGED loaded
  /\ UNCHANGED <<gil, pool, state, locals, history>>

-----------------------------------------------------------------------------
(* The program (external) calls. *)

Begin(t, job) ==
  /\ gil = t
  /\ pc[t] = "outside"
  /\ task' = [task EXCEPT ![t] = job]

(* The call returns or throws.                                             *)
Return(t) ==
  /\ Goto(t, "outside")
  /\ task' = [task EXCEPT ![t] = "none"]
  /\ desc' = [desc EXCEPT ![t] = Null]
  /\ module' = [module EXCEPT ![t] = Null]
  /\ promised' = [promised EXCEPT ![t] = FALSE]

(* The initialization of an extension module runs under its import lock.   *)
InitializePybindProtoCastUtil(t, x) ==
  /\ Begin(t, "initialize")
  /\ x \notin loaded
  /\ importer[x] = Null
  /\ importer' = [importer EXCEPT ![x] = t]
  /\ ext' = [ext EXCEPT ![t] = x]
  /\ Goto(t, "instance")
  /\ UNCHANGED <<gil, loaded, pool, state, desc, module, history>>

(* A C++ message of the type is returned to Python.                        *)
GenericPyProtoCast(t, d) ==
  /\ Begin(t, "cast")
  /\ desc' = [desc EXCEPT ![t] = d]
  /\ promised' = [promised EXCEPT ![t] = d \in made \/ ModuleOf[d] \in loaded]
  /\ Goto(t, "instance")
  /\ UNCHANGED <<gil, python, state, module, ext, made>>

ImportProtoDescriptorModule(t, d) ==
  /\ Begin(t, "descriptor_module")
  /\ desc' = [desc EXCEPT ![t] = d]
  /\ Goto(t, "instance")
  /\ UNCHANGED <<gil, python, state, module, ext, history>>

(* An import statement of the program.                                     *)
ImportByProgram(t, m) ==
  /\ Begin(t, "program")
  /\ module' = [module EXCEPT ![t] = m]
  /\ Goto(t, "lock")
  /\ UNCHANGED <<gil, python, state, desc, ext, history>>

-----------------------------------------------------------------------------
(* GlobalState::instance(): gil_safe_call_once_and_store lets the GIL go   *)
(* before it enters std::call_once, and takes it again inside.             *)

AfterInstance(t) ==
  CASE task[t] = "cast" -> Goto(t, "lookup") /\ UNCHANGED <<python, locals, promised>>
    [] task[t] = "descriptor_module" ->
         /\ module' = [module EXCEPT ![t] = ModuleOf[desc[t]]]
         /\ Goto(t, "import_cached")
         /\ UNCHANGED <<python, task, desc, ext, promised>>
    [] OTHER ->  \* the extension module is ready
         /\ loaded' = loaded \cup {ext[t]}
         /\ importer' = [importer EXCEPT ![ext[t]] = Null]
         /\ ext' = [ext EXCEPT ![t] = Null]
         /\ Return(t)
         /\ UNCHANGED pool

Instance(t) ==
  /\ gil = t
  /\ pc[t] = "instance"
  /\ initialized
  /\ AfterInstance(t)
  /\ UNCHANGED <<gil, state, made>>

GilInOnceMutant(t) == t  \* a function-local static instead

(* "gil_scoped_release gil_rel".                                           *)
GilInOnce(t) == Null

CallOnce(t) ==
  /\ gil = t
  /\ pc[t] = "instance"
  /\ ~initialized
  /\ gil' = GilInOnce(t)
  /\ Goto(t, "once")
  /\ UNCHANGED <<python, state, locals, history>>

(* The flag is free: the lambda will take the GIL for the constructor; or  *)
(* another thread has run it, and the caller will take the GIL back.       *)
EnterOnce(t) ==
  /\ pc[t] = "once"
  /\ once = Null
  /\ \/ ~initialized /\ once' = t /\ Goto(t, "enter")
     \/ initialized /\ Goto(t, "instance") /\ UNCHANGED once
  /\ UNCHANGED <<gil, python, initialized, global_pool, import_cache, locals, history>>

(* The constructor imports the modules of the protobuf runtime.            *)
StartConstructor(t) ==
  /\ gil = t
  /\ pc[t] = "enter"
  /\ module' = [module EXCEPT ![t] = Google]
  /\ Goto(t, "import_cached")
  /\ UNCHANGED <<gil, python, state, task, desc, ext, history>>

(* It ends.  When an import has raised, all its members but import_cache_  *)
(* are reset, for good.                                                    *)
EndConstructor(t) ==
  /\ gil = t
  /\ pc[t] = "construct"
  /\ global_pool' = (module[t] # Null)
  /\ initialized' = TRUE
  /\ gil' = Null
  /\ module' = [module EXCEPT ![t] = Null]
  /\ Goto(t, "leave")
  /\ UNCHANGED <<python, once, import_cache, task, desc, ext, history>>

LeaveOnce(t) ==
  /\ pc[t] = "leave"
  /\ once' = Null
  /\ Goto(t, "instance")
  /\ UNCHANGED <<gil, python, initialized, global_pool, import_cache, locals, history>>

-----------------------------------------------------------------------------
(* ImportCached *)

Constructing(t) == once = t

Found(t) == module[t] \in import_cache

AfterImport(t) ==
  IF Constructing(t) THEN Goto(t, "construct") /\ UNCHANGED <<locals, promised>>
  ELSE IF task[t] = "cast" THEN Goto(t, "resolve") /\ UNCHANGED <<locals, promised>>
  ELSE Return(t) /\ UNCHANGED ext

CacheBeforeImportMutant(t) == import_cache' = import_cache \cup {module[t]}

(* Nothing is put in the cache before the module has been imported.        *)
CacheBeforeImport(t) == UNCHANGED import_cache

ImportCached(t) ==
  /\ gil = t
  /\ pc[t] = "import_cached"
  /\ \/ /\ Found(t)
        /\ AfterImport(t)
        /\ UNCHANGED import_cache
     \/ /\ ~Found(t)
        /\ Goto(t, "lock")
        /\ CacheBeforeImport(t)
        /\ UNCHANGED <<locals, promised>>
  /\ UNCHANGED <<gil, python, once, initialized, global_pool, made>>

CacheKeyMutant(t) == desc[t]  \* the name of the type

CacheKey(t) == module[t]

(* "import_cache_[module_name] = module".                                  *)
CacheModule(t) ==
  /\ gil = t
  /\ pc[t] = "imported"
  /\ import_cache' = IF task[t] = "program" THEN import_cache
                     ELSE import_cache \cup {CacheKey(t)}
  /\ AfterImport(t)
  /\ UNCHANGED <<gil, python, once, initialized, global_pool, made>>

(* The constructor and ImportProtoDescriptorModule print the error and     *)
(* clear it; PyMessageInstance throws a type_error.                        *)
ImportThrows(t) ==
  /\ gil = t
  /\ pc[t] = "not_imported"
  /\ IF Constructing(t)
     THEN /\ module' = [module EXCEPT ![t] = Null]
          /\ Goto(t, "construct")
          /\ UNCHANGED <<task, desc, ext, promised>>
     ELSE IF task[t] = "cast"
     THEN Goto(t, "type_error") /\ UNCHANGED <<locals, promised>>
     ELSE Return(t) /\ UNCHANGED ext
  /\ UNCHANGED <<gil, python, state, made>>

-----------------------------------------------------------------------------
(* PyMessageInstance *)

(* A module of import_cache_ is asked without a second thought: an         *)
(* AttributeError of ResolveDescriptor leaves the function.                *)
HasClass(m, d) == m \in loaded /\ d \in Provides[m]

Make(t) ==
  /\ made' = made \cup {desc[t]}
  /\ Return(t)
  /\ UNCHANGED ext

LookupModule(t) ==
  LET m == ModuleOf[desc[t]] IN
  /\ gil = t
  /\ pc[t] = "lookup"
  /\ \/ m \in import_cache /\ HasClass(m, desc[t]) /\ Make(t)
     \/ /\ m \in import_cache
        /\ ~HasClass(m, desc[t])
        /\ Goto(t, "attribute_error")
        /\ UNCHANGED <<locals, history>>
     \/ /\ m \notin import_cache
        /\ Goto(t, "find")
        /\ UNCHANGED <<locals, history>>
  /\ UNCHANGED <<gil, python, state>>

InGlobalPool(t) == global_pool /\ desc[t] \in pool

(* The class is taken from the pool; any error of that is cleared, and the *)
(* module is imported instead.                                             *)
FindMessageTypeByName(t) ==
  /\ gil = t
  /\ pc[t] = "find"
  /\ \/ InGlobalPool(t) /\ Make(t)
     \/ /\ ~InGlobalPool(t)
        /\ module' = [module EXCEPT ![t] = ModuleOf[desc[t]]]
        /\ Goto(t, "import_cached")
        /\ UNCHANGED <<task, desc, ext, history>>
  /\ UNCHANGED <<gil, python, state>>

(* This AttributeError is printed and cleared, and a type_error thrown.    *)
ResolveDescriptor(t) ==
  /\ gil = t
  /\ pc[t] = "resolve"
  /\ \/ HasClass(module[t], desc[t]) /\ Make(t)
     \/ /\ ~HasClass(module[t], desc[t])
        /\ Goto(t, "type_error")
        /\ UNCHANGED <<locals, history>>
  /\ UNCHANGED <<gil, python, state>>

Throw(t) ==
  /\ gil = t
  /\ pc[t] \in {"type_error", "attribute_error"}
  /\ Return(t)
  /\ UNCHANGED <<gil, python, state, ext, made>>

-----------------------------------------------------------------------------
Interpreter(t) == AcquireGil(t) \/ ReleaseGil(t)

Program(t) ==
  \/ \E x \in Extensions : InitializePybindProtoCastUtil(t, x)
  \/ \E d \in Types : GenericPyProtoCast(t, d)
  \/ \E d \in Types : ImportProtoDescriptorModule(t, d)
  \/ \E m \in ProtoModules : ImportByProgram(t, m)

Step(t) ==
  \/ Lock(t)
  \/ AddToPool(t)
  \/ EndOfModule(t)
  \/ Instance(t)
  \/ CallOnce(t)
  \/ EnterOnce(t)
  \/ StartConstructor(t)
  \/ EndConstructor(t)
  \/ LeaveOnce(t)
  \/ ImportCached(t)
  \/ CacheModule(t)
  \/ ImportThrows(t)
  \/ LookupModule(t)
  \/ FindMessageTypeByName(t)
  \/ ResolveDescriptor(t)
  \/ Throw(t)

Next == \E t \in Threads : Interpreter(t) \/ Program(t) \/ Step(t)

Spec == Init /\ [][Next]_vars

(* A thread that holds the GIL, or that needs none, runs on; the           *)
(* interpreter takes the GIL from running Python and gives it to every     *)
(* thread that asks for it.                                                *)
Fairness == \A t \in Threads :
  /\ WF_vars(Step(t))
  /\ SF_vars(pc[t] = "outside" /\ ReleaseGil(t))
  /\ WF_vars(pc[t] = "lock" /\ ReleaseGil(t))
  /\ SF_vars(pc[t] # "outside" /\ AcquireGil(t))
  /\ SF_vars(pc[t] = "exec" /\ EndOfModule(t))

FairSpec == Spec /\ Fairness

-----------------------------------------------------------------------------
(* The cache holds modules whose code has run to its end, although other   *)
(* threads ask for a module while it is being imported.                    *)
CachedModulesComplete == import_cache \subseteq loaded

(* A cast of a type whose module, by the inferred name, does define it     *)
(* cannot fail any more once the type has been cast or that module has     *)
(* been imported: whatever path the first cast took, whatever other        *)
(* threads import, and even if GlobalState could not be constructed.       *)
PromisedCastSucceeds ==
  \A t \in Threads :
    /\ pc[t] \in {"type_error", "attribute_error"}
    /\ desc[t] \in Provides[ModuleOf[desc[t]]]
    => ~promised[t]

(* The GIL, the flag of call_once and the import locks never wait for each *)
(* other in a circle: every call returns or throws.                        *)
EveryCallReturns ==
  \A t \in Threads : pc[t] # "outside" ~> pc[t] = "outside"
=============================================================================
