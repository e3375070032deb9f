-------------------------- MODULE GlobalStateProofs --------------------------
(***************************************************************************)
(* Proofs about GlobalState, for any threads, modules, types and inferred  *)
(* module names.                                                           *)
(***************************************************************************)
EXTENDS GlobalState, TLAPS

Importing == {"import_cached", "lock", "exec", "imported", "not_imported"}
InOnce    == {"enter", "construct", "leave"}
Users     == {"initialize", "cast", "descriptor_module"}  \* of GlobalState

(* How a cast of a type can find the class.                                *)
Sure(d) == (global_pool /\ d \in pool) \/ ModuleOf[d] \in loaded

TaskInv(t) ==
  /\ pc[t] = "outside" => task[t] = "none"
  /\ pc[t] \in {"instance", "once"} => task[t] \in Users
  /\ pc[t] \in {"lookup", "find", "resolve", "type_error", "attribute_error"} =>
       task[t] = "cast"
  /\ task[t] \in {"cast", "descriptor_module"} => desc[t] \in Types
  /\ task[t] = "initialize" => ext[t] \in Extensions

(* Who is inside std::call_once, and that it is the first time.            *)
OnceInv(t) ==
  /\ pc[t] \in InOnce => once = t
  /\ once = t => /\ pc[t] \in InOnce \cup Importing
                 /\ task[t] \in Users
                 /\ pc[t] # "leave" => ~initialized

ModuleInv(t) ==
  /\ pc[t] \in Importing => module[t] \in Modules
  /\ /\ \/ pc[t] \in Importing /\ once # t
        \/ pc[t] = "resolve"
     /\ task[t] = "cast"
     => module[t] = ModuleOf[desc[t]]
  /\ pc[t] \in {"imported", "resolve"} => module[t] \in loaded
  /\ pc[t] = "exec" => module[t] \in Importable

PromiseInv(t) ==
  /\ promised[t] => task[t] = "cast" /\ Sure(desc[t])
  /\ promised[t] /\ pc[t] \in Importing /\ once # t =>
       module[t] \in loaded /\ pc[t] \notin {"exec", "not_imported"}
  /\ pc[t] \in {"type_error", "attribute_error"} /\ desc[t] \in Provides[ModuleOf[desc[t]]] =>
       ~promised[t]

Local(t) == TaskInv(t) /\ OnceInv(t) /\ ModuleInv(t) /\ PromiseInv(t)

Shared ==
  /\ import_cache \subseteq loaded
  /\ loaded \cap ProtoModules \subseteq Importable
  /\ global_pool => initialized
  /\ \A d \in made : Sure(d)

IInv == TypeOK /\ Shared /\ \A t \in Threads : Local(t)

-----------------------------------------------------------------------------
(* What a step of one thread leaves to the others: nothing that was there  *)
(* is taken away, and only the thread inside std::call_once lets others in.*)
Grows == loaded \subseteq loaded' /\ pool \subseteq pool' /\ (global_pool => global_pool')

Alone(t) ==
  \A u \in Threads \ {t} :
    /\ pc'[u] = pc[u] /\ task'[u] = task[u] /\ desc'[u] = desc[u]
    /\ module'[u] = module[u] /\ ext'[u] = ext[u] /\ promised'[u] = promised[u]
    /\ once' = u <=> once = u
    /\ once = u => initialized' = initialized

Changes(t) == TypeOK' /\ Shared' /\ Grows /\ Alone(t) /\ Local(t)'

LEMMA ChangesInv ==
  ASSUME IInv, NEW t \in Threads, Changes(t) PROVE IInv'
<1>1. ASSUME NEW u \in Threads \ {t} PROVE Local(u)'
  <2>1. TaskInv(u)' /\ OnceInv(u)'
    BY DEF Changes, Alone, IInv, Local, TaskInv, OnceInv
  <2>2. ModuleInv(u)' /\ PromiseInv(u)'
    BY DEF Changes, Alone, Grows, IInv, Local, ModuleInv, PromiseInv, Sure
  <2> QED
    BY <2>1, <2>2 DEF Local
<1> QED
  BY <1>1 DEF Changes, IInv

LEMMA InitInv == Init => IInv
<1> SUFFICES ASSUME Init PROVE IInv
  OBVIOUS
<1> USE GlobalStateAssumption DEF Init
<1>1. TypeOK
  BY DEF TypeOK, Label, Task
<1>2. Shared
  BY DEF Shared
<1>3. \A t \in Threads : Local(t)
  BY DEF Local, TaskInv, OnceInv, ModuleInv, PromiseInv, InOnce, Importing
<1> QED
  BY <1>1, <1>2, <1>3 DEF IInv

-----------------------------------------------------------------------------
LEMMA InterpreterChanges ==
  ASSUME IInv, NEW t \in Threads, Interpreter(t) PROVE Changes(t)
<1> USE DEF Interpreter, AcquireGil, ReleaseGil, python, state, locals, history
<1>1. TypeOK' /\ Grows /\ Alone(t)
  BY DEF IInv, TypeOK, Grows, Alone
<1>2. Shared'
  BY DEF IInv, Shared, Sure
<1>3. Local(t)'
  BY DEF IInv, Local, TaskInv, OnceInv, ModuleInv, PromiseInv, Sure
<1> QED
  BY <1>1, <1>2, <1>3 DEF Changes

LEMMA LockChanges ==
  ASSUME IInv, NEW t \in Threads, Lock(t) PROVE Changes(t)
<1> USE DEF Lock, Goto, state, locals, history
<1>1. TypeOK' /\ Grows /\ Alone(t)
  <2>1. module[t] \in Modules
    BY DEF IInv, Local, ModuleInv, Importing
  <2>2. importer' \in [Modules -> Threads \cup {Null}] /\ pc' \in [Threads -> Label]
    BY DEF IInv, TypeOK, Label
  <2> QED
    BY <2>2 DEF IInv, TypeOK, Grows, Alone
<1>2. Shared'
  BY DEF IInv, Shared, Sure
<1>3. Local(t)'
  <2>1. TaskInv(t)' /\ OnceInv(t)'
    BY DEF IInv, TypeOK, Local, TaskInv, OnceInv, InOnce, Importing
  <2>2. ModuleInv(t)'
    BY DEF IInv, TypeOK, Local, ModuleInv, Importing
  <2>3. PromiseInv(t)'
    BY GlobalStateAssumption
       DEF IInv, TypeOK, Shared, Local, TaskInv, ModuleInv, PromiseInv, Sure, Importing
  <2> QED
    BY <2>1, <2>2, <2>3 DEF Local
<1> QED
  BY <1>1, <1>2, <1>3 DEF Changes

LEMMA AddToPoolChanges ==
  ASSUME IInv, NEW t \in Threads, AddToPool(t) PROVE Changes(t)
<1> USE DEF AddToPool, state, locals, history
<1>1. TypeOK' /\ Grows /\ Alone(t)
  <2>1. module[t] \in Modules
    BY DEF IInv, Local, ModuleInv, Importing
  <2> QED
    BY <2>1, GlobalStateAssumption DEF IInv, TypeOK, Grows, Alone
<1>2. Shared'
  BY DEF IInv, Shared, Sure
<1>3. Local(t)'
  BY DEF IInv, Local, TaskInv, OnceInv, ModuleInv, PromiseInv, Sure
<1> QED
  BY <1>1, <1>2, <1>3 DEF Changes

LEMMA EndOfModuleChanges ==
  ASSUME IInv, NEW t \in Threads, EndOfModule(t) PROVE Changes(t)
<1> USE DEF EndOfModule, Goto, state, locals, history
<1>1. module[t] \in Modules /\ module[t] \in Importable
  BY DEF IInv, Local, ModuleInv, Importing
<1>2. TypeOK' /\ Grows /\ Alone(t)
  <2>1. importer' \in [Modules -> Threads \cup {Null}] /\ pc' \in [Threads -> Label]
    BY DEF IInv, TypeOK, Label
  <2> QED
    BY <1>1, <2>1 DEF IInv, TypeOK, Grows, Alone
<1>3. Shared'
  BY <1>1 DEF IInv, Shared, Sure
<1>4. Local(t)'
  <2>1. TaskInv(t)' /\ OnceInv(t)'
    BY DEF IInv, TypeOK, Local, TaskInv, OnceInv, InOnce, Importing
  <2>2. ModuleInv(t)'
    BY DEF IInv, TypeOK, Local, ModuleInv, Importing
  <2>3. PromiseInv(t)'
    BY DEF IInv, TypeOK, Local, PromiseInv, Sure, Importing
  <2> QED
    BY <2>1, <2>2, <2>3 DEF Local
<1> QED
  BY <1>2, <1>3, <1>4 DEF Changes

LEMMA ProgramChanges ==
  ASSUME IInv, NEW t \in Threads, Program(t) PROVE Changes(t)
<1> USE DEF Begin, Goto, python, state, locals, history
<1>1. ASSUME NEW x \in Extensions, InitializePybindProtoCastUtil(t, x) PROVE Changes(t)
  <2> USE <1>1 DEF InitializePybindProtoCastUtil
  <2>1. TypeOK' /\ Grows /\ Alone(t)
    BY DEF IInv, TypeOK, Grows, Alone, Label, Task, Modules
  <2>2. Shared'
    BY DEF IInv, Shared, Sure
  <2>3. TaskInv(t)' /\ OnceInv(t)' /\ ModuleInv(t)'
    BY DEF IInv, TypeOK, Local, TaskInv, OnceInv, ModuleInv, InOnce, Importing, Users, Modules
  <2>4. PromiseInv(t)'
    BY DEF IInv, TypeOK, Local, TaskInv, PromiseInv
  <2> QED
    BY <2>1, <2>2, <2>3, <2>4 DEF Changes, Local
<1>2. ASSUME NEW d \in Types, GenericPyProtoCast(t, d) PROVE Changes(t)
  <2> USE <1>2 DEF GenericPyProtoCast
  <2>1. TypeOK' /\ Grows /\ Alone(t)
    <3>1. (d \in made \/ ModuleOf[d] \in loaded) \in BOOLEAN
      OBVIOUS
    <3>2. promised' \in [Threads -> BOOLEAN]
      BY <3>1 DEF IInv, TypeOK
    <3> QED
      BY <3>2 DEF IInv, TypeOK, Grows, Alone, Label, Task
  <2>2. Shared'
    BY DEF IInv, Shared, Sure
  <2>3. TaskInv(t)' /\ OnceInv(t)' /\ ModuleInv(t)'
    BY DEF IInv, TypeOK, Local, TaskInv, OnceInv, ModuleInv, InOnce, Importing, Users
  <2>4. PromiseInv(t)'
    BY DEF IInv, TypeOK, Shared, PromiseInv, Sure, Importing
  <2> QED
    BY <2>1, <2>2, <2>3, <2>4 DEF Changes, Local
<1>3. ASSUME NEW d \in Types, ImportProtoDescriptorModule(t, d) PROVE Changes(t)
  <2> USE <1>3 DEF ImportProtoDescriptorModule
  <2>1. TypeOK' /\ Grows /\ Alone(t)
    BY DEF IInv, TypeOK, Grows, Alone, Label, Task
  <2>2. Shared'
    BY DEF IInv, Shared, Sure
  <2>3. TaskInv(t)' /\ OnceInv(t)' /\ ModuleInv(t)'
    BY DEF IInv, TypeOK, Local, TaskInv, OnceInv, ModuleInv, InOnce, Importing, Users, Modules
  <2>4. PromiseInv(t)'
    BY DEF IInv, TypeOK, Local, TaskInv, PromiseInv
  <2> QED
    BY <2>1, <2>2, <2>3, <2>4 DEF Changes, Local
<1>4. ASSUME NEW m \in ProtoModules, ImportByProgram(t, m) PROVE Changes(t)
  <2> USE <1>4 DEF ImportByProgram
  <2>1. TypeOK' /\ Grows /\ Alone(t)
    BY DEF IInv, TypeOK, Grows, Alone, Label, Task, Modules
  <2>2. Shared'
    BY DEF IInv, Shared, Sure
  <2>3. TaskInv(t)' /\ OnceInv(t)' /\ ModuleInv(t)'
    BY DEF IInv, TypeOK, Local, TaskInv, OnceInv, ModuleInv, InOnce, Importing, Users, Modules
  <2>4. PromiseInv(t)'
    BY DEF IInv, TypeOK, Local, TaskInv, PromiseInv
  <2> QED
    BY <2>1, <2>2, <2>3, <2>4 DEF Changes, Local
<1> QED
  BY <1>1, <1>2, <1>3, <1>4 DEF Program

(* A thread whose call has ended.                                          *)
LEMMA Returned ==
  ASSUME IInv, NEW t \in Threads, Return(t), once # t, once' = once,
         \A u \in Threads \ {t} : ext'[u] = ext[u]
  PROVE  /\ Local(t)' /\ (Alone(t) \/ initialized' # initialized)
         /\ pc' \in [Threads -> Label] /\ task' \in [Threads -> Task]
         /\ desc' \in [Threads -> Types \cup {Null}]
         /\ module' \in [Threads -> Modules \cup {Null}]
         /\ promised' \in [Threads -> BOOLEAN]
<1> USE DEF Return, Goto
<1>1. /\ pc' \in [Threads -> Label] /\ task' \in [Threads -> Task]
      /\ desc' \in [Threads -> Types \cup {Null}]
      /\ module' \in [Threads -> Modules \cup {Null}]
      /\ promised' \in [Threads -> BOOLEAN]
  BY DEF IInv, TypeOK, Label, Task
<1>2. pc'[t] = "outside" /\ task'[t] = "none" /\ promised'[t] = FALSE
  BY DEF IInv, TypeOK
<1>3. Local(t)'
  BY <1>2 DEF Local, TaskInv, OnceInv, ModuleInv, PromiseInv, InOnce, Importing
<1>4. Alone(t) \/ initialized' # initialized
  BY DEF Alone, IInv, TypeOK
<1> QED
  BY <1>1, <1>3, <1>4

LEMMA InstanceChanges ==
  ASSUME IInv, NEW t \in Threads, Instance(t) PROVE Changes(t)
<1> USE DEF Instance, state
<1>1. task[t] \in Users /\ once # t
  BY DEF IInv, Local, TaskInv, OnceInv, InOnce, Importing
<1>2. CASE task[t] = "cast"
  <2> USE <1>2 DEF AfterInstance, Goto, python, locals
  <2>1. TypeOK' /\ Grows /\ Alone(t) /\ Shared'
    BY DEF IInv, TypeOK, Label, Grows, Alone, Shared, Sure
  <2>2. Local(t)'
    BY <1>1 DEF IInv, TypeOK, Local, TaskInv, OnceInv, ModuleInv, PromiseInv, Sure, InOnce,
                Importing
  <2> QED
    BY <2>1, <2>2 DEF Changes
<1>3. CASE task[t] = "descriptor_module"
  <2> USE <1>3 DEF AfterInstance, Goto, python
  <2>1. ModuleOf[desc[t]] \in Modules
    BY GlobalStateAssumption DEF IInv, Local, TaskInv, Modules
  <2>2. TypeOK' /\ Grows /\ Alone(t) /\ Shared'
    BY <2>1 DEF IInv, TypeOK, Label, Grows, Alone, Shared, Sure
  <2>3. Local(t)'
    BY <1>1, <2>1 DEF IInv, TypeOK, Local, TaskInv, OnceInv, ModuleInv, PromiseInv, Sure,
                      InOnce, Importing
  <2> QED
    BY <2>2, <2>3 DEF Changes
<1>4. CASE task[t] = "initialize"
  <2>1. /\ loaded' = loaded \cup {ext[t]}
        /\ importer' = [importer EXCEPT ![ext[t]] = Null]
        /\ ext' = [ext EXCEPT ![t] = Null]
        /\ Return(t)
        /\ UNCHANGED <<gil, pool, state, made>>
    BY <1>4 DEF AfterInstance
  <2>2. ext[t] \in Extensions
    BY <1>4 DEF IInv, Local, TaskInv
  <2>3. TypeOK' /\ Local(t)' /\ Alone(t)
    BY <1>1, <2>1, <2>2, Returned DEF IInv, TypeOK, Modules
  <2>4. Grows /\ Shared'
    BY <2>1, <2>2, GlobalStateAssumption DEF Grows, IInv, Shared, Sure
  <2> QED
    BY <2>3, <2>4 DEF Changes
<1> QED
  BY <1>1, <1>2, <1>3, <1>4 DEF Users

LEMMA OnceChanges ==
  ASSUME IInv, NEW t \in Threads,
         CallOnce(t) \/ EnterOnce(t) \/ StartConstructor(t) \/ EndConstructor(t) \/ LeaveOnce(t)
  PROVE  Changes(t)
<1> USE DEF Goto, python, state, locals, history
<1>1. CASE CallOnce(t)
  <2> USE <1>1 DEF CallOnce, GilInOnce
  <2>1. TypeOK' /\ Grows /\ Alone(t) /\ Shared'
    BY DEF IInv, TypeOK, Label, Grows, Alone, Shared, Sure
  <2>2. Local(t)'
    BY DEF IInv, TypeOK, Local, TaskInv, OnceInv, ModuleInv, PromiseInv, Sure, InOnce, Importing
  <2> QED
    BY <2>1, <2>2 DEF Changes
<1>2. CASE EnterOnce(t)
  <2> USE <1>2, GlobalStateAssumption DEF EnterOnce
  <2>1. TypeOK' /\ Grows /\ Alone(t) /\ Shared'
    BY DEF IInv, TypeOK, Label, Grows, Alone, Shared, Sure
  <2>2. Local(t)'
    BY DEF IInv, TypeOK, Local, TaskInv, OnceInv, ModuleInv, PromiseInv, Sure, InOnce, Importing
  <2> QED
    BY <2>1, <2>2 DEF Changes
<1>3. CASE StartConstructor(t)
  <2> USE <1>3 DEF StartConstructor
  <2>1. TypeOK' /\ Grows /\ Alone(t) /\ Shared'
    BY DEF IInv, TypeOK, Label, Modules, Grows, Alone, Shared, Sure
  <2>2. Local(t)'
    BY DEF IInv, TypeOK, Local, TaskInv, OnceInv, ModuleInv, PromiseInv, Sure, InOnce,
           Importing, Modules
  <2> QED
    BY <2>1, <2>2 DEF Changes
<1>4. CASE EndConstructor(t)
  <2> USE <1>4 DEF EndConstructor
  <2>1. once = t /\ ~initialized /\ ~global_pool
    BY DEF IInv, Local, OnceInv, InOnce, Shared
  <2>2. TypeOK' /\ Grows /\ Alone(t)
    BY <2>1 DEF IInv, TypeOK, Label, Grows, Alone
  <2>3. Shared'
    BY <2>1 DEF IInv, Shared, Sure
  <2>4. TaskInv(t)' /\ OnceInv(t)' /\ ModuleInv(t)'
    BY <2>1 DEF IInv, TypeOK, Local, TaskInv, OnceInv, ModuleInv, InOnce, Importing
  <2>5. PromiseInv(t)'
    BY <2>1 DEF IInv, TypeOK, Local, PromiseInv, Sure, Importing
  <2> QED
    BY <2>2, <2>3, <2>4, <2>5 DEF Changes, Local
<1>5. CASE LeaveOnce(t)
  <2> USE <1>5, GlobalStateAssumption DEF LeaveOnce
  <2>1. once = t
    BY DEF IInv, Local, OnceInv, InOnce
  <2>2. TypeOK' /\ Grows /\ Alone(t) /\ Shared'
    BY <2>1 DEF IInv, TypeOK, Label, Grows, Alone, Shared, Sure
  <2>3. Local(t)'
    BY <2>1 DEF IInv, TypeOK, Local, TaskInv, OnceInv, ModuleInv, PromiseInv, Sure, InOnce,
                Importing
  <2> QED
    BY <2>2, <2>3 DEF Changes
<1> QED
  BY <1>1, <1>2, <1>3, <1>4, <1>5

(* A call that ends outside std::call_once.                                *)
LEMMA EndsChanges ==
  ASSUME IInv, NEW t \in Threads, Return(t), once # t,
         UNCHANGED <<gil, python, once, initialized, global_pool, ext>>,
         import_cache' \subseteq loaded, made' \subseteq Types, \A d \in made' : Sure(d)
  PROVE  Changes(t)
<1> USE DEF python
<1>1. TypeOK' /\ Local(t)' /\ Alone(t)
  BY Returned DEF IInv, TypeOK
<1>2. Grows /\ Shared'
  BY DEF Grows, IInv, Shared, Sure
<1> QED
  BY <1>1, <1>2 DEF Changes

LEMMA MakeChanges ==
  ASSUME IInv, NEW t \in Threads, Make(t), once # t, desc[t] \in Types, Sure(desc[t]),
         UNCHANGED <<gil, python, state>>
  PROVE  Changes(t)
<1>1. made' \subseteq Types /\ (\A d \in made' : Sure(d)) /\ import_cache' \subseteq loaded
  BY DEF Make, IInv, TypeOK, Shared, state
<1> QED
  BY <1>1, EndsChanges DEF Make, state

LEMMA AfterImportChanges ==
  ASSUME IInv, NEW t \in Threads, AfterImport(t),
         pc[t] \in Importing, module[t] \in loaded,
         import_cache' \subseteq loaded,
         UNCHANGED <<gil, python, once, initialized, global_pool, made>>
  PROVE  Changes(t)
<1>1. CASE once = t \/ task[t] = "cast"
  <2>1. /\ pc' = [pc EXCEPT ![t] = IF once = t THEN "construct" ELSE "resolve"]
        /\ UNCHANGED <<locals, promised>>
    BY <1>1 DEF AfterImport, Constructing, Goto
  <2> USE <2>1 DEF python, locals
  <2>2. TypeOK' /\ Grows /\ Alone(t) /\ Shared'
    BY DEF IInv, TypeOK, Label, Grows, Alone, Shared, Sure
  <2>3. TaskInv(t)' /\ OnceInv(t)'
    BY <1>1 DEF IInv, TypeOK, Local, TaskInv, OnceInv, InOnce, Importing
  <2>4. ModuleInv(t)' /\ PromiseInv(t)'
    BY <1>1 DEF IInv, TypeOK, Local, ModuleInv, PromiseInv, Sure, Importing
  <2> QED
    BY <2>2, <2>3, <2>4 DEF Changes, Local
<1>2. CASE once # t /\ task[t] # "cast"
  <2>1. Return(t) /\ UNCHANGED ext
    BY <1>2 DEF AfterImport, Constructing
  <2>2. made' \subseteq Types /\ \A d \in made' : Sure(d)
    BY DEF IInv, TypeOK, Shared
  <2> QED
    BY <1>2, <2>1, <2>2, EndsChanges
<1> QED
  BY <1>1, <1>2

LEMMA ImportCachedChanges ==
  ASSUME IInv, NEW t \in Threads, ImportCached(t) PROVE Changes(t)
<1> USE DEF ImportCached
<1>1. CASE Found(t) /\ AfterImport(t) /\ UNCHANGED import_cache
  <2>1. module[t] \in loaded /\ import_cache' \subseteq loaded
    BY <1>1 DEF Found, IInv, Shared
  <2> QED
    BY <1>1, <2>1, AfterImportChanges DEF Importing
<1>2. CASE Goto(t, "lock") /\ CacheBeforeImport(t) /\ UNCHANGED <<locals, promised>>
  <2> USE <1>2 DEF Goto, CacheBeforeImport, python, locals
  <2>1. TypeOK' /\ Grows /\ Alone(t) /\ Shared'
    BY DEF IInv, TypeOK, Label, Grows, Alone, Shared, Sure
  <2>2. TaskInv(t)' /\ OnceInv(t)'
    BY DEF IInv, TypeOK, Local, TaskInv, OnceInv, InOnce, Importing
  <2>3. ModuleInv(t)' /\ PromiseInv(t)'
    BY DEF IInv, TypeOK, Local, ModuleInv, PromiseInv, Sure, Importing
  <2> QED
    BY <2>1, <2>2, <2>3 DEF Changes, Local
<1> QED
  BY <1>1, <1>2

LEMMA CacheModuleChanges ==
  ASSUME IInv, NEW t \in Threads, CacheModule(t) PROVE Changes(t)
<1>1. module[t] \in loaded /\ pc[t] \in Importing
  BY DEF CacheModule, IInv, Local, ModuleInv, Importing
<1>2. import_cache' \subseteq loaded
  BY <1>1 DEF CacheModule, CacheKey, IInv, Shared
<1> QED
  BY <1>1, <1>2, AfterImportChanges DEF CacheModule

LEMMA ImportThrowsChanges ==
  ASSUME IInv, NEW t \in Threads, ImportThrows(t) PROVE Changes(t)
<1> USE DEF ImportThrows
<1>1. CASE once = t
  <2> USE <1>1 DEF Constructing, Goto, python, state
  <2>1. TypeOK' /\ Grows /\ Alone(t) /\ Shared'
    BY DEF IInv, TypeOK, Label, Grows, Alone, Shared, Sure
  <2>2. TaskInv(t)' /\ OnceInv(t)'
    BY DEF IInv, TypeOK, Local, TaskInv, OnceInv, InOnce, Importing
  <2>3. ModuleInv(t)' /\ PromiseInv(t)'
    BY DEF IInv, TypeOK, Local, ModuleInv, PromiseInv, Sure, Importing
  <2> QED
    BY <2>1, <2>2, <2>3 DEF Changes, Local
<1>2. CASE once # t /\ task[t] = "cast"
  <2> USE <1>2 DEF Constructing, Goto, python, state, locals
  <2>1. ~ promised[t]
    BY DEF IInv, Local, PromiseInv, Importing
  <2>2. TypeOK' /\ Grows /\ Alone(t) /\ Shared'
    BY DEF IInv, TypeOK, Label, Grows, Alone, Shared, Sure
  <2>3. TaskInv(t)' /\ OnceInv(t)' /\ ModuleInv(t)'
    BY DEF IInv, TypeOK, Local, TaskInv, OnceInv, ModuleInv, InOnce, Importing
  <2>4. PromiseInv(t)'
    BY <2>1 DEF IInv, TypeOK, Local, PromiseInv, Sure, Importing
  <2> QED
    BY <2>2, <2>3, <2>4 DEF Changes, Local
<1>3. CASE once # t /\ task[t] # "cast"
  <2>1. Return(t) /\ UNCHANGED ext
    BY <1>3 DEF Constructing
  <2>2. made' \subseteq Types /\ (\A d \in made' : Sure(d)) /\ import_cache' \subseteq loaded
    BY DEF IInv, TypeOK, Shared, state
  <2> QED
    BY <1>3, <2>1, <2>2, EndsChanges DEF state
<1> QED
  BY <1>1, <1>2, <1>3

LEMMA CastChanges ==
  ASSUME IInv, NEW t \in Threads,
         LookupModule(t) \/ FindMessageTypeByName(t) \/ ResolveDescriptor(t)
  PROVE  Changes(t)
<1>1. /\ pc[t] \in {"lookup", "find", "resolve"}
      /\ task[t] = "cast" /\ desc[t] \in Types /\ once # t
      /\ UNCHANGED <<gil, python, state>>
  BY DEF LookupModule, FindMessageTypeByName, ResolveDescriptor,
         IInv, Local, TaskInv, OnceInv, InOnce, Importing
<1>2. ASSUME Make(t), Sure(desc[t]) PROVE Changes(t)
  BY <1>1, <1>2, MakeChanges
<1>3. CASE LookupModule(t)
  <2> USE <1>1, <1>3 DEF LookupModule
  <2>1. CASE HasClass(ModuleOf[desc[t]], desc[t]) /\ Make(t)
    BY <1>2, <2>1 DEF HasClass, Sure
  <2>2. CASE /\ ModuleOf[desc[t]] \in import_cache => ~HasClass(ModuleOf[desc[t]], desc[t])
             /\ Goto(t, "attribute_error") \/ Goto(t, "find")
             /\ Goto(t, "attribute_error") => ModuleOf[desc[t]] \in import_cache
             /\ UNCHANGED <<locals, history>>
    <3> USE <2>2 DEF Goto, python, state, locals, history
    <3>1. TypeOK' /\ Grows /\ Alone(t) /\ Shared'
      BY DEF IInv, TypeOK, Label, Grows, Alone, Shared, Sure
    <3>2. TaskInv(t)' /\ OnceInv(t)' /\ ModuleInv(t)'
      BY DEF IInv, TypeOK, Local, TaskInv, OnceInv, ModuleInv, InOnce, Importing
    <3>3. PromiseInv(t)'
      BY DEF IInv, TypeOK, Shared, Local, PromiseInv, Sure, Importing, HasClass
    <3> QED
      BY <3>1, <3>2, <3>3 DEF Changes, Local
  <2> QED
    <3>1. Goto(t, "find") => ~Goto(t, "attribute_error")
      BY DEF Goto, IInv, TypeOK
    <3> QED
      BY <2>1, <2>2, <3>1
<1>4. CASE FindMessageTypeByName(t)
  <2> USE <1>1, <1>4 DEF FindMessageTypeByName, InGlobalPool
  <2>1. CASE InGlobalPool(t) /\ Make(t)
    BY <1>2, <2>1 DEF Sure
  <2>2. CASE /\ ~InGlobalPool(t)
             /\ module' = [module EXCEPT ![t] = ModuleOf[desc[t]]]
             /\ Goto(t, "import_cached")
             /\ UNCHANGED <<task, desc, ext, history>>
    <3> USE <2>2 DEF Goto, python, state, history
    <3>1. ModuleOf[desc[t]] \in Modules
      BY GlobalStateAssumption DEF Modules
    <3>2. TypeOK' /\ Grows /\ Alone(t) /\ Shared'
      BY <3>1 DEF IInv, TypeOK, Label, Grows, Alone, Shared, Sure
    <3>3. TaskInv(t)' /\ OnceInv(t)' /\ ModuleInv(t)'
      BY <3>1 DEF IInv, TypeOK, Local, TaskInv, OnceInv, ModuleInv, InOnce, Importing
    <3>4. PromiseInv(t)'
      BY DEF IInv, TypeOK, Local, PromiseInv, Sure, Importing
    <3> QED
      BY <3>2, <3>3, <3>4 DEF Changes, Local
  <2> QED
    BY <2>1, <2>2
<1>5. CASE ResolveDescriptor(t)
  <2> USE <1>1, <1>5 DEF ResolveDescriptor
  <2>1. CASE HasClass(module[t], desc[t]) /\ Make(t)
    <3>1. Sure(desc[t])
      BY <2>1 DEF HasClass, IInv, Local, ModuleInv, Sure
    <3> QED
      BY <1>2, <2>1, <3>1
  <2>2. CASE /\ ~HasClass(module[t], desc[t])
             /\ Goto(t, "type_error")
             /\ UNCHANGED <<locals, history>>
    <3> USE <2>2 DEF Goto, python, state, locals, history
    <3>1. TypeOK' /\ Grows /\ Alone(t) /\ Shared'
      BY DEF IInv, TypeOK, Label, Grows, Alone, Shared, Sure
    <3>2. TaskInv(t)' /\ OnceInv(t)' /\ ModuleInv(t)'
      BY DEF IInv, TypeOK, Local, TaskInv, OnceInv, ModuleInv, InOnce, Importing
    <3>3. PromiseInv(t)'
      BY DEF IInv, TypeOK, Local, ModuleInv, PromiseInv, Sure, Importing, HasClass
    <3> QED
      BY <3>1, <3>2, <3>3 DEF Changes, Local
  <2> QED
    BY <2>1, <2>2
<1> QED
  BY <1>3, <1>4, <1>5

LEMMA ThrowChanges ==
  ASSUME IInv, NEW t \in Threads, Throw(t) PROVE Changes(t)
<1>1. once # t
  BY DEF Throw, IInv, Local, OnceInv, InOnce, Importing
<1>2. made' \subseteq Types /\ (\A d \in made' : Sure(d)) /\ import_cache' \subseteq loaded
  BY DEF Throw, IInv, TypeOK, Shared, state
<1> QED
  BY <1>1, <1>2, EndsChanges DEF Throw, state

LEMMA NextInv == IInv /\ [Next]_vars => IInv'
<1> SUFFICES ASSUME IInv, [Next]_vars PROVE IInv'
  OBVIOUS
<1>1. ASSUME NEW t \in Threads, Interpreter(t) \/ Program(t) \/ Step(t) PROVE IInv'
  <2>1. CASE Interpreter(t)
    BY <2>1, InterpreterChanges, ChangesInv
  <2>2. CASE Program(t)
    BY <2>2, ProgramChanges, ChangesInv
  <2>3. CASE Lock(t) \/ AddToPool(t) \/ EndOfModule(t)
    BY <2>3, LockChanges, AddToPoolChanges, EndOfModuleChanges, ChangesInv
  <2>4. CASE Instance(t) \/ CallOnce(t) \/ EnterOnce(t) \/ StartConstructor(t)
             \/ EndConstructor(t) \/ LeaveOnce(t)
    BY <2>4, InstanceChanges, OnceChanges, ChangesInv
  <2>5. CASE ImportCached(t) \/ CacheModule(t) \/ ImportThrows(t)
    BY <2>5, ImportCachedChanges, CacheModuleChanges, ImportThrowsChanges, ChangesInv
  <2>6. CASE LookupModule(t) \/ FindMessageTypeByName(t) \/ ResolveDescriptor(t) \/ Throw(t)
    BY <2>6, CastChanges, ThrowChanges, ChangesInv
  <2> QED
    BY <1>1, <2>1, <2>2, <2>3, <2>4, <2>5, <2>6 DEF Step
<1>2. CASE UNCHANGED vars
  <2> USE <1>2 DEF vars, python, state, locals, history
  <2>1. TypeOK' /\ Shared'
    BY DEF IInv, TypeOK, Shared, Sure
  <2>2. \A t \in Threads : Local(t)'
    BY DEF IInv, Local, TaskInv, OnceInv, ModuleInv, PromiseInv, Sure
  <2> QED
    BY <2>1, <2>2 DEF IInv
<1> QED
  BY <1>1, <1>2 DEF Next

-----------------------------------------------------------------------------
(* The inductive invariant: what each thread and the shared state keep     *)
(* true together.                                                          *)
THEOREM Invariant == Spec => []IInv
BY InitInv, NextInv, PTL DEF Spec

(* Every variable of GlobalState, of the interpreter and of the threads    *)
(* has its type.                                                           *)
THEOREM Typing == Spec => []TypeOK
<1>1. IInv => TypeOK
  BY DEF IInv
<1> QED
  BY <1>1, Invariant, PTL

(* import_cache_ holds only modules whose code has run to its end.         *)
THEOREM CachedModules == Spec => []CachedModulesComplete
<1>1. IInv => CachedModulesComplete
  BY DEF IInv, Shared, CachedModulesComplete
<1> QED
  BY <1>1, Invariant, PTL

(* PyMessageInstance does not fail for a type it has made a message of, or *)
(* whose module was loaded, when the cast began.                           *)
THEOREM PromisedCasts == Spec => []PromisedCastSucceeds
<1>1. IInv => PromisedCastSucceeds
  BY DEF IInv, Local, PromiseInv, PromisedCastSucceeds
<1> QED
  BY <1>1, Invariant, PTL
=============================================================================
