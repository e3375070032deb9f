-------------------------- MODULE PoolWrapperProofs --------------------------
(***************************************************************************)
(* Proofs about PoolWrapper, for every set of threads, pools, addresses    *)
(* and names.                                                              *)
(***************************************************************************)
EXTENDS PoolWrapper, SequenceTheorems, TLAPS

(* The labels at which a call has its Data.                                *)
HasData == {"find", "get_prototype", "undefined"} \cup Building

(* The objects: two live pools have two addresses, a pool the program or a *)
(* call refers to is alive, and the default pool is always referred to.    *)
HeapInv ==
  /\ \A p, q \in Pools : where[p] # Null /\ where[p] = where[q] => p = q
  /\ DefaultPool \in held
  /\ \A p \in held : where[p] # Null
  /\ \A t \in Threads : pc[t] # "outside" => where[call[t].pool] # Null
  /\ CachedPoolAlive

(* The calls: C++ code runs under the GIL; Data is that of the call's own  *)
(* pool; the mutex of a pool is owned exactly by the thread that builds    *)
(* files in it.                                                            *)
CallInv ==
  /\ \A t \in Threads : pc[t] \notin {"outside", "call_python", "print_error"} => gil = t
  /\ \A t \in Threads : pc[t] \in HasData =>
       database[pool_data[t].addr] = call[t].pool
  /\ \A t \in Threads : pc[t] # "outside" /\ stage[t] = "extension" =>
       call[t].ext # Null
  /\ \A t \in Threads, a \in Addr :
       mutex[a] = t <=> pc[t] \in Building /\ pool_data[t].addr = a

(* The lookups: there is work in a lookup, none of it on a compiled file.  *)
WorkInv ==
  /\ \A a \in Addr : underlay[a] <=> database[a] = DefaultPool
  /\ \A a \in Addr : underlay[a] => built[a] \cap Generated = {}
  /\ \A a \in Addr : database[a] = Null => built[a] = {}
  /\ \A t \in Threads : pc[t] \in Building =>
       /\ work[t] # <<>>
       /\ underlay[pool_data[t].addr] =>
            \A i \in 1 .. Len(work[t]) : work[t][i] \notin Generated
       /\ work[t][Len(work[t])] = Goal(t)
  /\ \A t \in Threads : pc[t] = "get_prototype" =>
       /\ stage[t] = "message"
       /\ call[t].name \in Visible(pool_data[t].addr)

MessageInv == MessageOfItsOwnPool /\ MessageDescriptorsAlive

IInv == TypeOK /\ HeapInv /\ CallInv /\ WorkInv /\ MessageInv

-----------------------------------------------------------------------------
LEMMA NoCallType == NoCall \in Call /\ NoData \in DataPtr
<1>1. PICK n \in Names : TRUE
  BY PoolAssumption
<1>2. PICK a \in Addr : TRUE
  BY PoolAssumption
<1>3. [pool |-> DefaultPool, name |-> n, ext |-> Null] \in Call
  BY PoolAssumption DEF Call
<1>4. [addr |-> a, gen |-> 0] \in [addr : Addr, gen : {0}]
  OBVIOUS
<1>5. NoCall \in Call
  BY <1>3 DEF NoCall
<1>6. NoData \in [addr : Addr, gen : {0}]
  BY <1>4 DEF NoData
<1> QED
  BY <1>5, <1>6 DEF DataPtr

LEMMA InitInv == Init => IInv
<1> SUFFICES ASSUME Init PROVE IInv
  OBVIOUS
<1>1. TypeOK
  BY NoCallType, PoolAssumption DEF Init, TypeOK, Label, Building
<1>2. HeapInv
  BY PoolAssumption DEF Init, HeapInv, CachedPoolAlive
<1>3. CallInv
  BY PoolAssumption DEF Init, CallInv, HasData, Building
<1>4. WorkInv
  BY PoolAssumption DEF Init, WorkInv, Building
<1>5. MessageInv
  BY DEF Init, MessageInv, MessageOfItsOwnPool, MessageDescriptorsAlive
<1> QED
  BY <1>1, <1>2, <1>3, <1>4, <1>5 DEF IInv

(* The steps of the interpreter touch no call and no pool of pools_map.    *)
LEMMA InterpreterInv ==
  ASSUME IInv, NEW t \in Threads, Interpreter(t) PROVE IInv'
<1> USE DEF IInv
<1>1. UNCHANGED <<tables, mutex, calls, lookup, messages>>
  BY DEF Interpreter, AcquireGil, ReleaseGil, CreatePool, DropPool, CollectPool
<1>2. WorkInv' /\ MessageInv'
  BY <1>1 DEF WorkInv, MessageInv, MessageOfItsOwnPool, MessageDescriptorsAlive,
     tables, calls, lookup, Visible, Goal
<1>3. CASE AcquireGil(t) \/ ReleaseGil(t)
  <2>1. UNCHANGED program /\ gil' \in {t, Null}
    BY <1>3 DEF AcquireGil, ReleaseGil
  <2>2. TypeOK'
    BY <1>1, <2>1 DEF TypeOK, tables, calls, lookup, program
  <2>3. HeapInv'
    BY <1>1, <2>1 DEF HeapInv, CachedPoolAlive, tables, calls, program
  <2>4. CallInv'
    BY <1>1, <1>3, PoolAssumption DEF CallInv, tables, calls, AcquireGil, ReleaseGil,
       RunsPython, InPython, TypeOK
  <2> QED
    BY <1>2, <2>2, <2>3, <2>4
<1>4. CASE UNCHANGED gil
  <2>1. CallInv'
    BY <1>1, <1>4 DEF CallInv, tables, calls
  <2>2. CASE \E p \in Pools, a \in Addr : CreatePool(t, p, a)
    <3>1. PICK p \in Pools, a \in Addr : CreatePool(t, p, a)
      BY <2>2
    <3>2. TypeOK'
      BY <1>1, <1>4, <3>1 DEF TypeOK, tables, calls, lookup, CreatePool
    <3>3. HeapInv'
      BY <1>1, <3>1, PoolAssumption DEF HeapInv, CachedPoolAlive, tables, calls,
         CreatePool, TypeOK
    <3> QED
      BY <1>2, <2>1, <3>2, <3>3
  <2>3. CASE \E p \in Pools : DropPool(t, p)
    <3>1. PICK p \in Pools : DropPool(t, p)
      BY <2>3
    <3>2. TypeOK'
      BY <1>1, <1>4, <3>1 DEF TypeOK, tables, calls, lookup, DropPool
    <3>3. HeapInv'
      BY <1>1, <3>1 DEF HeapInv, CachedPoolAlive, tables, calls, DropPool
    <3> QED
      BY <1>2, <2>1, <3>2, <3>3
  <2>4. CASE \E p \in Pools : CollectPool(t, p)
    <3>1. PICK p \in Pools : CollectPool(t, p)
      BY <2>4
    <3>2. TypeOK'
      BY <1>1, <1>4, <3>1 DEF TypeOK, tables, calls, lookup, CollectPool
    <3>3. HeapInv'
      BY <1>1, <3>1, PoolAssumption DEF HeapInv, CachedPoolAlive, tables, calls,
         CollectPool, HeldByDatabase, TypeOK, Call
    <3> QED
      BY <1>2, <2>1, <3>2, <3>3
  <2>5. CASE AcquireGil(t) \/ ReleaseGil(t)
    BY <1>3, <2>5
  <2> QED
    BY <2>2, <2>3, <2>4, <2>5 DEF Interpreter
<1> QED
  BY <1>3, <1>4 DEF Interpreter, CreatePool, DropPool, CollectPool

LEMMA LoadMessageInv ==
  ASSUME IInv, NEW t \in Threads, NEW p \in Pools, NEW n \in Names,
         NEW x \in Names \cup {Null}, LoadMessage(t, p, n, x)
  PROVE  IInv'
<1> USE DEF IInv, LoadMessage, Goto
<1>1. TypeOK'
  BY DEF TypeOK, Label, Call, tables, lookup, program
<1>2. HeapInv'
  BY DEF HeapInv, CachedPoolAlive, tables, program, TypeOK
<1>3. CallInv'
  BY DEF CallInv, TypeOK, tables, program, HasData, Building
<1>4. WorkInv'
  <2>1. ASSUME NEW u \in Threads, pc'[u] \in Building \cup {"get_prototype"}
        PROVE  /\ pc'[u] = pc[u] /\ call'[u] = call[u] /\ stage'[u] = stage[u]
    BY <2>1 DEF TypeOK, Building
  <2>2. UNCHANGED <<database, underlay, built, work, pool_data>>
    BY DEF tables, lookup
  <2> QED
    BY <2>1, <2>2 DEF WorkInv, Visible, Goal
<1>5. MessageInv'
  BY DEF MessageInv, MessageOfItsOwnPool, MessageDescriptorsAlive, tables, Visible
<1> QED
  BY <1>1, <1>2, <1>3, <1>4, <1>5

LEMMA GetPoolInv ==
  ASSUME IInv, NEW t \in Threads, GetPoolFromPythonPool(t) PROVE IInv'
<1> DEFINE p == call[t].pool
           a == where[p]
<1>1. p \in Pools /\ a \in Addr
  BY PoolAssumption DEF IInv, TypeOK, HeapInv, GetPoolFromPythonPool, Call
<1>2. /\ gil = t /\ pc[t] = "get_pool"
      /\ pool_data' = [pool_data EXCEPT ![t] = [addr |-> a, gen |-> table_gen']]
      /\ pc' = [pc EXCEPT ![t] = "find"]
      /\ UNCHANGED <<gil, where, held, mutex, call, stage, work, bad, messages>>
  BY DEF GetPoolFromPythonPool, PoolEntry, Goto, program, lookup
<1>3. \/ database[a] # Null /\ UNCHANGED <<database, underlay, built, table_gen>>
      \/ /\ database[a] = Null
         /\ database' = [database EXCEPT ![a] = p]
         /\ underlay' = [underlay EXCEPT ![a] = p = DefaultPool]
         /\ built' = [built EXCEPT ![a] = {}]
         /\ table_gen' \in {table_gen, table_gen + 1}
  BY DEF GetPoolFromPythonPool, Cached, HasUnderlay, tables
<1>4. database[a] \in {p, Null}
  BY <1>1, PoolAssumption DEF IInv, HeapInv, CachedPoolAlive, TypeOK
<1>5. database' = [database EXCEPT ![a] = p]
  BY <1>1, <1>3, <1>4 DEF IInv, TypeOK
<1>6. built' = built
  <2>1. CASE database[a] = Null
    <3>1. built[a] = {}
      BY <1>1, <2>1 DEF IInv, WorkInv
    <3>2. built' = [built EXCEPT ![a] = {}]
      BY <1>3, <2>1
    <3> QED
      BY <1>1, <3>1, <3>2 DEF IInv, TypeOK
  <2> QED
    BY <1>3, <2>1
<1>7. TypeOK'
  <2>1. underlay' \in [Addr -> BOOLEAN] /\ table_gen' \in Nat
    <3>1. CASE UNCHANGED <<underlay, table_gen>>
      BY <3>1 DEF IInv, TypeOK
    <3>2. CASE /\ underlay' = [underlay EXCEPT ![a] = p = DefaultPool]
               /\ table_gen' \in {table_gen, table_gen + 1}
      <4>1. (p = DefaultPool) \in BOOLEAN
        OBVIOUS
      <4>2. underlay' \in [Addr -> BOOLEAN]
        BY <3>2, <4>1 DEF IInv, TypeOK
      <4> QED
        BY <3>2, <4>2 DEF IInv, TypeOK
    <3> QED
      BY <1>3, <3>1, <3>2
  <2>2. database' \in [Addr -> Pools \cup {Null}]
    BY <1>1, <1>5 DEF IInv, TypeOK
  <2>3. pool_data' \in [Threads -> DataPtr]
    BY <1>1, <1>2, <2>1 DEF IInv, TypeOK, DataPtr
  <2>4. pc' \in [Threads -> Label]
    BY <1>2 DEF IInv, TypeOK, Label
  <2> QED
    BY <1>2, <1>6, <2>1, <2>2, <2>3, <2>4 DEF IInv, TypeOK
<1>8. HeapInv'
  BY <1>1, <1>2, <1>5 DEF IInv, HeapInv, CachedPoolAlive, TypeOK
<1>9. CallInv'
  <2>1. /\ pc'[t] = "find" /\ pool_data'[t].addr = a
        /\ \A u \in Threads : u # t => pc'[u] = pc[u] /\ pool_data'[u] = pool_data[u]
    BY <1>1, <1>2 DEF IInv, TypeOK
  <2>2. \A u \in Threads : pc'[u] \notin {"outside", "call_python", "print_error"} => gil' = u
    BY <1>2, <2>1 DEF IInv, CallInv
  <2>3. ASSUME NEW u \in Threads, pc'[u] \in HasData
        PROVE  database'[pool_data'[u].addr] = call'[u].pool
    <3>1. CASE u = t
      BY <1>1, <1>2, <1>5, <2>1, <3>1 DEF IInv, TypeOK
    <3>2. CASE u # t
      <4>1. database[pool_data[u].addr] = call[u].pool /\ pool_data[u].addr \in Addr
        BY <2>1, <2>3, <3>2 DEF IInv, CallInv, TypeOK, DataPtr
      <4>2. database[pool_data[u].addr] # Null
        BY <4>1, PoolAssumption DEF IInv, TypeOK, Call
      <4> QED
        BY <1>1, <1>2, <1>4, <1>5, <2>1, <3>2, <4>1, <4>2 DEF IInv, TypeOK
    <3> QED
      BY <3>1, <3>2
  <2>4. \A u \in Threads : pc'[u] # "outside" /\ stage'[u] = "extension" =>
          call'[u].ext # Null
    BY <1>2, <2>1 DEF IInv, CallInv
  <2>5. \A u \in Threads, b \in Addr :
          mutex'[b] = u <=> pc'[u] \in Building /\ pool_data'[u].addr = b
    BY <1>2, <2>1 DEF IInv, CallInv, Building
  <2> QED
    BY <2>2, <2>3, <2>4, <2>5 DEF CallInv
<1>10. \A b \in Addr : underlay'[b] <=> database'[b] = DefaultPool
  <2>1. CASE UNCHANGED <<database, underlay>>
    BY <2>1 DEF IInv, WorkInv
  <2>2. CASE underlay' = [underlay EXCEPT ![a] = p = DefaultPool]
    <3>1. \A b \in Addr : b # a => underlay'[b] = underlay[b] /\ database'[b] = database[b]
      BY <1>1, <1>5, <2>2 DEF IInv, TypeOK
    <3>2. (underlay'[a] <=> p = DefaultPool) /\ database'[a] = p
      BY <1>1, <1>5, <2>2 DEF IInv, TypeOK
    <3> QED
      BY <3>1, <3>2 DEF IInv, WorkInv
  <2> QED
    BY <1>3, <2>1, <2>2
<1>11. \A b \in Addr : database[b] # Null =>
         database'[b] = database[b] /\ underlay'[b] = underlay[b]
  BY <1>1, <1>3, <1>4 DEF IInv, TypeOK
<1>12. WorkInv'
  <2>1. \A u \in Threads : pc'[u] \in Building \cup {"get_prototype"} =>
          /\ u # t
          /\ pc'[u] = pc[u] /\ pool_data'[u] = pool_data[u]
          /\ underlay'[pool_data[u].addr] = underlay[pool_data[u].addr]
    BY <1>1, <1>2, <1>11, PoolAssumption DEF IInv, CallInv, TypeOK, HasData, Building,
       DataPtr, Call
  <2>2. \A b \in Addr : underlay'[b] => built'[b] \cap Generated = {}
    BY <1>3, <1>6, <1>10, <1>11, <1>4 DEF IInv, WorkInv
  <2>3. \A b \in Addr : database'[b] = Null => built'[b] = {}
    BY <1>1, <1>5, <1>6, PoolAssumption DEF IInv, WorkInv, TypeOK
  <2> QED
    BY <1>2, <1>6, <1>10, <2>1, <2>2, <2>3 DEF IInv, WorkInv, Visible, Goal
<1>13. MessageInv'
  <2>1. ASSUME NEW m \in messages
        PROVE  \E b \in Addr : database'[b] = m.from /\ m.name \in Visible(b)'
    <3>1. PICK b \in Addr : database[b] = m.from /\ m.name \in Visible(b)
      BY DEF IInv, MessageInv, MessageDescriptorsAlive
    <3>2. m.from # Null
      BY PoolAssumption DEF IInv, TypeOK, Message
    <3>3. Visible(b)' = Visible(b)
      BY <1>6, <1>11, <3>1, <3>2 DEF Visible
    <3> QED
      BY <1>11, <3>1, <3>2, <3>3
  <2> QED
    BY <1>2, <2>1 DEF IInv, MessageInv, MessageOfItsOwnPool, MessageDescriptorsAlive
<1> QED
  BY <1>7, <1>8, <1>9, <1>12, <1>13 DEF IInv

(* A call that returns leaves a thread outside with locals of their types. *)
LEMMA ReturnInv ==
  ASSUME IInv, NEW t \in Threads, pc[t] \in {"find", "get_prototype"}, Return(t),
         UNCHANGED <<gil, program, tables, mutex, lookup>>, messages' \subseteq Message
  PROVE  TypeOK' /\ HeapInv' /\ CallInv' /\ WorkInv'
<1> USE DEF IInv, Return, Goto
<1>1. TypeOK'
  BY NoCallType DEF TypeOK, Label, tables, lookup, program
<1>2. HeapInv'
  BY DEF HeapInv, CachedPoolAlive, tables, program, TypeOK
<1>3. CallInv'
  BY NoCallType DEF CallInv, TypeOK, tables, program, HasData, Building
<1>4. WorkInv'
  BY DEF WorkInv, TypeOK, tables, lookup, Building, Visible, Goal
<1> QED
  BY <1>1, <1>2, <1>3, <1>4

LEMMA SameTables ==
  ASSUME IInv, UNCHANGED <<tables, messages>> PROVE MessageInv'
BY DEF IInv, MessageInv, MessageOfItsOwnPool, MessageDescriptorsAlive, tables, Visible

LEMMA FindCachedInv ==
  ASSUME IInv, NEW t \in Threads, FindCached(t) PROVE IInv'
<1>1. /\ gil = t /\ pc[t] = "find"
      /\ Goal(t) \in Visible(pool_data[t].addr)
      /\ AfterLookup(t, TRUE)
      /\ UNCHANGED <<gil, program, tables, mutex, lookup, messages>>
  BY DEF FindCached
<1>2. MessageInv'
  BY <1>1, SameTables
<1>3. CASE Return(t)
  <2>1. messages' \subseteq Message
    BY <1>1 DEF IInv, TypeOK
  <2> QED
    BY <1>1, <1>2, <1>3, <2>1, ReturnInv DEF IInv
<1>4. CASE /\ stage[t] = "message"
           /\ Goto(t, "get_prototype")
           /\ UNCHANGED <<call, stage, pool_data>>
  <2> USE <1>1, <1>4 DEF IInv, Goto
  <2>1. TypeOK'
    BY DEF TypeOK, Label, tables, lookup, program
  <2>2. HeapInv'
    BY DEF HeapInv, CachedPoolAlive, tables, program, TypeOK
  <2>3. CallInv'
    BY DEF CallInv, TypeOK, tables, program, HasData, Building
  <2>4. WorkInv'
    BY DEF WorkInv, TypeOK, tables, lookup, Building, Visible, Goal
  <2> QED
    BY <1>2, <2>1, <2>2, <2>3, <2>4
<1> QED
  BY <1>1, <1>3, <1>4 DEF AfterLookup

LEMMA AskDatabaseInv ==
  ASSUME IInv, NEW t \in Threads, AskDatabase(t) PROVE IInv'
<1> USE DEF IInv, Goto
<1> DEFINE a == pool_data[t].addr
<1>1. /\ gil = t /\ pc[t] = "find" /\ mutex[a] = Null
      /\ Goal(t) \notin Visible(a)
      /\ mutex' = [mutex EXCEPT ![a] = t]
      /\ work' = [work EXCEPT ![t] = <<Goal(t)>>]
      /\ pc' = [pc EXCEPT ![t] = "call_python"]
      /\ UNCHANGED <<gil, program, tables, call, stage, pool_data, bad, messages>>
  BY DEF AskDatabase, MutexFree
<1>2. a \in Addr /\ Goal(t) \in Names
  BY <1>1, PoolAssumption DEF TypeOK, CallInv, DataPtr, Call, Goal
<1>3. TypeOK'
  BY <1>1, <1>2 DEF TypeOK, Label, Building, tables, program
<1>4. HeapInv'
  BY <1>1 DEF HeapInv, CachedPoolAlive, tables, program, TypeOK
<1>5. CallInv'
  BY <1>1, <1>2, PoolAssumption DEF CallInv, TypeOK, tables, program, HasData, Building
<1>6. WorkInv'
  <2>1. underlay[a] => Goal(t) \notin Generated
    BY <1>1 DEF Visible
  <2>2. /\ work'[t] # <<>>
        /\ Len(work'[t]) = 1
        /\ work'[t][1] = Goal(t)
        /\ Goal(t)' = Goal(t)
    BY <1>1 DEF TypeOK, Goal
  <2>3. \A u \in Threads : u # t => work'[u] = work[u] /\ pc'[u] = pc[u]
    BY <1>1 DEF TypeOK
  <2>4. pc'[t] = "call_python"
    BY <1>1 DEF TypeOK
  <2> QED
    BY <1>1, <2>1, <2>2, <2>3, <2>4
    DEF WorkInv, tables, Building, Visible, Goal
<1>7. MessageInv'
  BY <1>1, SameTables
<1> QED
  BY <1>3, <1>4, <1>5, <1>6, <1>7

(* The Python pool answers or raises: only the label of the call changes.  *)
LEMMA FindFileInv ==
  ASSUME IInv, NEW t \in Threads, FindFile(t) \/ FindFileRaises(t) PROVE IInv'
<1> USE DEF IInv, Goto, FindFile, FindFileRaises
<1>1. TypeOK'
  BY DEF TypeOK, Label, Building, tables, program, lookup
<1>2. HeapInv'
  BY DEF HeapInv, CachedPoolAlive, tables, program, TypeOK
<1>3. CallInv'
  BY DEF CallInv, TypeOK, tables, program, HasData, Building
<1>4. WorkInv'
  <2>1. ASSUME NEW u \in Threads
        PROVE  /\ pc'[u] \in Building => pc[u] \in Building
               /\ pc'[u] = "get_prototype" => pc[u] = "get_prototype"
    BY DEF TypeOK, Building
  <2>2. UNCHANGED <<database, underlay, built, work, pool_data, call, stage>>
    BY DEF tables, lookup
  <2> QED
    BY <2>1, <2>2 DEF WorkInv, Visible, Goal
<1>5. MessageInv'
  BY SameTables
<1> QED
  BY <1>1, <1>2, <1>3, <1>4, <1>5

LEMMA LoadImportInv ==
  ASSUME IInv, NEW t \in Threads, LoadImport(t) PROVE IInv'
<1> USE DEF IInv, Goto
<1> DEFINE a == pool_data[t].addr
<1>1. PICK n \in MissingImports(t) : work' = [work EXCEPT ![t] = <<n>> \o work[t]]
  BY DEF LoadImport, TypeOK
<1>2. /\ gil = t /\ pc[t] = "cross_link"
      /\ pc' = [pc EXCEPT ![t] = "call_python"]
      /\ UNCHANGED <<gil, program, tables, mutex, call, stage, pool_data, bad, messages>>
  BY DEF LoadImport
<1>3. /\ a \in Addr /\ work[t] \in Seq(Names) /\ work[t] # <<>>
      /\ underlay[a] => \A i \in 1 .. Len(work[t]) : work[t][i] \notin Generated
      /\ work[t][Len(work[t])] = Goal(t)
  BY <1>2 DEF TypeOK, DataPtr, WorkInv, Building
<1>4. n \in Names /\ (underlay[a] => n \notin Generated)
  <2>1. Head(work[t]) \in Names
    BY <1>3
  <2> QED
    BY <2>1, PoolAssumption DEF MissingImports, Visible
<1>5. /\ work'[t] = <<n>> \o work[t]
      /\ Len(work'[t]) = Len(work[t]) + 1
      /\ \A i \in 1 .. Len(work'[t]) :
           work'[t][i] = IF i = 1 THEN n ELSE work[t][i - 1]
  BY <1>1, <1>3, <1>4 DEF TypeOK
<1>6. TypeOK'
  <2>1. <<n>> \o work[t] \in Seq(Names)
    BY <1>3, <1>4
  <2> QED
    BY <1>1, <1>2, <2>1 DEF TypeOK, Label, Building, tables, program
<1>7. HeapInv'
  BY <1>2 DEF HeapInv, CachedPoolAlive, tables, program, TypeOK
<1>8. CallInv'
  BY <1>2 DEF CallInv, TypeOK, tables, program, HasData, Building
<1>9. WorkInv'
  <2>1. work'[t] # <<>>
    BY <1>3, <1>5
  <2>2. underlay[a] => \A i \in 1 .. Len(work'[t]) : work'[t][i] \notin Generated
    BY <1>3, <1>4, <1>5
  <2>3. Len(work'[t]) # 1 /\ work'[t][Len(work'[t])] = Goal(t)
    BY <1>3, <1>5
  <2>4. Goal(t)' = Goal(t)
    BY <1>2 DEF Goal
  <2>5. \A u \in Threads : u # t => work'[u] = work[u] /\ pc'[u] = pc[u]
    BY <1>1, <1>2 DEF TypeOK
  <2> QED
    BY <1>2, <2>1, <2>2, <2>3, <2>4, <2>5
    DEF WorkInv, TypeOK, tables, Building, Visible, Goal
<1>10. MessageInv'
  BY <1>2, SameTables
<1> QED
  BY <1>6, <1>7, <1>8, <1>9, <1>10

(* A file is done with.  Where it was built, all that names it agrees.     *)
LEMMA FinishInv ==
  ASSUME IInv, NEW t \in Threads, NEW isBuilt \in BOOLEAN, gil = t,
         pc[t] \in Building, Finish(t, isBuilt)
  PROVE  IInv'
<1> DEFINE a == pool_data[t].addr
           n == Head(work[t])
           rest == Tail(work[t])
<1>1. /\ built' = IF isBuilt THEN [built EXCEPT ![a] = @ \cup {n}] ELSE built
      /\ work' = [work EXCEPT ![t] = rest]
      /\ UNCHANGED <<gil, where, held, database, underlay, table_gen, messages>>
  BY DEF Finish, program
<1>2. /\ a \in Addr /\ work[t] \in Seq(Names) /\ work[t] # <<>>
      /\ underlay[a] => \A i \in 1 .. Len(work[t]) : work[t][i] \notin Generated
      /\ work[t][Len(work[t])] = Goal(t)
      /\ database[a] = call[t].pool /\ call[t].pool \in Pools
  BY DEF IInv, TypeOK, DataPtr, WorkInv, Building, CallInv, HasData, Call
<1>3. /\ n \in Names /\ rest \in Seq(Names)
      /\ n = work[t][1] /\ Len(rest) = Len(work[t]) - 1
      /\ \A i \in 1 .. Len(rest) : rest[i] = work[t][i + 1]
      /\ rest = <<>> => n = Goal(t)
  <2>1. n \in Names /\ rest \in Seq(Names) /\ n = work[t][1]
    BY <1>2
  <2>2. Len(rest) = Len(work[t]) - 1
    BY <1>2
  <2>3. \A i \in 1 .. Len(rest) : rest[i] = work[t][i + 1]
    BY <1>2, <2>2
  <2>4. ASSUME rest = <<>> PROVE n = Goal(t)
    <3>1. Len(<<>>) = 0
      OBVIOUS
    <3>2. Len(rest) = 0
      BY <2>4, <3>1, Zenon
    <3>3. Len(work[t]) = 1
      BY <1>2, <2>2, <3>2
    <3> QED
      BY <1>2, <2>1, <3>3
  <2> QED
    BY <2>1, <2>2, <2>3, <2>4
<1>4. \A b \in Addr : built[b] \subseteq built'[b] /\ (b # a => built'[b] = built[b])
  BY <1>1, <1>2 DEF IInv, TypeOK
<1>5. built'[a] \subseteq built[a] \cup {n} /\ (isBuilt => n \in built'[a])
  BY <1>1, <1>2 DEF IInv, TypeOK
<1>6. built' \in [Addr -> SUBSET Names] /\ work' \in [Threads -> Seq(Names)]
  BY <1>1, <1>2, <1>3 DEF IInv, TypeOK
<1>7. MessageInv'
  BY <1>1, <1>4 DEF IInv, MessageInv, MessageOfItsOwnPool, MessageDescriptorsAlive, Visible
<1>8. /\ \A b \in Addr : underlay'[b] <=> database'[b] = DefaultPool
      /\ \A b \in Addr : underlay'[b] => built'[b] \cap Generated = {}
      /\ \A b \in Addr : database'[b] = Null => built'[b] = {}
      /\ \A b \in Addr : Visible(b) \subseteq Visible(b)'
  <2>1. n \notin Generated \/ ~underlay[a]
    BY <1>2, <1>3
  <2> QED
    BY <1>1, <1>2, <1>4, <1>5, <2>1, PoolAssumption DEF IInv, WorkInv, Visible
<1>9. \A u \in Threads : u # t => work'[u] = work[u]
  BY <1>1 DEF IInv, TypeOK
<1>10. CASE /\ rest # <<>>
            /\ bad' = IF isBuilt THEN bad ELSE [bad EXCEPT ![t] = @ \cup {n}]
            /\ pc' = [pc EXCEPT ![t] = "cross_link"]
            /\ UNCHANGED <<mutex, call, stage, pool_data>>
  <2>1. TypeOK'
    BY <1>1, <1>3, <1>6, <1>10 DEF IInv, TypeOK, Label, Building
  <2>2. HeapInv'
    BY <1>1, <1>10 DEF IInv, HeapInv, CachedPoolAlive, TypeOK, Building
  <2>3. CallInv'
    BY <1>1, <1>10 DEF IInv, CallInv, TypeOK, HasData, Building
  <2>4. WorkInv'
    <3>1. work'[t] = rest
      BY <1>1 DEF IInv, TypeOK
    <3>2. underlay[a] => \A i \in 1 .. Len(rest) : rest[i] \notin Generated
      BY <1>2, <1>3
    <3>3. rest[Len(rest)] = Goal(t) /\ Goal(t)' = Goal(t)
      BY <1>2, <1>3, <1>10 DEF Goal
    <3>4. \A u \in Threads : u # t => pc'[u] = pc[u]
      BY <1>10 DEF IInv, TypeOK
    <3>5. pc'[t] = "cross_link"
      BY <1>10 DEF IInv, TypeOK
    <3>6. ASSUME NEW u \in Threads, pc'[u] \in Building
          PROVE  /\ work'[u] # <<>>
                 /\ underlay'[pool_data'[u].addr] =>
                      \A i \in 1 .. Len(work'[u]) : work'[u][i] \notin Generated
                 /\ work'[u][Len(work'[u])] = Goal(u)'
      <4>1. CASE u = t
        BY <1>1, <1>10, <3>1, <3>2, <3>3, <4>1
      <4>2. CASE u # t
        BY <1>1, <1>9, <1>10, <3>4, <3>6, <4>2 DEF IInv, WorkInv, Goal
      <4> QED
        BY <4>1, <4>2
    <3>7. ASSUME NEW u \in Threads, pc'[u] = "get_prototype"
          PROVE  stage'[u] = "message" /\ call'[u].name \in Visible(pool_data[u].addr)'
      <4>1. u # t /\ pc[u] = "get_prototype"
        BY <3>4, <3>5, <3>7
      <4>2. pool_data[u].addr \in Addr
        BY DEF IInv, TypeOK, DataPtr
      <4> QED
        BY <1>8, <1>10, <4>1, <4>2 DEF IInv, WorkInv, Visible
    <3> QED
      BY <1>8, <3>6, <3>7 DEF WorkInv
  <2> QED
    BY <1>7, <2>1, <2>2, <2>3, <2>4 DEF IInv
<1>11. CASE /\ rest = <<>>
            /\ bad' = [bad EXCEPT ![t] = {}]
            /\ mutex' = [mutex EXCEPT ![a] = Null]
            /\ AfterLookup(t, isBuilt)
  <2>1. \/ /\ stage[t] = "message" /\ isBuilt
           /\ pc' = [pc EXCEPT ![t] = "get_prototype"]
           /\ UNCHANGED <<call, stage, pool_data>>
        \/ /\ pc' = [pc EXCEPT ![t] = "outside"]
           /\ call' = [call EXCEPT ![t] = NoCall]
           /\ stage' = [stage EXCEPT ![t] = "message"]
           /\ pool_data' = [pool_data EXCEPT ![t] = NoData]
    BY <1>11 DEF AfterLookup, Return, Goto
  <2>2. \A u \in Threads : u # t =>
          /\ pc'[u] = pc[u] /\ call'[u] = call[u] /\ stage'[u] = stage[u]
          /\ pool_data'[u] = pool_data[u]
    BY <2>1 DEF IInv, TypeOK
  <2>3. pc'[t] \in {"outside", "get_prototype"}
    BY <2>1 DEF IInv, TypeOK
  <2>4. TypeOK'
    <3>1. pc' \in [Threads -> Label]
      BY <2>1 DEF IInv, TypeOK, Label
    <3>2. /\ call' \in [Threads -> Call]
          /\ stage' \in [Threads -> {"message", "extension"}]
          /\ pool_data' \in [Threads -> DataPtr]
      <4>1. /\ call \in [Threads -> Call]
            /\ stage \in [Threads -> {"message", "extension"}]
            /\ pool_data \in [Threads -> DataPtr]
        BY DEF IInv, TypeOK
      <4>2. \/ UNCHANGED <<call, stage, pool_data>>
            \/ /\ call' = [call EXCEPT ![t] = NoCall]
               /\ stage' = [stage EXCEPT ![t] = "message"]
               /\ pool_data' = [pool_data EXCEPT ![t] = NoData]
        BY <2>1
      <4>3. NoCall \in Call /\ NoData \in DataPtr
        BY NoCallType
      <4> HIDE <2>1
      <4>4. CASE UNCHANGED <<call, stage, pool_data>>
        BY <4>1, <4>4
      <4>5. CASE /\ call' = [call EXCEPT ![t] = NoCall]
                 /\ stage' = [stage EXCEPT ![t] = "message"]
                 /\ pool_data' = [pool_data EXCEPT ![t] = NoData]
        BY <4>1, <4>3, <4>5
      <4> QED
        BY <4>2, <4>4, <4>5
    <3>3. mutex' \in [Addr -> Threads \cup {Null}] /\ bad' \in [Threads -> SUBSET Names]
      BY <1>11 DEF IInv, TypeOK
    <3> QED
      BY <1>1, <1>6, <3>1, <3>2, <3>3 DEF IInv, TypeOK
  <2>5. HeapInv'
    BY <1>1, <2>1, <2>2 DEF IInv, HeapInv, CachedPoolAlive, TypeOK, Building
  <2>6. CallInv'
    <3>1. \A b \in Addr : mutex'[b] = t <=> FALSE
      BY <1>2, <1>11, PoolAssumption DEF IInv, CallInv, TypeOK
    <3>2. \A b \in Addr : b # a => mutex'[b] = mutex[b]
      BY <1>11 DEF IInv, TypeOK
    <3>3. \A u \in Threads : u # t => mutex[a] # u /\ mutex'[a] # u
      BY <1>2, <1>11, PoolAssumption DEF IInv, CallInv, TypeOK
    <3>4. \A u \in Threads, b \in Addr :
            mutex'[b] = u <=> pc'[u] \in Building /\ pool_data'[u].addr = b
      BY <2>2, <2>3, <3>1, <3>2, <3>3 DEF IInv, CallInv, Building
    <3>5. pc'[t] = "get_prototype" => call'[t] = call[t] /\ pool_data'[t] = pool_data[t]
                                      /\ stage[t] = "message" /\ stage'[t] = stage[t]
      BY <2>1 DEF IInv, TypeOK
    <3>6. gil = t /\ gil' = gil
      BY <1>1
    <3>7. \A u \in Threads : pc'[u] \notin {"outside", "call_python", "print_error"} => gil' = u
      BY <2>2, <3>6 DEF IInv, CallInv
    <3>8. \A u \in Threads : pc'[u] \in HasData =>
            database'[pool_data'[u].addr] = call'[u].pool
      BY <1>1, <1>2, <2>2, <2>3, <3>5 DEF IInv, CallInv, HasData, Building
    <3>9. \A u \in Threads : pc'[u] # "outside" /\ stage'[u] = "extension" =>
            call'[u].ext # Null
      BY <2>2, <2>3, <3>5 DEF IInv, CallInv
    <3> QED
      BY <3>4, <3>7, <3>8, <3>9 DEF CallInv
  <2>7. WorkInv'
    <3>1. ASSUME NEW u \in Threads, pc'[u] \in Building
          PROVE  /\ work'[u] # <<>>
                 /\ underlay'[pool_data'[u].addr] =>
                      \A i \in 1 .. Len(work'[u]) : work'[u][i] \notin Generated
                 /\ work'[u][Len(work'[u])] = Goal(u)'
      <4>1. u # t
        BY <2>3, <3>1 DEF Building
      <4> QED
        BY <1>1, <1>9, <2>2, <3>1, <4>1 DEF IInv, WorkInv, Goal
    <3>2. ASSUME NEW u \in Threads, pc'[u] = "get_prototype"
          PROVE  stage'[u] = "message" /\ call'[u].name \in Visible(pool_data[u].addr)'
      <4>1. CASE u = t
        <5>1. stage[t] = "message" /\ isBuilt /\ UNCHANGED <<call, stage, pool_data>>
          BY <2>1, <3>2, <4>1 DEF IInv, TypeOK
        <5>2. n = call[t].name
          BY <1>3, <1>11, <5>1 DEF Goal
        <5> QED
          BY <1>5, <4>1, <5>1, <5>2 DEF Visible
      <4>2. CASE u # t
        <5>1. pool_data[u].addr \in Addr
          BY DEF IInv, TypeOK, DataPtr
        <5> QED
          BY <1>8, <2>2, <3>2, <4>2, <5>1 DEF IInv, WorkInv, Visible
      <4> QED
        BY <4>1, <4>2
    <3> QED
      BY <1>8, <3>1, <3>2 DEF WorkInv
  <2> QED
    BY <1>7, <2>4, <2>5, <2>6, <2>7 DEF IInv
<1> QED
  BY <1>10, <1>11 DEF Finish, Goto, Unlock

LEMMA GetPrototypeInv ==
  ASSUME IInv, NEW t \in Threads, GetPrototype(t) PROVE IInv'
<1> DEFINE a == pool_data[t].addr
           m == [asked |-> call[t].pool, from |-> database[a],
                 name |-> call[t].name, compiled |-> call[t].name \notin built[a]]
<1>1. /\ gil = t /\ pc[t] = "get_prototype"
      /\ messages' = messages \cup {m}
      /\ UNCHANGED <<gil, program, tables, mutex, lookup>>
  BY DEF GetPrototype
<1>2. /\ a \in Addr /\ call[t] \in Call
      /\ database[a] = call[t].pool
      /\ call[t].name \in Visible(a)
      /\ underlay[a] <=> database[a] = DefaultPool
      /\ underlay[a] => built[a] \cap Generated = {}
  BY <1>1 DEF IInv, TypeOK, DataPtr, CallInv, WorkInv, HasData
<1>3. m \in Message
  <2>1. (call[t].name \notin built[a]) \in BOOLEAN
    OBVIOUS
  <2> QED
    BY <1>2, <2>1 DEF Message, Call
<1>4. messages' \subseteq Message
  BY <1>1, <1>3 DEF IInv, TypeOK
<1>5. MessageInv'
  <2>1. m.from = m.asked /\ (m.compiled <=> m.asked = DefaultPool /\ m.name \in Generated)
    BY <1>2 DEF Visible
  <2>2. database[a] = m.from /\ m.name \in Visible(a)
    BY <1>2
  <2>3. MessageOfItsOwnPool'
    BY <1>1, <2>1 DEF IInv, MessageInv, MessageOfItsOwnPool
  <2>4. MessageDescriptorsAlive'
    BY <1>1, <1>2, <2>2
    DEF IInv, MessageInv, MessageDescriptorsAlive, tables, Visible
  <2> QED
    BY <2>3, <2>4 DEF MessageInv
<1>6. CASE Return(t)
  BY <1>1, <1>4, <1>5, <1>6, ReturnInv DEF IInv
<1>7. CASE /\ call[t].ext # Null
           /\ Goto(t, "find")
           /\ stage' = [stage EXCEPT ![t] = "extension"]
           /\ UNCHANGED <<call, pool_data>>
  <2> USE <1>1, <1>7 DEF IInv, Goto
  <2>1. TypeOK'
    BY <1>4 DEF TypeOK, Label, tables, lookup, program
  <2>2. HeapInv'
    BY DEF HeapInv, CachedPoolAlive, tables, program, TypeOK
  <2>3. CallInv'
    BY DEF CallInv, TypeOK, tables, program, HasData, Building
  <2>4. WorkInv'
    BY DEF WorkInv, TypeOK, tables, lookup, Building, Visible, Goal
  <2> QED
    BY <1>5, <2>1, <2>2, <2>3, <2>4
<1> QED
  BY <1>6, <1>7 DEF GetPrototype

LEMMA MovedSlotInv ==
  ASSUME IInv, NEW t \in Threads, GetPrototypeOfMovedSlot(t) PROVE IInv'
<1> USE DEF IInv, Goto, GetPrototypeOfMovedSlot
<1>1. TypeOK'
  BY DEF TypeOK, Label, Building, tables, program, lookup
<1>2. HeapInv'
  BY DEF HeapInv, CachedPoolAlive, tables, program, TypeOK
<1>3. CallInv'
  BY DEF CallInv, TypeOK, tables, program, HasData, Building
<1>4. WorkInv'
  BY DEF WorkInv, TypeOK, tables, lookup, Building, Visible, Goal
<1>5. MessageInv'
  BY SameTables
<1> QED
  BY <1>1, <1>2, <1>3, <1>4, <1>5

LEMMA NextInv == IInv /\ [Next]_vars => IInv'
<1> SUFFICES ASSUME IInv, [Next]_vars PROVE IInv'
  OBVIOUS
<1>1. ASSUME NEW t \in Threads, Step(t) PROVE IInv'
  <2>1. CASE ErrorPrinted(t)
    BY <2>1, FinishInv DEF ErrorPrinted, AfterError, Building
  <2>2. CASE CrossLink(t)
    <3>1. ImportsFound(t) \in BOOLEAN
      BY DEF ImportsFound
    <3> QED
      BY <2>2, <3>1, FinishInv DEF CrossLink, Building
  <2> QED
    BY <1>1, <2>1, <2>2, GetPoolInv, FindCachedInv, AskDatabaseInv, FindFileInv,
       LoadImportInv, GetPrototypeInv, MovedSlotInv DEF Step
<1>2. CASE UNCHANGED vars
  <2> USE <1>2 DEF IInv, vars, tables, program, calls, lookup
  <2>1. TypeOK'
    BY DEF TypeOK
  <2>2. HeapInv'
    BY DEF HeapInv, CachedPoolAlive
  <2>3. CallInv'
    BY DEF CallInv
  <2>4. WorkInv'
    BY DEF WorkInv, Visible, Goal
  <2>5. MessageInv'
    BY SameTables
  <2> QED
    BY <2>1, <2>2, <2>3, <2>4, <2>5
<1> QED
  BY <1>1, <1>2, InterpreterInv, LoadMessageInv DEF Next

-----------------------------------------------------------------------------
THEOREM Invariant == Spec => []IInv
BY InitInv, NextInv, PTL DEF Spec

(* Every variable of the pools, the calls and the lookups keeps its type.  *)
THEOREM Typing == Spec => []TypeOK
BY Invariant, PTL DEF IInv

(* An address in pools_map is never that of a freed pool.                  *)
THEOREM CachedPoolsLive == Spec => []CachedPoolAlive
<1>1. IInv => CachedPoolAlive
  BY DEF IInv, HeapInv
<1> QED
  BY <1>1, Invariant, PTL

(* A message is made of the definitions of its own pool, and of compiled   *)
(* code exactly when that is allowed.                                      *)
THEOREM MessagesOfTheirOwnPool == Spec => []MessageOfItsOwnPool
<1>1. IInv => MessageOfItsOwnPool
  BY DEF IInv, MessageInv
<1> QED
  BY <1>1, Invariant, PTL

(* The descriptor of a message made by the caster is never destroyed.      *)
THEOREM DescriptorsAlive == Spec => []MessageDescriptorsAlive
<1>1. IInv => MessageDescriptorsAlive
  BY DEF IInv, MessageInv
<1> QED
  BY <1>1, Invariant, PTL

(* A thread that has the GIL waits for a pool's mutex only if another one  *)
(* is inside Python in the middle of a lookup.                             *)
THEOREM OnlyPythonIsWaited == Spec => []OnlyPythonIsWaitedFor
<1>1. IInv => OnlyPythonIsWaitedFor
  <2> SUFFICES ASSUME IInv, NEW t \in Threads, gil = t, pc[t] = "find",
                      mutex[pool_data[t].addr] # Null
               PROVE  LET owner == mutex[pool_data[t].addr]
                      IN owner # t /\ pc[owner] \in InPython
    BY DEF OnlyPythonIsWaitedFor
  <2> DEFINE owner == mutex[pool_data[t].addr]
  <2>1. pool_data[t].addr \in Addr
    BY DEF IInv, TypeOK, DataPtr
  <2>2. owner \in Threads
    BY <2>1 DEF IInv, TypeOK
  <2>3. pc[owner] \in Building
    BY <2>1, <2>2 DEF IInv, CallInv
  <2>4. owner # t
    BY <2>3 DEF Building
  <2>5. pc[owner] # "cross_link"
    BY <2>2, <2>4 DEF IInv, CallInv
  <2> QED
    BY <2>3, <2>4, <2>5 DEF Building, InPython
<1> QED
  BY <1>1, Invariant, PTL

-----------------------------------------------------------------------------
(* The actions that write pools_map are GetPoolFromPythonPool, which keeps *)
(* every complete entry, and Finish, which only adds a file to an entry.   *)
Kept(a) ==
  /\ database[a] # Null => database'[a] = database[a]
  /\ built[a] \subseteq built'[a]

LEMMA GetPoolKeeps ==
  ASSUME IInv, NEW t \in Threads, GetPoolFromPythonPool(t), NEW a \in Addr
  PROVE  Kept(a)
<1>1. CASE UNCHANGED tables
  BY <1>1 DEF tables, Kept
<1>2. CASE /\ database[where[call[t].pool]] = Null
           /\ database' = [database EXCEPT ![where[call[t].pool]] = call[t].pool]
           /\ built' = [built EXCEPT ![where[call[t].pool]] = {}]
  BY <1>2 DEF IInv, TypeOK, WorkInv, Kept
<1> QED
  BY <1>1, <1>2 DEF GetPoolFromPythonPool, Cached

LEMMA FinishKeeps ==
  ASSUME IInv, NEW t \in Threads, NEW isBuilt \in BOOLEAN, Finish(t, isBuilt),
         NEW a \in Addr
  PROVE  Kept(a)
BY DEF Finish, IInv, TypeOK, Kept

(* No entry of pools_map, and no descriptor of an entry, is ever lost.     *)
THEOREM ResultsStayCached == Spec => ResultStaysCached
<1>1. ASSUME IInv, [Next]_vars, NEW a \in Addr PROVE Kept(a)
  <2>1. CASE UNCHANGED tables
    BY <2>1 DEF tables, Kept
  <2>2. CASE \E t \in Threads : GetPoolFromPythonPool(t)
    BY <1>1, <2>2, GetPoolKeeps
  <2>3. CASE \E t \in Threads, isBuilt \in BOOLEAN : Finish(t, isBuilt)
    BY <1>1, <2>3, FinishKeeps
  <2>4. ASSUME NEW t \in Threads, Step(t)
        PROVE  \/ UNCHANGED tables
               \/ GetPoolFromPythonPool(t)
               \/ \E isBuilt \in BOOLEAN : Finish(t, isBuilt)
    <3>1. CrossLink(t) => \E isBuilt \in BOOLEAN : Finish(t, isBuilt)
      BY DEF CrossLink, ImportsFound
    <3> QED
      BY <2>4, <3>1 DEF Step, FindCached, AskDatabase, FindFile, FindFileRaises,
         ErrorPrinted, AfterError, LoadImport, GetPrototype, GetPrototypeOfMovedSlot
  <2>5. ASSUME NEW t \in Threads, Interpreter(t) PROVE UNCHANGED tables
    BY <2>5 DEF Interpreter, AcquireGil, ReleaseGil, CreatePool, DropPool, CollectPool
  <2> QED
    BY <1>1, <2>1, <2>2, <2>3, <2>4, <2>5 DEF Next, vars, LoadMessage
<1>2. IInv /\ [Next]_vars => EntriesKept
  BY <1>1 DEF Kept, EntriesKept
<1> QED
  BY <1>2, Invariant, PTL DEF Spec, ResultStaysCached

-----------------------------------------------------------------------------
(* Why a pointer into pools_map that has moved is not followed, unless the *)
(* lookup of its own pool runs bytecode.  The slots move while a thread    *)
(* without the GIL prints an error; then the file it asked for is bad, and *)
(* so, one after the other, is every file that waits for it.               *)
Doomed(t) ==
  \/ pc[t] = "print_error"
  \/ \E i \in 1 .. Len(work[t]) : \E n \in Imports[work[t][i]] : n \in bad[t]

(* The files of a lookup: each is imported by the one below it, none is    *)
(* there twice, and none is known already to be good or bad.               *)
WorkOK(t) ==
  /\ \A i, j \in 1 .. Len(work[t]) : work[t][i] = work[t][j] => i = j
  /\ \A i \in 1 .. Len(work[t]) : work[t][i] \notin bad[t]
  /\ \A i \in 1 .. Len(work[t]) : work[t][i] \notin Visible(pool_data[t].addr)
  /\ \A i \in 1 .. Len(work[t]) : i > 1 => work[t][i - 1] \in Imports[work[t][i]]
  /\ \A n \in bad[t] : n \notin Visible(pool_data[t].addr)

PointerOK(t) ==
  /\ pc[t] = "call_python" => gil = t
  /\ pc[t] = "find" /\ stage[t] = "message" => PointerValid(t)
  /\ pc[t] \in Building /\ stage[t] = "message" => PointerValid(t) \/ Doomed(t)
  /\ pc[t] = "get_prototype" => PointerValid(t)
  /\ pc[t] # "undefined"

LookupOK(t) ==
  /\ pc[t] \in Building => WorkOK(t)
  /\ pc[t] \notin Building => bad[t] = {}
  /\ call[t].pool \notin Yielding => PointerOK(t)

LookupInv == \A t \in Threads : LookupOK(t)

(* The files below the innermost one.                                      *)
LEMMA RestOfWork ==
  ASSUME IInv, NEW t \in Threads, pc[t] \in Building
  PROVE  LET rest == Tail(work[t])
         IN /\ rest \in Seq(Names) /\ Len(rest) \in Nat
            /\ Len(work[t]) = Len(rest) + 1
            /\ Head(work[t]) = work[t][1] /\ Head(work[t]) \in Names
            /\ \A i \in 1 .. Len(rest) : rest[i] = work[t][i + 1]
<1>1. work[t] \in Seq(Names) /\ work[t] # <<>>
  BY DEF IInv, TypeOK, WorkInv
<1>2. /\ Tail(work[t]) \in Seq(Names)
      /\ Len(Tail(work[t])) = Len(work[t]) - 1
      /\ \A i \in 1 .. Len(Tail(work[t])) : Tail(work[t])[i] = work[t][i + 1]
      /\ Head(work[t]) \in Names
  BY <1>1, HeadTailProperties
<1>3. Len(work[t]) \in Nat /\ Head(work[t]) = work[t][1]
  BY <1>1
<1>4. Len(Tail(work[t])) \in Nat
  BY <1>2, LenProperties
<1> QED
  BY <1>2, <1>3, <1>4

(* What a step does to the lookups of the threads that do not take it: it  *)
(* may move the slots, but only while they have no use for their pointer.  *)
LEMMA OthersLookup ==
  ASSUME IInv, LookupInv, NEW u \in Threads,
         pc'[u] = pc[u], call'[u] = call[u], stage'[u] = stage[u],
         pool_data'[u] = pool_data[u], work'[u] = work[u], bad'[u] = bad[u],
         gil = u => gil' = u,
         table_gen' = table_gen \/ gil # u,
         pc[u] \in Building =>
           Visible(pool_data[u].addr)' \subseteq Visible(pool_data[u].addr)
  PROVE  LookupOK(u)'
<1>1. LookupOK(u)
  BY DEF LookupInv
<1>2. pc[u] \in Building => WorkOK(u)'
  BY <1>1 DEF LookupOK, WorkOK
<1>3. Doomed(u)' <=> Doomed(u)
  BY DEF Doomed
<1>4. ASSUME call[u].pool \notin Yielding PROVE PointerOK(u)'
  <2>1. PointerOK(u)
    BY <1>1, <1>4 DEF LookupOK
  <2>2. CASE table_gen' = table_gen
    BY <1>3, <2>1, <2>2 DEF PointerOK, PointerValid
  <2>3. CASE gil # u
    <3>1. pc[u] \in {"outside", "print_error"}
      BY <2>1, <2>3 DEF IInv, CallInv, PointerOK
    <3> QED
      BY <3>1 DEF PointerOK, Doomed, Building
  <2> QED
    BY <2>2, <2>3
<1> QED
  BY <1>1, <1>2, <1>4 DEF LookupOK

(* The steps that leave pools_map and the other threads alone.             *)
LEMMA OneLookup ==
  ASSUME IInv, LookupInv, NEW t \in Threads, gil = t, UNCHANGED tables,
         \A u \in Threads \ {t} :
           /\ pc'[u] = pc[u] /\ call'[u] = call[u] /\ stage'[u] = stage[u]
           /\ pool_data'[u] = pool_data[u] /\ work'[u] = work[u] /\ bad'[u] = bad[u],
         LookupOK(t)'
  PROVE  LookupInv'
<1>1. ASSUME NEW u \in Threads \ {t} PROVE LookupOK(u)'
  <2>1. Visible(pool_data[u].addr)' = Visible(pool_data[u].addr)
    BY DEF tables, Visible
  <2>2. table_gen' = table_gen
    BY DEF tables
  <2> QED
    BY <2>1, <2>2, OthersLookup
<1> QED
  BY <1>1 DEF LookupInv

LEMMA InterpreterLookup ==
  ASSUME IInv, LookupInv, NEW t \in Threads, Interpreter(t) PROVE LookupInv'
<1>1. UNCHANGED <<tables, calls, lookup>>
  BY DEF Interpreter, AcquireGil, ReleaseGil, CreatePool, DropPool, CollectPool
<1>2. /\ UNCHANGED <<pc, call, stage, pool_data, work, bad, table_gen>>
      /\ \A a : Visible(a)' = Visible(a)
  BY <1>1 DEF tables, calls, lookup, Visible
<1>3. ASSUME NEW u \in Threads PROVE LookupOK(u)'
  <2>1. CASE gil = u => gil' = u
    BY <1>2, <1>3, <2>1, OthersLookup
  <2>2. CASE gil = u /\ gil' # u
    <3>1. u = t /\ RunsPython(t)
      BY <2>2, PoolAssumption
      DEF Interpreter, AcquireGil, ReleaseGil, CreatePool, DropPool, CollectPool, RunsPython
    <3>2. LookupOK(t)
      BY DEF LookupInv
    <3>3. pc[t] = "call_python" => call[t].pool \in Yielding
      BY <3>1 DEF RunsPython
    <3>4. pc[t] \in {"outside", "print_error", "call_python"}
      BY <3>1 DEF RunsPython
    <3>5. WorkOK(t)' <=> WorkOK(t)
      BY <1>2 DEF WorkOK
    <3>6. call[t].pool \notin Yielding => PointerOK(t)'
      BY <1>2, <3>2, <3>3, <3>4 DEF LookupOK, PointerOK, PointerValid, Doomed, Building
    <3> QED
      BY <1>2, <3>1, <3>2, <3>5, <3>6 DEF LookupOK
  <2> QED
    BY <2>1, <2>2
<1> QED
  BY <1>3 DEF LookupInv

LEMMA LoadMessageLookup ==
  ASSUME IInv, LookupInv, NEW t \in Threads, NEW p \in Pools, NEW n \in Names,
         NEW x \in Names \cup {Null}, LoadMessage(t, p, n, x)
  PROVE  LookupInv'
<1>1. /\ gil = t /\ pc[t] = "outside" /\ pc'[t] = "get_pool"
      /\ UNCHANGED <<tables, pool_data, work, bad>>
      /\ \A u \in Threads \ {t} : /\ pc'[u] = pc[u] /\ call'[u] = call[u]
                                 /\ stage'[u] = stage[u]
  BY DEF LoadMessage, Goto, IInv, TypeOK, lookup
<1>2. LookupOK(t)'
  BY <1>1 DEF LookupInv, LookupOK, PointerOK, Building
<1> QED
  BY <1>1, <1>2, OneLookup

LEMMA GetPoolLookup ==
  ASSUME IInv, LookupInv, NEW t \in Threads, GetPoolFromPythonPool(t) PROVE LookupInv'
<1> DEFINE p == call[t].pool
           a == where[p]
<1>1. p \in Pools /\ a \in Addr
  BY PoolAssumption DEF IInv, TypeOK, HeapInv, GetPoolFromPythonPool, Call
<1>2. /\ gil = t /\ gil' = t /\ pc[t] = "get_pool" /\ pc'[t] = "find"
      /\ pool_data'[t].gen = table_gen'
      /\ UNCHANGED <<call, stage, work, bad>>
      /\ \A u \in Threads \ {t} : pc'[u] = pc[u] /\ pool_data'[u] = pool_data[u]
  BY <1>1 DEF GetPoolFromPythonPool, PoolEntry, Goto, lookup, IInv, TypeOK
<1>3. LookupOK(t)'
  BY <1>2 DEF LookupInv, LookupOK, PointerOK, PointerValid, Building
<1>4. ASSUME NEW u \in Threads \ {t} PROVE LookupOK(u)'
  <2>1. ASSUME pc[u] \in Building
        PROVE  Visible(pool_data[u].addr)' \subseteq Visible(pool_data[u].addr)
    <3>1. pool_data[u].addr \in Addr /\ database[pool_data[u].addr] # Null
      BY <2>1, PoolAssumption DEF IInv, TypeOK, DataPtr, Call, CallInv, HasData, Building
    <3>2. CASE UNCHANGED tables
      BY <1>2, <3>2 DEF tables, Visible
    <3>3. CASE /\ database[a] = Null
               /\ underlay' = [underlay EXCEPT ![a] = HasUnderlay(p)]
               /\ built' = [built EXCEPT ![a] = {}]
      BY <1>2, <3>1, <3>3 DEF Visible, IInv, TypeOK
    <3> QED
      BY <3>2, <3>3 DEF GetPoolFromPythonPool, Cached
  <2>2. gil # u
    BY <1>2
  <2> QED
    BY <1>2, <2>1, <2>2, OthersLookup
<1> QED
  BY <1>3, <1>4 DEF LookupInv

LEMMA CallLookup ==
  ASSUME IInv, LookupInv, NEW t \in Threads,
         \/ FindCached(t) \/ AskDatabase(t) \/ FindFile(t) \/ FindFileRaises(t)
         \/ GetPrototype(t) \/ GetPrototypeOfMovedSlot(t)
  PROVE  LookupInv'
<1> USE DEF Goto
<1>1. LookupOK(t)
  BY DEF LookupInv
<1>2. /\ gil = t /\ gil' = t /\ UNCHANGED tables /\ bad' = bad
      /\ \A u \in Threads \ {t} :
           /\ pc'[u] = pc[u] /\ call'[u] = call[u] /\ stage'[u] = stage[u]
           /\ pool_data'[u] = pool_data[u] /\ work'[u] = work[u] /\ bad'[u] = bad[u]
  BY DEF FindCached, AskDatabase, FindFile, FindFileRaises, GetPrototype,
         GetPrototypeOfMovedSlot, AfterLookup, Return, lookup, IInv, TypeOK
<1>3. table_gen' = table_gen /\ \A a : Visible(a)' = Visible(a)
  BY <1>2 DEF tables, Visible
<1>4. CASE pc[t] \notin Building /\ pc'[t] = "outside"
  BY <1>1, <1>2, <1>4, OneLookup DEF LookupOK, PointerOK, Building
<1>5. CASE FindCached(t)
  <2>1. pc[t] = "find" /\ AfterLookup(t, TRUE)
    BY <1>5 DEF FindCached
  <2>2. CASE /\ stage[t] = "message" /\ pc'[t] = "get_prototype"
             /\ UNCHANGED <<call, stage, pool_data>>
    <3>1. LookupOK(t)'
      BY <1>1, <1>2, <1>3, <2>1, <2>2 DEF LookupOK, PointerOK, PointerValid, Building
    <3> QED
      BY <1>2, <3>1, OneLookup
  <2>3. CASE pc'[t] = "outside"
    BY <1>4, <2>1, <2>3 DEF Building
  <2> QED
    BY <2>1, <2>2, <2>3 DEF AfterLookup, Return, IInv, TypeOK
<1>6. CASE AskDatabase(t)
  <2>1. /\ pc[t] = "find" /\ pc'[t] = "call_python" /\ work'[t] = <<Goal(t)>>
        /\ Goal(t) \notin Visible(pool_data[t].addr)
        /\ UNCHANGED <<call, stage, pool_data>>
    BY <1>6 DEF AskDatabase, IInv, TypeOK
  <2>2. bad[t] = {}
    BY <1>1, <2>1 DEF LookupOK, Building
  <2>3. Len(work'[t]) = 1 /\ work'[t][1] = Goal(t) /\ 1 .. 1 = {1}
    BY <2>1
  <2>4. WorkOK(t)'
    BY <1>2, <1>3, <2>1, <2>2, <2>3 DEF WorkOK
  <2>5. call[t].pool \notin Yielding => PointerOK(t)'
    BY <1>1, <1>2, <1>3, <2>1 DEF LookupOK, PointerOK, PointerValid
  <2>6. LookupOK(t)'
    BY <2>1, <2>4, <2>5 DEF LookupOK, Building
  <2> QED
    BY <1>2, <2>6, OneLookup
<1>7. CASE FindFile(t) \/ FindFileRaises(t)
  <2>1. /\ pc[t] = "call_python" /\ pc'[t] \in {"cross_link", "print_error"}
        /\ UNCHANGED <<call, stage, pool_data, work>>
    BY <1>7 DEF FindFile, FindFileRaises, lookup, IInv, TypeOK
  <2>2. WorkOK(t)'
    BY <1>1, <1>2, <1>3, <2>1 DEF LookupOK, WorkOK, Building
  <2>3. Doomed(t) => Doomed(t)'
    BY <1>2, <2>1 DEF Doomed
  <2>4. call[t].pool \notin Yielding => PointerOK(t)'
    BY <1>1, <1>2, <1>3, <2>1, <2>3 DEF LookupOK, PointerOK, PointerValid, Building
  <2>5. LookupOK(t)'
    BY <2>1, <2>2, <2>4 DEF LookupOK, Building
  <2> QED
    BY <1>2, <2>5, OneLookup
<1>8. CASE GetPrototype(t)
  <2>1. /\ pc[t] = "get_prototype"
        /\ \/ pc'[t] = "find" /\ stage'[t] = "extension"
           \/ pc'[t] = "outside"
    BY <1>8 DEF GetPrototype, Return, IInv, TypeOK
  <2>2. LookupOK(t)'
    BY <1>1, <1>2, <2>1 DEF LookupOK, PointerOK, Building
  <2> QED
    BY <1>2, <2>2, OneLookup
<1>9. CASE GetPrototypeOfMovedSlot(t)
  <2>1. /\ pc[t] = "get_prototype" /\ ~PointerValid(t) /\ pc'[t] = "undefined"
        /\ UNCHANGED call
    BY <1>9 DEF GetPrototypeOfMovedSlot, IInv, TypeOK
  <2>2. call[t].pool \in Yielding
    BY <1>1, <2>1 DEF LookupOK, PointerOK
  <2>3. LookupOK(t)'
    BY <1>1, <1>2, <2>1, <2>2 DEF LookupOK, Building
  <2> QED
    BY <1>2, <2>3, OneLookup
<1> QED
  BY <1>5, <1>6, <1>7, <1>8, <1>9

(* A file is done with: the one below it imports it, so if it is bad, that *)
(* one is doomed; and if it is good, it was not itself doomed.             *)
LEMMA FinishLookup ==
  ASSUME IInv, LookupInv, NEW t \in Threads, NEW isBuilt \in BOOLEAN, gil = t,
         Finish(t, isBuilt),
         \/ pc[t] = "print_error" /\ ~isBuilt
         \/ pc[t] = "cross_link" /\ (isBuilt => ImportsFound(t))
  PROVE  LookupInv'
<1> DEFINE s    == work[t]
           rest == Tail(s)
           n    == Head(s)
<1>0. PICK a \in Addr : a = pool_data[t].addr
  BY DEF IInv, TypeOK, DataPtr
<1>1. /\ Len(rest) \in Nat /\ Len(s) = Len(rest) + 1
      /\ n = s[1] /\ rest \in Seq(Names)
      /\ \A i \in 1 .. Len(rest) : rest[i] = s[i + 1]
  BY RestOfWork DEF Building
<1>2. LookupOK(t) /\ WorkOK(t)
  BY DEF LookupInv, LookupOK, Building
<1>3. /\ gil' = t /\ table_gen' = table_gen /\ underlay' = underlay
      /\ work' = [work EXCEPT ![t] = rest]
      /\ built' = IF isBuilt THEN [built EXCEPT ![a] = @ \cup {n}] ELSE built
  BY <1>0 DEF Finish
<1>4. a \in Addr /\ mutex[a] = t
  BY <1>0 DEF IInv, CallInv, Building
<1>5. Visible(a)' \subseteq Visible(a) \cup (IF isBuilt THEN {n} ELSE {})
  BY <1>3, <1>4 DEF Visible, IInv, TypeOK
<1>6. work'[t] = rest /\ \A u \in Threads \ {t} : work'[u] = work[u]
  BY <1>3 DEF IInv, TypeOK
<1> HIDE DEF s, rest, n
<1>7. /\ \A i, j \in 1 .. Len(s) : s[i] = s[j] => i = j
      /\ \A i \in 1 .. Len(s) : s[i] \notin bad[t] /\ s[i] \notin Visible(a)
      /\ \A i \in 1 .. Len(s) : i > 1 => s[i - 1] \in Imports[s[i]]
      /\ \A m \in bad[t] : m \notin Visible(a)
  BY <1>2, <1>0 DEF WorkOK, s
<1>8. ASSUME NEW i \in 1 .. Len(rest)
      PROVE  /\ i + 1 \in 1 .. Len(s) /\ i + 1 > 1 /\ (i + 1) - 1 = i
             /\ rest[i] = s[i + 1] /\ rest[i] # n
  <2>1. i + 1 \in 1 .. Len(s) /\ i + 1 > 1 /\ (i + 1) - 1 = i /\ 1 \in 1 .. Len(s) /\ i + 1 # 1
    BY <1>1
  <2> QED
    BY <1>1, <1>7, <2>1
<1>9. 1 \in 1 .. Len(s)
  BY <1>1
<1>10. ASSUME NEW u \in Threads \ {t}, pc'[u] = pc[u], call'[u] = call[u],
              stage'[u] = stage[u], pool_data'[u] = pool_data[u], bad'[u] = bad[u]
       PROVE  LookupOK(u)'
  <2>1. ASSUME pc[u] \in Building
        PROVE  Visible(pool_data[u].addr)' \subseteq Visible(pool_data[u].addr)
    <3>1. pool_data[u].addr \in Addr /\ mutex[pool_data[u].addr] = u
      BY <2>1 DEF IInv, TypeOK, DataPtr, CallInv
    <3>2. pool_data[u].addr # a
      BY <1>4, <3>1
    <3> QED
      BY <1>3, <1>10, <3>1, <3>2 DEF Visible, IInv, TypeOK
  <2>2. gil # u
    OBVIOUS
  <2> QED
    BY <1>3, <1>6, <1>10, <2>1, <2>2, OthersLookup
<1>11. CASE /\ rest # <<>>
            /\ bad' = IF isBuilt THEN bad ELSE [bad EXCEPT ![t] = @ \cup {n}]
            /\ Goto(t, "cross_link")
            /\ UNCHANGED <<mutex, call, stage, pool_data>>
  <2>1. /\ pc'[t] = "cross_link"
        /\ bad'[t] = IF isBuilt THEN bad[t] ELSE bad[t] \cup {n}
        /\ \A u \in Threads \ {t} : pc'[u] = pc[u] /\ bad'[u] = bad[u]
    BY <1>11 DEF Goto, IInv, TypeOK
  <2>2. pool_data'[t].addr = a
    BY <1>11, <1>0
  <2>3. WorkOK(t)'
    <3>1. ASSUME NEW i \in 1 .. Len(rest), NEW j \in 1 .. Len(rest), rest[i] = rest[j]
          PROVE  i = j
      <4>1. i + 1 = j + 1
        BY <1>7, <1>8, <3>1
      <4> QED
        BY <4>1
    <3>2. ASSUME NEW i \in 1 .. Len(rest)
          PROVE  rest[i] \notin bad'[t] /\ rest[i] \notin Visible(a)'
      BY <1>5, <1>7, <1>8, <2>1
    <3>3. ASSUME NEW i \in 1 .. Len(rest), i > 1
          PROVE  rest[i - 1] \in Imports[rest[i]]
      <4>1. i - 1 \in 1 .. Len(rest) /\ (i - 1) + 1 = i
        BY <1>1, <3>3
      <4>2. rest[i - 1] = s[i]
        BY <1>8, <4>1
      <4> QED
        BY <1>7, <1>8, <4>2
    <3>4. \A m \in bad'[t] : m \notin Visible(a)'
      BY <1>1, <1>5, <1>7, <1>9, <2>1
    <3> QED
      BY <1>6, <2>2, <3>1, <3>2, <3>3, <3>4 DEF WorkOK
  <2>4. ASSUME Doomed(t) PROVE Doomed(t)'
    <3>1. ASSUME ~isBuilt PROVE Doomed(t)'
      <4>1. 1 \in 1 .. Len(rest)
        BY <1>1, <1>11
      <4>2. n \in Imports[rest[1]]
        BY <1>1, <1>7, <1>8, <4>1
      <4> QED
        BY <1>6, <2>1, <3>1, <4>1, <4>2 DEF Doomed
    <3>2. ASSUME isBuilt PROVE Doomed(t)'
      <4>1. PICK i \in 1 .. Len(s) : \E m \in Imports[s[i]] : m \in bad[t]
        BY <2>4, <3>2 DEF Doomed, s
      <4>2. PICK m \in Imports[s[i]] : m \in bad[t]
        BY <4>1
      <4>3. i # 1
        BY <1>1, <1>7, <3>2, <4>2, <1>0 DEF ImportsFound, s, n
      <4>4. i - 1 \in 1 .. Len(rest) /\ (i - 1) + 1 = i
        BY <1>1, <4>3
      <4>5. rest[i - 1] = s[i]
        BY <1>8, <4>4
      <4>6. m \in Imports[rest[i - 1]] /\ m \in bad'[t]
        BY <2>1, <3>2, <4>2, <4>5
      <4> QED
        BY <1>6, <4>4, <4>6 DEF Doomed
    <3> QED
      BY <3>1, <3>2
  <2>5. call[t].pool \notin Yielding => PointerOK(t)'
    BY <1>2, <1>3, <1>11, <2>1, <2>4 DEF LookupOK, PointerOK, PointerValid, Building
  <2>6. LookupOK(t)'
    BY <1>11, <2>1, <2>3, <2>5 DEF LookupOK, Building
  <2> QED
    BY <1>10, <1>11, <2>1, <2>6 DEF LookupInv
<1>12. CASE /\ rest = <<>>
            /\ bad' = [bad EXCEPT ![t] = {}]
            /\ AfterLookup(t, isBuilt)
  <2>1. bad'[t] = {}
    BY <1>12 DEF IInv, TypeOK
  <2>2. \A u \in Threads \ {t} :
          /\ pc'[u] = pc[u] /\ call'[u] = call[u] /\ stage'[u] = stage[u]
          /\ pool_data'[u] = pool_data[u] /\ bad'[u] = bad[u]
    BY <1>12 DEF AfterLookup, Return, Goto, IInv, TypeOK
  <2>3. CASE pc'[t] = "outside"
    <3>1. LookupOK(t)'
      BY <2>1, <2>3 DEF LookupOK, PointerOK, Building
    <3> QED
      BY <1>10, <2>2, <3>1 DEF LookupInv
  <2>4. CASE /\ stage[t] = "message" /\ isBuilt /\ pc'[t] = "get_prototype"
             /\ UNCHANGED <<call, stage, pool_data>>
    <3>1. ~Doomed(t)
      <4> SUFFICES ASSUME Doomed(t) PROVE FALSE
        OBVIOUS
      <4>1. PICK i \in 1 .. Len(s) : \E m \in Imports[s[i]] : m \in bad[t]
        BY <2>4 DEF Doomed, s
      <4>2. Len(<<>>) = 0
        OBVIOUS
      <4>3. Len(rest) = 0
        BY <1>12, <4>2, Zenon
      <4>4. i = 1
        BY <1>1, <4>3
      <4> QED
        BY <1>1, <1>7, <2>4, <4>1, <4>4, <1>0 DEF ImportsFound, s, n
    <3>2. call[t].pool \notin Yielding => PointerOK(t)'
      BY <1>2, <1>3, <2>4, <3>1 DEF LookupOK, PointerOK, PointerValid, Building
    <3>3. LookupOK(t)'
      BY <2>1, <2>4, <3>2 DEF LookupOK, Building
    <3> QED
      BY <1>10, <2>2, <3>3 DEF LookupInv
  <2> QED
    BY <1>12, <2>3, <2>4 DEF AfterLookup, Return, Goto, IInv, TypeOK
<1> QED
  BY <1>11, <1>12 DEF Finish, s, rest, n

LEMMA LoadImportLookup ==
  ASSUME IInv, LookupInv, NEW t \in Threads, LoadImport(t) PROVE LookupInv'
<1> DEFINE s == work[t]
           k == Len(s)
           a == pool_data[t].addr
<1>1. PICK n \in MissingImports(t) : work' = [work EXCEPT ![t] = <<n>> \o s]
  BY DEF LoadImport, IInv, TypeOK
<1>2. /\ gil = t /\ pc[t] = "cross_link" /\ pc'[t] = "call_python"
      /\ UNCHANGED <<tables, call, stage, pool_data, bad>> /\ gil' = t
      /\ \A u \in Threads \ {t} : pc'[u] = pc[u]
  BY DEF LoadImport, Goto, IInv, TypeOK
<1>3. LookupOK(t) /\ WorkOK(t)
  BY <1>2 DEF LookupInv, LookupOK, Building
<1>4. s \in Seq(Names) /\ s # <<>> /\ k \in Nat /\ k > 0 /\ Head(s) = s[1]
  <2>1. s \in Seq(Names) /\ s # <<>>
    BY <1>2 DEF IInv, TypeOK, WorkInv, Building
  <2> QED
    BY <2>1
<1>5. /\ n \in Imports[s[1]] /\ n \in Names
      /\ n \notin Visible(a) /\ n \notin bad[t]
      /\ \A i \in 1 .. k : s[i] # n
  <2>1. Head(s) \in Names
    BY <1>4
  <2> QED
    BY <1>4, <2>1, PoolAssumption DEF MissingImports
<1>6. \A u \in Threads \ {t} : work'[u] = work[u]
  BY <1>1 DEF IInv, TypeOK
<1> DEFINE w == <<n>> \o s
<1>7. work'[t] = w
  BY <1>1 DEF IInv, TypeOK
<1>8. /\ Len(w) = k + 1 /\ w[1] = n
      /\ \A i \in 1 .. k + 1 : i # 1 => i - 1 \in 1 .. k /\ w[i] = s[i - 1]
  <2>1. <<n>> \in Seq(Names) /\ Len(<<n>>) = 1 /\ <<n>>[1] = n
    BY <1>5
  <2>2. /\ Len(w) = 1 + k
        /\ \A i \in 1 .. 1 + k : w[i] = IF i <= 1 THEN <<n>>[i] ELSE s[i - 1]
    <3> HIDE DEF s
    <3> QED
      BY <1>4, <2>1, ConcatProperties
  <2> HIDE DEF s, w, k
  <2>3. Len(w) = k + 1 /\ w[1] = n
    BY <1>4, <2>1, <2>2
  <2>4. ASSUME NEW i \in 1 .. k + 1, i # 1 PROVE i - 1 \in 1 .. k /\ w[i] = s[i - 1]
    BY <1>4, <2>2, <2>4
  <2> QED
    BY <2>3, <2>4
<1>9. table_gen' = table_gen /\ \A b : Visible(b)' = Visible(b)
  BY <1>2 DEF tables, Visible
<1> HIDE DEF s, k, a, w
<1>10. /\ \A i, j \in 1 .. k : s[i] = s[j] => i = j
       /\ \A i \in 1 .. k : s[i] \notin bad[t] /\ s[i] \notin Visible(a)
       /\ \A i \in 1 .. k : i > 1 => s[i - 1] \in Imports[s[i]]
       /\ \A m \in bad[t] : m \notin Visible(a)
  BY <1>3 DEF WorkOK, s, a, k
<1>11. WorkOK(t)'
  <2>1. ASSUME NEW i \in 1 .. k + 1, NEW j \in 1 .. k + 1, w[i] = w[j]
        PROVE  i = j
    <3>1. CASE i = 1 \/ j = 1
      BY <1>4, <1>5, <1>8, <2>1, <3>1
    <3>2. CASE i # 1 /\ j # 1
      <4>1. i - 1 = j - 1
        BY <1>8, <1>10, <2>1, <3>2
      <4> QED
        BY <1>4, <4>1
    <3> QED
      BY <3>1, <3>2
  <2>2. ASSUME NEW i \in 1 .. k + 1 PROVE w[i] \notin bad[t] /\ w[i] \notin Visible(a)
    BY <1>5, <1>8, <1>10
  <2>3. ASSUME NEW i \in 1 .. k + 1, i > 1 PROVE w[i - 1] \in Imports[w[i]]
    <3>1. CASE i = 2
      BY <1>4, <1>5, <1>8, <2>3, <3>1
    <3>2. CASE i # 2
      <4>1. i - 1 \in 1 .. k + 1 /\ i - 1 # 1 /\ i # 1 /\ i - 1 > 1
        BY <1>4, <2>3, <3>2
      <4>2. w[i - 1] = s[(i - 1) - 1] /\ w[i] = s[i - 1] /\ i - 1 \in 1 .. k
        BY <1>8, <4>1
      <4> QED
        BY <1>10, <4>1, <4>2
    <3> QED
      BY <3>1, <3>2
  <2>4. pool_data'[t].addr = a /\ bad'[t] = bad[t]
    BY <1>2 DEF a
  <2> QED
    BY <1>7, <1>8, <1>9, <1>10, <2>1, <2>2, <2>3, <2>4 DEF WorkOK
<1>12. ASSUME Doomed(t) PROVE Doomed(t)'
  <2>1. PICK i \in 1 .. k : \E m \in Imports[s[i]] : m \in bad[t]
    BY <1>2, <1>12 DEF Doomed, s, k
  <2>2. i + 1 \in 1 .. k + 1 /\ i + 1 # 1 /\ (i + 1) - 1 = i
    BY <1>4
  <2>3. w[i + 1] = s[i]
    BY <1>8, <2>2
  <2> QED
    BY <1>2, <1>7, <1>8, <2>1, <2>2, <2>3 DEF Doomed
<1>13. call[t].pool \notin Yielding => PointerOK(t)'
  BY <1>2, <1>3, <1>9, <1>12 DEF LookupOK, PointerOK, PointerValid, Building
<1>14. LookupOK(t)'
  BY <1>2, <1>11, <1>13 DEF LookupOK, Building
<1> QED
  BY <1>2, <1>6, <1>14, OneLookup

LEMMA NextLookup == IInv /\ LookupInv /\ [Next]_vars => LookupInv'
<1> SUFFICES ASSUME IInv, LookupInv, [Next]_vars PROVE LookupInv'
  OBVIOUS
<1>1. CASE UNCHANGED vars
  BY <1>1 DEF LookupInv, LookupOK, WorkOK, PointerOK, Doomed, PointerValid, Visible,
              vars, tables, calls, lookup
<1>2. ASSUME NEW t \in Threads, Step(t) PROVE LookupInv'
  <2>1. CASE ErrorPrinted(t)
    BY <2>1, FinishLookup DEF ErrorPrinted, AfterError
  <2>2. CASE CrossLink(t)
    <3>1. ImportsFound(t) \in BOOLEAN
      BY DEF ImportsFound
    <3> QED
      BY <2>2, <3>1, FinishLookup DEF CrossLink
  <2> QED
    BY <1>2, <2>1, <2>2, GetPoolLookup, CallLookup, LoadImportLookup DEF Step
<1> QED
  BY <1>1, <1>2, InterpreterLookup, LoadMessageLookup DEF Next

(* Unless the lookups of its pool run bytecode, the pointer into pools_map *)
(* that a call follows after its lookup is good, although errors are       *)
(* printed, and the slots moved, in the middle of lookups.                 *)
THEOREM FollowedPointers == Spec => []FollowedPointerValid
<1>1. Init => LookupInv
  BY DEF Init, LookupInv, LookupOK, PointerOK, Building
<1>2. LookupInv => FollowedPointerValid
  BY DEF LookupInv, LookupOK, PointerOK, FollowedPointerValid
<1> QED
  BY <1>1, <1>2, NextLookup, Invariant, PTL DEF Spec
=============================================================================
