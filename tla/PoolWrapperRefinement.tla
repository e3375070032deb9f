------------------------ MODULE PoolWrapperRefinement ------------------------
(***************************************************************************)
(* PoolWrapper implements DescriptorCache: what the pools have learnt, and *)
(* the messages made from it, change as those of the abstract cache do.    *)
(***************************************************************************)
EXTENDS PoolWrapperProofs

(* The Python pool has every file that a lookup builds, except the one it  *)
(* is being asked for.                                                     *)
FoundIn(t) ==
  pc[t] \in Building =>
    \A i \in 1 .. Len(work[t]) :
      pc[t] = "cross_link" \/ i > 1 => work[t][i] \in Defines[call[t].pool]

FoundInv == \A t \in Threads : FoundIn(t)

(* The variables of the abstract cache.                                    *)
Learnt == [p \in Pools |-> UNION {built[a] : a \in {b \in Addr : database[b] = p}}]
Made   == {<<m.asked, m.name>> : m \in messages}
Linked == [p \in Pools |-> IF p = DefaultPool THEN Generated ELSE {}]

LEMMA LearntFrom ==
  \A p \in Pools : \A n : n \in Learnt[p] <=> \E a \in Addr : database[a] = p /\ n \in built[a]
BY DEF Learnt

-----------------------------------------------------------------------------
LEMMA OthersFound ==
  ASSUME FoundInv, NEW t \in Threads, FoundIn(t)',
         \A u \in Threads \ {t} :
           pc'[u] = pc[u] /\ work'[u] = work[u] /\ call'[u] = call[u]
  PROVE  FoundInv'
BY DEF FoundInv, FoundIn

LEMMA FinishFound ==
  ASSUME IInv, FoundInv, NEW t \in Threads, NEW isBuilt \in BOOLEAN, pc[t] \in Building,
         Finish(t, isBuilt)
  PROVE  FoundInv'
<1> DEFINE rest == Tail(work[t])
<1>1. work' = [work EXCEPT ![t] = rest]
  BY DEF Finish
<1>2. work'[t] = rest /\ \A u \in Threads \ {t} : work'[u] = work[u]
  BY <1>1 DEF IInv, TypeOK
<1>3. CASE Goto(t, "cross_link") /\ UNCHANGED call
  <2>1. /\ Len(rest) \in Nat /\ Len(work[t]) = Len(rest) + 1
        /\ \A i \in 1 .. Len(rest) : rest[i] = work[t][i + 1]
    BY RestOfWork
  <2> DEFINE n == Len(rest)
  <2> HIDE DEF n
  <2>2. ASSUME NEW i \in 1 .. n PROVE work[t][i + 1] \in Defines[call[t].pool]
    <3>1. i + 1 \in 1 .. Len(work[t]) /\ i + 1 > 1
      BY <2>1 DEF n
    <3> QED
      BY <3>1 DEF FoundInv, FoundIn
  <2>3. \A i \in 1 .. n : rest[i] \in Defines[call[t].pool]
    BY <2>1, <2>2 DEF n
  <2>4. FoundIn(t)'
    BY <1>2, <1>3, <2>3 DEF FoundIn, n
  <2>5. \A u \in Threads \ {t} : pc'[u] = pc[u] /\ call'[u] = call[u]
    BY <1>3 DEF Goto, IInv, TypeOK
  <2> QED
    BY <1>2, <2>4, <2>5, OthersFound
<1>4. CASE AfterLookup(t, isBuilt)
  <2>1. pc'[t] \in {"get_prototype", "outside"}
    BY <1>4 DEF AfterLookup, Return, Goto, IInv, TypeOK
  <2>2. \A u \in Threads \ {t} : pc'[u] = pc[u] /\ call'[u] = call[u]
    BY <1>4 DEF AfterLookup, Return, Goto, IInv, TypeOK
  <2>3. FoundIn(t)'
    BY <2>1 DEF FoundIn, Building
  <2> QED
    BY <1>2, <2>2, <2>3, OthersFound
<1> QED
  BY <1>3, <1>4 DEF Finish

LEMMA StepFound ==
  ASSUME IInv, FoundInv, NEW t \in Threads, Step(t) PROVE FoundInv'
<1>1. CASE ErrorPrinted(t)
  BY <1>1, FinishFound DEF ErrorPrinted, AfterError, Building
<1>2. CASE CrossLink(t)
  <2>1. ImportsFound(t) \in BOOLEAN
    BY DEF ImportsFound
  <2> QED
    BY <1>2, <2>1, FinishFound DEF CrossLink, Building
<1> USE DEF IInv, TypeOK, Goto
<1>3. CASE \/ GetPoolFromPythonPool(t) \/ FindCached(t)
           \/ GetPrototype(t) \/ GetPrototypeOfMovedSlot(t)
  <2>1. work' = work /\ pc'[t] \notin Building
    BY <1>3 DEF GetPoolFromPythonPool, FindCached, GetPrototype, GetPrototypeOfMovedSlot,
                AfterLookup, Return, lookup, Building
  <2>2. \A u \in Threads \ {t} : pc'[u] = pc[u] /\ call'[u] = call[u]
    BY <1>3 DEF GetPoolFromPythonPool, FindCached, GetPrototype, GetPrototypeOfMovedSlot,
                AfterLookup, Return
  <2>3. FoundIn(t)'
    BY <2>1 DEF FoundIn
  <2> QED
    BY <2>1, <2>2, <2>3, OthersFound
<1>4. CASE AskDatabase(t)
  <2>1. pc'[t] = "call_python" /\ work'[t] = <<Goal(t)>>
    BY <1>4 DEF AskDatabase
  <2>2. FoundIn(t)'
    BY <2>1 DEF FoundIn
  <2> QED
    BY <1>4, <2>2, OthersFound DEF AskDatabase
<1>5. CASE FindFile(t)
  <2>1. /\ pc[t] = "call_python" /\ pc'[t] = "cross_link"
        /\ UNCHANGED <<call, work>>
        /\ Head(work[t]) \in Defines[call[t].pool]
    BY <1>5 DEF FindFile, lookup
  <2>2. Head(work[t]) = work[t][1]
    BY <2>1, RestOfWork DEF Building
  <2>3. Len(work[t]) \in Nat
    BY LenProperties
  <2>4. \A i \in 1 .. Len(work[t]) : i = 1 \/ i > 1
    BY <2>3
  <2>5. FoundIn(t)'
    BY <2>1, <2>2, <2>4 DEF FoundInv, FoundIn, Building
  <2> QED
    BY <1>5, <2>5, OthersFound DEF FindFile, lookup
<1>6. CASE FindFileRaises(t)
  <2>1. /\ pc[t] = "call_python" /\ pc'[t] = "print_error"
        /\ UNCHANGED <<call, work>>
    BY <1>6 DEF FindFileRaises, lookup
  <2>2. FoundIn(t)'
    BY <2>1 DEF FoundInv, FoundIn, Building
  <2> QED
    BY <1>6, <2>2, OthersFound DEF FindFileRaises, lookup
<1>7. CASE LoadImport(t)
  <2>1. PICK n : work' = [work EXCEPT ![t] = <<n>> \o work[t]] /\ n \in MissingImports(t)
    BY <1>7 DEF LoadImport
  <2>2. pc[t] = "cross_link" /\ pc'[t] = "call_python" /\ UNCHANGED call
    BY <1>7 DEF LoadImport
  <2>3. n \in Names
    <3>1. Head(work[t]) \in Names
      BY <2>2, RestOfWork DEF Building
    <3> QED
      BY <2>1, <3>1, PoolAssumption DEF MissingImports
  <2> DEFINE s == work[t]
             k == Len(s)
             w == <<n>> \o s
  <2>4. k \in Nat /\ s \in Seq(Names) /\ <<n>> \in Seq(Names) /\ Len(<<n>>) = 1
    BY <2>3, LenProperties
  <2>5. /\ Len(w) = 1 + k
        /\ \A i \in 1 .. 1 + k : w[i] = IF i <= 1 THEN <<n>>[i] ELSE s[i - 1]
    <3> HIDE DEF s
    <3> QED
      BY <2>4, ConcatProperties
  <2>6. \A i \in 1 .. k : s[i] \in Defines[call[t].pool]
    BY <2>2 DEF FoundInv, FoundIn, Building
  <2>7. work'[t] = w
    BY <2>1
  <2> HIDE DEF s, k, w
  <2>8. \A i \in 1 .. Len(w) : i > 1 => w[i] \in Defines[call[t].pool]
    <3> SUFFICES ASSUME NEW i \in 1 .. 1 + k, i > 1 PROVE w[i] \in Defines[call[t].pool]
      BY <2>5
    <3>1. i - 1 \in 1 .. k /\ w[i] = s[i - 1]
      BY <2>4, <2>5
    <3> QED
      BY <2>6, <3>1
  <2>9. FoundIn(t)'
    BY <2>2, <2>7, <2>8 DEF FoundIn
  <2> QED
    BY <1>7, <2>1, <2>9, OthersFound DEF LoadImport
<1> QED
  BY <1>1, <1>2, <1>3, <1>4, <1>5, <1>6, <1>7 DEF Step

LEMMA NextFound == IInv /\ FoundInv /\ [Next]_vars => FoundInv'
<1> SUFFICES ASSUME IInv, FoundInv, [Next]_vars PROVE FoundInv'
  OBVIOUS
<1>1. CASE UNCHANGED <<pc, call, work>>
  BY <1>1 DEF FoundInv, FoundIn
<1>2. ASSUME NEW t \in Threads, Interpreter(t) PROVE UNCHANGED <<pc, call, work>>
  BY <1>2 DEF Interpreter, AcquireGil, ReleaseGil, CreatePool, DropPool, CollectPool,
              calls, lookup
<1>3. ASSUME NEW t \in Threads, NEW p \in Pools, NEW n \in Names, NEW x \in Names \cup {Null},
             LoadMessage(t, p, n, x)
      PROVE  FoundInv'
  <2>1. pc'[t] = "get_pool" /\ work' = work
        /\ \A u \in Threads \ {t} : pc'[u] = pc[u] /\ call'[u] = call[u]
    BY <1>3 DEF LoadMessage, Goto, IInv, TypeOK, lookup
  <2>2. FoundIn(t)'
    BY <2>1 DEF FoundIn, Building
  <2> QED
    BY <2>1, <2>2, OthersFound
<1> QED
  BY <1>1, <1>2, <1>3, StepFound DEF Next, vars, calls, lookup

-----------------------------------------------------------------------------
(* The abstract step of a step.                                            *)
Learns(p, n) ==
  /\ n \in Defines[p]
  /\ Imports[n] \subseteq Learnt[p] \cup Linked[p]
  /\ Learnt' = [Learnt EXCEPT ![p] = @ \cup {n}]
  /\ Made' = Made

Makes(p, n) ==
  /\ n \in Learnt[p] \cup Linked[p]
  /\ Made' = Made \cup {<<p, n>>}
  /\ Learnt' = Learnt

Stutters == Learnt' = Learnt /\ Made' = Made

LEMMA Stays ==
  ASSUME UNCHANGED <<tables, messages>> PROVE Stutters
BY DEF Stutters, Learnt, Made, tables

(* What a C++ pool can find is what the abstract cache knows.              *)
LEMMA VisibleKnown ==
  ASSUME IInv, NEW a \in Addr, NEW p \in Pools, database[a] = p
  PROVE  Visible(a) \subseteq Learnt[p] \cup Linked[p]
<1>1. built[a] \subseteq Learnt[p]
  BY LearntFrom
<1>2. underlay[a] => Linked[p] = Generated
  BY DEF IInv, WorkInv, Linked
<1> QED
  BY <1>1, <1>2 DEF Visible

LEMMA GetPoolStutters ==
  ASSUME IInv, NEW t \in Threads, GetPoolFromPythonPool(t) PROVE Stutters
<1> DEFINE p == call[t].pool
           a == where[p]
<1>1. p \in Pools /\ a \in Addr
  BY PoolAssumption DEF IInv, TypeOK, HeapInv, GetPoolFromPythonPool, Call
<1>2. messages' = messages
  BY DEF GetPoolFromPythonPool
<1>3. CASE UNCHANGED tables
  BY <1>2, <1>3, Stays
<1>4. CASE /\ database[a] = Null
           /\ database' = [database EXCEPT ![a] = p]
           /\ built' = [built EXCEPT ![a] = {}]
  <2>1. built[a] = {}
    BY <1>1, <1>4 DEF IInv, WorkInv
  <2>2. \A b \in Addr : built'[b] = built[b]
    BY <1>4, <2>1 DEF IInv, TypeOK
  <2>3. \A b \in Addr : b # a => database'[b] = database[b]
    BY <1>4 DEF IInv, TypeOK
  <2>4. ASSUME NEW q \in Pools PROVE Learnt'[q] = Learnt[q]
    <3>1. \A n : n \in Learnt[q] <=> \E b \in Addr : database[b] = q /\ n \in built[b]
      BY LearntFrom
    <3>2. \A n : n \in Learnt'[q] <=> \E b \in Addr : database'[b] = q /\ n \in built'[b]
      BY DEF Learnt
    <3>3. \A n : n \in Learnt'[q] <=> n \in Learnt[q]
      BY <2>1, <2>2, <2>3, <3>1, <3>2
    <3> QED
      BY <3>3
  <2>5. Learnt' = Learnt
    BY <2>4 DEF Learnt
  <2> QED
    BY <1>2, <2>5 DEF Stutters, Made
<1> QED
  BY <1>3, <1>4 DEF GetPoolFromPythonPool, Cached

LEMMA FailedFileStutters ==
  ASSUME NEW t \in Threads, Finish(t, FALSE) PROVE Stutters
BY DEF Finish, Stutters, Learnt, Made

LEMMA BuiltFileLearns ==
  ASSUME IInv, FoundInv, NEW t \in Threads, pc[t] = "cross_link", ImportsFound(t),
         Finish(t, TRUE)
  PROVE  \E p \in Pools, n \in Names : Learns(p, n)
<1> DEFINE p == call[t].pool
           n == Head(work[t])
           a == pool_data[t].addr
<1>1. p \in Pools /\ a \in Addr /\ database[a] = p
  BY DEF IInv, TypeOK, Call, DataPtr, CallInv, HasData, Building
<1>2. n \in Names /\ n = work[t][1] /\ 1 \in 1 .. Len(work[t])
  BY RestOfWork DEF Building
<1>3. n \in Defines[p]
  BY <1>2 DEF FoundInv, FoundIn, Building
<1>4. Imports[n] \subseteq Learnt[p] \cup Linked[p]
  BY <1>1, VisibleKnown DEF ImportsFound
<1>5. built' = [built EXCEPT ![a] = @ \cup {n}] /\ database' = database /\ messages' = messages
  BY DEF Finish
<1>6. Learnt' = [Learnt EXCEPT ![p] = @ \cup {n}]
  <2> HIDE DEF p, n, a
  <2>1. \A b \in Addr : built'[b] = IF b = a THEN built[a] \cup {n} ELSE built[b]
    BY <1>5 DEF IInv, TypeOK
  <2>2. ASSUME NEW q \in Pools
        PROVE  Learnt'[q] = IF q = p THEN Learnt[p] \cup {n} ELSE Learnt[q]
    <3>1. \A m : m \in Learnt[q] <=> \E b \in Addr : database[b] = q /\ m \in built[b]
      BY LearntFrom
    <3>2. \A m : m \in Learnt'[q] <=> \E b \in Addr : database[b] = q /\ m \in built'[b]
      BY <1>5 DEF Learnt
    <3>3. \A m : m \in Learnt'[q] <=> m \in Learnt[q] \/ (q = p /\ m = n)
      BY <1>1, <2>1, <3>1, <3>2
    <3> QED
      BY <3>3
  <2>3. \A q \in Pools : Learnt'[q] = [Learnt EXCEPT ![p] = @ \cup {n}][q]
    BY <2>2 DEF Learnt
  <2> QED
    BY <2>3 DEF Learnt
<1>7. Made' = Made
  BY <1>5 DEF Made
<1>8. Learns(p, n)
  BY <1>3, <1>4, <1>6, <1>7 DEF Learns
<1> QED
  BY <1>1, <1>2, <1>8

LEMMA GetPrototypeMakes ==
  ASSUME IInv, NEW t \in Threads, GetPrototype(t)
  PROVE  \E p \in Pools, n \in Names : Makes(p, n)
<1> DEFINE p == call[t].pool
           n == call[t].name
           a == pool_data[t].addr
           m == [asked |-> p, from |-> database[a], name |-> n, compiled |-> n \notin built[a]]
<1>1. p \in Pools /\ n \in Names /\ a \in Addr /\ database[a] = p
  BY DEF IInv, TypeOK, Call, DataPtr, CallInv, HasData, GetPrototype
<1>2. n \in Visible(a)
  BY DEF GetPrototype, IInv, WorkInv
<1>3. messages' = messages \cup {m} /\ UNCHANGED tables
  BY DEF GetPrototype
<1>4. Made' = Made \cup {<<p, n>>}
  <2>1. m.asked = p /\ m.name = n
    OBVIOUS
  <2> HIDE DEF m, p, n
  <2> QED
    BY <1>3, <2>1 DEF Made
<1>5. Learnt' = Learnt
  BY <1>3 DEF Learnt, tables
<1>6. Makes(p, n)
  BY <1>1, <1>2, <1>4, <1>5, VisibleKnown DEF Makes
<1> QED
  BY <1>1, <1>6

LEMMA NextAbstract ==
  ASSUME IInv, FoundInv, [Next]_vars
  PROVE  Stutters \/ \E p \in Pools, n \in Names : Learns(p, n) \/ Makes(p, n)
<1>1. CASE UNCHANGED <<tables, messages>>
  BY <1>1, Stays
<1>2. ASSUME NEW t \in Threads, Interpreter(t) PROVE UNCHANGED <<tables, messages>>
  BY <1>2 DEF Interpreter, AcquireGil, ReleaseGil, CreatePool, DropPool, CollectPool
<1>3. ASSUME NEW t \in Threads, CrossLink(t)
      PROVE  Stutters \/ \E p \in Pools, n \in Names : Learns(p, n)
  <2>1. CASE ImportsFound(t)
    <3>1. Finish(t, TRUE)
      BY <1>3, <2>1 DEF CrossLink, ImportsFound, Finish, Unlock, AfterLookup
    <3> QED
      BY <1>3, <2>1, <3>1, BuiltFileLearns DEF CrossLink
  <2>2. CASE ~ImportsFound(t)
    <3>1. Finish(t, FALSE)
      BY <1>3, <2>2 DEF CrossLink, ImportsFound, Finish, Unlock, AfterLookup
    <3> QED
      BY <3>1, FailedFileStutters
  <2> QED
    BY <2>1, <2>2
<1>4. ASSUME NEW t \in Threads, Step(t)
      PROVE  \/ UNCHANGED <<tables, messages>>
             \/ Stutters
             \/ \E p \in Pools, n \in Names : Learns(p, n) \/ Makes(p, n)
  BY <1>3, <1>4, GetPoolStutters, FailedFileStutters, GetPrototypeMakes
     DEF Step, FindFileRaises, ErrorPrinted, AfterError, FindCached, AskDatabase,
         FindFile, LoadImport,
         GetPrototypeOfMovedSlot
<1> QED
  BY <1>1, <1>2, <1>4 DEF Next, vars, LoadMessage

-----------------------------------------------------------------------------
LEMMA InitAbstract == Init => Promise!Init /\ FoundInv
<1> SUFFICES ASSUME Init PROVE Promise!Init /\ FoundInv
  OBVIOUS
<1>1. \A p \in Pools : Learnt[p] = {}
  BY LearntFrom DEF Init
<1>2. Learnt = [p \in Pools |-> {}] /\ Made = {}
  BY <1>1 DEF Learnt, Made, Init
<1>3. Promise!Init
  BY <1>2 DEF Promise!Init, Learnt, Made
<1>4. FoundInv
  BY DEF Init, FoundInv, FoundIn, Building
<1> QED
  BY <1>3, <1>4

LEMMA StepAbstract ==
  IInv /\ FoundInv /\ [Next]_vars =>
    [Promise!Next]_<<[p \in Pools |-> UNION {built[a] : a \in {b \in Addr : database[b] = p}}],
                     {<<m.asked, m.name>> : m \in messages}>>
<1> SUFFICES ASSUME IInv, FoundInv, [Next]_vars
             PROVE  Promise!Next \/ Stutters
  BY DEF Stutters, Learnt, Made
<1>1. ASSUME NEW p \in Pools, NEW n \in Names, Learns(p, n) PROVE Promise!Learn(p, n)
  BY <1>1 DEF Learns, Promise!Learn, Promise!Known, Learnt, Made, Linked
<1>2. ASSUME NEW p \in Pools, NEW n \in Names, Makes(p, n) PROVE Promise!Make(p, n)
  BY <1>2 DEF Makes, Promise!Make, Promise!Known, Learnt, Made, Linked
<1> QED
  BY <1>1, <1>2, NextAbstract DEF Promise!Next

(* Whatever threads do to each other and whichever lookups fail, the pools *)
(* of pools_map act as one growing cache for each Python pool.             *)
THEOREM PoolsActAsCache == Spec => ActsAsCache
<1>1. Init => FoundInv
  BY InitAbstract
<1>2. Spec => []FoundInv
  BY <1>1, NextFound, Invariant, PTL DEF Spec
<1>3. Init => Promise!Init
  BY InitAbstract
<1> QED
  BY <1>2, <1>3, StepAbstract, Invariant, PTL DEF Spec, ActsAsCache, Promise!Spec
=============================================================================
