------------------------ MODULE FieldContainersProofs ------------------------
(***************************************************************************)
(* Proofs about the map fields of FieldContainers, for any message type,   *)
(* conversions and arguments.  RepeatedFieldsProofs goes on from here.     *)
(***************************************************************************)
EXTENDS FieldContainers, SequenceTheorems, WellFoundedInduction, TLAPS

ToDo == {j \in Job : j.type \in {"element", "lookup", "value"} => j.items # <<>>}

PairTyped == pair \in [stage : {"search", "found", "key", "value"}, at : Nat]

MapTypeOK ==
  /\ map \in [Maps -> Seq(Entry)]
  /\ todo \in Seq(ToDo)
  /\ PairTyped

(* KeysDistinct, of one field with entries m.                              *)
DistinctIn(f, m) ==
  \A i, j \in DOMAIN m :
    m[i].key = m[j].key /\ m[i].key # Default /\ OneForm(f, m[i].key) => i = j

MapInv == MapTypeOK /\ \A f \in Maps : DistinctIn(f, map[f])

(* An item that is looked up is one of the call in progress; the entry it  *)
(* is at is one of the map, and, from the search on or once it has its key,*)
(* is the one of the item's key.                                           *)
OfKey(f, x, k) == Equal(KeyPython[f][x], k) \/ x = KeyCast[f][k]

CallInv ==
  /\ Idle => todo = <<>>
  /\ pair.stage # "search" => todo # <<>> /\ LookUp
  /\ pair.stage # "search" /\ pair.at # 0 => pair.at \in DOMAIN Map1
  /\ HasPair /\ pair.at # 0 => OfKey(Job1.field, Map1[pair.at].key, Item1.key)
  /\ pair.stage = "key" => Item1.key \in Calling

-----------------------------------------------------------------------------
KeepsKeys(m, t) == DOMAIN m \subseteq DOMAIN t /\ \A i \in DOMAIN m : t[i].key = m[i].key

LEMMA AppendKeepsKeys ==
  ASSUME NEW m \in Seq(Entry), NEW e \in Entry
  PROVE  /\ Append(m, e) \in Seq(Entry) /\ KeepsKeys(m, Append(m, e))
         /\ DOMAIN Append(m, e) = 1 .. Len(m) + 1
<1>1. /\ Len(m) \in Nat /\ DOMAIN m = 1 .. Len(m)
      /\ Append(m, e) \in Seq(Entry) /\ Len(Append(m, e)) = Len(m) + 1
      /\ \A i \in 1 .. Len(m) : Append(m, e)[i] = m[i]
  BY LenProperties
<1>2. DOMAIN Append(m, e) = 1 .. Len(m) + 1
  BY <1>1
<1> QED
  BY <1>1, <1>2 DEF KeepsKeys

(* An entry of a map without its key is appended with the key, or with the *)
(* default one.                                                            *)
LEMMA FindMapPairKeeps ==
  ASSUME NEW f \in Maps, NEW m \in Seq(Entry), NEW k \in PyValues
  PROVE  LET to == FindMapPair(f, m, k).to
         IN to \in Seq(Entry) /\ KeepsKeys(m, to) /\ (DistinctIn(f, m) => DistinctIn(f, to))
<1> DEFINE new == [key |-> NewKey(f, k), value |-> Default]
           n == Len(m)
           to == Append(m, new)
<1>1. CASE Pairs(f, m, k) # {}
  BY <1>1 DEF FindMapPair, Done, KeepsKeys
<1>2. CASE Pairs(f, m, k) = {}
  <2>1. new \in Entry
    BY FieldAssumption DEF NewKey, Entry
  <2>2. n \in Nat /\ DOMAIN m = 1 .. n
    BY LenProperties
  <2>3. to \in Seq(Entry) /\ DOMAIN to = 1 .. n + 1
    BY <2>1, <2>2, LenProperties
  <2>4. to[n + 1] = new /\ \A i \in 1 .. n : to[i] = m[i]
    BY <2>1
  <2>5. ASSUME DistinctIn(f, m) PROVE DistinctIn(f, to)
    <3> SUFFICES ASSUME NEW i \in 1 .. n + 1, NEW j \in 1 .. n + 1,
                        to[i].key = to[j].key, to[i].key # Default, OneForm(f, to[i].key)
                 PROVE  i = j
      BY <2>3 DEF DistinctIn
    <3> HIDE DEF n, to
    <3>1. ASSUME NEW l \in 1 .. n, to[l].key = NewKey(f, k), NewKey(f, k) # Default,
                 OneForm(f, NewKey(f, k))
          PROVE  FALSE
      <4>1. NewKey(f, k) = KeyCast[f][k]
        BY <3>1 DEF NewKey
      <4>2. Equal(KeyPython[f][m[l].key], k)
        BY <3>1, <4>1, <2>4 DEF OneForm
      <4> QED
        BY <4>2, <3>1, <1>2, <2>2 DEF Pairs
    <3>2. CASE i \in 1 .. n /\ j \in 1 .. n
      BY <3>2, <2>2, <2>4, <2>5 DEF DistinctIn
    <3>3. CASE i \in 1 .. n /\ j = n + 1
      BY <3>3, <3>1, <2>4
    <3>4. CASE i = n + 1 /\ j \in 1 .. n
      BY <3>4, <3>1, <2>4
    <3> QED
      BY <2>2, <3>2, <3>3, <3>4
  <2>6. FindMapPair(f, m, k).to = to
    BY <1>2 DEF FindMapPair
  <2>7. KeepsKeys(m, to)
    BY <2>1, AppendKeepsKeys
  <2> QED
    BY <2>3, <2>5, <2>6, <2>7
<1> QED
  BY <1>1, <1>2

(* Giving an entry its value leaves the keys.                              *)
LEMMA ValueKeepsKeys ==
  ASSUME NEW f \in Maps, NEW m \in Seq(Entry), NEW p, NEW x \in Contents
  PROVE  LET to == [m EXCEPT ![p].value = x]
         IN /\ to \in Seq(Entry) /\ DOMAIN to = DOMAIN m
            /\ \A i \in DOMAIN m : to[i].key = m[i].key
            /\ p \in DOMAIN m => to[p].value = x
<1> DEFINE n == Len(m)
           to == [m EXCEPT ![p].value = x]
<1>1. n \in Nat /\ DOMAIN m = 1 .. n /\ m \in [1 .. n -> Entry]
  BY LenProperties
<1>2. \A i \in DOMAIN m : to[i] = IF i = p THEN [key |-> m[i].key, value |-> x] ELSE m[i]
  BY <1>1 DEF Entry
<1>3. to \in [1 .. n -> Entry]
  BY <1>1, <1>2 DEF Entry
<1>4. to \in Seq(Entry)
  BY <1>1, <1>3
<1> QED
  BY <1>1, <1>2, <1>4 DEF Entry

LEMMA SetItemKeeps ==
  ASSUME NEW f \in Maps, NEW m \in Seq(Entry), NEW k \in PyValues, NEW v \in PyValues
  PROVE  LET to == SetItem(f, m, k, v).to
         IN to \in Seq(Entry) /\ KeepsKeys(m, to) /\ (DistinctIn(f, m) => DistinctIn(f, to))
<1> DEFINE found == FindMapPair(f, m, k)
<1>1. /\ found.to \in Seq(Entry) /\ KeepsKeys(m, found.to)
      /\ DistinctIn(f, m) => DistinctIn(f, found.to)
  BY FindMapPairKeeps
<1>2. CASE found.ok /\ Cast(f, v) # Refused
  <2>1. Cast(f, v) \in Contents
    BY <1>2, FieldAssumption DEF Cast, Fields
  <2> DEFINE s == found.to
             p == PairOf(f, m, k)
             x == Cast(f, v)
             to == [s EXCEPT ![p].value = x]
  <2>2. /\ to \in Seq(Entry) /\ DOMAIN to = DOMAIN s
        /\ \A i \in DOMAIN s : to[i].key = s[i].key
    <3>1. s \in Seq(Entry) /\ x \in Contents
      BY <1>1, <2>1
    <3> HIDE DEF s, p, x
    <3> QED
      BY <3>1, ValueKeepsKeys
  <2>3. SetItem(f, m, k, v).to = to
    BY <1>2 DEF SetItem, Done
  <2> HIDE DEF to, s
  <2>4. DistinctIn(f, s) => DistinctIn(f, to)
    BY <2>2 DEF DistinctIn
  <2>5. KeepsKeys(m, s) => KeepsKeys(m, to)
    BY <2>2 DEF KeepsKeys
  <2> QED
    BY <1>1, <2>2, <2>3, <2>4, <2>5 DEF s
<1>3. CASE ~(found.ok /\ Cast(f, v) # Refused)
  BY <1>1, <1>3 DEF SetItem, Throw
<1> QED
  BY <1>2, <1>3

-----------------------------------------------------------------------------
LEMMA EmptyMap ==
  ASSUME NEW f \in Maps PROVE <<>> \in Seq(Entry) /\ DistinctIn(f, <<>>)
BY DEF DistinctIn

LEMMA InitInv == Init => MapInv /\ CallInv
BY EmptyMap DEF Init, MapInv, MapTypeOK, PairTyped, CallInv, Idle, HasPair

(* One map field takes new entries, and the others keep theirs.            *)
LEMMA OneMapInv ==
  ASSUME MapInv, NEW f \in Maps, NEW to \in Seq(Entry), DistinctIn(f, to),
         todo' \in Seq(ToDo), PairTyped',
         \/ map' = [map EXCEPT ![f] = to]
         \/ map' = [g \in Maps |-> IF g = f THEN to ELSE map[g]]
  PROVE  MapInv'
<1>1. map' \in [Maps -> Seq(Entry)]
  BY DEF MapInv, MapTypeOK
<1>2. ASSUME NEW g \in Maps PROVE DistinctIn(g, map'[g])
  <2>1. map'[g] = IF g = f THEN to ELSE map[g]
    BY DEF MapInv, MapTypeOK
  <2> QED
    BY <2>1 DEF MapInv
<1> QED
  BY <1>1, <1>2 DEF MapInv, MapTypeOK

LEMMA SameMaps ==
  ASSUME MapInv, todo' \in Seq(ToDo), PairTyped',
         map' = map \/ map' = [g \in Maps |-> map[g]]
  PROVE  MapInv'
<1>1. map' = map
  BY DEF MapInv, MapTypeOK
<1> QED
  BY <1>1 DEF MapInv, MapTypeOK, DistinctIn, OneForm, Equal

LEMMA EmptyMessageInv ==
  ASSUME MapInv, EmptyMessage, todo' \in Seq(ToDo), PairTyped' PROVE MapInv'
<1>1. map' \in [Maps -> Seq(Entry)] /\ \A f \in Maps : map'[f] = <<>>
  BY EmptyMap DEF EmptyMessage
<1> QED
  BY <1>1 DEF MapInv, MapTypeOK, DistinctIn

-----------------------------------------------------------------------------
LEMMA ElementsToDo ==
  ASSUME NEW f \in Repeated \cup Maps, NEW items \in Seq(Item)
  PROVE  Elements(f, items) \in Seq(ToDo)
<1> DEFINE n == Len(items)
<1>1. n \in Nat /\ DOMAIN items = 1 .. n
  BY LenProperties
<1>2. f \in STRING
  BY FieldAssumption DEF Fields
<1>3. ASSUME NEW i \in 1 .. n
      PROVE  [field |-> f, type |-> "element", items |-> <<items[i]>>] \in ToDo
  <2>1. items[i] \in Item
    BY <1>3, ElementOfSeq
  <2>2. <<items[i]>> \in Seq(Item) /\ <<items[i]>> # <<>>
    BY <2>1
  <2> QED
    BY <1>2, <2>2 DEF ToDo, Job
<1>4. [i \in 1 .. n |-> [field |-> f, type |-> "element", items |-> <<items[i]>>]] \in Seq(ToDo)
  <2> HIDE DEF n
  <2> QED
    BY <1>1, <1>3
<1> QED
  BY <1>1, <1>4 DEF Elements

LEMMA KeywordsToDo == \A kwargs \in Keywords : kwargs \in Seq(ToDo)
<1> SUFFICES ASSUME NEW kwargs \in Keywords PROVE kwargs \in Seq(ToDo)
  OBVIOUS
<1>1. kwargs \in Seq(Keyword)
  BY FieldAssumption
<1>2. Keyword \subseteq ToDo
  <2> SUFFICES ASSUME NEW j \in Keyword PROVE j \in ToDo
    OBVIOUS
  <2>1. /\ j \in Job /\ j.items \in Seq(Item)
        /\ j.type # "element" /\ j.type # "lookup"
    BY DEF Job, Keyword
  <2>2. j.type = "value" => Len(j.items) = 1
    BY DEF Keyword
  <2>3. j.items = <<>> => Len(j.items) = 0
    BY EmptySeq
  <2>4. j.items # <<>> \/ j.type # "value"
    BY <2>2, <2>3
  <2> QED
    BY <2>1, <2>4 DEF ToDo
<1> QED
  BY <1>1, <1>2, SeqMonotonic

(* What a step of a call in progress leaves to be done.                    *)
LEMMA NextOrToDo ==
  ASSUME MapInv, todo # <<>>, NEW more \in Seq(ToDo),
         Continue(more) \/ Abandon
  PROVE  todo' \in Seq(ToDo) /\ PairTyped'
<1>1. Tail(todo) \in Seq(ToDo)
  BY HeadTailProperties DEF MapInv, MapTypeOK
<1>2. more \o Tail(todo) \in Seq(ToDo)
  BY <1>1, ConcatProperties
<1>3. <<>> \in Seq(ToDo)
  BY EmptySeq
<1>4. todo' \in Seq(ToDo)
  BY <1>2, <1>3 DEF Continue, Abandon
<1>5. pair' = [stage |-> "search", at |-> 0]
  BY DEF Continue, Abandon
<1> QED
  BY <1>4, <1>5 DEF PairTyped

LEMMA ListNextInv ==
  ASSUME MapInv, NEW f \in Repeated, ListNext(f) PROVE MapInv'
<1>1. UNCHANGED <<map, call>>
  BY DEF ListNext, ListAppend, ListInsert, ListDelItem, ListSetItem, ListSetSlice,
         ListDelSlice, ListAdd, ListClear, CallOnList
<1> QED
  BY <1>1, SameMaps DEF MapInv, MapTypeOK, PairTyped, call

LEMMA BeginInv ==
  ASSUME MapInv, NEW jobs \in Seq(ToDo), Begin(jobs) PROVE MapInv'
BY SameMaps DEF Begin, message, MapInv, MapTypeOK, PairTyped

LEMMA ItemToDo ==
  ASSUME NEW f \in Maps, NEW type \in {"element", "lookup"}, NEW k \in PyValues,
         NEW v \in PyValues
  PROVE  <<ItemOf(f, type, k, v)>> \in Seq(ToDo)
<1>1. f \in STRING
  BY FieldAssumption DEF Fields
<1>2. <<[key |-> k, value |-> v]>> \in Seq(Item) /\ <<[key |-> k, value |-> v]>> # <<>>
  BY DEF Item
<1>3. ItemOf(f, type, k, v) \in ToDo
  BY <1>1, <1>2 DEF ItemOf, ToDo, Job
<1> QED
  BY <1>3

LEMMA ForgetTyped ==
  ASSUME PairTyped, NEW maps, Forget(maps) PROVE PairTyped'
BY DEF Forget, PairTyped

LEMMA MapNextInv ==
  ASSUME MapInv, NEW f \in Maps, MapNext(f) PROVE MapInv'
<1>1. ASSUME NEW done, CallOnMap(f, done), done.to \in Seq(Entry), DistinctIn(f, done.to),
             PairTyped'
      PROVE  MapInv'
  BY <1>1, OneMapInv DEF CallOnMap, MapInv, MapTypeOK
<1>2. map[f] \in Seq(Entry) /\ DistinctIn(f, map[f]) /\ PairTyped
  BY DEF MapInv, MapTypeOK
<1>3. ASSUME NEW k \in PyValues, MapGetItem(f, k) PROVE MapInv'
  <2>1. CASE ByStep(k, k)
    BY <1>3, <2>1, ItemToDo, BeginInv DEF MapGetItem
  <2>2. CASE ~ByStep(k, k)
    <3>1. CallOnMap(f, FindMapPair(f, map[f], k)) /\ pair' = pair
      BY <1>3, <2>2 DEF MapGetItem
    <3>2. PairTyped'
      BY <1>2, <3>1 DEF PairTyped
    <3> QED
      BY <1>1, <1>2, <3>1, <3>2, FindMapPairKeeps
  <2> QED
    BY <2>1, <2>2
<1>4. ASSUME NEW k \in PyValues, NEW v \in PyValues, MapSetItem(f, k, v) PROVE MapInv'
  <2>1. CASE ByStep(k, v)
    BY <1>4, <2>1, ItemToDo, BeginInv DEF MapSetItem
  <2>2. CASE ~ByStep(k, v)
    <3>1. CallOnMap(f, SetItem(f, map[f], k, v)) /\ pair' = pair
      BY <1>4, <2>2 DEF MapSetItem
    <3>2. PairTyped'
      BY <1>2, <3>1 DEF PairTyped
    <3> QED
      BY <1>1, <1>2, <3>1, <3>2, SetItemKeeps
  <2> QED
    BY <2>1, <2>2
<1>5. CASE MapClear(f)
  BY <1>1, <1>2, <1>5, EmptyMap, ForgetTyped DEF MapClear, Done
<1> QED
  BY <1>3, <1>4, <1>5 DEF MapNext

LEMMA WholeCallInv ==
  ASSUME MapInv,
         \/ \E f \in Fields, v \in PyValues : ProtoSetField(f, v)
         \/ \E d \in Donors : ProtoCopyFrom(d) \/ PyProtoAllocateAndCopyMessage(d)
         \/ Read
  PROVE  MapInv'
<1>1. todo' \in Seq(ToDo) /\ PairTyped'
  <2>1. todo' = todo /\ (pair' = pair \/ Forget(Maps))
    BY DEF ProtoSetField, ProtoCopyFrom, PyProtoAllocateAndCopyMessage, Read, call
  <2>2. pair' = pair /\ PairTyped => PairTyped'
    BY DEF PairTyped
  <2> QED
    BY <2>1, <2>2, ForgetTyped DEF MapInv, MapTypeOK
<1>2. ASSUME NEW d \in Donors, TakesFields(d) PROVE MapInv'
  <2>1. map' \in [Maps -> Seq(Entry)] /\ \A f \in Maps : DistinctIn(f, map'[f])
    BY <1>2, FieldAssumption DEF TakesFields, Distinct, DistinctIn
  <2> QED
    BY <1>1, <2>1 DEF MapInv, MapTypeOK, DistinctIn
<1>3. CASE map' = map
  BY <1>1, <1>3, SameMaps
<1>4. CASE EmptyMessage
  BY <1>1, <1>4, EmptyMessageInv
<1> QED
  BY <1>2, <1>3, <1>4
     DEF ProtoSetField, ProtoCopyFrom, PyProtoAllocateAndCopyMessage, Read, message

LEMMA BeginsInv ==
  ASSUME MapInv,
         \/ \E f \in Repeated \cup Maps, a \in Arguments : Extend(f, a)
         \/ \E kwargs \in Keywords : ProtoInitFields(kwargs)
         \/ \E d \in Donors, kwargs \in Keywords : PyProtoAllocateMessage(d, kwargs)
  PROVE  MapInv'
<1>0. todo \in Seq(ToDo) /\ (pair' = pair => PairTyped')
  BY DEF MapInv, MapTypeOK, PairTyped
<1>1. ASSUME NEW f \in Repeated \cup Maps, NEW a \in Arguments, Extend(f, a) PROVE MapInv'
  <2>1. Elements(f, a.items) \in Seq(ToDo)
    BY ElementsToDo, FieldAssumption
  <2>2. CASE Begin(Elements(f, a.items))
    BY <2>1, <2>2, BeginInv
  <2>3. CASE UNCHANGED <<message, call>>
    BY <1>0, <2>3, SameMaps DEF message, call
  <2> QED
    BY <1>1, <2>2, <2>3 DEF Extend
<1>2. ASSUME NEW kwargs \in Keywords, ProtoInitFields(kwargs) PROVE MapInv'
  BY <1>2, KeywordsToDo, BeginInv DEF ProtoInitFields
<1>3. ASSUME NEW d \in Donors, NEW kwargs \in Keywords, PyProtoAllocateMessage(d, kwargs)
      PROVE  MapInv'
  BY <1>0, <1>3, KeywordsToDo, EmptyMessageInv DEF PyProtoAllocateMessage
<1> QED
  BY <1>1, <1>2, <1>3

LEMMA StepInv ==
  ASSUME MapInv, Step PROVE MapInv'
<1>1. CASE Return
  BY <1>1, SameMaps DEF Return, message, call, MapInv, MapTypeOK, PairTyped
<1> SUFFICES ASSUME UnknownField \/ InitSingular \/ InitContainer \/ NextElement
             PROVE  MapInv'
  BY <1>1 DEF Step
<1>2. todo # <<>> /\ Job1 \in ToDo
  <2>1. todo # <<>>
    BY DEF UnknownField, InitSingular, InitContainer, NextElement, Busy
  <2>2. todo \in Seq(ToDo)
    BY DEF MapInv, MapTypeOK
  <2> QED
    BY <2>1, <2>2, HeadTailProperties DEF Job1
<1>3. <<>> \in Seq(ToDo)
  BY EmptySeq
<1>4. CASE UnknownField
  BY <1>2, <1>3, <1>4, NextOrToDo, SameMaps, EmptyMessageInv
     DEF UnknownField, NextOr, AbandonedBy, message
<1>5. CASE InitSingular
  BY <1>2, <1>3, <1>5, NextOrToDo, SameMaps, EmptyMessageInv
     DEF InitSingular, NextOr, AbandonedBy
<1>6. CASE InitContainer
  <2> DEFINE f == Job1.field
  <2>1. f \in Repeated \cup Maps /\ Job1.items \in Seq(Item)
    BY <1>2, <1>6 DEF InitContainer, ToDo, Job
  <2>2. Elements(f, Job1.items) \in Seq(ToDo)
    BY <2>1, ElementsToDo
  <2>3. todo' \in Seq(ToDo) /\ PairTyped'
    <3>1. Continue(Elements(f, Job1.items)) \/ Abandon
      BY <1>6 DEF InitContainer, NextOr, AbandonedBy
    <3> QED
      BY <1>2, <2>2, <3>1, NextOrToDo
  <2>4. \/ EmptyMessage
        \/ map' = [g \in Maps |-> IF g = f THEN <<>> ELSE map[g]]
    BY <1>6 DEF InitContainer, NextOr, AbandonedBy
  <2>5. CASE f \in Maps
    BY <2>3, <2>4, <2>5, EmptyMap, OneMapInv, EmptyMessageInv
  <2>6. CASE f \notin Maps
    BY <2>3, <2>4, <2>6, SameMaps, EmptyMessageInv
  <2> QED
    BY <2>5, <2>6
<1>7. CASE NextElement
  <2> DEFINE f == Job1.field
             e == Job1.items[1]
             done == IF f \in Maps THEN SetItem(f, map[f], e.key, e.value)
                     ELSE AppendTo(f, list[f], e.value)
             stored == /\ list' = [g \in Repeated |-> IF g = f THEN done.to ELSE list[g]]
                       /\ map' = [g \in Maps |-> IF g = f THEN done.to ELSE map[g]]
                       /\ UNCHANGED single
  <2>0. Job1.type = "element" /\ NextOr(done.ok, <<>>, stored)
    BY <1>7 DEF NextElement
  <2>1. Job1.items \in Seq(Item) /\ Job1.items # <<>>
    BY <1>2, <2>0 DEF ToDo, Job
  <2>2. e \in Item
    <3>1. Len(Job1.items) \in Nat \ {0}
      BY <2>1, EmptySeq
    <3> QED
      BY <2>1, <3>1, ElementOfSeq
  <2>3. todo' \in Seq(ToDo) /\ PairTyped'
    <3>1. Continue(<<>>) \/ Abandon
      <4> HIDE DEF done, stored
      <4> QED
        BY <2>0 DEF NextOr, AbandonedBy
    <3> HIDE DEF done, stored
    <3> QED
      BY <1>2, <1>3, <3>1, NextOrToDo
  <2>4. EmptyMessage \/ map' = [g \in Maps |-> IF g = f THEN done.to ELSE map[g]]
    <3>1. EmptyMessage \/ stored
      <4> HIDE DEF done, stored
      <4> QED
        BY <2>0 DEF NextOr, AbandonedBy
    <3> HIDE DEF done
    <3> QED
      BY <3>1
  <2>5. CASE f \in Maps
    <3> DEFINE to == SetItem(f, map[f], e.key, e.value).to
    <3>1. done.to = to
      BY <2>5
    <3>2. to \in Seq(Entry) /\ DistinctIn(f, to)
      <4>1. map[f] \in Seq(Entry) /\ DistinctIn(f, map[f]) /\ e \in Item
        BY <2>2, <2>5 DEF MapInv, MapTypeOK
      <4> HIDE DEF f, e
      <4> QED
        BY <2>5, <4>1, SetItemKeeps DEF Item
    <3> HIDE DEF f, e, done, to, stored
    <3> QED
      BY <2>3, <2>4, <2>5, <3>1, <3>2, OneMapInv, EmptyMessageInv
  <2>6. CASE f \notin Maps
    <3> HIDE DEF f, done, stored
    <3>1. EmptyMessage \/ map' = [g \in Maps |-> map[g]]
      BY <2>4, <2>6
    <3> QED
      BY <2>3, <3>1, SameMaps, EmptyMessageInv
  <2> QED
    BY <2>5, <2>6
<1> QED
  BY <1>4, <1>5, <1>6, <1>7

(* A set of positions has a first one.                                     *)
LEMMA FirstExists ==
  ASSUME NEW S \in SUBSET Nat, S # {}
  PROVE  \E i \in S : \A j \in S : i <= j
<1> DEFINE less == {p \in Nat \X Nat : p[1] < p[2]}
<1>1. IsWellFoundedOn(less, Nat)
  BY NatLessThanWellFounded DEF OpToRel
<1>2. \A i, j \in Nat : i < j => <<i, j>> \in less
  OBVIOUS
<1> HIDE DEF less
<1>3. \E i \in S : \A j \in S : ~ (<<j, i>> \in less)
  BY <1>1, WFMin
<1>4. PICK i \in S : \A j \in S : ~ (<<j, i>> \in less)
  BY <1>3
<1>5. \A j \in S : ~ (j < i)
  BY <1>2, <1>4
<1> QED
  BY <1>5

LEMMA FirstPairIsPair ==
  ASSUME NEW f \in Maps, NEW m \in Seq(Entry), NEW k \in PyValues, Pairs(f, m, k) # {}
  PROVE  FirstPair(f, m, k) \in Pairs(f, m, k)
<1>1. Pairs(f, m, k) \in SUBSET Nat
  BY LenProperties DEF Pairs
<1>2. \E i \in Pairs(f, m, k) : \A j \in Pairs(f, m, k) : i <= j
  BY <1>1, FirstExists
<1> QED
  BY <1>2 DEF FirstPair

(* The item that is looked up.                                             *)
LEMMA ItemTyped ==
  ASSUME MapInv, todo # <<>>, LookUp
  PROVE  /\ Job1 \in ToDo /\ Item1 \in Item /\ Job1.field \in Maps
         /\ Map1 \in Seq(Entry) /\ DistinctIn(Job1.field, Map1)
<1>1. Job1 \in ToDo
  BY HeadTailProperties DEF Job1, MapInv, MapTypeOK
<1>2. Job1.items \in Seq(Item) /\ Job1.items # <<>>
  BY <1>1 DEF LookUp, ToDo, Job
<1>3. Len(Job1.items) \in Nat \ {0}
  BY <1>2, EmptySeq
<1>4. Item1 \in Item
  BY <1>2, <1>3, ElementOfSeq DEF Item1
<1> QED
  BY <1>1, <1>4 DEF LookUp, Map1, MapInv, MapTypeOK

(* The item's entry is given its key.                                      *)
LEMMA KeyGiven ==
  ASSUME NEW f \in Maps, NEW m \in Seq(Entry), NEW p \in DOMAIN m, NEW k \in Calling,
         k \in PyValues, KeyCast[f][k] # Refused
  PROVE  LET to == [m EXCEPT ![p].key = KeyCast[f][k]]
         IN /\ to \in Seq(Entry) /\ DOMAIN to = DOMAIN m /\ to[p].key = KeyCast[f][k]
            /\ DistinctIn(f, m) => DistinctIn(f, to)
<1> DEFINE x == KeyCast[f][k]
           n == Len(m)
           to == [m EXCEPT ![p].key = x]
<1>1. x \in Contents /\ ~OneForm(f, x)
  BY FieldAssumption DEF OneForm
<1>2. n \in Nat /\ DOMAIN m = 1 .. n /\ m \in [1 .. n -> Entry]
  BY LenProperties
<1> HIDE DEF x
<1>3. \A i \in DOMAIN m : to[i] = IF i = p THEN [key |-> x, value |-> m[i].value] ELSE m[i]
  BY <1>2 DEF Entry
<1>4. to \in [1 .. n -> Entry]
  BY <1>1, <1>2, <1>3 DEF Entry
<1>5. to \in Seq(Entry) /\ DOMAIN to = DOMAIN m
  BY <1>2, <1>4
<1>6. ASSUME DistinctIn(f, m) PROVE DistinctIn(f, to)
  <2> SUFFICES ASSUME NEW i \in DOMAIN m, NEW j \in DOMAIN m, to[i].key = to[j].key,
                      to[i].key # Default, OneForm(f, to[i].key)
               PROVE  i = j
    BY <1>5 DEF DistinctIn
  <2>1. i # p /\ j # p
    BY <1>1, <1>3
  <2> QED
    BY <1>3, <1>6, <2>1 DEF DistinctIn
<1> QED
  BY <1>3, <1>5, <1>6 DEF x

(* A step of an item that is looked up.                                    *)
LEMMA PairStepInv ==
  ASSUME MapInv, CallInv, PairStep PROVE MapInv'
<1>1. todo # <<>>
  BY DEF PairStep, FindPair, SearchPair, AddPair, SetKey, SetValue, GetValue, PythonRaises,
         ByStepNow, Calls, Busy
<1>2. <<>> \in Seq(ToDo)
  BY EmptySeq
<1>3. todo \in Seq(ToDo) /\ PairTyped
  BY DEF MapInv, MapTypeOK
<1>4. ASSUME NEW change, AbandonedBy(change), change => map' = map PROVE MapInv'
  BY <1>1, <1>2, <1>4, NextOrToDo, SameMaps, EmptyMessageInv DEF AbandonedBy
<1>5. CASE PythonRaises
  BY <1>4, <1>5 DEF PythonRaises, message
<1> SUFFICES ASSUME FindPair \/ SearchPair \/ AddPair \/ SetKey \/ SetValue \/ GetValue
             PROVE  MapInv'
  BY <1>5 DEF PairStep
<1>6. LookUp
  BY DEF FindPair, SearchPair, AddPair, SetKey, SetValue, GetValue, ByStepNow
<1> DEFINE f == Job1.field
           k == Item1.key
           m == Map1
<1>7. /\ k \in PyValues /\ Item1.value \in PyValues /\ f \in Maps
      /\ m \in Seq(Entry) /\ DistinctIn(f, m)
  BY <1>1, <1>6, ItemTyped DEF Item
<1>8. Len(m) \in Nat /\ DOMAIN m = 1 .. Len(m)
  BY <1>7, LenProperties
<1> HIDE DEF f, k, m
<1>9. ASSUME NEW stage \in {"search", "found", "key", "value"}, NEW at \in Nat, Goes(stage, at)
      PROVE  todo' \in Seq(ToDo) /\ PairTyped'
  BY <1>3, <1>9 DEF Goes, PairTyped
<1>10. ASSUME NEW to \in Seq(Entry), DistinctIn(f, to), ChangeMap1(to),
              todo' \in Seq(ToDo), PairTyped'
       PROVE  MapInv'
  BY <1>7, <1>10, OneMapInv DEF ChangeMap1, f
<1>11. pair.at \in Nat
  BY <1>3 DEF PairTyped
<1>12. CASE FindPair
  <2> DEFINE found == FindMapPair(f, m, k)
  <2>1. found.to \in Seq(Entry) /\ DistinctIn(f, found.to)
    BY <1>7, FindMapPairKeeps
  <2>2. PairOf(f, m, k) \in Nat
    BY <1>7, <1>8, FirstPairIsPair DEF PairOf, Pairs
  <2>3. \/ Goes("value", PairOf(f, m, k)) /\ ChangeMap1(found.to)
        \/ AbandonedBy(ChangeMap1(found.to))
    BY <1>12 DEF FindPair, f, k, m
  <2> HIDE DEF found
  <2>4. CASE Goes("value", PairOf(f, m, k)) /\ ChangeMap1(found.to)
    BY <1>9, <1>10, <2>1, <2>2, <2>4
  <2>5. CASE AbandonedBy(ChangeMap1(found.to))
    <3>1. todo' \in Seq(ToDo) /\ PairTyped'
      BY <1>1, <1>2, <2>5, NextOrToDo DEF AbandonedBy
    <3> QED
      BY <1>10, <2>1, <2>5, <3>1, EmptyMessageInv DEF AbandonedBy
  <2> QED
    BY <2>3, <2>4, <2>5
<1>13. CASE SearchPair
  <2>1. \E stage \in {"search", "found"} : Goes(stage, pair.at + 1)
    BY <1>13 DEF SearchPair
  <2> QED
    BY <1>9, <1>11, <1>13, <2>1, SameMaps DEF SearchPair, message
<1>14. CASE AddPair
  <2> DEFINE e == [key |-> Default, value |-> Default]
  <2>1. ChangeMap1(Append(m, e)) /\ Goes("key", Len(m) + 1)
    BY <1>14 DEF AddPair, m
  <2>2. e \in Entry
    BY FieldAssumption DEF Entry
  <2>3. Append(m, e) \in Seq(Entry) /\ KeepsKeys(m, Append(m, e))
    BY <1>7, <2>2, AppendKeepsKeys
  <2>4. Append(m, e)[Len(m) + 1] = e /\ DOMAIN Append(m, e) = 1 .. Len(m) + 1
    BY <1>7, <2>2, AppendKeepsKeys
  <2>5. DistinctIn(f, Append(m, e))
    <3> DEFINE t == Append(m, e)
    <3>1. \A i \in DOMAIN t : t[i].key # Default => i \in DOMAIN m
      BY <1>8, <2>4
    <3>2. \A i \in DOMAIN m : t[i].key = m[i].key
      BY <2>3 DEF KeepsKeys
    <3> HIDE DEF t
    <3>3. DistinctIn(f, t)
      BY <1>7, <3>1, <3>2 DEF DistinctIn
    <3> QED
      BY <3>3 DEF t
  <2> HIDE DEF e
  <2>6. Len(m) + 1 \in Nat
    BY <1>8
  <2> QED
    BY <1>9, <1>10, <2>1, <2>3, <2>5, <2>6
<1>15. CASE SetKey
  <2> DEFINE x == KeyCast[f][k]
             to == [m EXCEPT ![pair.at].key = x]
  <2>1. CASE AbandonedBy(UNCHANGED message)
    BY <1>4, <2>1 DEF message
  <2>2. CASE Goes("value", pair.at) /\ UNCHANGED message
    BY <1>9, <1>11, <2>2, SameMaps DEF message
  <2>3. CASE x # Refused /\ pair.at # 0 /\ Goes("value", pair.at) /\ ChangeMap1(to)
    <3>1. pair.stage = "key"
      BY <1>15 DEF SetKey
    <3>2. pair.at \in DOMAIN m /\ k \in Calling
      BY <2>3, <3>1 DEF CallInv, m, k
    <3>3. to \in Seq(Entry) /\ DistinctIn(f, to)
      BY <1>7, <2>3, <3>2, KeyGiven
    <3> HIDE DEF to
    <3> QED
      BY <1>9, <1>10, <1>11, <2>3, <3>3
  <2> QED
    BY <1>15, <2>1, <2>2, <2>3 DEF SetKey, f, k, m
<1>16. CASE SetValue
  <2> DEFINE x == Cast(f, Item1.value)
             to == [m EXCEPT ![pair.at].value = x]
  <2>1. CASE AbandonedBy(UNCHANGED message)
    BY <1>4, <2>1 DEF message
  <2>2. Continue(<<>>) => todo' \in Seq(ToDo) /\ PairTyped'
    BY <1>1, <1>2, NextOrToDo
  <2>3. CASE Continue(<<>>) /\ UNCHANGED message
    BY <2>2, <2>3, SameMaps DEF message
  <2>4. CASE x # Refused /\ Continue(<<>>) /\ ChangeMap1(to)
    <3>1. x \in Contents
      BY <1>7, <2>4, FieldAssumption DEF Cast, Fields
    <3>2. to \in Seq(Entry) /\ DOMAIN to = DOMAIN m /\ \A i \in DOMAIN m : to[i].key = m[i].key
      <4> HIDE DEF x
      <4> QED
        BY <1>7, <3>1, ValueKeepsKeys
    <3> HIDE DEF to
    <3>3. DistinctIn(f, to)
      BY <1>7, <3>2 DEF DistinctIn
    <3> QED
      BY <1>10, <2>2, <2>4, <3>2, <3>3
  <2> QED
    BY <1>16, <2>1, <2>3, <2>4 DEF SetValue, f, m
<1>17. CASE GetValue
  BY <1>1, <1>2, <1>17, NextOrToDo, SameMaps DEF GetValue, message
<1> QED
  BY <1>12, <1>13, <1>14, <1>15, <1>16, <1>17

LEMMA NextInv == MapInv /\ CallInv /\ [Next]_vars => MapInv'
<1> SUFFICES ASSUME MapInv, CallInv, [Next]_vars PROVE MapInv'
  OBVIOUS
<1>1. CASE UNCHANGED vars
  BY <1>1, SameMaps DEF vars, MapInv, MapTypeOK, PairTyped
<1> QED
  BY <1>1, ListNextInv, MapNextInv, WholeCallInv, BeginsInv, StepInv, PairStepInv DEF Next

-----------------------------------------------------------------------------
(* The item that is looked up stays with its entry.                        *)
LEMMA NoItem ==
  ASSUME pair'.stage = "search", Idle' => todo' = <<>> PROVE CallInv'
BY DEF CallInv, HasPair

(* A call that ends does so by itself, or inside another that goes on.     *)
LEMMA EndsFree ==
  ASSUME Free, NEW ok \in BOOLEAN, EndedBy(ok) PROVE Idle' => Idle
BY DEF Free, EndedBy, InPython, Idle

LEMMA KeysKept ==
  ASSUME MapInv, CallInv, UNCHANGED call, Idle' => Idle,
         \A f \in Maps : KeepsKeys(map[f], map'[f])
  PROVE  CallInv'
<1>1. todo' = todo /\ pair' = pair /\ (Idle' => todo' = <<>>)
  BY DEF call, CallInv
<1>2. CASE pair.stage = "search"
  BY <1>1, <1>2, NoItem
<1>3. CASE pair.stage # "search"
  <2>1. todo # <<>> /\ LookUp
    BY <1>3 DEF CallInv
  <2>2. Job1.field \in Maps
    BY <2>1 DEF LookUp
  <2>3. KeepsKeys(Map1, Map1')
    BY <1>1, <2>2 DEF Map1, Job1
  <2>4. Job1' = Job1 /\ Item1' = Item1 /\ LookUp' /\ (HasPair' <=> HasPair)
    BY <1>1, <2>1 DEF Job1, Item1, LookUp, HasPair
  <2> QED
    BY <1>1, <1>3, <2>1, <2>3, <2>4 DEF CallInv, KeepsKeys
<1> QED
  BY <1>2, <1>3

LEMMA MapsSame ==
  ASSUME MapInv, CallInv, UNCHANGED call, Idle' => Idle, map' = map PROVE CallInv'
<1>1. \A f \in Maps : KeepsKeys(map[f], map'[f])
  BY DEF KeepsKeys
<1> QED
  BY <1>1, KeysKept

LEMMA EntriesGone ==
  ASSUME CallInv, NEW maps, Forget(maps), todo' = todo, Idle' => Idle,
         \A f \in Maps : f \notin maps => map'[f] = map[f]
  PROVE  CallInv'
<1>1. Idle' => todo' = <<>>
  BY DEF CallInv
<1>2. CASE pair.stage = "search"
  BY <1>1, <1>2, NoItem DEF Forget
<1>3. CASE pair.stage # "search"
  <2>1. todo # <<>> /\ LookUp /\ Job1.field \in Maps
    BY <1>3 DEF CallInv, LookUp
  <2>2. Job1' = Job1 /\ Item1' = Item1 /\ LookUp'
    BY <2>1 DEF Job1, Item1, LookUp
  <2>3. pair'.stage = pair.stage
    BY DEF Forget
  <2>4. CASE Job1.field \in maps
    <3>1. pair' = [pair EXCEPT !.at = 0]
      BY <1>3, <2>4 DEF Forget
    <3>2. pair'.at = 0 \/ pair' = pair
      BY <3>1
    <3> QED
      BY <1>1, <1>3, <2>1, <2>2, <2>3, <3>1, <3>2 DEF CallInv, HasPair
  <2>5. CASE Job1.field \notin maps
    <3>1. pair' = pair
      BY <1>3, <2>5 DEF Forget
    <3>2. Map1' = Map1
      BY <2>1, <2>2, <2>5 DEF Map1
    <3>3. HasPair' <=> HasPair
      BY <3>1 DEF HasPair
    <3> QED
      BY <1>1, <2>1, <2>2, <3>1, <3>2, <3>3 DEF CallInv
  <2> QED
    BY <2>4, <2>5
<1> QED
  BY <1>2, <1>3

LEMMA MapNextCall ==
  ASSUME MapInv, CallInv, NEW f \in Maps, MapNext(f) PROVE CallInv'
<1>1. ASSUME NEW jobs, Begin(jobs) PROVE CallInv'
  BY <1>1, NoItem DEF Begin, CallInv, Idle
<1>2. ASSUME NEW done, CallOnMap(f, done), done.ok \in BOOLEAN PROVE Idle' => Idle
  BY <1>2, EndsFree DEF CallOnMap
<1>3. map[f] \in Seq(Entry)
  BY DEF MapInv, MapTypeOK
<1>4. ASSUME NEW done, CallOnMap(f, done), pair' = pair, done.ok \in BOOLEAN,
             KeepsKeys(map[f], done.to)
      PROVE  CallInv'
  <2>1. map' = [map EXCEPT ![f] = done.to] /\ UNCHANGED call
    BY <1>4 DEF CallOnMap, call
  <2>2. ASSUME NEW g \in Maps PROVE KeepsKeys(map[g], map'[g])
    <3>1. map'[g] = IF g = f THEN done.to ELSE map[g]
      BY <2>1 DEF MapInv, MapTypeOK
    <3> QED
      BY <1>4, <3>1 DEF KeepsKeys
  <2> QED
    BY <1>2, <1>4, <2>1, <2>2, KeysKept
<1>5. ASSUME NEW k \in PyValues, MapGetItem(f, k) PROVE CallInv'
  <2>1. CASE ByStep(k, k)
    BY <1>1, <1>5, <2>1 DEF MapGetItem
  <2>2. CASE ~ByStep(k, k)
    <3>1. CallOnMap(f, FindMapPair(f, map[f], k)) /\ pair' = pair
      BY <1>5, <2>2 DEF MapGetItem
    <3>2. FindMapPair(f, map[f], k).ok \in BOOLEAN
      BY DEF FindMapPair, Done
    <3>3. KeepsKeys(map[f], FindMapPair(f, map[f], k).to)
      BY <1>3, FindMapPairKeeps
    <3> QED
      BY <1>4, <3>1, <3>2, <3>3
  <2> QED
    BY <2>1, <2>2
<1>6. ASSUME NEW k \in PyValues, NEW v \in PyValues, MapSetItem(f, k, v) PROVE CallInv'
  <2>1. CASE ByStep(k, v)
    BY <1>1, <1>6, <2>1 DEF MapSetItem
  <2>2. CASE ~ByStep(k, v)
    <3>1. CallOnMap(f, SetItem(f, map[f], k, v)) /\ pair' = pair
      BY <1>6, <2>2 DEF MapSetItem
    <3>2. SetItem(f, map[f], k, v).ok \in BOOLEAN
      BY DEF SetItem, Done, Throw
    <3>3. KeepsKeys(map[f], SetItem(f, map[f], k, v).to)
      BY <1>3, SetItemKeeps
    <3> QED
      BY <1>4, <3>1, <3>2, <3>3
  <2> QED
    BY <2>1, <2>2
<1>7. CASE MapClear(f)
  <2>1. /\ CallOnMap(f, Done(<<>>)) /\ Forget({f}) /\ todo' = todo
        /\ map' = [map EXCEPT ![f] = Done(<<>>).to]
    BY <1>7 DEF MapClear, CallOnMap
  <2>2. Idle' => Idle
    BY <1>2, <2>1 DEF Done
  <2>3. \A g \in Maps : g \notin {f} => map'[g] = map[g]
    BY <2>1 DEF MapInv, MapTypeOK
  <2> QED
    BY <2>1, <2>2, <2>3, EntriesGone
<1> QED
  BY <1>5, <1>6, <1>7 DEF MapNext

LEMMA OtherCallsCall ==
  ASSUME MapInv, CallInv,
         \/ \E f \in Repeated : ListNext(f)
         \/ \E f \in Repeated \cup Maps, a \in Arguments : Extend(f, a)
         \/ \E f \in Fields, v \in PyValues : ProtoSetField(f, v)
         \/ \E d \in Donors : ProtoCopyFrom(d) \/ PyProtoAllocateAndCopyMessage(d)
         \/ \E kwargs \in Keywords : ProtoInitFields(kwargs)
         \/ \E d \in Donors, kwargs \in Keywords : PyProtoAllocateMessage(d, kwargs)
         \/ Read
  PROVE  CallInv'
<1>1. ASSUME NEW jobs, Begin(jobs) PROVE CallInv'
  BY <1>1, NoItem DEF Begin, CallInv, Idle
<1>2. Idle => todo = <<>> /\ pair.stage = "search"
  BY DEF CallInv
<1>3. ASSUME NEW f \in Repeated, ListNext(f) PROVE CallInv'
  <2>1. ASSUME NEW done, CallOnList(f, done) PROVE CallInv'
    <3>1. UNCHANGED call /\ map' = map /\ Free /\ EndedBy(done.ok)
      BY <2>1 DEF CallOnList
    <3>2. Idle' => Idle
      BY <3>1 DEF Free, EndedBy, InPython, Idle
    <3> QED
      BY <3>1, <3>2, MapsSame
  <2> QED
    BY <1>3, <2>1 DEF ListNext, ListAppend, ListInsert, ListDelItem, ListSetItem,
                      ListSetSlice, ListDelSlice, ListAdd, ListClear
<1>4. ASSUME NEW f \in Repeated \cup Maps, NEW a \in Arguments, Extend(f, a) PROVE CallInv'
  <2>1. CASE Idle /\ UNCHANGED <<message, call>>
    BY <1>2, <2>1, NoItem DEF call
  <2> QED
    BY <1>1, <1>4, <2>1 DEF Extend
<1>5. ASSUME NEW f \in Fields, NEW v \in PyValues, ProtoSetField(f, v) PROVE CallInv'
  <2>1. UNCHANGED call /\ map' = map /\ Free /\ \E ok \in BOOLEAN : EndedBy(ok)
    BY <1>5 DEF ProtoSetField, Assignable
  <2> QED
    BY <2>1, EndsFree, MapsSame
<1>6. ASSUME NEW d \in Donors, ProtoCopyFrom(d) PROVE CallInv'
  <2>1. Free /\ EndedBy(CheckType(d) /\ d.serialize = "bytes") /\ todo' = todo
    BY <1>6 DEF ProtoCopyFrom
  <2>2. Idle' => Idle
    BY <2>1, EndsFree DEF CheckType
  <2>3. CASE Forget(Maps)
    BY <2>1, <2>2, <2>3, EntriesGone
  <2>4. CASE UNCHANGED <<message, pair>>
    BY <2>1, <2>2, <2>4, MapsSame DEF message, call
  <2> QED
    BY <1>6, <2>3, <2>4 DEF ProtoCopyFrom
<1>7. ASSUME NEW d \in Donors, PyProtoAllocateAndCopyMessage(d) PROVE CallInv'
  BY <1>2, <1>7, NoItem DEF PyProtoAllocateAndCopyMessage, call
<1>8. ASSUME NEW kwargs \in Keywords, ProtoInitFields(kwargs) PROVE CallInv'
  BY <1>1, <1>8 DEF ProtoInitFields
<1>9. ASSUME NEW d \in Donors, NEW kwargs \in Keywords, PyProtoAllocateMessage(d, kwargs)
      PROVE  CallInv'
  BY <1>2, <1>9, NoItem DEF PyProtoAllocateMessage, Idle
<1>10. CASE Read
  BY <1>2, <1>10, NoItem DEF Read, call
<1> QED
  BY <1>3, <1>4, <1>5, <1>6, <1>7, <1>8, <1>9, <1>10

LEMMA StepCall ==
  ASSUME CallInv, Step PROVE CallInv'
<1>1. CASE Return
  BY <1>1, NoItem DEF Return, call, CallInv
<1>2. ASSUME Busy, NEW more, Continue(more) \/ Abandon PROVE CallInv'
  BY <1>2, NoItem DEF Continue, Abandon, Busy, Idle
<1>3. ASSUME Busy, NEW ok, NEW more, NEW change, NextOr(ok, more, change) PROVE CallInv'
  BY <1>2, <1>3 DEF NextOr, AbandonedBy
<1> QED
  BY <1>1, <1>3 DEF Step, UnknownField, InitSingular, InitContainer, NextElement

LEMMA GoesInv ==
  ASSUME Busy, LookUp, NEW stage, NEW at, Goes(stage, at),
         at # 0 => at \in DOMAIN Map1',
         at # 0 /\ stage \in {"found", "value"} => OfKey(Job1.field, Map1'[at].key, Item1.key),
         stage = "key" => Item1.key \in Calling
  PROVE  CallInv'
<1>1. /\ todo' = todo /\ outcome' = outcome /\ todo # <<>> /\ ~Idle
      /\ pair'.stage = stage /\ pair'.at = at
  BY DEF Goes, Busy
<1>2. Job1' = Job1 /\ Item1' = Item1 /\ LookUp' /\ ~Idle'
  BY <1>1 DEF Job1, Item1, LookUp, Idle
<1>3. HasPair' <=> stage \in {"found", "value"}
  BY <1>1 DEF HasPair
<1> QED
  BY <1>1, <1>2, <1>3 DEF CallInv

LEMMA PairStepCall ==
  ASSUME MapInv, CallInv, PairStep PROVE CallInv'
<1>1. Busy
  BY DEF PairStep, FindPair, SearchPair, AddPair, SetKey, SetValue, GetValue, PythonRaises,
         ByStepNow, Calls
<1>2. ASSUME NEW change, AbandonedBy(change) PROVE CallInv'
  BY <1>2, NoItem DEF AbandonedBy, Abandon
<1>3. ASSUME Continue(<<>>) PROVE CallInv'
  BY <1>1, <1>3, NoItem DEF Continue, Busy, Idle
<1>4. CASE PythonRaises \/ SetValue \/ GetValue
  BY <1>2, <1>3, <1>4 DEF PythonRaises, SetValue, GetValue
<1> SUFFICES ASSUME FindPair \/ SearchPair \/ AddPair \/ SetKey PROVE CallInv'
  BY <1>4 DEF PairStep
<1>5. LookUp
  BY DEF FindPair, SearchPair, AddPair, SetKey, ByStepNow
<1> DEFINE f == Job1.field
           k == Item1.key
           m == Map1
<1>6. k \in PyValues /\ f \in Maps /\ m \in Seq(Entry) /\ pair.at \in Nat
  BY <1>1, <1>5, ItemTyped DEF Busy, Item, MapInv, MapTypeOK, PairTyped
<1>7. Len(m) \in Nat /\ DOMAIN m = 1 .. Len(m)
  BY <1>6, LenProperties
<1>8. ASSUME NEW to, ChangeMap1(to), todo' = todo PROVE Map1' = to
  <2>1. Job1' = Job1
    BY <1>8 DEF Job1
  <2> QED
    BY <1>6, <1>8, <2>1 DEF ChangeMap1, Map1, MapInv, MapTypeOK
<1>9. ASSUME UNCHANGED message, todo' = todo PROVE Map1' = m
  BY <1>9 DEF message, Map1, Job1
<1> HIDE DEF f, k, m
<1>10. CASE FindPair
  <2> DEFINE found == FindMapPair(f, m, k)
             at == PairOf(f, m, k)
  <2>1. \/ found.ok /\ Goes("value", at) /\ ChangeMap1(found.to)
        \/ AbandonedBy(ChangeMap1(found.to))
    BY <1>10 DEF FindPair, f, k, m
  <2>2. CASE found.ok /\ Goes("value", at) /\ ChangeMap1(found.to)
    <3>1. Map1' = found.to
      BY <1>8, <2>2 DEF Goes
    <3>2. at \in DOMAIN found.to /\ OfKey(f, found.to[at].key, k)
      <4>1. CASE Pairs(f, m, k) # {}
        <5>1. found.to = m /\ at = FirstPair(f, m, k)
          BY <4>1 DEF FindMapPair, Done, PairOf
        <5> QED
          BY <1>6, <4>1, <5>1, FirstPairIsPair DEF Pairs, OfKey
      <4>2. CASE Pairs(f, m, k) = {}
        <5> DEFINE e == [key |-> NewKey(f, k), value |-> Default]
        <5>1. found.to = Append(m, e) /\ at = Len(m) + 1 /\ KeyCast[f][k] # Refused
          BY <2>2, <4>2 DEF FindMapPair, PairOf
        <5>2. e.key = KeyCast[f][k] /\ e \in Entry
          BY <1>6, <5>1, FieldAssumption DEF NewKey, Entry
        <5> HIDE DEF e
        <5>3. DOMAIN Append(m, e) = 1 .. Len(m) + 1 /\ Append(m, e)[Len(m) + 1] = e
          BY <1>6, <1>7, <5>2, AppendKeepsKeys
        <5>4. at \in DOMAIN found.to /\ found.to[at] = e
          BY <1>7, <5>1, <5>3
        <5> QED
          BY <5>2, <5>4 DEF OfKey
      <4> QED
        BY <4>1, <4>2
    <3> HIDE DEF found, at
    <3> QED
      BY <1>1, <1>5, <2>2, <3>1, <3>2, GoesInv DEF f, k
  <2> QED
    BY <1>2, <2>1, <2>2
<1>11. CASE SearchPair
  <2> DEFINE at == pair.at + 1
             stage == IF Equal(KeyPython[f][m[at].key], k) THEN "found" ELSE "search"
  <2>1. Goes(stage, at) /\ UNCHANGED message /\ pair.at < Len(m)
    BY <1>11 DEF SearchPair, f, k, m
  <2>2. Map1' = m
    BY <1>9, <2>1 DEF Goes
  <2>3. at \in DOMAIN m
    BY <1>6, <1>7, <2>1
  <2>4. stage \in {"found", "value"} => OfKey(f, m[at].key, k)
    BY DEF OfKey
  <2>5. stage # "key"
    OBVIOUS
  <2> HIDE DEF at, stage
  <2> QED
    BY <1>1, <1>5, <2>1, <2>2, <2>3, <2>4, <2>5, GoesInv DEF f, k
<1>12. CASE AddPair
  <2> DEFINE e == [key |-> Default, value |-> Default]
             at == Len(m) + 1
  <2>1. ChangeMap1(Append(m, e)) /\ Goes("key", at) /\ k \in Calling
    BY <1>12 DEF AddPair, m, k
  <2>2. Map1' = Append(m, e)
    BY <1>8, <2>1 DEF Goes
  <2>3. e \in Entry
    BY FieldAssumption DEF Entry
  <2> HIDE DEF e
  <2>4. DOMAIN Append(m, e) = 1 .. at
    BY <1>6, <2>3, AppendKeepsKeys
  <2>5. at \in DOMAIN Map1'
    BY <1>7, <2>2, <2>4
  <2> HIDE DEF at
  <2> QED
    BY <1>1, <1>5, <2>1, <2>5, GoesInv DEF k
<1>13. CASE SetKey
  <2> DEFINE x == KeyCast[f][k]
             at == pair.at
             to == [m EXCEPT ![at].key = x]
  <2>1. CASE AbandonedBy(UNCHANGED message)
    BY <1>2, <2>1
  <2>2. CASE Goes("value", at) /\ at = 0
    BY <1>1, <1>5, <2>2, GoesInv
  <2>3. CASE x # Refused /\ at # 0 /\ Goes("value", at) /\ ChangeMap1(to)
    <3>1. at \in DOMAIN m /\ k \in Calling
      <4>1. pair.stage = "key"
        BY <1>13 DEF SetKey
      <4> QED
        BY <2>3, <4>1 DEF CallInv, m, k
    <3>2. DOMAIN to = DOMAIN m /\ to[at].key = x
      <4> HIDE DEF at
      <4> QED
        BY <1>6, <2>3, <3>1, KeyGiven
    <3>3. Map1' = to
      BY <1>8, <2>3 DEF Goes
    <3> HIDE DEF to, at
    <3>4. OfKey(f, Map1'[at].key, k) /\ at \in DOMAIN Map1'
      BY <3>1, <3>2, <3>3 DEF OfKey
    <3> QED
      BY <1>1, <1>5, <2>3, <3>4, GoesInv DEF f, k
  <2> QED
    BY <1>13, <2>1, <2>2, <2>3 DEF SetKey, f, k, m
<1> QED
  BY <1>10, <1>11, <1>12, <1>13

LEMMA CallNext == MapInv /\ CallInv /\ [Next]_vars => CallInv'
<1> SUFFICES ASSUME MapInv, CallInv, [Next]_vars PROVE CallInv'
  OBVIOUS
<1>1. CASE UNCHANGED vars
  BY <1>1, MapsSame DEF vars, call, Idle
<1> QED
  BY <1>1, MapNextCall, OtherCallsCall, StepCall, PairStepCall DEF Next

-----------------------------------------------------------------------------
(* A value that is set is read back.                                       *)
LEMMA SetFound ==
  ASSUME NEW f \in Maps, NEW m \in Seq(Entry), NEW k \in PyValues, NEW v \in PyValues,
         SetItem(f, m, k, v).ok, KeyCast[f][k] # Refused => OneForm(f, KeyCast[f][k])
  PROVE  LET to == SetItem(f, m, k, v).to
         IN Pairs(f, to, k) # {} /\ to[FirstPair(f, to, k)].value = Cast(f, v)
<1> DEFINE found == FindMapPair(f, m, k)
           s == found.to
           p == PairOf(f, m, k)
           x == Cast(f, v)
           to == [s EXCEPT ![p].value = x]
<1>1. found.ok /\ x # Refused
  BY DEF SetItem, Throw
<1>2. SetItem(f, m, k, v).to = to
  BY <1>1 DEF SetItem, Done
<1>3. s \in Seq(Entry) /\ x \in Contents
  BY <1>1, FindMapPairKeeps, FieldAssumption DEF Cast, Fields
<1>4. /\ DOMAIN to = DOMAIN s
      /\ \A i \in DOMAIN s : to[i].key = s[i].key
      /\ p \in DOMAIN s => to[p].value = x
  <2> HIDE DEF s, p, x
  <2> QED
    BY <1>3, ValueKeepsKeys
<1>5. Pairs(f, to, k) = Pairs(f, s, k)
  <2> HIDE DEF to, s
  <2> QED
    BY <1>4 DEF Pairs
<1>6. FirstPair(f, to, k) = FirstPair(f, s, k)
  <2> HIDE DEF to, s
  <2> QED
    BY <1>5 DEF FirstPair
<1>7. p \in DOMAIN s /\ Pairs(f, s, k) # {} /\ FirstPair(f, s, k) = p
  <2>1. CASE Pairs(f, m, k) # {}
    <3>1. s = m /\ p = FirstPair(f, m, k)
      BY <2>1 DEF FindMapPair, Done, PairOf
    <3>2. p \in Pairs(f, m, k)
      BY <2>1, <3>1, FirstPairIsPair
    <3> QED
      BY <2>1, <3>1, <3>2 DEF Pairs
  <2>2. CASE Pairs(f, m, k) = {}
    <3> DEFINE n == Len(m)
               new == [key |-> NewKey(f, k), value |-> Default]
    <3>1. s = Append(m, new) /\ KeyCast[f][k] # Refused /\ p = n + 1
      BY <1>1, <2>2 DEF FindMapPair, PairOf
    <3>2. NewKey(f, k) = KeyCast[f][k] /\ new \in Entry
      BY <3>1, FieldAssumption DEF NewKey, Entry
    <3>3. n \in Nat /\ DOMAIN m = 1 .. n
      BY LenProperties
    <3>4. /\ DOMAIN s = 1 .. n + 1 /\ s[n + 1] = new
          /\ \A i \in 1 .. n : s[i] = m[i]
      BY <3>1, <3>2, <3>3
    <3>5. Equal(KeyPython[f][new.key], k)
      BY <3>1, <3>2 DEF OneForm
    <3> HIDE DEF s, n, new, p
    <3>6. Pairs(f, s, k) = {n + 1}
      BY <2>2, <3>3, <3>4, <3>5 DEF Pairs
    <3>7. FirstPair(f, s, k) = n + 1
      BY <3>3, <3>6 DEF FirstPair
    <3> QED
      BY <3>1, <3>3, <3>4, <3>6, <3>7
  <2> QED
    BY <2>1, <2>2
<1> HIDE DEF to, s, p, x
<1> QED
  BY <1>2, <1>4, <1>5, <1>6, <1>7 DEF x

-----------------------------------------------------------------------------
(* The entries of maps, and what calls in progress have still to do.       *)
LEMMA MapInvariant == Spec => [](MapInv /\ CallInv)
BY InitInv, NextInv, CallNext, PTL DEF Spec

(* __getitem__, __setitem__, update, copies and initialization never give a*)
(* map a second entry with a key, whatever the Python code of another key  *)
(* or value does meanwhile, unless the key has several Python forms, is one*)
(* that such code converts to, or is the default one.                      *)
THEOREM DistinctKeys == Spec => []KeysDistinct
<1>1. MapInv => KeysDistinct
  BY DEF MapInv, DistinctIn, KeysDistinct
<1> QED
  BY <1>1, MapInvariant, PTL

(* Whatever calls have failed before, an item that is set is found again.  *)
THEOREM ItemsFound == Spec => []SetThenFound
<1>1. MapInv => SetThenFound
  BY SetFound DEF MapInv, MapTypeOK, SetThenFound
<1> QED
  BY <1>1, MapInvariant, PTL

(* An item of a map goes to the entry of its key, or to one that is gone:  *)
(* never to an entry that another call has put in its place, whatever the  *)
(* Python code of keys and values does to the message in between.          *)
THEOREM ItemsGoToTheirKeys == Spec => []ValueGoesToItsKey
<1>1. CallInv => ValueGoesToItsKey
  BY DEF CallInv, OfKey, HasPair, ValueGoesToItsKey
<1> QED
  BY <1>1, MapInvariant, PTL
=============================================================================
