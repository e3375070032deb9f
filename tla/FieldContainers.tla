--------------------------- MODULE FieldContainers ---------------------------
(***************************************************************************)
(* proto_utils.cc: access to the fields of a C++ message from Python.  A   *)
(* repeated field is a sequence.  A map field is one too, of entries with  *)
(* a key and a value: reflection shows it as a repeated field of messages. *)
(* Indices are the program's, from 0.  An operation is first a function    *)
(* from what a field holds to what it holds then (to) and whether the call *)
(* went through (ok: no exception), and then an action.  Where Python code *)
(* runs in the middle of an operation on a map, it is several actions.     *)
(***************************************************************************)
EXTENDS Integers, Sequences, FiniteSets

CONSTANTS
  Singular, Repeated, Maps,  \* the fields of the message, by their label
  Embedded,    \* those whose values are messages
  PyValues,    \* Python objects a caller passes as value or key
  Calling,     \* those whose ==, __index__ or SerializeToString is Python
               \* code, which may use the message itself
  Malformed,   \* Python messages whose bytes the C++ type cannot parse
  Contents,    \* what a field, an element, a key or a value can hold
  Default,     \* what a new one holds
  Refused,     \* the outcome of a conversion that throws
  ValueCast,   \* for each field: what a Python object is converted to
  KeyCast,     \* for each map: the same for its keys
  KeyPython,   \* for each map: the Python object for a key
  Class,       \* two Python objects are equal (==) iff they have one class
  Arguments,   \* the containers a caller passes to extend or update
  Keywords,    \* the keyword arguments of a call: sequences of assignments
  Donors,      \* the Python objects a caller copies from
  TypeName,    \* the full name of the message's type
  Indices,     \* the indices a caller passes
  Steps,       \* the steps of slices
  MaxLen       \* bound: a message with so many elements gets no more in one call

Fields == Singular \cup Repeated \cup Maps
Entry  == [key : Contents, value : Contents]
Item   == [key : PyValues, value : PyValues]

(* An assignment of keyword arguments, or one element of a container.      *)
Job == [field : STRING, type : {"value", "sequence", "dict", "element", "lookup"},
        items : Seq(Item)]

Keyword == {j \in Job : /\ j.type \in {"value", "sequence", "dict"}
                        /\ j.type = "value" => Len(j.items) = 1}

Distinct(m) == \A i, j \in DOMAIN m : m[i].key = m[j].key => i = j

ASSUME FieldAssumption ==
  /\ Fields \subseteq STRING
  /\ Embedded \subseteq Fields
  /\ Repeated \cap Maps = {} /\ Singular \cap (Repeated \cup Maps) = {}
  /\ Default \in Contents /\ Refused \notin Contents
  /\ ValueCast \in [Fields -> [PyValues -> Contents \cup {Refused}]]
  /\ KeyCast \in [Maps -> [PyValues -> Contents \cup {Refused}]]
  /\ KeyPython \in [Maps -> [Contents -> PyValues]]
  /\ DOMAIN Class = PyValues
  /\ Arguments \subseteq [type : {"value", "sequence", "dict"}, items : Seq(Item)]
  /\ Keywords \subseteq Seq(Keyword)
  /\ \A d \in Donors : /\ d.serialize \in {"bytes", "malformed", "fails"}
                       /\ d.single \in [Singular -> Contents]
                       /\ d.list \in [Repeated -> Seq(Contents)]
                       /\ d.map \in [Maps -> Seq(Entry)]
                       /\ \A f \in Maps : Distinct(d.map[f])
  /\ Indices \subseteq Int /\ Steps \subseteq Int \ {0} /\ MaxLen \in Nat

VARIABLES
  single,  \* the singular fields
  list,    \* the repeated fields
  map,     \* the map fields
  todo,    \* what the call in progress has still to do
  pair,    \* of an item of a map that is looked up step by step: how far
           \* the look-up is, and the entry it is at (0: one that is gone)
  outcome  \* "running", "allocating" (a message nobody else knows), or how
           \* the last call ended

vars == <<single, list, map, todo, pair, outcome>>
message == <<single, list, map>>
call == <<todo, pair>>

TypeOK ==
  /\ single \in [Singular -> Contents]
  /\ list \in [Repeated -> Seq(Contents)]
  /\ map \in [Maps -> Seq(Entry)]
  /\ todo \in Seq(Job)
  /\ pair \in [stage : {"search", "found", "key", "value"}, at : Nat]
  /\ outcome \in {"running", "allocating", "returned", "raised"}

-----------------------------------------------------------------------------
(* DispatchFieldDescriptor takes the handler of the field's type (a map's:  *)
(* of its value's), which converts a Python object or throws a type_error. *)
Cast(f, v) == ValueCast[f][v]

Done(s)  == [to |-> s, ok |-> TRUE]
Throw(s) == [to |-> s, ok |-> FALSE]

FromEnd(i, n) == IF i < 0 THEN i + n ELSE i

InRange(i, n) == FromEnd(i, n) \in 0 .. n - 1

ClampIndexMutant(i, n) == IF i < 0 THEN 0 ELSE IF i > n THEN n ELSE i

ClampIndex(i, n) ==
  CASE FromEnd(i, n) < 0 -> 0
    [] FromEnd(i, n) > n -> n
    [] OTHER -> FromEnd(i, n)

SwapElements(s, i, j) == [s EXCEPT ![i + 1] = s[j + 1], ![j + 1] = s[i + 1]]

(* Appending allocates a message and copies v into it, which throws when   *)
(* the bytes cannot be parsed.  An assignment ignores that, and keeps what *)
(* has been parsed.                                                        *)
NewElement(f, v) == IF f \in Embedded /\ v \in Malformed THEN Refused ELSE Cast(f, v)

AppendToMutant(f, s, v) ==  \* adds an element first, as FindMapPair does
  IF NewElement(f, v) = Refused THEN Throw(Append(s, Default))
  ELSE Done(Append(s, NewElement(f, v)))

AppendTo(f, s, v) ==
  IF NewElement(f, v) = Refused THEN Throw(s) ELSE Done(Append(s, NewElement(f, v)))

(* Appends, and slides the elements after index i up by swaps.             *)
InsertInto(f, s, i, v) ==
  LET n == Len(s)
      appended == AppendTo(f, s, v)
      slid[dst \in 0 .. n] == IF dst = n THEN appended.to
                              ELSE SwapElements(slid[dst + 1], dst + 1, dst)
  IN IF appended.ok THEN Done(slid[ClampIndex(i, n)]) ELSE appended

(* Slides the elements after index i down, and removes the last.           *)
DeleteFrom(s, i) ==
  LET n == Len(s)
      slid[dst \in 0 .. n - 1] == IF dst <= FromEnd(i, n) THEN s
                                  ELSE SwapElements(slid[dst - 1], dst - 1, dst)
  IN IF InRange(i, n) THEN Done(SubSeq(slid[n - 1], 1, n - 1)) ELSE Throw(s)

SetElement(f, s, i, v) ==
  IF InRange(i, Len(s)) /\ Cast(f, v) # Refused
  THEN Done([s EXCEPT ![FromEnd(i, Len(s)) + 1] = Cast(f, v)])
  ELSE Throw(s)

(* slice.compute(): the slices of a sequence of n elements.                *)
SliceLength(start, stop, step) ==
  CASE step > 0 /\ start < stop -> (stop - start - 1) \div step + 1
    [] step < 0 /\ stop < start -> (start - stop - 1) \div (-step) + 1
    [] OTHER -> 0

Slices(n) ==
  LET Bounds(step) == IF step > 0 THEN 0 .. n ELSE -1 .. n - 1
  IN UNION {{[start |-> a, stop |-> z, step |-> k, length |-> SliceLength(a, z, k)] :
               a \in Bounds(k), z \in Bounds(k)} : k \in Steps}

GetSlice(s, slice) ==
  [i \in 1 .. slice.length |-> s[slice.start + (i - 1) * slice.step + 1]]

SetSlice(f, s, slice, values) ==
  LET set[i \in 0 .. slice.length] ==
        CASE i = 0 -> Done(s)
          [] i > 0 /\ ~set[i - 1].ok -> set[i - 1]
          [] i > Len(values) /\ set[i - 1].ok -> Throw(set[i - 1].to)  \* values[i]
          [] OTHER -> SetElement(f, set[i - 1].to, slice.start + (i - 1) * slice.step,
                                 values[i].value)
  IN set[slice.length]

DelSliceIndexMutant(slice, i) == slice.start + (i - 1) * slice.step

(* Backwards from stop, and not from the last index of the slice.          *)
DelSliceIndex(slice, i) == slice.stop - i * slice.step

DelSlice(s, slice) ==
  LET del[i \in 0 .. slice.length] ==
        CASE i = 0 -> Done(s)
          [] i > 0 /\ ~del[i - 1].ok -> del[i - 1]
          [] OTHER -> DeleteFrom(del[i - 1].to, DelSliceIndex(slice, i))
  IN IF slice.length = Len(s) THEN Done(<<>>) ELSE del[slice.length]

-----------------------------------------------------------------------------
(* MapFieldContainer *)

Equal(u, v) == Class[u] = Class[v]

(* FindMapPair searches by Python's ==.  An entry that is missing is added *)
(* first, and given its key then.  For a key of a built-in type no Python  *)
(* code runs meanwhile; for others, see SearchPair, AddPair and SetKey.    *)
PairsMutant(f, m, k) ==  \* "i < Size() - 1"
  {i \in 1 .. Len(m) - 1 : Equal(KeyPython[f][m[i].key], k)}

Pairs(f, m, k) == {i \in DOMAIN m : Equal(KeyPython[f][m[i].key], k)}

FirstPair(f, m, k) == CHOOSE i \in Pairs(f, m, k) : \A j \in Pairs(f, m, k) : i <= j

NewKeyMutant(f, k) == KeyCast[f][k]

NewKey(f, k) == IF KeyCast[f][k] = Refused THEN Default ELSE KeyCast[f][k]

FindMapPair(f, m, k) ==
  IF Pairs(f, m, k) # {} THEN Done(m)
  ELSE [to |-> Append(m, [key |-> NewKey(f, k), value |-> Default]),
        ok |-> KeyCast[f][k] # Refused]

PairOfMutant(f, m, k) == Len(FindMapPair(f, m, k).to)  \* the last one

PairOf(f, m, k) ==
  IF Pairs(f, m, k) # {} THEN FirstPair(f, m, k) ELSE Len(m) + 1

SetItem(f, m, k, v) ==
  LET found == FindMapPair(f, m, k)
  IN IF found.ok /\ Cast(f, v) # Refused
     THEN Done([found.to EXCEPT ![PairOf(f, m, k)].value = Cast(f, v)])
     ELSE Throw(found.to)

-----------------------------------------------------------------------------
EmptyMessage ==
  /\ single' = [f \in Singular |-> Default]
  /\ list' = [f \in Repeated |-> <<>>]
  /\ map' = [f \in Maps |-> <<>>]

Init ==
  /\ single = [f \in Singular |-> Default]
  /\ list = [f \in Repeated |-> <<>>]
  /\ map = [f \in Maps |-> <<>>]
  /\ todo = <<>>
  /\ pair = [stage |-> "search", at |-> 0]
  /\ outcome = "returned"

Idle == outcome \in {"returned", "raised"}

Job1  == Head(todo)
Item1 == Job1.items[1]
Busy  == ~Idle /\ todo # <<>>
HasPair == pair.stage \in {"found", "value"}
LookUp  == Job1.type \in {"element", "lookup"} /\ Job1.field \in Maps

(* The call in progress compares or converts an object by its Python code, *)
(* which may call back when it knows the message.                          *)
Calls ==
  /\ Busy
  /\ \/ LookUp /\ pair.stage # "value" /\ Item1.key \in Calling
     \/ LookUp /\ HasPair /\ Item1.value \in Calling /\ Job1.type # "lookup"
     \/ ~LookUp /\ Job1.type \in {"value", "element"} /\ Item1.value \in Calling

InPython == Calls /\ outcome = "running"
Free     == Idle \/ InPython

EndedBy(ok) == outcome' = CASE InPython -> outcome
                            [] ~InPython /\ ok -> "returned"
                            [] ~InPython /\ ~ok -> "raised"

ForgetMutant(maps) == UNCHANGED pair  \* keeps an index in place of the pointer

(* The entries of these fields are gone, also for the call in progress,    *)
(* which keeps its pointer.                                                *)
Forget(maps) ==
  pair' = IF pair.stage # "search" /\ Job1.field \in maps THEN [pair EXCEPT !.at = 0]
          ELSE pair

WithinBound == \A f \in Repeated, g \in Maps : Len(list[f]) + Len(map[g]) < MaxLen

(* One call of a container's method; from Python code that a call runs, an *)
(* exception may be caught there, or leave that call too (PythonRaises).   *)
CallOnList(f, done) ==
  /\ Free
  /\ Len(done.to) > Len(list[f]) => WithinBound
  /\ list' = [list EXCEPT ![f] = done.to]
  /\ EndedBy(done.ok)
  /\ UNCHANGED <<single, map, call>>

CallOnMap(f, done) ==
  /\ Free
  /\ Len(done.to) > Len(map[f]) => WithinBound
  /\ map' = [map EXCEPT ![f] = done.to]
  /\ EndedBy(done.ok)
  /\ UNCHANGED <<single, list, todo>>

Begin(jobs) ==
  /\ Idle
  /\ outcome' = "running"
  /\ todo' = jobs
  /\ UNCHANGED <<message, pair>>

ListAppend(f, v)    == CallOnList(f, AppendTo(f, list[f], v))
ListInsert(f, i, v) == CallOnList(f, InsertInto(f, list[f], i, v))
ListDelItem(f, i)   == CallOnList(f, DeleteFrom(list[f], i))
ListSetItem(f, i, v) == CallOnList(f, SetElement(f, list[f], i, v))
ListClear(f)        == CallOnList(f, Done(<<>>))

ListSetSlice(f, a) ==
  /\ a.type = "sequence"  \* anything else fails at its first element
  /\ \A i \in DOMAIN a.items : a.items[i].value \notin Calling
  /\ \E slice \in Slices(Len(list[f])) : CallOnList(f, SetSlice(f, list[f], slice, a.items))

ListDelSlice(f) ==
  \E slice \in Slices(Len(list[f])) : CallOnList(f, DelSlice(list[f], slice))

(* Add: the new message is filled before it is added, or deleted.          *)
ListAdd(f) ==
  /\ f \in Embedded
  /\ \/ \E x \in Contents : CallOnList(f, Done(Append(list[f], x)))
     \/ CallOnList(f, Throw(list[f]))

ItemOf(f, type, k, v) == [field |-> f, type |-> type, items |-> <<[key |-> k, value |-> v]>>]

ByStep(k, v) == k \in Calling \/ v \in Calling

MapGetItem(f, k) ==
  IF ByStep(k, k) THEN WithinBound /\ Begin(<<ItemOf(f, "lookup", k, k)>>)
  ELSE CallOnMap(f, FindMapPair(f, map[f], k)) /\ UNCHANGED pair

MapSetItem(f, k, v) ==
  IF ByStep(k, v) THEN WithinBound /\ Begin(<<ItemOf(f, "element", k, v)>>)
  ELSE CallOnMap(f, SetItem(f, map[f], k, v)) /\ UNCHANGED pair

MapClear(f) == CallOnMap(f, Done(<<>>)) /\ Forget({f})

(* "As in the native API, message, repeated, and map fields cannot be set." *)
Assignable(f) == f \in Singular \ Embedded

ProtoSetField(f, v) ==
  /\ Free
  /\ LET ok == Assignable(f) /\ Cast(f, v) # Refused
     IN /\ EndedBy(ok)
        /\ single' = IF ok THEN [single EXCEPT ![f] = Cast(f, v)] ELSE single
  /\ UNCHANGED <<list, map, call>>

(* PyProtoCheckTypeOrThrow: DESCRIPTOR.full_name, which other objects lack. *)
CheckType(d) == d.name = TypeName

(* PyProtoSerializeToString throws what the method throws, if there is one.  *)
Serializes(d) == d.serialize \in {"bytes", "malformed"}

TakesFields(d) == single' = d.single /\ list' = d.list /\ map' = d.map

(* Parsing begins with a clear, and leaves what could be parsed.           *)
ProtoCopyFrom(d) ==
  /\ Free
  /\ EndedBy(CheckType(d) /\ d.serialize = "bytes")
  /\ IF CheckType(d) /\ Serializes(d) THEN TakesFields(d) /\ Forget(Maps)
     ELSE UNCHANGED <<message, pair>>
  /\ UNCHANGED todo

(* The generated pool knows the type by the name of the object, or by the  *)
(* string it is (here, that type or none); copies are complete or deleted. *)
PyProtoAllocateAndCopyMessage(d) ==
  /\ Idle
  /\ EndedBy(CheckType(d) /\ d.serialize = "bytes")
  /\ IF CheckType(d) /\ d.serialize = "bytes" THEN TakesFields(d) ELSE EmptyMessage
  /\ UNCHANGED call

(* Index checks, Contains, GetSlice and lookups of fields that do not exist *)
(* or of types that are not known: nothing changes, and some throw.        *)
Read ==
  /\ Idle
  /\ \E ok \in BOOLEAN : EndedBy(ok)
  /\ UNCHANGED <<message, call>>

-----------------------------------------------------------------------------
(* Calls with several elements, which are converted one after the other.   *)

Fits(f, a) == a.type = IF f \in Maps THEN "dict" ELSE "sequence"

Elements(f, items) ==
  [i \in DOMAIN items |-> [field |-> f, type |-> "element", items |-> <<items[i]>>]]

(* Extend, UpdateFromHandle                                                *)
Extend(f, a) ==
  \/ Fits(f, a) /\ WithinBound /\ Begin(Elements(f, a.items))
  \/ ~Fits(f, a) /\ Idle /\ EndedBy(FALSE) /\ UNCHANGED <<message, call>>

ProtoInitFields(kwargs) == Begin(kwargs)

PyProtoGetDescriptor(d) == d.name = TypeName

(* The message is the caller's once the call has returned.                 *)
PyProtoAllocateMessage(d, kwargs) ==
  /\ Idle
  /\ IF PyProtoGetDescriptor(d)
     THEN outcome' = "allocating" /\ todo' = kwargs
     ELSE EndedBy(FALSE) /\ UNCHANGED todo
  /\ EmptyMessage
  /\ UNCHANGED pair

Continue(more) ==
  /\ todo' = more \o Tail(todo)
  /\ pair' = [stage |-> "search", at |-> 0]
  /\ UNCHANGED outcome

(* The exception leaves the loop; a message under allocation is deleted,   *)
(* and the caller goes on with an empty one.                               *)
Abandon ==
  /\ todo' = <<>>
  /\ pair' = [stage |-> "search", at |-> 0]
  /\ outcome' = "raised"

AbandonedBy(change) ==
  Abandon /\ IF outcome = "allocating" THEN EmptyMessage ELSE change

NextOr(ok, more, change) ==
  IF ok THEN Continue(more) /\ change ELSE AbandonedBy(change)

UnknownField ==
  /\ Busy
  /\ Job1.field \notin Fields
  /\ NextOr(FALSE, <<>>, UNCHANGED message)

InitSingular ==
  LET x == Cast(Job1.field, Job1.items[1].value)
      ok == Job1.type = "value" /\ x # Refused
  IN /\ Busy
     /\ Job1.field \in Singular
     /\ NextOr(ok, <<>>, /\ single' = IF ok THEN [single EXCEPT ![Job1.field] = x] ELSE single
                         /\ UNCHANGED <<list, map>>)

(* The field is cleared before the value is looked at.                     *)
InitContainer ==
  LET f == Job1.field
  IN /\ Busy
     /\ f \in Repeated \cup Maps
     /\ Job1.type \notin {"element", "lookup"}
     /\ NextOr(Fits(f, Job1), Elements(f, Job1.items),
               /\ list' = [g \in Repeated |-> IF g = f THEN <<>> ELSE list[g]]
               /\ map' = [g \in Maps |-> IF g = f THEN <<>> ELSE map[g]]
               /\ UNCHANGED single)

NextElement ==
  LET f == Job1.field
      e == Job1.items[1]
      done == IF f \in Maps THEN SetItem(f, map[f], e.key, e.value)
              ELSE AppendTo(f, list[f], e.value)
  IN /\ Busy
     /\ Job1.type = "element"
     /\ f \in Maps => ~ByStep(e.key, e.value)
     /\ NextOr(done.ok, <<>>,
               /\ list' = [g \in Repeated |-> IF g = f THEN done.to ELSE list[g]]
               /\ map' = [g \in Maps |-> IF g = f THEN done.to ELSE map[g]]
               /\ UNCHANGED single)

Return ==
  /\ ~Idle
  /\ todo = <<>>
  /\ EndedBy(TRUE)
  /\ UNCHANGED <<message, call>>

-----------------------------------------------------------------------------
(* An item of a map whose key or value is Calling.  FindMapPair compares   *)
(* one entry after the other, adds one, and converts the key; SetPython    *)
(* converts the value.  In between, Python code may change the message.    *)

ByStepNow == Busy /\ LookUp /\ ByStep(Item1.key, Item1.value)

Map1 == map[Job1.field]

ChangeMap1(m) ==
  /\ map' = [map EXCEPT ![Job1.field] = m]
  /\ UNCHANGED <<single, list>>

Goes(stage, at) ==
  /\ pair' = [stage |-> stage, at |-> at]
  /\ UNCHANGED <<todo, outcome>>

(* The key is of a built-in type: all of FindMapPair at once.              *)
FindPair ==
  LET f == Job1.field
      found == FindMapPair(f, Map1, Item1.key)
  IN /\ ByStepNow
     /\ pair.stage = "search"
     /\ Item1.key \notin Calling
     /\ IF found.ok THEN Goes("value", PairOf(f, Map1, Item1.key)) /\ ChangeMap1(found.to)
        ELSE AbandonedBy(ChangeMap1(found.to))

(* The entry is read; then == runs, and has this result.                   *)
SearchPair ==
  /\ ByStepNow
  /\ pair.stage = "search"
  /\ Item1.key \in Calling
  /\ pair.at < Len(Map1)
  /\ LET x == Map1[pair.at + 1].key
     IN Goes(IF Equal(KeyPython[Job1.field][x], Item1.key) THEN "found" ELSE "search",
             pair.at + 1)
  /\ UNCHANGED message

AddPair ==
  /\ ByStepNow
  /\ pair.stage = "search"
  /\ Item1.key \in Calling
  /\ pair.at >= Len(Map1)
  /\ ChangeMap1(Append(Map1, [key |-> Default, value |-> Default]))
  /\ Goes("key", Len(Map1) + 1)

(* A pointer to an entry that is gone is followed all the same: the field  *)
(* does not show what is written there.                                    *)
SetKey ==
  LET x == KeyCast[Job1.field][Item1.key]
  IN /\ ByStepNow /\ pair.stage = "key"
     /\ IF x = Refused THEN AbandonedBy(UNCHANGED message)
        ELSE /\ Goes("value", pair.at)
             /\ IF pair.at = 0 THEN UNCHANGED message
                ELSE ChangeMap1([Map1 EXCEPT ![pair.at].key = x])

SetValue ==
  LET x == Cast(Job1.field, Item1.value)
  IN /\ ByStepNow /\ HasPair
     /\ Job1.type = "element"
     /\ IF x = Refused THEN AbandonedBy(UNCHANGED message)
        ELSE /\ Continue(<<>>)
             /\ IF pair.at = 0 THEN UNCHANGED message
                ELSE ChangeMap1([Map1 EXCEPT ![pair.at].value = x])

GetValue ==
  /\ ByStepNow /\ HasPair
  /\ Job1.type = "lookup"
  /\ Continue(<<>>)
  /\ UNCHANGED message

(* CastOrTypeError catches cast_error only.                                *)
PythonRaises == Calls /\ AbandonedBy(UNCHANGED message)

-----------------------------------------------------------------------------
ListNext(f) ==
  \/ \E v \in PyValues : ListAppend(f, v)
  \/ \E i \in Indices, v \in PyValues \ Calling : ListInsert(f, i, v)
  \/ \E i \in Indices : ListDelItem(f, i)
  \/ \E i \in Indices, v \in PyValues \ Calling : ListSetItem(f, i, v)
  \/ \E a \in Arguments : ListSetSlice(f, a)
  \/ ListDelSlice(f)
  \/ ListAdd(f)
  \/ ListClear(f)

MapNext(f) ==
  \/ \E k \in PyValues : MapGetItem(f, k)
  \/ \E k \in PyValues, v \in PyValues : MapSetItem(f, k, v)
  \/ MapClear(f)

Step == UnknownField \/ InitSingular \/ InitContainer \/ NextElement \/ Return

PairStep ==
  \/ FindPair \/ SearchPair \/ AddPair \/ SetKey \/ SetValue \/ GetValue
  \/ PythonRaises

Next ==
  \/ \E f \in Repeated : ListNext(f)
  \/ \E f \in Maps : MapNext(f)
  \/ \E f \in Repeated \cup Maps, a \in Arguments : Extend(f, a)
  \/ \E f \in Fields, v \in PyValues : ProtoSetField(f, v)
  \/ \E d \in Donors : ProtoCopyFrom(d) \/ PyProtoAllocateAndCopyMessage(d)
  \/ \E kwargs \in Keywords : ProtoInitFields(kwargs)
  \/ \E d \in Donors, kwargs \in Keywords : PyProtoAllocateMessage(d, kwargs)
  \/ Read
  \/ Step
  \/ PairStep

Spec == Init /\ [][Next]_vars

-----------------------------------------------------------------------------
(* Insert, by an append and swaps, and Delete, by swaps and RemoveLast, do *)
(* what Python's list does, for every index (proto_utils.cc 188-194,       *)
(* 445-460).                                                               *)
ListInsertAt(s, i, x) ==
  LET at == Cardinality({j \in 0 .. Len(s) - 1 : j < IF i < 0 THEN i + Len(s) ELSE i})
  IN SubSeq(s, 1, at) \o <<x>> \o SubSeq(s, at + 1, Len(s))

ElementsLikeList ==
  \A f \in Repeated, i \in Indices :
    LET s == list[f]
        at == IF i < 0 THEN Len(s) + i ELSE i
        deleted == DeleteFrom(s, i)
    IN /\ \A v \in PyValues :
            InsertInto(f, s, i, v).ok =>
              InsertInto(f, s, i, v).to = ListInsertAt(s, i, NewElement(f, v))
       /\ IF at \in 0 .. Len(s) - 1
          THEN deleted = Done(SubSeq(s, 1, at) \o SubSeq(s, at + 2, Len(s)))
          ELSE deleted = Throw(s)

(* Deleting a slice of consecutive elements removes these and no others,   *)
(* and any other slice that goes through as many as it has, though the     *)
(* indices are those of a field that shrinks; assigning to a slice, which  *)
(* reads it back, leaves the rest (464-496).                               *)
SlicesLikeList ==
  \A f \in Repeated : \A slice \in Slices(Len(list[f])) :
    LET s == list[f]
        n == Len(s)
        deleted == DelSlice(s, slice)
    IN /\ slice.step = 1 =>
            deleted = Done(SubSeq(s, 1, slice.start)
                           \o SubSeq(s, slice.start + slice.length + 1, n))
       /\ deleted.ok => Len(deleted.to) = n - slice.length
       /\ \A a \in {b \in Arguments : b.type = "sequence"} :
            LET set == SetSlice(f, s, slice, a.items)
            IN set.ok =>
                 /\ GetSlice(set.to, slice)
                      = [i \in 1 .. slice.length |-> Cast(f, a.items[i].value)]
                 /\ \A i \in 1 .. n :
                      set.to[i] = s[i] \/ \E j \in 0 .. slice.length - 1 :
                                            i = slice.start + j * slice.step + 1

(* A call on one element that throws changes nothing.  A slice keeps the   *)
(* length, and only the elements before the bad one are set.  A map may    *)
(* get one entry more, which holds no value; its entries are as they were. *)
FailuresKeepElements ==
  /\ \A f \in Repeated, i \in Indices, v \in PyValues :
       \A done \in {AppendTo(f, list[f], v), InsertInto(f, list[f], i, v),
                    SetElement(f, list[f], i, v)} :
         ~done.ok => done.to = list[f]
  /\ \A f \in Repeated, a \in {b \in Arguments : b.type = "sequence"} :
     \A slice \in Slices(Len(list[f])) :
       LET set == SetSlice(f, list[f], slice, a.items)
           bad == {i \in 1 .. slice.length :
                     i > Len(a.items) \/ Cast(f, a.items[i].value) = Refused}
       IN /\ set.ok <=> bad = {}
          /\ \A i \in 1 .. slice.length : (\E b \in bad : b <= i) =>
               GetSlice(set.to, slice)[i] = GetSlice(list[f], slice)[i]
  /\ \A f \in Maps, k, v \in PyValues \ Calling :
       LET set == SetItem(f, map[f], k, v)
       IN ~set.ok => \/ set.to = map[f]
                     \/ \E x \in Contents :
                          set.to = Append(map[f], [key |-> x, value |-> Default])

(* A key of one Python form, of a built-in type: what converts to it is    *)
(* equal to it.  For a string key, b"a" converts to "a" and is not equal.  *)
OneForm(f, x) ==
  \A k \in PyValues : KeyCast[f][k] = x => k \notin Calling /\ Equal(KeyPython[f][x], k)

(* A map has one entry for a key, whatever Python code does while an item  *)
(* is looked up; but for keys of several forms, keys that code converts to *)
(* (it may add the key before it returns it), and the default key:         *)
(* FindMapPair leaves one more such entry behind with every key it cannot  *)
(* convert (515-539).                                                      *)
KeysDistinct ==
  \A f \in Maps : \A i, j \in DOMAIN map[f] :
    /\ map[f][i].key = map[f][j].key
    /\ map[f][i].key # Default
    /\ OneForm(f, map[f][i].key)
    => i = j

(* What has been set is found: by any key that is equal to the one it was  *)
(* set with, even among entries that failed calls have left (575-580).     *)
SetThenFound ==
  \A f \in Maps, k, v \in PyValues \ Calling :
    LET set == SetItem(f, map[f], k, v)
    IN set.ok /\ (KeyCast[f][k] # Refused => OneForm(f, KeyCast[f][k])) =>
         /\ Pairs(f, set.to, k) # {}
         /\ set.to[FirstPair(f, set.to, k)].value = Cast(f, v)

(* Whatever the Python code of a key or a value does, which may clear, fill *)
(* and copy over the map, the value goes to an entry that has the key it   *)
(* was looked up by, or to one that is gone; never to the entry of another *)
(* key that has taken its place (528-538, 653-657).                        *)
ValueGoesToItsKey ==
  Busy /\ HasPair /\ pair.at # 0 =>
    /\ pair.at \in DOMAIN Map1
    /\ LET x == Map1[pair.at].key
       IN Equal(KeyPython[Job1.field][x], Item1.key) \/ x = KeyCast[Job1.field][Item1.key]
=============================================================================
