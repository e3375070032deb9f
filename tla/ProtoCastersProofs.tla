------------------------- MODULE ProtoCastersProofs -------------------------
(***************************************************************************)
(* Proofs about ProtoCasters, for every set of functions, overloads,       *)
(* arguments and objects.                                                  *)
(***************************************************************************)
EXTENDS ProtoCasters, TLAPS

Accepting(k, conversions) == Accepts(binding.overloads[k], arg, conversions)

USE DEF Accepting

Trying == {"overload", "load", "convert", "body"}

Running ==
  /\ pc # "idle" => overload \in DOMAIN binding.overloads /\ arg \in Args
  /\ pc \in {"load", "convert"} => Param.kind \notin {"enum", "object"}
  /\ pc \in {"load", "convert"} => IsList(Param) = arg.list
  /\ outcome = "incompatible" => pc = "idle" /\ arg \in Args

(* Only a cast in progress has a result, and that dies with it; an object  *)
(* of the library is not a raw pointer that was handed over.               *)
Owners ==
  /\ pc \in {"idle", "overload"} => \A o \in Objects : owner[o] # "caster"
  /\ pc # "cast" => \A o \in Objects : owner[o] \notin {"result", "raw"}
  /\ pc = "cast" => \A o \in Objects : owner[o] \in {"result", "raw"} =>
                                         result # Null /\ o \in DiesWithResult
  /\ pc = "cast" /\ TakesOwnership /\ result # Null /\ ~GivesAwayReference =>
       owner[result] = "raw"

(* What the caster has loaded: the first items of the argument.            *)
Loading ==
  /\ pc \in {"idle", "overload"} => values = <<>>
  /\ pc \in {"load", "convert", "body"} /\ Param.kind \notin {"enum", "object"} =>
       /\ Len(values) <= Len(arg.items)
       /\ pc # "load" => Len(values) = Len(arg.items)
       /\ \A i \in 1 .. Len(values) :
            IF arg.items[i].none
            THEN values[i] = Null /\ (pc = "body" => Param.kind \in MayBeNull)
            ELSE /\ values[i] \in Objects
                 /\ content[values[i]] = arg.items[i]
                 /\ AcceptsItem(Param, arg.items[i])
       /\ \A o \in Objects : owner[o] = "caster" <=> \E i \in 1 .. Len(values) : values[i] = o

(* The overloads that have been tried do not accept the argument.          *)
Tried ==
  /\ pc \in Trying =>
       /\ \A k \in 1 .. overload - 1 : ~Accepting(k, convert)
       /\ convert /\ Overloaded => \A k \in DOMAIN binding.overloads : ~Accepting(k, FALSE)
  /\ pc = "body" => Accepting(overload, convert)
  /\ outcome = "incompatible" => \A k \in DOMAIN binding.overloads : ~Accepting(k, TRUE)

(* The error that a load has left is that of an item of the argument.      *)
Raises ==
  \E i \in DOMAIN arg.items : ~arg.items[i].none /\ arg.items[i].serialize = "raises"

Leftover == pc \in Trying /\ error => Raises

IInv == TypeOK /\ Running /\ Owners /\ Loading /\ Tried /\ Leftover

-----------------------------------------------------------------------------
LEMMA Overloads ==
  ASSUME TypeOK
  PROVE  /\ Len(binding.overloads) \in Nat \ {0}
         /\ DOMAIN binding.overloads = 1 .. Len(binding.overloads)
         /\ \A k \in 1 .. Len(binding.overloads) :
              /\ binding.overloads[k].kind \in Kinds \ {"vector"}
              /\ binding.overloads[k].kind \notin {"enum", "object"} =>
                   binding.overloads[k].type # Null
<1>1. binding.overloads \in Seq(Range(binding.overloads)) /\ binding.overloads # <<>>
  BY CasterAssumption DEF TypeOK
<1>2. DOMAIN binding.overloads = 1 .. Len(binding.overloads)
  BY <1>1
<1>3. Len(binding.overloads) \in Nat \ {0}
  BY <1>1
<1>4. \A k \in DOMAIN binding.overloads : binding.overloads[k] \in Range(binding.overloads)
  BY DEF Range
<1> QED
  BY <1>2, <1>3, <1>4, CasterAssumption DEF TypeOK

LEMMA Items ==
  ASSUME NEW a \in Args
  PROVE  /\ Len(a.items) \in Nat
         /\ DOMAIN a.items = 1 .. Len(a.items)
         /\ Range(a.items) = {a.items[i] : i \in 1 .. Len(a.items)}
         /\ ~a.list => Len(a.items) = 1
<1>1. a.items \in Seq(Range(a.items)) /\ (~a.list => Len(a.items) = 1)
  BY CasterAssumption
<1> QED
  BY <1>1 DEF Range

(* What the last overload has left, and what is left of a call.            *)
LEMMA EndInv ==
  ASSUME IInv, NEW objects \in SUBSET Objects, NEW how \in {"returned", "incompatible", "raised"},
         DeleteWith(objects), End(how), error' \in BOOLEAN,
         \A o \in Objects : owner[o] \in {"result", "raw"} => o \in objects,
         how = "incompatible" => /\ arg \in Args
                                 /\ \A k \in DOMAIN binding.overloads : ~Accepting(k, TRUE)
  PROVE  IInv'
<1>1. TypeOK'
  <2>1. /\ binding' \in Bindings /\ DOMAIN content' = Objects /\ arg' \in Args \cup {Null}
        /\ result' \in Objects \cup {Null} /\ convert' \in BOOLEAN
    BY DEF IInv, TypeOK, End
  <2>4. pc' \in Label /\ outcome' \in Outcome
    BY DEF End, Label, Outcome
  <2>5. values' \in Seq(Objects \cup {Null})
    BY DEF End
  <2>2. overload' \in 0 .. Len(binding'.overloads)
    BY Overloads DEF IInv, End
  <2>3. owner' \in [Objects -> Owner]
    BY DEF IInv, TypeOK, DeleteWith, Owner
  <2> QED
    BY <2>1, <2>2, <2>3, <2>4, <2>5 DEF TypeOK
<1>2. Running'
  BY DEF End, Running
<1>3. Owners'
  BY DEF End, DeleteWith, Owners, IInv, TypeOK, Owner
<1>4. Loading' /\ Leftover'
  BY DEF End, Loading, Leftover, Trying
<1>5. Tried'
  BY DEF End, Tried, Trying
<1> QED
  BY <1>1, <1>2, <1>3, <1>4, <1>5 DEF IInv

LEMMA RaiseInv ==
  ASSUME IInv, pc # "cast", Raise PROVE IInv'
BY EndInv DEF Raise, IInv, Owners

(* An overload that does not accept the argument is left for another one.  *)
LEMMA RejectInv ==
  ASSUME IInv, pc \in {"overload", "load", "convert"}, ~Accepting(overload, convert),
         NEW e \in BOOLEAN, e => Raises, Reject(e)
  PROVE  IInv'
<1> DEFINE n == Len(binding.overloads)
<1>1. /\ n \in Nat \ {0} /\ DOMAIN binding.overloads = 1 .. n
      /\ overload \in 1 .. n /\ arg \in Args
  BY Overloads DEF IInv, Running
<1>4. \A k \in 1 .. overload : ~Accepting(k, convert)
  <2>1. \A k \in 1 .. overload - 1 : ~Accepting(k, convert)
    BY DEF IInv, Tried, Trying
  <2>2. \A k \in 1 .. overload : k = overload \/ k \in 1 .. overload - 1
    BY <1>1
  <2> QED
    BY <2>1, <2>2, Zenon
<1>2. CASE NextOverload /\ error' = e
  <2>1. TypeOK'
    <3>1. overload' \in 0 .. n /\ binding' = binding
      BY <1>1, <1>2 DEF NextOverload, LastOverload
    <3>2. owner' \in [Objects -> Owner]
      BY <1>2 DEF IInv, TypeOK, NextOverload, DeleteWith, Owner
    <3>3. values' \in Seq(Objects \cup {Null}) /\ pc' \in Label
      BY <1>2 DEF NextOverload, Label
    <3> QED
      BY <1>2, <3>1, <3>2, <3>3 DEF IInv, TypeOK, NextOverload
  <2>2. Running'
    BY <1>1, <1>2 DEF IInv, Running, NextOverload, LastOverload
  <2>3. Owners'
    BY <1>2 DEF IInv, TypeOK, Owner, Owners, NextOverload, DeleteWith
  <2>4. Loading'
    BY <1>2 DEF Loading, NextOverload
  <2>5. Tried'
    <3>1. CASE ~LastOverload /\ overload' = overload + 1 /\ UNCHANGED convert
      <4>1. overload' - 1 = overload
        BY <1>1, <3>1
      <4>2. \A k \in 1 .. overload' - 1 : ~Accepting(k, convert)'
        BY <1>2, <1>4, <3>1, <4>1 DEF NextOverload
      <4>3. convert' /\ Overloaded' =>
              \A k \in DOMAIN binding'.overloads : ~Accepting(k, FALSE)'
        BY <1>2, <3>1 DEF IInv, Tried, Trying, NextOverload, Overloaded
      <4> QED
        BY <1>2, <4>2, <4>3 DEF IInv, Tried, NextOverload
    <3>2. CASE LastOverload /\ ~convert /\ overload' = 1 /\ convert' = TRUE
      <4>1. \A k \in DOMAIN binding'.overloads : ~Accepting(k, FALSE)'
        BY <1>1, <1>2, <1>4, <3>2 DEF LastOverload, NextOverload, IInv, TypeOK
      <4>2. \A k \in 1 .. overload' - 1 : ~Accepting(k, convert)'
        BY <3>2
      <4> QED
        BY <1>2, <4>1, <4>2 DEF IInv, Tried, NextOverload
    <3> QED
      BY <1>2, <3>1, <3>2 DEF NextOverload
  <2>6. Leftover'
    BY <1>2 DEF Leftover, Raises, NextOverload
  <2> QED
    BY <2>1, <2>2, <2>3, <2>4, <2>5, <2>6 DEF IInv
<1>3. CASE Incompatible /\ error' = TRUE
  <2>1. \A k \in DOMAIN binding.overloads : ~Accepting(k, TRUE)
    <3>1. convert = TRUE /\ overload = n
      BY <1>3 DEF Incompatible, LastOverload, IInv, TypeOK
    <3> QED
      BY <1>1, <1>4, <3>1
  <2> QED
    BY <1>1, <1>3, <2>1, EndInv DEF Incompatible, IInv, Owners
<1> QED
  BY <1>2, <1>3 DEF Reject

-----------------------------------------------------------------------------
LEMMA InitInv == Init => IInv
<1> SUFFICES ASSUME Init PROVE IInv
  OBVIOUS
<1>1. TypeOK
  <2>1. /\ binding \in Bindings /\ DOMAIN content = Objects /\ arg \in Args \cup {Null}
        /\ result \in Objects \cup {Null} /\ convert \in BOOLEAN /\ error \in BOOLEAN
        /\ owner \in [Objects -> Owner]
    BY DEF Init, Owner
  <2>2. pc \in Label /\ outcome \in Outcome
    BY DEF Init, Label, Outcome
  <2>3. values \in Seq(Objects \cup {Null})
    BY DEF Init
  <2>4. binding.overloads \in Seq(Range(binding.overloads))
    BY <2>1, CasterAssumption
  <2>5. Len(binding.overloads) \in Nat
    BY <2>4
  <2>6. overload \in 0 .. Len(binding.overloads)
    BY <2>5 DEF Init
  <2> QED
    BY <2>1, <2>2, <2>3, <2>6 DEF TypeOK
<1>2. Running /\ Owners
  BY DEF Init, Running, Owners
<1>3. Loading
  BY DEF Init, Loading
<1>4. Tried /\ Leftover
  <2>1. pc \notin Trying /\ pc # "body" /\ outcome # "incompatible"
    BY DEF Init, Trying
  <2> QED
    BY <2>1 DEF Tried, Leftover
<1> QED
  BY <1>1, <1>2, <1>3, <1>4 DEF IInv

LEMMA CallInv == ASSUME IInv, NEW a \in Args, Call(a) PROVE IInv'
<1> USE DEF Call
<1>1. 1 \in DOMAIN binding.overloads /\ 1 \in 0 .. Len(binding.overloads)
  BY Overloads DEF IInv
<1>2. TypeOK'
  <2>1. pc' \in Label /\ outcome' \in Outcome /\ convert' \in BOOLEAN
    BY DEF Label, Outcome, Overloaded
  <2> QED
    BY <1>1, <2>1 DEF IInv, TypeOK, heap
<1>3. Running' /\ Owners' /\ Loading' /\ Leftover'
  BY <1>1 DEF IInv, Running, Owners, Loading, Leftover, heap
<1>4. Tried'
  <2>1. ~(convert' /\ Overloaded')
    BY DEF Overloaded
  <2>2. outcome' # "incompatible" /\ pc' # "body" /\ 1 .. overload' - 1 = {}
    OBVIOUS
  <2> QED
    BY <2>1, <2>2 DEF Tried
<1> QED
  BY <1>2, <1>3, <1>4 DEF IInv

(* A step of an overload that goes on: the arguments stay.                 *)
GoesOn ==
  /\ pc \in Trying /\ pc' \in Trying
  /\ UNCHANGED <<binding, arg, overload, convert, result, error, outcome>>

LEMMA GoesOnInv ==
  ASSUME IInv, GoesOn,
         pc' = "body" => Accepting(overload, convert),
         pc' \in {"load", "convert"} =>
           Param.kind \notin {"enum", "object"} /\ IsList(Param) = arg.list,
         owner' \in [Objects -> Owner], DOMAIN content' = Objects,
         values' \in Seq(Objects \cup {Null})
  PROVE  TypeOK' /\ Running' /\ Tried' /\ Leftover'
<1>1. TypeOK'
  BY DEF IInv, TypeOK, GoesOn, Label, Trying
<1>2. Running'
  <2>1. pc' # "idle" /\ pc # "idle" /\ outcome # "incompatible"
    BY DEF GoesOn, Trying, IInv, Running
  <2> QED
    BY <2>1 DEF IInv, Running, GoesOn, Param
<1>3. Tried'
  BY DEF IInv, Tried, GoesOn, Overloaded
<1>4. Leftover'
  BY DEF IInv, Leftover, GoesOn, Raises
<1> QED
  BY <1>1, <1>2, <1>3, <1>4

LEMMA LoadEnumInv == ASSUME IInv, LoadEnum PROVE IInv'
<1>1. Accepting(overload, convert) <=> IsEnumValue(Number, convert)
  BY DEF LoadEnum, Accepts, Param, Number, IsEnumValue
<1>2. CASE /\ IsEnumValue(Number, convert) /\ pc' = "body"
           /\ UNCHANGED <<binding, heap, arg, overload, convert, values, result, error,
                          outcome>>
  <2>1. TypeOK' /\ Running' /\ Tried' /\ Leftover'
    BY <1>1, <1>2, GoesOnInv DEF LoadEnum, GoesOn, Trying, IInv, TypeOK, heap
  <2>2. Owners' /\ Loading'
    BY <1>2 DEF LoadEnum, IInv, Owners, Loading, Param, heap
  <2> QED
    BY <2>1, <2>2 DEF IInv
<1>3. CASE ~IsEnumValue(Number, convert) /\ Reject(error /\ ~convert)
  <2>1. (error /\ ~convert) \in BOOLEAN /\ (error /\ ~convert => Raises)
    BY DEF LoadEnum, IInv, Leftover, Trying
  <2> QED
    BY <1>1, <1>3, <2>1, RejectInv DEF LoadEnum
<1> QED
  BY <1>2, <1>3 DEF LoadEnum

LEMMA StartLoadInv == ASSUME IInv, StartLoad PROVE IInv'
<1>1. CASE /\ Param.kind = "object" \/ IsList(Param) = arg.list
           /\ pc' = IF Param.kind = "object" THEN "body" ELSE "load"
           /\ UNCHANGED <<binding, heap, arg, overload, convert, values, result, error,
                          outcome>>
  <2>1. Param.kind = "object" => Accepting(overload, convert)
    BY DEF Accepts, Param
  <2>2. GoesOn /\ owner' \in [Objects -> Owner] /\ DOMAIN content' = Objects
        /\ values' \in Seq(Objects \cup {Null})
    BY <1>1 DEF GoesOn, StartLoad, Trying, IInv, TypeOK, heap
  <2>3. TypeOK' /\ Running' /\ Tried' /\ Leftover'
    BY <1>1, <2>1, <2>2, GoesOnInv DEF StartLoad
  <2>4. Owners'
    BY <1>1 DEF StartLoad, IInv, Owners, heap
  <2>5. arg \in Args /\ values = <<>>
    BY DEF StartLoad, IInv, Running, Loading
  <2>6. Loading'
    <3>1. Len(arg.items) \in Nat
      BY <2>5, Items
    <3> QED
      BY <1>1, <2>5, <3>1 DEF StartLoad, IInv, Loading, Owners, Param, heap
  <2> QED
    BY <2>3, <2>4, <2>6 DEF IInv
<1>2. CASE /\ Param.kind # "object" /\ IsList(Param) # arg.list
           /\ Reject(IF arg.list THEN FALSE ELSE error)
  <2>1. ~Accepting(overload, convert)
    BY <1>2 DEF StartLoad, Accepts, Param
  <2>2. (IF arg.list THEN FALSE ELSE error) \in BOOLEAN
        /\ ((IF arg.list THEN FALSE ELSE error) => Raises)
    BY DEF StartLoad, IInv, TypeOK, Leftover, Trying
  <2> QED
    BY <1>2, <2>1, <2>2, RejectInv DEF StartLoad
<1> QED
  BY <1>1, <1>2 DEF StartLoad

(* The item to be loaded next, and what an overload does not accept.       *)
LEMMA NextItem ==
  ASSUME IInv, MoreToLoad
  PROVE  /\ Len(values) \in Nat
         /\ Len(values) + 1 \in 1 .. Len(arg.items)
         /\ Item = arg.items[Len(values) + 1]
         /\ Item \in Range(arg.items)
         /\ pc = "load" /\ overload \in DOMAIN binding.overloads /\ arg \in Args
         /\ Param.kind \notin {"enum", "object"}
         /\ Param.kind \in Kinds \ {"vector"}
         /\ Param.type # Null
         /\ ~Item.none /\ Item.serialize = "raises" => Raises
         /\ ~AcceptsItem(Param, Item) => ~Accepting(overload, convert)
<1>1. pc = "load" /\ overload \in DOMAIN binding.overloads /\ arg \in Args
      /\ Param.kind \notin {"enum", "object"}
  BY DEF MoreToLoad, IInv, Running
<1>2. Len(values) \in Nat /\ Len(arg.items) \in Nat
  BY <1>1, Items DEF IInv, TypeOK
<1>3. Len(values) + 1 \in 1 .. Len(arg.items)
  BY <1>2 DEF MoreToLoad
<1>4. Item \in Range(arg.items) /\ Len(values) + 1 \in DOMAIN arg.items
  BY <1>1, <1>3, Items DEF Item
<1>5. Param.kind \in Kinds \ {"vector"} /\ Param.type # Null
  BY <1>1, Overloads DEF IInv, Param
<1>6. ~AcceptsItem(Param, Item) => ~Accepting(overload, convert)
  BY <1>1, <1>4 DEF Accepts, Param
<1> QED
  BY <1>1, <1>2, <1>3, <1>4, <1>5, <1>6 DEF Item, Raises

LEMMA RaisesRejects ==
  ASSUME IInv, arg \in Args, Param.kind \notin {"enum", "object"}, Raises
  PROVE  ~Accepting(overload, convert)
<1>1. PICK i \in DOMAIN arg.items : ~arg.items[i].none /\ arg.items[i].serialize = "raises"
  BY DEF Raises
<1>2. arg.items[i] \in Range(arg.items) /\ ~AcceptsItem(Param, arg.items[i])
  BY <1>1 DEF Range, AcceptsItem
<1> QED
  BY <1>2 DEF Accepts, Param

LEMMA LoadRejects ==
  ASSUME IInv, LoadWrongType \/ LoadNotSerialized \/ LoadNotAllocated \/ LoadMalformed
  PROVE  IInv'
<1>1. MoreToLoad /\ ~Item.none
  BY DEF LoadWrongType, LoadNotSerialized, LoadNotAllocated, LoadMalformed, Allocated,
         Serialized, IsMessage
<1>2. pc = "load" /\ error \in BOOLEAN /\ (error => Raises)
  BY <1>1, NextItem DEF IInv, TypeOK, Leftover, Trying
<1>3. Raise => IInv'
  BY <1>2, RaiseInv
<1>4. ASSUME NEW e \in BOOLEAN, e => Raises, ~AcceptsItem(Param, Item), Reject(e)
      PROVE  IInv'
  BY <1>1, <1>2, <1>4, NextItem, RejectInv
<1>5. CASE LoadWrongType
  <2>1. ~AcceptsItem(Param, Item)
    BY <1>1, <1>5 DEF LoadWrongType, NameMatches, AcceptsItem
  <2> QED
    BY <1>2, <1>4, <1>5, <2>1 DEF LoadWrongType
<1>6. CASE LoadNotSerialized
  <2>1. CASE SerializeFails /\ IF convert THEN Raise ELSE Reject(TRUE)
    <3>1. Item.serialize = "raises" \/ error
      BY <2>1 DEF SerializeFails
    <3>2. Raises
      BY <1>1, <1>2, <3>1, NextItem
    <3>3. ~Accepting(overload, convert)
      BY <1>1, <3>2, NextItem, RaisesRejects
    <3> QED
      BY <1>2, <1>3, <2>1, <3>2, <3>3, RejectInv
  <2>2. CASE ~SerializeFails /\ Item.serialize = "not_bytes"
             /\ IF convert THEN Raise ELSE Reject(FALSE)
    BY <1>1, <1>3, <1>4, <2>2 DEF AcceptsItem
  <2>3. CASE Item.serialize = "missing" /\ Reject(FALSE)
    BY <1>1, <1>4, <2>3 DEF AcceptsItem
  <2> QED
    BY <1>6, <2>1, <2>2, <2>3 DEF LoadNotSerialized
<1>7. CASE LoadNotAllocated
  BY <1>3, <1>7 DEF LoadNotAllocated
<1>8. CASE LoadMalformed
  <2>1. ~AcceptsItem(Param, Item)
    BY <1>1, <1>8 DEF LoadMalformed, AcceptsItem
  <2> QED
    BY <1>2, <1>4, <1>8, <2>1 DEF LoadMalformed
<1> QED
  BY <1>5, <1>6, <1>7, <1>8

(* The first items with one more.                                          *)
LEMMA Appended ==
  ASSUME IInv, NEW x \in Objects \cup {Null}, values' = Append(values, x)
  PROVE  /\ values' \in Seq(Objects \cup {Null})
         /\ Len(values') = Len(values) + 1
         /\ \A i \in 1 .. Len(values) : values'[i] = values[i]
         /\ values'[Len(values) + 1] = x
         /\ \A i \in 1 .. Len(values') : i = Len(values) + 1 \/ i \in 1 .. Len(values)
         /\ 1 .. Len(values) \subseteq 1 .. Len(values')
         /\ Len(values) + 1 \in 1 .. Len(values')
<1>1. values \in Seq(Objects \cup {Null})
  BY DEF IInv, TypeOK
<1>2. /\ values' \in Seq(Objects \cup {Null}) /\ Len(values') = Len(values) + 1
      /\ \A i \in 1 .. Len(values) : values'[i] = values[i]
      /\ values'[Len(values) + 1] = x
  BY <1>1
<1>3. Len(values) \in Nat
  BY <1>1
<1> QED
  BY <1>2, <1>3

LEMMA LoadNoneInv == ASSUME IInv, LoadNone PROVE IInv'
<1>1. values' = Append(values, Null) /\ MoreToLoad /\ Item.none
      /\ UNCHANGED <<binding, heap, pc, arg, overload, convert, result, error, outcome>>
  BY DEF LoadNone
<1>2. TypeOK' /\ Running' /\ Tried' /\ Leftover'
  <2>1. GoesOn /\ owner' \in [Objects -> Owner] /\ DOMAIN content' = Objects
    BY <1>1, NextItem DEF GoesOn, Trying, heap, IInv, TypeOK
  <2> QED
    BY <1>1, <2>1, NextItem, Appended, GoesOnInv DEF IInv, Running
<1>3. Owners'
  BY <1>1 DEF IInv, Owners, heap, DiesWithResult, TakesOwnership, GivesAwayReference
<1>4. Loading'
  <2>1. Len(values') <= Len(arg.items) /\ pc' = "load" /\ pc = "load"
    BY <1>1, NextItem, Appended DEF IInv
  <2>2. \A i \in 1 .. Len(values') :
          IF arg.items[i].none THEN values'[i] = Null
          ELSE /\ values'[i] \in Objects
               /\ content[values'[i]] = arg.items[i]
               /\ AcceptsItem(Param, arg.items[i])
    <3>1. ASSUME NEW i \in 1 .. Len(values)
          PROVE  IF arg.items[i].none THEN values'[i] = Null
                 ELSE /\ values'[i] \in Objects
                      /\ content[values'[i]] = arg.items[i]
                      /\ AcceptsItem(Param, arg.items[i])
      BY <1>1, NextItem, Appended DEF IInv, Loading
    <3>2. arg.items[Len(values) + 1].none /\ values'[Len(values) + 1] = Null
      BY <1>1, NextItem, Appended
    <3> QED
      BY <1>1, <3>1, <3>2, Appended
  <2>3. \A o \in Objects : owner[o] = "caster" <=> \E i \in 1 .. Len(values') : values'[i] = o
    <3>1. \A o \in Objects : owner[o] = "caster" <=> \E i \in 1 .. Len(values) : values[i] = o
      BY <1>1, NextItem DEF IInv, Loading
    <3>2. \A o \in Objects : o # Null
      BY CasterAssumption
    <3> QED
      BY <1>1, <3>1, <3>2, Appended
  <2> QED
    BY <1>1, <2>1, <2>2, <2>3 DEF Loading, Param, heap
<1> QED
  BY <1>2, <1>3, <1>4 DEF IInv

LEMMA LoadMessageInv == ASSUME IInv, LoadMessage PROVE IInv'
<1>1. PICK o \in Free : /\ owner' = [owner EXCEPT ![o] = "caster"]
                        /\ content' = [content EXCEPT ![o] = Item]
                        /\ values' = Append(values, o)
  BY DEF LoadMessage, ValueOf
<1>2. /\ MoreToLoad /\ ~Item.none
      /\ UNCHANGED <<binding, pc, arg, overload, convert, result, error, outcome>>
  BY DEF LoadMessage, Allocated, Serialized, IsMessage
<1>3. AcceptsItem(Param, Item)
  BY <1>2, NextItem DEF LoadMessage, Allocated, Serialized, IsMessage, NameMatches, AcceptsItem
<1>4. o \in Objects /\ owner[o] = "nobody" /\ o # Null
  BY CasterAssumption DEF Free
<1>5. owner \in [Objects -> Owner] /\ DOMAIN content = Objects
  BY DEF IInv, TypeOK
<1>6. /\ owner' \in [Objects -> Owner] /\ owner'[o] = "caster"
      /\ \A q \in Objects \ {o} : owner'[q] = owner[q]
  BY <1>1, <1>4, <1>5 DEF Owner
<1>7. /\ DOMAIN content' = Objects /\ content'[o] = Item
      /\ \A q \in Objects \ {o} : content'[q] = content[q]
  BY <1>1, <1>4, <1>5
<1>8. TypeOK' /\ Running' /\ Tried' /\ Leftover'
  <2>1. GoesOn
    BY <1>2, NextItem DEF GoesOn, Trying
  <2> QED
    BY <1>1, <1>2, <1>4, <1>6, <1>7, <2>1, NextItem, Appended, GoesOnInv DEF IInv, Running
<1>9. Owners'
  <2>1. pc' = "load" /\ pc = "load"
    BY <1>2, NextItem
  <2> QED
    BY <1>6, <2>1 DEF IInv, Owners
<1>10. Loading'
  <2> DEFINE Good(i) == IF arg.items[i].none THEN values'[i] = Null
                        ELSE /\ values'[i] \in Objects
                             /\ content'[values'[i]] = arg.items[i]
                             /\ AcceptsItem(Param, arg.items[i])
  <2>1. Len(values') <= Len(arg.items) /\ pc' = "load" /\ pc = "load"
    BY <1>1, <1>2, <1>4, NextItem, Appended DEF IInv
  <2>2. \A i \in 1 .. Len(values) : values[i] # o
    BY <1>2, <1>4, NextItem DEF IInv, Loading
  <2>3. \A i \in 1 .. Len(values') : Good(i)
    <3>1. ASSUME NEW i \in 1 .. Len(values) PROVE Good(i)
      BY <1>1, <1>2, <1>4, <1>7, <2>2, NextItem, Appended DEF IInv, Loading
    <3>2. Good(Len(values) + 1)
      BY <1>1, <1>2, <1>3, <1>4, <1>7, NextItem, Appended
    <3> HIDE DEF Good
    <3> QED
      BY <1>1, <1>4, <3>1, <3>2, Appended
  <2>4. \A q \in Objects : owner'[q] = "caster" <=> \E i \in 1 .. Len(values') : values'[i] = q
    <3>1. \A q \in Objects : owner[q] = "caster" <=> \E i \in 1 .. Len(values) : values[i] = q
      BY <1>2, NextItem DEF IInv, Loading
    <3>2. ASSUME NEW q \in Objects \ {o}
          PROVE  (\E i \in 1 .. Len(values') : values'[i] = q)
                   <=> \E i \in 1 .. Len(values) : values[i] = q
      BY <1>1, <1>4, Appended
    <3>3. \E i \in 1 .. Len(values') : values'[i] = o
      BY <1>1, <1>4, Appended
    <3> QED
      BY <1>6, <3>1, <3>2, <3>3
  <2> QED
    BY <1>2, <2>1, <2>3, <2>4 DEF Loading, Param
<1> QED
  BY <1>8, <1>9, <1>10 DEF IInv

LEMMA EndLoadInv == ASSUME IInv, EndLoad PROVE IInv'
<1>1. TypeOK' /\ Running' /\ Tried' /\ Leftover'
  BY GoesOnInv DEF EndLoad, GoesOn, Trying, heap, IInv, TypeOK, Running
<1>2. Owners'
  BY DEF EndLoad, IInv, Owners, heap
<1>3. Loading'
  BY DEF EndLoad, IInv, Loading, heap, Param
<1> QED
  BY <1>1, <1>2, <1>3 DEF IInv

(* At the conversion the whole argument has been loaded.                   *)
LEMMA AllLoaded ==
  ASSUME IInv, pc = "convert"
  PROVE  /\ overload \in DOMAIN binding.overloads /\ arg \in Args
         /\ Param.kind \notin {"enum", "object"} /\ Param.kind \in Kinds \ {"vector"}
         /\ IsList(Param) = arg.list
         /\ Len(arg.items) \in Nat /\ Len(values) = Len(arg.items)
         /\ DOMAIN arg.items = 1 .. Len(arg.items) /\ DOMAIN values = 1 .. Len(values)
         /\ HasNull <=> \E i \in 1 .. Len(arg.items) : arg.items[i].none
<1>1. /\ overload \in DOMAIN binding.overloads /\ arg \in Args
      /\ Param.kind \notin {"enum", "object"} /\ IsList(Param) = arg.list
  BY DEF IInv, Running
<1>2. Param.kind \in Kinds \ {"vector"}
  BY <1>1, Overloads DEF IInv, Param
<1>3. Len(arg.items) \in Nat /\ DOMAIN arg.items = 1 .. Len(arg.items)
  BY <1>1, Items
<1>4. Len(values) = Len(arg.items) /\ DOMAIN values = 1 .. Len(values)
  BY <1>1 DEF IInv, TypeOK, Loading
<1>5. \A i \in 1 .. Len(arg.items) : values[i] = Null <=> arg.items[i].none
  BY <1>1, <1>4, CasterAssumption DEF IInv, Loading
<1>6. HasNull <=> \E i \in 1 .. Len(arg.items) : arg.items[i].none
  BY <1>4, <1>5 DEF HasNull, Range
<1> QED
  BY <1>1, <1>2, <1>3, <1>4, <1>6

LEMMA ReferenceCastErrorInv == ASSUME IInv, ReferenceCastError PROVE IInv'
<1>1. pc = "convert" /\ Param.kind \in Throws /\ HasNull /\ Reject(error)
  BY DEF ReferenceCastError, ThrowsForNull
<1>2. PICK i \in 1 .. Len(arg.items) : arg.items[i].none
  BY <1>1, AllLoaded
<1>3. arg.items[i] \in Range(arg.items) /\ ~AcceptsItem(Param, arg.items[i])
  BY <1>1, <1>2, AllLoaded DEF Range, AcceptsItem, Throws, MayBeNull
<1>4. ~Accepting(overload, convert)
  BY <1>1, <1>3, AllLoaded DEF Accepts, Param
<1>5. error \in BOOLEAN /\ (error => Raises)
  BY <1>1 DEF IInv, TypeOK, Leftover, Trying
<1> QED
  BY <1>1, <1>4, <1>5, RejectInv

LEMMA DereferenceNullInv == ASSUME IInv, DereferenceNull PROVE IInv'
<1>1. pc \in {"convert", "load"} /\ pc' = "undefined"
      /\ UNCHANGED <<binding, heap, arg, overload, convert, values, result, error, outcome>>
  BY DEF DereferenceNull, MoreToLoad
<1>2. TypeOK' /\ Running' /\ Owners'
  BY <1>1 DEF IInv, TypeOK, Running, Owners, heap, Label
<1>3. Loading' /\ Leftover'
  BY <1>1 DEF Loading, Leftover, Trying
<1>4. Tried'
  BY <1>1 DEF IInv, Running, Tried, Trying
<1> QED
  BY <1>2, <1>3, <1>4 DEF IInv

LEMMA ConvertInv == ASSUME IInv, Convert PROVE IInv'
<1>1. /\ pc = "convert" /\ pc' = "body"
      /\ HasNull => Param.kind \notin Throws /\ Param.kind \notin Copies
      /\ UNCHANGED <<binding, heap, arg, overload, convert, values, result, error, outcome>>
  BY DEF Convert, ThrowsForNull
<1>2. HasNull => Param.kind \in MayBeNull
  BY <1>1, AllLoaded DEF Kinds
<1>3. \A i \in 1 .. Len(arg.items) : AcceptsItem(Param, arg.items[i])
  BY <1>1, <1>2, AllLoaded DEF IInv, Loading, AcceptsItem
<1>4. Accepting(overload, convert)
  <2>1. \A x \in Range(arg.items) : AcceptsItem(Param, x)
    BY <1>1, <1>3, AllLoaded DEF Range
  <2> QED
    BY <1>1, <2>1, AllLoaded DEF Accepts, Param
<1>5. TypeOK' /\ Running' /\ Tried' /\ Leftover'
  <2>1. GoesOn /\ owner' \in [Objects -> Owner] /\ DOMAIN content' = Objects
        /\ values' \in Seq(Objects \cup {Null})
    BY <1>1 DEF GoesOn, Trying, heap, IInv, TypeOK
  <2> QED
    BY <1>1, <1>4, <2>1, GoesOnInv
<1>6. Owners'
  BY <1>1 DEF IInv, Owners, heap
<1>7. Loading'
  <2>1. \A i \in 1 .. Len(values) : arg.items[i].none => Param.kind \in MayBeNull
    BY <1>1, <1>2, AllLoaded
  <2> QED
    BY <1>1, <2>1 DEF IInv, Loading, heap, Param
<1> QED
  BY <1>5, <1>6, <1>7 DEF IInv

(* A function gives away what the casters will own; they own nothing else, *)
(* but for a reference that is given away.                                 *)
LEMMA Handed ==
  ASSUME binding \in Bindings
  PROVE  /\ HandsOver => TakesOwnership
         /\ TakesOwnership => HandsOver \/ GivesAwayReference
<1>1. binding.form = binding.returns \/ binding.form = WrapHelper(WrappedForm, binding.returns)
  BY CasterAssumption
<1>2. CASE binding.form = binding.returns
  BY <1>2 DEF HandsOver, TakesOwnership, Pointer
<1>3. CASE binding.form # binding.returns
  <2>1. /\ binding.returns \in {"value", "const_ptr", "const_ref", "vector"}
        /\ binding.form = WrappedForm[binding.returns]
    BY <1>1, <1>3 DEF WrapHelper, WrappedForm
  <2> QED
    BY <2>1 DEF HandsOver, TakesOwnership, GivesAwayReference, Pointer, WrappedForm
<1> QED
  BY <1>2, <1>3

LEMMA BodyInv == ASSUME IInv, Body PROVE IInv'
<1> DEFINE Held(kept) == [o \in Objects |-> IF o \in kept THEN "library" ELSE owner[o]]
<1>1. PICK kept \in SUBSET Objects :
        \/ /\ binding.form \in OwnResult \/ HandsOver
           /\ \E made \in SUBSET Free \ {{}} :
                /\ binding.form = "wrapped_vector" \/ \E o \in Free : made = {o}
                /\ result' \in made
                /\ owner' = [o \in Objects |-> IF o \notin made THEN Held(kept)[o]
                               ELSE IF binding.form \in OwnResult THEN "result" ELSE "raw"]
        \/ /\ ~HandsOver /\ result' \in Objects
           /\ owner' = Held(kept) \/ owner' = [Held(kept) EXCEPT ![result'] = "library"]
        \/ result' = Null /\ owner' = Held(kept)
  <2>1. Loaded \subseteq Objects
    BY DEF Loaded, IInv, TypeOK, Range
  <2>2. Free \subseteq Objects
    BY DEF Free
  <2> QED
    BY <2>1, <2>2 DEF Body
<1>2. /\ pc = "body" /\ pc' = "cast" /\ DOMAIN content' = Objects
      /\ UNCHANGED <<binding, arg, overload, convert, values, error, outcome>>
  BY DEF Body
<1>3. /\ Held(kept) \in [Objects -> Owner]
      /\ \A o \in Objects : Held(kept)[o] \notin {"result", "raw"}
  BY <1>2 DEF IInv, TypeOK, Owners, Owner
<1>4. /\ HandsOver => TakesOwnership
      /\ TakesOwnership => HandsOver \/ GivesAwayReference
  BY Handed DEF IInv, TypeOK
<1>5. TakesOwnership => binding.form \notin OwnResult
  BY DEF TakesOwnership, OwnResult, Pointer
<1> HIDE DEF Held
<1>6. TakesOwnership' <=> TakesOwnership
  BY <1>2 DEF TakesOwnership
<1>61. GivesAwayReference' <=> GivesAwayReference
  BY <1>2 DEF GivesAwayReference
<1>7. ASSUME binding.form \in OwnResult \/ HandsOver,
             NEW made \in SUBSET Free \ {{}},
             binding.form = "wrapped_vector" \/ \E o \in Free : made = {o},
             result' \in made,
             owner' = [o \in Objects |-> IF o \notin made THEN Held(kept)[o]
                             ELSE IF binding.form \in OwnResult THEN "result" ELSE "raw"]
      PROVE  owner' \in [Objects -> Owner] /\ result' \in Objects \cup {Null} /\ Owners'
  <2>1. made \subseteq Objects /\ result' \in Objects /\ result' # Null
    BY <1>7, CasterAssumption DEF Free
  <2>2. owner' \in [Objects -> Owner]
    BY <1>3, <1>7 DEF Owner
  <2>3. \A o \in Objects : owner'[o] \in {"result", "raw"} => o \in made
    BY <1>3, <1>7
  <2>4. \A o \in made : owner'[o] = IF binding.form \in OwnResult THEN "result" ELSE "raw"
    BY <1>7, <2>1
  <2>5. \A o \in made : o \in DiesWithResult'
    <3>1. CASE binding.form \in OwnResult
      BY <2>1, <2>4, <3>1 DEF DiesWithResult
    <3>2. CASE binding.form \notin OwnResult
      <4>1. made = {result'} /\ TakesOwnership'
        BY <1>4, <1>6, <1>7, <3>2 DEF OwnResult
      <4> QED
        BY <2>1, <4>1 DEF DiesWithResult
    <3> QED
      BY <3>1, <3>2
  <2>6. TakesOwnership' => owner'[result'] = "raw"
    BY <1>5, <1>6, <1>7, <2>4
  <2> QED
    BY <1>2, <2>1, <2>2, <2>3, <2>5, <2>6 DEF Owners
<1>8. ASSUME \/ /\ ~HandsOver /\ result' \in Objects
                /\ owner' = Held(kept) \/ owner' = [Held(kept) EXCEPT ![result'] = "library"]
             \/ result' = Null /\ owner' = Held(kept)
      PROVE  owner' \in [Objects -> Owner] /\ result' \in Objects \cup {Null} /\ Owners'
  <2>1. owner' \in [Objects -> Owner] /\ result' \in Objects \cup {Null}
    BY <1>3, <1>8 DEF Owner
  <2>2. \A o \in Objects : owner'[o] \notin {"result", "raw"}
    BY <1>3, <1>8
  <2>3. ~(TakesOwnership' /\ result' # Null /\ ~GivesAwayReference')
    BY <1>4, <1>6, <1>61, <1>8
  <2> QED
    BY <1>2, <2>1, <2>2, <2>3 DEF Owners
<1>9. owner' \in [Objects -> Owner] /\ result' \in Objects \cup {Null} /\ Owners'
  BY <1>1, <1>7, <1>8
<1>10. TypeOK'
  BY <1>2, <1>9 DEF IInv, TypeOK, Label
<1>11. Running' /\ Loading' /\ Leftover'
  BY <1>2 DEF IInv, Running, Loading, Leftover, Trying
<1>12. Tried'
  BY <1>2 DEF IInv, Running, Tried, Trying
<1> QED
  BY <1>9, <1>10, <1>11, <1>12 DEF IInv

LEMMA LibraryDeletesInv ==
  ASSUME IInv, NEW o \in Objects, LibraryDeletes(o) PROVE IInv'
<1>1. /\ pc = "idle" /\ owner' = [owner EXCEPT ![o] = "nobody"]
      /\ UNCHANGED <<binding, content, pc, arg, overload, convert, values, result, error,
                     outcome>>
  BY DEF LibraryDeletes
<1>2. TypeOK'
  BY <1>1 DEF IInv, TypeOK, Owner
<1>3. Running' /\ Loading' /\ Leftover'
  BY <1>1 DEF IInv, Running, Loading, Leftover, Trying
<1>4. Owners'
  BY <1>1 DEF IInv, TypeOK, Owners
<1>5. Tried'
  BY <1>1 DEF IInv, Tried, Trying
<1> QED
  BY <1>2, <1>3, <1>4, <1>5 DEF IInv

LEMMA CastInv == ASSUME IInv, CastNull \/ Cast \/ CastThrows PROVE IInv'
<1>1. CASE CastNull
  <2>1. pc = "cast" /\ result = Null
    BY <1>1 DEF CastNull
  <2>2. \A o \in Objects : owner[o] \notin {"result", "raw"}
    BY <2>1 DEF IInv, Owners
  <2>3. DeleteWith({}) /\ End("returned") /\ error' \in BOOLEAN
    BY <1>1 DEF CastNull, IInv, TypeOK
  <2> QED
    BY <2>2, <2>3, EndInv
<1>2. CASE Cast \/ CastThrows
  <2>1. /\ pc = "cast" /\ DeleteWith(DiesWithResult) /\ error' \in BOOLEAN
        /\ End("returned") \/ End("raised")
    BY <1>2 DEF Cast, CastThrows, DeleteOnThrow
  <2>2. DiesWithResult \in SUBSET Objects
    BY DEF DiesWithResult
  <2>3. \A o \in Objects : owner[o] \in {"result", "raw"} => o \in DiesWithResult
    BY <2>1 DEF IInv, Owners
  <2> QED
    BY <2>1, <2>2, <2>3, EndInv
<1> QED
  BY <1>1, <1>2

LEMMA NextInv == IInv /\ [Next]_vars => IInv'
<1> SUFFICES ASSUME IInv, [Next]_vars PROVE IInv'
  OBVIOUS
<1>1. CASE Load
  BY <1>1, LoadNoneInv, LoadRejects, LoadMessageInv DEF Load
<1>2. CASE BodyThrows
  BY <1>2, RaiseInv DEF BodyThrows
<1>3. CASE UNCHANGED vars
  <2>1. TypeOK' /\ Running'
    BY <1>3 DEF vars, heap, IInv, TypeOK, Running, Param
  <2>2. Owners'
    BY <1>3 DEF vars, heap, IInv, Param, Owners, DiesWithResult, TakesOwnership,
                  GivesAwayReference
  <2>3. Loading' /\ Tried'
    BY <1>3 DEF vars, heap, IInv, Loading, Param, Tried, Overloaded
  <2>4. Leftover'
    BY <1>3 DEF vars, heap, IInv, Param, Leftover, Raises
  <2> QED
    BY <2>1, <2>2, <2>3, <2>4 DEF IInv
<1> QED
  BY <1>1, <1>2, <1>3, CallInv, StartLoadInv, LoadEnumInv, EndLoadInv, ReferenceCastErrorInv,
     DereferenceNullInv, ConvertInv, BodyInv, LibraryDeletesInv, CastInv DEF Next

THEOREM Invariant == Spec => []IInv
BY InitInv, NextInv, PTL DEF Spec

(* Every reachable state of the casters is well-typed: among others, the   *)
(* overload that is tried is one that the function has.                    *)
THEOREM Typing == Spec => []TypeOK
BY Invariant, PTL DEF IInv

(* Whatever overloads a function has, the first that accepts the argument  *)
(* runs, and a call is incompatible only when none does.                   *)
THEOREM TheRightOverload == Spec => []FirstAcceptingOverloadRuns
<1>1. IInv => FirstAcceptingOverloadRuns
  BY DEF IInv, Tried, Trying, FirstAcceptingOverloadRuns
<1> QED
  BY <1>1, Invariant, PTL

(* For a list of any length the function gets a message for each item, in  *)
(* order, and no object of an overload that was dropped is left.           *)
THEOREM TheWholeArgument == Spec => []BodyGetsTheArgument
<1>1. IInv => BodyGetsTheArgument
  <2> SUFFICES ASSUME IInv, pc = "body", Param.kind \notin {"object", "enum"}
               PROVE  BodyGetsTheArgument
    BY DEF BodyGetsTheArgument
  <2>1. /\ Len(values) = Len(arg.items) /\ DOMAIN values = 1 .. Len(values)
        /\ values \in Seq(Objects \cup {Null})
    BY DEF IInv, Loading, TypeOK
  <2>2. \A i \in DOMAIN values :
          IF arg.items[i].none THEN values[i] = Null
          ELSE values[i] # Null /\ content[values[i]] = arg.items[i]
    BY <2>1, CasterAssumption DEF IInv, Loading
  <2>3. {o \in Objects : owner[o] = "caster"} = Loaded
    <3>1. \A o \in Objects : owner[o] = "caster" <=> \E i \in DOMAIN values : values[i] = o
      BY <2>1 DEF IInv, Loading
    <3>2. Loaded = {o \in Objects : \E i \in DOMAIN values : values[i] = o}
      BY <2>1, CasterAssumption DEF Loaded, Range
    <3> QED
      BY <3>1, <3>2
  <2> QED
    BY <2>1, <2>2, <2>3 DEF BodyGetsTheArgument
<1> QED
  BY <1>1, Invariant, PTL

(* With any number of objects, none that a caster or a function made for a *)
(* call outlives it, unless the library keeps it.                          *)
THEOREM NoLeaks == Spec => []NothingLeaks
<1>1. IInv => NothingLeaks
  BY DEF IInv, TypeOK, Owner, Owners, NothingLeaks
<1> QED
  BY <1>1, Invariant, PTL

(* No step of a call, whatever its form and policy, deletes an object that *)
(* the library owns, unless a wrapped function gives away a reference.     *)
THEOREM LibraryObjectsSurvive == Spec => LibraryKeepsItsObjects
<1>1. ASSUME IInv, NEW objects, DeleteWith(objects), objects \cap
               {o \in Objects : owner[o] = "library"} = {}
      PROVE  LibraryKept
  BY <1>1 DEF DeleteWith, LibraryKept
<1>2. ASSUME IInv, Next, pc # "idle", ~GivesAwayReference PROVE LibraryKept
  <2>1. DeleteWith({}) => LibraryKept
    BY <1>1, <1>2
  <2>2. UNCHANGED owner => LibraryKept
    BY DEF LibraryKept
  <2>3. \A e : Reject(e) => DeleteWith({})
    BY DEF Reject, NextOverload, Incompatible
  <2>4. CASE StartLoad \/ LoadEnum \/ EndLoad \/ ReferenceCastError \/ DereferenceNull \/ Convert
    BY <2>1, <2>2, <2>3, <2>4 DEF StartLoad, LoadEnum, EndLoad, ReferenceCastError,
                                 DereferenceNull, Convert, heap
  <2>5. CASE Load
    <3>1. CASE LoadMessage
      BY <1>2, <3>1 DEF LoadMessage, Free, IInv, TypeOK, LibraryKept
    <3>2. CASE LoadNone \/ LoadWrongType \/ LoadNotSerialized \/ LoadNotAllocated \/ LoadMalformed
      BY <2>1, <2>2, <2>3, <3>2 DEF LoadNone, LoadWrongType, LoadNotSerialized,
                                   LoadNotAllocated, LoadMalformed, Raise, heap
    <3> QED
      BY <2>5, <3>1, <3>2 DEF Load
  <2>6. CASE Body
    BY <2>6 DEF Body, Free, LibraryKept, IInv, TypeOK
  <2>7. CASE BodyThrows \/ CastNull
    BY <2>1, <2>7 DEF BodyThrows, Raise, CastNull
  <2>8. CASE Cast \/ CastThrows
    <3>1. pc = "cast" /\ DeleteWith(DiesWithResult) /\ result # Null
      BY <2>8 DEF Cast, CastThrows, DeleteOnThrow
    <3>2. \A o \in Objects : owner[o] = "library" => o \notin DiesWithResult
      BY <1>2, <3>1 DEF IInv, Owners, DiesWithResult
    <3> QED
      BY <1>1, <1>2, <3>1, <3>2
  <2> QED
    BY <1>2, <2>4, <2>5, <2>6, <2>7, <2>8 DEF Next, Call, LibraryDeletes
<1>3. IInv /\ [Next]_vars => [LibraryKept]_vars
  <2>1. pc = "idle" \/ GivesAwayReference => LibraryKept
    BY DEF LibraryKept
  <2> QED
    BY <1>2, <2>1
<1> QED
  BY <1>3, Invariant, PTL DEF Spec, LibraryKeepsItsObjects
=============================================================================
