---------------------------- MODULE ProtoCasters ----------------------------
(***************************************************************************)
(* The casters of proto_caster_impl.h and wrapped_proto_caster.h in the    *)
(* call of a bound function of one parameter: pybind11's dispatcher tries  *)
(* the overloads, first without conversions, then with them; a caster      *)
(* loads the Python argument into a new C++ message, hands it to the       *)
(* function in the parameter's form, and copies the function's result into *)
(* a new Python message.                                                   *)
(*                                                                         *)
(* An overload takes one message, a list of messages (WrappedProtoVector), *)
(* an enum, or any Python object.  In this build                           *)
(* PyProtoGetCppMessagePointer finds no C++ message in a Python one.       *)
(***************************************************************************)
EXTENDS Naturals, Sequences, Functions

CONSTANTS
  Objects,     \* C++ messages
  Args,        \* Python arguments
  Bindings,    \* functions with their overloads, result and policy
  AnyMessage,  \* ::google::protobuf::Message as a parameter's type
  Null

(* The forms of a parameter.                                               *)
MayBeNull == {"const_ptr", "unique_ptr", "shared_ptr", "wrapped_const_ptr",
              "wrapped_mutable_ptr"}
Throws    == {"const_ref", "rvalue", "wrapped_const_ref", "wrapped_mutable_ref"}
Copies    == {"wrapped_value", "wrapped_vector"}  \* of the object itself
Holders   == {"unique_ptr", "shared_ptr"}
Kinds     == MayBeNull \cup Throws \cup Copies \cup {"vector", "enum", "object"}

(* The forms of a result: an object of its own, a raw pointer, a reference *)
(* or shared pointer to an object of somebody else, or no message at all.  *)
OwnResult == {"value", "unique_ptr", "wrapped_value", "wrapped_vector"}
Pointer   == {"ptr", "const_ptr", "wrapped_const", "wrapped_mutable"}
Borrowed  == {"ref", "const_ref", "shared_ptr"}
Forms     == OwnResult \cup Pointer \cup Borrowed \cup {"vector", "plain"}

(* WithWrappedProtos makes a parameter or a result a WrappedProto, kConst  *)
(* for a pointer or reference to const, else kValue, which is what rvalue  *)
(* stands for too; holders and other types stay.  vector: std::vector of   *)
(* messages, which has a caster of this library only when it is wrapped.   *)
WrappedKind == [const_ptr |-> "wrapped_const_ptr", const_ref |-> "wrapped_const_ref",
                rvalue |-> "wrapped_value", vector |-> "wrapped_vector"]

WrappedForm == [value |-> "wrapped_value", const_ptr |-> "wrapped_const",
                const_ref |-> "wrapped_const", vector |-> "wrapped_vector"]

WrapHelper(wrapped, x) == IF x \in DOMAIN wrapped THEN wrapped[x] ELSE x

(* The wrapper changes the form that the casters see, not what the         *)
(* function returns.                                                       *)
WithWrappedProtos(b) ==
  [b EXCEPT !.form = WrapHelper(WrappedForm, @),
            !.overloads = [k \in DOMAIN @ |-> [@[k] EXCEPT !.kind = WrapHelper(WrappedKind, @)]]]

Policies == {"automatic", "automatic_reference", "take_ownership", "copy",
             "move", "reference", "reference_internal"}

(* What src.SerializePartialToString does: its bytes are well-formed or    *)
(* not, it raises, returns something else, or does not exist.              *)
Serialization == {"bytes", "malformed", "raises", "not_bytes", "missing"}

(* pool: the descriptor belongs to a pool, which finds it by its name.     *)
(* number: an integer in the range of the enum's underlying type, one out  *)
(* of it, or an object that converts to one in the range.                  *)
IsItem(i) ==
  i.none \/ /\ i.serialize \in Serialization
            /\ i.pool \in BOOLEAN
            /\ i.number \in {"no", "in_range", "out_of_range", "converts"}

ASSUME CasterAssumption ==
  /\ \A a \in Args : /\ a.list \in BOOLEAN
                     /\ a.items \in Seq(Range(a.items))
                     /\ ~a.list => Len(a.items) = 1
                     /\ \A i \in Range(a.items) : IsItem(i)
  /\ \A b \in Bindings : /\ b.overloads # <<>>
                         /\ b.overloads \in Seq(Range(b.overloads))
                         /\ \A p \in Range(b.overloads) :
                              /\ p.kind \in Kinds \ {"vector"}
                              /\ p.kind \notin {"enum", "object"} => p.type # Null
                         /\ b.form \in Forms \ {"vector"}
                         /\ b.form \in {b.returns, WrapHelper(WrappedForm, b.returns)}
                         /\ b.policy \in Policies
  /\ Null \notin Objects

VARIABLES
  binding,   \* the function that is called
  owner,     \* who will delete an object, or "nobody": it does not exist
  content,   \* the Python message an object was parsed from, until the body runs
  pc,        \* where the call is
  arg,       \* its argument
  overload,  \* the overload that is tried
  convert,   \* whether conversions are allowed
  values,    \* what the overload's caster has loaded so far
  result,    \* the object the function returns or refers to
  error,     \* whether Python's error indicator is set
  outcome    \* how the last call ended

heap == <<owner, content>>
vars == <<binding, heap, pc, arg, overload, convert, values, result, error, outcome>>

Owner == {"nobody", "caster", "result", "raw", "library"}
Label == {"idle", "overload", "load", "convert", "body", "cast", "undefined"}
Outcome == {"none", "returned", "incompatible", "raised"}

TypeOK ==
  /\ binding \in Bindings
  /\ owner \in [Objects -> Owner]
  /\ DOMAIN content = Objects
  /\ pc \in Label
  /\ arg \in Args \cup {Null}
  /\ overload \in 0 .. Len(binding.overloads)
  /\ convert \in BOOLEAN
  /\ values \in Seq(Objects \cup {Null})
  /\ result \in Objects \cup {Null}
  /\ error \in BOOLEAN
  /\ outcome \in Outcome

Param    == binding.overloads[overload]
Overloaded == Len(binding.overloads) > 1
Item     == arg.items[Len(values) + 1]  \* the one to be loaded next
Loaded   == Range(values) \ {Null}
Free     == {o \in Objects : owner[o] = "nobody"}

Init ==
  /\ binding \in Bindings
  /\ owner = [o \in Objects |-> "nobody"]
  /\ content = [o \in Objects |-> Null]
  /\ pc = "idle"
  /\ arg = Null
  /\ overload = 0
  /\ convert = FALSE
  /\ values = <<>>
  /\ result = Null
  /\ error = FALSE
  /\ outcome = "none"

-----------------------------------------------------------------------------
(* The dispatcher (external: pybind11's cpp_function). *)

Call(a) ==
  /\ pc = "idle"
  /\ arg' = a
  /\ overload' = 1
  /\ convert' = ~Overloaded
  /\ error' = FALSE
  /\ outcome' = "none"
  /\ pc' = "overload"
  /\ UNCHANGED <<binding, heap, values, result>>

(* The objects that die with the casters of an overload.                   *)
DeleteWith(objects) ==
  owner' = [o \in Objects |-> IF o \in objects \/ owner[o] = "caster"
                              THEN "nobody" ELSE owner[o]]

End(how) ==
  /\ pc' = "idle"
  /\ outcome' = how
  /\ overload' = 0
  /\ convert' = FALSE
  /\ values' = <<>>
  /\ result' = Null
  /\ UNCHANGED <<binding, content, arg>>

(* A caster throws error_already_set or type_error: no further overload is *)
(* tried.                                                                  *)
Raise ==
  /\ DeleteWith({})
  /\ End("raised")
  /\ error' = TRUE

LastOverloadMutant == overload > Len(binding.overloads)

LastOverload == overload = Len(binding.overloads)

(* load() is false, or a conversion throws reference_cast_error: the next  *)
(* overload, then all of them again with conversions; each with new        *)
(* casters.                                                                *)
NextOverload ==
  /\ DeleteWith({})
  /\ \/ /\ ~LastOverload
        /\ overload' = overload + 1
        /\ UNCHANGED convert
     \/ /\ LastOverload
        /\ ~convert
        /\ overload' = 1
        /\ convert' = TRUE
  /\ values' = <<>>
  /\ pc' = "overload"
  /\ UNCHANGED <<binding, content, arg, result, outcome>>

Incompatible ==
  /\ LastOverload
  /\ convert
  /\ DeleteWith({})
  /\ End("incompatible")

(* leftover: the error indicator after the load that failed.               *)
Reject(leftover) ==
  \/ NextOverload /\ error' = leftover
  \/ Incompatible /\ error' = TRUE

-----------------------------------------------------------------------------
(* load() of the casters *)

IsList(p) == p.kind = "wrapped_vector"

(* The base caster takes an integer of its width, whether or not the enum  *)
(* has a value of that number; it clears the errors of its own attempts.   *)
Number == IF arg.list \/ arg.items[1].none THEN "no" ELSE arg.items[1].number

IsEnumValue(number, conversions) ==
  number = "in_range" \/ (number = "converts" /\ conversions)

LoadEnum ==
  /\ pc = "overload"
  /\ Param.kind = "enum"
  /\ \/ /\ IsEnumValue(Number, convert)
        /\ pc' = "body"
        /\ UNCHANGED <<binding, heap, arg, overload, convert, values, result, error,
                       outcome>>
     \/ /\ ~IsEnumValue(Number, convert)
        /\ Reject(error /\ ~convert)

(* A caster of one message does not take a list: it has no DESCRIPTOR.     *)
StartLoad ==
  /\ pc = "overload"
  /\ Param.kind # "enum"
  /\ \/ /\ Param.kind = "object" \/ IsList(Param) = arg.list
        /\ pc' = IF Param.kind = "object" THEN "body" ELSE "load"
        /\ UNCHANGED <<binding, heap, arg, overload, convert, values, result, error,
                       outcome>>
     \/ /\ Param.kind # "object"
        /\ IsList(Param) # arg.list
        /\ Reject(IF arg.list THEN FALSE ELSE error)

MoreToLoad == pc = "load" /\ Len(values) < Len(arg.items)

(* "When given a none, treat it as a nullptr."                             *)
LoadNone ==
  /\ MoreToLoad
  /\ Item.none
  /\ ~IsList(Param)
  /\ values' = Append(values, Null)
  /\ UNCHANGED <<binding, heap, pc, arg, overload, convert, result, error, outcome>>

(* DESCRIPTOR.full_name is a string, and for a concrete type that type's;  *)
(* an attribute that is missing is an error that is cleared.               *)
NameMatchesMutant == Item.name # Null

NameMatches ==
  IF Param.type = AnyMessage THEN Item.name # Null ELSE Item.name = Param.type

LoadWrongType ==
  /\ MoreToLoad
  /\ ~Item.none
  /\ ~NameMatches
  /\ Reject(IF Item.name = Null THEN FALSE ELSE error)

IsMessage == MoreToLoad /\ ~Item.none /\ NameMatches

(* PyProtoSerializePartialToString: the call fails also when an error was  *)
(* set before it.  Without conversions no exception is thrown, and the     *)
(* error that the call has set is left behind.                             *)
SerializeFails == Item.serialize # "missing" /\ (Item.serialize = "raises" \/ error)

LoadNotSerialized ==
  /\ IsMessage
  /\ \/ /\ SerializeFails
        /\ IF convert THEN Raise ELSE Reject(TRUE)
     \/ /\ ~SerializeFails
        /\ Item.serialize = "not_bytes"
        /\ IF convert THEN Raise ELSE Reject(FALSE)
     \/ /\ Item.serialize = "missing"
        /\ Reject(FALSE)

Serialized ==
  /\ IsMessage
  /\ ~SerializeFails
  /\ Item.serialize \in {"bytes", "malformed"}

(* AllocateCProtoFromPythonSymbolDatabase throws a type_error, conversions *)
(* or not.                                                                 *)
LoadNotAllocated ==
  /\ Serialized
  /\ Param.type = AnyMessage
  /\ ~Item.pool
  /\ Raise

Allocated ==
  /\ Serialized
  /\ Param.type = AnyMessage => Item.pool

(* The new message cannot be parsed: it dies with the caster.              *)
LoadMalformed ==
  /\ Allocated
  /\ Item.serialize = "malformed"
  /\ Reject(error)

(* "value = owned.get()" is missing; a list takes the message from owned.  *)
ValueOfMutant(o) == IF IsList(Param) THEN o ELSE Null

ValueOf(o) == o

LoadMessage ==
  /\ Allocated
  /\ Item.serialize = "bytes"
  /\ \E o \in Free :
       /\ owner' = [owner EXCEPT ![o] = "caster"]
       /\ content' = [content EXCEPT ![o] = Item]
       /\ values' = Append(values, ValueOf(o))
  /\ UNCHANGED <<binding, pc, arg, overload, convert, result, error, outcome>>

EndLoad ==
  /\ pc = "load"
  /\ Len(values) = Len(arg.items)
  /\ pc' = "convert"
  /\ UNCHANGED <<binding, heap, arg, overload, convert, values, result, error, outcome>>

-----------------------------------------------------------------------------
(* The conversion to the parameter's form *)

HasNull == Null \in Range(values)

ThrowsForNullMutant == FALSE  \* "if (!value) throw" is missing

ThrowsForNull == Param.kind \in Throws

ReferenceCastError ==
  /\ pc = "convert"
  /\ HasNull
  /\ ThrowsForNull
  /\ Reject(error)

(* WrappedProto<T, kValue> copies what value points to, WrappedProtoVector *)
(* the same for an element of a list: here it is a null pointer.           *)
DereferenceNull ==
  /\ \/ pc = "convert" /\ HasNull
     \/ MoreToLoad /\ IsList(Param) /\ Item.none
  /\ Param.kind \in Copies
  /\ pc' = "undefined"
  /\ UNCHANGED <<binding, heap, arg, overload, convert, values, result, error, outcome>>

Convert ==
  /\ pc = "convert"
  /\ HasNull => ~ThrowsForNull /\ Param.kind \notin Copies
  /\ pc' = "body"
  /\ UNCHANGED <<binding, heap, arg, overload, convert, values, result, error, outcome>>

-----------------------------------------------------------------------------
(* The function (external).  It may keep what a holder gives it.  A raw    *)
(* pointer it returns is the caller's to delete exactly when the binding   *)
(* says so; otherwise its result is an object of the library, or refers to *)
(* the argument itself.  A reference is nobody's to delete.                *)

HandsOver ==
  \/ binding.returns = "ptr" /\ binding.policy \in {"automatic", "take_ownership"}
  \/ binding.returns \in Pointer /\ binding.policy = "take_ownership"

Body ==
  /\ pc = "body"
  /\ \E kept \in {{}} \cup IF Param.kind \in Holders THEN {Loaded} ELSE {} :
     LET held == [o \in Objects |-> IF o \in kept THEN "library" ELSE owner[o]]
         old  == {o \in Objects : held[o] = "library"}
                 \cup IF Param.kind \in Holders THEN {} ELSE Loaded
     IN \/ /\ binding.form \in OwnResult \/ HandsOver
           /\ \E made \in SUBSET Free \ {{}} :
                /\ binding.form = "wrapped_vector" \/ \E o \in Free : made = {o}
                /\ result' \in made
                /\ owner' = [o \in Objects |-> IF o \notin made THEN held[o]
                               ELSE IF binding.form \in OwnResult THEN "result" ELSE "raw"]
        \/ /\ binding.form \in Pointer \cup Borrowed /\ ~HandsOver
           /\ result' \in old \cup Free
           /\ owner' = IF result' \in old THEN held
                       ELSE [held EXCEPT ![result'] = "library"]
        \/ /\ binding.returns \in Pointer \cup {"unique_ptr", "shared_ptr", "vector",
                                               "wrapped_vector", "plain"}
           /\ result' = Null
           /\ owner' = held
  /\ content' = [o \in Objects |-> Null]
  /\ pc' = "cast"
  /\ UNCHANGED <<binding, arg, overload, convert, values, error, outcome>>

BodyThrows ==
  /\ pc = "body"
  /\ Raise

(* The library drops an object it kept.                                    *)
LibraryDeletes(o) ==
  /\ pc = "idle"
  /\ owner[o] = "library"
  /\ owner' = [owner EXCEPT ![o] = "nobody"]
  /\ UNCHANGED <<binding, content, pc, arg, overload, convert, values, result, error,
                 outcome>>

-----------------------------------------------------------------------------
(* cast() *)

(* The overload of cast() for the result's form, as it treats the policy:  *)
(* "wrapper.reset(src)", "owned.reset(...)".                               *)
TakesOwnershipMutant == binding.form \in Pointer /\ binding.policy = "automatic"

TakesOwnership ==
  \/ binding.form \in Pointer /\ binding.policy = "take_ownership"
  \/ binding.form = "ptr" /\ binding.policy = "automatic"

(* What the unique_ptr deletes at the end of cast(), and the result object *)
(* that dies with the call, or all those of a vector.                      *)
DiesWithResult ==
  {o \in Objects : owner[o] = "result" \/ (o = result /\ TakesOwnership)}

(* A null pointer becomes None, an empty vector a list; an enum's caster   *)
(* makes an integer of any value, others take what is no message.          *)
CastNull ==
  /\ pc = "cast"
  /\ result = Null
  /\ DeleteWith({})
  /\ End("returned")
  /\ UNCHANGED error

(* GenericPyProtoCast has made a Python message and copied the result; if  *)
(* an error was set, its first call of Python has failed and cleared it.   *)
Cast ==
  /\ pc = "cast"
  /\ result # Null
  /\ DeleteWith(DiesWithResult)
  /\ End("returned")
  /\ error' = FALSE

DeleteOnThrowMutant == {}  \* the raw pointer is deleted after the copy

DeleteOnThrow == DiesWithResult

(* PyMessageInstance, or MergeFromString in CProtoCopyToPyProto, throws.   *)
CastThrows ==
  /\ pc = "cast"
  /\ result # Null
  /\ DeleteWith(DeleteOnThrow)
  /\ End("raised")
  /\ error' = TRUE

-----------------------------------------------------------------------------
Load == \/ LoadNone \/ LoadWrongType \/ LoadNotSerialized \/ LoadNotAllocated
        \/ LoadMalformed \/ LoadMessage

Next ==
  \/ \E a \in Args : Call(a)
  \/ StartLoad
  \/ LoadEnum
  \/ Load
  \/ EndLoad
  \/ ReferenceCastError
  \/ DereferenceNull
  \/ Convert
  \/ Body
  \/ BodyThrows
  \/ \E o \in Objects : LibraryDeletes(o)
  \/ CastNull
  \/ Cast
  \/ CastThrows

Spec == Init /\ [][Next]_vars

-----------------------------------------------------------------------------
(* What an overload accepts, by the documentation of its form: None where  *)
(* there can be a null, and messages of its type that can be serialized.   *)
AcceptsItem(p, i) ==
  IF i.none THEN p.kind \in MayBeNull
  ELSE /\ i.name # Null
       /\ i.serialize = "bytes"
       /\ IF p.type = AnyMessage THEN i.pool ELSE i.name = p.type

Accepts(p, a, conversions) ==
  CASE p.kind = "object" -> TRUE
    [] p.kind = "enum" -> /\ ~a.list
                          /\ ~a.items[1].none
                          /\ IsEnumValue(a.items[1].number, conversions)
    [] OTHER -> IsList(p) = a.list /\ \A i \in Range(a.items) : AcceptsItem(p, i)

(* The function that runs is the first one that accepts the argument, with *)
(* conversions only if none does without; and a call is given up as        *)
(* incompatible only when there is none, however many overloads were tried *)
(* and dropped halfway.                                                    *)
FirstAcceptingOverloadRuns ==
  LET accepts(k, conversions) == Accepts(binding.overloads[k], arg, conversions)
  IN /\ pc = "body" => /\ accepts(overload, convert)
                       /\ \A k \in 1 .. overload - 1 : ~accepts(k, convert)
                       /\ convert /\ Overloaded =>
                            \A k \in DOMAIN binding.overloads : ~accepts(k, FALSE)
     /\ outcome = "incompatible" => \A k \in DOMAIN binding.overloads : ~accepts(k, TRUE)

(* The function gets the messages of its own argument, whole and in order, *)
(* and nothing left by an overload that was tried before.                  *)
BodyGetsTheArgument ==
  pc = "body" /\ Param.kind \notin {"object", "enum"} =>
    /\ Len(values) = Len(arg.items)
    /\ \A i \in DOMAIN values :
         IF arg.items[i].none THEN values[i] = Null
         ELSE values[i] # Null /\ content[values[i]] = arg.items[i]
    /\ {o \in Objects : owner[o] = "caster"} = Loaded

(* Between calls every object is one the library keeps: what casters made, *)
(* what a function returned by value or handed over is deleted, also when  *)
(* an overload is dropped or the conversion of the result throws.          *)
NothingLeaks == pc = "idle" => \A o \in Objects : owner[o] \in {"nobody", "library"}

(* The native casters copy a reference under every policy; a wrapper makes *)
(* it a pointer, and take_ownership then deletes what it points to.        *)
GivesAwayReference ==
  /\ binding.returns = "const_ref"
  /\ binding.form = "wrapped_const"
  /\ binding.policy = "take_ownership"

(* No call deletes an object of the library: not one that a function       *)
(* returns a pointer or a reference to, not one it was given to keep;      *)
(* except through a wrapped function that gives away a reference.          *)
LibraryKept ==
  ~GivesAwayReference =>
    \A o \in Objects : owner[o] = "library" /\ pc # "idle" => owner'[o] = "library"

LibraryKeepsItsObjects == [][LibraryKept]_vars

(* A call that returns a value leaves no error behind: a serialization     *)
(* that fails is reported, or does not count.                              *)
NoErrorBehindAResult == outcome = "returned" => ~error

(* None never becomes a reference to nothing.                              *)
NoNullDereference == pc # "undefined"
=============================================================================
