--------------------------- MODULE MCProtoCasters ---------------------------
(* Instances of ProtoCasters for TLC.                                      *)
EXTENDS ProtoCasters, TLC

CONSTANTS IntMessage, TestMessage  \* two compiled message types

NoneItem == [none |-> TRUE]
Msg(name, serialize, pool) ==
  [none |-> FALSE, name |-> name, serialize |-> serialize, pool |-> pool, number |-> "no"]
Integer(number) ==
  [none |-> FALSE, name |-> Null, serialize |-> "missing", pool |-> FALSE, number |-> number]

(* A message of each type, a string, and fakes of every sort.              *)
SomeItems ==
  {NoneItem, Msg(IntMessage, "bytes", TRUE), Msg(TestMessage, "bytes", TRUE),
   Msg(Null, "missing", FALSE), Msg(IntMessage, "missing", FALSE),
   Msg(IntMessage, "not_bytes", TRUE), Msg(IntMessage, "malformed", TRUE),
   Msg(IntMessage, "bytes", FALSE), Integer("in_range"), Integer("out_of_range"), Integer("converts")}
Broken == Msg(IntMessage, "raises", TRUE)

One(i) == [list |-> FALSE, items |-> <<i>>]
List(is) == [list |-> TRUE, items |-> is]

AllArgs ==
  {One(i) : i \in SomeItems \cup {Broken}} \cup
  {List(<<>>), List(<<Msg(IntMessage, "bytes", TRUE), Msg(TestMessage, "bytes", TRUE)>>),
   List(<<Msg(IntMessage, "bytes", TRUE), Msg(IntMessage, "malformed", TRUE)>>),
   List(<<Msg(IntMessage, "bytes", TRUE), NoneItem>>),
   List(<<Msg(IntMessage, "bytes", TRUE), Broken>>)}

P(kind, type) == [kind |-> kind, type |-> type]
F(overloads, form, policy) ==
  [overloads |-> overloads, returns |-> form, form |-> form, policy |-> policy]

(* One function for every form of a parameter.                             *)
Single == {F(<<P(k, IntMessage)>>, "value", "automatic") : k \in Kinds \ {"object", "vector"}}

(* Overloads that share arguments, and one that takes whatever is left.    *)
Several ==
  {F(o, "plain", "automatic") : o \in
    {<<P("const_ref", IntMessage), P("const_ptr", TestMessage)>>,
     <<P("const_ref", TestMessage), P("unique_ptr", AnyMessage)>>,
     <<P("wrapped_vector", IntMessage), P("wrapped_vector", AnyMessage)>>,
     <<P("const_ref", IntMessage), P("enum", Null)>>,
     <<P("enum", Null), P("wrapped_vector", IntMessage), P("object", AnyMessage)>>,
     <<P("const_ref", TestMessage), P("const_ref", IntMessage), P("object", AnyMessage)>>}}

(* Every form and policy of a result.                                      *)
Results == {F(<<P(k, AnyMessage)>>, f, p) : k \in {"const_ref", "shared_ptr"},
                                            f \in Forms \ {"vector"}, p \in Policies}

(* Functions wrapped by WithWrappedProtos.                                 *)
Wrapped == {WithWrappedProtos(F(<<P(k, IntMessage)>>, f, p)) :
              k \in DOMAIN WrappedKind, f \in DOMAIN WrappedForm,
              p \in {"automatic", "take_ownership"}}

AllBindings == Single \cup Several \cup Results \cup Wrapped

(* A message is known by its references alone.                             *)
Symmetry == Permutations(Objects)

(* Overloads that do not copy None into a value.                           *)
Careful == {b \in AllBindings : \A p \in Range(b.overloads) : p.kind \notin Copies}
=============================================================================
