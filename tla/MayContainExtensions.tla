------------------------ MODULE MayContainExtensions ------------------------
(***************************************************************************)
(* MessageMayContainExtensionsMemoized of check_unknown_fields.cc: whether *)
(* a message of some type may contain extensions, anywhere below it.  The  *)
(* answers are kept for the life of the program, so what a query finds     *)
(* depends on the queries before it.                                       *)
(*                                                                         *)
(* The lock of the function serializes the queries: there is one query at  *)
(* a time, and its recursion is taken one call at a time.                  *)
(***************************************************************************)
EXTENDS Naturals, Sequences

CONSTANTS
  Types,    \* message types (Descriptor objects)
  Schemas,  \* [fields, extendable]: the message types of each type's fields,
            \* and the types that declare extension ranges
  MaxHeight, \* a bound on the nesting of types that do not contain themselves
  NoType

ASSUME TypesAssumption ==
  /\ Schemas \subseteq [fields : [Types -> SUBSET Types], extendable : SUBSET Types]
  /\ MaxHeight \in Nat
  /\ NoType \notin Types

VARIABLES
  schema,   \* the program's message types: they never change
  memo,     \* memoized
  stack,    \* the types whose call is in progress, the innermost first
  todo,     \* the fields the call of each type has not looked at yet
  verdict,  \* what the last call to return has returned, "none" if that is used
  asked     \* the type the caller asked about

memoVars == <<schema, memo, stack, todo, verdict, asked>>

Verdict == {"none", "true", "false"}

TypeOK ==
  /\ schema \in Schemas
  /\ memo \in [Types -> {"absent", "true", "false"}]
  /\ stack \in Seq(Types)
  /\ todo \in [Types -> SUBSET Types]
  /\ verdict \in Verdict
  /\ asked \in Types \cup {NoType}

Init ==
  /\ schema \in Schemas
  /\ memo = [d \in Types |-> "absent"]
  /\ stack = <<>>
  /\ todo = schema.fields
  /\ verdict = "none"
  /\ asked = NoType

Idle == asked = NoType
Answered == asked # NoType /\ stack = <<>>
Calling == stack # <<>> /\ verdict # "true"

MemoizedMutant(d) == d \in Types  \* inserted is not tested

Memoized(d) == memo[d] # "absent"

PlaceholderMutant(d) == memo  \* find, without inserting

(* try_emplace(d, false): the entry of a type whose fields are being       *)
(* looked at.                                                              *)
Placeholder(d) == [memo EXCEPT ![d] = "false"]

(* The entry of a call: it returns at once for a type with extension       *)
(* ranges and for a type that has an entry, else it begins its loop.       *)
Enter(d) ==
  \/ /\ d \in schema.extendable
     /\ verdict' = "true"
     /\ UNCHANGED <<memo, stack>>
  \/ /\ d \notin schema.extendable
     /\ Memoized(d)
     /\ verdict' = memo[d]
     /\ UNCHANGED <<memo, stack>>
  \/ /\ d \notin schema.extendable
     /\ ~Memoized(d)
     /\ memo' = Placeholder(d)
     /\ stack' = <<d>> \o stack
     /\ verdict' = "none"

(* The loop of a call that begins has all the fields before it.            *)
LoopsOn(d, left) ==
  IF d \in schema.extendable \/ Memoized(d)
  THEN left
  ELSE [left EXCEPT ![d] = schema.fields[d]]

(* MessageMayContainExtensionsMemoized(d).                                 *)
Query(d) ==
  /\ Idle
  /\ asked' = d
  /\ Enter(d)
  /\ todo' = LoopsOn(d, todo)
  /\ UNCHANGED schema

(* The loop goes to its next message field.  The code takes the fields in  *)
(* the order of their declarations, the model in any order.                *)
NextField ==
  /\ Calling
  /\ \E f \in todo[Head(stack)] :
       /\ todo' = LoopsOn(f, [todo EXCEPT ![Head(stack)] = @ \ {f}])
       /\ Enter(f)
  /\ UNCHANGED <<schema, asked>>

(* The loop ends after the first field.                                    *)
LoopIsDoneEarly(d) == todo[d] = {} \/ todo[d] # schema.fields[d]

LoopIsDone(d) == todo[d] = {}

(* No field has said yes: the call returns false, its entry stays false.   *)
NoField ==
  /\ Calling
  /\ LoopIsDone(Head(stack))
  /\ stack' = Tail(stack)
  /\ verdict' = "false"
  /\ UNCHANGED <<schema, memo, todo, asked>>

(* All calls in progress are taken to be parents of the field.             *)
MemoizeMutant(d) == [c \in Types |-> IF memo[c] = "absent" THEN "absent" ELSE "true"]

Memoize(d) == [memo EXCEPT ![d] = "true"]

(* A field has said yes: so does the call, and so do its callers in turn.  *)
FieldSaysYes ==
  /\ stack # <<>>
  /\ verdict = "true"
  /\ memo' = Memoize(Head(stack))
  /\ stack' = Tail(stack)
  /\ UNCHANGED <<schema, todo, verdict, asked>>

(* The outermost call has returned, and the lock is released.              *)
Return ==
  /\ Answered
  /\ asked' = NoType
  /\ verdict' = "none"
  /\ UNCHANGED <<schema, memo, stack, todo>>

Recursion == NextField \/ NoField \/ FieldSaysYes

Next == (\E d \in Types : Query(d)) \/ Recursion \/ Return

Spec == Init /\ [][Next]_memoVars

-----------------------------------------------------------------------------
(* The types that may contain extensions: the least set that holds the     *)
(* extendable types and every type with a field of a type in the set.      *)
Closed(S) ==
  /\ schema.extendable \subseteq S
  /\ \A d \in Types : schema.fields[d] \cap S # {} => d \in S

MayContain(d) == \A S \in SUBSET Types : Closed(S) => d \in S

(* No type leads back to itself: the types have a height.                  *)
Acyclic ==
  \E height \in [Types -> 0 .. MaxHeight] :
    \A d \in Types : \A f \in schema.fields[d] : height[f] < height[d]

(* An entry or a verdict "true" is right, whatever the schema and whatever *)
(* was asked before.                                                       *)
YesIsRight ==
  /\ \A d \in Types : memo[d] = "true" => MayContain(d)
  /\ Answered /\ verdict = "true" => MayContain(asked)

(* As long as every answer was "no", "no" is right: the false placeholders *)
(* of the calls in progress were then no mistake.                          *)
NoIsRightUntilFirstYes ==
  /\ \A d \in Types : memo[d] # "true"
  /\ stack = <<>>
  /\ verdict # "true"
  => \A d \in Types : memo[d] = "false" => ~MayContain(d)

(* In a program without recursive message types "no" is always right: an   *)
(* entry "false" is that of a call in progress, or of a type below which   *)
(* no extension can be.                                                    *)
NoIsRightIfAcyclic ==
  Acyclic =>
    /\ \A d \in Types : memo[d] = "false" =>
         ~MayContain(d) \/ \E i \in 1 .. Len(stack) : stack[i] = d
    /\ Answered /\ verdict = "false" => ~MayContain(asked)

(* The recursion never comes back to a type whose call is in progress: it  *)
(* ends, also for types that contain themselves, and never goes deeper     *)
(* than there are types.                                                   *)
NoTypeTwice ==
  \A i, j \in 1 .. Len(stack) : stack[i] = stack[j] => i = j
=============================================================================
