--------------------- MODULE MayContainExtensionsProofs ---------------------
(***************************************************************************)
(* Proofs about MayContainExtensions, for every set of types and every     *)
(* schema: what a "yes" and a "no" are worth.                              *)
(***************************************************************************)
EXTENDS MayContainExtensions, TLAPS

InStack(d) == \E i \in 1 .. Len(stack) : stack[i] = d

(* The recursion: each call was made for a field of the call below it, the *)
(* lowest for the type that was asked about; a type has an entry exactly   *)
(* when its fields may have been looked at.                                *)
StackInv ==
  /\ \A i \in 1 .. Len(stack) - 1 : stack[i] \in schema.fields[stack[i + 1]]
  /\ stack # <<>> => asked = stack[Len(stack)]
  /\ asked = NoType => stack = <<>> /\ verdict = "none"
  /\ \A d \in Types : todo[d] \subseteq schema.fields[d]
  /\ \A d \in Types : memo[d] = "absent" => todo[d] = schema.fields[d]
  /\ \A i \in 1 .. Len(stack) : memo[stack[i]] # "absent"
  /\ \A d \in Types : memo[d] # "absent" => d \notin schema.extendable

(* The type that the last "yes" is about; its caller, if there is one, may *)
(* contain extensions as well.                                             *)
YesInv ==
  /\ \A d \in Types : memo[d] = "true" => MayContain(d)
  /\ verdict = "true" => IF stack = <<>> THEN MayContain(asked)
                         ELSE MayContain(Head(stack))

IInv == TypeOK /\ StackInv /\ YesInv

-----------------------------------------------------------------------------
(* A field that may contain extensions makes its message so.               *)
LEMMA FieldYes ==
  ASSUME NEW d \in Types, NEW f \in schema.fields[d], f \in Types, MayContain(f)
  PROVE  MayContain(d)
BY DEF MayContain, Closed

LEMMA ExtendableYes ==
  ASSUME NEW d \in schema.extendable
  PROVE  MayContain(d)
BY DEF MayContain, Closed

(* A type without extension ranges all of whose fields are free of         *)
(* extensions is so itself: the least closed set does not need it.         *)
LEMMA FieldsNo ==
  ASSUME TypeOK, NEW d \in Types, d \notin schema.extendable,
         \A f \in schema.fields[d] : ~MayContain(f)
  PROVE  ~MayContain(d)
<1> DEFINE Least == {e \in Types : MayContain(e)}
           S == Least \ {d}
<1>1. schema.fields \in [Types -> SUBSET Types] /\ schema.extendable \subseteq Types
  BY TypesAssumption DEF TypeOK
<1>2. schema.extendable \subseteq S
  BY <1>1, ExtendableYes
<1>3. ASSUME NEW e \in Types, schema.fields[e] \cap S # {} PROVE e \in S
  <2>1. PICK f \in schema.fields[e] : f \in Least
    BY <1>3
  <2>2. MayContain(e)
    BY <2>1, FieldYes
  <2>3. e # d
    BY <2>1
  <2> QED
    BY <2>2, <2>3
<1>4. Closed(S)
  BY <1>2, <1>3 DEF Closed
<1>5. S \in SUBSET Types /\ d \notin S
  OBVIOUS
<1> HIDE DEF S
<1> QED
  BY <1>4, <1>5 DEF MayContain

LEMMA InitInv == Init => IInv
BY TypesAssumption DEF Init, IInv, TypeOK, StackInv, YesInv, Verdict

(* What a query and a step of the loop have in common: f is entered from   *)
(* the top of the stack, and the loop's own bookkeeping is done.           *)
EnterStep(f) ==
  /\ Enter(f)
  /\ schema' = schema
  /\ verdict # "true"
  /\ asked' \in Types
  /\ stack # <<>> => asked' = asked /\ f \in schema.fields[Head(stack)]
  /\ stack = <<>> => asked' = f
  /\ todo' \in [Types -> SUBSET Types]
  /\ \A d \in Types : \/ todo'[d] = todo[d]
                      \/ stack # <<>> /\ d = Head(stack) /\ todo'[d] = todo[d] \ {f}

(* A type whose call begins has no field looked at, and is not in the      *)
(* middle of a loop.                                                       *)
LEMMA LoopsAsBefore ==
  ASSUME IInv, NEW f \in Types, NEW l \in [Types -> SUBSET Types],
         memo[f] = "absent" => l[f] = schema.fields[f]
  PROVE  LoopsOn(f, l) = l
BY DEF LoopsOn, Memoized

LEMMA QueryEnters ==
  ASSUME IInv, NEW d \in Types, Query(d) PROVE EnterStep(d)
<1>1. todo' = todo
  BY LoopsAsBefore DEF Query, IInv, TypeOK, StackInv
<1> QED
  BY <1>1 DEF Query, Idle, IInv, StackInv, TypeOK, EnterStep

LEMMA NextFieldEnters ==
  ASSUME IInv, NextField PROVE \E f \in Types : EnterStep(f)
<1>1. PICK f \in todo[Head(stack)] :
        /\ todo' = LoopsOn(f, [todo EXCEPT ![Head(stack)] = @ \ {f}])
        /\ Enter(f)
  BY DEF NextField
<1>2. Head(stack) \in Types /\ stack # <<>> /\ verdict # "true"
  BY DEF NextField, Calling, IInv, TypeOK
<1>3. f \in Types /\ f \in schema.fields[Head(stack)]
  BY <1>1, <1>2 DEF IInv, TypeOK, StackInv
<1>4. UNCHANGED <<schema, asked>> /\ asked \in Types
  BY <1>2 DEF NextField, IInv, TypeOK, StackInv
<1> DEFINE l == [todo EXCEPT ![Head(stack)] = @ \ {f}]
<1>5. l \in [Types -> SUBSET Types]
  BY <1>1, <1>2 DEF IInv, TypeOK
<1>6. memo[f] = "absent" => l[f] = schema.fields[f]
  <2>1. memo[Head(stack)] # "absent"
    <3>1. 1 \in 1 .. Len(stack) /\ Head(stack) = stack[1]
      BY <1>2 DEF IInv, TypeOK
    <3> QED
      BY <3>1 DEF IInv, StackInv
  <2> QED
    BY <1>3, <2>1 DEF IInv, TypeOK, StackInv
<1>7. todo' = l
  BY <1>1, <1>3, <1>5, <1>6, LoopsAsBefore
<1>8. \A d \in Types : \/ todo'[d] = todo[d]
                       \/ d = Head(stack) /\ todo'[d] = todo[d] \ {f}
  BY <1>2, <1>7 DEF IInv, TypeOK
<1>9. EnterStep(f)
  BY <1>1, <1>2, <1>3, <1>4, <1>5, <1>7, <1>8 DEF EnterStep
<1> QED
  BY <1>3, <1>9

LEMMA EnterInv ==
  ASSUME IInv, NEW f \in Types, EnterStep(f) PROVE IInv'
<1> USE DEF IInv, EnterStep
<1>1. TypeOK'
  <2>1. memo' \in [Types -> {"absent", "true", "false"}]
    BY DEF TypeOK, Enter, Placeholder
  <2>2. <<f>> \o stack \in Seq(Types) /\ stack \in Seq(Types)
    BY DEF TypeOK
  <2>3. stack' \in {stack, <<f>> \o stack}
    BY DEF Enter, Placeholder
  <2>4. verdict' \in Verdict
    BY DEF TypeOK, Enter, Placeholder, Verdict, Memoized
  <2> QED
    BY <2>1, <2>2, <2>3, <2>4 DEF TypeOK
<1>2. \A d : MayContain(d)' <=> MayContain(d)
  BY DEF MayContain, Closed
<1>3. \A d \in Types : memo'[d] = "absent" => memo[d] = "absent"
  BY DEF Enter, Placeholder, TypeOK
<1>4. \A d \in Types : memo'[d] = "absent" => todo'[d] = schema.fields[d]
  BY <1>3 DEF StackInv, TypeOK
<1>5. CASE UNCHANGED <<memo, stack>>
  <2>1. StackInv'
    BY <1>4, <1>5, TypesAssumption DEF StackInv, TypeOK
  <2>2. verdict' = "true" => MayContain(f)
    BY <1>5, ExtendableYes DEF Enter, Placeholder, YesInv, TypeOK
  <2>3. stack # <<>> => Head(stack) \in Types
    BY DEF TypeOK
  <2>4. verdict' = "true" => IF stack = <<>> THEN MayContain(f) ELSE MayContain(Head(stack))
    BY <2>2, <2>3, FieldYes
  <2>5. YesInv'
    BY <1>2, <1>5, <2>4 DEF YesInv
  <2> QED
    BY <1>1, <2>1, <2>5
<1>6. CASE ~UNCHANGED <<memo, stack>>
  <2>1. /\ f \notin schema.extendable
        /\ ~Memoized(f)
        /\ memo' = [memo EXCEPT ![f] = "false"]
        /\ stack' = <<f>> \o stack
        /\ verdict' = "none"
    BY <1>6 DEF Enter, Placeholder
  <2>2. /\ Len(stack') = Len(stack) + 1
        /\ stack'[1] = f
        /\ \A i \in 1 .. Len(stack) : stack'[i + 1] = stack[i]
        /\ stack' # <<>>
    BY <2>1 DEF TypeOK
  <2>3. \A i \in 1 .. Len(stack') - 1 : stack'[i] \in schema.fields[stack'[i + 1]]
    <3> SUFFICES ASSUME NEW i \in 1 .. Len(stack') - 1
                 PROVE  stack'[i] \in schema.fields[stack'[i + 1]]
      OBVIOUS
    <3>1. CASE i = 1
      <4>1. stack # <<>> /\ Head(stack) = stack[1] /\ stack'[2] = stack[1]
        BY <2>2, <3>1 DEF TypeOK
      <4> QED
        BY <2>2, <3>1, <4>1
    <3>2. CASE i # 1
      <4>1. i - 1 \in 1 .. Len(stack) - 1
        BY <2>2, <3>2 DEF TypeOK
      <4>2. stack'[i] = stack[i - 1] /\ stack'[i + 1] = stack[i]
        BY <2>2, <4>1 DEF TypeOK
      <4>3. stack[i - 1] \in schema.fields[stack[(i - 1) + 1]]
        BY <4>1 DEF StackInv
      <4> QED
        BY <4>1, <4>2, <4>3
    <3> QED
      BY <3>1, <3>2
  <2>4. asked' = stack'[Len(stack')]
    <3>1. CASE stack = <<>>
      BY <2>2, <3>1
    <3>2. CASE stack # <<>>
      BY <2>2, <3>2 DEF StackInv, TypeOK
    <3> QED
      BY <3>1, <3>2
  <2>5. \A i \in 1 .. Len(stack') : memo'[stack'[i]] # "absent"
    <3> SUFFICES ASSUME NEW i \in 1 .. Len(stack') PROVE memo'[stack'[i]] # "absent"
      OBVIOUS
    <3>1. CASE i = 1
      BY <2>1, <2>2, <3>1 DEF TypeOK
    <3>2. CASE i # 1
      <4>1. i - 1 \in 1 .. Len(stack)
        BY <2>2, <3>2 DEF TypeOK
      <4>2. stack'[(i - 1) + 1] = stack[i - 1] /\ (i - 1) + 1 = i
        BY <2>2, <4>1
      <4> QED
        BY <1>3, <4>1, <4>2 DEF StackInv, TypeOK
    <3> QED
      BY <3>1, <3>2
  <2>6. \A d \in Types : memo'[d] # "absent" => d \notin schema.extendable
    BY <2>1 DEF StackInv, TypeOK
  <2>7. \A d \in Types : todo'[d] \subseteq schema.fields[d]
    BY DEF StackInv
  <2>8. StackInv'
    BY <1>4, <2>3, <2>4, <2>5, <2>6, <2>7, TypesAssumption DEF StackInv
  <2>9. YesInv'
    BY <1>2, <2>1 DEF YesInv, TypeOK
  <2> QED
    BY <1>1, <2>8, <2>9
<1> QED
  BY <1>5, <1>6

(* A call returns to the one below it.                                     *)
LEMMA PopInv ==
  ASSUME TypeOK, StackInv, stack # <<>>, stack' = Tail(stack), UNCHANGED <<schema, todo, asked>>,
         memo' \in [Types -> {"absent", "true", "false"}],
         \A d \in Types : memo'[d] # memo[d] => memo'[d] = "true" /\ memo[d] # "absent",
         verdict' \in {"true", "false"}
  PROVE  /\ TypeOK' /\ StackInv'
         /\ Head(stack) \in Types
         /\ stack' = <<>> => asked = Head(stack)
         /\ stack' # <<>> => /\ Head(stack') \in Types
                             /\ Head(stack) \in schema.fields[Head(stack')]
<1>1. /\ Len(stack') = Len(stack) - 1
      /\ \A i \in 1 .. Len(stack') : stack'[i] = stack[i + 1]
      /\ Head(stack) = stack[1]
      /\ stack' # <<>> => Head(stack') = stack'[1] /\ Len(stack') > 0
      /\ stack' = <<>> => Len(stack) = 1
      /\ stack' \in Seq(Types)
      /\ Len(stack) \in Nat \ {0}
  <2>1. stack \in Seq(Types) /\ stack # <<>> /\ stack' = Tail(stack)
    BY DEF TypeOK
  <2>2. stack' \in Seq(Types) /\ Len(stack') = Len(stack) - 1 /\ Len(stack) \in Nat \ {0}
    BY <2>1
  <2>3. \A i \in 1 .. Len(stack') : stack'[i] = stack[i + 1]
    BY <2>1, <2>2
  <2>4. stack' # <<>> => Head(stack') = stack'[1] /\ Len(stack') > 0
    BY <2>2
  <2>5. stack' = <<>> => Len(stack) = 1
    BY <2>1, <2>2
  <2> QED
    BY <2>1, <2>2, <2>3, <2>4, <2>5
<1>2. asked = stack[Len(stack)] /\ asked # NoType
  BY <1>1, TypesAssumption DEF TypeOK, StackInv
<1>3. TypeOK'
  BY <1>1 DEF TypeOK, Verdict
<1>4. \A i \in 1 .. Len(stack') - 1 : stack'[i] \in schema.fields[stack'[i + 1]]
  <2> SUFFICES ASSUME NEW i \in 1 .. Len(stack') - 1
               PROVE  stack'[i] \in schema.fields[stack'[i + 1]]
    OBVIOUS
  <2>1. stack'[i] = stack[i + 1] /\ stack'[i + 1] = stack[(i + 1) + 1] /\ i + 1 \in 1 .. Len(stack) - 1
    BY <1>1
  <2> QED
    BY <2>1 DEF StackInv
<1>5. stack' # <<>> => asked = stack'[Len(stack')]
  BY <1>1, <1>2
<1>6. \A i \in 1 .. Len(stack') : memo'[stack'[i]] # "absent"
  <2> SUFFICES ASSUME NEW i \in 1 .. Len(stack') PROVE memo'[stack'[i]] # "absent"
    OBVIOUS
  <2>1. stack'[i] = stack[i + 1] /\ i + 1 \in 1 .. Len(stack) /\ stack'[i] \in Types
    BY <1>1
  <2> QED
    BY <2>1 DEF StackInv
<1>7. \A d \in Types : memo'[d] = "absent" <=> memo[d] = "absent"
  OBVIOUS
<1>8. StackInv'
  BY <1>2, <1>4, <1>5, <1>6, <1>7 DEF StackInv
<1>9. stack' = <<>> => asked = Head(stack)
  BY <1>1, <1>2
<1>10. stack' # <<>> => Head(stack) \in schema.fields[Head(stack')]
  <2> SUFFICES ASSUME stack' # <<>> PROVE Head(stack) \in schema.fields[Head(stack')]
    OBVIOUS
  <2>1. 1 \in 1 .. Len(stack) - 1 /\ Head(stack') = stack[1 + 1]
    BY <1>1
  <2> QED
    BY <1>1, <2>1 DEF StackInv
<1> QED
  BY <1>1, <1>3, <1>8, <1>9, <1>10 DEF TypeOK

LEMMA NoFieldInv == ASSUME IInv, NoField PROVE IInv'
<1>1. TypeOK' /\ StackInv'
  BY PopInv DEF NoField, Calling, IInv, TypeOK
<1>2. YesInv'
  BY DEF NoField, IInv, YesInv, MayContain, Closed
<1> QED
  BY <1>1, <1>2 DEF IInv

LEMMA FieldSaysYesInv == ASSUME IInv, FieldSaysYes PROVE IInv'
<1>1. Head(stack) \in Types /\ stack # <<>> /\ stack[1] = Head(stack) /\ Len(stack) > 0
  BY DEF FieldSaysYes, IInv, TypeOK
<1>2. memo[Head(stack)] # "absent"
  BY <1>1 DEF IInv, TypeOK, StackInv
<1>3. /\ memo' \in [Types -> {"absent", "true", "false"}]
      /\ \A d \in Types : memo'[d] # memo[d] => memo'[d] = "true" /\ d = Head(stack)
  BY <1>1 DEF FieldSaysYes, Memoize, IInv, TypeOK
<1>4. stack' = Tail(stack) /\ UNCHANGED <<schema, todo, verdict, asked>> /\ verdict = "true"
  BY DEF FieldSaysYes
<1>5. /\ TypeOK' /\ StackInv'
      /\ stack' = <<>> => asked = Head(stack)
      /\ stack' # <<>> => Head(stack') \in Types /\ Head(stack) \in schema.fields[Head(stack')]
  BY <1>1, <1>2, <1>3, <1>4, PopInv DEF IInv
<1>6. MayContain(Head(stack))
  BY <1>1, <1>4 DEF IInv, YesInv
<1>7. IF stack' = <<>> THEN MayContain(asked) ELSE MayContain(Head(stack'))
  BY <1>1, <1>5, <1>6, FieldYes
<1>8. \A d : MayContain(d)' <=> MayContain(d)
  BY <1>4 DEF MayContain, Closed
<1>9. YesInv'
  BY <1>3, <1>4, <1>6, <1>7, <1>8 DEF IInv, YesInv
<1> QED
  BY <1>5, <1>9 DEF IInv

LEMMA ReturnInv == ASSUME IInv, Return PROVE IInv'
BY DEF Return, Answered, IInv, TypeOK, StackInv, YesInv, Verdict, MayContain, Closed

LEMMA NextInv == IInv /\ [Next]_memoVars => IInv'
<1> SUFFICES ASSUME IInv, [Next]_memoVars PROVE IInv'
  OBVIOUS
<1>1. ASSUME NEW d \in Types, Query(d) PROVE IInv'
  BY <1>1, QueryEnters, EnterInv
<1>2. CASE NextField
  BY <1>2, NextFieldEnters, EnterInv
<1>3. CASE NoField
  BY <1>3, NoFieldInv
<1>4. CASE FieldSaysYes
  BY <1>4, FieldSaysYesInv
<1>5. CASE Return
  BY <1>5, ReturnInv
<1>6. CASE UNCHANGED memoVars
  BY <1>6 DEF memoVars, IInv, TypeOK, StackInv, YesInv, MayContain, Closed
<1> QED
  BY <1>1, <1>2, <1>3, <1>4, <1>5, <1>6 DEF Next, Recursion

THEOREM Invariant == Spec => []IInv
BY InitInv, NextInv, PTL DEF Spec

(* Every variable of the recursion keeps its type.                         *)
THEOREM Typing == Spec => []TypeOK
BY Invariant, PTL DEF IInv

(* A "yes", memoized or returned, is right, for every schema and after any *)
(* queries (MessageMayContainExtensionsRecursive).                         *)
THEOREM YesIsAlwaysRight == Spec => []YesIsRight
<1>1. IInv => YesIsRight
  BY DEF IInv, YesInv, YesIsRight, Answered
<1> QED
  BY <1>1, Invariant, PTL

-----------------------------------------------------------------------------
(* Before the first "yes": the fields a call has looked at have an entry   *)
(* "false", and a call that is over has looked at all of them.             *)
Quiet ==
  /\ \A d \in Types : memo[d] # "true"
  /\ stack # <<>> => verdict # "true"

QuietInv ==
  Quiet => \A d \in Types : memo[d] = "false" =>
             /\ InStack(d) \/ todo[d] = {}
             /\ \A f \in schema.fields[d] \ todo[d] : memo[f] = "false"

LEMMA EnterQuiet ==
  ASSUME IInv, QuietInv, NEW f \in Types, EnterStep(f) PROVE QuietInv'
<1> SUFFICES ASSUME Quiet', NEW d \in Types, memo'[d] = "false"
             PROVE  /\ InStack(d)' \/ todo'[d] = {}
                    /\ \A g \in schema.fields[d] \ todo'[d] : memo'[g] = "false"
  BY DEF QuietInv, EnterStep
<1> USE DEF IInv, EnterStep
<1>1. /\ \A e \in Types : memo[e] # "absent" => memo'[e] = memo[e]
      /\ \A e \in Types : memo'[e] # memo[e] => e = f /\ stack' = <<f>> \o stack
      /\ stack' = stack \/ stack' = <<f>> \o stack
  BY DEF Enter, Placeholder, Memoized, TypeOK
<1>2. Quiet
  <2>1. ASSUME NEW e \in Types PROVE memo[e] # "true"
    BY <1>1 DEF Quiet
  <2> QED
    BY <2>1 DEF Quiet
<1>3. \A e \in Types : InStack(e) => InStack(e)'
  <2>1. CASE stack' = stack
    BY <2>1 DEF InStack
  <2>2. CASE stack' = <<f>> \o stack
    <3>1. \A i \in 1 .. Len(stack) : i + 1 \in 1 .. Len(stack') /\ stack'[i + 1] = stack[i]
      BY <2>2 DEF TypeOK
    <3> QED
      BY <3>1 DEF InStack
  <2> QED
    BY <1>1, <2>1, <2>2
<1>4. schema.fields[d] \subseteq Types /\ todo[d] \subseteq Types
  BY TypesAssumption DEF TypeOK
<1>5. CASE memo[d] = "false"
  <2>1. InStack(d) \/ todo[d] = {}
    BY <1>2, <1>5 DEF QuietInv
  <2>2. InStack(d)' \/ todo'[d] = {}
    BY <1>3, <2>1
  <2>3. ASSUME NEW g \in schema.fields[d] \ todo'[d] PROVE memo'[g] = "false"
    <3>1. CASE g \notin todo[d]
      <4>1. memo[g] = "false"
        BY <1>2, <1>5, <3>1 DEF QuietInv
      <4> QED
        BY <1>1, <1>4, <4>1
    <3>2. CASE g \in todo[d]
      <4>1. g = f /\ stack # <<>>
        BY <3>2
      <4>2. stack' # <<>>
        BY <1>1, <4>1 DEF TypeOK
      <4>3. verdict' # "true"
        BY <4>2 DEF Quiet
      <4> QED
        BY <1>2, <4>1, <4>3 DEF Enter, Placeholder, Memoized, TypeOK, Quiet
    <3> QED
      BY <3>1, <3>2
  <2> QED
    BY <2>2, <2>3
<1>6. CASE memo[d] # "false"
  <2>1. d = f /\ stack' = <<f>> \o stack /\ memo[d] = "absent"
    BY <1>1, <1>6 DEF TypeOK
  <2>2. InStack(d)'
    <3>1. 1 \in 1 .. Len(stack') /\ stack'[1] = d
      BY <2>1 DEF TypeOK
    <3> QED
      BY <3>1 DEF InStack
  <2>3. todo[d] = schema.fields[d]
    BY <2>1 DEF StackInv
  <2>4. stack # <<>> => d # Head(stack)
    <3>1. stack # <<>> => 1 \in 1 .. Len(stack) /\ Head(stack) = stack[1]
      BY DEF TypeOK
    <3> QED
      BY <2>1, <3>1 DEF StackInv
  <2>5. todo'[d] = schema.fields[d]
    BY <2>3, <2>4
  <2> QED
    BY <2>2, <2>5
<1> QED
  BY <1>5, <1>6

LEMMA NoFieldQuiet == ASSUME IInv, QuietInv, NoField PROVE QuietInv'
<1>1. /\ stack \in Seq(Types) /\ stack # <<>> /\ stack' = Tail(stack)
      /\ UNCHANGED <<schema, memo, todo>>
      /\ todo[Head(stack)] = {} /\ verdict # "true"
  BY DEF NoField, Calling, LoopIsDone, IInv, TypeOK
<1>2. ASSUME NEW d \in Types, InStack(d) PROVE InStack(d)' \/ d = Head(stack)
  <2>1. PICK i \in 1 .. Len(stack) : stack[i] = d
    BY <1>2 DEF InStack
  <2>2. CASE i = 1
    BY <1>1, <2>1, <2>2
  <2>3. CASE i # 1
    <3>1. i - 1 \in 1 .. Len(stack')
      BY <1>1, <2>3
    <3>2. stack'[i - 1] = stack[(i - 1) + 1] /\ (i - 1) + 1 = i
      BY <1>1, <3>1
    <3> QED
      BY <2>1, <3>1, <3>2 DEF InStack
  <2> QED
    BY <2>2, <2>3
<1>3. Quiet' => Quiet
  BY <1>1 DEF Quiet
<1> QED
  BY <1>1, <1>2, <1>3 DEF QuietInv

LEMMA QuietNext == IInv /\ QuietInv /\ [Next]_memoVars => QuietInv'
<1> SUFFICES ASSUME IInv, QuietInv, [Next]_memoVars PROVE QuietInv'
  OBVIOUS
<1>1. ASSUME NEW d \in Types, Query(d) PROVE QuietInv'
  BY <1>1, QueryEnters, EnterQuiet
<1>2. CASE NextField
  BY <1>2, NextFieldEnters, EnterQuiet
<1>3. CASE NoField
  BY <1>3, NoFieldQuiet
<1>4. CASE FieldSaysYes
  <2>1. Head(stack) \in Types
    BY <1>4 DEF FieldSaysYes, IInv, TypeOK
  <2>2. ~Quiet'
    BY <1>4, <2>1 DEF FieldSaysYes, Memoize, Quiet, IInv, TypeOK
  <2> QED
    BY <2>2 DEF QuietInv
<1>5. CASE Return
  BY <1>5 DEF Return, Answered, QuietInv, Quiet, InStack
<1>6. CASE UNCHANGED memoVars
  BY <1>6 DEF memoVars, QuietInv, Quiet, InStack
<1> QED
  BY <1>1, <1>2, <1>3, <1>4, <1>5, <1>6 DEF Next, Recursion

(* Until the first "yes" every memoized "no" is right: the placeholders    *)
(* that calls in progress have put in the memo did no harm.                *)
THEOREM EarlyNoIsRight == Spec => []NoIsRightUntilFirstYes
<1>1. Init => QuietInv
  BY DEF Init, QuietInv
<1>2. IInv /\ QuietInv => NoIsRightUntilFirstYes
  <2> SUFFICES ASSUME IInv, QuietInv, Quiet, stack = <<>>,
                      NEW d \in Types, memo[d] = "false"
               PROVE  ~MayContain(d)
    BY DEF NoIsRightUntilFirstYes, Quiet
  <2> DEFINE S == {e \in Types : memo[e] # "false"}
  <2>1. schema.fields \in [Types -> SUBSET Types] /\ schema.extendable \subseteq Types
    BY TypesAssumption DEF IInv, TypeOK
  <2>2. schema.extendable \subseteq S
    BY <2>1 DEF IInv, StackInv
  <2>3. ASSUME NEW e \in Types, schema.fields[e] \cap S # {} PROVE e \in S
    BY <2>1, <2>3 DEF QuietInv, InStack
  <2>4. Closed(S)
    BY <2>2, <2>3 DEF Closed
  <2>5. S \in SUBSET Types /\ d \notin S
    OBVIOUS
  <2> HIDE DEF S
  <2> QED
    BY <2>4, <2>5 DEF MayContain
<1> QED
  BY <1>1, <1>2, QuietNext, Invariant, PTL DEF Spec

-----------------------------------------------------------------------------
(* Without recursive types the types on the stack rise in height, so that  *)
(* a type with an entry that is met again is not one whose call is in      *)
(* progress.                                                               *)
Height(h) ==
  /\ h \in [Types -> 0 .. MaxHeight]
  /\ \A d \in Types : \A f \in schema.fields[d] : h[f] < h[d]

Rising(h) ==
  \A i, j \in 1 .. Len(stack) : i < j => h[stack[i]] < h[stack[j]]

(* The fields that a call has looked at are free of extensions, but for    *)
(* the one it is looking at.                                               *)
FieldsSeen ==
  \A i \in 1 .. Len(stack) : \A g \in schema.fields[stack[i]] \ todo[stack[i]] :
    \/ ~MayContain(g)
    \/ i > 1 /\ g = stack[i - 1]
    \/ i = 1 /\ verdict = "true"

FinishedNo ==
  /\ \A d \in Types : memo[d] = "false" => InStack(d) \/ ~MayContain(d)
  /\ stack = <<>> /\ verdict = "false" => ~MayContain(asked)

HeightInv == \A h \in [Types -> 0 .. MaxHeight] : Height(h) => Rising(h)
AcyclicInv == HeightInv /\ (Acyclic => FieldsSeen /\ FinishedNo)

LEMMA AcyclicHeight ==
  /\ Acyclic => \E h \in [Types -> 0 .. MaxHeight] : Height(h)
  /\ schema' = schema => /\ Acyclic' <=> Acyclic
                         /\ \A d : MayContain(d)' <=> MayContain(d)
                         /\ \A h : Height(h)' <=> Height(h)
BY DEF Acyclic, Height, MayContain, Closed

(* The stack after a push and after a pop, as its elements.                *)
LEMMA Pushed ==
  ASSUME TypeOK, NEW f \in Types, stack' = <<f>> \o stack
  PROVE  /\ Len(stack') = Len(stack) + 1 /\ stack'[1] = f
         /\ \A i \in 2 .. Len(stack') : i - 1 \in 1 .. Len(stack) /\ stack'[i] = stack[i - 1]
         /\ InStack(f)'
         /\ \A e \in Types : InStack(e) => InStack(e)'
<1>1. Len(stack') = Len(stack) + 1 /\ stack'[1] = f
  BY DEF TypeOK
<1>2. \A i \in 2 .. Len(stack') : i - 1 \in 1 .. Len(stack) /\ stack'[i] = stack[i - 1]
  BY <1>1 DEF TypeOK
<1>3. InStack(f)'
  <2>1. 1 \in 1 .. Len(stack')
    BY <1>1 DEF TypeOK
  <2> QED
    BY <1>1, <2>1 DEF InStack
<1>4. ASSUME NEW e \in Types, InStack(e) PROVE InStack(e)'
  <2>1. PICK i \in 1 .. Len(stack) : stack[i] = e
    BY <1>4 DEF InStack
  <2>2. i + 1 \in 2 .. Len(stack') /\ i + 1 \in 1 .. Len(stack') /\ (i + 1) - 1 = i
    BY <1>1 DEF TypeOK
  <2>3. stack'[i + 1] = stack[(i + 1) - 1]
    BY <1>2, <2>2
  <2> QED
    BY <2>1, <2>2, <2>3 DEF InStack
<1> QED
  BY <1>1, <1>2, <1>3, <1>4

LEMMA Popped ==
  ASSUME TypeOK, stack # <<>>, stack' = Tail(stack)
  PROVE  /\ Len(stack') = Len(stack) - 1
         /\ Head(stack) = stack[1] /\ 1 \in 1 .. Len(stack)
         /\ \A i \in 1 .. Len(stack') : i + 1 \in 1 .. Len(stack) /\ stack'[i] = stack[i + 1]
         /\ \A e \in Types : InStack(e) => InStack(e)' \/ e = Head(stack)
<1>1. /\ Len(stack') = Len(stack) - 1 /\ Len(stack) \in Nat \ {0}
      /\ Head(stack) = stack[1] /\ 1 \in 1 .. Len(stack)
  BY DEF TypeOK
<1>2. \A i \in 1 .. Len(stack') : i + 1 \in 1 .. Len(stack) /\ stack'[i] = stack[i + 1]
  BY <1>1 DEF TypeOK
<1>3. ASSUME NEW e \in Types, InStack(e), e # Head(stack) PROVE InStack(e)'
  <2>1. PICK i \in 1 .. Len(stack) : stack[i] = e
    BY <1>3 DEF InStack
  <2>2. i - 1 \in 1 .. Len(stack') /\ (i - 1) + 1 = i
    BY <1>1, <1>3, <2>1
  <2>3. stack'[i - 1] = stack[(i - 1) + 1]
    BY <1>2, <2>2
  <2> QED
    BY <2>1, <2>2, <2>3 DEF InStack
<1> QED
  BY <1>1, <1>2, <1>3

LEMMA EnterRising ==
  ASSUME IInv, HeightInv, NEW f \in Types, EnterStep(f) PROVE HeightInv'
<1> USE DEF IInv, EnterStep
<1>1. CASE stack' = stack
  BY <1>1, AcyclicHeight DEF HeightInv, Rising
<1>2. CASE stack' = <<f>> \o stack
  <2> SUFFICES ASSUME NEW h \in [Types -> 0 .. MaxHeight], Height(h),
                      NEW i \in 1 .. Len(stack'), NEW j \in 1 .. Len(stack'), i < j
               PROVE  h[stack'[i]] < h[stack'[j]]
    BY AcyclicHeight DEF HeightInv, Rising
  <2>1. Rising(h)
    BY DEF HeightInv
  <2>2. j \in 2 .. Len(stack')
    OBVIOUS
  <2>3. j - 1 \in 1 .. Len(stack) /\ stack'[j] = stack[j - 1]
    BY <1>2, <2>2, Pushed
  <2>4. CASE i # 1
    <3>1. i - 1 \in 1 .. Len(stack) /\ stack'[i] = stack[i - 1]
      BY <1>2, <2>4, Pushed
    <3>2. i - 1 < j - 1
      OBVIOUS
    <3> QED
      BY <2>1, <2>3, <3>1, <3>2 DEF Rising
  <2>5. CASE i = 1
    <3>1. stack # <<>> /\ Head(stack) = stack[1] /\ 1 \in 1 .. Len(stack)
      BY <2>3 DEF TypeOK
    <3>2. stack[1] \in Types /\ stack[j - 1] \in Types
      BY <2>3, <3>1 DEF TypeOK
    <3>3. h[f] < h[stack[1]]
      BY <3>1, <3>2 DEF Height
    <3>4. j - 1 = 1 \/ h[stack[1]] < h[stack[j - 1]]
      <4>1. j - 1 = 1 \/ 1 < j - 1
        BY <2>2
      <4> QED
        BY <2>1, <2>3, <3>1, <4>1 DEF Rising
    <3>5. h[f] \in Nat /\ h[stack[1]] \in Nat /\ h[stack[j - 1]] \in Nat
      BY <3>2, TypesAssumption
    <3>6. stack'[i] = f
      BY <1>2, <2>5, Pushed
    <3> QED
      BY <2>3, <3>3, <3>4, <3>5, <3>6
  <2> QED
    BY <2>4, <2>5
<1> QED
  BY <1>1, <1>2 DEF Enter, Placeholder

(* What is entered is in no call in progress, and those are all different. *)
LEMMA EnteredIsNew ==
  ASSUME IInv, HeightInv, Acyclic, NEW f \in Types, EnterStep(f)
  PROVE  /\ ~InStack(f)
         /\ \A i \in 1 .. Len(stack) : stack[i] = Head(stack) => i = 1
<1> USE DEF IInv, EnterStep
<1>1. PICK h \in [Types -> 0 .. MaxHeight] : Height(h)
  BY AcyclicHeight
<1>2. Rising(h)
  BY <1>1 DEF HeightInv
<1>3. ASSUME NEW i \in 1 .. Len(stack) PROVE stack[i] # f /\ (stack[i] = Head(stack) => i = 1)
  <2>1. stack # <<>> /\ Head(stack) = stack[1] /\ 1 \in 1 .. Len(stack)
    BY DEF TypeOK
  <2>2. stack[1] \in Types /\ stack[i] \in Types
    BY <2>1 DEF TypeOK
  <2>3. h[f] < h[stack[1]]
    BY <1>1, <2>1, <2>2 DEF Height
  <2>4. i = 1 \/ h[stack[1]] < h[stack[i]]
    BY <1>2, <2>1 DEF Rising, TypeOK
  <2>5. h[f] \in Nat /\ h[stack[1]] \in Nat /\ h[stack[i]] \in Nat
    BY <2>2, TypesAssumption
  <2> QED
    BY <2>1, <2>3, <2>4, <2>5
<1> QED
  BY <1>3 DEF InStack

LEMMA EnterAcyclic ==
  ASSUME IInv, HeightInv, Acyclic, FieldsSeen, FinishedNo,
         NEW f \in Types, EnterStep(f)
  PROVE  FieldsSeen' /\ FinishedNo'
<1> USE DEF IInv, EnterStep
<1>1. /\ ~InStack(f)
      /\ \A i \in 1 .. Len(stack) : stack[i] = Head(stack) => i = 1
  BY EnteredIsNew
<1>2. \A d : MayContain(d)' <=> MayContain(d)
  BY AcyclicHeight
<1>3. \A i \in 1 .. Len(stack) : stack[i] \in Types
  BY DEF TypeOK
<1>4. ASSUME NEW i \in 1 .. Len(stack), NEW g \in schema.fields[stack[i]] \ todo'[stack[i]]
      PROVE  \/ ~MayContain(g)
             \/ i > 1 /\ g = stack[i - 1]
             \/ i = 1 /\ g = f
  <2>1. CASE g \notin todo[stack[i]]
    BY <2>1 DEF FieldsSeen
  <2>2. CASE g \in todo[stack[i]]
    <3>1. stack[i] = Head(stack) /\ g = f
      BY <1>3, <2>2
    <3> QED
      BY <1>1, <3>1
  <2> QED
    BY <2>1, <2>2
<1>5. CASE UNCHANGED <<memo, stack>>
  <2>1. verdict' = "true" \/ (~MayContain(f) /\ verdict' = "false")
    BY <1>1, <1>5 DEF Enter, Placeholder, Memoized, TypeOK, FinishedNo
  <2>2. FieldsSeen'
    BY <1>2, <1>4, <1>5, <2>1 DEF FieldsSeen
  <2>3. FinishedNo'
    BY <1>2, <1>5, <2>1 DEF FinishedNo, InStack
  <2> QED
    BY <2>2, <2>3
<1>6. CASE ~UNCHANGED <<memo, stack>>
  <2>1. /\ memo[f] = "absent"
        /\ memo' = [memo EXCEPT ![f] = "false"]
        /\ stack' = <<f>> \o stack
        /\ verdict' = "none"
    BY <1>6 DEF Enter, Placeholder, Memoized
  <2>2. todo'[f] = schema.fields[f]
    <3>1. stack # <<>> => Head(stack) # f
      <4>1. stack # <<>> => 1 \in 1 .. Len(stack) /\ Head(stack) = stack[1]
        BY DEF TypeOK
      <4> QED
        BY <1>1, <4>1 DEF InStack
    <3> QED
      BY <2>1, <3>1 DEF StackInv
  <2>3. FieldsSeen'
    <3> SUFFICES ASSUME NEW i \in 1 .. Len(stack'),
                        NEW g \in schema.fields[stack'[i]] \ todo'[stack'[i]]
                 PROVE  ~MayContain(g) \/ (i > 1 /\ g = stack'[i - 1])
      BY <1>2 DEF FieldsSeen
    <3>1. CASE i = 1
      BY <2>1, <2>2, <3>1, Pushed
    <3>2. CASE i # 1
      <4>1. i \in 2 .. Len(stack')
        BY <3>2
      <4>2. i - 1 \in 1 .. Len(stack) /\ stack'[i] = stack[i - 1]
        BY <2>1, <4>1, Pushed
      <4>3. \/ ~MayContain(g)
            \/ i - 1 > 1 /\ g = stack[(i - 1) - 1]
            \/ i - 1 = 1 /\ g = f
        BY <1>4, <4>2
      <4>4. CASE i - 1 = 1 /\ g = f
        BY <2>1, <4>4, Pushed
      <4>5. CASE i - 1 > 1 /\ g = stack[(i - 1) - 1]
        <5>1. i - 1 \in 2 .. Len(stack')
          BY <4>1, <4>5
        <5>2. stack'[i - 1] = stack[(i - 1) - 1]
          BY <2>1, <5>1, Pushed
        <5> QED
          BY <4>1, <4>5, <5>2
      <4> QED
        BY <4>3, <4>4, <4>5
    <3> QED
      BY <3>1, <3>2
  <2>4. FinishedNo'
    <3> SUFFICES ASSUME NEW d \in Types, memo'[d] = "false"
                 PROVE  InStack(d)' \/ ~MayContain(d)
      BY <1>2, <2>1 DEF FinishedNo
    <3>1. CASE d = f
      BY <2>1, <3>1, Pushed
    <3>2. CASE d # f
      <4>1. memo[d] = "false"
        BY <2>1, <3>2 DEF TypeOK
      <4> QED
        BY <2>1, <4>1, Pushed DEF FinishedNo
    <3> QED
      BY <3>1, <3>2
  <2> QED
    BY <2>3, <2>4
<1> QED
  BY <1>5, <1>6

LEMMA PopRising ==
  ASSUME TypeOK, HeightInv, stack # <<>>, stack' = Tail(stack), schema' = schema
  PROVE  HeightInv'
<1> SUFFICES ASSUME NEW h \in [Types -> 0 .. MaxHeight], Height(h),
                    NEW i \in 1 .. Len(stack'), NEW j \in 1 .. Len(stack'), i < j
             PROVE  h[stack'[i]] < h[stack'[j]]
  BY AcyclicHeight DEF HeightInv, Rising
<1>1. Rising(h)
  BY DEF HeightInv
<1>2. /\ i + 1 \in 1 .. Len(stack) /\ stack'[i] = stack[i + 1]
      /\ j + 1 \in 1 .. Len(stack) /\ stack'[j] = stack[j + 1]
  BY Popped
<1> QED
  BY <1>1, <1>2 DEF Rising

LEMMA NoFieldAcyclic ==
  ASSUME IInv, HeightInv, Acyclic, FieldsSeen, FinishedNo, NoField
  PROVE  FieldsSeen' /\ FinishedNo'
<1> DEFINE d == Head(stack)
<1>1. /\ stack # <<>> /\ stack' = Tail(stack) /\ UNCHANGED <<schema, memo, todo, asked>>
      /\ todo[d] = {} /\ verdict # "true" /\ verdict' = "false"
  BY DEF NoField, Calling, LoopIsDone
<1>2. d = stack[1] /\ 1 \in 1 .. Len(stack) /\ d \in Types
  BY <1>1, Popped DEF IInv, TypeOK
<1>3. ~MayContain(d)
  <2>1. \A g \in schema.fields[d] : ~MayContain(g)
    BY <1>1, <1>2 DEF FieldsSeen
  <2>2. d \notin schema.extendable
    BY <1>2 DEF IInv, StackInv
  <2> QED
    BY <1>2, <2>1, <2>2, FieldsNo DEF IInv
<1>4. \A e : MayContain(e)' <=> MayContain(e)
  BY <1>1, AcyclicHeight
<1>5. FieldsSeen'
  <2> SUFFICES ASSUME NEW i \in 1 .. Len(stack'),
                      NEW g \in schema.fields[stack'[i]] \ todo[stack'[i]]
               PROVE  ~MayContain(g) \/ (i > 1 /\ g = stack'[i - 1])
    BY <1>1, <1>4 DEF FieldsSeen
  <2>1. i + 1 \in 1 .. Len(stack) /\ stack'[i] = stack[i + 1]
    BY <1>1, Popped DEF IInv
  <2>2. ~MayContain(g) \/ g = stack[i]
    <3>1. i + 1 # 1 /\ (i + 1) - 1 = i
      OBVIOUS
    <3> QED
      BY <2>1, <3>1 DEF FieldsSeen
  <2>3. CASE i = 1
    BY <1>2, <1>3, <2>2, <2>3
  <2>4. CASE i # 1
    <3>1. i - 1 \in 1 .. Len(stack') /\ (i - 1) + 1 = i /\ i > 1
      BY <2>4
    <3>2. stack'[i - 1] = stack[(i - 1) + 1]
      BY <1>1, <3>1, Popped DEF IInv
    <3> QED
      BY <2>2, <3>1, <3>2
  <2> QED
    BY <2>3, <2>4
<1>6. FinishedNo'
  <2>1. ASSUME NEW e \in Types, memo[e] = "false" PROVE InStack(e)' \/ ~MayContain(e)
    BY <1>1, <1>3, <2>1, Popped DEF FinishedNo, IInv
  <2>2. stack' = <<>> => asked = d
    <3>1. stack' = <<>> => Len(stack) = 1
      <4>1. Len(stack') = Len(stack) - 1 /\ Len(stack) \in Nat
        BY <1>1, Popped DEF IInv, TypeOK
      <4> QED
        BY <4>1
    <3> QED
      BY <1>1, <1>2, <3>1 DEF IInv, StackInv
  <2> QED
    BY <1>1, <1>3, <1>4, <2>1, <2>2 DEF FinishedNo
<1> QED
  BY <1>5, <1>6

LEMMA FieldSaysYesAcyclic ==
  ASSUME IInv, HeightInv, Acyclic, FieldsSeen, FinishedNo, FieldSaysYes
  PROVE  FieldsSeen' /\ FinishedNo'
<1> DEFINE d == Head(stack)
<1>1. /\ stack # <<>> /\ stack' = Tail(stack) /\ UNCHANGED <<schema, todo, verdict, asked>>
      /\ verdict = "true" /\ memo' = [memo EXCEPT ![d] = "true"]
  BY DEF FieldSaysYes, Memoize
<1>2. \A e : MayContain(e)' <=> MayContain(e)
  BY <1>1, AcyclicHeight
<1>3. FieldsSeen'
  <2> SUFFICES ASSUME NEW i \in 1 .. Len(stack'), i # 1,
                      NEW g \in schema.fields[stack'[i]] \ todo[stack'[i]]
               PROVE  ~MayContain(g) \/ g = stack'[i - 1]
    BY <1>1, <1>2 DEF FieldsSeen
  <2>1. i + 1 \in 1 .. Len(stack) /\ stack'[i] = stack[i + 1]
    BY <1>1, Popped DEF IInv
  <2>2. ~MayContain(g) \/ g = stack[i]
    <3>1. i + 1 # 1 /\ (i + 1) - 1 = i
      OBVIOUS
    <3> QED
      BY <2>1, <3>1 DEF FieldsSeen
  <2>3. i - 1 \in 1 .. Len(stack') /\ (i - 1) + 1 = i
    OBVIOUS
  <2>4. stack'[i - 1] = stack[(i - 1) + 1]
    BY <1>1, <2>3, Popped DEF IInv
  <2> QED
    BY <2>2, <2>3, <2>4
<1>4. FinishedNo'
  <2>1. ASSUME NEW e \in Types, memo'[e] = "false" PROVE InStack(e)' \/ ~MayContain(e)
    <3>1. e # d /\ memo[e] = "false"
      BY <1>1, <2>1 DEF IInv, TypeOK
    <3> QED
      BY <1>1, <3>1, Popped DEF FinishedNo, IInv
  <2> QED
    BY <1>1, <1>2, <2>1 DEF FinishedNo
<1> QED
  BY <1>3, <1>4

LEMMA AcyclicNext == IInv /\ AcyclicInv /\ [Next]_memoVars => AcyclicInv'
<1> SUFFICES ASSUME IInv, AcyclicInv, [Next]_memoVars PROVE AcyclicInv'
  OBVIOUS
<1>1. ASSUME NEW f \in Types, EnterStep(f) PROVE AcyclicInv'
  BY <1>1, EnterRising, EnterAcyclic, AcyclicHeight DEF AcyclicInv, EnterStep
<1>2. ASSUME NEW d \in Types, Query(d) PROVE AcyclicInv'
  BY <1>1, <1>2, QueryEnters
<1>3. CASE NextField
  BY <1>1, <1>3, NextFieldEnters
<1>4. CASE NoField
  BY <1>4, PopRising, NoFieldAcyclic, AcyclicHeight DEF AcyclicInv, NoField, Calling, IInv
<1>5. CASE FieldSaysYes
  BY <1>5, PopRising, FieldSaysYesAcyclic, AcyclicHeight DEF AcyclicInv, FieldSaysYes, IInv
<1>6. CASE Return
  <2>1. UNCHANGED <<schema, memo, stack, todo>> /\ stack = <<>> /\ verdict' = "none"
    BY <1>6 DEF Return, Answered
  <2>2. FieldsSeen' /\ (FinishedNo => FinishedNo') /\ (HeightInv => HeightInv')
    BY <2>1, AcyclicHeight DEF FieldsSeen, FinishedNo, InStack, HeightInv, Rising
  <2> QED
    BY <2>1, <2>2, AcyclicHeight DEF AcyclicInv
<1>7. CASE UNCHANGED memoVars
  <2>1. UNCHANGED <<schema, memo, stack, todo, verdict, asked>>
    BY <1>7 DEF memoVars
  <2>2. /\ FieldsSeen => FieldsSeen'
        /\ FinishedNo => FinishedNo'
        /\ HeightInv => HeightInv'
    BY <2>1, AcyclicHeight DEF FieldsSeen, FinishedNo, InStack, HeightInv, Rising
  <2> QED
    BY <2>1, <2>2, AcyclicHeight DEF AcyclicInv
<1> QED
  BY <1>2, <1>3, <1>4, <1>5, <1>6, <1>7 DEF Next, Recursion

(* In a program without recursive message types every "no" is right, after *)
(* any queries.                                                            *)
THEOREM AcyclicNoIsRight == Spec => []NoIsRightIfAcyclic
<1>1. Init => AcyclicInv
  BY DEF Init, AcyclicInv, HeightInv, Rising, FieldsSeen, FinishedNo
<1>2. AcyclicInv => NoIsRightIfAcyclic
  BY DEF AcyclicInv, FinishedNo, NoIsRightIfAcyclic, InStack, Answered
<1> QED
  BY <1>1, <1>2, AcyclicNext, Invariant, PTL DEF Spec
-----------------------------------------------------------------------------
(* A type whose call is in progress has its placeholder, so that a call    *)
(* below it returns at once.                                               *)
LEMMA EnterOnce ==
  ASSUME IInv, NoTypeTwice, NEW f \in Types, EnterStep(f) PROVE NoTypeTwice'
<1>1. CASE stack' = stack
  BY <1>1 DEF NoTypeTwice
<1>2. CASE stack' = <<f>> \o stack /\ memo[f] = "absent"
  <2>1. \A i \in 1 .. Len(stack) : stack[i] # f
    BY <1>2 DEF IInv, StackInv
  <2>2. \A i \in 1 .. Len(stack') : i = 1 \/ i \in 2 .. Len(stack')
    OBVIOUS
  <2>3. /\ stack'[1] = f
        /\ \A i \in 2 .. Len(stack') : i - 1 \in 1 .. Len(stack) /\ stack'[i] = stack[i - 1]
    BY <1>2, Pushed DEF IInv
  <2> SUFFICES ASSUME NEW i \in 1 .. Len(stack'), NEW j \in 1 .. Len(stack'),
                      stack'[i] = stack'[j]
               PROVE  i = j
    BY DEF NoTypeTwice
  <2>4. CASE i = 1 \/ j = 1
    BY <2>1, <2>2, <2>3, <2>4
  <2>5. CASE i # 1 /\ j # 1
    <3>1. i - 1 = j - 1
      BY <2>2, <2>3, <2>5 DEF NoTypeTwice
    <3> QED
      BY <3>1
  <2> QED
    BY <2>4, <2>5
<1>3. stack' = stack \/ (stack' = <<f>> \o stack /\ memo[f] = "absent")
  BY DEF EnterStep, Enter, Memoized
<1> QED
  BY <1>1, <1>2, <1>3

LEMMA PopOnce ==
  ASSUME TypeOK, NoTypeTwice, stack # <<>>, stack' = Tail(stack) PROVE NoTypeTwice'
<1> SUFFICES ASSUME NEW i \in 1 .. Len(stack'), NEW j \in 1 .. Len(stack'),
                    stack'[i] = stack'[j]
             PROVE  i = j
  BY DEF NoTypeTwice
<1>1. /\ i + 1 \in 1 .. Len(stack) /\ stack'[i] = stack[i + 1]
      /\ j + 1 \in 1 .. Len(stack) /\ stack'[j] = stack[j + 1]
  BY Popped
<1>2. i + 1 = j + 1
  BY <1>1 DEF NoTypeTwice
<1> QED
  BY <1>2

(* The recursion has at most one call for each type, whatever the types    *)
(* contain: it ends, because of the placeholders and of nothing else.      *)
THEOREM RecursionEnds == Spec => []NoTypeTwice
<1>1. Init => NoTypeTwice
  BY DEF Init, NoTypeTwice
<1>2. IInv /\ NoTypeTwice /\ [Next]_memoVars => NoTypeTwice'
  <2> SUFFICES ASSUME IInv, NoTypeTwice, [Next]_memoVars PROVE NoTypeTwice'
    OBVIOUS
  <2>1. ASSUME NEW d \in Types, Query(d) PROVE NoTypeTwice'
    BY <2>1, QueryEnters, EnterOnce
  <2>2. CASE NextField
    BY <2>2, NextFieldEnters, EnterOnce
  <2>3. CASE NoField
    BY <2>3, PopOnce DEF NoField, Calling, IInv
  <2>4. CASE FieldSaysYes
    BY <2>4, PopOnce DEF FieldSaysYes, IInv
  <2>5. CASE Return \/ UNCHANGED memoVars
    BY <2>5 DEF Return, memoVars, NoTypeTwice
  <2> QED
    BY <2>1, <2>2, <2>3, <2>4, <2>5 DEF Next, Recursion
<1> QED
  BY <1>1, <1>2, Invariant, PTL DEF Spec
=============================================================================
