------------------------- MODULE UnknownFieldsProofs -------------------------
(***************************************************************************)
(* Proofs about UnknownFields, for every schema, every message, every set  *)
(* of allowed keys and every order of the policy functions.                *)
(***************************************************************************)
EXTENDS UnknownFields, MayContainExtensionsProofs, SequenceTheorems

(* The search is inside a message, and a call of it ends before the        *)
(* message's own.                                                          *)
SearchInv ==
  /\ allow_list \subseteq AllowKeys
  /\ at \in Place
  /\ path \in Seq(Nodes)
  /\ at \in {"visit", "ask", "loop"} => path # <<>>
  /\ left \in [Nodes -> SUBSET Nodes]

PolicyInv ==
  /\ policy \in {"WeakDisallow", "WeakEnableFallback", "StrongDisallow"}
  /\ setters \subseteq {"weak", "strong"}
  /\ policy = "WeakDisallow" <=> setters = {}
  /\ policy = "WeakEnableFallback" <=> setters = {"weak"}

-----------------------------------------------------------------------------
(* A step of the search from a message that it is in.                      *)
LEMMA Paths ==
  ASSUME SearchInv, path # <<>>
  PROVE  /\ Head(path) \in Nodes
         /\ Tail(path) \in Seq(Nodes)
         /\ Len(path) # 1 => Tail(path) # <<>>
         /\ \A c \in Nodes : <<c>> \o path \in Seq(Nodes) /\ <<c>> \o path # <<>>
<1>1. path \in Seq(Nodes)
  BY DEF SearchInv
<1>2. Head(path) \in Nodes /\ Tail(path) \in Seq(Nodes) /\ Len(Tail(path)) = Len(path) - 1
  BY <1>1, HeadTailProperties
<1>3. Len(path) # 1 => Tail(path) # <<>>
  <2> DEFINE n == Len(path)
             t == Len(Tail(path))
  <2>1. n \in Nat /\ t = n - 1 /\ (Tail(path) = <<>> => t = 0)
    BY <1>1, <1>2, EmptySeq, LenProperties
  <2> HIDE DEF n, t
  <2>2. n # 1 => t # 0
    BY <2>1
  <2>3. n # 1 => Tail(path) # <<>>
    BY <2>1, <2>2
  <2> QED
    BY <2>3 DEF n
<1>4. ASSUME NEW c \in Nodes PROVE <<c>> \o path \in Seq(Nodes) /\ <<c>> \o path # <<>>
  <2>1. <<c>> \in Seq(Nodes) /\ Len(<<c>>) = 1
    OBVIOUS
  <2>2. <<c>> \o path \in Seq(Nodes) /\ Len(<<c>> \o path) = 1 + Len(path)
    BY <1>1, <2>1
  <2> QED
    BY <1>1, <2>2
<1> QED
  BY <1>2, <1>3, <1>4

(* Checks ask MayContainExtensions as its specification says: one query at *)
(* a time, whose answer is taken before the next.                          *)
LEMMA MemoStep == SearchInv /\ [CheckNext]_vars => [Next]_memoVars
<1> SUFFICES ASSUME SearchInv, [CheckNext]_vars PROVE [Next]_memoVars
  OBVIOUS
<1>1. CASE AskType
  <2>1. Query(TypeOf[Head(path)])
    BY <1>1 DEF AskType
  <2>2. TypeOf[Head(path)] \in Types
    BY <1>1, Paths, NodesAssumption DEF AskType, SearchInv
  <2> QED
    BY <2>1, <2>2 DEF Next
<1>2. CASE TypeQuery \/ TypeAnswer
  BY <1>2 DEF TypeQuery, TypeAnswer, Next
<1>3. CASE CheckNext /\ ~AskType /\ ~(TypeQuery \/ TypeAnswer)
  BY <1>3 DEF CheckNext, SearchStep, WeakEnableFallbackToSerializeParse, StrongSetDisallow,
              AllowUnknownFieldsFor, CheckRecursively, StopHere, EnterSubmessage, LoopEnds,
              Decide, ReturnFromCheck
<1>4. CASE UNCHANGED vars
  BY <1>4 DEF vars
<1> QED
  BY <1>1, <1>2, <1>3, <1>4

LEMMA LeaveInv ==
  ASSUME SearchInv, path # <<>>, LeaveMessage, allow_list' = allow_list PROVE SearchInv'
<1>1. CASE Len(path) = 1
  BY <1>1 DEF LeaveMessage, SearchInv, Place
<1>2. CASE Len(path) # 1
  BY <1>2, Paths DEF LeaveMessage, SearchInv, Place
<1> QED
  BY <1>1, <1>2

LEMMA SearchNext == SearchInv /\ [CheckNext]_vars => SearchInv'
<1> SUFFICES ASSUME SearchInv, [CheckNext]_vars PROVE SearchInv'
  OBVIOUS
<1>1. CASE WeakEnableFallbackToSerializeParse \/ StrongSetDisallow \/ TypeQuery
  BY <1>1 DEF WeakEnableFallbackToSerializeParse, StrongSetDisallow, TypeQuery, searchVars,
              SearchInv
<1>2. ASSUME NEW key \in AllowKeys, AllowUnknownFieldsFor(key) PROVE SearchInv'
  BY <1>2 DEF AllowUnknownFieldsFor, Allow, searchVars, SearchInv
<1>3. ASSUME NEW n \in Nodes, CheckRecursively(n) PROVE SearchInv'
  <2>1. <<n>> \in Seq(Nodes) /\ <<n>> # <<>>
    OBVIOUS
  <2>2. [c \in Nodes |-> Below(c)] \in [Nodes -> SUBSET Nodes]
    BY DEF Below
  <2> QED
    BY <1>3, <2>1, <2>2 DEF CheckRecursively, SearchInv, Place
<1>4. CASE StopHere \/ AskType \/ Decide
  BY <1>4 DEF StopHere, AskType, Decide, SearchInv, Place
<1>5. CASE TypeAnswer
  <2>1. CASE GoesOn
    BY <1>5, <2>1 DEF TypeAnswer, SearchInv, Place
  <2>2. CASE ~GoesOn
    BY <1>5, <2>2, LeaveInv DEF TypeAnswer, SearchInv
  <2> QED
    BY <2>1, <2>2
<1>6. CASE EnterSubmessage
  <2>1. PICK c \in left[Head(path)] : /\ path' = <<c>> \o path
                                      /\ left' = [left EXCEPT ![Head(path)] = @ \ {c}]
    BY <1>6 DEF EnterSubmessage
  <2>2. Head(path) \in Nodes /\ path # <<>>
    BY <1>6, Paths DEF EnterSubmessage, SearchInv
  <2>3. c \in Nodes
    BY <2>2 DEF SearchInv
  <2>4. path' \in Seq(Nodes) /\ path' # <<>>
    BY <2>1, <2>2, <2>3, Paths
  <2>5. left' \in [Nodes -> SUBSET Nodes]
    BY <2>1, <2>2 DEF SearchInv
  <2> QED
    BY <1>6, <2>4, <2>5 DEF EnterSubmessage, SearchInv, Place
<1>7. CASE LoopEnds
  BY <1>7, LeaveInv DEF LoopEnds, SearchInv
<1>8. CASE ReturnFromCheck
  BY <1>8 DEF ReturnFromCheck, SearchInv, Place
<1>9. CASE UNCHANGED vars
  BY <1>9 DEF vars, searchVars, SearchInv
<1> QED
  BY <1>1, <1>2, <1>3, <1>4, <1>5, <1>6, <1>7, <1>8, <1>9 DEF CheckNext, SearchStep

LEMMA PolicyNext == PolicyInv /\ [CheckNext]_vars => PolicyInv'
<1> SUFFICES ASSUME PolicyInv, [CheckNext]_vars PROVE PolicyInv'
  OBVIOUS
<1>1. CASE WeakEnableFallbackToSerializeParse
  BY <1>1 DEF WeakEnableFallbackToSerializeParse, WeakWins, PolicyInv
<1>2. CASE StrongSetDisallow
  BY <1>2 DEF StrongSetDisallow, PolicyInv
<1>3. CASE UNCHANGED policyVars
  BY <1>3 DEF policyVars, PolicyInv
<1> QED
  BY <1>1, <1>2, <1>3 DEF CheckNext, SearchStep, AllowUnknownFieldsFor, CheckRecursively,
     StopHere, AskType, TypeQuery, TypeAnswer, EnterSubmessage, LoopEnds, Decide,
     ReturnFromCheck, vars

LEMMA CheckInitInv == CheckInit => SearchInv /\ PolicyInv
BY DEF CheckInit, SearchInv, PolicyInv, Place

-----------------------------------------------------------------------------
(* What the search knows.  A submessage is free when it lies in a set of   *)
(* submessages that holds everything below its members, and none of them   *)
(* has a first unknown field that Python knows.                            *)
FreeSet(S) == \A n \in S : ~Flagged(n) /\ Below(n) \subseteq S

Free(n) == \E S \in SUBSET Nodes : n \in S /\ FreeSet(S)

(* The messages whose search is in progress are a path to the top message. *)
PathInv ==
  /\ path # <<>> => Up[path[Len(path)]] = NoNode
  /\ \A i \in 1 .. Len(path) - 1 : Up[path[i]] = path[i + 1]

(* A submessage that a loop has still to go into has not been looked at,   *)
(* nor has anything below it; one that is being searched was taken out of  *)
(* the loop of the message it is a part of.                                *)
LeftInv ==
  /\ \A n \in Nodes : left[n] \subseteq Below(n)
  /\ \A n, m \in Nodes : Up[n] = m /\ n \in left[m] => left[n] = Below(n)
  /\ \A i \in 1 .. Len(path) - 1 : path[i] \notin left[path[i + 1]]
  /\ at = "visit" => left[Head(path)] = Below(Head(path))

(* What the loops have gone into is free, but for what is being searched.  *)
GoneInto(i, c) == Free(c) \/ (i > 1 /\ c = path[i - 1])

Progress ==
  /\ \A i \in 1 .. Len(path) : \A c \in Below(path[i]) \ left[path[i]] : GoneInto(i, c)
  /\ at = "clean" => Free(Message)

VerdictInv ==
  /\ at # "idle" => path # <<>>
  /\ at = "ask" => asked = TypeOf[Head(path)]
  /\ \A i \in 2 .. Len(path) : ~Flagged(path[i])
  /\ at \in {"ask", "loop"} => ~Flagged(Head(path))
  /\ at \in {"found", "allowed", "error"} => Flagged(Head(path))
  /\ at = "allowed" => MakeAllowListKey(path) \in allow_list
  /\ at = "error" => MakeAllowListKey(path) \notin allow_list
  /\ Acyclic => Progress

FullInv == SearchInv /\ PathInv /\ LeftInv /\ VerdictInv

(* A query that is answered has an answer.                                 *)
AnswerInv == Answered => verdict # "none"

LEMMA AnswerNext == TypeOK /\ AnswerInv /\ [Next]_memoVars => AnswerInv'
<1> SUFFICES ASSUME TypeOK, AnswerInv, [Next]_memoVars PROVE AnswerInv'
  OBVIOUS
<1>1. \A f \in Types : <<f>> \o stack # <<>>
  <2> SUFFICES ASSUME NEW f \in Types PROVE <<f>> \o stack # <<>>
    OBVIOUS
  <2>1. <<f>> \in Seq(Types) /\ stack \in Seq(Types) /\ <<f>> # <<>>
    BY DEF TypeOK
  <2> QED
    BY <2>1, ConcatEqualIffEmpty
<1>2. ASSUME NEW d \in Types, Query(d) PROVE AnswerInv'
  BY <1>1, <1>2 DEF Query, Enter, AnswerInv, Answered, TypeOK, Memoized
<1>3. CASE NextField
  <2>1. PICK f \in todo[Head(stack)] : Enter(f)
    BY <1>3 DEF NextField
  <2>2. stack # <<>> /\ f \in Types
    BY <1>3, HeadTailProperties DEF NextField, Calling, TypeOK
  <2> QED
    BY <1>1, <2>1, <2>2 DEF Enter, AnswerInv, Answered
<1>4. CASE NoField \/ FieldSaysYes \/ Return \/ UNCHANGED memoVars
  BY <1>4 DEF NoField, FieldSaysYes, Return, memoVars, AnswerInv, Answered
<1> QED
  BY <1>2, <1>3, <1>4 DEF Next, Recursion

-----------------------------------------------------------------------------
LEMMA FlaggedKnown ==
  ASSUME NEW n \in Nodes
  PROVE  /\ Flagged(n) <=> Unknown[n] # <<>> /\ Unknown[n][1] = "known"
         /\ Flagged(n) => \A s \in Schemas : TypeOf[n] \in s.extendable
<1>1. Unknown[n] \in Seq({"known", "foreign"})
  BY NodesAssumption
<1>2. Flagged(n) <=> Unknown[n] # <<>> /\ Unknown[n][1] = "known"
  BY <1>1 DEF Flagged
<1>3. Unknown[n] # <<>> => 1 \in 1 .. Len(Unknown[n])
  BY <1>1, EmptySeq
<1> QED
  BY <1>2, <1>3, SchemaAssumption

(* A message whose submessages are free is free if it is not flagged.      *)
LEMMA FreeMessage ==
  ASSUME NEW n \in Nodes, ~Flagged(n), \A c \in Below(n) : Free(c)
  PROVE  Free(n)
<1> DEFINE AllFree == {c \in Nodes : Free(c)}
           S == AllFree \cup {n}
<1>1. ASSUME NEW c \in AllFree PROVE ~Flagged(c) /\ Below(c) \subseteq AllFree
  <2>1. PICK T \in SUBSET Nodes : c \in T /\ FreeSet(T)
    BY <1>1 DEF Free
  <2>2. T \subseteq AllFree
    BY <2>1 DEF Free
  <2> QED
    BY <2>1, <2>2 DEF FreeSet
<1>2. Below(n) \subseteq AllFree
  BY DEF Below
<1>3. FreeSet(S)
  <2> HIDE DEF AllFree
  <2> QED
    BY <1>1, <1>2 DEF FreeSet
<1>4. S \in SUBSET Nodes /\ n \in S
  OBVIOUS
<1> HIDE DEF S
<1> QED
  BY <1>3, <1>4 DEF Free

(* Nothing is found below a message of a type that contains no extensions. *)
LEMMA NoExtensionsFree ==
  ASSUME TypeOK, NEW n \in Nodes, ~MayContain(TypeOf[n])
  PROVE  Free(n)
<1> DEFINE S == {m \in Nodes : ~MayContain(TypeOf[m])}
<1>1. schema \in Schemas /\ schema.extendable \subseteq Types
  BY TypesAssumption DEF TypeOK
<1>2. ASSUME NEW m \in S PROVE ~Flagged(m)
  <2>1. TypeOf[m] \notin schema.extendable
    BY ExtendableYes
  <2> QED
    BY <1>1, <2>1, FlaggedKnown
<1>3. ASSUME NEW m \in S, NEW c \in Below(m) PROVE c \in S
  <2>1. c \in Nodes /\ Up[c] = m /\ m # NoNode
    BY NodesAssumption DEF Below
  <2>2. TypeOf[m] \notin schema.extendable
    BY ExtendableYes
  <2>3. TypeOf[c] \in schema.fields[TypeOf[m]]
    BY <1>1, <2>1, <2>2, SchemaAssumption
  <2>4. TypeOf[c] \in Types /\ TypeOf[m] \in Types
    BY <2>1, NodesAssumption
  <2> QED
    BY <2>1, <2>3, <2>4, FieldYes
<1>4. FreeSet(S) /\ n \in S /\ S \in SUBSET Nodes
  BY <1>2, <1>3 DEF FreeSet
<1> HIDE DEF S
<1> QED
  BY <1>4 DEF Free

(* What is in a free message is free of flags.                             *)
LEMMA FreeTop ==
  ASSUME NEW t \in Nodes, Free(t), NEW n \in Nodes, Top[n] = t
  PROVE  ~Flagged(n)
<1>1. PICK S \in SUBSET Nodes : t \in S /\ FreeSet(S)
  BY DEF Free
<1> DEFINE T == {m \in Nodes : Top[m] = t /\ m \notin S}
<1>2. T = {}
  <2> SUFFICES ASSUME T # {} PROVE FALSE
    OBVIOUS
  <2>1. PICK m \in T : Up[m] \notin T
    BY TreeAssumption
  <2>2. CASE Up[m] = NoNode
    BY <1>1, <2>2, TreeAssumption
  <2>3. CASE Up[m] # NoNode
    <3>1. Up[m] \in Nodes /\ Top[Up[m]] = t
      BY <2>3, TreeAssumption, NodesAssumption
    <3>2. Up[m] \in S /\ m \in Below(Up[m])
      BY <2>1, <3>1 DEF Below
    <3> QED
      BY <1>1, <3>2 DEF FreeSet
  <2> QED
    BY <2>2, <2>3
<1> QED
  BY <1>1, <1>2 DEF FreeSet

-----------------------------------------------------------------------------
(* The path as the search goes into a submessage, and as it leaves one.    *)
LEMMA PathPushed ==
  ASSUME SearchInv, path # <<>>, NEW c \in Nodes, path' = <<c>> \o path
  PROVE  /\ Len(path) \in Nat \ {0} /\ Len(path') = Len(path) + 1
         /\ Head(path) = path[1] /\ Head(path') = c /\ path'[1] = c
         /\ \A i \in 1 .. Len(path) : path'[i + 1] = path[i]
         /\ \A i \in 1 .. Len(path) : path[i] \in Nodes
<1>1. path \in Seq(Nodes) /\ <<c>> \in Seq(Nodes) /\ Len(<<c>>) = 1 /\ <<c>>[1] = c
  BY DEF SearchInv
<1>2. Len(path) \in Nat \ {0}
  BY <1>1, EmptySeq
<1>3. path' \in Seq(Nodes) /\ Len(path') = Len(path) + 1
  BY <1>1, <1>2
<1>4. \A i \in 1 .. 1 + Len(path) : path'[i] = IF i <= 1 THEN <<c>>[i] ELSE path[i - 1]
  BY <1>1, ConcatProperties
<1>5. path'[1] = c /\ \A i \in 1 .. Len(path) : path'[i + 1] = path[i]
  <2> DEFINE n == Len(path)
  <2> HIDE DEF n
  <2>1. n \in Nat /\ \A i \in 1 .. 1 + n : path'[i] = IF i <= 1 THEN <<c>>[i] ELSE path[i - 1]
    BY <1>2, <1>4 DEF n
  <2>2. path'[1] = c
    BY <1>1, <2>1
  <2>3. ASSUME NEW i \in 1 .. n PROVE path'[i + 1] = path[i]
    <3>1. i + 1 \in 1 .. 1 + n /\ ~(i + 1 <= 1) /\ (i + 1) - 1 = i
      BY <2>1
    <3> QED
      BY <2>1, <3>1
  <2> QED
    BY <2>2, <2>3 DEF n
<1>6. Head(path') = path'[1] /\ Head(path) = path[1]
  BY <1>1, <1>3
<1>7. \A i \in 1 .. Len(path) : path[i] \in Nodes
  BY <1>1, ElementOfSeq
<1> QED
  BY <1>2, <1>3, <1>5, <1>6, <1>7

LEMMA PathPopped ==
  ASSUME SearchInv, path # <<>>, Len(path) # 1, path' = Tail(path)
  PROVE  /\ Len(path) \in Nat \ {0, 1} /\ Len(path') = Len(path) - 1
         /\ Head(path) = path[1] /\ Head(path') = path[2] /\ path' # <<>>
         /\ \A i \in 1 .. Len(path') : path'[i] = path[i + 1]
         /\ \A i \in 1 .. Len(path) : path[i] \in Nodes
<1>1. path \in Seq(Nodes) /\ Len(path) \in Nat \ {0, 1}
  BY EmptySeq DEF SearchInv
<1>2. /\ path' \in Seq(Nodes) /\ Len(path') = Len(path) - 1
      /\ \A i \in 1 .. Len(path') : path'[i] = path[i + 1]
  BY <1>1, HeadTailProperties
<1>3. path' # <<>> /\ 1 \in 1 .. Len(path')
  <2> DEFINE n == Len(path)
             m == Len(path')
  <2>1. n \in Nat \ {0, 1} /\ m = n - 1 /\ (path' = <<>> => m = 0)
    BY <1>1, <1>2
  <2> HIDE DEF n, m
  <2>2. m # 0 /\ 1 \in 1 .. m
    BY <2>1
  <2> QED
    BY <2>1, <2>2 DEF m
<1>4. Head(path') = path'[1] /\ Head(path) = path[1]
  BY <1>1, <1>2, <1>3
<1>5. path'[1] = path[2]
  BY <1>2, <1>3
<1>6. \A i \in 1 .. Len(path) : path[i] \in Nodes
  BY <1>1, ElementOfSeq
<1> QED
  BY <1>1, <1>2, <1>3, <1>4, <1>5, <1>6

(* The message that is searched is above none of those that lead to it.    *)
LEMMA NoLoop ==
  ASSUME FullInv, NEW j \in 1 .. Len(path), Up[path[j]] = path[1]
  PROVE  FALSE
<1> DEFINE n == Len(path)
           S == {path[i] : i \in 1 .. j}
<1>1. path \in Seq(Nodes) /\ n \in Nat /\ \A i \in 1 .. n : path[i] \in Nodes
  BY LenProperties, ElementOfSeq DEF FullInv, SearchInv
<1>2. \A i \in 1 .. n - 1 : Up[path[i]] = path[i + 1]
  BY DEF FullInv, PathInv
<1> HIDE DEF n
<1>3. j \in 1 .. n
  BY DEF n
<1>4. S \in SUBSET Nodes /\ path[1] \in S
  BY <1>1, <1>3
<1>5. PICK i \in 1 .. j : Up[path[i]] \notin S
  BY <1>4, TreeAssumption
<1>6. CASE i = j
  BY <1>4, <1>5, <1>6
<1>7. CASE i # j
  <2>1. i \in 1 .. n - 1 /\ i + 1 \in 1 .. j
    BY <1>1, <1>3, <1>7
  <2> QED
    BY <1>2, <1>5, <2>1
<1> QED
  BY <1>6, <1>7

(* The innermost call has returned false: its message is free, and so the  *)
(* loop of the message above goes on with one submessage less to find.     *)
LEMMA LeaveFull ==
  ASSUME FullInv, TypeOK, UNCHANGED <<schema, allow_list>>, at \in {"ask", "loop"},
         LeaveMessage, Acyclic => Free(Head(path))
  PROVE  PathInv' /\ LeftInv' /\ VerdictInv'
<1>1. path # <<>> /\ path \in Seq(Nodes)
  BY DEF FullInv, VerdictInv, SearchInv
<1>2. Acyclic' <=> Acyclic
  BY DEF Acyclic
<1>3. CASE Len(path) = 1
  <2>1. at' = "clean" /\ UNCHANGED <<path, left>>
    BY <1>3 DEF LeaveMessage
  <2>2. Message = Head(path)
    BY <1>1, <1>3 DEF Message
  <2>3. PathInv' /\ LeftInv'
    BY <2>1 DEF FullInv, PathInv, LeftInv
  <2>4. Acyclic' => Progress'
    BY <1>2, <2>1, <2>2 DEF FullInv, VerdictInv, Progress, GoneInto, Message
  <2> QED
    BY <2>1, <2>3, <2>4 DEF FullInv, VerdictInv
<1>4. CASE Len(path) # 1
  <2> DEFINE n == Len(path)
             m == Len(path')
  <2>1. at' = "loop" /\ path' = Tail(path) /\ UNCHANGED left
    BY <1>4 DEF LeaveMessage
  <2>2. /\ n \in Nat \ {0, 1} /\ m = n - 1
        /\ Head(path) = path[1] /\ Head(path') = path[2] /\ path' # <<>>
        /\ \A i \in 1 .. m : path'[i] = path[i + 1]
        /\ \A i \in 1 .. n : path[i] \in Nodes
    BY <1>1, <1>4, <2>1, PathPopped DEF FullInv
  <2> HIDE DEF n, m
  <2>3. PathInv'
    <3>1. Up[path[n]] = NoNode /\ \A i \in 1 .. n - 1 : Up[path[i]] = path[i + 1]
      BY <1>1 DEF FullInv, PathInv, n
    <3>2. path'[m] = path[n]
      BY <2>2
    <3>3. ASSUME NEW i \in 1 .. m - 1 PROVE Up[path'[i]] = path'[i + 1]
      <4>1. i \in 1 .. m /\ i + 1 \in 1 .. m /\ i + 1 \in 1 .. n - 1
        BY <2>2
      <4> QED
        BY <2>2, <3>1, <4>1
    <3> QED
      BY <3>1, <3>2, <3>3 DEF PathInv, m
  <2>4. LeftInv'
    <3>1. \A i \in 1 .. n - 1 : path[i] \notin left[path[i + 1]]
      BY DEF FullInv, LeftInv, n
    <3>2. ASSUME NEW i \in 1 .. m - 1 PROVE path'[i] \notin left'[path'[i + 1]]
      <4>1. i \in 1 .. m /\ i + 1 \in 1 .. m /\ i + 1 \in 1 .. n - 1
        BY <2>2
      <4> QED
        BY <2>1, <2>2, <3>1, <4>1
    <3> QED
      BY <2>1, <3>2 DEF FullInv, LeftInv, m
  <2>5. \A i \in 2 .. n : ~Flagged(path[i])
    BY DEF FullInv, VerdictInv, n
  <2>6. ~Flagged(Head(path')) /\ \A i \in 2 .. m : ~Flagged(path'[i])
    BY <2>2, <2>5
  <2>7. ASSUME Acyclic PROVE Progress'
    <3>1. \A i \in 1 .. n : \A c \in Below(path[i]) \ left[path[i]] : GoneInto(i, c)
      BY <2>7 DEF FullInv, VerdictInv, Progress, n
    <3>2. ASSUME NEW i \in 1 .. m, NEW c \in Below(path'[i]) \ left'[path'[i]]
          PROVE  Free(c) \/ (i > 1 /\ c = path'[i - 1])
      <4> i \in 1 .. m
        OBVIOUS
      <4>1. i + 1 \in 1 .. n /\ i \in Nat /\ (i + 1) - 1 = i
        BY <2>2
      <4>2. path'[i] = path[i + 1]
        BY <2>2, <4>1
      <4>3. GoneInto(i + 1, c)
        BY <2>1, <3>1, <3>2, <4>1, <4>2
      <4>4. Free(c) \/ c = path[i]
        BY <4>1, <4>3 DEF GoneInto
      <4>5. CASE i = 1
        BY <2>2, <2>7, <4>4, <4>5
      <4>6. CASE i > 1
        <5>1. i - 1 \in 1 .. m /\ (i - 1) + 1 = i
          BY <2>2, <4>1, <4>6
        <5>2. path'[i - 1] = path[i]
          BY <2>2, <5>1
        <5> QED
          BY <4>4, <4>6, <5>2
      <4> QED
        BY <4>1, <4>5, <4>6
    <3> QED
      BY <2>1, <3>2 DEF Progress, GoneInto, m
  <2> QED
    BY <1>2, <2>1, <2>2, <2>3, <2>4, <2>6, <2>7 DEF VerdictInv, m
<1> QED
  BY <1>3, <1>4

(* Steps that leave the search where it is in its message.                 *)
LEMMA SamePlace ==
  ASSUME FullInv, UNCHANGED <<schema, path, left, asked>>,
         \/ at' = at /\ allow_list' = allow_list
         \/ at = "idle" /\ at' = "idle"
  PROVE  PathInv' /\ LeftInv' /\ VerdictInv'
<1>1. PathInv' /\ LeftInv'
  BY DEF FullInv, PathInv, LeftInv
<1>2. Acyclic' => Progress'
  BY DEF FullInv, VerdictInv, Acyclic, Progress, GoneInto, Message
<1>3. MakeAllowListKey(path)' = MakeAllowListKey(path)
  BY DEF MakeAllowListKey, FieldFQN
<1> QED
  BY <1>1, <1>2, <1>3 DEF FullInv, VerdictInv

LEMMA BeginFull ==
  ASSUME NEW n \in Nodes, CheckRecursively(n)
  PROVE  PathInv' /\ LeftInv' /\ VerdictInv'
<1>1. /\ path' = <<n>> /\ Len(<<n>>) = 1 /\ Head(<<n>>) = n /\ <<n>>[1] = n
      /\ Up[n] = NoNode /\ at' = "visit" /\ left' = [c \in Nodes |-> Below(c)]
  BY DEF CheckRecursively
<1>2. PathInv' /\ LeftInv'
  BY <1>1 DEF PathInv, LeftInv
<1>3. Progress'
  BY <1>1 DEF Progress
<1> QED
  BY <1>1, <1>2, <1>3 DEF VerdictInv

LEMMA EnterFull ==
  ASSUME FullInv, EnterSubmessage
  PROVE  PathInv' /\ LeftInv' /\ VerdictInv'
<1> DEFINE h == Head(path)
           n == Len(path)
           m == Len(path')
<1>1. PICK c \in left[h] : /\ path' = <<c>> \o path
                           /\ left' = [left EXCEPT ![h] = @ \ {c}]
  BY DEF EnterSubmessage
<1>2. path # <<>> /\ h \in Nodes /\ c \in Nodes /\ c \in Below(h) /\ Up[c] = h
  <2>1. path # <<>> /\ h \in Nodes
    BY Paths DEF FullInv, VerdictInv, EnterSubmessage
  <2> QED
    BY <1>1, <2>1 DEF FullInv, LeftInv, SearchInv, Below
<1>3. /\ n \in Nat \ {0} /\ m = n + 1
      /\ h = path[1] /\ Head(path') = c /\ path'[1] = c
      /\ \A i \in 1 .. n : path'[i + 1] = path[i]
      /\ \A i \in 1 .. n : path[i] \in Nodes
  BY <1>1, <1>2, PathPushed DEF FullInv
<1>4. path' # <<>> /\ at' = "visit" /\ UNCHANGED <<schema, allow_list>> /\ ~Flagged(h)
  BY <1>1, <1>2, Paths DEF FullInv, VerdictInv, EnterSubmessage, memoVars
<1>5. /\ left' \in [Nodes -> SUBSET Nodes]
      /\ left'[h] = left[h] \ {c} /\ \A a \in Nodes : a # h => left'[a] = left[a]
  BY <1>1, <1>2 DEF FullInv, SearchInv
<1> HIDE DEF n, m, h
<1>6. \A i \in 2 .. m : i - 1 \in 1 .. n /\ (i - 1) + 1 = i /\ path'[i] = path[i - 1]
  <2> SUFFICES ASSUME NEW i \in 2 .. m
               PROVE  i - 1 \in 1 .. n /\ (i - 1) + 1 = i /\ path'[i] = path[i - 1]
    OBVIOUS
  <2>1. i - 1 \in 1 .. n /\ (i - 1) + 1 = i
    BY <1>3
  <2> QED
    BY <1>3, <2>1
<1>7. PathInv'
  <2>1. Up[path[n]] = NoNode /\ \A i \in 1 .. n - 1 : Up[path[i]] = path[i + 1]
    BY <1>2 DEF FullInv, PathInv, n
  <2>2. path'[m] = path[n]
    BY <1>3
  <2>3. ASSUME NEW i \in 1 .. m - 1 PROVE Up[path'[i]] = path'[i + 1]
    <3>1. CASE i = 1
      BY <1>2, <1>3, <3>1
    <3>2. CASE i # 1
      <4>1. i \in 2 .. m /\ i - 1 \in 1 .. n - 1 /\ i \in 1 .. n /\ (i - 1) + 1 = i
        BY <1>3, <3>2
      <4> QED
        BY <1>3, <1>6, <2>1, <4>1
    <3> QED
      BY <3>1, <3>2
  <2> QED
    BY <2>1, <2>2, <2>3 DEF PathInv, m
(* No loop that has begun will go into a message that is on the path.      *)
<1>8. h # c
  <2>1. 1 \in 1 .. Len(path)
    BY <1>3 DEF n
  <2> QED
    BY <1>2, <1>3, <2>1, NoLoop
<1>9. LeftInv'
  <2>1. ASSUME NEW a \in Nodes PROVE left'[a] \subseteq Below(a)
    BY <1>5 DEF FullInv, LeftInv
  <2>2. ASSUME NEW a \in Nodes, NEW b \in Nodes, Up[a] = b, a \in left'[b]
        PROVE  left'[a] = Below(a)
    <3>1. a \in left[b] /\ left[a] = Below(a)
      BY <1>5, <2>2 DEF FullInv, LeftInv
    <3>2. h \notin left[Up[h]] \/ Up[h] \notin Nodes
      <4>1. CASE n = 1
        BY <1>2, <1>3, <4>1, NodesAssumption DEF FullInv, PathInv, n
      <4>2. CASE n # 1
        <5>1. 1 \in 1 .. n - 1 /\ 1 + 1 = 2
          BY <1>3, <4>2
        <5> QED
          BY <1>3, <5>1 DEF FullInv, PathInv, LeftInv, n
      <4> QED
        BY <4>1, <4>2
    <3> QED
      BY <1>5, <2>2, <3>1, <3>2
  <2>3. ASSUME NEW i \in 1 .. m - 1 PROVE path'[i] \notin left'[path'[i + 1]]
    <3>1. CASE i = 1
      BY <1>3, <1>5, <3>1
    <3>2. CASE i # 1
      <4>1. i \in 2 .. m /\ i - 1 \in 1 .. n - 1 /\ i \in 1 .. n /\ (i - 1) + 1 = i
        BY <1>3, <3>2
      <4>2. path[i - 1] \notin left[path[(i - 1) + 1]]
        BY <4>1 DEF FullInv, LeftInv, n
      <4>3. path'[i] = path[i - 1] /\ path'[i + 1] = path[i] /\ path[i] \in Nodes
        BY <1>3, <1>6, <4>1
      <4> QED
        BY <1>5, <4>1, <4>2, <4>3
    <3> QED
      BY <3>1, <3>2
  <2>4. left'[c] = Below(c)
    <3>1. left[c] = Below(c)
      BY <1>1, <1>2 DEF FullInv, LeftInv
    <3> QED
      BY <1>2, <1>5, <1>8, <3>1
  <2> QED
    BY <1>3, <2>1, <2>2, <2>3, <2>4 DEF LeftInv, m
<1>10. \A i \in 2 .. m : ~Flagged(path'[i])
  <2>1. \A i \in 2 .. n : ~Flagged(path[i])
    BY DEF FullInv, VerdictInv, n
  <2> SUFFICES ASSUME NEW i \in 2 .. m PROVE ~Flagged(path'[i])
    OBVIOUS
  <2>2. path'[i] = path[i - 1] /\ i - 1 \in 1 .. n
    BY <1>6
  <2> QED
    BY <1>3, <1>4, <2>1, <2>2
<1>11. ASSUME Acyclic PROVE Progress'
  <2>1. \A i \in 1 .. n : \A b \in Below(path[i]) \ left[path[i]] : GoneInto(i, b)
    BY <1>11 DEF FullInv, VerdictInv, Progress, n
  <2>2. ASSUME NEW i \in 1 .. m, NEW b \in Below(path'[i]) \ left'[path'[i]]
        PROVE  Free(b) \/ (i > 1 /\ b = path'[i - 1])
    <3>1. i # 1
      BY <1>3, <1>4, <1>9, <2>2 DEF LeftInv
    <3>2. i \in 2 .. m /\ i - 1 \in 1 .. n /\ path'[i] = path[i - 1] /\ i > 1
      BY <1>3, <1>6, <3>1
    <3>3. CASE b \in left[path[i - 1]]
      <4>1. b = c /\ path[i - 1] = h
        BY <1>3, <1>5, <2>2, <3>2, <3>3
      <4>2. CASE i = 2
        BY <1>3, <3>2, <4>1, <4>2
      <4>3. CASE i # 2
        <5>1. i - 2 \in 1 .. n - 1 /\ (i - 2) + 1 = i - 1 /\ i - 2 \in 1 .. Len(path)
          BY <1>3, <3>2, <4>3 DEF n
        <5>2. Up[path[i - 2]] = path[i - 1]
          BY <5>1 DEF FullInv, PathInv, n
        <5> QED
          BY <1>3, <4>1, <5>1, <5>2, NoLoop
      <4> QED
        BY <4>2, <4>3
    <3>4. CASE b \notin left[path[i - 1]]
      <4>1. GoneInto(i - 1, b)
        BY <2>1, <2>2, <3>2, <3>4
      <4>2. Free(b) \/ (i - 1 > 1 /\ b = path[(i - 1) - 1])
        BY <4>1 DEF GoneInto
      <4>3. i - 1 > 1 => i - 1 \in 2 .. m /\ path'[i - 1] = path[(i - 1) - 1]
        BY <1>3, <1>6, <3>2
      <4> QED
        BY <3>2, <4>2, <4>3
    <3> QED
      BY <3>3, <3>4
  <2> QED
    BY <1>4, <2>2 DEF Progress, GoneInto, m
<1>12. Acyclic' <=> Acyclic
  BY <1>4 DEF Acyclic
<1> QED
  BY <1>4, <1>7, <1>9, <1>10, <1>11, <1>12 DEF VerdictInv, m

(* What a check may rely on when it takes the answer to its question.      *)
MemoInv == TypeOK /\ AnswerInv /\ NoIsRightIfAcyclic

LEMMA AnswerFull ==
  ASSUME FullInv, MemoInv, TypeAnswer
  PROVE  PathInv' /\ LeftInv' /\ VerdictInv'
<1>1. /\ at = "ask" /\ Answered /\ UNCHANGED <<schema, allow_list>>
      /\ asked = TypeOf[Head(path)] /\ path # <<>> /\ ~Flagged(Head(path))
  BY DEF TypeAnswer, Return, FullInv, VerdictInv
<1>2. CASE GoesOn
  <2>1. at' = "loop" /\ UNCHANGED <<path, left>>
    BY <1>2 DEF TypeAnswer
  <2>2. Acyclic' => Progress'
    BY <1>1, <2>1 DEF FullInv, VerdictInv, Acyclic, Progress, GoneInto
  <2> QED
    BY <1>1, <2>1, <2>2 DEF FullInv, PathInv, LeftInv, VerdictInv
<1>3. CASE ~GoesOn
  <2>1. verdict = "false"
    BY <1>1, <1>3 DEF MemoInv, AnswerInv, TypeOK, Verdict, GoesOn
  <2>2. Head(path) \in Nodes
    BY <1>1, Paths DEF FullInv
  <2>3. Acyclic => Free(Head(path))
    BY <1>1, <2>1, <2>2, NoExtensionsFree DEF MemoInv, NoIsRightIfAcyclic
  <2>4. LeaveMessage
    BY <1>3 DEF TypeAnswer
  <2> QED
    BY <1>1, <2>3, <2>4, LeaveFull DEF MemoInv
<1> QED
  BY <1>2, <1>3

LEMMA LoopEndsFull ==
  ASSUME FullInv, MemoInv, LoopEnds
  PROVE  PathInv' /\ LeftInv' /\ VerdictInv'
<1> DEFINE h == Head(path)
           n == Len(path)
<1>1. /\ at = "loop" /\ LeaveMessage /\ UNCHANGED <<schema, allow_list>>
      /\ path # <<>> /\ ~Flagged(h) /\ left[h] = {}
  BY DEF LoopEnds, memoVars, FullInv, VerdictInv
<1>2. h \in Nodes /\ h = path[1] /\ 1 \in 1 .. n
  BY <1>1, HeadTailProperties, EmptySeq DEF FullInv, SearchInv
<1>3. ASSUME Acyclic, NEW c \in Below(h) PROVE Free(c)
  <2>1. GoneInto(1, c)
    BY <1>1, <1>2, <1>3 DEF FullInv, VerdictInv, Progress
  <2> QED
    BY <2>1 DEF GoneInto
<1>4. Acyclic => Free(h)
  BY <1>1, <1>2, <1>3, FreeMessage
<1> QED
  BY <1>1, <1>4, LeaveFull DEF MemoInv

LEMMA FullNext == FullInv /\ MemoInv /\ [CheckNext]_vars => FullInv'
<1> SUFFICES ASSUME FullInv, MemoInv, [CheckNext]_vars PROVE FullInv'
  OBVIOUS
<1> SUFFICES PathInv' /\ LeftInv' /\ VerdictInv'
  BY SearchNext DEF FullInv
<1>1. CASE \/ WeakEnableFallbackToSerializeParse \/ StrongSetDisallow
           \/ TypeQuery \/ UNCHANGED vars
  <2>1. UNCHANGED <<schema, path, left, asked, at, allow_list>>
    BY <1>1 DEF WeakEnableFallbackToSerializeParse, StrongSetDisallow, TypeQuery, Recursion,
                NextField, NoField, FieldSaysYes, vars, memoVars, searchVars
  <2> QED
    BY <2>1, SamePlace
<1>2. ASSUME NEW key \in AllowKeys, AllowUnknownFieldsFor(key)
      PROVE  PathInv' /\ LeftInv' /\ VerdictInv'
  BY <1>2, SamePlace DEF AllowUnknownFieldsFor, memoVars, searchVars
<1>3. ASSUME NEW n \in Nodes, CheckRecursively(n)
      PROVE  PathInv' /\ LeftInv' /\ VerdictInv'
  BY <1>3, BeginFull
<1>4. CASE StopHere \/ AskType \/ Decide
  <2>1. UNCHANGED <<schema, path, left, allow_list>> /\ at' \in {"found", "ask", "allowed", "error"}
    BY <1>4 DEF StopHere, AskType, Query, Decide, memoVars
  <2>2. PathInv' /\ LeftInv'
    BY <2>1 DEF FullInv, PathInv, LeftInv
  <2>3. Acyclic' => Progress'
    BY <2>1 DEF FullInv, VerdictInv, Acyclic, Progress, GoneInto
  <2>4. MakeAllowListKey(path)' = MakeAllowListKey(path)
    BY <2>1 DEF MakeAllowListKey, FieldFQN
  <2>5. CASE StopHere
    BY <2>1, <2>2, <2>3, <2>5 DEF StopHere, FullInv, VerdictInv
  <2>6. CASE AskType
    BY <2>1, <2>2, <2>3, <2>6 DEF AskType, Query, FullInv, VerdictInv
  <2>7. CASE Decide
    BY <2>1, <2>2, <2>3, <2>4, <2>7 DEF Decide, FullInv, VerdictInv
  <2> QED
    BY <1>4, <2>5, <2>6, <2>7
<1>5. CASE ReturnFromCheck
  <2>1. /\ path' = <<>> /\ Len(<<>>) = 0 /\ at' = "idle" /\ left' = [n \in Nodes |-> {}]
    BY <1>5 DEF ReturnFromCheck
  <2> QED
    BY <2>1 DEF PathInv, LeftInv, VerdictInv, Progress
<1> QED
  BY <1>1, <1>2, <1>3, <1>4, <1>5, AnswerFull, EnterFull, LoopEndsFull
     DEF CheckNext, SearchStep

LEMMA FullInit == CheckInit => FullInv
<1> SUFFICES ASSUME CheckInit PROVE FullInv
  OBVIOUS
<1>1. path = <<>> /\ Len(<<>>) = 0 /\ at = "idle" /\ left = [n \in Nodes |-> {}]
  BY DEF CheckInit
<1>2. PathInv /\ LeftInv /\ VerdictInv
  BY <1>1 DEF PathInv, LeftInv, VerdictInv, Progress
<1> QED
  BY <1>2, CheckInitInv DEF FullInv

-----------------------------------------------------------------------------
(* The way from a submessage up to its top message.                        *)
Way(s, n) ==
  /\ s # <<>>
  /\ s[1] = n
  /\ \A i \in 1 .. Len(s) - 1 : Up[s[i]] = s[i + 1]
  /\ Up[s[Len(s)]] = NoNode

LEMMA WayFrom ==
  ASSUME NEW n \in Nodes, NEW s \in Seq(Nodes)
  PROVE  /\ Way(s, n) /\ Up[n] = NoNode => s = <<n>>
         /\ Way(s, n) /\ Up[n] # NoNode =>
              Way(Tail(s), Up[n]) /\ Tail(s) \in Seq(Nodes) /\ s = <<n>> \o Tail(s)
<1> SUFFICES ASSUME Way(s, n)
             PROVE  /\ Up[n] = NoNode => s = <<n>>
                    /\ Up[n] # NoNode => /\ Way(Tail(s), Up[n]) /\ Tail(s) \in Seq(Nodes)
                                         /\ s = <<n>> \o Tail(s)
  OBVIOUS
<1> DEFINE l == Len(s)
           t == Tail(s)
           k == Len(t)
<1>1. /\ l \in Nat \ {0} /\ t \in Seq(Nodes) /\ k = l - 1
      /\ \A i \in 1 .. k : t[i] = s[i + 1]
      /\ \A i \in 1 .. l : s[i] \in Nodes
  BY HeadTailProperties, EmptySeq, ElementOfSeq DEF Way
<1>2. s[1] = n /\ (\A i \in 1 .. l - 1 : Up[s[i]] = s[i + 1]) /\ Up[s[l]] = NoNode
  BY DEF Way
<1>3. t = <<>> => k = 0
  BY EmptySeq
<1>4. <<n>> \in Seq(Nodes) /\ Len(<<n>>) = 1 /\ <<n>>[1] = n
  OBVIOUS
<1>5. s = <<n>> \o t
  <2>1. /\ <<n>> \o t \in Seq(Nodes) /\ Len(<<n>> \o t) = 1 + k
        /\ \A i \in 1 .. 1 + k : (<<n>> \o t)[i] = IF i <= 1 THEN <<n>>[i] ELSE t[i - 1]
    BY <1>1, <1>4, ConcatProperties
  <2>2. ASSUME NEW i \in 1 .. l PROVE s[i] = (<<n>> \o t)[i]
    <3> HIDE DEF l, k, t
    <3>1. CASE i = 1
      BY <1>1, <1>2, <1>4, <2>1, <3>1
    <3>2. CASE i # 1
      <4>1. i - 1 \in 1 .. k /\ (i - 1) + 1 = i /\ i \in 1 .. 1 + k /\ ~(i <= 1)
        BY <1>1, <3>2
      <4> QED
        BY <1>1, <2>1, <4>1
    <3> QED
      BY <3>1, <3>2
  <2>3. Len(s) = Len(<<n>> \o t)
    BY <1>1, <2>1
  <2> QED
    BY <2>1, <2>2, <2>3, SeqEqual
<1> HIDE DEF l, k, t
<1>6. CASE Up[n] = NoNode
  <2>1. l = 1
    <3> SUFFICES ASSUME l # 1 PROVE FALSE
      OBVIOUS
    <3>1. 1 \in 1 .. l - 1 /\ 2 \in 1 .. l /\ 1 + 1 = 2
      BY <1>1
    <3> QED
      BY <1>1, <1>2, <1>6, <3>1, NodesAssumption
  <2>2. t = <<>>
    BY <1>1, <2>1, EmptySeq DEF k
  <2> QED
    BY <1>4, <1>5, <1>6, <2>2, ConcatEmptySeq
<1>7. CASE Up[n] # NoNode
  <2>1. l # 1
    BY <1>2, <1>7
  <2>2. 1 \in 1 .. l - 1 /\ 1 \in 1 .. k /\ k # 0 /\ k + 1 = l /\ k \in 1 .. k
    BY <1>1, <2>1
  <2>3. t[1] = Up[n] /\ t[k] = s[l] /\ t # <<>>
    BY <1>1, <1>2, <1>3, <2>2
  <2>4. ASSUME NEW i \in 1 .. k - 1 PROVE Up[t[i]] = t[i + 1]
    <3>1. i \in 1 .. k /\ i + 1 \in 1 .. k /\ i + 1 \in 1 .. l - 1
      BY <1>1
    <3> QED
      BY <1>1, <1>2, <3>1
  <2>5. Way(t, Up[n])
    BY <1>2, <2>3, <2>4 DEF Way, k
  <2> QED
    BY <1>1, <1>5, <1>7, <2>5 DEF t
<1> QED
  BY <1>6, <1>7 DEF t

LEMMA WayOn ==
  ASSUME NEW n \in Nodes, Up[n] # NoNode, NEW t \in Seq(Nodes), Way(t, Up[n])
  PROVE  <<n>> \o t \in Seq(Nodes) /\ Way(<<n>> \o t, n)
<1> DEFINE s == <<n>> \o t
           k == Len(t)
           l == Len(s)
<1>1. <<n>> \in Seq(Nodes) /\ Len(<<n>>) = 1 /\ <<n>>[1] = n
  OBVIOUS
<1>2. /\ s \in Seq(Nodes) /\ l = 1 + k /\ k \in Nat \ {0}
      /\ \A i \in 1 .. 1 + k : s[i] = IF i <= 1 THEN <<n>>[i] ELSE t[i - 1]
  BY <1>1, ConcatProperties, EmptySeq DEF Way
<1>3. t[1] = Up[n] /\ Up[t[k]] = NoNode /\ \A i \in 1 .. k - 1 : Up[t[i]] = t[i + 1]
  BY DEF Way
<1>4. s # <<>>
  BY <1>2, EmptySeq
<1> HIDE DEF s, k, l
<1>5. s[1] = n /\ \A i \in 1 .. k : s[i + 1] = t[i]
  <2>1. s[1] = n
    BY <1>1, <1>2
  <2>2. ASSUME NEW i \in 1 .. k PROVE s[i + 1] = t[i]
    <3>1. i + 1 \in 1 .. 1 + k /\ ~(i + 1 <= 1) /\ (i + 1) - 1 = i
      BY <1>2
    <3> QED
      BY <1>2, <3>1
  <2> QED
    BY <2>1, <2>2
<1>6. ASSUME NEW i \in 1 .. l - 1 PROVE Up[s[i]] = s[i + 1]
  <2>1. CASE i = 1
    BY <1>2, <1>3, <1>5, <2>1
  <2>2. CASE i # 1
    <3>1. i - 1 \in 1 .. k - 1 /\ i - 1 \in 1 .. k /\ i \in 1 .. k /\ (i - 1) + 1 = i
      BY <1>2, <2>2
    <3>2. s[i] = t[i - 1] /\ s[i + 1] = t[i] /\ Up[t[i - 1]] = t[i]
      BY <1>3, <1>5, <3>1
    <3> QED
      BY <3>2
  <2> QED
    BY <2>1, <2>2
<1>7. s[l] = t[k]
  <2>1. k \in 1 .. k /\ l = k + 1
    BY <1>2
  <2> QED
    BY <1>5, <2>1
<1>8. Way(s, n)
  BY <1>3, <1>4, <1>5, <1>6, <1>7 DEF Way, l
<1> QED
  BY <1>2, <1>8 DEF s

(* There is one way up from every submessage.                              *)
LEMMA OneWay ==
  \A n \in Nodes : /\ \E s \in Seq(Nodes) : Way(s, n)
                   /\ \A s, t \in Seq(Nodes) : Way(s, n) /\ Way(t, n) => s = t
<1> DEFINE Has(n) == \E s \in Seq(Nodes) : Way(s, n)
           One(n) == \A s, t \in Seq(Nodes) : Way(s, n) /\ Way(t, n) => s = t
           Bad == {n \in Nodes : ~(Has(n) /\ One(n))}
<1> SUFFICES ASSUME Bad # {} PROVE FALSE
  OBVIOUS
<1>1. PICK n \in Bad : Up[n] \notin Bad
  BY TreeAssumption
<1>2. n \in Nodes /\ (Up[n] # NoNode => Up[n] \in Nodes /\ Has(Up[n]) /\ One(Up[n]))
  BY <1>1, NodesAssumption
<1>3. Has(n)
  <2>1. CASE Up[n] = NoNode
    <3>1. <<n>> \in Seq(Nodes) /\ Len(<<n>>) = 1 /\ <<n>>[1] = n /\ <<n>> # <<>>
      BY <1>2
    <3>2. Way(<<n>>, n)
      BY <2>1, <3>1 DEF Way
    <3> QED
      BY <3>1, <3>2
  <2>2. CASE Up[n] # NoNode
    <3>1. PICK s \in Seq(Nodes) : Way(s, Up[n])
      BY <1>2, <2>2
    <3> QED
      BY <1>2, <2>2, <3>1, WayOn
  <2> QED
    BY <2>1, <2>2
<1>4. One(n)
  <2> SUFFICES ASSUME NEW s \in Seq(Nodes), NEW t \in Seq(Nodes), Way(s, n), Way(t, n)
               PROVE  s = t
    OBVIOUS
  <2>1. CASE Up[n] = NoNode
    BY <1>2, <2>1, WayFrom
  <2>2. CASE Up[n] # NoNode
    <3>1. /\ Way(Tail(s), Up[n]) /\ Tail(s) \in Seq(Nodes) /\ s = <<n>> \o Tail(s)
          /\ Way(Tail(t), Up[n]) /\ Tail(t) \in Seq(Nodes) /\ t = <<n>> \o Tail(t)
      BY <1>2, <2>2, WayFrom
    <3>2. Tail(s) = Tail(t)
      BY <1>2, <2>2, <3>1
    <3> QED
      BY <3>1, <3>2
  <2> QED
    BY <2>1, <2>2
<1> QED
  BY <1>1, <1>3, <1>4

(* Lineage, a recursive function, is the way up.                           *)
LEMMA LineageIsWay ==
  ASSUME NEW n \in Nodes
  PROVE  Lineage[n] \in Seq(Nodes) /\ Way(Lineage[n], n)
<1> DEFINE Eq(f) == f = [m \in Nodes |-> IF Up[m] = NoNode THEN <<m>> ELSE <<m>> \o f[Up[m]]]
           way == [m \in Nodes |-> CHOOSE s \in Seq(Nodes) : Way(s, m)]
<1>1. \A m \in Nodes : way[m] \in Seq(Nodes) /\ Way(way[m], m)
  BY OneWay
<1>2. Eq(way)
  <2> SUFFICES ASSUME NEW m \in Nodes
               PROVE  way[m] = IF Up[m] = NoNode THEN <<m>> ELSE <<m>> \o way[Up[m]]
    OBVIOUS
  <2> HIDE DEF way
  <2>1. CASE Up[m] = NoNode
    BY <1>1, <2>1, WayFrom
  <2>2. CASE Up[m] # NoNode
    <3>1. Up[m] \in Nodes
      BY <2>2, NodesAssumption
    <3>2. /\ Way(Tail(way[m]), Up[m]) /\ Tail(way[m]) \in Seq(Nodes)
          /\ way[m] = <<m>> \o Tail(way[m])
      BY <1>1, <2>2, WayFrom
    <3>3. Tail(way[m]) = way[Up[m]]
      BY <1>1, <3>1, <3>2, OneWay
    <3> QED
      BY <2>2, <3>2, <3>3
  <2> QED
    BY <2>1, <2>2
<1>3. Eq(Lineage)
  <2>1. Lineage = CHOOSE f : Eq(f)
    BY DEF Lineage
  <2> HIDE DEF Eq, way
  <2> QED
    BY <1>2, <2>1
<1> DEFINE Bad == {m \in Nodes : ~(Lineage[m] \in Seq(Nodes) /\ Way(Lineage[m], m))}
<1>4. Bad = {}
  <2> SUFFICES ASSUME Bad # {} PROVE FALSE
    OBVIOUS
  <2>1. PICK m \in Bad : Up[m] \notin Bad
    BY TreeAssumption
  <2>2. Lineage[m] = IF Up[m] = NoNode THEN <<m>> ELSE <<m>> \o Lineage[Up[m]]
    BY <1>3
  <2>3. CASE Up[m] = NoNode
    <3>1. <<m>> \in Seq(Nodes) /\ Len(<<m>>) = 1 /\ <<m>>[1] = m /\ <<m>> # <<>>
      OBVIOUS
    <3>2. Way(<<m>>, m)
      BY <2>3, <3>1 DEF Way
    <3> QED
      BY <2>2, <2>3, <3>1, <3>2
  <2>4. CASE Up[m] # NoNode
    <3>1. Up[m] \in Nodes
      BY <2>4, NodesAssumption
    <3>2. Lineage[Up[m]] \in Seq(Nodes) /\ Way(Lineage[Up[m]], Up[m])
      BY <2>1, <3>1
    <3> QED
      BY <2>2, <2>4, <3>2, WayOn
  <2> QED
    BY <2>3, <2>4
<1> QED
  BY <1>4

(* All messages on the path are parts of the same message.                 *)
LEMMA PathTop ==
  ASSUME FullInv, NEW i \in 1 .. Len(path)
  PROVE  Top[path[i]] = Message
<1> DEFINE n == Len(path)
           Bad == {m \in Nodes : Top[m] # Message /\ \E j \in 1 .. n : path[j] = m}
<1>1. n \in Nat /\ \A j \in 1 .. n : path[j] \in Nodes
  BY LenProperties, ElementOfSeq DEF FullInv, SearchInv
<1>2. /\ Message = path[n] /\ (path # <<>> => Up[path[n]] = NoNode)
      /\ \A j \in 1 .. n - 1 : Up[path[j]] = path[j + 1]
  BY DEF Message, FullInv, PathInv
<1>3. path # <<>>
  <2>1. path = <<>> => n = 0
    BY EmptySeq
  <2> QED
    BY <1>1, <2>1
<1> HIDE DEF n
<1>4. Bad = {}
  <2> SUFFICES ASSUME Bad # {} PROVE FALSE
    OBVIOUS
  <2>1. PICK m \in Bad : Up[m] \notin Bad
    BY TreeAssumption
  <2>2. PICK j \in 1 .. n : path[j] = m
    BY <2>1
  <2>3. CASE j = n
    BY <1>2, <1>3, <2>1, <2>2, <2>3, TreeAssumption
  <2>4. CASE j # n
    <3>1. j \in 1 .. n - 1 /\ j + 1 \in 1 .. n
      BY <1>1, <2>4
    <3>2. Up[m] = path[j + 1] /\ Up[m] \in Nodes
      BY <1>1, <1>2, <2>2, <3>1
    <3>3. Top[m] = Top[Up[m]]
      BY <2>1, <3>2, TreeAssumption, NodesAssumption
    <3> QED
      BY <2>1, <3>1, <3>2, <3>3
  <2> QED
    BY <2>3, <2>4
<1> QED
  BY <1>1, <1>4 DEF n

(* The path is the lineage of the message that is searched.                *)
LEMMA PathIsLineage ==
  ASSUME FullInv, path # <<>>
  PROVE  Head(path) \in InMessage /\ path = Lineage[Head(path)]
<1>1. path \in Seq(Nodes) /\ Head(path) \in Nodes /\ Head(path) = path[1] /\ 1 \in 1 .. Len(path)
  BY HeadTailProperties, EmptySeq DEF FullInv, SearchInv
<1>2. Top[Head(path)] = Message
  BY <1>1, PathTop
<1>3. Way(path, Head(path))
  BY <1>1 DEF Way, FullInv, PathInv
<1>4. path = Lineage[Head(path)]
  BY <1>1, <1>3, LineageIsWay, OneWay
<1> QED
  BY <1>1, <1>2, <1>4 DEF InMessage

LEMMA FullJustified ==
  ASSUME FullInv, Acyclic \/ at \in {"allowed", "error"}
  PROVE  VerdictIsJustified
<1>1. ASSUME at = "clean", NEW n \in InMessage, PythonKnows(n)
      PROVE  Head(Unknown[n]) = "foreign"
  <2>1. path # <<>> /\ Free(Message)
    BY <1>1 DEF FullInv, VerdictInv, Progress
  <2>2. Message \in Nodes
    <3>1. path \in Seq(Nodes) /\ Len(path) \in 1 .. Len(path)
      BY <2>1, EmptySeq DEF FullInv, SearchInv
    <3> QED
      BY <3>1, ElementOfSeq DEF Message
  <2>3. n \in Nodes /\ ~Flagged(n)
    BY <2>1, <2>2, FreeTop DEF InMessage
  <2>4. Unknown[n] \in Seq({"known", "foreign"}) /\ Unknown[n] # <<>>
    BY <1>1, <2>3, NodesAssumption DEF PythonKnows
  <2>5. Head(Unknown[n]) \in {"known", "foreign"}
    BY <2>4
  <2> QED
    BY <2>3, <2>4, <2>5 DEF Flagged
<1>2. ASSUME at \in {"allowed", "error"}
      PROVE  /\ Head(path) \in InMessage /\ PythonKnows(Head(path))
             /\ path = Lineage[Head(path)]
             /\ at = "allowed" <=> MakeAllowListKey(path) \in allow_list
  <2>1. path # <<>> /\ Flagged(Head(path))
    BY <1>2 DEF FullInv, VerdictInv
  <2>2. Head(path) \in InMessage /\ path = Lineage[Head(path)]
    BY <2>1, PathIsLineage
  <2>3. PythonKnows(Head(path))
    <3>1. /\ Unknown[Head(path)] \in Seq({"known", "foreign"})
          /\ Unknown[Head(path)] # <<>> /\ Unknown[Head(path)][1] = "known"
      BY <2>1, <2>2, FlaggedKnown, NodesAssumption DEF InMessage
    <3>2. 1 \in 1 .. Len(Unknown[Head(path)])
      BY <3>1, EmptySeq
    <3> QED
      BY <3>1, <3>2 DEF PythonKnows
  <2>4. at = "allowed" <=> MakeAllowListKey(path) \in allow_list
    BY <1>2 DEF FullInv, VerdictInv
  <2> QED
    BY <2>2, <2>3, <2>4
<1>3. ASSUME at \in {"allowed", "error"}
      PROVE  at = "allowed" <=> MakeAllowListKey(Lineage[Head(path)]) \in allow_list
  <2>1. MakeAllowListKey(path) = MakeAllowListKey(Lineage[Head(path)])
    BY <1>2, <1>3, Zenon
  <2> QED
    BY <1>2, <1>3, <2>1
<1> QED
  BY <1>1, <1>2, <1>3 DEF VerdictIsJustified

-----------------------------------------------------------------------------
(* The composition implements MayContainExtensions: a check asks one query *)
(* at a time, and takes its answer before the next.                        *)
THEOREM ChecksAskAsSpecified == CheckSpec => Spec
<1>1. CheckInit => Init
  BY DEF CheckInit
<1> QED
  BY <1>1, CheckInitInv, SearchNext, MemoStep, PTL DEF CheckSpec, Spec

(* In any order of checks, queries, policy functions and allowed keys every *)
(* variable keeps its type: the search never leaves its message.           *)
THEOREM CheckTyping == CheckSpec => []CheckTypeOK
<1>1. CheckSpec => []SearchInv
  BY CheckInitInv, SearchNext, PTL DEF CheckSpec
<1>2. CheckSpec => []PolicyInv
  BY CheckInitInv, PolicyNext, PTL DEF CheckSpec
<1>3. TypeOK /\ SearchInv /\ PolicyInv => CheckTypeOK
  BY DEF SearchInv, PolicyInv, CheckTypeOK
<1> QED
  BY <1>1, <1>2, <1>3, ChecksAskAsSpecified, Typing, PTL

(* For any number of calls of the two policy functions, the policy depends *)
(* only on which of them were called.                                      *)
THEOREM PolicyIsCommutative == CheckSpec => []PolicyCommutes
<1>1. PolicyInv => PolicyCommutes
  BY DEF PolicyInv, PolicyCommutes, UnknownFieldsAreDisallowed
<1> QED
  BY <1>1, CheckInitInv, PolicyNext, PTL DEF CheckSpec

(* The answers that checks act on are right when they are yes: a check is  *)
(* never sent into a submessage in which no extension can be.              *)
THEOREM ChecksGetRightYes == CheckSpec => []YesIsRight
BY ChecksAskAsSpecified, YesIsAlwaysRight, PTL

(* What a check says of a message is so, for every schema, every message   *)
(* and whatever was checked before.  An error or a permission is about a   *)
(* submessage of this message that has a field Python knows, at the very   *)
(* place that is named and looked up in the allow list, and it is the      *)
(* allow list's answer for that place.  If no type contains itself, a      *)
(* message found clean has a field that Python knows only where a field    *)
(* that Python does not know comes first.                                  *)
THEOREM VerdictsAreJustified ==
  CheckSpec => [](Acyclic \/ at \in {"allowed", "error"} => VerdictIsJustified)
<1>1. CheckSpec => []TypeOK /\ []NoIsRightIfAcyclic
  BY ChecksAskAsSpecified, Typing, AcyclicNoIsRight, PTL
<1>2. CheckSpec => []SearchInv
  BY CheckInitInv, SearchNext, PTL DEF CheckSpec
<1>3. CheckInit => AnswerInv
  BY DEF CheckInit, Init, AnswerInv, Answered
<1>4. CheckSpec => []AnswerInv
  BY <1>1, <1>2, <1>3, MemoStep, AnswerNext, PTL DEF CheckSpec
<1>5. CheckSpec => []MemoInv
  <2>1. TypeOK /\ AnswerInv /\ NoIsRightIfAcyclic => MemoInv
    BY DEF MemoInv
  <2> QED
    BY <1>1, <1>4, <2>1, PTL
<1>6. CheckSpec => []FullInv
  BY <1>5, FullInit, FullNext, PTL DEF CheckSpec
<1>7. FullInv => (Acyclic \/ at \in {"allowed", "error"} => VerdictIsJustified)
  BY FullJustified
<1> QED
  BY <1>6, <1>7, PTL
=============================================================================
