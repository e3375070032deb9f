---------------------------- MODULE UnknownFields ----------------------------
(***************************************************************************)
(* CheckRecursively of check_unknown_fields.cc: the search of a message,   *)
(* on its way from C++ to Python, for unknown fields that Python knows as  *)
(* extensions; the allow list; and the policy of check_unknown_fields.h.   *)
(*                                                                         *)
(* The search asks MayContainExtensions, whose memory is shared by all     *)
(* checks, whether it is worth going into a submessage.                    *)
(***************************************************************************)
EXTENDS MayContainExtensions, FiniteSets

CONSTANTS
  Nodes,     \* messages and submessages
  TypeOf,    \* the type of each
  Up,        \* the message each is a part of
  Top,       \* the message at the top
  Part,      \* the name of the field it is the value of
  Unknown,   \* its unknown fields in order: "known" or not to Python's pool
  AllowKeys, \* the <<type of the top message, field names>> a program may allow
  NoNode

ASSUME NodesAssumption ==
  /\ TypeOf \in [Nodes -> Types]
  /\ Up \in [Nodes -> Nodes \cup {NoNode}]
  /\ Top \in [Nodes -> Nodes]
  /\ Unknown \in [Nodes -> Seq({"known", "foreign"})]
  /\ NoNode \notin Nodes

(* Messages are trees: going up from a submessage ends at its top message. *)
ASSUME TreeAssumption ==
  /\ \A S \in SUBSET Nodes : S # {} => \E n \in S : Up[n] \notin S
  /\ \A n \in Nodes : Top[n] = IF Up[n] = NoNode THEN n ELSE Top[Up[n]]

(* A submessage is the value of a declared field or of an extension, and   *)
(* only a type with extension ranges has extensions that Python knows.     *)
ASSUME SchemaAssumption ==
  \A s \in Schemas, n \in Nodes :
    /\ Up[n] # NoNode => \/ TypeOf[n] \in s.fields[TypeOf[Up[n]]]
                         \/ TypeOf[Up[n]] \in s.extendable
    /\ (\E i \in 1 .. Len(Unknown[n]) : Unknown[n][i] = "known") =>
         TypeOf[n] \in s.extendable

VARIABLES
  allow_list, \* GetAllowList()
  policy,     \* GetStateSingleton()
  setters,    \* the policy functions called so far
  at,         \* where the check is
  path,       \* the messages whose search is in progress, the innermost first
  left        \* the submessages each of these has still to go into

searchVars == <<at, path, left>>
policyVars == <<policy, setters>>
vars == <<memoVars, allow_list, policyVars, searchVars>>

Place == {"idle", "visit", "ask", "loop", "found", "clean", "allowed", "error"}

CheckTypeOK ==
  /\ TypeOK
  /\ allow_list \subseteq AllowKeys
  /\ policy \in {"WeakDisallow", "WeakEnableFallback", "StrongDisallow"}
  /\ setters \subseteq {"weak", "strong"}
  /\ at \in Place
  /\ path \in Seq(Nodes)
  /\ left \in [Nodes -> SUBSET Nodes]

Below(n) == {c \in Nodes : Up[c] = n}
Message == path[Len(path)]

CheckInit ==
  /\ Init
  /\ allow_list = {}
  /\ policy = "WeakDisallow"
  /\ setters = {}
  /\ at = "idle"
  /\ path = <<>>
  /\ left = [n \in Nodes |-> {}]

-----------------------------------------------------------------------------
(* ExtensionsWithUnknownFieldsPolicy.  Initializers of static objects and  *)
(* imports of extension modules call these in any order.                   *)

WeakWinsMutant == policy \in {"WeakDisallow", "StrongDisallow"}  \* no guard

WeakWins == policy = "WeakDisallow"

WeakEnableFallbackToSerializeParse ==
  /\ policy' = IF WeakWins THEN "WeakEnableFallback" ELSE policy
  /\ setters' = setters \cup {"weak"}
  /\ UNCHANGED <<memoVars, allow_list, searchVars>>

StrongSetDisallow ==
  /\ policy' = "StrongDisallow"
  /\ setters' = setters \cup {"strong"}
  /\ UNCHANGED <<memoVars, allow_list, searchVars>>

UnknownFieldsAreDisallowed == policy # "WeakEnableFallback"

AllowMutant(key) == allow_list \cup {key[2]}  \* keyed by the field names only

Allow(key) == allow_list \cup {key}

AllowUnknownFieldsFor(key) ==
  /\ at = "idle"
  /\ allow_list' = Allow(key)
  /\ UNCHANGED <<memoVars, policyVars, searchVars>>

-----------------------------------------------------------------------------
(* The field names from the top message of the search to a submessage.     *)
FieldFQN(nodes) ==
  [i \in 1 .. Len(nodes) - 1 |-> Part[nodes[Len(nodes) - i]]]

(* FindExtensionByNumber of Python's pool knows the first unknown field;   *)
(* the other unknown fields are not looked at.                             *)
Flagged(n) == Unknown[n] # <<>> /\ Head(Unknown[n]) = "known"

CheckRecursively(n) ==
  /\ at = "idle"
  /\ Up[n] = NoNode
  /\ at' = "visit"
  /\ path' = <<n>>
  /\ left' = [c \in Nodes |-> Below(c)]
  /\ UNCHANGED <<memoVars, allow_list, policyVars>>

(* FindUnknownFieldsRecursive stops at a flagged message.  At another one  *)
(* it asks whether its type may contain extensions.                        *)
StopHere ==
  /\ at = "visit"
  /\ Flagged(Head(path))
  /\ at' = "found"
  /\ UNCHANGED <<memoVars, allow_list, policyVars, path, left>>

AskType ==
  /\ at = "visit"
  /\ ~Flagged(Head(path))
  /\ Query(TypeOf[Head(path)])
  /\ at' = "ask"
  /\ UNCHANGED <<allow_list, policyVars, path, left>>

(* The innermost call returns false; the check ends when it was the last.  *)
LeaveMessage ==
  IF Len(path) = 1
  THEN at' = "clean" /\ UNCHANGED <<path, left>>
  ELSE at' = "loop" /\ path' = Tail(path) /\ UNCHANGED left

GoesOnMutant == verdict = "false"  \* the negation is forgotten

GoesOn == verdict = "true"

TypeAnswer ==
  /\ at = "ask"
  /\ Return
  /\ IF GoesOn THEN at' = "loop" /\ UNCHANGED <<path, left>> ELSE LeaveMessage
  /\ UNCHANGED <<allow_list, policyVars>>

(* The loop over the present message fields, extensions included.          *)
EnterSubmessage ==
  /\ at = "loop"
  /\ \E c \in left[Head(path)] :
       /\ path' = <<c>> \o path
       /\ left' = [left EXCEPT ![Head(path)] = @ \ {c}]
  /\ at' = "visit"
  /\ UNCHANGED <<memoVars, allow_list, policyVars>>

LoopEnds ==
  /\ at = "loop"
  /\ left[Head(path)] = {}
  /\ LeaveMessage
  /\ UNCHANGED <<memoVars, allow_list, policyVars>>

MakeAllowListKey(nodes) == <<TypeOf[nodes[Len(nodes)]], FieldFQN(nodes)>>

(* The calls return true, naming their fields; the allow list decides.     *)
Decide ==
  /\ at = "found"
  /\ at' = IF MakeAllowListKey(path) \in allow_list THEN "allowed" ELSE "error"
  /\ UNCHANGED <<memoVars, allow_list, policyVars, path, left>>

ReturnFromCheck ==
  /\ at \in {"clean", "allowed", "error"}
  /\ at' = "idle"
  /\ path' = <<>>
  /\ left' = [n \in Nodes |-> {}]
  /\ UNCHANGED <<memoVars, allow_list, policyVars>>

TypeQuery ==
  /\ Recursion
  /\ UNCHANGED <<allow_list, policyVars, searchVars>>

SearchStep ==
  \/ StopHere
  \/ AskType
  \/ TypeQuery
  \/ TypeAnswer
  \/ EnterSubmessage
  \/ LoopEnds
  \/ Decide
  \/ ReturnFromCheck

CheckNext ==
  \/ WeakEnableFallbackToSerializeParse
  \/ StrongSetDisallow
  \/ \E key \in AllowKeys : AllowUnknownFieldsFor(key)
  \/ \E n \in Nodes : CheckRecursively(n)
  \/ SearchStep

CheckSpec == CheckInit /\ [][CheckNext]_vars

-----------------------------------------------------------------------------
(* The messages from a submessage up to the top, the submessage first.     *)
Lineage[n \in Nodes] ==
  IF Up[n] = NoNode THEN <<n>> ELSE <<n>> \o Lineage[Up[n]]

InMessage == {n \in Nodes : path # <<>> /\ Top[n] = Message}

PythonKnows(n) == \E i \in 1 .. Len(Unknown[n]) : Unknown[n][i] = "known"

(* What a check says of a message is so, whatever was checked before.      *)
(* "clean": no submessage, however deep, has an unknown field that Python  *)
(* knows; except behind a first one it does not know, which is all the     *)
(* search looks up (README makes no such exception).  "allowed", "error":  *)
(* the place the search stopped at and names is that of a submessage of    *)
(* this message with a field Python knows, and the verdict is what the     *)
(* allow list has for that very place; nothing is said of other places.    *)
VerdictIsJustified ==
  /\ at = "clean" =>
       \A n \in InMessage : PythonKnows(n) => Head(Unknown[n]) = "foreign"
  /\ at \in {"allowed", "error"} =>
       LET n == Head(path) IN
       /\ n \in InMessage /\ PythonKnows(n)
       /\ path = Lineage[n]
       /\ at = "allowed" <=> MakeAllowListKey(Lineage[n]) \in allow_list

(* The policy functions commute: what holds in the end depends on which of *)
(* them were called, in whatever order static initializers and imports ran.*)
PolicyCommutes ==
  UnknownFieldsAreDisallowed <=> "strong" \in setters \/ "weak" \notin setters

(* README, "a safety mechanism that raises": when the message involves     *)
(* extensions "(recursively)" and "the proto2::UnknownFieldSet for the     *)
(* message or any of its submessages is not empty"; here only for fields   *)
(* that Python does know, in a program that allows nothing.                *)
NothingSlips ==
  allow_list = {} /\ at = "clean" => \A n \in InMessage : ~PythonKnows(n)
=============================================================================
