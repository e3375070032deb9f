--------------------------- MODULE DescriptorCache ---------------------------
(***************************************************************************)
(* What PythonDescriptorPoolWrapper promises, without threads, locks,      *)
(* addresses or callbacks: for every Python pool, a growing set of types   *)
(* it has learnt from that pool, each learnt after all it imports, and     *)
(* messages made only of types their own pool knows.                       *)
(***************************************************************************)
CONSTANTS Pools, Names, Imports, Defines,
          Compiled  \* for each pool, the types it knows from the start

VARIABLES known,    \* the types learnt from each Python pool
          made      \* the pairs of pool and type a message was made of

Known(p) == known[p] \cup Compiled[p]

Init ==
  /\ known = [p \in Pools |-> {}]
  /\ made = {}

Learn(p, n) ==
  /\ n \in Defines[p]
  /\ Imports[n] \subseteq Known(p)
  /\ known' = [known EXCEPT ![p] = @ \cup {n}]
  /\ UNCHANGED made

Make(p, n) ==
  /\ n \in Known(p)
  /\ made' = made \cup {<<p, n>>}
  /\ UNCHANGED known

Next == \E p \in Pools, n \in Names : Learn(p, n) \/ Make(p, n)

Spec == Init /\ [][Next]_<<known, made>>
=============================================================================
