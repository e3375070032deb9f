---------------------------- MODULE MCPoolWrapper ----------------------------
(* Instances of PoolWrapper for TLC.                                       *)
EXTENDS PoolWrapper, TLC

CONSTANTS t1, t2, default, other, third, a1, a2, a3,
          Base,  \* a type that is also compiled into the program
          Msg,   \* a type that imports Base
          Ext    \* an extension of Msg

MCDefines ==
  [p \in Pools |-> IF p = other THEN Names ELSE {Base, Msg}]

MCImports ==
  [n \in Names |-> CASE n = Base -> {}
                     [] n = Msg  -> {Base}
                     [] n = Ext  -> {Msg}]

TwoThreads == {t1, t2}
TwoPools   == {default, other}
ThreePools == {default, other, third}
Slots == {0, 1, 3, 7}  \* absl::flat_hash_map with room for 1, 3 and 7 entries
ThreadSymmetry == Permutations(TwoThreads)
=============================================================================
