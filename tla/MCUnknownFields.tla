--------------------------- MODULE MCUnknownFields ---------------------------
(* Two programs.  In the first no type contains itself; in the second the  *)
(* types Tree and Branch contain each other.                               *)
EXTENDS UnknownFields, TLC

CONSTANTS Outer, Mid, Base, Plain, Tree, Branch

(* outer: { mid: { base }, base, plain }, with unknown fields in both      *)
(* bases; lone: a Base whose extension holds a Base with unknown fields;   *)
(* spare: a Mid with a foreign unknown field; behind: a Base whose first   *)
(* unknown field is a foreign one.                                         *)
FlatTypes == {Outer, Mid, Base, Plain}
FlatSchema ==
  [fields |-> [d \in FlatTypes |-> CASE d = Outer -> {Mid, Base, Plain}
                                     [] d = Mid -> {Base, Plain}
                                     [] OTHER -> {}],
   extendable |-> {Base}]
FlatSchemas == {FlatSchema}
FlatTable ==
  << [top |-> 1, up |-> 0, type |-> Outer, part |-> "", unknown |-> <<>>],
     [top |-> 1, up |-> 1, type |-> Mid, part |-> "mid", unknown |-> <<>>],
     [top |-> 1, up |-> 2, type |-> Base, part |-> "base", unknown |-> <<"known">>],
     [top |-> 1, up |-> 1, type |-> Base, part |-> "base", unknown |-> <<"known", "foreign">>],
     [top |-> 1, up |-> 1, type |-> Plain, part |-> "plain", unknown |-> <<"foreign">>],
     [top |-> 6, up |-> 0, type |-> Base, part |-> "", unknown |-> <<>>],
     [top |-> 6, up |-> 6, type |-> Base, part |-> "ext", unknown |-> <<"known">>],
     [top |-> 8, up |-> 0, type |-> Mid, part |-> "", unknown |-> <<"foreign">>],
     [top |-> 9, up |-> 0, type |-> Base, part |-> "", unknown |-> <<"foreign", "known">>] >>
FlatKeys == {<<Outer, <<"base">>>>, <<Base, <<"ext">>>>}

(* tree: { branch }, with nothing unknown; branch: { tree: { base } }, and *)
(* unknown fields in the base.                                             *)
RoundTypes == {Tree, Branch, Base}
RoundSchema ==
  [fields |-> [d \in RoundTypes |-> CASE d = Tree -> {Branch, Base}
                                      [] d = Branch -> {Tree}
                                      [] OTHER -> {}],
   extendable |-> {Base}]
RoundSchemas == {RoundSchema}
RoundTable ==
  << [top |-> 1, up |-> 0, type |-> Tree, part |-> "", unknown |-> <<>>],
     [top |-> 1, up |-> 1, type |-> Branch, part |-> "branch", unknown |-> <<>>],
     [top |-> 3, up |-> 0, type |-> Branch, part |-> "", unknown |-> <<>>],
     [top |-> 3, up |-> 3, type |-> Tree, part |-> "tree", unknown |-> <<>>],
     [top |-> 3, up |-> 4, type |-> Base, part |-> "base", unknown |-> <<"known">>] >>

FlatTypeOf  == [n \in 1 .. 9 |-> FlatTable[n].type]
FlatUp      == [n \in 1 .. 9 |-> FlatTable[n].up]
FlatTop     == [n \in 1 .. 9 |-> FlatTable[n].top]
FlatPart    == [n \in 1 .. 9 |-> FlatTable[n].part]
FlatUnknown == [n \in 1 .. 9 |-> FlatTable[n].unknown]

RoundTypeOf  == [n \in 1 .. 5 |-> RoundTable[n].type]
RoundUp      == [n \in 1 .. 5 |-> RoundTable[n].up]
RoundTop     == [n \in 1 .. 5 |-> RoundTable[n].top]
RoundPart    == [n \in 1 .. 5 |-> RoundTable[n].part]
RoundUnknown == [n \in 1 .. 5 |-> RoundTable[n].unknown]
=============================================================================
