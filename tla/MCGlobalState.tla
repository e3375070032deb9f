---------------------------- MODULE MCGlobalState ----------------------------
(* Instances of GlobalState for TLC.                                       *)
EXTENDS GlobalState, TLC

CONSTANTS t1, t2, google_pb, a_b_pb2, gone_pb2, extension,
          Own,   \* the type of a-b.proto, which a_b_pb2 defines
          Clash  \* the type of a_b.proto: its module has the same name

TwoThreads == {t1, t2}

MCModuleOf == [d \in Types |-> a_b_pb2]

MCProvides == [m \in Modules |-> IF m = a_b_pb2 THEN {Own} ELSE {}]
=============================================================================
