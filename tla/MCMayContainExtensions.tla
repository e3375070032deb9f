----------------------- MODULE MCMayContainExtensions -----------------------
(* All schemas of three types, recursive ones included.                    *)
EXTENDS MayContainExtensions

CONSTANTS A, B, C

AllSchemas == [fields : [Types -> SUBSET Types], extendable : SUBSET Types]
=============================================================================
