--------------------------- MODULE MCSupportNeeds ---------------------------
(***************************************************************************)
(* A section with a "No support needs identified" option, and, when all    *)
(* four needs are listed, one without:                                     *)
(*                                                                         *)
(*    position   section  updatable  user describes it                     *)
(*    1          s1       yes        yes ("Other")                         *)
(*    2          s1       no (the option)                                  *)
(*    3          s1       yes        no                                    *)
(*    4          s2       yes        no                                    *)
(***************************************************************************)
EXTENDS SupportNeeds, TLC

CONSTANTS t1, t2, s1, s2

MCSectionOf == [n \in Need |-> IF n = 4 THEN s2 ELSE s1]
MCUpdatable == Need \ {2}
MCSymmetry == Permutations(Tab)
=============================================================================
