------------------------------ MODULE MCProfile ------------------------------
(* Profile.tla with the smallest number of bins the options accept, ranges *)
(* that make bins of no, one and two values, and one with min= above max=. *)
EXTENDS Profile

MCSizes == {8}
MCRanges == {<<2, 20>>, <<2, 4>>, <<4, 4>>, <<20, 4>>}
MCPayloads == {0, 3, 4, 18}
MCOthers == {0, 1}
=============================================================================
