------------------------------ MODULE MCKernels -----------------------------
(* Kernels.tla with two points a vector, whose orbits end right before, at *)
(* and behind the bailout, on the circle or not.                           *)
EXTENDS Kernels

CONSTANTS l1, l2

MCLanes == {l1, l2}
MCSizes == {<<4, 4>>, <<6, 4>>}
MCProbed == {1, 2, 5, 256}
MCOrbits(b) == {o \in [inside : {0, 1, b - 1, b}, circle : {0, 1, b}] : o.inside <= b}
MCLooked == {"F2"}                                   \* where it starts
=============================================================================
