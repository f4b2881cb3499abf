----------------------------- MODULE MCTileQueue -----------------------------
(* TileQueue.tla with the kernels' eight lanes and the smallest blocks the *)
(* command line accepts; the surfaces are smaller than the 512 it asks for *)
(* (only the remainders of the divisions matter).                          *)
EXTENDS TileQueue

MCWidths == 9 .. 35
MCHeights == {9, 10, 17}
MCGrainX == {8, 9, 13, 16, 24, 40}
MCGrainY == {8, 9}

(* One block wider than the surface and one tile too many. *)
MCNarrow == {17, 18}
MCWide == {16}
=============================================================================
