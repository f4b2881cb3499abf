---------------------------- MODULE MCBlockStats ----------------------------
(* BlockStats.tla with two threads, each measuring a few blocks. *)
EXTENDS BlockStats

CONSTANTS t1, t2

MCThreads == {t1, t2}
MCTimes == 1 .. 3
=============================================================================
