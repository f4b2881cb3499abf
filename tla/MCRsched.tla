------------------------------ MODULE MCRsched ------------------------------
(* Rsched.tla on small instances. *)
EXTENDS RschedInv

CONSTANTS c1, c2

MCContexts == {c1, c2}
MCOneContext == {c1}
=============================================================================
