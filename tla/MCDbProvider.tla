---------------------------- MODULE MCDbProvider ----------------------------
(* Storage calls on one model.                                               *)
EXTENDS DbProvider
=============================================================================
