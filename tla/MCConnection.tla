---------------------------- MODULE MCConnection ----------------------------
(* Connection with small constants: given in the .cfg files.               *)
EXTENDS Connection, TLC
=============================================================================
