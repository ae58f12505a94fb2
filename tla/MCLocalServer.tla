--------------------------- MODULE MCLocalServer ---------------------------
(* Instances of LocalServer for TLC. *)
EXTENDS LocalServer
=============================================================================
