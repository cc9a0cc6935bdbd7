------------------------------ MODULE ViewsMC --------------------------------
(* A small instance of Views. *)
EXTENDS Views

CONSTANTS u1
=============================================================================
