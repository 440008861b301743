------------------------------ MODULE MCIdList -------------------------------
(* Values for checking IdList. *)
EXTENDS IdList

MCPageNumbers == 1 .. 3
=============================================================================
