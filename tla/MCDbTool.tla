------------------------------ MODULE MCDbTool ------------------------------
(* Two sizes of records, one creator of the list. *)
EXTENDS DbTool

MCSizes == {1, 3}
=============================================================================
