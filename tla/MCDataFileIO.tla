--------------------------- MODULE MCDataFileIO ---------------------------
(* A body file with its 4-byte pad, on a disk that may fail. *)
EXTENDS DataFileIO

MCSizes == {1, 3}
===========================================================================
