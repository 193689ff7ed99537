----------------------------- MODULE DataFileIO -----------------------------
(***************************************************************************)
(* DataFile when reading or writing the list file fails.  AllocFreeSpace   *)
(* then returns FREEDBFILE_ERROR_IO_ERROR, which is 2, and DB_ChangeMessage *)
(* and CProfiles::WriteFullInfo compare its result with 0xFFFFFFFF only:   *)
(* any other value is the place they write the record at.                  *)
(***************************************************************************)
EXTENDS DataFile

IOError == 2

AllocFails(n) ==
    /\ created
    /\ n > 0
    /\ live' = live \cup {[index |-> IOError, size |-> n]}
    /\ end' = IF end < IOError + n THEN IOError + n ELSE end
    /\ UNCHANGED <<free, created, creators>>

NextIO == Next \/ \E n \in Sizes : AllocFails(n)

SpecIO == Init /\ [][NextIO]_vars
=============================================================================
