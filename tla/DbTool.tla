------------------------------- MODULE DbTool -------------------------------
(***************************************************************************)
(* The database tool (profman.cpp) on a data file and its free list: it    *)
(* creates a database anew while no request is under way, by opening files *)
(* with mode "wb".  For users (-nu) these are the data files and their     *)
(* lists, for messages (-nm) the data files only: freemess.msg and         *)
(* freeindex.msg keep the entries of the old files.                        *)
(***************************************************************************)
EXTENDS DataFile

\* CreateMessagesDatabase: index.msg and messages.msg are emptied.
RenewMessages ==
    /\ creators = 0
    /\ end' = 0 /\ live' = {}
    /\ UNCHANGED <<free, created, creators>>

\* CreateProfilesDatabase: profbody.db is emptied and so is its list.
RenewProfiles ==
    /\ creators = 0
    /\ end' = 0 /\ live' = {}
    /\ free' = <<>> /\ created' = TRUE
    /\ UNCHANGED creators

\* A block of the list may now lie beyond the end of the file: writing to it
\* makes the file longer.
AllocListed(n) ==
    \E i \in DOMAIN free :
        /\ created
        /\ TakeFrom(free, free', i, n, AllocWasted)
        /\ live' = live \cup NonEmpty({[index |-> free[i].index, size |-> n]})
        /\ end' = IF n > 0 /\ free[i].index + n > end THEN free[i].index + n ELSE end
        /\ UNCHANGED <<created, creators>>

NextRenewed ==
    \/ MissList \/ CreateList
    \/ \E n \in Sizes : AllocListed(n) \/ AllocEnd(n)
    \/ \E b \in live : \E n \in 0..(b.size - 1) : FreeFrom(b, n)
    \/ RenewMessages \/ RenewProfiles

SpecRenewed == Init /\ [][NextRenewed]_vars
=============================================================================
