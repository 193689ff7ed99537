----------------------------- MODULE PostGuard -----------------------------
(***************************************************************************)
(* antispam.dat (security.cpp): the visits counted lately, that is pairs   *)
(* of an address and a message, with their dates.  A visit in the list is  *)
(* not counted again; a new one takes the place of the earliest.  The list *)
(* is read and written back under the file's lock, but the clock is read   *)
(* before, and the file is created without it by whoever does not find it. *)
(* The file's other list, of addresses that may not post yet, has a reader *)
(* (CheckPostfromIPValidity) and no writer that is ever called, so every   *)
(* post is let through.                                                    *)
(***************************************************************************)
EXTENDS Requests, Naturals, Sequences, FiniteSetsExt

CONSTANTS
    Visits,         \* pairs of an address and a message
    Nobody,         \* the visit of an empty entry
    Length,         \* READQUEUE_LENGTH
    MaxTime,        \* bound: the clock
    MaxCounted      \* bound: visits counted since the file was created

\* What the constants are.
PostGuardConstants ==
    /\ Nobody \notin Visits
    /\ {Length, MaxTime} \subseteq Nat \ {0} /\ MaxCounted \in Nat

VARIABLES
    guardNow,       \* the clock
    made,           \* whether the file is there, and not only opened
    reads,          \* SReadQueue entries
    counted,        \* history: visits counted since the file was created
    guardLoc        \* each request's own memory

guardVars == <<guardNow, made, reads, counted, guardLoc>>

GuardEntry == [visit : Visits \cup {Nobody}, date : Nat]

Blank == [i \in 1..Length |-> [visit |-> Nobody, date |-> 0]]

\* t: the time read first.
ReadRequest == [pc : {"idle", "open", "create", "fill", "check"}, op : {"view", "post"},
            visit : Visits \cup {Nobody}, t : Nat]
GuardIdle == [pc |-> "idle", op |-> "post", visit |-> Nobody, t |-> 0]

GuardInit ==
    /\ guardNow = 1
    /\ made = "missing"
    /\ reads = Blank
    /\ counted = <<>>
    /\ guardLoc = [p \in Procs |-> GuardIdle]

GuardAt(p, pc) == guardLoc[p].pc = pc
GuardGoto(p, pc) == guardLoc' = [guardLoc EXCEPT ![p].pc = pc]
EndVisit(p) == guardLoc' = [guardLoc EXCEPT ![p] = GuardIdle]

GuardTick ==
    /\ guardNow < MaxTime
    /\ guardNow' = guardNow + 1
    /\ UNCHANGED <<made, reads, counted, guardLoc>>

-----------------------------------------------------------------------------
\* A message is shown, or posted: the time is read.
BeginVisit(p) ==
    /\ GuardAt(p, "idle")
    /\ \/ guardLoc' = [guardLoc EXCEPT ![p] = [GuardIdle EXCEPT !.pc = "open", !.t = guardNow]]
       \/ /\ Len(counted) + Cardinality({q \in Procs : guardLoc[q].op = "view"}) < MaxCounted
          /\ \E v \in Visits :
                guardLoc' = [guardLoc EXCEPT ![p] =
                           [pc |-> "open", op |-> "view", visit |-> v, t |-> guardNow]]
    /\ UNCHANGED <<guardNow, made, reads, counted>>

\* The file is opened as it is, or to be created, which truncates it ...
OpenGuard(p) ==
    /\ GuardAt(p, "open")
    /\ GuardGoto(p, IF made = "missing" THEN "create" ELSE "check")
    /\ UNCHANGED <<guardNow, made, reads, counted>>

CreateGuard(p) ==
    /\ GuardAt(p, "create")
    /\ made' = "empty"
    /\ GuardGoto(p, "fill")
    /\ UNCHANGED <<guardNow, reads, counted>>

\* ... and filled with empty entries under the lock, whatever was put there.
FillGuard(p) ==
    /\ GuardAt(p, "fill")
    /\ made' = "made"
    /\ reads' = Blank
    /\ counted' = <<>>
    /\ IF guardLoc[p].op = "view" THEN GuardGoto(p, "check") ELSE EndVisit(p)
    /\ UNCHANGED guardNow

\* Mutant: the entry with the latest date.
LatestEntry(i) == \A j \in 1..Length : reads[j].date <= reads[i].date

\* CheckForIpAndMsgInQueue: the entry with the earliest date, the first of them.
EarliestEntry(i) ==
    \A j \in 1..Length :
        /\ reads[i].date <= reads[j].date
        /\ j < i => reads[i].date < reads[j].date

\* CheckReadValidity under the lock: a visit not in the list is counted.
CheckRead(p) ==
    LET new == [visit |-> guardLoc[p].visit, date |-> guardLoc[p].t] IN
    /\ GuardAt(p, "check") /\ guardLoc[p].op = "view" /\ made = "made"
    /\ \A i \in 1..Length : reads[i].visit # guardLoc[p].visit
    /\ \E i \in 1..Length : EarliestEntry(i) /\ reads' = [reads EXCEPT ![i] = new]
    /\ counted' = Append(counted, new)
    /\ EndVisit(p)
    /\ UNCHANGED <<guardNow, made>>

\* A visit in the list, or a post, changes nothing; an empty file is an error,
\* and printhtmlerror() ends the request.
CheckOnly(p) ==
    /\ GuardAt(p, "check")
    /\ \/ made = "empty"
       \/ guardLoc[p].op = "post"
       \/ \E i \in 1..Length : reads[i].visit = guardLoc[p].visit
    /\ EndVisit(p)
    /\ UNCHANGED <<guardNow, made, reads, counted>>

GuardNext ==
    \/ GuardTick
    \/ \E p \in Procs :
          \/ BeginVisit(p) \/ OpenGuard(p) \/ CreateGuard(p) \/ FillGuard(p)
          \/ CheckRead(p) \/ CheckOnly(p)

GuardSpec == GuardInit /\ [][GuardNext]_guardVars

-----------------------------------------------------------------------------
GuardTypeOK ==
    /\ guardNow \in 1..MaxTime
    /\ made \in {"missing", "empty", "made"}
    /\ reads \in [1..Length -> GuardEntry]
    /\ counted \in Seq(GuardEntry)
    /\ guardLoc \in [Procs -> ReadRequest]
    /\ \A p \in Procs : guardLoc[p].t <= guardNow

\* A visit is counted again only when it was pushed out by visits as late as
\* itself: all the other entries of the list were at least as late, even when
\* requests wait for the lock with a time read long before.  (Within one second
\* that may be soon: the first of the entries with one date is replaced, which
\* is the one counted last.)
CountedOnce ==
    \A i, j \in DOMAIN counted :
        i < j /\ counted[i].visit = counted[j].visit =>
            Length - 1 <= Cardinality({k \in 1..(j - 1) :
                              k # i /\ counted[k].date >= counted[i].date})
=============================================================================
