----------------------------- MODULE Announces -----------------------------
(***************************************************************************)
(* Global announcements (announces.cpp) and the two pages that change them *)
(* (main.cpp): globalann.msg is the number of the next announcement,       *)
(* followed by the announcements.  Posting, updating and deleting hold the *)
(* file's lock; the pages that show the announcements, or compare a cookie *)
(* with the last number, do not.  A deletion moves up what is behind the   *)
(* announcement and cuts the file then.  The first page shown has created  *)
(* the file; writes do not fail.                                           *)
(***************************************************************************)
EXTENDS Requests, Naturals, Sequences, SequencesExt

CONSTANTS
    Announcers,     \* users with the right to post announcements
    Supers,         \* those of them who are superusers
    MaxNumber       \* bound: numbers given

\* What the constants are.
AnnouncesConstants ==
    /\ None \notin Procs
    /\ Supers \subseteq Announcers
    /\ MaxNumber \in Nat \ {0}

VARIABLES
    next,           \* number of the next announcement
    anns,           \* the announcements in the file
    annLock,        \* who holds the file's lock
    torn,           \* history: a deletion was cut short
    annLoc          \* each request's own memory

annVars == <<next, anns, annLock, torn, annLoc>>

Announce == [number : Nat, from : Announcers]

\* number: the announcement to be replaced or deleted; end: where the file is
\* to be cut.
AnnIdle == [pc |-> "idle", user |-> None, number |-> 0, end |-> 0]

AnnInit ==
    /\ next = 1
    /\ anns = <<>>
    /\ annLock = None
    /\ torn = FALSE
    /\ annLoc = [p \in Procs |-> AnnIdle]

AnnAt(p, pc) == annLoc[p].pc = pc

\* Mutant: the number of announcements is taken.
NextByCount == Len(anns) + 2
NextNumber == next + 1

-----------------------------------------------------------------------------
\* PostGlobalAnnounce.  If it was asked for in place of an old announcement,
\* that one is deleted afterwards (refid=1), whoever posted it.
PostAnnounce(p) ==
    /\ AnnAt(p, "idle") /\ annLock = None
    /\ next < MaxNumber
    /\ next' = NextNumber
    /\ \E u \in Announcers :
          /\ anns' = Append(anns, [number |-> next, from |-> u])
          /\ \/ UNCHANGED annLoc
             \/ \E n \in 1..(next - 1) :
                   annLoc' = [annLoc EXCEPT ![p] =
                              [AnnIdle EXCEPT !.pc = "replace", !.user = u, !.number = n]]
    /\ UNCHANGED <<annLock, torn>>

\* UpdateGlobalAnnounce: it is the updating user's now.
UpdateAnnounce(p) ==
    /\ AnnAt(p, "idle") /\ annLock = None
    /\ \E u \in Announcers, i \in DOMAIN anns :
          /\ \A j \in 1..(i - 1) : anns[j].number # anns[i].number
          /\ anns' = [anns EXCEPT ![i].from = u]
    /\ UNCHANGED <<next, annLock, torn, annLoc>>

\* The place where DeleteGlobalAnnounce stops reading: at the announcement, if
\* the user may delete it; otherwise behind the last one, and then the last one
\* is still at hand and is taken for the one asked for if it has that number.
Found(n, all, u) ==
    LET it == SelectInSeq(anns, LAMBDA a : a.number = n /\ (all \/ a.from = u))
    IN  IF it # 0 THEN it
        ELSE IF anns # <<>> /\ Last(anns).number = n THEN Len(anns) + 1 ELSE 0

\* Mutant: the announcement asked for is read again as the first behind it.
MovedUpFrom(i) == SubSeq(anns, 1, i - 1) \o SubSeq(anns, i + 2, Len(anns))

\* What is behind place i is written one place further ahead.
MovedUp(i) == SubSeq(anns, 1, i - 1) \o SubSeq(anns, i + 1, Len(anns))

\* DeleteGlobalAnnounce under the lock: the announcements behind are moved up,
\* so that the last one is there twice ...
MoveUp(p, n, all, u) ==
    LET i == Found(n, all, u)
        moved == MovedUp(i)
    IN  /\ annLock = None
        /\ i # 0
        /\ anns' = moved \o SubSeq(anns, Len(moved) + 1, Len(anns))
        /\ annLock' = p
        /\ annLoc' = [annLoc EXCEPT ![p] = [pc |-> "cut", user |-> u, number |-> n,
                                     end |-> Len(anns) - 1]]
        /\ UNCHANGED <<next, torn>>

\* The user deletes an announcement (ganndel), all of them if a superuser.
DeleteAnnounce(p) ==
    /\ AnnAt(p, "idle")
    /\ \E u \in Announcers, n \in 1..(next - 1) : MoveUp(p, n, u \in Supers, u)

\* The old announcement goes after the new one was posted, if it is still there.
ReplaceAnnounce(p) ==
    /\ AnnAt(p, "replace")
    /\ \/ MoveUp(p, annLoc[p].number, TRUE, annLoc[p].user)
       \/ /\ annLock = None
          /\ Found(annLoc[p].number, TRUE, annLoc[p].user) = 0
          /\ annLoc' = [annLoc EXCEPT ![p] = AnnIdle]
          /\ UNCHANGED <<next, anns, annLock, torn>>

\* ... and the end of the file is cut off.
CutAnnounces(p) ==
    /\ AnnAt(p, "cut")
    /\ anns' = SubSeq(anns, 1, annLoc[p].end)
    /\ annLock' = None
    /\ annLoc' = [annLoc EXCEPT ![p] = AnnIdle]
    /\ UNCHANGED <<next, torn>>

\* The process is killed in between.
DieAnnouncing(p) ==
    /\ AnnAt(p, "cut") \/ AnnAt(p, "replace")
    /\ annLock' = IF annLock = p THEN None ELSE annLock
    /\ torn' = (torn \/ AnnAt(p, "cut"))
    /\ annLoc' = [annLoc EXCEPT ![p] = AnnIdle]
    /\ UNCHANGED <<next, anns>>

\* ReadGlobalAnnounces, ReadLastAnnounceNumber.
ShowAnnounces(p) == AnnAt(p, "idle") /\ UNCHANGED annVars

AnnNext ==
    \E p \in Procs :
        \/ PostAnnounce(p) \/ UpdateAnnounce(p) \/ DeleteAnnounce(p)
        \/ ReplaceAnnounce(p) \/ CutAnnounces(p) \/ DieAnnouncing(p) \/ ShowAnnounces(p)

AnnSpec == AnnInit /\ [][AnnNext]_annVars

-----------------------------------------------------------------------------
AnnTypeOK ==
    /\ next \in 1..MaxNumber
    /\ anns \in Seq(Announce)
    /\ annLock \in Procs \cup {None}
    /\ torn \in BOOLEAN
    /\ \A p \in Procs :
          /\ annLoc[p].pc \in {"idle", "replace", "cut"}
          /\ annLoc[p].user \in Announcers \cup {None}
          /\ annLoc[p].number \in 0..(next - 1) /\ annLoc[p].end \in Nat

\* An announcement is named by its number in the links of the page and in the
\* cookie of the last one hidden: numbers go up in the file and the next one is
\* greater than all of them, unless a deletion was cut short.
NumbersGoUp ==
    /\ \A i \in DOMAIN anns : anns[i].number < next
    /\ ~torn /\ annLock = None =>
          \A i, j \in DOMAIN anns : i < j => anns[i].number < anns[j].number

Numbers == {a.number : a \in ToSet(anns)}

\* No announcement is missing for a moment while another is deleted, nor after
\* a request was killed: one disappears from the file only when a deletion of
\* its number moves up what is behind it or cuts the file.
OthersStay ==
    [][\A n \in Numbers \ Numbers' :
          \E p \in Procs :
             /\ annLock = p \/ annLock' = p
             /\ n \in {annLoc[p].number, annLoc'[p].number}]_annVars
=============================================================================
