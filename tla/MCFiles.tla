------------------------------- MODULE MCFiles ------------------------------
(* The files of the forum that have nothing to do with each other, each with  *)
(* a module of its own: a data file with its free list, the list of visits,   *)
(* the announcements, the activity log, the users' records with the personal  *)
(* messages, and the alternative names.  A behaviour is one of one of them,   *)
(* whichever `which' says.                                                    *)
EXTENDS DataFile, PostGuard, Announces, ActivityLog, UserRecords, AltNames, TLC

CONSTANTS Parts, p1, p2, ann, bob

VARIABLE which

bodyVars == vars

MCSizes == 0..3

\* For PostGuard a list of two entries, shorter than the visits there may be; for
\* Announces one superuser, one other user and four announcements; for ActivityLog
\* four hits within six ticks, of a period of two: three periods; for UserRecords
\* two messages, pages of one, and four places for five favourites.
ASSUME PostGuardConstants /\ AnnouncesConstants /\ AltNamesConstants
ASSUME ActivityLogConstants /\ UserRecordsConstants /\ PlansRight

-----------------------------------------------------------------------------
Ask(op, user, what) == [op |-> op, user |-> user, what |-> what]
Messages == {Ask("message", u, v) : u, v \in {ann, bob}}
Others(op) == {Ask(op, u, 0) : u \in {ann, bob}}
Only(p, requests) == [q \in {p1, p2} |-> IF q = p THEN requests ELSE {}]

\* One after the other: messages, to oneself too, and pages that show them.
Mail == [alone |-> TRUE, may |-> Only(p1, Messages \cup Others("read") \cup Others("show"))]

\* One after the other: the favourites of one user.
Favourites ==
    [alone |-> TRUE,
     may |-> Only(p1, {Ask(op, ann, m) : op \in {"fav", "unfav"}, m \in 1..5}
                          \cup {Ask("show", ann, 0)})]

\* Two at once: ann and bob write to each other, ann to herself too; they look at
\* their messages and favourites; ann adds a favourite.
AtOnce ==
    [alone |-> FALSE,
     may |-> [p \in {p1, p2} |->
                 {Ask("message", ann, bob), Ask("message", bob, ann),
                  Ask("message", ann, ann), Ask("fav", ann, 1)}
                     \cup Others("read") \cup Others("show")]]

MCPlans == {Mail, Favourites, AtOnce}

-----------------------------------------------------------------------------
\* Two new names when requests come one after the other, one otherwise.
NewNames(u) == alone \/ u = ann

FilesInit ==
    /\ which \in Parts
    /\ Init
    /\ GuardInit /\ AnnInit
    /\ LogInit /\ (which # "log" => logAlone)
    /\ RecInit /\ (which # "records" => plan = Mail)
    /\ NameInit /\ (which # "names" => alone)
    /\ \A u \in {ann, bob} : nameUsers[u].state = IF NewNames(u) THEN "new" ELSE "removed"

FilesNext ==
    \/ /\ which = "bodies" /\ Next
       /\ UNCHANGED <<which, guardVars, annVars, logVars, recVars, nameVars>>
    \/ /\ which = "guard" /\ GuardNext
       /\ UNCHANGED <<which, bodyVars, annVars, logVars, recVars, nameVars>>
    \/ /\ which = "announcements" /\ AnnNext
       /\ UNCHANGED <<which, bodyVars, guardVars, logVars, recVars, nameVars>>
    \/ /\ which = "log" /\ LogNext
       /\ UNCHANGED <<which, bodyVars, guardVars, annVars, recVars, nameVars>>
    \/ /\ which = "records" /\ RecNext
       /\ UNCHANGED <<which, bodyVars, guardVars, annVars, logVars, nameVars>>
    \/ /\ which = "names" /\ NameNext
       /\ UNCHANGED <<which, bodyVars, guardVars, annVars, logVars, recVars>>

FilesSpec ==
    FilesInit /\ [][FilesNext]_<<which, bodyVars, guardVars, annVars, logVars, recVars, nameVars>>
=============================================================================
