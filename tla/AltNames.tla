------------------------------ MODULE AltNames ------------------------------
(***************************************************************************)
(* Alternative spellings of users' names (colornick.cpp).  A user's record *)
(* says how the name is to be spelled; pages take the spelling from a      *)
(* small file of its own, read into a cache when a request begins.  Every  *)
(* handler writes the user's record first and puts the file right then,    *)
(* under the file's lock, by what it knew when it began: registering,      *)
(* changing and removing a profile (CheckAndCreateProfile), and changing a *)
(* user's rights.  Whether a spelling may be given is the right of the one *)
(* who asks, the user or a superuser, and not of the one who gets it.  A   *)
(* user removed is never registered again: user numbers are not used       *)
(* twice.  Files so long that a deletion gives up (100000 bytes behind the *)
(* record) are left out.                                                   *)
(***************************************************************************)
EXTENDS Requests, Naturals, Sequences, SequencesExt

CONSTANTS
    Spellings,      \* alternative spellings
    Empty           \* the empty one

\* What the constants are.
AltNamesConstants == None \notin Users /\ Empty \notin Spellings

VARIABLES
    nameUsers,      \* users' records
    names,          \* the file, records in their order
    unchecked,      \* history: users given a spelling without a right of their own
    alone,          \* requests come one after the other
    nameLoc         \* each request's own memory

nameVars == <<nameUsers, names, unchecked, alone, nameLoc>>

Spelling == Spellings \cup {Empty}

\* altdisplayname, PROFILES_FLAG_ALT_DISPLAY_NAME, and USERRIGHT_ALT_DISPLAY_NAME or
\* USERRIGHT_SUPERUSER, which every check takes for it.
User == [state : {"new", "there", "removed"}, alt : Spelling,
         flag : BOOLEAN, right : BOOLEAN]

Unknown == [state |-> "new", alt |-> Empty, flag |-> FALSE, right |-> FALSE]
UsedUp == [Unknown EXCEPT !.state = "removed"]

\* cache: the users in nmap; may: the right of the one who asks; ui: the record
\* read; job: what is left to be done to the file.
NameIdle == [pc |-> "idle", op |-> "none", user |-> None, cache |-> {},
         may |-> FALSE, ui |-> Unknown, job |-> "none", alt |-> Empty]

NameInit ==
    /\ nameUsers \in [Users -> {Unknown, UsedUp}]
    /\ names = <<>>
    /\ unchecked = {}
    /\ alone \in BOOLEAN
    /\ nameLoc = [p \in Procs |-> NameIdle]

Ops == {"register", "update", "remove", "rights"}

\* The file is read into the cache before anything else.
BeginNaming(p) ==
    /\ nameLoc[p].pc = "idle"
    /\ alone => \A q \in Procs : nameLoc[q].pc = "idle"
    /\ \E op \in Ops, u \in Users :
          nameLoc' = [nameLoc EXCEPT ![p] =
                     [NameIdle EXCEPT !.pc = "login", !.op = op, !.user = u,
                                  !.cache = {names[i].user : i \in DOMAIN names}]]
    /\ UNCHANGED <<nameUsers, names, unchecked, alone>>

\* A profile is changed by its user or by a superuser, and made by anybody, logged
\* in or not; where the right is not looked at it is FALSE.
Askers(op, u) ==
    CASE op = "register" -> BOOLEAN
      [] op = "update" ->
            {TRUE} \cup {may \in {nameUsers[u].right} : nameUsers[u].state = "there"}
      [] OTHER -> {FALSE}

\* CheckSession reads the right of the one who asks (ULogin.LU.right).
LogIn(p) ==
    /\ nameLoc[p].pc = "login"
    /\ \E may \in Askers(nameLoc[p].op, nameLoc[p].user) :
          nameLoc' = [nameLoc EXCEPT ![p].pc = "read", ![p].may = may]
    /\ UNCHANGED <<nameUsers, names, unchecked, alone>>

\* The handler reads the user's record; it is there, but for a user to be
\* registered.
ReadRecord(p) ==
    LET u == nameLoc[p].user IN
    /\ nameLoc[p].pc = "read"
    /\ nameUsers[u].state = IF nameLoc[p].op = "register" THEN "new" ELSE "there"
    /\ nameLoc' = [nameLoc EXCEPT ![p].pc = "write", ![p].ui = nameUsers[u]]
    /\ UNCHANGED <<nameUsers, names, unchecked, alone>>

\* What is to be done to the file after the record was written.
Then(p, job, alt) ==
    nameLoc' = IF job = "none" THEN [nameLoc EXCEPT ![p] = NameIdle]
           ELSE [nameLoc EXCEPT ![p].pc = "file", ![p].may = FALSE, ![p].ui = Unknown,
                            ![p].job = job, ![p].alt = alt]

\* AddAltName, or DeleteAltName for an empty spelling.
JobFor(alt) == IF alt = Empty THEN "delete" ELSE "add"

Writes(p, op) == nameLoc[p].pc = "write" /\ nameLoc[p].op = op

\* History: a spelling is put into the file for a user who has the right, or not.
Checked(u, job, right) ==
    unchecked' = IF job # "add" THEN unchecked
                 ELSE IF right THEN unchecked \ {u} ELSE unchecked \cup {u}

\* What the record says: the spelling, and whether who asks may give it.
Respelled(alt, may, right) ==
    [state |-> "there", alt |-> alt, flag |-> may /\ alt # Empty, right |-> right]

\* A user is registered: the spelling is put into the file whatever the right.
RegisterUser(p) ==
    LET u == nameLoc[p].user IN
    /\ Writes(p, "register") /\ nameUsers[u].state = "new"
    /\ \E alt \in Spelling :
          /\ nameUsers' = [nameUsers EXCEPT ![u] = Respelled(alt, nameLoc[p].may, FALSE)]
          /\ Then(p, JobFor(alt), alt)
          /\ Checked(u, JobFor(alt), FALSE)
    /\ UNCHANGED <<names, alone>>

\* Mutant: the file is put right only when there is a spelling.
JobOfNewSpelling(may, alt) == IF may /\ alt # Empty THEN "add" ELSE "none"

\* needregisteraltnick: the file is left alone unless who asks has the right.
JobOfUpdate(may, alt) == IF may THEN JobFor(alt) ELSE "none"

\* A profile is changed: ModifyUser writes the whole record.
UpdateUser(p) ==
    LET u == nameLoc[p].user
        may == nameLoc[p].may
        right == nameLoc[p].ui.right
    IN  /\ Writes(p, "update") /\ nameUsers[u].state = "there"
        /\ \E alt \in Spelling :
              /\ nameUsers' = [nameUsers EXCEPT ![u] = Respelled(alt, may, right)]
              /\ Then(p, JobOfUpdate(may, alt), alt)
              /\ Checked(u, JobOfUpdate(may, alt), right)
        /\ UNCHANGED <<names, alone>>

\* A user is removed; the file is touched if the record read had the flag.
RemoveUser(p) ==
    LET u == nameLoc[p].user
        ui == nameLoc[p].ui
    IN  /\ Writes(p, "remove") /\ nameUsers[u].state = "there"
        /\ nameUsers' = [nameUsers EXCEPT ![u].state = "removed"]
        /\ Then(p, IF ui.alt # Empty /\ ui.flag THEN "delete" ELSE "none", Empty)
        /\ UNCHANGED <<names, unchecked, alone>>

\* A superuser gives or takes the right: SetUInfo writes the whole record.
Rights(p) ==
    LET u == nameLoc[p].user
        ui == nameLoc[p].ui
    IN  /\ Writes(p, "rights")
        /\ \E right \in BOOLEAN :
              LET taken == ui.right /\ ~right IN
              /\ nameUsers' = IF nameUsers[u].state # "there" THEN nameUsers
                          ELSE [nameUsers EXCEPT ![u] =
                                  [state |-> "there", alt |-> ui.alt,
                                   flag |-> ui.flag /\ ~taken, right |-> right]]
              /\ Then(p, IF taken THEN "delete" ELSE "none", Empty)
        /\ UNCHANGED <<names, unchecked, alone>>

\* There is no such user, or there is one already: nothing is done.
Fails(p) ==
    /\ nameLoc[p].pc \in {"read", "write"}
    /\ nameLoc[p].pc = "write" => nameLoc[p].op # "rights"
    /\ nameUsers[nameLoc[p].user].state # IF nameLoc[p].op = "register" THEN "new" ELSE "there"
    /\ nameLoc' = [nameLoc EXCEPT ![p] = NameIdle]
    /\ UNCHANGED <<nameUsers, names, unchecked, alone>>

-----------------------------------------------------------------------------
PlacesOf(u) == {i \in DOMAIN names : names[i].user = u}

\* Mutant: a record is looked for in the cache and not in the file.
WrittenByCache(p, u, record) ==
    IF u \in nameLoc[p].cache /\ PlacesOf(u) # {}
    THEN [names EXCEPT ![CHOOSE i \in PlacesOf(u) : TRUE] = record]
    ELSE Append(names, record)

\* The first record of the user is written over, or one is appended.
Written(p, u, record) ==
    IF PlacesOf(u) = {} THEN Append(names, record)
    ELSE [names EXCEPT ![CHOOSE i \in PlacesOf(u) : \A j \in PlacesOf(u) : i <= j] = record]

\* AddAltName.
AddAltName(p) ==
    LET u == nameLoc[p].user IN
    /\ nameLoc[p].pc = "file" /\ nameLoc[p].job = "add"
    /\ names' = Written(p, u, [user |-> u, alt |-> nameLoc[p].alt])
    /\ nameLoc' = [nameLoc EXCEPT ![p] = NameIdle]
    /\ UNCHANGED <<nameUsers, unchecked, alone>>

\* DeleteAltName: what is behind the record is moved up; a user who is not in
\* the cache is not looked for.
DeleteAltName(p) ==
    LET u == nameLoc[p].user IN
    /\ nameLoc[p].pc = "file" /\ nameLoc[p].job = "delete"
    /\ IF u \in nameLoc[p].cache /\ PlacesOf(u) # {}
         THEN /\ names' = RemoveAt(names,
                                      CHOOSE i \in PlacesOf(u) : \A j \in PlacesOf(u) : i <= j)
              /\ unchecked' = unchecked \ {u}
         ELSE UNCHANGED <<names, unchecked>>
    /\ nameLoc' = [nameLoc EXCEPT ![p] = NameIdle]
    /\ UNCHANGED <<nameUsers, alone>>

NameNext ==
    \E p \in Procs :
        \/ BeginNaming(p) \/ LogIn(p) \/ ReadRecord(p) \/ RegisterUser(p) \/ UpdateUser(p)
        \/ RemoveUser(p) \/ Rights(p) \/ Fails(p) \/ AddAltName(p) \/ DeleteAltName(p)

NameSpec == NameInit /\ [][NameNext]_nameVars

-----------------------------------------------------------------------------
NameTypeOK ==
    /\ nameUsers \in [Users -> User]
    /\ names \in Seq([user : Users, alt : Spellings])
    /\ unchecked \subseteq Users
    /\ alone \in BOOLEAN

\* A user is in the file once at most, whoever writes it at the same time with
\* whatever cache, so that the spelling pages show is the one written last.
OneSpelling ==
    \A i, j \in DOMAIN names : names[i].user = names[j].user => i = j

\* When requests come one after the other, whoever's record says so is spelled in
\* the file as the record says; and the file spells nobody else, but for users who
\* were given a spelling without a right of their own, at registration or by a
\* superuser: it stays in the file after their next change of profile, or their
\* removal (CheckAndCreateProfile).
SpellingsAgree ==
    alone /\ (\A p \in Procs : nameLoc[p].pc = "idle") =>
        \A u \in Users :
            LET spelled == {names[i].alt : i \in PlacesOf(u)}
                says == nameUsers[u].state = "there" /\ nameUsers[u].flag
            IN  /\ says => spelled = {nameUsers[u].alt}
                /\ ~says /\ u \notin unchecked => spelled = {}
=============================================================================
