------------------------------ MODULE Accounts ------------------------------
(***************************************************************************)
(* User accounts and the sessions opened for them, under concurrent CGI    *)
(* requests: the profile database (profiles.cpp), the session file         *)
(* (module Sessions) and the handlers that use both (main.cpp).  The files *)
(*   profindex.idx   index     name -> place of the account's record       *)
(*   profindex.db    users     account records, and two counters in front  *)
(*   profbody.db     bodies    full records; only the creation date here   *)
(*   profifree.db, profbfree.db   ufree, bfree   free places of the two    *)
(* AddNewUser, DeleteUser and ModifyUser hold the locks of profindex.db    *)
(* and profbody.db from their first read to their last write, so what they *)
(* do under them is one step; they look the name up before.  SetUInfo      *)
(* locks only to write a whole record that was read at some time before.   *)
(* A full record takes one place, and which free place is handed out is    *)
(* left open: module DataFile models both lists to the byte.  Passwords    *)
(* are right and a user has every right but the superuser's.               *)
(***************************************************************************)
EXTENDS Sessions, FiniteSets, SequencesExt

CONSTANTS
    Procs,          \* requests
    Names,          \* user names
    NoName,         \* the name of nobody
    Plans           \* what some of them ask for, whether one after another, and
                    \* the database to start from

VARIABLES index, users, ufree, bodies, bfree,
          lastUniq, count,  \* last UniqID and number of users, in profindex.db
          alone,            \* requests come one after another
          loc               \* each request's own memory

profileVars == <<index, users, ufree, bodies, bfree, lastUniq, count>>
vars == <<sessionVars, profileVars, alone, loc>>

\* The superuser, whose own session is left out, removes a user (his sessions
\* are closed), purges one from the list of inactive users, closes a session.
SuperOp == {"remove", "purge", "closeany"}
OwnOp == {"visit", "logout", "leave", "modify", "closeown"}
NamingOp == {"login", "register", "remove", "purge"}
Op == SuperOp \cup OwnOp \cup {"login", "register"}
Request == [op : Op, name : Names \cup {NoName}, unbound : BOOLEAN]

\* full: FullInfo_ID, the place of the full record.
User == [name : Names \cup {NoName}, uniq : Nat, full : Nat]
NoUser == [name |-> NoName, uniq |-> 0, full |-> 0]

\* id: session of the request, 0 for none; uniq, expire: what its entry said;
\* ui, at: account record at hand and its place; created: creation date of that
\* account; since: time when the last step ended; gone: account removed;
\* other: another session, to be closed; heir: session by which the request
\* went on with an account of later date (remembered for the properties).
Idle(pc, rq) == [pc |-> pc, rq |-> rq, id |-> 0, uniq |-> 0, expire |-> 0,
                 ui |-> NoUser, at |-> 0, created |-> 0, since |-> 0,
                 gone |-> 0, other |-> 0, heir |-> 0]
EndedRequest == [op |-> "visit", name |-> NoName, unbound |-> FALSE]

\* A database as earlier requests may have left it: sessions and places lead to
\* records, and nothing is dated later than now.
Database(d) ==
    /\ d.auth \in Seq(Entry) /\ d.issued \in Nat /\ d.now \in Nat \ {0}
    /\ \A i \in DOMAIN d.auth :
          d.auth[i].id \in 1..d.issued /\ d.auth[i].at \in DOMAIN d.users
    /\ \A i, j \in DOMAIN d.auth : d.auth[i].id = d.auth[j].id => i = j
    /\ d.index \in [Names -> 0..Len(d.users)] /\ d.users \in Seq(User)
    /\ \A i \in DOMAIN d.users :
          d.users[i].name \in Names /\ d.users[i].full \in DOMAIN d.bodies
    /\ d.bodies \in Seq(0..d.now)
    /\ d.ufree \in Seq(DOMAIN d.users) /\ d.bfree \in Seq(DOMAIN d.bodies)
    /\ d.lastUniq \in Nat
    /\ d.count = Cardinality({name \in Names : d.index[name] # 0})

ASSUME AccountsAssumption ==
    /\ NoName \notin Names /\ IsFiniteSet(Names)
    /\ \A plan \in Plans :
          /\ plan.alone \in BOOLEAN /\ Database(plan.seed)
          /\ \A p \in DOMAIN plan.rq :
                /\ plan.rq[p] \in Request
                /\ plan.rq[p].op \in NamingOp => plan.rq[p].name \in Names

Init ==
    \E plan \in Plans :
        /\ auth = plan.seed.auth /\ issued = plan.seed.issued /\ now = plan.seed.now
        /\ index = plan.seed.index /\ users = plan.seed.users /\ ufree = plan.seed.ufree
        /\ bodies = plan.seed.bodies /\ bfree = plan.seed.bfree
        /\ lastUniq = plan.seed.lastUniq /\ count = plan.seed.count
        /\ alone = plan.alone
        /\ loc = [p \in Procs |-> IF p \in DOMAIN plan.rq
                                   THEN Idle("start", plan.rq[p])
                                   ELSE Idle("done", EndedRequest)]

-----------------------------------------------------------------------------
At(p, pc) == loc[p].pc = pc
Over(p) == At(p, "done")

Goto(p, pc) == loc' = [loc EXCEPT ![p].pc = pc, ![p].since = now]

\* The request ends; what it removed is remembered for the properties.
End(p, gone) ==
    loc' = [loc EXCEPT ![p] = [Idle("done", EndedRequest) EXCEPT
                                 !.gone = gone, !.heir = loc[p].heir]]

OwnHandler == [visit |-> "done", logout |-> "endown", leave |-> "find",
               modify |-> "own", closeown |-> "pick"]

\* The first step of a handler, with or without a session.
Handler(op, logged) ==
    CASE op = "login"    -> IF logged THEN "endown" ELSE "lookup"
      [] op = "register" -> "exists"
      [] op = "remove"   -> "find"
      [] op = "purge"    -> "where"
      [] op = "closeany" -> "pick"
      [] op \in OwnOp    -> IF logged THEN OwnHandler[op] ELSE "done"

Handle(p, logged) ==
    LET pc == Handler(loc[p].rq.op, logged)
    IN  IF pc = "done" THEN End(p, 0)
        ELSE loc' = [loc EXCEPT ![p].pc = pc, ![p].since = now,
                                ![p].id = IF logged THEN @ ELSE 0]

\* The name an operation on an account is about: one's own or a given one.
Name(p) == IF loc[p].rq.op \in OwnOp THEN loc[p].ui.name ELSE loc[p].rq.name

Put(seq, at, x) == IF at \in DOMAIN seq THEN [seq EXCEPT ![at] = x] ELSE Append(seq, x)

\* AllocFreeSpace, or the end of the file: a place, and the free ones left.
Space(free, end) ==
    IF free = <<>> THEN {[at |-> end + 1, left |-> free]}
    ELSE {[at |-> free[i], left |-> RemoveAt(free, i)] : i \in DOMAIN free}

\* GetUserByName finds the name, and a record of that name at its place.
Known(name) == index[name] # 0 /\ users[index[name]].name = name

-----------------------------------------------------------------------------
\* A request comes, with the cookie of some session or without.
Begin(p) ==
    /\ At(p, "start")
    /\ alone => \A q \in Procs : At(q, "start") \/ Over(q)
    /\ \/ Handle(p, FALSE)
       \/ \E id \in 1..issued :
             /\ loc[p].rq.op \notin SuperOp
             /\ loc' = [loc EXCEPT ![p].pc = "check", ![p].id = id]
    /\ UNCHANGED <<sessionVars, profileVars, alone>>

\* CheckSession: the session is looked up and renewed; the request keeps the
\* entry as it was before.
CheckSession(p) ==
    /\ At(p, "check")
    /\ \E same \in BOOLEAN :
          \/ \E i \in DOMAIN auth :
                /\ Valid(i, loc[p].id, same)
                /\ RenewEntry(i)
                /\ loc' = [loc EXCEPT ![p].pc = "profile",
                              ![p].uniq = auth[i].uniq, ![p].at = auth[i].at,
                              ![p].expire = auth[i].expire]
          \/ /\ \A i \in DOMAIN auth : ~Valid(i, loc[p].id, same)
             /\ Handle(p, FALSE)
             /\ UNCHANGED sessionVars
    /\ UNCHANGED <<profileVars, alone>>

\* Mutant: the age of the account is not looked at.
OlderThanAccountNever(expire, date) == FALSE

\* "security check that session was opened by this account"
OlderThanAccount(expire, date) == date + TTL > expire

\* CheckSession reads the account record the session names, and its full one.
ReadProfile(p) ==
    LET ui == users[loc[p].at]
    IN  /\ At(p, "profile")
        /\ loc' = [loc EXCEPT ![p].ui = ui, ![p].created = bodies[ui.full],
                      ![p].since = now,
                      ![p].heir = IF /\ ui.uniq # loc[p].uniq
                                     /\ bodies[ui.full] + TTL = loc[p].expire
                                  THEN loc[p].id ELSE 0,
                      ![p].pc = IF OlderThanAccount(loc[p].expire, bodies[ui.full])
                                THEN "reject" ELSE "touch"]
        /\ UNCHANGED <<sessionVars, profileVars, alone>>

\* The session is closed; the request goes on without one.
RejectSession(p) ==
    /\ At(p, "reject")
    /\ \E tn \in loc[p].since..now : CloseById(tn, loc[p].id)
    /\ Handle(p, FALSE)
    /\ UNCHANGED <<profileVars, alone>>

\* SetUInfo at the end of CheckSession: date and address of the visit are
\* stored with all of the record that was read.
TouchProfile(p) ==
    /\ At(p, "touch")
    /\ users' = [users EXCEPT ![loc[p].at] = loc[p].ui]
    /\ Handle(p, TRUE)
    /\ UNCHANGED <<sessionVars, index, ufree, bodies, bfree, lastUniq, count, alone>>

\* CloseSession(LU.ID), to log out or before another session is opened.
EndOwnSession(p) ==
    /\ At(p, "endown")
    /\ \E tn \in loc[p].since..now : CloseById(tn, loc[p].id)
    /\ IF loc[p].rq.op = "logout" THEN End(p, 0)
       ELSE loc' = [loc EXCEPT ![p].pc = "lookup", ![p].id = 0]
    /\ UNCHANGED <<profileVars, alone>>

\* OpenSession: GetUserByName.
FindAccount(p) ==
    /\ At(p, "lookup")
    /\ IF Known(Name(p))
       THEN loc' = [loc EXCEPT ![p].pc = "open", ![p].at = index[Name(p)],
                       ![p].ui = users[index[Name(p)]], ![p].since = now]
       ELSE End(p, 0)
    /\ UNCHANGED <<sessionVars, profileVars, alone>>

\* OpenSession: OpenAuthSequence.
OpenSession(p) ==
    /\ At(p, "open")
    /\ issued < MaxSessions
    /\ \E tn \in loc[p].since..now :
          OpenAuthSequence(tn, loc[p].ui.uniq, loc[p].rq.unbound, loc[p].at)
    /\ Goto(p, "stamp")
    /\ UNCHANGED <<profileVars, alone>>

\* OpenSession: SetUInfo, again with all of the record.
StampLogin(p) ==
    /\ At(p, "stamp")
    /\ users' = [users EXCEPT ![loc[p].at] = loc[p].ui]
    /\ End(p, 0)
    /\ UNCHANGED <<sessionVars, index, ufree, bodies, bfree, lastUniq, count, alone>>

-----------------------------------------------------------------------------
\* AddNewUser before the locks: the name is unknown, the creation date is now.
CheckName(p) ==
    /\ At(p, "exists")
    /\ IF index[Name(p)] # 0 THEN End(p, 0)
       ELSE loc' = [loc EXCEPT ![p].pc = "add", ![p].created = now]
    /\ UNCHANGED <<sessionVars, profileVars, alone>>

\* Mutant: the records written are not taken back.
TakenBackNot(free, at) == free
TakenBack(free, at) == Append(free, at)

\* Mutant: under the locks the name is not looked for again.
UnusedUnchecked(name) == TRUE
Unused(name) == index[name] = 0

\* AddNewUser under the locks.  The name may have been taken meanwhile: then
\* both records are handed back and the request ends with an error.
AddUser(p) ==
    LET name == Name(p)
    IN  /\ At(p, "add")
        /\ lastUniq < MaxUsers
        /\ \E u \in Space(ufree, Len(users)), b \in Space(bfree, Len(bodies)) :
              /\ users' = Put(users, u.at, [name |-> name, uniq |-> lastUniq + 1,
                                            full |-> b.at])
              /\ bodies' = Put(bodies, b.at, loc[p].created)
              /\ IF Unused(name)
                 THEN /\ ufree' = u.left /\ bfree' = b.left
                      /\ index' = [index EXCEPT ![name] = u.at]
                      /\ lastUniq' = lastUniq + 1
                      /\ count' = count + 1
                      /\ Goto(p, IF loc[p].id # 0 THEN "endown" ELSE "lookup")
                 ELSE /\ ufree' = TakenBack(u.left, u.at)
                      /\ bfree' = TakenBack(b.left, b.at)
                      /\ UNCHANGED <<index, lastUniq, count>>
                      /\ End(p, 0)
        /\ UNCHANGED <<sessionVars, alone>>

\* The handler looks the account up that is to be removed, for its UniqID.
FindRemoved(p) ==
    /\ At(p, "find")
    /\ IF Known(Name(p))
       THEN loc' = [loc EXCEPT ![p].pc = "where", ![p].gone = users[index[Name(p)]].uniq]
       ELSE End(p, 0)
    /\ UNCHANGED <<sessionVars, profileVars, alone>>

\* DeleteUser and ModifyUser before the locks: GetIndexOfString.
FindPlace(p) ==
    /\ At(p, "where")
    /\ IF index[Name(p)] = 0 THEN End(p, 0)
       ELSE loc' = [loc EXCEPT ![p].at = index[Name(p)],
                       ![p].pc = IF loc[p].rq.op = "modify" THEN "rewrite" ELSE "delete"]
    /\ UNCHANGED <<sessionVars, profileVars, alone>>

\* DeleteUser under the locks: the record is read again and must have the name;
\* its data stays in the free place.  When the name is not in the index any
\* more, both places have been handed back already and an error is returned.
DeleteUser(p) ==
    LET name == Name(p)
        ui == users[loc[p].at]
    IN  /\ At(p, "delete")
        /\ IF ui.name # name
           THEN End(p, 0) /\ UNCHANGED profileVars
           ELSE /\ bfree' = Append(bfree, ui.full)
                /\ ufree' = Append(ufree, loc[p].at)
                /\ IF index[name] = 0
                   THEN End(p, 0) /\ UNCHANGED <<index, count>>
                   ELSE /\ index' = [index EXCEPT ![name] = 0]
                        /\ count' = count - 1
                        /\ IF loc[p].rq.op = "purge" THEN End(p, 0) ELSE Goto(p, "sweep")
                /\ UNCHANGED <<users, bodies, lastUniq>>
        /\ UNCHANGED <<sessionVars, alone>>

\* ForceCloseSessionForUser: "delete all sessions."
CloseSessions(p) ==
    /\ At(p, "sweep")
    /\ \E tn \in loc[p].since..now : CloseByUser(tn, loc[p].gone)
    /\ End(p, loc[p].gone)
    /\ UNCHANGED <<profileVars, alone>>

\* The form to edit an account loads it; if it has gone, the date of creation
\* is whatever was in memory.
LoadOwn(p) ==
    /\ At(p, "own")
    /\ \E date \in IF Known(Name(p)) THEN {bodies[users[index[Name(p)]].full]} ELSE 0..now :
          loc' = [loc EXCEPT ![p].pc = "where", ![p].created = date]
    /\ UNCHANGED <<sessionVars, profileVars, alone>>

\* ModifyUser under the locks: the old full record's place is handed back, the
\* new one is allocated; the UniqID is kept from the record as it is now.
ModifyUser(p) ==
    LET ui == users[loc[p].at]
    IN  /\ At(p, "rewrite")
        /\ IF ui.name # Name(p)
           THEN UNCHANGED profileVars
           ELSE /\ \E b \in Space(Append(bfree, ui.full), Len(bodies)) :
                      /\ bfree' = b.left
                      /\ bodies' = Put(bodies, b.at, loc[p].created)
                      /\ users' = [users EXCEPT ![loc[p].at].full = b.at]
                /\ UNCHANGED <<index, ufree, lastUniq, count>>
        /\ End(p, 0)
        /\ UNCHANGED <<sessionVars, alone>>

\* Mutant: whose session it is does not matter.
MayCloseAny(p, i) == auth[i].expire > now
\* Closing a session from the list: one's own, or the superuser any.
MayClose(p, i) ==
    /\ auth[i].expire > now
    /\ loc[p].rq.op = "closeany" \/ auth[i].uniq = loc[p].uniq

PickSession(p) ==
    /\ At(p, "pick")
    /\ \/ End(p, 0)
       \/ \E i \in DOMAIN auth :
             /\ MayClose(p, i)
             /\ loc' = [loc EXCEPT ![p].pc = "endother", ![p].other = auth[i].id,
                                   ![p].since = now]
    /\ UNCHANGED <<sessionVars, profileVars, alone>>

CloseOther(p) ==
    /\ At(p, "endother")
    /\ \E tn \in loc[p].since..now : CloseById(tn, loc[p].other)
    /\ End(p, 0)
    /\ UNCHANGED <<profileVars, alone>>

Clock == Tick /\ UNCHANGED <<profileVars, alone, loc>>

Visit(p) ==
    CheckSession(p) \/ ReadProfile(p) \/ RejectSession(p) \/ TouchProfile(p)
Login(p) ==
    EndOwnSession(p) \/ FindAccount(p) \/ OpenSession(p) \/ StampLogin(p)
ChangeAccount(p) ==
    \/ CheckName(p) \/ AddUser(p)
    \/ FindRemoved(p) \/ FindPlace(p) \/ DeleteUser(p) \/ CloseSessions(p)
    \/ LoadOwn(p) \/ ModifyUser(p)

Serve(p) ==
    \/ Visit(p) \/ Login(p) \/ ChangeAccount(p)
    \/ PickSession(p) \/ CloseOther(p)

AllServed == (\A p \in Procs : Over(p)) /\ UNCHANGED vars

Next ==
    \/ \E p \in Procs : Begin(p) \/ Serve(p)
    \/ Clock
    \/ AllServed

Spec == Init /\ [][Next]_vars

-----------------------------------------------------------------------------
Pc == {"start", "check", "profile", "reject", "touch", "endown", "lookup",
       "open", "stamp", "exists", "add", "find", "where", "delete", "sweep",
       "own", "rewrite", "pick", "endother", "done"}

TypeOK ==
    /\ SessionTypeOK
    /\ index \in [Names -> 0..Len(users)]
    /\ users \in Seq(User) /\ ufree \in Seq(1..Len(users))
    /\ bodies \in Seq(Nat) /\ bfree \in Seq(1..Len(bodies))
    /\ lastUniq \in Nat /\ count \in Nat
    /\ alone \in BOOLEAN
    /\ loc \in [Procs -> [pc : Pc, rq : Request, id : 0..issued, uniq : Nat,
                         expire : Nat, ui : User, at : 0..Len(users),
                         created : 0..now, since : 0..now, gone : Nat,
                         other : 0..issued, heir : 0..issued]]

Registered == {name \in Names : index[name] # 0}
Places(f) == {f[name] : name \in Registered}

\* Every registered name leads to a record of its own with its own UniqID, and
\* the number of users in profindex.db is theirs, although SetUInfo writes whole
\* records back and two requests may register one name (AddNewUser).
NamesAgree ==
    /\ \A name \in Registered : users[index[name]].name = name
    /\ \A a, b \in Registered : users[index[a]].uniq = users[index[b]].uniq => a = b
    /\ \A name \in Registered : users[index[name]].uniq <= lastUniq
    /\ count = Cardinality(Registered)

\* Everything is of its type; each place of profindex.db and of profbody.db is used by one registered user
\* or free, once, also when a registration is rolled back.
PlacesAccounted ==
    LET used == [name \in Registered |-> users[index[name]].full]
    IN  /\ TypeOK
        /\ IsInjective(ufree) /\ IsInjective(bfree)
        /\ IsInjective([name \in Registered |-> index[name]]) /\ IsInjective(used)
        /\ Places(index) \cap ToSet(ufree) = {}
        /\ Places(index) \cup ToSet(ufree) = DOMAIN users
        /\ Places(used) \cap ToSet(bfree) = {}
        /\ Places(used) \cup ToSet(bfree) = DOMAIN bodies

\* A request that goes on with its session (CheckSession), as a registered
\* user, is on the account the session was opened for, also when that account
\* was removed and its place given to another; but if that one was created in
\* the very second of the session's last use, which the dates cannot tell, the
\* session goes on as his.
SessionNamesItsAccount ==
    \A p \in Procs : At(p, "touch") /\ index[loc[p].ui.name] = loc[p].at =>
        loc[p].uniq = loc[p].ui.uniq \/ \E q \in Procs : loc[q].heir = loc[p].id

\* A session ends when its time is over; before that only a request that runs
\* in it ends it, one of its owner, the removal of its owner or the superuser.
\* So opening a session never overwrites one that is open.
EndsByRight ==
    [][\A e \in ToSet(auth) :
          e.expire > now' /\ IsOpen(e.id) /\ ~IsOpen(e.id)' =>
             \E p \in Procs :
                /\ loc'[p] # loc[p]
                /\ \/ loc[p].pc \in {"reject", "endown"} /\ loc[p].id = e.id
                   \/ At(p, "sweep") /\ loc[p].gone = e.uniq
                   \/ /\ At(p, "endother") /\ loc[p].other = e.id
                      /\ loc[p].rq.op = "closeown" => loc[p].uniq = e.uniq]_vars

OpenFor(uniq) == {i \in DOMAIN auth : auth[i].uniq = uniq /\ auth[i].expire > now}

\* When a user has been removed, all his sessions are over (main.cpp: "delete
\* all sessions.").
SessionsEndWithAccount ==
    \A p \in Procs : Over(p) /\ loc[p].gone # 0 => OpenFor(loc[p].gone) = {}

\* The same of the sessions that are bound to an address.
BoundSessionsEndWithAccount ==
    \A p \in Procs : Over(p) /\ loc[p].gone # 0 =>
        \A i \in OpenFor(loc[p].gone) : auth[i].unbound

=============================================================================
