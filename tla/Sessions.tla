------------------------------ MODULE Sessions ------------------------------
(***************************************************************************)
(* The session file authuser.dat (logins.cpp).  Each entry is one session; *)
(* it is open until its expiry date, which every checked request puts off, *)
(* and closing it sets that date into the past.  Each of the functions     *)
(* holds the file's lock over all of its reading and writing, so each is   *)
(* one step; but OpenAuthSequence and CloseAuthSequence ask for the time   *)
(* before they wait for the lock, so theirs may be an old one.             *)
(* A session's number stands for its two random words: none is drawn twice.*)
(* Here any caller may call any function; module Accounts says who does.   *)
(***************************************************************************)
EXTENDS Naturals, Sequences

CONSTANTS
    TTL,            \* SEQUENCE_LIVE_TIME, in seconds
    MaxTime,        \* bound: the last second
    MaxSessions,    \* bound: sessions opened
    MaxUsers        \* bound: users registered

ASSUME SessionsAssumption ==
    /\ TTL \in Nat \ {0}
    /\ MaxTime \in Nat
    /\ MaxSessions \in Nat
    /\ MaxUsers \in Nat

VARIABLES
    auth,           \* entries of authuser.dat
    issued,         \* sessions opened so far: the last number given
    now             \* time(NULL)

sessionVars == <<auth, issued, now>>

\* uniq: the account's UniqID; unbound: the flag SEQUENCE_IP_CHECK_DISABLED in
\* its high bits; at: index of the account's record.
Entry == [id : Nat, uniq : Nat, unbound : BOOLEAN, at : Nat, expire : Nat]

-----------------------------------------------------------------------------
\* Mutant: an entry counts as expired too early.
ReusableSoon(i, tn) ==
    /\ auth[i].expire < tn + TTL
    /\ \A j \in 1..(i - 1) : auth[j].expire >= tn + TTL

\* The entry OpenAuthSequence overwrites: the first that has expired.
Reusable(i, tn) ==
    /\ auth[i].expire < tn
    /\ \A j \in 1..(i - 1) : auth[j].expire >= tn

\* OpenAuthSequence, whose clock says tn.
OpenAuthSequence(tn, uniq, unbound, at) ==
    LET entry == [id |-> issued + 1, uniq |-> uniq, unbound |-> unbound,
                  at |-> at, expire |-> now + TTL]
    IN  /\ issued' = issued + 1
        /\ \/ \E i \in DOMAIN auth :
                 Reusable(i, tn) /\ auth' = [auth EXCEPT ![i] = entry]
           \/ /\ \A i \in DOMAIN auth : auth[i].expire >= tn
              /\ auth' = Append(auth, entry)
        /\ UNCHANGED now

WithExpire(e, date) ==
    [id |-> e.id, uniq |-> e.uniq, unbound |-> e.unbound, at |-> e.at,
     expire |-> date]

\* Those of the entries that have not expired by tn are given a past date.
CloseEntries(tn, entries) ==
    /\ auth' = [i \in DOMAIN auth |->
                   IF auth[i].expire > tn /\ i \in entries
                   THEN WithExpire(auth[i], now - 1)
                   ELSE auth[i]]
    /\ UNCHANGED <<issued, now>>

\* CloseAuthSequence by session number.
CloseById(tn, id) == CloseEntries(tn, {i \in DOMAIN auth : auth[i].id = id})

\* Mutant: the loop ends at the first entry closed.
CloseByUserFirst(tn, uniq) ==
    CloseEntries(tn, {i \in DOMAIN auth :
        /\ auth[i].uniq = uniq /\ ~auth[i].unbound
        /\ \A j \in 1..(i - 1) : auth[j].uniq # uniq \/ auth[j].unbound})

\* CloseAuthSequence by user.  The field is compared with the flag in it, so a
\* session that is not bound to an address never matches.
CloseByUser(tn, uniq) ==
    CloseEntries(tn, {i \in DOMAIN auth : auth[i].uniq = uniq /\ ~auth[i].unbound})

\* The entry CheckAndUpdateAuthSequence finds; same: the request comes from the
\* address the session was opened from, or the address is not asked for.
\* Mutant: expired entries are found too.
ValidEver(i, id, same) ==
    auth[i].id = id /\ (auth[i].unbound \/ same)

Valid(i, id, same) ==
    auth[i].expire > now /\ auth[i].id = id /\ (auth[i].unbound \/ same)

\* CheckAndUpdateAuthSequence finds entry i and puts its end off.
RenewEntry(i) ==
    /\ auth' = [auth EXCEPT ![i] = WithExpire(auth[i], now + TTL)]
    /\ UNCHANGED <<issued, now>>

Tick ==
    /\ now < MaxTime
    /\ now' = now + 1
    /\ UNCHANGED <<auth, issued>>

-----------------------------------------------------------------------------
Open(uniq, at) ==
    /\ issued < MaxSessions
    /\ \E tn \in 0..now, unbound \in BOOLEAN : OpenAuthSequence(tn, uniq, unbound, at)

Check(id) ==
    \E i \in DOMAIN auth, same \in BOOLEAN : Valid(i, id, same) /\ RenewEntry(i)

Close(id) == \E tn \in 0..now : CloseById(tn, id)

CloseAll(uniq) == \E tn \in 0..now : CloseByUser(tn, uniq)

SessionNext ==
    \/ \E uniq, at \in 1..MaxUsers : Open(uniq, at)
    \/ \E id \in 1..issued : Check(id) \/ Close(id)
    \/ \E uniq \in 1..MaxUsers : CloseAll(uniq)
    \/ Tick

SessionTypeOK ==
    /\ auth \in Seq(Entry)
    /\ issued \in Nat
    /\ now \in Nat \ {0}

IsOpen(id) == \E i \in DOMAIN auth : auth[i].id = id /\ auth[i].expire > now

\* Every number is in one entry at most and was given out.
NumbersUnique ==
    /\ \A i \in DOMAIN auth : auth[i].id \in 1..issued
    /\ \A i, j \in DOMAIN auth : auth[i].id = auth[j].id => i = j

\* The file as any earlier requests have left it.
SessionInit ==
    /\ SessionTypeOK
    /\ NumbersUnique

SessionSpec == SessionInit /\ [][SessionNext]_sessionVars

-----------------------------------------------------------------------------
\* A session that is over, closed or expired or overwritten, is never open
\* again: renewing one (CheckAndUpdateAuthSequence) cannot undo closing it.
OverForGood ==
    [][\A id \in 1..issued : ~IsOpen(id) => ~IsOpen(id)']_sessionVars
=============================================================================
