-------------------------- MODULE Accounts_proofs --------------------------
(***************************************************************************)
(* The session file keeps its numbers apart and never opens a session      *)
(* again, whoever calls its functions, for every lifetime and bound.  A    *)
(* caller may have read the clock at any time before (tn \in 0..now).      *)
(* Then the same of the requests of module Accounts, and that a session is *)
(* ended only by its time or by somebody entitled to end it.  Last, of     *)
(* requests that come one after another, or at once but each to an account *)
(* that stays as it is: names, places and the owners of sessions agree,    *)
(* and who has been removed has no bound session left.                     *)
(***************************************************************************)
EXTENDS Accounts, ListLemmas, FiniteSetTheorems

SessionInv == SessionTypeOK /\ NumbersUnique

\* An entry as each function makes it: the types of its fields.
LEMMA EntryType ==
    ASSUME NEW e \in Entry, NEW date \in Nat
    PROVE  /\ WithExpire(e, date) \in Entry
           /\ WithExpire(e, date).id = e.id
           /\ WithExpire(e, date).expire = date
  BY DEF Entry, WithExpire

\* A step that keeps the clock, the numbers and the order of the entries keeps
\* the invariant, and revives no session if it revives no entry.
LEMMA SameEntries ==
    ASSUME SessionInv, auth' \in Seq(Entry), DOMAIN auth' = DOMAIN auth,
           \A i \in DOMAIN auth : auth'[i].id = auth[i].id,
           \A i \in DOMAIN auth :
              auth'[i].expire > now => auth[i].expire > now,
           issued' = issued, now' = now
    PROVE  /\ SessionInv'
           /\ \A id \in 1..issued : ~IsOpen(id) => ~IsOpen(id)'
<1>1. SessionTypeOK'
  BY DEF SessionInv, SessionTypeOK
<1>2. NumbersUnique'
  BY DEF SessionInv, NumbersUnique
<1>3. \A id \in 1..issued : ~IsOpen(id) => ~IsOpen(id)'
  BY DEF IsOpen
<1> QED
  BY <1>1, <1>2, <1>3 DEF SessionInv

\* What closing sessions does, whichever they are.
LEMMA CloseEntriesSafe ==
    ASSUME SessionInv, issued' = issued, now' = now,
           auth' = [i \in DOMAIN auth |-> auth'[i]],
           \A i \in DOMAIN auth :
              \/ auth'[i] = auth[i]
              \/ auth'[i] = WithExpire(auth[i], now - 1)
    PROVE  /\ SessionInv'
           /\ \A id \in 1..issued : ~IsOpen(id) => ~IsOpen(id)'
<1>1. /\ auth \in Seq(Entry) /\ now \in Nat \ {0}
      /\ \A i \in DOMAIN auth : auth[i] \in Entry
  BY DEF SessionInv, SessionTypeOK
<1>2. now - 1 \in Nat /\ ~(now - 1 > now)
  BY <1>1
<1>3. \A i \in DOMAIN auth :
         /\ auth'[i] \in Entry /\ auth'[i].id = auth[i].id
         /\ auth'[i].expire > now => auth[i].expire > now
  BY <1>1, <1>2, EntryType
<1>4. DOMAIN auth' = DOMAIN auth /\ auth' \in Seq(Entry)
  <2>1. auth' = [i \in 1..Len(auth) |-> auth'[i]]
    BY <1>1
  <2>2. \A i \in 1..Len(auth) : auth'[i] \in Entry
    BY <1>1, <1>3
  <2>3. Len(auth) \in Nat
    BY <1>1
  <2> QED
    BY <2>1, <2>2, <2>3, SeqDef
<1> QED
  BY <1>3, <1>4, SameEntries

LEMMA CloseByIdSafe ==
    ASSUME SessionInv, NEW tn, NEW id, CloseById(tn, id)
    PROVE  /\ SessionInv'
           /\ \A n \in 1..issued : ~IsOpen(n) => ~IsOpen(n)'
<1>1. /\ auth' = [i \in DOMAIN auth |->
                     IF auth[i].expire > tn /\ auth[i].id = id
                     THEN WithExpire(auth[i], now - 1) ELSE auth[i]]
      /\ issued' = issued /\ now' = now
  BY DEF CloseById, CloseEntries
<1>2. /\ auth' = [i \in DOMAIN auth |-> auth'[i]]
      /\ \A i \in DOMAIN auth : \/ auth'[i] = auth[i]
                                \/ auth'[i] = WithExpire(auth[i], now - 1)
  BY <1>1
<1> QED
  BY <1>1, <1>2, CloseEntriesSafe

LEMMA CloseByUserSafe ==
    ASSUME SessionInv, NEW tn, NEW uniq, CloseByUser(tn, uniq)
    PROVE  /\ SessionInv'
           /\ \A n \in 1..issued : ~IsOpen(n) => ~IsOpen(n)'
<1>1. /\ auth' = [i \in DOMAIN auth |->
                     IF auth[i].expire > tn /\ auth[i].uniq = uniq /\ ~auth[i].unbound
                     THEN WithExpire(auth[i], now - 1) ELSE auth[i]]
      /\ issued' = issued /\ now' = now
  BY DEF CloseByUser, CloseEntries
<1>2. /\ auth' = [i \in DOMAIN auth |-> auth'[i]]
      /\ \A i \in DOMAIN auth : \/ auth'[i] = auth[i]
                                \/ auth'[i] = WithExpire(auth[i], now - 1)
  BY <1>1
<1> QED
  BY <1>1, <1>2, CloseEntriesSafe

\* Renewing an entry that is open.
LEMMA RenewSafe ==
    ASSUME SessionInv, NEW i \in DOMAIN auth, NEW id, NEW same,
           Valid(i, id, same), RenewEntry(i)
    PROVE  /\ SessionInv'
           /\ \A n \in 1..issued : ~IsOpen(n) => ~IsOpen(n)'
<1>1. /\ auth \in Seq(Entry) /\ now \in Nat \ {0} /\ now + TTL \in Nat
      /\ \A j \in DOMAIN auth : auth[j] \in Entry
  BY SessionsAssumption DEF SessionInv, SessionTypeOK
<1>2. /\ auth' = [auth EXCEPT ![i] = WithExpire(auth[i], now + TTL)]
      /\ issued' = issued /\ now' = now
  BY DEF RenewEntry
<1>3. WithExpire(auth[i], now + TTL) \in Entry
  BY <1>1, EntryType
<1>4. auth' \in Seq(Entry) /\ DOMAIN auth' = DOMAIN auth
  BY <1>1, <1>2, <1>3
<1>5. /\ \A j \in DOMAIN auth : auth'[j].id = auth[j].id
      /\ \A j \in DOMAIN auth : auth'[j].expire > now => auth[j].expire > now
  BY <1>1, <1>2, EntryType DEF Valid
<1> QED
  BY <1>2, <1>4, <1>5, SameEntries

\* Opening a session, in a new entry or in place of an expired one: the caller's
\* time tn is not later than now, so what it takes for expired is.
LEMMA OpenSafe ==
    ASSUME SessionInv, NEW tn \in 0..now, NEW uniq \in Nat, NEW at \in Nat,
           NEW unbound \in BOOLEAN, OpenAuthSequence(tn, uniq, unbound, at)
    PROVE  /\ SessionInv'
           /\ \A n \in 1..issued : ~IsOpen(n) => ~IsOpen(n)'
<1> DEFINE entry == [id |-> issued + 1, uniq |-> uniq, unbound |-> unbound,
                     at |-> at, expire |-> now + TTL]
<1>1. /\ auth \in Seq(Entry) /\ now \in Nat \ {0} /\ now + TTL \in Nat
      /\ issued \in Nat /\ \A j \in DOMAIN auth : auth[j] \in Entry
      /\ \A j \in DOMAIN auth : auth[j].id \in 1..issued
      /\ \A j, k \in DOMAIN auth : auth[j].id = auth[k].id => j = k
  BY SessionsAssumption DEF SessionInv, SessionTypeOK, NumbersUnique
<1>2. entry \in Entry
  <2>1. unbound \in BOOLEAN
    OBVIOUS
  <2> QED
    BY <1>1, <2>1 DEF Entry
<1>3. issued' = issued + 1 /\ now' = now
  BY DEF OpenAuthSequence
<1>4. CASE \E i \in DOMAIN auth : auth' = [auth EXCEPT ![i] = entry]
  <2>1. PICK i \in DOMAIN auth : auth' = [auth EXCEPT ![i] = entry]
    BY <1>4
  <2>2. auth' \in Seq(Entry) /\ DOMAIN auth' = DOMAIN auth
    BY <1>1, <1>2, <2>1
  <2>3. /\ auth'[i].id = issued + 1
        /\ \A j \in DOMAIN auth : j # i => auth'[j] = auth[j]
    BY <1>1, <2>1
  <2>4. NumbersUnique'
    <3>1. \A j \in DOMAIN auth : auth'[j].id \in 1..(issued + 1)
      BY <1>1, <2>3
    <3>2. ASSUME NEW j \in DOMAIN auth, NEW k \in DOMAIN auth,
                 auth'[j].id = auth'[k].id
          PROVE  j = k
      <4>1. auth[j].id # issued + 1 /\ auth[k].id # issued + 1
        BY <1>1
      <4>2. j # i => auth'[j].id = auth[j].id
        BY <2>3
      <4>3. k # i => auth'[k].id = auth[k].id
        BY <2>3
      <4>4. (j = i /\ k = i) \/ (j # i /\ k # i)
        BY <2>3, <3>2, <4>1, <4>2, <4>3
      <4> QED
        BY <1>1, <3>2, <4>2, <4>3, <4>4
    <3> QED
      BY <1>3, <2>2, <3>1, <3>2 DEF NumbersUnique
  <2>5. \A n \in 1..issued : ~IsOpen(n) => ~IsOpen(n)'
    BY SMTT(40), <1>1, <1>3, <2>2, <2>3 DEF IsOpen
  <2> QED
    BY <1>1, <1>3, <2>2, <2>4, <2>5 DEF SessionInv, SessionTypeOK
<1>5. CASE auth' = Append(auth, entry)
  <2>1. /\ auth' \in Seq(Entry) /\ DOMAIN auth' = 1..(Len(auth) + 1)
        /\ DOMAIN auth = 1..Len(auth) /\ Len(auth) \in Nat
        /\ \A j \in DOMAIN auth : auth'[j] = auth[j]
        /\ auth'[Len(auth) + 1].id = issued + 1
    BY <1>1, <1>2, <1>5
  <2>2. NumbersUnique'
    <3>1. \A j \in DOMAIN auth : auth[j].id # issued + 1 /\ auth[j].id \in 1..(issued + 1)
      BY <1>1
    <3>2. \A j \in DOMAIN auth' : j \in DOMAIN auth \/ j = Len(auth) + 1
      BY <2>1
    <3>3. \A j \in DOMAIN auth' : auth'[j].id \in 1..(issued + 1)
      BY <1>1, <2>1, <3>1, <3>2
    <3>4. \A j, k \in DOMAIN auth' : auth'[j].id = auth'[k].id => j = k
      BY <1>1, <2>1, <3>1, <3>2
    <3> QED
      BY <1>3, <3>3, <3>4 DEF NumbersUnique
  <2>3. \A n \in 1..issued : ~IsOpen(n) => ~IsOpen(n)'
    BY <1>1, <1>3, <2>1 DEF IsOpen
  <2> QED
    BY <1>1, <1>3, <2>1, <2>2, <2>3 DEF SessionInv, SessionTypeOK
<1> QED
  BY <1>4, <1>5 DEF OpenAuthSequence

LEMMA TickSafe ==
    ASSUME SessionInv, Tick
    PROVE  /\ SessionInv'
           /\ \A n \in 1..issued : ~IsOpen(n) => ~IsOpen(n)'
<1>1. /\ now' = now + 1 /\ auth' = auth /\ issued' = issued
      /\ now \in Nat \ {0} /\ \A i \in DOMAIN auth : auth[i] \in Entry
  BY DEF Tick, SessionInv, SessionTypeOK
<1>2. SessionInv'
  BY <1>1 DEF SessionInv, SessionTypeOK, NumbersUnique
<1>3. \A i \in DOMAIN auth : auth[i].expire > now + 1 => auth[i].expire > now
  BY <1>1 DEF Entry
<1>4. \A n \in 1..issued : ~IsOpen(n) => ~IsOpen(n)'
  BY <1>1, <1>3 DEF IsOpen
<1> QED
  BY <1>2, <1>4

\* Every step of any caller keeps the invariant and revives no session.
LEMMA SessionStep ==
    ASSUME SessionInv, [SessionNext]_sessionVars
    PROVE  /\ SessionInv'
           /\ \A n \in 1..issued : ~IsOpen(n) => ~IsOpen(n)'
<1>1. CASE UNCHANGED sessionVars
  BY <1>1 DEF sessionVars, SessionInv, SessionTypeOK, NumbersUnique, IsOpen
<1>2. ASSUME NEW uniq \in 1..MaxUsers, NEW at \in 1..MaxUsers, Open(uniq, at)
      PROVE  /\ SessionInv'
             /\ \A n \in 1..issued : ~IsOpen(n) => ~IsOpen(n)'
  <2>1. PICK tn \in 0..now, unbound \in BOOLEAN : OpenAuthSequence(tn, uniq, unbound, at)
    BY <1>2 DEF Open
  <2>2. uniq \in Nat /\ at \in Nat
    BY SessionsAssumption
  <2> QED
    BY <2>1, <2>2, OpenSafe
<1>3. ASSUME NEW id \in 1..issued, Check(id)
      PROVE  /\ SessionInv'
             /\ \A n \in 1..issued : ~IsOpen(n) => ~IsOpen(n)'
  BY <1>3, RenewSafe DEF Check
<1>4. ASSUME NEW id \in 1..issued, Close(id)
      PROVE  /\ SessionInv'
             /\ \A n \in 1..issued : ~IsOpen(n) => ~IsOpen(n)'
  BY <1>4, CloseByIdSafe DEF Close
<1>5. ASSUME NEW uniq \in 1..MaxUsers, CloseAll(uniq)
      PROVE  /\ SessionInv'
             /\ \A n \in 1..issued : ~IsOpen(n) => ~IsOpen(n)'
  BY <1>5, CloseByUserSafe DEF CloseAll
<1> QED
  BY <1>1, <1>2, <1>3, <1>4, <1>5, TickSafe DEF SessionNext

\* No two entries of authuser.dat have one number: a cookie names one session.
THEOREM NumbersStayUnique == SessionSpec => []SessionInv
<1>1. SessionInit => SessionInv
  BY DEF SessionInit, SessionInv
<1>2. SessionInv /\ [SessionNext]_sessionVars => SessionInv'
  BY SessionStep
<1> QED
  BY <1>1, <1>2, PTL DEF SessionSpec

\* A session that was closed or has expired is never open again, whatever the
\* callers of OpenAuthSequence, CloseAuthSequence and CheckAndUpdateAuthSequence
\* do and however long they waited for the lock.
THEOREM NoneRevived == SessionSpec => OverForGood
<1>1. SessionInv /\ [SessionNext]_sessionVars
      => [\A id \in 1..issued : ~IsOpen(id) => ~IsOpen(id)']_sessionVars
  BY SessionStep
<1> QED
  BY <1>1, NumbersStayUnique, PTL DEF SessionSpec, OverForGood

-----------------------------------------------------------------------------
(* The requests of module Accounts. *)

\* The files: sessions and index lead to records, records to full records.
FilesInv ==
    /\ index \in [Names -> 0..Len(users)]
    /\ users \in Seq(User) /\ bodies \in Seq(Nat)
    /\ \A i \in DOMAIN users : users[i].name \in Names /\ users[i].full \in DOMAIN bodies
    /\ \A i \in DOMAIN bodies : bodies[i] <= now
    /\ ufree \in Seq(DOMAIN users) /\ bfree \in Seq(DOMAIN bodies)
    /\ lastUniq \in Nat
    /\ \A i \in DOMAIN auth : auth[i].at \in DOMAIN users

UsersCounted == count = Cardinality(Registered)

Memory == [pc : Pc, rq : Request, id : Nat, uniq : Nat, expire : Nat, ui : User,
           at : Nat, created : Nat, since : Nat, gone : Nat, other : Nat,
           heir : Nat]

\* A request's memory m points into the files as they are.
Points(m) ==
    /\ m.id <= issued /\ m.other <= issued /\ m.heir <= issued
    /\ m.at <= Len(users)
    /\ m.created <= now /\ m.since <= now
    /\ m.pc \in {"profile", "touch", "open", "stamp", "delete", "rewrite"} => m.at # 0
    /\ m.pc \in {"touch", "open", "stamp"} =>
          m.ui.name \in Names /\ m.ui.full \in DOMAIN bodies

\* A request that works on a name has one.
HasName(m) ==
    /\ m.rq.op \in NamingOp => m.rq.name \in Names
    /\ m.pc \in {"find", "where", "own", "delete", "rewrite"} =>
          IF m.rq.op \in OwnOp THEN m.ui.name \in Names ELSE m.rq.op \in NamingOp
    /\ m.pc \in {"lookup", "exists", "add"} => m.rq.op \in NamingOp
    /\ m.pc = "endown" => m.rq.op \in NamingOp \cup {"logout"}

\* Somebody who is about to close another session from the list owns it.
OwnsOther(m) ==
    m.pc = "endother" /\ m.rq.op = "closeown" =>
        \A i \in DOMAIN auth : auth[i].id = m.other => auth[i].uniq = m.uniq

MemoryInv ==
    /\ loc \in [Procs -> Memory]
    /\ \A p \in Procs : Points(loc[p]) /\ HasName(loc[p]) /\ OwnsOther(loc[p])

AccountsInv == SessionInv /\ FilesInv /\ UsersCounted /\ MemoryInv /\ alone \in BOOLEAN

\* What a step of a request or of the clock does to the sessions.
SessionEffect ==
    \/ UNCHANGED sessionVars
    \/ \E i \in DOMAIN auth, id \in Nat, same \in BOOLEAN : Valid(i, id, same) /\ RenewEntry(i)
    \/ \E tn \in 0..now, id \in Nat : CloseById(tn, id)
    \/ \E tn \in 0..now, uniq \in Nat : CloseByUser(tn, uniq)
    \/ \E tn \in 0..now, uniq \in Nat, unbound \in BOOLEAN, at \in DOMAIN users :
          OpenAuthSequence(tn, uniq, unbound, at)
    \/ Tick

\* No entry changes its number, owner or record, but for a new one.
OwnersKept ==
    \A i \in DOMAIN auth' :
        /\ auth'[i].at \in DOMAIN users
        /\ auth'[i].id \in 1..issued =>
              \E j \in DOMAIN auth : auth[j].id = auth'[i].id /\ auth[j].uniq = auth'[i].uniq

LEMMA RewrittenKeepsOwners ==
    ASSUME FilesInv, DOMAIN auth' = DOMAIN auth,
           \A i \in DOMAIN auth : \/ auth'[i] = auth[i]
                                  \/ \E date : auth'[i] = WithExpire(auth[i], date)
    PROVE  OwnersKept
<1>1. \A i \in DOMAIN auth : /\ auth'[i].at = auth[i].at
                             /\ auth'[i].id = auth[i].id
                             /\ auth'[i].uniq = auth[i].uniq
  BY DEF WithExpire
<1> QED
  BY <1>1 DEF OwnersKept, FilesInv

LEMMA OpeningKeepsOwners ==
    ASSUME SessionInv, FilesInv, NEW tn, NEW uniq, NEW unbound, NEW at \in DOMAIN users,
           OpenAuthSequence(tn, uniq, unbound, at)
    PROVE  OwnersKept
<1> DEFINE entry == [id |-> issued + 1, uniq |-> uniq, unbound |-> unbound,
                     at |-> at, expire |-> now + TTL]
<1>1. auth \in Seq(Entry) /\ issued \in Nat /\ ~(issued + 1 \in 1..issued)
  BY DEF SessionInv, SessionTypeOK
<1>2. entry.at = at /\ entry.id = issued + 1
  OBVIOUS
<1>3. CASE \E i \in DOMAIN auth : auth' = [auth EXCEPT ![i] = entry]
  <2>1. PICK i \in DOMAIN auth : auth' = [auth EXCEPT ![i] = entry]
    BY <1>3
  <2>2. DOMAIN auth' = DOMAIN auth /\ \A j \in DOMAIN auth : auth'[j] = IF j = i THEN entry ELSE auth[j]
    BY <1>1, <2>1
  <2> QED
    BY <1>1, <1>2, <2>2 DEF OwnersKept, FilesInv
<1>4. CASE auth' = Append(auth, entry)
  <2>1. /\ DOMAIN auth' = 1..(Len(auth) + 1) /\ DOMAIN auth = 1..Len(auth)
        /\ Len(auth) \in Nat
        /\ \A j \in DOMAIN auth' : auth'[j] = IF j = Len(auth) + 1 THEN entry ELSE auth[j]
    BY <1>1, <1>4
  <2>2. \A j \in DOMAIN auth' : j = Len(auth) + 1 \/ j \in DOMAIN auth
    BY <2>1
  <2> QED
    BY <1>1, <1>2, <2>1, <2>2 DEF OwnersKept, FilesInv
<1> QED
  BY <1>3, <1>4 DEF OpenAuthSequence

\* Whatever it is, it keeps the sessions as they must be and revives none.
LEMMA EffectSafe ==
    ASSUME SessionInv, FilesInv, SessionEffect
    PROVE  /\ SessionInv'
           /\ \A n \in 1..issued : ~IsOpen(n) => ~IsOpen(n)'
           /\ issued <= issued' /\ now <= now'
           /\ OwnersKept
<1>0. issued \in Nat /\ now \in Nat \ {0}
  BY DEF SessionInv, SessionTypeOK
<1>1. CASE UNCHANGED sessionVars
  BY <1>0, <1>1 DEF sessionVars, SessionInv, SessionTypeOK, NumbersUnique, IsOpen, OwnersKept, FilesInv
<1>2. ASSUME NEW i \in DOMAIN auth, NEW id \in Nat, NEW same \in BOOLEAN,
             Valid(i, id, same), RenewEntry(i)
      PROVE  /\ SessionInv'
             /\ \A n \in 1..issued : ~IsOpen(n) => ~IsOpen(n)'
             /\ issued <= issued' /\ now <= now'
             /\ OwnersKept
  <2>1. /\ DOMAIN auth' = DOMAIN auth
        /\ \A j \in DOMAIN auth : \/ auth'[j] = auth[j]
                                  \/ auth'[j] = WithExpire(auth[j], now + TTL)
    BY <1>2 DEF RenewEntry, SessionInv, SessionTypeOK
  <2>2. OwnersKept
    BY <2>1, RewrittenKeepsOwners
  <2>3. issued <= issued' /\ now <= now'
    BY <1>0, <1>2 DEF RenewEntry
  <2> QED
    BY <1>2, <2>2, <2>3, RenewSafe
<1>3. ASSUME NEW tn \in 0..now, NEW entries, CloseEntries(tn, entries)
      PROVE  OwnersKept /\ issued <= issued' /\ now <= now'
  <2>1. /\ DOMAIN auth' = DOMAIN auth
        /\ \A j \in DOMAIN auth : \/ auth'[j] = auth[j]
                                  \/ auth'[j] = WithExpire(auth[j], now - 1)
    BY <1>3 DEF CloseEntries
  <2> QED
    BY <1>0, <1>3, <2>1, RewrittenKeepsOwners DEF CloseEntries
<1>4. CASE \E tn \in 0..now, id \in Nat : CloseById(tn, id)
  BY <1>3, <1>4, CloseByIdSafe DEF CloseById
<1>5. CASE \E tn \in 0..now, uniq \in Nat : CloseByUser(tn, uniq)
  BY <1>3, <1>5, CloseByUserSafe DEF CloseByUser
<1>6. ASSUME NEW tn \in 0..now, NEW uniq \in Nat, NEW unbound \in BOOLEAN,
             NEW at \in DOMAIN users, OpenAuthSequence(tn, uniq, unbound, at)
      PROVE  /\ SessionInv'
             /\ \A n \in 1..issued : ~IsOpen(n) => ~IsOpen(n)'
             /\ issued <= issued' /\ now <= now'
             /\ OwnersKept
  <2>1. at \in Nat
    BY DEF FilesInv
  <2>2. issued' = issued + 1 /\ now' = now
    BY <1>6 DEF OpenAuthSequence
  <2>3. SessionInv' /\ \A n \in 1..issued : ~IsOpen(n) => ~IsOpen(n)'
    BY <1>6, <2>1, OpenSafe
  <2>4. OwnersKept
    BY <1>6, OpeningKeepsOwners
  <2>5. issued <= issued' /\ now <= now'
    BY <1>0, <2>2
  <2> QED
    BY <2>3, <2>4, <2>5
<1>7. CASE Tick
  <2>1. now' = now + 1 /\ issued' = issued /\ auth' = auth
    BY <1>7 DEF Tick
  <2>2. OwnersKept
    BY <2>1 DEF OwnersKept, FilesInv
  <2> QED
    BY <1>0, <1>7, <2>1, <2>2, TickSafe
<1> QED
  BY <1>1, <1>2, <1>4, <1>5, <1>6, <1>7 DEF SessionEffect

-----------------------------------------------------------------------------
\* Only the memory of p changes, to what is as it must be.
Moves(p) ==
    /\ loc' \in [Procs -> Memory]
    /\ \A q \in Procs : q # p => loc'[q] = loc[q]
    /\ Points(loc[p])' /\ HasName(loc[p])' /\ OwnsOther(loc[p])'

Growing == Len(users) <= Len(users') /\ Len(bodies) <= Len(bodies')

\* The numbers that the invariants compare.
LEMMA Numbers ==
    ASSUME AccountsInv
    PROVE  /\ issued \in Nat /\ now \in Nat \ {0}
           /\ Len(users) \in Nat /\ DOMAIN users = 1..Len(users)
           /\ Len(bodies) \in Nat /\ DOMAIN bodies = 1..Len(bodies)
           /\ \A i \in DOMAIN users : users[i] \in User
           /\ \A i \in DOMAIN bodies : bodies[i] \in Nat /\ bodies[i] <= now
           /\ \A i \in DOMAIN auth : /\ auth[i].id \in 1..issued /\ auth[i].id \in Nat
                                     /\ auth[i].uniq \in Nat /\ auth[i].expire \in Nat
                                     /\ auth[i].at \in DOMAIN users
<1>1. /\ issued \in Nat /\ now \in Nat \ {0} /\ auth \in Seq(Entry)
      /\ users \in Seq(User) /\ bodies \in Seq(Nat)
  BY DEF AccountsInv, SessionInv, SessionTypeOK, FilesInv
<1>2. /\ Len(users) \in Nat /\ DOMAIN users = 1..Len(users)
      /\ Len(bodies) \in Nat /\ DOMAIN bodies = 1..Len(bodies)
      /\ \A i \in DOMAIN users : users[i] \in User
  BY <1>1
<1>3. \A i \in DOMAIN bodies : bodies[i] \in Nat /\ bodies[i] <= now
  <2>1. \A i \in DOMAIN bodies : bodies[i] \in Nat
    BY <1>1
  <2> QED
    BY <2>1 DEF AccountsInv, FilesInv
<1>4. \A i \in DOMAIN auth : auth[i] \in Entry
  BY <1>1
<1>5. \A i \in DOMAIN auth : auth[i].id \in 1..issued /\ auth[i].at \in DOMAIN users
  BY DEF AccountsInv, SessionInv, NumbersUnique, FilesInv
<1> QED
  BY <1>1, <1>2, <1>3, <1>4, <1>5 DEF Entry

\* What points into the files still does when they have grown.
LEMMA PointsStill ==
    ASSUME AccountsInv, SessionInv', FilesInv', issued <= issued', now <= now', Growing,
           NEW m \in Memory, Points(m)
    PROVE  Points(m)'
<1>1. /\ issued' \in Nat /\ now' \in Nat /\ Len(users') \in Nat /\ Len(bodies') \in Nat
      /\ DOMAIN bodies' = 1..Len(bodies')
  BY DEF SessionInv, SessionTypeOK, FilesInv
<1>2. /\ issued \in Nat /\ now \in Nat /\ Len(users) \in Nat /\ Len(bodies) \in Nat
      /\ DOMAIN bodies = 1..Len(bodies)
  BY Numbers
<1>3. ASSUME NEW a \in Nat, NEW b \in Nat, NEW c \in Nat, a <= b, b <= c
      PROVE  a <= c
  BY <1>3
<1>4. /\ m.id \in Nat /\ m.other \in Nat /\ m.heir \in Nat /\ m.at \in Nat
      /\ m.created \in Nat /\ m.since \in Nat
  BY DEF Memory
<1>5. m.id <= issued' /\ m.other <= issued' /\ m.heir <= issued'
  BY <1>1, <1>2, <1>3, <1>4 DEF Points
<1>6. m.created <= now' /\ m.since <= now'
  BY <1>1, <1>2, <1>3, <1>4 DEF Points
<1>7. m.at <= Len(users')
  BY <1>1, <1>2, <1>3, <1>4 DEF Points, Growing
<1>8. \A i \in DOMAIN bodies : i \in DOMAIN bodies'
  BY <1>1, <1>2 DEF Growing
<1> QED
  BY <1>5, <1>6, <1>7, <1>8 DEF Points

\* The owner of another session stays its owner: no entry changes hands.
LEMMA OwnsStill ==
    ASSUME AccountsInv, SessionInv', OwnersKept, NEW m \in Memory, m.other <= issued,
           OwnsOther(m)
    PROVE  OwnsOther(m)'
<1>1. SUFFICES ASSUME m.pc = "endother", m.rq.op = "closeown",
                      NEW i \in DOMAIN auth', auth'[i].id = m.other
               PROVE  auth'[i].uniq = m.uniq
  BY DEF OwnsOther
<1>2. auth'[i].id \in 1..issued'
  BY DEF SessionInv, NumbersUnique
<1>3. auth'[i].id \in 1..issued
  BY <1>1, <1>2, Numbers DEF SessionInv, SessionTypeOK
<1>4. PICK j \in DOMAIN auth : auth[j].id = auth'[i].id /\ auth[j].uniq = auth'[i].uniq
  BY <1>3 DEF OwnersKept
<1> QED
  BY <1>1, <1>4 DEF OwnsOther

\* A step moves one request: the memory of the others is as it must be.
LEMMA OthersStill ==
    ASSUME AccountsInv, SessionEffect, FilesInv', Growing, NEW p \in Procs, Moves(p)
    PROVE  SessionInv' /\ MemoryInv'
<1>1. /\ SessionInv' /\ issued <= issued' /\ now <= now' /\ OwnersKept
  BY EffectSafe DEF AccountsInv
<1>2. ASSUME NEW q \in Procs
      PROVE  Points(loc[q])' /\ HasName(loc[q])' /\ OwnsOther(loc[q])'
  <2>1. CASE q = p
    BY <2>1 DEF Moves
  <2>2. CASE q # p
    <3>1. PICK m \in Memory : m = loc[q] /\ Points(m) /\ HasName(m) /\ OwnsOther(m)
      BY DEF AccountsInv, MemoryInv
    <3>2. loc'[q] = m
      BY <2>2, <3>1 DEF Moves
    <3>3. Points(m)'
      BY <1>1, <3>1, PointsStill
    <3>4. OwnsOther(m)'
      BY <1>1, <3>1, OwnsStill DEF Points
    <3>5. HasName(m)
      BY <3>1
    <3>6. Points(loc[q])'
      BY <3>2, <3>3 DEF Points
    <3>7. HasName(loc[q])'
      BY <3>2, <3>5 DEF HasName
    <3>8. OwnsOther(loc[q])'
      BY <3>2, <3>4 DEF OwnsOther
    <3> QED
      BY <3>6, <3>7, <3>8
  <2> QED
    BY <2>1, <2>2
<1> QED
  BY <1>1, <1>2 DEF MemoryInv, Moves

\* Steps that leave the profile database alone.
LEMMA FilesSame ==
    ASSUME AccountsInv, UNCHANGED profileVars, SessionEffect
    PROVE  FilesInv' /\ UsersCounted' /\ Growing
<1>1. /\ index' = index /\ users' = users /\ ufree' = ufree /\ bodies' = bodies
      /\ bfree' = bfree /\ lastUniq' = lastUniq /\ count' = count
  BY DEF profileVars
<1>2. SessionInv' /\ now <= now' /\ OwnersKept
  BY EffectSafe DEF AccountsInv
<1>3. now \in Nat /\ now' \in Nat
  BY <1>2 DEF AccountsInv, SessionInv, SessionTypeOK
<1>4. \A i \in DOMAIN bodies' : bodies'[i] <= now'
  <2>1. \A i \in DOMAIN bodies : bodies[i] \in Nat /\ bodies[i] <= now
    BY Numbers
  <2>2. ASSUME NEW b \in Nat, b <= now PROVE b <= now'
    BY <1>2, <1>3, <2>2
  <2> QED
    BY <1>1, <2>1, <2>2
<1>5. \A i \in DOMAIN auth' : auth'[i].at \in DOMAIN users'
  BY <1>1, <1>2 DEF OwnersKept
<1>6. FilesInv'
  BY <1>1, <1>4, <1>5 DEF FilesInv, AccountsInv
<1>7. UsersCounted'
  BY <1>1 DEF UsersCounted, Registered, AccountsInv
<1>8. Growing
  <2>1. Len(users) \in Nat /\ Len(bodies) \in Nat
    BY Numbers
  <2> QED
    BY <1>1, <2>1 DEF Growing
<1> QED
  BY <1>6, <1>7, <1>8

\* A step of a request that leaves the profile database alone.
LEMMA SessionsOnly ==
    ASSUME AccountsInv, UNCHANGED <<profileVars, alone>>, SessionEffect,
           NEW p \in Procs, Moves(p)
    PROVE  AccountsInv'
<1>1. FilesInv' /\ UsersCounted' /\ Growing
  BY FilesSame
<1>2. SessionInv' /\ MemoryInv'
  BY <1>1, OthersStill
<1> QED
  BY <1>1, <1>2 DEF AccountsInv

-----------------------------------------------------------------------------
(* What a request may have in its memory, and the steps that change it. *)
Good(m) == m \in Memory /\ Points(m) /\ HasName(m) /\ OwnsOther(m)

\* Request p goes on with such a memory, at another place of its handler.
GoesOn(p) ==
    \E m \in Memory : Good(m) /\ m.pc # loc[p].pc /\ loc' = [loc EXCEPT ![p] = m]

LEMMA SessionsStep ==
    ASSUME AccountsInv, UNCHANGED <<profileVars, alone>>, SessionEffect,
           NEW p \in Procs, GoesOn(p)
    PROVE  AccountsInv'
<1>1. PICK m \in Memory : Good(m) /\ loc' = [loc EXCEPT ![p] = m]
  BY DEF GoesOn
<1>2. FilesInv' /\ UsersCounted' /\ Growing
  BY FilesSame
<1>3. SessionInv' /\ issued <= issued' /\ now <= now' /\ OwnersKept
  BY EffectSafe DEF AccountsInv
<1>4. Points(m)'
  BY <1>1, <1>2, <1>3, PointsStill DEF Good
<1>5. OwnsOther(m)'
  BY <1>1, <1>3, OwnsStill DEF Good, Points
<1>6. loc \in [Procs -> Memory]
  BY DEF AccountsInv, MemoryInv
<1>7. loc'[p] = m
  BY <1>1, <1>6
<1>8. Points(loc[p])' /\ HasName(loc[p])' /\ OwnsOther(loc[p])'
  BY <1>1, <1>4, <1>5, <1>7 DEF Good, Points, HasName, OwnsOther
<1>9. Moves(p)
  BY <1>1, <1>6, <1>8 DEF Moves
<1> QED
  BY <1>9, SessionsOnly

LEMMA FilesStep ==
    ASSUME AccountsInv, UNCHANGED <<sessionVars, alone>>, FilesInv', UsersCounted',
           Growing, NEW p \in Procs, GoesOn(p)
    PROVE  AccountsInv' /\ SessionEffect
<1>1. PICK m \in Memory : Good(m) /\ loc' = [loc EXCEPT ![p] = m]
  BY DEF GoesOn
<1>2. SessionEffect
  BY DEF SessionEffect
<1>3. SessionInv' /\ issued <= issued' /\ now <= now' /\ OwnersKept
  BY <1>2, EffectSafe DEF AccountsInv
<1>4. Points(m)'
  BY <1>1, <1>3, PointsStill DEF Good
<1>5. OwnsOther(m)'
  BY <1>1, <1>3, OwnsStill DEF Good, Points
<1>6. loc \in [Procs -> Memory]
  BY DEF AccountsInv, MemoryInv
<1>7. loc'[p] = m
  BY <1>1, <1>6
<1>8. Points(loc[p])' /\ HasName(loc[p])' /\ OwnsOther(loc[p])'
  BY <1>1, <1>4, <1>5, <1>7 DEF Good, Points, HasName, OwnsOther
<1>9. Moves(p)
  BY <1>1, <1>6, <1>8 DEF Moves
<1>10. SessionInv' /\ MemoryInv'
  BY <1>2, <1>9, OthersStill
<1> QED
  BY <1>2, <1>10 DEF AccountsInv

\* What is known of a request.
LEMMA Old ==
    ASSUME AccountsInv, NEW p \in Procs
    PROVE  Good(loc[p]) /\ loc \in [Procs -> Memory]
  BY DEF AccountsInv, MemoryInv, Good

\* The last step of any request.
LEMMA EndMakes ==
    ASSUME AccountsInv, NEW p \in Procs, NEW gone \in Nat, End(p, gone)
    PROVE  \E m \in Memory :
              /\ m = [pc |-> "done", rq |-> EndedRequest, id |-> 0, uniq |-> 0, expire |-> 0,
                      ui |-> NoUser, at |-> 0, created |-> 0, since |-> 0, gone |-> gone,
                      other |-> 0, heir |-> loc[p].heir]
              /\ loc' = [loc EXCEPT ![p] = m]
<1>1. PICK g, h : g = gone /\ h = loc[p].heir
  OBVIOUS
<1>2. h \in Nat
  BY <1>1, Old DEF Good, Memory
<1>3. PICK r : r = Idle("done", EndedRequest)
  OBVIOUS
<1>4. r = [pc |-> "done", rq |-> EndedRequest, id |-> 0, uniq |-> 0, expire |-> 0,
           ui |-> NoUser, at |-> 0, created |-> 0, since |-> 0, gone |-> 0,
           other |-> 0, heir |-> 0]
  BY <1>3 DEF Idle
<1>5. PICK s : s = [r EXCEPT !.gone = g]
  OBVIOUS
<1>6. s = [pc |-> "done", rq |-> EndedRequest, id |-> 0, uniq |-> 0, expire |-> 0,
           ui |-> NoUser, at |-> 0, created |-> 0, since |-> 0, gone |-> g,
           other |-> 0, heir |-> 0]
  BY <1>4, <1>5
<1>7. PICK m : m = [s EXCEPT !.heir = h]
  OBVIOUS
<1>8. m = [pc |-> "done", rq |-> EndedRequest, id |-> 0, uniq |-> 0, expire |-> 0,
           ui |-> NoUser, at |-> 0, created |-> 0, since |-> 0, gone |-> g,
           other |-> 0, heir |-> h]
  BY <1>6, <1>7
<1>9. EndedRequest \in Request /\ NoUser \in User
  BY DEF EndedRequest, Request, NoUser, User, Op, OwnOp
<1>10. m \in Memory
  BY <1>1, <1>2, <1>8, <1>9 DEF Memory, Pc
<1>11. loc' = [loc EXCEPT ![p] = m]
  BY <1>1, <1>3, <1>5, <1>7 DEF End
<1> QED
  BY <1>1, <1>8, <1>10, <1>11

LEMMA EndGoesOn ==
    ASSUME AccountsInv, NEW p \in Procs, ~Over(p), NEW gone \in Nat, End(p, gone)
    PROVE  GoesOn(p)
<1>1. PICK m \in Memory :
         /\ m = [pc |-> "done", rq |-> EndedRequest, id |-> 0, uniq |-> 0, expire |-> 0,
                 ui |-> NoUser, at |-> 0, created |-> 0, since |-> 0, gone |-> gone,
                 other |-> 0, heir |-> loc[p].heir]
         /\ loc' = [loc EXCEPT ![p] = m]
  BY EndMakes
<1>2. loc[p].heir \in Nat /\ loc[p].heir <= issued
  BY Old DEF Good, Memory, Points
<1>3. Points(m)
  BY <1>1, <1>2, Numbers DEF Points
<1>4. m.pc = "done" /\ m.rq.op = "visit"
  BY <1>1 DEF EndedRequest
<1>5. m.pc # loc[p].pc
  BY <1>4 DEF Over, At
<1>6. HasName(m) /\ OwnsOther(m)
  BY <1>4 DEF HasName, OwnsOther, NamingOp
<1> QED
  BY <1>1, <1>3, <1>5, <1>6 DEF GoesOn, Good

\* A step that only changes the place in the handler and the time of it.
LEMMA GotoGoesOn ==
    ASSUME AccountsInv, NEW p \in Procs, NEW pc \in Pc, pc # loc[p].pc,
           NEW id \in {0, loc[p].id},
           loc' = [loc EXCEPT ![p] = [loc[p] EXCEPT !.pc = pc, !.since = now, !.id = id]],
           pc # "endother",
           pc \in {"profile", "touch", "open", "stamp", "delete", "rewrite"} => loc[p].at # 0,
           pc \in {"touch", "open", "stamp"} =>
              loc[p].ui.name \in Names /\ loc[p].ui.full \in DOMAIN bodies,
           HasName([loc[p] EXCEPT !.pc = pc])
    PROVE  GoesOn(p)
<1> DEFINE m == [loc[p] EXCEPT !.pc = pc, !.since = now, !.id = id]
<1>1. Good(loc[p]) /\ loc[p] \in Memory
  BY Old DEF Good
<1>2. now \in Nat /\ issued \in Nat
  BY Numbers
<1>3. m \in Memory
  <2>1. id \in Nat
    BY <1>1 DEF Memory
  <2> QED
    BY <1>1, <1>2, <2>1 DEF Memory
<1>4. Points(m)
  BY <1>1, <1>2 DEF Points, Good, Memory
<1>5. HasName(m) /\ OwnsOther(m)
  BY <1>1 DEF HasName, OwnsOther, Memory
<1>6. m.pc = pc
  BY <1>1 DEF Memory
<1> HIDE DEF m
<1> QED
  BY <1>3, <1>4, <1>5, <1>6 DEF GoesOn, Good, m

\* A handler begins, with a session only when the account has been read.
LEMMA HandleGoesOn ==
    ASSUME AccountsInv, NEW p \in Procs, NEW logged \in BOOLEAN, Handle(p, logged),
           loc[p].pc \in {"start", "check", "reject", "touch"},
           logged => loc[p].ui.name \in Names
    PROVE  GoesOn(p)
<1> DEFINE pc == Handler(loc[p].rq.op, logged)
           id == IF logged THEN loc[p].id ELSE 0
<1>1. loc \in [Procs -> Memory] /\ loc[p] \in Memory /\ HasName(loc[p])
  BY Old DEF Good
<1>2. loc[p].rq.op \in Op
  BY <1>1 DEF Memory, Request
<1>3. CASE pc = "done"
  BY <1>3, EndGoesOn DEF Handle, Over, At
<1>4. CASE pc # "done"
  <2>1. /\ pc \in {"endown", "lookup", "exists", "find", "where", "pick", "own"}
        /\ pc = "endown" => loc[p].rq.op \in {"login", "logout"}
        /\ pc \in {"lookup", "exists"} => loc[p].rq.op \in NamingOp
        /\ pc = "where" => loc[p].rq.op = "purge"
        /\ pc = "find" => loc[p].rq.op = "remove" \/ (loc[p].rq.op = "leave" /\ logged)
        /\ pc = "own" => loc[p].rq.op = "modify" /\ logged
    <3>1. CASE loc[p].rq.op \in OwnOp
      BY <1>4, <3>1 DEF Handler, OwnHandler, OwnOp
    <3>2. CASE loc[p].rq.op \notin OwnOp
      BY <1>2, <1>4, <3>2 DEF Handler, Op, SuperOp, NamingOp
    <3> QED
      BY <3>1, <3>2
  <2>2. loc' = [loc EXCEPT ![p] = [loc[p] EXCEPT !.pc = pc, !.since = now, !.id = id]]
    BY <1>1, <1>4 DEF Handle, Memory
  <2>3. id \in {0, loc[p].id}
    OBVIOUS
  <2>4. pc \in Pc /\ pc # loc[p].pc /\ pc # "endother"
    BY <2>1 DEF Pc
  <2>5. ~(pc \in {"profile", "touch", "open", "stamp", "delete", "rewrite"})
    BY <2>1
  <2> HIDE DEF pc, id
  <2>6. HasName([loc[p] EXCEPT !.pc = pc])
    <3> DEFINE m == [loc[p] EXCEPT !.pc = pc]
    <3>1. m.pc = pc /\ m.rq = loc[p].rq /\ m.ui = loc[p].ui
      BY <1>1 DEF Memory
    <3> HIDE DEF m
    <3>2. HasName(m)
      BY <1>1, <2>1, <3>1 DEF HasName, NamingOp, OwnOp
    <3> QED
      BY <3>2 DEF m
  <2> QED
    BY <2>2, <2>3, <2>4, <2>5, <2>6, GotoGoesOn
<1> QED
  BY <1>3, <1>4

\* Any other step gives the request some new memory m.
LEMMA NewMemory ==
    ASSUME NEW p \in Procs, NEW m \in Memory, loc' = [loc EXCEPT ![p] = m],
           m.pc # loc[p].pc, Points(m), HasName(m), OwnsOther(m)
    PROVE  GoesOn(p)
  BY DEF GoesOn, Good

LEMMA BeginStep ==
    ASSUME AccountsInv, NEW p \in Procs, Begin(p)
    PROVE  AccountsInv' /\ SessionEffect
<1>1. SessionEffect /\ UNCHANGED <<profileVars, alone>>
  BY DEF Begin, SessionEffect
<1>2. CASE Handle(p, FALSE)
  BY <1>1, <1>2, HandleGoesOn, SessionsStep DEF Begin, At
<1>3. ASSUME NEW id \in 1..issued, loc[p].rq.op \notin SuperOp,
             loc' = [loc EXCEPT ![p].pc = "check", ![p].id = id]
      PROVE  GoesOn(p)
  <2> DEFINE m == [loc[p] EXCEPT !.pc = "check", !.id = id]
  <2>1. loc \in [Procs -> Memory] /\ loc[p] \in Memory /\ Good(loc[p]) /\ issued \in Nat
    BY Old, Numbers DEF Good
  <2>2. m \in Memory
    <3>1. id \in Nat /\ "check" \in Pc
      BY <2>1 DEF Pc
    <3> QED
      BY <2>1, <3>1 DEF Memory
  <2>4. loc' = [loc EXCEPT ![p] = m]
    BY <1>3, <2>1 DEF Memory
  <2>3. m.pc # loc[p].pc /\ Points(m) /\ HasName(m) /\ OwnsOther(m)
    BY <2>1 DEF Begin, At, Memory, Points, HasName, OwnsOther, Good
  <2> HIDE DEF m
  <2> QED
    BY <2>2, <2>3, <2>4, NewMemory
<1> QED
  BY <1>1, <1>2, <1>3, SessionsStep DEF Begin

LEMMA CheckSessionStep ==
    ASSUME AccountsInv, NEW p \in Procs, CheckSession(p)
    PROVE  AccountsInv' /\ SessionEffect
<1>1. loc \in [Procs -> Memory] /\ loc[p] \in Memory /\ Good(loc[p]) /\ loc[p].pc = "check"
  BY Old DEF Good, CheckSession, At
<1>2. UNCHANGED <<profileVars, alone>>
  BY DEF CheckSession
<1>3. ASSUME NEW same \in BOOLEAN, NEW i \in DOMAIN auth,
             Valid(i, loc[p].id, same), RenewEntry(i),
             loc' = [loc EXCEPT ![p].pc = "profile",
                        ![p].uniq = auth[i].uniq, ![p].at = auth[i].at,
                        ![p].expire = auth[i].expire]
      PROVE  AccountsInv' /\ SessionEffect
  <2> DEFINE m == [loc[p] EXCEPT !.pc = "profile", !.uniq = auth[i].uniq,
                                 !.at = auth[i].at, !.expire = auth[i].expire]
  <2>1. /\ auth[i].uniq \in Nat /\ auth[i].expire \in Nat
        /\ auth[i].at \in 1..Len(users) /\ Len(users) \in Nat
    BY Numbers
  <2>2. m \in Memory
    <3>1. auth[i].at \in Nat /\ "profile" \in Pc
      BY <2>1 DEF Pc
    <3> QED
      BY <1>1, <2>1, <3>1 DEF Memory
  <2>3. loc' = [loc EXCEPT ![p] = m]
    BY <1>1, <1>3 DEF Memory
  <2>4. Points(m)
    BY <1>1, <2>1 DEF Points, Good, Memory
  <2>5. m.pc # loc[p].pc /\ HasName(m) /\ OwnsOther(m)
    BY <1>1 DEF Memory, HasName, OwnsOther, Good
  <2> HIDE DEF m
  <2>6. GoesOn(p)
    BY <2>2, <2>3, <2>4, <2>5, NewMemory
  <2>7. SessionEffect
    BY <1>1, <1>3 DEF SessionEffect, Memory
  <2> QED
    BY <1>2, <2>6, <2>7, SessionsStep
<1>4. CASE Handle(p, FALSE) /\ UNCHANGED sessionVars
  <2>1. SessionEffect
    BY <1>4 DEF SessionEffect
  <2>2. GoesOn(p)
    BY <1>1, <1>4, HandleGoesOn
  <2> QED
    BY <1>2, <2>1, <2>2, SessionsStep
<1> QED
  BY <1>3, <1>4 DEF CheckSession

LEMMA ReadProfileStep ==
    ASSUME AccountsInv, NEW p \in Procs, ReadProfile(p)
    PROVE  AccountsInv' /\ SessionEffect
<1> DEFINE ui == users[loc[p].at]
           pc == IF OlderThanAccount(loc[p].expire, bodies[ui.full])
                 THEN "reject" ELSE "touch"
           heir == IF /\ ui.uniq # loc[p].uniq
                      /\ bodies[ui.full] + TTL = loc[p].expire
                   THEN loc[p].id ELSE 0
           m == [loc[p] EXCEPT !.ui = ui, !.created = bodies[ui.full],
                               !.since = now, !.heir = heir, !.pc = pc]
<1>1. loc \in [Procs -> Memory] /\ loc[p] \in Memory /\ Good(loc[p]) /\ loc[p].pc = "profile"
  BY Old DEF Good, ReadProfile, At
<1>2. SessionEffect /\ UNCHANGED <<profileVars, alone>>
  BY DEF ReadProfile, SessionEffect
<1>3. loc[p].at \in DOMAIN users
  BY <1>1, Numbers DEF Good, Points, Memory
<1>4. ui \in User /\ ui.name \in Names /\ ui.full \in DOMAIN bodies
  BY <1>3, Numbers DEF AccountsInv, FilesInv
<1>5. bodies[ui.full] \in Nat /\ bodies[ui.full] <= now /\ now \in Nat
  BY <1>4, Numbers
<1>6. /\ pc \in {"reject", "touch"} /\ pc \in Pc
      /\ heir \in Nat /\ heir <= issued
  BY <1>1, Numbers DEF Pc, Good, Points, Memory
<1>7. loc' = [loc EXCEPT ![p] = m]
  BY <1>1 DEF ReadProfile, Memory
<1> HIDE DEF ui, heir, pc
<1>8. m \in Memory
  BY <1>1, <1>4, <1>5, <1>6 DEF Memory
<1>9. Points(m)
  BY <1>1, <1>3, <1>4, <1>5, <1>6, Numbers DEF Points, Good, Memory
<1>10. m.pc # loc[p].pc /\ HasName(m) /\ OwnsOther(m)
  BY <1>1, <1>6 DEF Memory, HasName, OwnsOther, Good
<1> HIDE DEF m
<1>11. GoesOn(p)
  BY <1>7, <1>8, <1>9, <1>10, NewMemory
<1> QED
  BY <1>2, <1>11, SessionsStep

LEMMA RejectSessionStep ==
    ASSUME AccountsInv, NEW p \in Procs, RejectSession(p)
    PROVE  AccountsInv' /\ SessionEffect
<1>1. loc[p] \in Memory /\ Good(loc[p]) /\ loc[p].pc = "reject" /\ now \in Nat
  BY Old, Numbers DEF Good, RejectSession, At
<1>2. PICK tn \in loc[p].since..now : CloseById(tn, loc[p].id)
  BY DEF RejectSession
<1>3. SessionEffect
  <2>1. tn \in 0..now /\ loc[p].id \in Nat
    BY <1>1 DEF Memory
  <2> QED
    BY <1>2, <2>1 DEF SessionEffect
<1>4. GoesOn(p)
  BY <1>1, HandleGoesOn DEF RejectSession
<1> QED
  BY <1>3, <1>4, SessionsStep DEF RejectSession

\* SetUInfo, and the records that ModifyUser writes in their places.
LEMMA WriteBack ==
    ASSUME AccountsInv, index' = index, ufree' = ufree, count' = count,
           lastUniq' = lastUniq, UNCHANGED sessionVars,
           NEW at \in DOMAIN users, NEW ui \in User, ui.name \in Names,
           users' = [users EXCEPT ![at] = ui],
           bodies' \in Seq(Nat), Len(bodies) <= Len(bodies'),
           \A i \in DOMAIN bodies' : bodies'[i] <= now,
           bfree' \in Seq(DOMAIN bodies'), ui.full \in DOMAIN bodies'
    PROVE  FilesInv' /\ UsersCounted' /\ Growing
<1>1. users \in Seq(User) /\ Len(users) \in Nat /\ DOMAIN users = 1..Len(users)
  BY Numbers DEF AccountsInv, FilesInv
<1>2. /\ users' \in Seq(User) /\ Len(users') = Len(users) /\ DOMAIN users' = DOMAIN users
      /\ \A i \in DOMAIN users : users'[i] = IF i = at THEN ui ELSE users[i]
  BY <1>1
<1>3. /\ Len(bodies) \in Nat /\ DOMAIN bodies = 1..Len(bodies)
      /\ Len(bodies') \in Nat /\ DOMAIN bodies' = 1..Len(bodies')
  BY Numbers
<1>4. \A i \in DOMAIN users' : users'[i].name \in Names /\ users'[i].full \in DOMAIN bodies'
  BY <1>2, <1>3 DEF AccountsInv, FilesInv
<1>5. index' \in [Names -> 0..Len(users')]
  BY <1>2 DEF AccountsInv, FilesInv
<1>6. ufree' \in Seq(DOMAIN users') /\ lastUniq' \in Nat
  BY <1>2 DEF AccountsInv, FilesInv
<1>7. now' = now /\ \A i \in DOMAIN auth' : auth'[i].at \in DOMAIN users'
  BY <1>2 DEF AccountsInv, FilesInv, sessionVars
<1>8. UsersCounted'
  BY DEF UsersCounted, Registered, AccountsInv
<1>9. Growing
  BY <1>1, <1>2 DEF Growing
<1> QED
  BY <1>2, <1>4, <1>5, <1>6, <1>7, <1>8, <1>9 DEF FilesInv

LEMMA TouchProfileStep ==
    ASSUME AccountsInv, NEW p \in Procs, TouchProfile(p)
    PROVE  AccountsInv' /\ SessionEffect
<1>1. loc[p] \in Memory /\ Good(loc[p]) /\ loc[p].pc = "touch"
  BY Old DEF Good, TouchProfile, At
<1>2. loc[p].at \in DOMAIN users /\ loc[p].ui \in User /\ loc[p].ui.name \in Names
      /\ loc[p].ui.full \in DOMAIN bodies
  BY <1>1, Numbers DEF Good, Points, Memory
<1>3. /\ bodies \in Seq(Nat) /\ bfree \in Seq(DOMAIN bodies)
      /\ Len(bodies) <= Len(bodies) /\ \A i \in DOMAIN bodies : bodies[i] <= now
  BY Numbers DEF AccountsInv, FilesInv
<1>4. FilesInv' /\ UsersCounted' /\ Growing
  BY <1>2, <1>3, WriteBack DEF TouchProfile
<1>5. GoesOn(p)
  BY <1>1, <1>2, HandleGoesOn DEF TouchProfile
<1> QED
  BY <1>4, <1>5, FilesStep DEF TouchProfile

LEMMA EndOwnSessionStep ==
    ASSUME AccountsInv, NEW p \in Procs, EndOwnSession(p)
    PROVE  AccountsInv' /\ SessionEffect
<1> DEFINE m == [loc[p] EXCEPT !.pc = "lookup", !.id = 0]
<1>1. /\ loc \in [Procs -> Memory] /\ loc[p] \in Memory /\ Good(loc[p])
      /\ loc[p].pc = "endown" /\ now \in Nat /\ issued \in Nat
  BY Old, Numbers DEF Good, EndOwnSession, At
<1>2. PICK tn \in loc[p].since..now : CloseById(tn, loc[p].id)
  BY DEF EndOwnSession
<1>3. SessionEffect
  <2>1. tn \in 0..now /\ loc[p].id \in Nat
    BY <1>1 DEF Memory
  <2> QED
    BY <1>2, <2>1 DEF SessionEffect
<1>4. CASE loc[p].rq.op = "logout"
  <2>1. End(p, 0) /\ ~Over(p)
    BY <1>1, <1>4 DEF EndOwnSession, Over, At
  <2> QED
    BY <1>3, <2>1, EndGoesOn, SessionsStep DEF EndOwnSession
<1>5. CASE loc[p].rq.op # "logout"
  <2>1. loc' = [loc EXCEPT ![p] = m]
    BY <1>1, <1>5 DEF EndOwnSession, Memory
  <2>2. m \in Memory
    BY <1>1 DEF Memory, Pc
  <2>3. m.pc # loc[p].pc /\ Points(m) /\ HasName(m) /\ OwnsOther(m)
    BY <1>1, <1>5 DEF Memory, Points, HasName, OwnsOther, Good
  <2> HIDE DEF m
  <2>4. GoesOn(p)
    BY <2>1, <2>2, <2>3, NewMemory
  <2> QED
    BY <1>3, <2>4, SessionsStep DEF EndOwnSession
<1> QED
  BY <1>4, <1>5

\* The name a request works on, and the place the index has for it.
LEMMA NameKnown ==
    ASSUME AccountsInv, NEW p \in Procs,
           loc[p].pc \in {"find", "where", "own", "delete", "rewrite",
                          "lookup", "exists", "add"}
    PROVE  /\ Name(p) \in Names
           /\ index[Name(p)] \in 0..Len(users)
           /\ index[Name(p)] # 0 => index[Name(p)] \in DOMAIN users
<1>1. loc[p] \in Memory /\ HasName(loc[p])
  BY Old DEF Good
<1>2. Name(p) \in Names
  BY <1>1 DEF HasName, Name, NamingOp, OwnOp
<1>3. index[Name(p)] \in 0..Len(users)
  BY <1>2 DEF AccountsInv, FilesInv
<1> QED
  BY <1>2, <1>3, Numbers

LEMMA FindAccountStep ==
    ASSUME AccountsInv, NEW p \in Procs, FindAccount(p)
    PROVE  AccountsInv' /\ SessionEffect
<1> DEFINE at == index[Name(p)]
           m == [loc[p] EXCEPT !.pc = "open", !.at = at, !.ui = users[at], !.since = now]
<1>1. /\ loc \in [Procs -> Memory] /\ loc[p] \in Memory /\ Good(loc[p])
      /\ loc[p].pc = "lookup" /\ now \in Nat /\ issued \in Nat
  BY Old, Numbers DEF Good, FindAccount, At
<1>2. SessionEffect /\ UNCHANGED <<profileVars, alone>>
  BY DEF FindAccount, SessionEffect
<1>3. CASE Known(Name(p))
  <2>1. at \in DOMAIN users /\ at \in Nat /\ at # 0 /\ at <= Len(users)
    BY <1>1, <1>3, NameKnown, Numbers DEF Known
  <2>2. users[at] \in User /\ users[at].name \in Names /\ users[at].full \in DOMAIN bodies
    BY <2>1, Numbers DEF AccountsInv, FilesInv
  <2>3. loc' = [loc EXCEPT ![p] = m]
    BY <1>1, <1>3 DEF FindAccount, Memory
  <2> HIDE DEF at
  <2>4. m \in Memory
    <3>1. "open" \in Pc
      BY DEF Pc
    <3> QED
      BY <1>1, <2>1, <2>2, <3>1 DEF Memory
  <2>5. Points(m)
    BY <1>1, <2>1, <2>2 DEF Points, Good, Memory
  <2>6. m.pc # loc[p].pc /\ HasName(m) /\ OwnsOther(m)
    BY <1>1 DEF Memory, HasName, OwnsOther, Good
  <2> HIDE DEF m
  <2>7. GoesOn(p)
    BY <2>3, <2>4, <2>5, <2>6, NewMemory
  <2> QED
    BY <1>2, <2>7, SessionsStep
<1>4. CASE ~Known(Name(p))
  <2>1. End(p, 0) /\ ~Over(p)
    BY <1>1, <1>4 DEF FindAccount, Over, At
  <2> QED
    BY <1>2, <2>1, EndGoesOn, SessionsStep
<1> QED
  BY <1>3, <1>4

LEMMA OpenSessionStep ==
    ASSUME AccountsInv, NEW p \in Procs, OpenSession(p)
    PROVE  AccountsInv' /\ SessionEffect
<1>1. /\ loc \in [Procs -> Memory] /\ loc[p] \in Memory /\ Good(loc[p])
      /\ loc[p].pc = "open" /\ now \in Nat
  BY Old, Numbers DEF Good, OpenSession, At
<1>2. PICK tn \in loc[p].since..now :
          OpenAuthSequence(tn, loc[p].ui.uniq, loc[p].rq.unbound, loc[p].at)
  BY DEF OpenSession
<1>3. /\ tn \in 0..now /\ loc[p].ui.uniq \in Nat /\ loc[p].rq.unbound \in BOOLEAN
      /\ loc[p].at \in DOMAIN users
  BY SMTT(40), <1>1, Numbers DEF Memory, User, Request, Good, Points
<1>4. SessionEffect
  BY <1>2, <1>3 DEF SessionEffect
<1>5. GoesOn(p)
  <2>1. loc' = [loc EXCEPT ![p] = [loc[p] EXCEPT !.pc = "stamp", !.since = now,
                                                 !.id = loc[p].id]]
    BY <1>1 DEF OpenSession, Goto, Memory
  <2>2. HasName([loc[p] EXCEPT !.pc = "stamp"])
    BY <1>1 DEF Memory, HasName, Good
  <2>3. "stamp" \in Pc /\ "stamp" # loc[p].pc /\ loc[p].id \in {0, loc[p].id}
    BY <1>1 DEF Pc
  <2>4. /\ loc[p].at # 0 /\ loc[p].ui.name \in Names /\ loc[p].ui.full \in DOMAIN bodies
    BY <1>1 DEF Good, Points
  <2> QED
    BY <2>1, <2>2, <2>3, <2>4, GotoGoesOn
<1> QED
  BY <1>4, <1>5, SessionsStep DEF OpenSession

LEMMA StampLoginStep ==
    ASSUME AccountsInv, NEW p \in Procs, StampLogin(p)
    PROVE  AccountsInv' /\ SessionEffect
<1>1. loc[p] \in Memory /\ Good(loc[p]) /\ loc[p].pc = "stamp"
  BY Old DEF Good, StampLogin, At
<1>2. loc[p].at \in DOMAIN users /\ loc[p].ui \in User /\ loc[p].ui.name \in Names
      /\ loc[p].ui.full \in DOMAIN bodies
  BY <1>1, Numbers DEF Good, Points, Memory
<1>3. /\ bodies \in Seq(Nat) /\ bfree \in Seq(DOMAIN bodies)
      /\ Len(bodies) <= Len(bodies) /\ \A i \in DOMAIN bodies : bodies[i] <= now
  BY Numbers DEF AccountsInv, FilesInv
<1>4. FilesInv' /\ UsersCounted' /\ Growing
  BY <1>2, <1>3, WriteBack DEF StampLogin
<1>5. GoesOn(p)
  BY <1>1, EndGoesOn DEF StampLogin, Over, At
<1> QED
  BY <1>4, <1>5, FilesStep DEF StampLogin

LEMMA CheckNameStep ==
    ASSUME AccountsInv, NEW p \in Procs, CheckName(p)
    PROVE  AccountsInv' /\ SessionEffect
<1> DEFINE m == [loc[p] EXCEPT !.pc = "add", !.created = now]
<1>1. /\ loc \in [Procs -> Memory] /\ loc[p] \in Memory /\ Good(loc[p])
      /\ loc[p].pc = "exists" /\ now \in Nat
  BY Old, Numbers DEF Good, CheckName, At
<1>2. SessionEffect /\ UNCHANGED <<profileVars, alone>>
  BY DEF CheckName, SessionEffect
<1>3. m \in Memory
  BY <1>1 DEF Memory, Pc
<1>4. m.pc # loc[p].pc /\ Points(m) /\ HasName(m) /\ OwnsOther(m)
  BY <1>1 DEF Memory, Points, HasName, OwnsOther, Good
<1>5. End(p, 0) \/ loc' = [loc EXCEPT ![p] = m]
  BY <1>1 DEF CheckName, Memory
<1>6. ~Over(p)
  BY <1>1 DEF Over, At
<1> HIDE DEF m
<1>7. GoesOn(p)
  BY <1>3, <1>4, <1>5, <1>6, NewMemory, EndGoesOn
<1> QED
  BY <1>2, <1>7, SessionsStep

LEMMA FindRemovedStep ==
    ASSUME AccountsInv, NEW p \in Procs, FindRemoved(p)
    PROVE  AccountsInv' /\ SessionEffect
<1> DEFINE uniq == users[index[Name(p)]].uniq
           m == [loc[p] EXCEPT !.pc = "where", !.gone = uniq]
<1>1. /\ loc \in [Procs -> Memory] /\ loc[p] \in Memory /\ Good(loc[p])
      /\ loc[p].pc = "find" /\ ~Over(p)
  BY Old DEF Good, FindRemoved, At, Over
<1>2. SessionEffect /\ UNCHANGED <<profileVars, alone>>
  BY DEF FindRemoved, SessionEffect
<1>3. CASE Known(Name(p))
  <2>1. uniq \in Nat
    BY <1>1, <1>3, NameKnown, Numbers DEF Known, User
  <2>2. loc' = [loc EXCEPT ![p] = m]
    BY <1>1, <1>3 DEF FindRemoved, Memory
  <2> HIDE DEF uniq
  <2>3. m \in Memory
    BY <1>1, <2>1 DEF Memory, Pc
  <2>4. m.pc # loc[p].pc /\ Points(m) /\ HasName(m) /\ OwnsOther(m)
    BY <1>1 DEF Memory, Points, HasName, OwnsOther, Good
  <2> HIDE DEF m
  <2>5. GoesOn(p)
    BY <2>2, <2>3, <2>4, NewMemory
  <2> QED
    BY <1>2, <2>5, SessionsStep
<1>4. CASE ~Known(Name(p))
  BY <1>1, <1>2, <1>4, EndGoesOn, SessionsStep DEF FindRemoved
<1> QED
  BY <1>3, <1>4

LEMMA FindPlaceStep ==
    ASSUME AccountsInv, NEW p \in Procs, FindPlace(p)
    PROVE  AccountsInv' /\ SessionEffect
<1> DEFINE at == index[Name(p)]
           pc == IF loc[p].rq.op = "modify" THEN "rewrite" ELSE "delete"
           m == [loc[p] EXCEPT !.at = at, !.pc = pc]
<1>1. /\ loc \in [Procs -> Memory] /\ loc[p] \in Memory /\ Good(loc[p])
      /\ loc[p].pc = "where" /\ ~Over(p)
  BY Old DEF Good, FindPlace, At, Over
<1>2. SessionEffect /\ UNCHANGED <<profileVars, alone>>
  BY DEF FindPlace, SessionEffect
<1>3. CASE at # 0
  <2>1. at \in Nat /\ at # 0 /\ at <= Len(users)
    BY <1>1, <1>3, NameKnown, Numbers
  <2>2. loc' = [loc EXCEPT ![p] = m]
    BY <1>1, <1>3 DEF FindPlace, Memory
  <2>3. pc \in {"rewrite", "delete"} /\ pc \in Pc
    BY DEF Pc
  <2> HIDE DEF at, pc
  <2>4. m \in Memory
    BY <1>1, <2>1, <2>3 DEF Memory
  <2>5. m.pc # loc[p].pc /\ Points(m) /\ HasName(m) /\ OwnsOther(m)
    BY <1>1, <2>1, <2>3 DEF Memory, Points, HasName, OwnsOther, Good
  <2> HIDE DEF m
  <2>6. GoesOn(p)
    BY <2>2, <2>4, <2>5, NewMemory
  <2> QED
    BY <1>2, <2>6, SessionsStep
<1>4. CASE at = 0
  BY <1>1, <1>2, <1>4, EndGoesOn, SessionsStep DEF FindPlace
<1> QED
  BY <1>3, <1>4

LEMMA CloseSessionsStep ==
    ASSUME AccountsInv, NEW p \in Procs, CloseSessions(p)
    PROVE  AccountsInv' /\ SessionEffect
<1>1. /\ loc[p] \in Memory /\ ~Over(p) /\ now \in Nat
  BY Old, Numbers DEF Good, CloseSessions, At, Over
<1>2. PICK tn \in loc[p].since..now : CloseByUser(tn, loc[p].gone)
  BY DEF CloseSessions
<1>3. SessionEffect
  <2>1. tn \in 0..now /\ loc[p].gone \in Nat
    BY <1>1 DEF Memory
  <2> QED
    BY <1>2, <2>1 DEF SessionEffect
<1>4. End(p, loc[p].gone) /\ loc[p].gone \in Nat
  BY <1>1 DEF CloseSessions, Memory
<1>5. GoesOn(p)
  BY <1>1, <1>4, EndGoesOn
<1> QED
  BY <1>3, <1>5, SessionsStep DEF CloseSessions

LEMMA LoadOwnStep ==
    ASSUME AccountsInv, NEW p \in Procs, LoadOwn(p)
    PROVE  AccountsInv' /\ SessionEffect
<1>1. /\ loc \in [Procs -> Memory] /\ loc[p] \in Memory /\ Good(loc[p])
      /\ loc[p].pc = "own" /\ now \in Nat
  BY Old, Numbers DEF Good, LoadOwn, At
<1>2. SessionEffect /\ UNCHANGED <<profileVars, alone>>
  BY DEF LoadOwn, SessionEffect
<1>3. PICK date : /\ date \in IF Known(Name(p)) THEN {bodies[users[index[Name(p)]].full]}
                                                ELSE 0..now
                  /\ loc' = [loc EXCEPT ![p].pc = "where", ![p].created = date]
  BY DEF LoadOwn
<1>4. date \in Nat /\ date <= now
  <2>1. CASE Known(Name(p))
    <3>1. index[Name(p)] \in DOMAIN users
      BY <1>1, <2>1, NameKnown DEF Known
    <3>2. users[index[Name(p)]].full \in DOMAIN bodies
      BY <3>1 DEF AccountsInv, FilesInv
    <3> QED
      BY <1>3, <2>1, <3>2, Numbers
  <2>2. CASE ~Known(Name(p))
    BY <1>1, <1>3, <2>2
  <2> QED
    BY <2>1, <2>2
<1> DEFINE m == [loc[p] EXCEPT !.pc = "where", !.created = date]
<1>5. loc' = [loc EXCEPT ![p] = m]
  BY <1>1, <1>3 DEF Memory
<1>6. m \in Memory
  BY <1>1, <1>4 DEF Memory, Pc
<1>7. m.pc # loc[p].pc /\ Points(m) /\ HasName(m) /\ OwnsOther(m)
  BY <1>1, <1>4 DEF Memory, Points, HasName, OwnsOther, Good
<1> HIDE DEF m
<1>8. GoesOn(p)
  BY <1>5, <1>6, <1>7, NewMemory
<1> QED
  BY <1>2, <1>8, SessionsStep

LEMMA PickSessionStep ==
    ASSUME AccountsInv, NEW p \in Procs, PickSession(p)
    PROVE  AccountsInv' /\ SessionEffect
<1>1. /\ loc \in [Procs -> Memory] /\ loc[p] \in Memory /\ Good(loc[p])
      /\ loc[p].pc = "pick" /\ ~Over(p) /\ now \in Nat /\ issued \in Nat
  BY Old, Numbers DEF Good, PickSession, At, Over
<1>2. SessionEffect /\ UNCHANGED <<profileVars, alone>>
  BY DEF PickSession, SessionEffect
<1>3. CASE End(p, 0)
  BY <1>1, <1>2, <1>3, EndGoesOn, SessionsStep
<1>4. ASSUME NEW i \in DOMAIN auth, MayClose(p, i),
             loc' = [loc EXCEPT ![p].pc = "endother", ![p].other = auth[i].id,
                                ![p].since = now]
      PROVE  GoesOn(p)
  <2> DEFINE m == [loc[p] EXCEPT !.pc = "endother", !.other = auth[i].id, !.since = now]
  <2>1. loc' = [loc EXCEPT ![p] = m]
    BY <1>1, <1>4 DEF Memory
  <2>2. auth[i].id \in Nat /\ auth[i].id <= issued
    BY <1>1, Numbers
  <2>3. "endother" \in Pc
    BY DEF Pc
  <2>4. m \in Memory
    BY <1>1, <2>2, <2>3 DEF Memory
  <2>5. m.pc # loc[p].pc /\ HasName(m)
    BY <1>1 DEF Memory, HasName, Good
  <2>6. Points(m)
    BY <1>1, <2>2 DEF Memory, Points, Good
  <2>7. OwnsOther(m)
    <3>1. m.other = auth[i].id /\ m.rq = loc[p].rq /\ m.uniq = loc[p].uniq
      BY <1>1 DEF Memory
    <3>2. m.rq.op = "closeown" => auth[i].uniq = m.uniq
      BY <1>4, <3>1 DEF MayClose
    <3> HIDE DEF m
    <3>3. \A j \in DOMAIN auth : auth[j].id = auth[i].id => j = i
      BY DEF AccountsInv, SessionInv, NumbersUnique
    <3> QED
      BY <3>1, <3>2, <3>3 DEF OwnsOther
  <2> HIDE DEF m
  <2> QED
    BY <2>1, <2>4, <2>5, <2>6, <2>7, NewMemory
<1> QED
  BY <1>2, <1>3, <1>4, SessionsStep DEF PickSession

LEMMA CloseOtherStep ==
    ASSUME AccountsInv, NEW p \in Procs, CloseOther(p)
    PROVE  AccountsInv' /\ SessionEffect
<1>1. /\ loc[p] \in Memory /\ ~Over(p) /\ now \in Nat
  BY Old, Numbers DEF Good, CloseOther, At, Over
<1>2. PICK tn \in loc[p].since..now : CloseById(tn, loc[p].other)
  BY DEF CloseOther
<1>3. SessionEffect
  <2>1. tn \in 0..now /\ loc[p].other \in Nat
    BY <1>1 DEF Memory
  <2> QED
    BY <1>2, <2>1 DEF SessionEffect
<1>4. GoesOn(p)
  BY <1>1, EndGoesOn DEF CloseOther
<1> QED
  BY <1>3, <1>4, SessionsStep DEF CloseOther

-----------------------------------------------------------------------------
(* The steps under the locks of the profile database. *)

\* A place handed out is a free one or the next at the end of the file.
LEMMA SpaceFacts ==
    ASSUME NEW n \in Nat, NEW free \in Seq(1..n), NEW u \in Space(free, n)
    PROVE  u.at \in 1..(n + 1) /\ u.left \in Seq(1..n)
<1>1. CASE free = <<>>
  <2>1. u = [at |-> n + 1, left |-> free]
    BY <1>1 DEF Space
  <2> QED
    BY <2>1
<1>2. CASE free # <<>>
  <2>1. PICK i \in DOMAIN free : u = [at |-> free[i], left |-> RemoveAt(free, i)]
    BY <1>2 DEF Space
  <2>2. i \in 1..Len(free) /\ free[i] \in 1..n
    OBVIOUS
  <2>3. RemoveAt(free, i) \in Seq(1..n)
    BY <2>2, RemoveAtFacts
  <2> QED
    BY <2>1, <2>2, <2>3
<1> QED
  BY <1>1, <1>2

\* Writing a record in its place, or at the end of the file.
LEMMA PutFacts ==
    ASSUME NEW S, NEW seq \in Seq(S), NEW at \in 1..(Len(seq) + 1), NEW x \in S
    PROVE  /\ Put(seq, at, x) \in Seq(S) /\ Len(seq) <= Len(Put(seq, at, x))
           /\ Len(Put(seq, at, x)) \in Nat /\ at \in 1..Len(Put(seq, at, x))
           /\ \A i \in 1..Len(Put(seq, at, x)) :
                 Put(seq, at, x)[i] = IF i = at THEN x ELSE seq[i]
           /\ \A i \in 1..Len(Put(seq, at, x)) : i # at => i \in 1..Len(seq)
<1>1. CASE at \in DOMAIN seq
  BY <1>1 DEF Put
<1>2. CASE at \notin DOMAIN seq
  <2>1. at = Len(seq) + 1 /\ Len(seq) \in Nat
    BY <1>2
  <2>2. Put(seq, at, x) = Append(seq, x)
    BY <1>2 DEF Put
  <2> QED
    BY <2>1, <2>2
<1> QED
  BY <1>1, <1>2

\* A list of free places stays one when the file grows.
LEMMA PlacesStill ==
    ASSUME NEW n \in Nat, NEW k \in Nat, n <= k, NEW free \in Seq(1..n), NEW at \in 1..k
    PROVE  free \in Seq(1..k) /\ Append(free, at) \in Seq(1..k)
<1>1. \A i \in 1..Len(free) : free[i] \in 1..k
  BY SMT
<1>2. free \in Seq(1..k)
  <2>1. free = [i \in 1..Len(free) |-> free[i]] /\ Len(free) \in Nat
    OBVIOUS
  <2> QED
    BY <1>1, <2>1, SeqDef
<1> QED
  BY <1>2

\* One more registered name, or one less.
LEMMA NameAdded ==
    ASSUME AccountsInv, NEW name \in Names, index[name] = 0, NEW at \in Nat \ {0},
           index' = [index EXCEPT ![name] = at], count' = count + 1
    PROVE  UsersCounted'
<1>1. index \in [Names -> 0..Len(users)] /\ count = Cardinality(Registered)
  BY DEF AccountsInv, FilesInv, UsersCounted
<1>2. Registered' = Registered \cup {name} /\ name \notin Registered
  BY <1>1 DEF Registered
<1>3. IsFiniteSet(Registered)
  BY AccountsAssumption, FS_Subset DEF Registered
<1> QED
  BY <1>1, <1>2, <1>3, FS_AddElement DEF UsersCounted

LEMMA NameRemoved ==
    ASSUME AccountsInv, NEW name \in Names, index[name] # 0,
           index' = [index EXCEPT ![name] = 0], count' = count - 1
    PROVE  UsersCounted'
<1>1. index \in [Names -> 0..Len(users)] /\ count = Cardinality(Registered)
  BY DEF AccountsInv, FilesInv, UsersCounted
<1>2. Registered' = Registered \ {name} /\ name \in Registered
  BY <1>1 DEF Registered
<1>3. IsFiniteSet(Registered)
  BY AccountsAssumption, FS_Subset DEF Registered
<1> QED
  BY <1>1, <1>2, <1>3, FS_RemoveElement DEF UsersCounted

LEMMA AddUserStep ==
    ASSUME AccountsInv, NEW p \in Procs, AddUser(p)
    PROVE  AccountsInv' /\ SessionEffect
<1> DEFINE name == Name(p)
<1>1. /\ loc \in [Procs -> Memory] /\ loc[p] \in Memory /\ Good(loc[p])
      /\ loc[p].pc = "add" /\ ~Over(p) /\ loc[p].created <= now /\ loc[p].created \in Nat
  BY Old DEF Good, AddUser, At, Over, Memory, Points
<1>2. UNCHANGED <<sessionVars, alone>> /\ now' = now /\ auth' = auth
  BY DEF AddUser, sessionVars
<1>3. name \in Names /\ index \in [Names -> 0..Len(users)]
  BY <1>1, NameKnown DEF AccountsInv, FilesInv
<1>4. PICK u \in Space(ufree, Len(users)), b \in Space(bfree, Len(bodies)) :
         /\ users' = Put(users, u.at, [name |-> name, uniq |-> lastUniq + 1, full |-> b.at])
         /\ bodies' = Put(bodies, b.at, loc[p].created)
         /\ \/ /\ index[name] = 0
               /\ ufree' = u.left /\ bfree' = b.left
               /\ index' = [index EXCEPT ![name] = u.at]
               /\ lastUniq' = lastUniq + 1 /\ count' = count + 1
               /\ Goto(p, IF loc[p].id # 0 THEN "endown" ELSE "lookup")
            \/ /\ ufree' = Append(u.left, u.at) /\ bfree' = Append(b.left, b.at)
               /\ index' = index /\ lastUniq' = lastUniq /\ count' = count
               /\ End(p, 0)
  BY DEF AddUser, Unused, TakenBack
<1> HIDE DEF name
<1> DEFINE ui == [name |-> name, uniq |-> lastUniq + 1, full |-> b.at]
<1>5. /\ Len(users) \in Nat /\ users \in Seq(User) /\ DOMAIN users = 1..Len(users)
      /\ Len(bodies) \in Nat /\ bodies \in Seq(Nat) /\ DOMAIN bodies = 1..Len(bodies)
      /\ ufree \in Seq(1..Len(users)) /\ bfree \in Seq(1..Len(bodies)) /\ lastUniq \in Nat
  BY Numbers DEF AccountsInv, FilesInv
<1>6. /\ u.at \in 1..(Len(users) + 1) /\ u.left \in Seq(1..Len(users))
      /\ b.at \in 1..(Len(bodies) + 1) /\ b.left \in Seq(1..Len(bodies))
  BY <1>5, SpaceFacts
<1>7. ui \in User
  BY <1>3, <1>5, <1>6 DEF User
<1>8. /\ users' \in Seq(User) /\ Len(users) <= Len(users') /\ Len(users') \in Nat
      /\ u.at \in 1..Len(users') /\ DOMAIN users' = 1..Len(users')
      /\ \A i \in 1..Len(users') : users'[i] = IF i = u.at THEN ui ELSE users[i]
      /\ \A i \in 1..Len(users') : i # u.at => i \in 1..Len(users)
  <2> HIDE DEF ui
  <2>1. users' = Put(users, u.at, ui)
    BY <1>4 DEF ui
  <2>2. PICK at \in 1..(Len(users) + 1), x \in User : at = u.at /\ x = ui
    BY <1>6, <1>7
  <2>3. users' = Put(users, at, x)
    BY <2>1, <2>2
  <2>4. /\ users' \in Seq(User) /\ Len(users) <= Len(users') /\ Len(users') \in Nat
        /\ at \in 1..Len(users')
        /\ \A i \in 1..Len(users') : users'[i] = IF i = at THEN x ELSE users[i]
        /\ \A i \in 1..Len(users') : i # at => i \in 1..Len(users)
    <3>1. users \in Seq(User) /\ at \in 1..(Len(users) + 1) /\ x \in User
      BY <1>5
    <3>2. /\ Put(users, at, x) \in Seq(User) /\ Len(users) <= Len(Put(users, at, x))
          /\ Len(Put(users, at, x)) \in Nat /\ at \in 1..Len(Put(users, at, x))
          /\ \A i \in 1..Len(Put(users, at, x)) :
                Put(users, at, x)[i] = IF i = at THEN x ELSE users[i]
          /\ \A i \in 1..Len(Put(users, at, x)) : i # at => i \in 1..Len(users)
      BY <3>1, PutFacts, Zenon
    <3> QED
      BY <2>3, <3>2, Zenon
  <2> QED
    BY <2>2, <2>4
<1>9. /\ bodies' \in Seq(Nat) /\ Len(bodies) <= Len(bodies') /\ Len(bodies') \in Nat
      /\ b.at \in 1..Len(bodies') /\ DOMAIN bodies' = 1..Len(bodies')
      /\ \A i \in 1..Len(bodies') : bodies'[i] = IF i = b.at THEN loc[p].created ELSE bodies[i]
      /\ \A i \in 1..Len(bodies') : i # b.at => i \in 1..Len(bodies)
  <2>1. PICK at \in 1..(Len(bodies) + 1), x \in Nat : at = b.at /\ x = loc[p].created
    BY <1>1, <1>6
  <2>2. bodies' = Put(bodies, at, x)
    BY <1>4, <2>1
  <2>3. /\ bodies' \in Seq(Nat) /\ Len(bodies) <= Len(bodies') /\ Len(bodies') \in Nat
        /\ at \in 1..Len(bodies')
        /\ \A i \in 1..Len(bodies') : bodies'[i] = IF i = at THEN x ELSE bodies[i]
        /\ \A i \in 1..Len(bodies') : i # at => i \in 1..Len(bodies)
    <3>1. bodies \in Seq(Nat) /\ at \in 1..(Len(bodies) + 1) /\ x \in Nat
      BY <1>5
    <3>2. /\ Put(bodies, at, x) \in Seq(Nat) /\ Len(bodies) <= Len(Put(bodies, at, x))
          /\ Len(Put(bodies, at, x)) \in Nat /\ at \in 1..Len(Put(bodies, at, x))
          /\ \A i \in 1..Len(Put(bodies, at, x)) :
                Put(bodies, at, x)[i] = IF i = at THEN x ELSE bodies[i]
          /\ \A i \in 1..Len(Put(bodies, at, x)) : i # at => i \in 1..Len(bodies)
      BY <3>1, PutFacts, Zenon
    <3> QED
      BY <2>2, <3>2, Zenon
  <2> QED
    BY <2>1, <2>3
<1>10. Growing
  BY <1>8, <1>9 DEF Growing
<1>11. FilesInv'
  <2>1. \A i \in DOMAIN users' : users'[i].name \in Names /\ users'[i].full \in DOMAIN bodies'
    <3>1. ui.name \in Names /\ ui.full \in DOMAIN bodies'
      BY <1>3, <1>9
    <3>2. \A i \in 1..Len(users) : users[i].name \in Names /\ users[i].full \in DOMAIN bodies'
      <4>1. \A i \in 1..Len(users) : users[i].name \in Names /\ users[i].full \in DOMAIN bodies
        BY <1>5 DEF AccountsInv, FilesInv
      <4>2. \A k \in DOMAIN bodies : k \in DOMAIN bodies'
        BY <1>5, <1>9
      <4> QED
        BY <4>1, <4>2
    <3> HIDE DEF ui
    <3> QED
      BY <1>8, <3>1, <3>2
  <2>2. \A i \in DOMAIN bodies' : bodies'[i] <= now'
    BY <1>1, <1>2, <1>5, <1>9, Numbers
  <2>3. index' \in [Names -> 0..Len(users')]
    <3>1. \A a \in Names : index[a] \in 0..Len(users')
      BY <1>3, <1>5, <1>8
    <3>2. u.at \in 0..Len(users')
      BY <1>8
    <3> QED
      BY <1>3, <1>4, <3>1, <3>2
  <2>4. ufree' \in Seq(DOMAIN users') /\ bfree' \in Seq(DOMAIN bodies')
    <3>1. u.left \in Seq(1..Len(users')) /\ Append(u.left, u.at) \in Seq(1..Len(users'))
      BY <1>5, <1>6, <1>8, PlacesStill
    <3>2. b.left \in Seq(1..Len(bodies')) /\ Append(b.left, b.at) \in Seq(1..Len(bodies'))
      BY <1>5, <1>6, <1>9, PlacesStill
    <3> QED
      BY <1>4, <1>8, <1>9, <3>1, <3>2
  <2>5. lastUniq' \in Nat
    BY <1>4, <1>5
  <2>6. \A i \in DOMAIN auth' : auth'[i].at \in DOMAIN users'
    BY <1>2, <1>5, <1>8 DEF AccountsInv, FilesInv
  <2> QED
    BY <1>8, <1>9, <2>1, <2>2, <2>3, <2>4, <2>5, <2>6 DEF FilesInv
<1>12. UsersCounted'
  <2>1. CASE index' = [index EXCEPT ![name] = u.at] /\ index[name] = 0 /\ count' = count + 1
    <3>1. u.at \in Nat \ {0}
      BY <1>6, <1>5
    <3> QED
      BY <1>3, <2>1, <3>1, NameAdded
  <2>2. CASE index' = index /\ count' = count
    BY <2>2 DEF UsersCounted, Registered, AccountsInv
  <2> QED
    BY <1>4, <2>1, <2>2
<1>13. GoesOn(p)
  <2>1. CASE End(p, 0)
    BY <1>1, <2>1, EndGoesOn
  <2>2. CASE Goto(p, IF loc[p].id # 0 THEN "endown" ELSE "lookup")
    <3> DEFINE pc == IF loc[p].id # 0 THEN "endown" ELSE "lookup"
    <3>1. pc \in {"endown", "lookup"} /\ pc \in Pc /\ pc # loc[p].pc /\ pc # "endother"
      BY <1>1 DEF Pc
    <3>2. loc' = [loc EXCEPT ![p] = [loc[p] EXCEPT !.pc = pc, !.since = now, !.id = loc[p].id]]
      BY <1>1, <2>2 DEF Goto, Memory
    <3> HIDE DEF pc
    <3>3. HasName([loc[p] EXCEPT !.pc = pc])
      BY <1>1, <3>1 DEF Memory, HasName, Good
    <3>4. ~(pc \in {"profile", "touch", "open", "stamp", "delete", "rewrite"})
      BY <3>1
    <3> QED
      BY <3>1, <3>2, <3>3, <3>4, GotoGoesOn
  <2> QED
    BY <1>4, <2>1, <2>2
<1> QED
  BY <1>2, <1>10, <1>11, <1>12, <1>13, FilesStep

LEMMA DeleteUserStep ==
    ASSUME AccountsInv, NEW p \in Procs, DeleteUser(p)
    PROVE  AccountsInv' /\ SessionEffect
<1> DEFINE name == Name(p)
           at == loc[p].at
           ui == users[at]
<1>1. /\ loc \in [Procs -> Memory] /\ loc[p] \in Memory /\ Good(loc[p])
      /\ loc[p].pc = "delete" /\ ~Over(p)
  BY Old DEF Good, DeleteUser, At, Over
<1>2. /\ UNCHANGED <<sessionVars, alone>> /\ now' = now /\ auth' = auth
      /\ SessionEffect
  BY DEF DeleteUser, sessionVars, SessionEffect
<1>3. name \in Names /\ index \in [Names -> 0..Len(users)]
  BY <1>1, NameKnown DEF AccountsInv, FilesInv
<1>4. at \in DOMAIN users /\ ui.full \in DOMAIN bodies
  <2>1. at \in DOMAIN users
    BY <1>1, Numbers DEF Good, Points, Memory
  <2> QED
    BY <2>1 DEF AccountsInv, FilesInv
<1>5. CASE ui.name # name
  <2>1. UNCHANGED profileVars /\ End(p, 0)
    BY <1>5 DEF DeleteUser
  <2> QED
    BY <1>1, <1>2, <2>1, EndGoesOn, SessionsStep
<1>6. CASE ui.name = name
  <2>1. /\ bfree' = Append(bfree, ui.full) /\ ufree' = Append(ufree, at)
        /\ users' = users /\ bodies' = bodies /\ lastUniq' = lastUniq
        /\ \/ End(p, 0) /\ index' = index /\ count' = count
           \/ /\ index[name] # 0 /\ index' = [index EXCEPT ![name] = 0]
              /\ count' = count - 1
              /\ End(p, 0) \/ Goto(p, "sweep")
    BY <1>6 DEF DeleteUser
  <2> HIDE DEF name, at, ui
  <2>2. FilesInv'
    <3>1. bfree' \in Seq(DOMAIN bodies) /\ ufree' \in Seq(DOMAIN users)
      BY <1>4, <2>1 DEF AccountsInv, FilesInv
    <3>2. index' \in [Names -> 0..Len(users)]
      <4>1. 0 \in 0..Len(users)
        BY Numbers
      <4>2. index' = index \/ index' = [index EXCEPT ![name] = 0]
        BY <2>1
      <4> QED
        BY <1>3, <4>1, <4>2
    <3> QED
      BY <1>2, <2>1, <3>1, <3>2 DEF AccountsInv, FilesInv
  <2>3. UsersCounted'
    <3>1. CASE index' = index /\ count' = count
      BY <3>1 DEF UsersCounted, Registered, AccountsInv
    <3>2. CASE /\ index[name] # 0 /\ index' = [index EXCEPT ![name] = 0]
               /\ count' = count - 1
      BY <1>3, <3>2, NameRemoved
    <3> QED
      BY <2>1, <3>1, <3>2
  <2>4. Growing
    BY <2>1, Numbers DEF Growing
  <2>5. GoesOn(p)
    <3>1. CASE End(p, 0)
      BY <1>1, <3>1, EndGoesOn
    <3>2. CASE Goto(p, "sweep")
      <4>1. loc' = [loc EXCEPT ![p] = [loc[p] EXCEPT !.pc = "sweep", !.since = now,
                                                     !.id = loc[p].id]]
        BY <1>1, <3>2 DEF Goto, Memory
      <4>2. HasName([loc[p] EXCEPT !.pc = "sweep"])
        BY <1>1 DEF Memory, HasName, Good
      <4>3. "sweep" \in Pc /\ loc[p].id \in {0, loc[p].id}
        BY DEF Pc
      <4> QED
        BY <1>1, <4>1, <4>2, <4>3, GotoGoesOn
    <3> QED
      BY <2>1, <3>1, <3>2
  <2> QED
    BY <1>2, <2>2, <2>3, <2>4, <2>5, FilesStep
<1> QED
  BY <1>5, <1>6

LEMMA ModifyUserStep ==
    ASSUME AccountsInv, NEW p \in Procs, ModifyUser(p)
    PROVE  AccountsInv' /\ SessionEffect
<1> DEFINE at == loc[p].at
           old == users[at]
<1>1. /\ loc[p] \in Memory /\ Good(loc[p]) /\ loc[p].pc = "rewrite" /\ ~Over(p)
      /\ loc[p].created <= now /\ loc[p].created \in Nat
  BY Old DEF Good, ModifyUser, At, Over, Memory, Points
<1>2. /\ UNCHANGED <<sessionVars, alone>> /\ SessionEffect
  BY DEF ModifyUser, SessionEffect
<1>3. GoesOn(p)
  BY <1>1, EndGoesOn DEF ModifyUser
<1>4. /\ at \in DOMAIN users /\ old \in User /\ old.name \in Names
      /\ old.full \in DOMAIN bodies
  <2>1. at \in DOMAIN users
    BY <1>1, Numbers DEF Good, Points, Memory
  <2> QED
    BY <2>1, Numbers DEF AccountsInv, FilesInv
<1>5. CASE old.name # Name(p)
  <2>1. UNCHANGED profileVars
    BY <1>5 DEF ModifyUser
  <2> QED
    BY <1>2, <1>3, <2>1, SessionsStep
<1>6. CASE old.name = Name(p)
  <2>1. PICK b \in Space(Append(bfree, old.full), Len(bodies)) :
           /\ bfree' = b.left /\ bodies' = Put(bodies, b.at, loc[p].created)
           /\ users' = [users EXCEPT ![at].full = b.at]
    BY <1>6 DEF ModifyUser
  <2>2. index' = index /\ ufree' = ufree /\ lastUniq' = lastUniq /\ count' = count
    BY <1>6 DEF ModifyUser
  <2>3. /\ users \in Seq(User) /\ bodies \in Seq(Nat) /\ Len(bodies) \in Nat
        /\ DOMAIN bodies = 1..Len(bodies) /\ bfree \in Seq(1..Len(bodies))
    BY Numbers DEF AccountsInv, FilesInv
  <2> HIDE DEF at
  <2>4. b.at \in 1..(Len(bodies) + 1) /\ b.left \in Seq(1..Len(bodies))
    <3>1. Append(bfree, old.full) \in Seq(1..Len(bodies))
      BY <1>4, <2>3
    <3> QED
      BY <2>1, <2>3, <3>1, SpaceFacts
  <2>5. /\ bodies' \in Seq(Nat) /\ Len(bodies) <= Len(bodies') /\ Len(bodies') \in Nat
        /\ b.at \in 1..Len(bodies') /\ DOMAIN bodies' = 1..Len(bodies')
        /\ \A i \in 1..Len(bodies') : bodies'[i] = IF i = b.at THEN loc[p].created ELSE bodies[i]
        /\ \A i \in 1..Len(bodies') : i # b.at => i \in 1..Len(bodies)
    <3>1. PICK k \in 1..(Len(bodies) + 1), x \in Nat : k = b.at /\ x = loc[p].created
      BY <1>1, <2>4
    <3>2. bodies' = Put(bodies, k, x)
      BY <2>1, <3>1
    <3>3. /\ Put(bodies, k, x) \in Seq(Nat) /\ Len(bodies) <= Len(Put(bodies, k, x))
          /\ Len(Put(bodies, k, x)) \in Nat /\ k \in 1..Len(Put(bodies, k, x))
          /\ \A i \in 1..Len(Put(bodies, k, x)) :
                Put(bodies, k, x)[i] = IF i = k THEN x ELSE bodies[i]
          /\ \A i \in 1..Len(Put(bodies, k, x)) : i # k => i \in 1..Len(bodies)
      BY <2>3, PutFacts, Zenon
    <3>4. /\ bodies' \in Seq(Nat) /\ Len(bodies) <= Len(bodies') /\ Len(bodies') \in Nat
          /\ k \in 1..Len(bodies')
          /\ \A i \in 1..Len(bodies') : bodies'[i] = IF i = k THEN x ELSE bodies[i]
          /\ \A i \in 1..Len(bodies') : i # k => i \in 1..Len(bodies)
      BY <3>2, <3>3, Zenon
    <3> QED
      BY <3>1, <3>4
  <2> DEFINE ui == [old EXCEPT !.full = b.at]
  <2>6. users' = [users EXCEPT ![at] = ui]
    BY <1>4, <2>1, <2>3
  <2>7. ui \in User /\ ui.name \in Names /\ ui.full \in DOMAIN bodies'
    <3>1. b.at \in Nat /\ b.at \in DOMAIN bodies'
      BY <2>3, <2>4, <2>5
    <3> HIDE DEF old
    <3>2. /\ ui = [name |-> old.name, uniq |-> old.uniq, full |-> b.at]
          /\ old.name \in Names \cup {NoName} /\ old.uniq \in Nat
      BY <1>4 DEF User
    <3> HIDE DEF ui
    <3> QED
      BY <1>4, <3>1, <3>2 DEF User
  <2>8. bfree' \in Seq(DOMAIN bodies')
    BY <2>1, <2>3, <2>4, <2>5, PlacesStill
  <2>9. \A i \in DOMAIN bodies' : bodies'[i] <= now
    BY <1>1, <2>3, <2>5, Numbers
  <2> HIDE DEF ui, old
  <2>10. FilesInv' /\ UsersCounted' /\ Growing
    BY <1>2, <1>4, <2>2, <2>5, <2>6, <2>7, <2>8, <2>9, WriteBack
  <2> QED
    BY <1>2, <1>3, <2>10, FilesStep
<1> QED
  BY <1>5, <1>6

LEMMA ClockStep ==
    ASSUME AccountsInv, Clock
    PROVE  AccountsInv' /\ SessionEffect
<1>1. SessionEffect /\ UNCHANGED <<profileVars, alone, loc>>
  BY DEF Clock, SessionEffect
<1>2. FilesInv' /\ UsersCounted' /\ Growing
  BY <1>1, FilesSame
<1>3. SessionInv' /\ issued <= issued' /\ now <= now' /\ OwnersKept
  BY <1>1, EffectSafe DEF AccountsInv
<1>4. ASSUME NEW q \in Procs
      PROVE  Points(loc[q])' /\ HasName(loc[q])' /\ OwnsOther(loc[q])'
  <2>1. PICK m \in Memory : m = loc[q] /\ Points(m) /\ HasName(m) /\ OwnsOther(m)
    BY DEF AccountsInv, MemoryInv
  <2>2. loc'[q] = m
    BY <1>1, <2>1
  <2>3. Points(m)' /\ OwnsOther(m)'
    BY <1>2, <1>3, <2>1, PointsStill, OwnsStill DEF Points
  <2> QED
    BY <2>1, <2>2, <2>3 DEF Points, HasName, OwnsOther
<1>5. MemoryInv'
  BY <1>1, <1>4 DEF AccountsInv, MemoryInv
<1> QED
  BY <1>1, <1>2, <1>3, <1>5 DEF AccountsInv

-----------------------------------------------------------------------------
(* The whole: the invariant, and what any step does to the sessions. *)

\* A request that has just come, or was never made.
LEMMA IdleGood ==
    ASSUME SessionInv, FilesInv, NEW pc \in {"start", "done"}, NEW rq \in Request,
           rq.op \in NamingOp => rq.name \in Names
    PROVE  Good(Idle(pc, rq))
<1> DEFINE m == Idle(pc, rq)
<1>1. m = [pc |-> pc, rq |-> rq, id |-> 0, uniq |-> 0, expire |-> 0,
           ui |-> NoUser, at |-> 0, created |-> 0, since |-> 0, gone |-> 0,
           other |-> 0, heir |-> 0]
  BY DEF Idle
<1> HIDE DEF m
<1>2. NoUser \in User /\ pc \in Pc
  BY DEF NoUser, User, Pc
<1>3. m \in Memory
  BY <1>1, <1>2 DEF Memory
<1>4. issued \in Nat /\ now \in Nat /\ Len(users) \in Nat
  BY DEF SessionInv, SessionTypeOK, FilesInv
<1>5. Points(m)
  BY <1>1, <1>4 DEF Points
<1>6. HasName(m) /\ OwnsOther(m)
  BY <1>1 DEF HasName, OwnsOther
<1> QED
  BY <1>3, <1>5, <1>6 DEF Good, m

LEMMA InitAccounts == Init => AccountsInv
<1> SUFFICES ASSUME Init PROVE AccountsInv
  OBVIOUS
<1>6. PICK plan \in Plans :
        /\ auth = plan.seed.auth /\ issued = plan.seed.issued /\ now = plan.seed.now
        /\ index = plan.seed.index /\ users = plan.seed.users /\ ufree = plan.seed.ufree
        /\ bodies = plan.seed.bodies /\ bfree = plan.seed.bfree
        /\ lastUniq = plan.seed.lastUniq /\ count = plan.seed.count
        /\ alone = plan.alone
        /\ loc = [p \in Procs |-> IF p \in DOMAIN plan.rq
                                   THEN Idle("start", plan.rq[p])
                                   ELSE Idle("done", EndedRequest)]
  BY DEF Init
<1>1. PICK seed : /\ seed = plan.seed
                  /\ auth = seed.auth /\ issued = seed.issued /\ now = seed.now
                  /\ index = seed.index /\ users = seed.users /\ ufree = seed.ufree
                  /\ bodies = seed.bodies /\ bfree = seed.bfree
                  /\ lastUniq = seed.lastUniq /\ count = seed.count
  BY <1>6
<1>2. Database(seed)
  BY <1>1, AccountsAssumption
<1>3. SessionInv
  BY <1>1, <1>2 DEF Database, SessionInv, SessionTypeOK, NumbersUnique
<1>4. FilesInv
  <2>1. /\ index \in [Names -> 0..Len(users)] /\ users \in Seq(User)
        /\ \A i \in DOMAIN users : users[i].name \in Names /\ users[i].full \in DOMAIN bodies
        /\ ufree \in Seq(DOMAIN users) /\ bfree \in Seq(DOMAIN bodies)
        /\ lastUniq \in Nat /\ \A i \in DOMAIN auth : auth[i].at \in DOMAIN users
    BY <1>1, <1>2 DEF Database
  <2>2. bodies \in Seq(0..now) /\ now \in Nat
    BY <1>1, <1>2 DEF Database
  <2>3. bodies \in Seq(Nat) /\ \A i \in DOMAIN bodies : bodies[i] <= now
    <3>1. \A i \in 1..Len(bodies) : bodies[i] \in Nat /\ bodies[i] <= now
      BY <2>2
    <3>2. bodies = [i \in 1..Len(bodies) |-> bodies[i]] /\ Len(bodies) \in Nat
          /\ DOMAIN bodies = 1..Len(bodies)
      BY <2>2
    <3> QED
      BY <3>1, <3>2, SeqDef
  <2> QED
    BY <2>1, <2>3 DEF FilesInv
<1>5. UsersCounted
  BY <1>1, <1>2 DEF Database, UsersCounted, Registered
<1>7. ASSUME NEW p \in Procs
      PROVE  Good(loc[p])
  <2>1. CASE p \in DOMAIN plan.rq
    <3>1. plan.rq[p] \in Request /\ (plan.rq[p].op \in NamingOp => plan.rq[p].name \in Names)
      BY <2>1, AccountsAssumption
    <3> QED
      BY <1>3, <1>4, <1>6, <2>1, <3>1, IdleGood
  <2>2. CASE p \notin DOMAIN plan.rq
    <3>1. EndedRequest \in Request /\ EndedRequest.op \notin NamingOp
      BY DEF EndedRequest, Request, Op, OwnOp, NamingOp
    <3> QED
      BY <1>3, <1>4, <1>6, <2>2, <3>1, IdleGood
  <2> QED
    BY <2>1, <2>2
<1>8. MemoryInv
  <2>1. loc \in [Procs -> Memory]
    BY <1>6, <1>7 DEF Good
  <2> QED
    BY <1>7, <2>1 DEF MemoryInv, Good
<1>9. alone \in BOOLEAN
  BY <1>6, AccountsAssumption
<1> QED
  BY <1>3, <1>4, <1>5, <1>8, <1>9 DEF AccountsInv

LEMMA AccountsStep ==
    ASSUME AccountsInv, [Next]_vars
    PROVE  AccountsInv' /\ SessionEffect
<1>1. CASE UNCHANGED vars
  <2>1. UNCHANGED <<sessionVars, profileVars, alone, loc>>
    BY <1>1 DEF vars
  <2>2. SessionEffect
    BY <2>1 DEF SessionEffect
  <2>3. FilesInv' /\ UsersCounted'
    BY <2>1, <2>2, FilesSame
  <2>4. SessionInv'
    BY <2>2, EffectSafe DEF AccountsInv
  <2>5. MemoryInv'
    BY <2>1 DEF AccountsInv, MemoryInv, Points, HasName, OwnsOther, profileVars, sessionVars
  <2> QED
    BY <2>1, <2>2, <2>3, <2>4, <2>5 DEF AccountsInv
<1>2. ASSUME NEW p \in Procs, Begin(p) \/ Serve(p)
      PROVE  AccountsInv' /\ SessionEffect
  <2>1. CASE Begin(p)
    BY <2>1, BeginStep
  <2>2. CASE Visit(p)
    BY <2>2, CheckSessionStep, ReadProfileStep, RejectSessionStep, TouchProfileStep DEF Visit
  <2>3. CASE Login(p)
    BY <2>3, EndOwnSessionStep, FindAccountStep, OpenSessionStep, StampLoginStep DEF Login
  <2>4. CASE ChangeAccount(p)
    BY <2>4, CheckNameStep, AddUserStep, FindRemovedStep, FindPlaceStep, DeleteUserStep,
       CloseSessionsStep, LoadOwnStep, ModifyUserStep DEF ChangeAccount
  <2>5. CASE PickSession(p) \/ CloseOther(p)
    BY <2>5, PickSessionStep, CloseOtherStep
  <2> QED
    BY <1>2, <2>1, <2>2, <2>3, <2>4, <2>5 DEF Serve
<1>3. CASE Clock
  BY <1>3, ClockStep
<1>4. CASE AllServed
  BY <1>1, <1>4 DEF AllServed
<1> QED
  BY <1>1, <1>2, <1>3, <1>4 DEF Next

THEOREM AccountsAlways == Spec => []AccountsInv
<1>1. AccountsInv /\ [Next]_vars => AccountsInv'
  BY AccountsStep
<1> QED
  BY <1>1, InitAccounts, PTL DEF Spec

\* All files and memories of all requests stay of their types, whatever is asked
\* for and however many ask: no request reads a record that is not there.
THEOREM AccountsTypes == Spec => []TypeOK
<1>1. AccountsInv => TypeOK
  <2> SUFFICES ASSUME AccountsInv PROVE TypeOK
    OBVIOUS
  <2>1. SessionTypeOK /\ index \in [Names -> 0..Len(users)] /\ users \in Seq(User)
        /\ bodies \in Seq(Nat) /\ lastUniq \in Nat /\ alone \in BOOLEAN
        /\ loc \in [Procs -> Memory]
    BY DEF AccountsInv, SessionInv, FilesInv, MemoryInv
  <2>2. ufree \in Seq(1..Len(users)) /\ bfree \in Seq(1..Len(bodies))
    BY Numbers DEF AccountsInv, FilesInv
  <2>3. count \in Nat
    <3>1. IsFiniteSet(Registered)
      BY AccountsAssumption, FS_Subset DEF Registered
    <3> QED
      BY <3>1, FS_CardinalityType DEF AccountsInv, UsersCounted
  <2>4. ASSUME NEW p \in Procs
        PROVE  loc[p] \in [pc : Pc, rq : Request, id : 0..issued, uniq : Nat,
                           expire : Nat, ui : User, at : 0..Len(users),
                           created : 0..now, since : 0..now, gone : Nat, other : 0..issued,
                           heir : 0..issued]
    <3>1. loc[p] \in Memory /\ Points(loc[p])
      BY Old DEF Good
    <3>2. /\ loc[p].id \in 0..issued /\ loc[p].other \in 0..issued
          /\ loc[p].heir \in 0..issued
          /\ loc[p].at \in 0..Len(users)
          /\ loc[p].created \in 0..now /\ loc[p].since \in 0..now
      BY <3>1, Numbers DEF Points, Memory
    <3> QED
      BY <3>1, <3>2 DEF Memory
  <2> QED
    BY <2>1, <2>2, <2>3, <2>4 DEF TypeOK
<1> QED
  BY <1>1, AccountsAlways, PTL

\* No step of any request, and no tick of the clock, opens a session again that
\* is over.
THEOREM RequestsReviveNone == Spec => OverForGood
<1>1. AccountsInv /\ [Next]_vars
      => [\A id \in 1..issued : ~IsOpen(id) => ~IsOpen(id)']_sessionVars
  BY AccountsStep, EffectSafe DEF AccountsInv
<1> QED
  BY <1>1, AccountsAlways, PTL DEF Spec, OverForGood

-----------------------------------------------------------------------------
(* Who ends a session. *)

\* p is the one that acts, and is entitled to end session e.
EndedBy(p, e) ==
    /\ loc'[p] # loc[p]
    /\ \/ loc[p].pc \in {"reject", "endown"} /\ loc[p].id = e.id
       \/ At(p, "sweep") /\ loc[p].gone = e.uniq
       \/ /\ At(p, "endother") /\ loc[p].other = e.id
          /\ loc[p].rq.op = "closeown" => loc[p].uniq = e.uniq

LEMMA Moved ==
    ASSUME AccountsInv, NEW p \in Procs, GoesOn(p)
    PROVE  loc'[p] # loc[p]
<1>1. loc \in [Procs -> Memory]
  BY Old
<1> QED
  BY <1>1 DEF GoesOn

\* The entry of an open session, when a step has left it in the file, is open.
LEMMA EndedOrNot ==
    ASSUME AccountsInv, [Next]_vars, NEW k \in DOMAIN auth, NEW e, e = auth[k],
           e.expire > now', ~IsOpen(e.id)'
    PROVE  \E p \in Procs : EndedBy(p, e)
<1>1. /\ auth \in Seq(Entry) /\ e \in Entry /\ now \in Nat \ {0}
      /\ DOMAIN auth = 1..Len(auth) /\ Len(auth) \in Nat
  BY DEF AccountsInv, SessionInv, SessionTypeOK
<1>2. ~(k \in DOMAIN auth' /\ auth'[k].id = e.id /\ auth'[k].expire > now')
  BY DEF IsOpen
<1>3. ~(k \in DOMAIN auth' /\ auth'[k] = e)
  BY <1>2
<1>4. ~UNCHANGED sessionVars
  BY <1>3 DEF sessionVars
<1>5. ASSUME NEW tn, NEW entries, CloseEntries(tn, entries)
      PROVE  k \in entries
  BY <1>3, <1>5 DEF CloseEntries
<1>6. ASSUME NEW p \in Procs, CheckSession(p) PROVE FALSE
  <2>1. PICK i \in DOMAIN auth : auth' = [auth EXCEPT ![i] = WithExpire(auth[i], now + TTL)] /\ now' = now
    BY <1>4, <1>6 DEF CheckSession, RenewEntry
  <2>2. k \in DOMAIN auth'
    BY <2>1
  <2>3. CASE i = k
    <3>1. auth'[k].id = e.id /\ auth'[k].expire = now + TTL
      BY <1>1, <2>1, <2>3 DEF WithExpire
    <3> QED
      BY <1>1, <1>2, <2>1, <2>2, <3>1, SessionsAssumption
  <2>4. CASE i # k
    BY <1>1, <1>3, <2>1, <2>2, <2>4
  <2> QED
    BY <2>3, <2>4
<1>7. ASSUME NEW p \in Procs, OpenSession(p) PROVE FALSE
  <2>1. now' = now
    BY <1>7 DEF OpenSession, OpenAuthSequence
  <2>1a. PICK tn \in loc[p].since..now : \E entry :
           \/ \E i \in DOMAIN auth : auth[i].expire < tn /\ auth' = [auth EXCEPT ![i] = entry]
           \/ auth' = Append(auth, entry)
    BY <1>7 DEF OpenSession, OpenAuthSequence, Reusable
  <2>2. PICK entry :
           \/ \E i \in DOMAIN auth : auth[i].expire < tn /\ auth' = [auth EXCEPT ![i] = entry]
           \/ auth' = Append(auth, entry)
    BY <2>1a
  <2>3. CASE \E i \in DOMAIN auth : auth[i].expire < tn /\ auth' = [auth EXCEPT ![i] = entry]
    <3>1. PICK i \in DOMAIN auth : auth[i].expire < tn /\ auth' = [auth EXCEPT ![i] = entry]
      BY <2>3
    <3>2. loc[p].since \in Nat
      BY Old DEF Memory, Good
    <3>3. auth[i].expire \in Nat /\ e.expire \in Nat /\ tn \in Nat /\ tn <= now
      BY <1>1, <3>2, Numbers
    <3>4. i # k
      BY <1>1, <2>1, <3>1, <3>3
    <3> QED
      BY <1>1, <1>3, <3>1, <3>4
  <2>4. CASE auth' = Append(auth, entry)
    BY <1>1, <1>3, <2>4
  <2> QED
    BY <2>2, <2>3, <2>4
<1>8. ASSUME NEW p \in Procs, RejectSession(p) \/ EndOwnSession(p) PROVE EndedBy(p, e)
  <2>1. PICK tn : CloseById(tn, loc[p].id)
    BY <1>8 DEF RejectSession, EndOwnSession
  <2>2. loc[p].id = e.id
    BY <1>5, <2>1 DEF CloseById
  <2>3. loc'[p] # loc[p]
    <3>1. CASE RejectSession(p)
      BY <3>1, HandleGoesOn, Moved DEF RejectSession, At
    <3>2. CASE EndOwnSession(p)
      <4>1. loc \in [Procs -> Memory] /\ loc[p].pc = "endown"
        BY <3>2, Old DEF EndOwnSession, At
      <4>2. CASE End(p, 0)
        BY <4>1, <4>2, EndGoesOn, Moved DEF Over, At
      <4>3. CASE loc' = [loc EXCEPT ![p].pc = "lookup", ![p].id = 0]
        <5>1. loc'[p].pc = "lookup"
          BY <4>1, <4>3 DEF Memory
        <5> QED
          BY <4>1, <5>1
      <4> QED
        BY <3>2, <4>2, <4>3 DEF EndOwnSession
    <3> QED
      BY <1>8, <3>1, <3>2
  <2> QED
    BY <1>8, <2>2, <2>3 DEF EndedBy, RejectSession, EndOwnSession, At
<1>9. ASSUME NEW p \in Procs, CloseSessions(p) PROVE EndedBy(p, e)
  <2>1. PICK tn : CloseByUser(tn, loc[p].gone)
    BY <1>9 DEF CloseSessions
  <2>2. e.uniq = loc[p].gone
    BY <1>5, <2>1 DEF CloseByUser
  <2>3. loc[p].gone \in Nat
    BY Old DEF Good, Memory
  <2>4. loc'[p] # loc[p]
    BY <1>9, <2>3, EndGoesOn, Moved DEF CloseSessions, Over, At
  <2> QED
    BY <1>9, <2>2, <2>4 DEF EndedBy, CloseSessions
<1>10. ASSUME NEW p \in Procs, CloseOther(p) PROVE EndedBy(p, e)
  <2>1. PICK tn : CloseById(tn, loc[p].other)
    BY <1>10 DEF CloseOther
  <2>2. e.id = loc[p].other
    BY <1>5, <2>1 DEF CloseById
  <2>3. loc[p].rq.op = "closeown" => loc[p].uniq = e.uniq
    BY <1>10, <2>2, Old DEF CloseOther, At, Good, OwnsOther
  <2>4. loc'[p] # loc[p]
    BY <1>10, EndGoesOn, Moved DEF CloseOther, Over, At
  <2> QED
    BY <1>10, <2>2, <2>3, <2>4 DEF EndedBy, CloseOther
<1>11. ~Clock
  BY <1>3 DEF Clock, Tick
<1>12. ~UNCHANGED vars
  BY <1>4 DEF vars, sessionVars
<1>13. PICK p \in Procs : Begin(p) \/ Serve(p)
  BY <1>11, <1>12 DEF Next, AllServed
<1>14. \/ CheckSession(p) \/ RejectSession(p) \/ EndOwnSession(p) \/ OpenSession(p)
       \/ CloseSessions(p) \/ CloseOther(p)
  BY <1>4, <1>13 DEF Begin, Serve, Visit, Login, ChangeAccount, ReadProfile, TouchProfile,
     FindAccount, StampLogin, CheckName, AddUser, FindRemoved, FindPlace, DeleteUser,
     LoadOwn, ModifyUser, PickSession
<1> QED
  BY <1>6, <1>7, <1>8, <1>9, <1>10, <1>14

\* For any number of requests: before its time a session is ended only by a
\* request that runs in it, one of its owner, the removal of its owner or the
\* superuser, and opening another never overwrites it.
THEOREM SessionsEndByRight == Spec => EndsByRight
<1>1. AccountsInv /\ [Next]_vars
      => [\A e \in ToSet(auth) :
             e.expire > now' /\ IsOpen(e.id) /\ ~IsOpen(e.id)' =>
                \E p \in Procs :
                   /\ loc'[p] # loc[p]
                   /\ \/ loc[p].pc \in {"reject", "endown"} /\ loc[p].id = e.id
                      \/ At(p, "sweep") /\ loc[p].gone = e.uniq
                      \/ /\ At(p, "endother") /\ loc[p].other = e.id
                         /\ loc[p].rq.op = "closeown" => loc[p].uniq = e.uniq]_vars
  <2> SUFFICES ASSUME AccountsInv, [Next]_vars, NEW e \in ToSet(auth),
                      e.expire > now', ~IsOpen(e.id)'
               PROVE  \E p \in Procs : EndedBy(p, e)
    BY DEF EndedBy
  <2>1. PICK k \in DOMAIN auth : auth[k] = e
    BY DEF ToSet
  <2> QED
    BY <2>1, EndedOrNot
<1> QED
  BY <1>1, AccountsAlways, PTL DEF Spec, EndsByRight
-----------------------------------------------------------------------------
(* Names, places and owners of sessions, where requests keep apart. *)
Removing == {"remove", "purge", "leave"}

\* Requests come one after the other; or none of those that are at work at once
\* changes an account and at most one removes one, if nobody registers.
Apart ==
    ~alone =>
        /\ \A p \in Procs : loc[p].rq.op # "modify"
        /\ \/ \A p \in Procs : loc[p].rq.op \notin Removing
           \/ /\ \A p \in Procs : loc[p].rq.op # "register"
              /\ \A p, q \in Procs :
                    loc[p].rq.op \in Removing /\ loc[q].rq.op \in Removing => p = q

Working(p) == loc[p].pc \notin {"start", "done"}
OneWorks == alone => \A p, q \in Procs : Working(p) /\ Working(q) => p = q

\* While somebody registers, places that are free may be filled.
Filling == ~alone /\ \E p \in Procs : loc[p].rq.op = "register"

Heirs == {loc[q].heir : q \in Procs}
Used(at) == \E name \in Registered : index[name] = at
Full(name) == users[index[name]].full
Date(at) == bodies[users[at].full]

NamesRight ==
    /\ \A name \in Registered : users[index[name]].name = name
    /\ \A a, b \in Registered : users[index[a]].uniq = users[index[b]].uniq => a = b
    /\ \A name \in Registered : users[index[name]].uniq <= lastUniq

\* PlacesAccounted, place by place.
PlacesRight ==
    /\ IsInjective(ufree) /\ IsInjective(bfree)
    /\ \A a, b \in Registered : index[a] = index[b] \/ Full(a) = Full(b) => a = b
    /\ \A a \in Registered : index[a] \notin ToSet(ufree) /\ Full(a) \notin ToSet(bfree)
    /\ \A x \in DOMAIN users : x \in ToSet(ufree) \/ Used(x)
    /\ \A x \in DOMAIN bodies : x \in ToSet(bfree) \/ \E a \in Registered : Full(a) = x

\* What a request is doing there, it was asked for.
Role(m) ==
    /\ m.pc \in {"exists", "add"} => m.rq.op = "register"
    /\ m.pc \in {"own", "rewrite"} => m.rq.op = "modify"
    /\ m.pc \in {"find", "sweep"} => m.rq.op \in {"remove", "leave"}
    /\ m.pc = "delete" => m.rq.op \in Removing
    /\ m.pc = "where" => m.rq.op \in Removing \cup {"modify"}
    /\ m.pc \in {"lookup", "open", "stamp"} => m.rq.op \in {"login", "register"}
    /\ m.pc = "endown" => m.rq.op \in {"login", "register", "logout"}
    /\ m.pc \in {"start", "check", "profile"} => m.heir = 0
    /\ m.pc \in {"check", "profile", "reject", "touch"} => m.id # 0

\* A record at hand is the one in the file, a place at hand that of the name.
RecordRight(p) ==
    LET m == loc[p]
    IN  /\ m.pc \in {"touch", "open", "stamp"} => users[m.at] = m.ui
        /\ m.pc \in {"delete", "rewrite"} => index[Name(p)] = m.at
        /\ Filling /\ m.pc \in {"profile", "touch", "open", "stamp"} => Used(m.at)
        /\ m.pc \in {"where", "rewrite"} /\ m.rq.op = "modify" /\ index[Name(p)] # 0
              => m.created = Date(index[Name(p)])

\* The session p has in hand is of the account at its place, or of one that
\* was there before and the date of this one gives that away, or it is an heir.
SessionRight(p) ==
    LET m == loc[p]
    IN  /\ m.pc = "profile" /\ ~alone => users[m.at].uniq = m.uniq
        /\ m.pc = "profile" /\ alone =>
              /\ \A i \in DOMAIN auth :
                    auth[i].id = m.id => auth[i].at = m.at /\ auth[i].uniq = m.uniq
              /\ Used(m.at) => \/ users[m.at].uniq = m.uniq
                               \/ m.id \in Heirs
                               \/ m.expire <= Date(m.at) + TTL
        /\ m.pc = "touch" /\ (~alone \/ Used(m.at)) =>
              m.ui.uniq = m.uniq \/ m.id \in Heirs
        /\ m.pc = "add" /\ alone =>
              \A i \in DOMAIN auth : auth[i].expire <= m.created + TTL

\* So is every session in the file, but that which a request is looking at.
EntryRight(e) ==
    /\ e.expire <= now + TTL
    /\ Filling => Used(e.at)
    /\ ~alone => users[e.at].uniq = e.uniq
    /\ alone /\ e.expire > now /\ Used(e.at) =>
          \/ users[e.at].uniq = e.uniq
          \/ e.id \in Heirs
          \/ e.expire <= Date(e.at) + TTL
          \/ \E p \in Procs : loc[p].pc \in {"profile", "reject"} /\ loc[p].id = e.id

FilesRight == NamesRight /\ PlacesRight
HandRight(p) == Role(loc[p]) /\ RecordRight(p) /\ SessionRight(p)
SessionsRight == \A i \in DOMAIN auth : EntryRight(auth[i])

RightInv ==
    /\ Apart /\ OneWorks /\ FilesRight /\ SessionsRight
    /\ \A p \in Procs : HandRight(p)

\* A step of p, which is at work or was the only one that waited.
Steps(p) ==
    /\ alone' = alone
    /\ \A q \in Procs \ {p} : loc'[q] = loc[q]
    /\ alone => \A q \in Procs \ {p} : ~Working(q)
    /\ loc'[p].rq = loc[p].rq \/ loc'[p].rq.op = "visit"
    /\ loc'[p].heir = loc[p].heir \/ loc[p].heir = 0

LEMMA StepsStill ==
    ASSUME RightInv, NEW p \in Procs, Steps(p)
    PROVE  /\ Apart' /\ OneWorks' /\ (Filling' => Filling)
           /\ \A id \in Nat \ {0} : id \in Heirs => id \in Heirs'
<1>1. \A q \in Procs : loc'[q].rq = loc[q].rq \/ loc'[q].rq.op = "visit"
  BY DEF Steps
<1>2. alone' = alone
  BY DEF Steps
<1>3. Apart'
  BY <1>1, <1>2 DEF RightInv, Apart, Removing
<1>4. OneWorks'
  BY <1>2 DEF Steps, OneWorks, Working
<1>5. Filling' => Filling
  BY <1>1, <1>2 DEF Filling
<1>6. ASSUME NEW id \in Nat \ {0}, id \in Heirs PROVE id \in Heirs'
  <2>1. PICK q \in Procs : loc[q].heir = id
    BY <1>6 DEF Heirs
  <2>2. loc'[q].heir = id
    BY <2>1 DEF Steps
  <2>3. QED
    BY <2>2 DEF Heirs
<1>7. QED
  BY <1>3, <1>4, <1>5, <1>6

\* What the files must keep for the requests that do not move.
Spares(p) ==
    ~alone => \A q \in Procs \ {p} :
        LET m == loc[q]
        IN  /\ m.pc \in {"profile", "touch", "open", "stamp"} =>
                  /\ users'[m.at] = users[m.at]
                  /\ Filling /\ Used(m.at) => Used(m.at)'
            /\ m.pc = "delete" => index'[Name(q)] = index[Name(q)]

LEMMA OthersRight ==
    ASSUME AccountsInv, RightInv, NEW p \in Procs, Steps(p), Spares(p), NEW q \in Procs \ {p}
    PROVE  HandRight(q)'
<1>1. /\ loc'[q] = loc[q] /\ alone' = alone /\ Role(loc[q]) /\ RecordRight(q)
      /\ SessionRight(q) /\ Name(q)' = Name(q)
  BY DEF Steps, RightInv, HandRight, Name
<1>2. Role(loc[q])'
  BY <1>1 DEF Role
<1>3. CASE alone
  <2>1. loc[q].pc \in {"start", "done"}
    BY <1>3 DEF Steps, Working
  <2>2. QED
    BY <1>1, <1>2, <2>1 DEF HandRight, RecordRight, SessionRight
<1>4. CASE ~alone
  <2>1. loc[q].rq.op # "modify" /\ loc[q].pc # "rewrite"
    BY <1>1, <1>4 DEF RightInv, Apart, Role
  <2>2. loc[q].id \in Nat /\ (loc[q].pc = "touch" => loc[q].id # 0)
    BY <1>1, Old DEF Good, Memory, Role
  <2>3. RecordRight(q)'
    BY <1>1, <1>4, <2>1, StepsStill DEF RecordRight, Spares
  <2>4. loc[q].pc = "touch" => loc[q].ui.uniq = loc[q].uniq \/ loc[q].id \in Heirs'
    BY <1>1, <1>4, <2>2, StepsStill DEF SessionRight
  <2>5. SessionRight(q)'
    BY <1>1, <1>4, <2>4 DEF SessionRight, Spares
  <2>6. QED
    BY <1>2, <2>3, <2>5 DEF HandRight
<1>5. QED
  BY <1>3, <1>4

LEMMA RightStep ==
    ASSUME AccountsInv, RightInv, NEW p \in Procs, Steps(p), Spares(p),
           HandRight(p)', FilesRight', SessionsRight'
    PROVE  RightInv'
<1>1. \A q \in Procs : HandRight(q)'
  BY OthersRight
<1>2. QED
  BY <1>1, StepsStill DEF RightInv

\* What a step leaves in the memory of p, which it is the turn of.
Turn(p) == alone => \A q \in Procs \ {p} : ~Working(q)
Continues(p) ==
    /\ \A q \in Procs \ {p} : loc'[q] = loc[q]
    /\ loc'[p].rq = loc[p].rq \/ loc'[p].rq.op = "visit"
    /\ loc'[p].heir = loc[p].heir
    /\ HandRight(p)'

LEMMA TurnOf ==
    ASSUME RightInv, NEW p \in Procs, Working(p)
    PROVE  Turn(p)
  BY DEF RightInv, OneWorks, Turn

LEMMA EndRight ==
    ASSUME AccountsInv, NEW p \in Procs, NEW gone \in Nat, End(p, gone)
    PROVE  Continues(p) /\ loc'[p].pc = "done" /\ loc'[p].gone = gone
<1>1. PICK m \in Memory :
         /\ m = [pc |-> "done", rq |-> EndedRequest, id |-> 0, uniq |-> 0, expire |-> 0,
                 ui |-> NoUser, at |-> 0, created |-> 0, since |-> 0, gone |-> gone,
                 other |-> 0, heir |-> loc[p].heir]
         /\ loc' = [loc EXCEPT ![p] = m]
  BY EndMakes
<1>2. m.pc = "done" /\ m.rq.op = "visit" /\ m.heir = loc[p].heir /\ m.gone = gone
  BY <1>1 DEF EndedRequest
<1>3. loc'[p] = m /\ \A q \in Procs \ {p} : loc'[q] = loc[q]
  BY <1>1, Old
<1>4. HandRight(p)'
  BY <1>2, <1>3 DEF HandRight, Role, RecordRight, SessionRight
<1> QED
  BY <1>2, <1>3, <1>4 DEF Continues

LEMMA HandleRight ==
    ASSUME AccountsInv, RightInv, NEW p \in Procs, NEW logged \in BOOLEAN, Handle(p, logged)
    PROVE  Continues(p)
<1> DEFINE pc == Handler(loc[p].rq.op, logged)
           id == IF logged THEN loc[p].id ELSE 0
<1>1. loc \in [Procs -> Memory] /\ loc[p] \in Memory
  BY Old DEF Good
<1>2. loc[p].rq.op \in Op
  BY <1>1 DEF Memory, Request
<1>3. CASE pc = "done"
  BY <1>3, EndRight DEF Handle
<1>4. CASE pc # "done"
  <2>1. /\ pc \in {"endown", "lookup", "exists", "find", "where", "pick", "own"}
        /\ pc = "lookup" => loc[p].rq.op = "login"
        /\ pc = "endown" => loc[p].rq.op \in {"login", "logout"}
        /\ pc = "exists" => loc[p].rq.op = "register"
        /\ pc = "where" => loc[p].rq.op = "purge"
        /\ pc = "find" => loc[p].rq.op \in {"remove", "leave"}
        /\ pc = "own" => loc[p].rq.op = "modify"
    <3>1. CASE loc[p].rq.op \in OwnOp
      BY <1>4, <3>1 DEF Handler, OwnHandler, OwnOp
    <3>2. CASE loc[p].rq.op \notin OwnOp
      BY <1>2, <1>4, <3>2 DEF Handler, Op, SuperOp
    <3> QED
      BY <3>1, <3>2
  <2>2. PICK m : m = [loc[p] EXCEPT !.pc = pc, !.since = now, !.id = id]
    OBVIOUS
  <2>3. loc' = [loc EXCEPT ![p] = m]
    BY <1>1, <1>4, <2>2 DEF Handle, Memory
  <2>4. m.pc = pc /\ m.rq = loc[p].rq /\ m.heir = loc[p].heir
    BY <1>1, <2>2 DEF Memory
  <2> HIDE DEF pc, id
  <2>5. loc'[p] = m /\ \A q \in Procs \ {p} : loc'[q] = loc[q]
    BY <1>1, <2>3
  <2>6. Role(m)
    BY <2>1, <2>4 DEF Role, Removing
  <2>7. HandRight(p)'
    BY <2>1, <2>4, <2>5, <2>6 DEF HandRight, Role, RecordRight, SessionRight
  <2> QED
    BY <2>4, <2>5, <2>7 DEF Continues
<1> QED
  BY <1>3, <1>4

LEMMA ContinuesSteps ==
    ASSUME NEW p \in Procs, Continues(p), Turn(p), alone' = alone
    PROVE  Steps(p) /\ HandRight(p)'
  BY DEF Continues, Steps, Turn

\* An entry that a step does not touch.
LEMMA EntryKept ==
    ASSUME AccountsInv, RightInv, NEW p \in Procs, Steps(p),
           UNCHANGED <<profileVars, now>>,
           NEW i \in DOMAIN auth, NEW e, e = auth[i],
           loc[p].pc \notin {"profile", "reject"} \/ e.id # loc[p].id
    PROVE  EntryRight(e)'
<1>1. EntryRight(e) /\ alone' = alone
  BY DEF RightInv, SessionsRight, Steps
<1>2. /\ users' = users /\ bodies' = bodies /\ now' = now
      /\ \A at : Used(at)' = Used(at) /\ Date(at)' = Date(at)
  BY DEF profileVars, Used, Date, Registered
<1>3. Filling' => Filling
  BY StepsStill
<1>4. e.id \in Nat \ {0} /\ (e.id \in Heirs => e.id \in Heirs')
  <2>1. e.id \in Nat \ {0}
    BY Numbers
  <2> QED
    BY <2>1, StepsStill
<1>5. ASSUME alone, NEW q \in Procs, loc[q].pc \in {"profile", "reject"}, loc[q].id = e.id
      PROVE  FALSE
  <2>1. q # p
    BY <1>5
  <2> QED
    BY <1>5, <2>1 DEF Steps, Working
<1>6. /\ e.expire <= now + TTL
      /\ Filling => Used(e.at)
      /\ ~alone => users[e.at].uniq = e.uniq
  BY <1>1 DEF EntryRight
<1>7. alone /\ e.expire > now /\ Used(e.at) =>
          \/ users[e.at].uniq = e.uniq
          \/ e.id \in Heirs
          \/ e.expire <= Date(e.at) + TTL
  BY <1>1, <1>5 DEF EntryRight
<1>8. /\ e.expire <= now' + TTL
      /\ Filling' => Used(e.at)'
      /\ ~alone' => users'[e.at].uniq = e.uniq
  BY <1>1, <1>2, <1>3, <1>6
<1>9. alone' /\ e.expire > now' /\ Used(e.at)' =>
          \/ users'[e.at].uniq = e.uniq
          \/ e.id \in Heirs'
          \/ e.expire <= Date(e.at)' + TTL
  BY <1>1, <1>2, <1>4, <1>7
<1> QED
  BY <1>8, <1>9 DEF EntryRight

LEMMA FilesStayRight ==
    ASSUME RightInv, UNCHANGED profileVars
    PROVE  FilesRight'
<1>1. /\ index' = index /\ users' = users /\ ufree' = ufree /\ bodies' = bodies
      /\ bfree' = bfree /\ lastUniq' = lastUniq
  BY DEF profileVars
<1>2. Registered' = Registered
  BY <1>1 DEF Registered
<1>3. NamesRight'
  BY <1>1, <1>2 DEF RightInv, FilesRight, NamesRight
<1>4. PlacesRight'
  BY <1>1, <1>2 DEF RightInv, FilesRight, PlacesRight, Full, Used
<1> QED
  BY <1>3, <1>4 DEF FilesRight

\* A step that leaves the profile database alone.
LEMMA SessionsMove ==
    ASSUME AccountsInv, RightInv, UNCHANGED profileVars, NEW p \in Procs,
           Steps(p), HandRight(p)', SessionsRight'
    PROVE  RightInv'
<1>1. FilesRight'
  BY FilesStayRight
<1>2. users' = users /\ index' = index /\ Registered' = Registered
  BY DEF profileVars, Registered
<1>3. Spares(p)
  BY <1>2 DEF Spares, Used, Steps
<1> QED
  BY <1>1, <1>3, RightStep

\* A step that leaves the files alone.
LEMMA MemoryMoves ==
    ASSUME AccountsInv, RightInv, UNCHANGED <<sessionVars, profileVars, alone>>,
           NEW p \in Procs, Turn(p), Continues(p), loc[p].pc \notin {"profile", "reject"}
    PROVE  RightInv'
<1>1. Steps(p) /\ HandRight(p)'
  BY ContinuesSteps
<1>2. auth' = auth /\ UNCHANGED <<profileVars, now>>
  BY DEF sessionVars
<1>3. ASSUME NEW i \in DOMAIN auth PROVE EntryRight(auth[i])'
  <2>1. PICK e : e = auth[i]
    OBVIOUS
  <2>2. EntryRight(e)'
    BY <1>1, <1>2, <2>1, EntryKept
  <2>3. auth'[i] = e
    BY <1>2, <2>1
  <2> QED
    BY <2>2, <1>2, <2>3 DEF EntryRight
<1>4. SessionsRight'
  BY <1>2, <1>3 DEF SessionsRight, EntryRight
<1> QED
  BY <1>1, <1>2, <1>4, SessionsMove

-----------------------------------------------------------------------------
(* The steps that write to none of the files. *)

LEMMA HasTurn ==
    ASSUME AccountsInv, RightInv, NEW p \in Procs, loc[p].pc \notin {"start", "done"}
    PROVE  /\ Turn(p) /\ HandRight(p) /\ Role(loc[p])
           /\ loc \in [Procs -> Memory] /\ loc[p] \in Memory
<1>1. Turn(p)
  BY TurnOf DEF Working
<1>2. HandRight(p) /\ Role(loc[p])
  BY DEF RightInv, HandRight
<1> QED
  BY <1>1, <1>2, Old DEF Good

\* The request goes on with memory m, on the same errand.
LEMMA SameErrand ==
    ASSUME AccountsInv, NEW p \in Procs, NEW m \in Memory, loc' = [loc EXCEPT ![p] = m],
           m.rq = loc[p].rq, m.heir = loc[p].heir, HandRight(p)'
    PROVE  Continues(p) /\ loc'[p] = m
<1>1. loc'[p] = m /\ \A q \in Procs \ {p} : loc'[q] = loc[q]
  BY Old
<1> QED
  BY <1>1 DEF Continues

LEMMA BeginRight ==
    ASSUME AccountsInv, RightInv, NEW p \in Procs, Begin(p)
    PROVE  RightInv'
<1>1. UNCHANGED <<sessionVars, profileVars, alone>> /\ loc[p].pc = "start" /\ Turn(p)
  BY DEF Begin, At, Over, Turn, Working
<1>2. Continues(p)
  <2>1. CASE Handle(p, FALSE)
    BY <2>1, HandleRight
  <2>2. ASSUME NEW id \in 1..issued, loc' = [loc EXCEPT ![p].pc = "check", ![p].id = id]
        PROVE  Continues(p)
    <3> DEFINE m == [loc[p] EXCEPT !.pc = "check", !.id = id]
    <3>1. loc[p] \in Memory /\ Role(loc[p]) /\ id \in Nat \ {0} /\ "check" \in Pc
      BY Old, Numbers DEF Good, RightInv, HandRight, Pc
    <3>2. /\ m \in Memory /\ m.pc = "check" /\ m.id = id /\ m.heir = loc[p].heir
          /\ m.rq = loc[p].rq
      BY <3>1 DEF Memory
    <3>3. loc' = [loc EXCEPT ![p] = m]
      BY <2>2, <3>1 DEF Memory
    <3> HIDE DEF m
    <3>4. loc'[p] = m
      BY <3>3, Old
    <3>5. HandRight(p)'
      BY <1>1, <3>1, <3>2, <3>4 DEF HandRight, Role, RecordRight, SessionRight
    <3> QED
      BY <3>2, <3>3, <3>5, SameErrand
  <2> QED
    BY <2>1, <2>2 DEF Begin
<1> QED
  BY <1>1, <1>2, MemoryMoves

LEMMA FindAccountRight ==
    ASSUME AccountsInv, RightInv, NEW p \in Procs, FindAccount(p)
    PROVE  RightInv'
<1> DEFINE at == index[Name(p)]
           m == [loc[p] EXCEPT !.pc = "open", !.at = at, !.ui = users[at], !.since = now]
<1>1. UNCHANGED <<sessionVars, profileVars, alone>> /\ loc[p].pc = "lookup"
  BY DEF FindAccount, At
<1>2. Turn(p) /\ Role(loc[p]) /\ loc[p] \in Memory
  BY <1>1, HasTurn
<1>3. CASE Known(Name(p))
  <2>1. at \in DOMAIN users /\ at \in Nat /\ Name(p) \in Names /\ at # 0
    BY <1>1, <1>3, NameKnown, Numbers DEF Known
  <2>2. users[at] \in User /\ now \in Nat /\ "open" \in Pc
    BY <2>1, Numbers DEF Pc
  <2>3. loc' = [loc EXCEPT ![p] = m]
    BY <1>2, <1>3 DEF FindAccount, Memory
  <2>4. PICK k : k = at
    OBVIOUS
  <2> HIDE DEF at
  <2>5. /\ m \in Memory /\ m.pc = "open" /\ m.at = k /\ m.ui = users[k]
        /\ m.rq = loc[p].rq /\ m.heir = loc[p].heir
    BY <1>2, <2>1, <2>2, <2>4 DEF Memory
  <2> HIDE DEF m
  <2>6. loc'[p] = m
    BY <2>3, Old
  <2>7. users' = users /\ Used(k)'
    <3>1. index' = index /\ users' = users
      BY <1>1 DEF profileVars
    <3>2. Name(p) \in Registered' /\ index'[Name(p)] = k
      BY <2>1, <2>4, <3>1 DEF Registered, at
    <3> QED
      BY <3>1, <3>2 DEF Used
  <2>8. HandRight(p)'
    BY <1>1, <1>2, <2>5, <2>6, <2>7 DEF HandRight, Role, RecordRight, SessionRight
  <2>9. Continues(p)
    BY <2>3, <2>5, <2>8, SameErrand
  <2> QED
    BY <1>1, <1>2, <2>9, MemoryMoves
<1>4. CASE ~Known(Name(p))
  BY <1>1, <1>2, <1>4, EndRight, MemoryMoves DEF FindAccount
<1> QED
  BY <1>3, <1>4

LEMMA CheckNameRight ==
    ASSUME AccountsInv, RightInv, NEW p \in Procs, CheckName(p)
    PROVE  RightInv'
<1> DEFINE m == [loc[p] EXCEPT !.pc = "add", !.created = now]
<1>1. UNCHANGED <<sessionVars, profileVars, alone>> /\ loc[p].pc = "exists"
  BY DEF CheckName, At
<1>2. Turn(p) /\ Role(loc[p]) /\ loc[p] \in Memory /\ now \in Nat /\ "add" \in Pc
  BY <1>1, HasTurn, Numbers DEF Pc
<1>3. CASE loc' = [loc EXCEPT ![p] = m]
  <2>1. /\ m \in Memory /\ m.pc = "add" /\ m.created = now
        /\ m.rq = loc[p].rq /\ m.heir = loc[p].heir
    BY <1>2 DEF Memory
  <2> HIDE DEF m
  <2>2. loc'[p] = m
    BY <1>3, Old
  <2>3. \A i \in DOMAIN auth' : auth'[i].expire <= now + TTL
    BY <1>1 DEF sessionVars, RightInv, SessionsRight, EntryRight
  <2>4. HandRight(p)'
    BY <1>1, <1>2, <2>1, <2>2, <2>3 DEF HandRight, Role, RecordRight, SessionRight
  <2>5. Continues(p)
    BY <1>3, <2>1, <2>4, SameErrand
  <2> QED
    BY <1>1, <1>2, <2>5, MemoryMoves
<1>4. End(p, 0) \/ loc' = [loc EXCEPT ![p] = m]
  BY <1>2 DEF CheckName, Memory
<1> HIDE DEF m
<1>5. CASE End(p, 0)
  BY <1>1, <1>2, <1>5, EndRight, MemoryMoves
<1> QED
  BY <1>3, <1>4, <1>5

LEMMA FindRemovedRight ==
    ASSUME AccountsInv, RightInv, NEW p \in Procs, FindRemoved(p)
    PROVE  RightInv'
<1> DEFINE uniq == users[index[Name(p)]].uniq
           m == [loc[p] EXCEPT !.pc = "where", !.gone = uniq]
<1>1. UNCHANGED <<sessionVars, profileVars, alone>> /\ loc[p].pc = "find"
  BY DEF FindRemoved, At
<1>2. Turn(p) /\ Role(loc[p]) /\ loc[p] \in Memory
  BY <1>1, HasTurn
<1>3. CASE Known(Name(p))
  <2>1. uniq \in Nat
    BY <1>1, <1>3, NameKnown, Numbers DEF Known, User
  <2>2. loc' = [loc EXCEPT ![p] = m]
    BY <1>2, <1>3 DEF FindRemoved, Memory
  <2> HIDE DEF uniq
  <2>3. m \in Memory /\ m.pc = "where" /\ m.rq = loc[p].rq /\ m.heir = loc[p].heir
    BY <1>2, <2>1 DEF Memory, Pc
  <2> HIDE DEF m
  <2>4. loc'[p] = m
    BY <2>2, Old
  <2>5. m.rq.op \in {"remove", "leave"} /\ m.rq.op # "modify"
    BY <1>1, <1>2, <2>3 DEF Role
  <2>6. HandRight(p)'
    BY <2>3, <2>4, <2>5 DEF HandRight, Role, RecordRight, SessionRight, Removing
  <2>7. Continues(p)
    BY <2>2, <2>3, <2>6, SameErrand
  <2> QED
    BY <1>1, <1>2, <2>7, MemoryMoves
<1>4. CASE ~Known(Name(p))
  BY <1>1, <1>2, <1>4, EndRight, MemoryMoves DEF FindRemoved
<1> QED
  BY <1>3, <1>4

LEMMA FindPlaceRight ==
    ASSUME AccountsInv, RightInv, NEW p \in Procs, FindPlace(p)
    PROVE  RightInv'
<1> DEFINE at == index[Name(p)]
           pc == IF loc[p].rq.op = "modify" THEN "rewrite" ELSE "delete"
           m == [loc[p] EXCEPT !.at = at, !.pc = pc]
<1>1. UNCHANGED <<sessionVars, profileVars, alone>> /\ loc[p].pc = "where"
  BY DEF FindPlace, At
<1>2. Turn(p) /\ HandRight(p) /\ Role(loc[p]) /\ loc[p] \in Memory
  BY <1>1, HasTurn
<1>3. CASE at # 0
  <2>1. at \in Nat
    BY <1>1, <1>3, NameKnown, Numbers
  <2>2. loc' = [loc EXCEPT ![p] = m]
    BY <1>2, <1>3 DEF FindPlace, Memory
  <2>3. pc \in {"rewrite", "delete"} /\ pc \in Pc /\ (pc = "rewrite" <=> loc[p].rq.op = "modify")
    BY DEF Pc
  <2> HIDE DEF pc
  <2>4. /\ m \in Memory /\ m.pc = pc /\ m.at = at /\ m.rq = loc[p].rq
        /\ m.heir = loc[p].heir /\ m.ui = loc[p].ui /\ m.created = loc[p].created
    BY <1>2, <2>1, <2>3 DEF Memory
  <2> HIDE DEF m
  <2>5. loc'[p] = m
    BY <2>2, Old
  <2>6. Name(p)' = Name(p)
    BY <2>4, <2>5 DEF Name
  <2>7. /\ index' = index /\ users' = users /\ bodies' = bodies
        /\ \A x : Date(x)' = Date(x)
    BY <1>1 DEF profileVars, Date
  <2>8. Role(m)
    BY <1>1, <1>2, <2>3, <2>4 DEF Role
  <2>9. m.pc = "rewrite" => m.created = Date(index[Name(p)])
    BY <1>1, <1>2, <1>3, <2>3, <2>4 DEF HandRight, RecordRight
  <2>10. RecordRight(p)'
    BY <2>3, <2>4, <2>5, <2>6, <2>7, <2>9 DEF RecordRight
  <2>11. HandRight(p)'
    BY <2>3, <2>4, <2>5, <2>8, <2>10 DEF HandRight, Role, SessionRight
  <2>12. Continues(p)
    BY <2>2, <2>4, <2>11, SameErrand
  <2> QED
    BY <1>1, <1>2, <2>12, MemoryMoves
<1>4. CASE at = 0
  BY <1>1, <1>2, <1>4, EndRight, MemoryMoves DEF FindPlace
<1> QED
  BY <1>3, <1>4

LEMMA LoadOwnRight ==
    ASSUME AccountsInv, RightInv, NEW p \in Procs, LoadOwn(p)
    PROVE  RightInv'
<1>1. UNCHANGED <<sessionVars, profileVars, alone>> /\ loc[p].pc = "own"
  BY DEF LoadOwn, At
<1>2. Turn(p) /\ Role(loc[p]) /\ loc[p] \in Memory /\ now \in Nat
  BY <1>1, HasTurn, Numbers
<1>3. PICK date : /\ date \in IF Known(Name(p)) THEN {bodies[users[index[Name(p)]].full]}
                                                ELSE 0..now
                  /\ loc' = [loc EXCEPT ![p].pc = "where", ![p].created = date]
  BY DEF LoadOwn
<1>4. Name(p) \in Names /\ (index[Name(p)] # 0 => Known(Name(p)))
  <2>1. Name(p) \in Names
    BY <1>1, NameKnown
  <2> QED
    BY <2>1 DEF Known, RightInv, FilesRight, NamesRight, Registered
<1>5. index[Name(p)] # 0 => date = Date(index[Name(p)])
  BY <1>3, <1>4 DEF Date
<1>6. date \in Nat
  <2>1. CASE Known(Name(p))
    <3>1. index[Name(p)] \in DOMAIN users
      BY <1>1, <2>1, NameKnown DEF Known
    <3>2. users[index[Name(p)]].full \in DOMAIN bodies
      BY <3>1 DEF AccountsInv, FilesInv
    <3> QED
      BY <1>3, <2>1, <3>2, Numbers
  <2>2. CASE ~Known(Name(p))
    BY <1>2, <1>3, <2>2
  <2> QED
    BY <2>1, <2>2
<1> DEFINE m == [loc[p] EXCEPT !.pc = "where", !.created = date]
<1>7. loc' = [loc EXCEPT ![p] = m]
  BY <1>2, <1>3 DEF Memory
<1>8. /\ m \in Memory /\ m.pc = "where" /\ m.rq = loc[p].rq /\ m.heir = loc[p].heir
      /\ m.created = date /\ m.ui = loc[p].ui
  BY <1>2, <1>6 DEF Memory, Pc
<1> HIDE DEF m
<1>9. loc'[p] = m
  BY <1>7, Old
<1>10. Name(p)' = Name(p) /\ index' = index /\ \A x : Date(x)' = Date(x)
  BY <1>1, <1>8, <1>9 DEF Name, profileVars, Date
<1>11. m.rq.op = "modify"
  BY <1>1, <1>2, <1>8 DEF Role
<1>12. RecordRight(p)'
  BY <1>5, <1>8, <1>9, <1>10 DEF RecordRight
<1>13. HandRight(p)'
  BY <1>8, <1>9, <1>11, <1>12 DEF HandRight, Role, SessionRight
<1>14. Continues(p)
  BY <1>7, <1>8, <1>13, SameErrand
<1> QED
  BY <1>1, <1>2, <1>14, MemoryMoves

LEMMA PickSessionRight ==
    ASSUME AccountsInv, RightInv, NEW p \in Procs, PickSession(p)
    PROVE  RightInv'
<1>1. UNCHANGED <<sessionVars, profileVars, alone>> /\ loc[p].pc = "pick"
  <2>1. UNCHANGED <<sessionVars, profileVars, alone>> /\ At(p, "pick")
    BY Zenon DEF PickSession
  <2> QED
    BY <2>1 DEF At
<1>2. Turn(p) /\ Role(loc[p]) /\ loc[p] \in Memory /\ now \in Nat
  BY <1>1, HasTurn, Numbers
<1>3. CASE End(p, 0)
  BY <1>1, <1>2, <1>3, EndRight, MemoryMoves
<1>4. ASSUME NEW i \in DOMAIN auth,
             loc' = [loc EXCEPT ![p].pc = "endother", ![p].other = auth[i].id,
                                ![p].since = now]
      PROVE  Continues(p)
  <2> DEFINE m == [loc[p] EXCEPT !.pc = "endother", !.other = auth[i].id, !.since = now]
  <2>1. loc' = [loc EXCEPT ![p] = m]
    BY <1>2, <1>4 DEF Memory
  <2>2. auth[i].id \in Nat /\ "endother" \in Pc
    BY Numbers DEF Pc
  <2>3. m \in Memory /\ m.pc = "endother" /\ m.rq = loc[p].rq /\ m.heir = loc[p].heir
    BY <1>2, <2>2 DEF Memory
  <2> HIDE DEF m
  <2>4. loc'[p] = m
    BY <2>1, Old
  <2>5. HandRight(p)'
    BY <2>3, <2>4 DEF HandRight, Role, RecordRight, SessionRight
  <2> QED
    BY <2>1, <2>3, <2>5, SameErrand
<1>5. End(p, 0) \/ Continues(p)
  BY <1>4, Zenon DEF PickSession
<1> QED
  BY <1>1, <1>2, <1>3, <1>5, MemoryMoves

\* SetUInfo writes the record as it is.
LEMMA SameRecord ==
    ASSUME AccountsInv, RightInv, NEW p \in Procs, loc[p].pc \in {"touch", "stamp"},
           users' = [users EXCEPT ![loc[p].at] = loc[p].ui]
    PROVE  users' = users
<1>1. users[loc[p].at] = loc[p].ui
  BY DEF RightInv, HandRight, RecordRight
<1>2. users \in Seq(User)
  BY DEF AccountsInv, FilesInv
<1> QED
  BY <1>1, <1>2

LEMMA TouchProfileRight ==
    ASSUME AccountsInv, RightInv, NEW p \in Procs, TouchProfile(p)
    PROVE  RightInv'
<1>1. loc[p].pc = "touch" /\ Handle(p, TRUE)
  BY DEF TouchProfile, At
<1>2. users' = users
  BY <1>1, SameRecord DEF TouchProfile
<1>3. UNCHANGED <<sessionVars, profileVars, alone>>
  BY <1>2 DEF TouchProfile, profileVars
<1> QED
  BY <1>1, <1>3, HasTurn, HandleRight, MemoryMoves

LEMMA StampLoginRight ==
    ASSUME AccountsInv, RightInv, NEW p \in Procs, StampLogin(p)
    PROVE  RightInv'
<1>1. loc[p].pc = "stamp" /\ End(p, 0)
  BY DEF StampLogin, At
<1>2. users' = users
  BY <1>1, SameRecord DEF StampLogin
<1>3. UNCHANGED <<sessionVars, profileVars, alone>>
  BY <1>2 DEF StampLogin, profileVars
<1> QED
  BY <1>1, <1>3, HasTurn, EndRight, MemoryMoves

-----------------------------------------------------------------------------
(* The steps that write to the session file, and the one that judges what it
   says. *)

LEMMA ReadProfileRight ==
    ASSUME AccountsInv, RightInv, NEW p \in Procs, ReadProfile(p)
    PROVE  RightInv'
<1>1. UNCHANGED <<sessionVars, profileVars, alone>> /\ loc[p].pc = "profile"
  BY DEF ReadProfile, At
<1>2. /\ Turn(p) /\ HandRight(p) /\ Role(loc[p]) /\ loc[p] \in Memory /\ now \in Nat
      /\ loc \in [Procs -> Memory]
      /\ loc[p].heir = 0 /\ loc[p].id \in Nat \ {0}
  BY <1>1, HasTurn, Numbers DEF Role, Memory
<1> DEFINE ui0 == users[loc[p].at]
           pc0 == IF OlderThanAccount(loc[p].expire, bodies[ui0.full])
                  THEN "reject" ELSE "touch"
           heir0 == IF /\ ui0.uniq # loc[p].uniq
                       /\ bodies[ui0.full] + TTL = loc[p].expire
                    THEN loc[p].id ELSE 0
           m0 == [loc[p] EXCEPT !.ui = ui0, !.created = bodies[ui0.full],
                                !.since = now, !.heir = heir0, !.pc = pc0]
<1>0. loc' = [loc EXCEPT ![p] = m0]
  BY <1>2 DEF ReadProfile, Memory
<1>3. PICK k, id : k = loc[p].at /\ id = loc[p].id
  OBVIOUS
<1>4. k \in DOMAIN users
  BY <1>1, <1>2, <1>3, Old, Numbers DEF Good, Points, Memory
<1>5. PICK ui, date : ui = users[k] /\ date = bodies[ui.full]
  OBVIOUS
<1>6. ui \in User /\ ui.uniq \in Nat /\ date \in Nat /\ date = Date(k)
  <2>1. ui \in User /\ ui.full \in DOMAIN bodies
    BY <1>4, <1>5, Numbers DEF AccountsInv, FilesInv
  <2> QED
    BY <1>5, <2>1, Numbers DEF User, Date
<1>7. PICK pc, heir :
         /\ pc = IF OlderThanAccount(loc[p].expire, date) THEN "reject" ELSE "touch"
         /\ heir = IF ui.uniq # loc[p].uniq /\ date + TTL = loc[p].expire THEN id ELSE 0
  OBVIOUS
<1> DEFINE m == [loc[p] EXCEPT !.ui = ui, !.created = date, !.since = now,
                               !.heir = heir, !.pc = pc]
<1>8. loc' = [loc EXCEPT ![p] = m]
  <2>1. ui0 = ui /\ bodies[ui0.full] = date
    BY <1>3, <1>5
  <2>2. pc0 = pc
    BY <1>7, <2>1
  <2>3. heir0 = heir
    BY <1>3, <1>7, <2>1
  <2> HIDE DEF ui0, pc0, heir0
  <2>4. m0 = m
    BY <2>1, <2>2, <2>3
  <2> HIDE DEF m0, m
  <2> QED
    BY <1>0, <2>4
<1>9. pc \in {"reject", "touch"} /\ pc \in Pc /\ heir \in {0, id} /\ heir \in Nat
  BY <1>2, <1>3, <1>7 DEF Pc
<1> HIDE DEF m0
<1>10. /\ m \in Memory /\ m.pc = pc /\ m.ui = ui /\ m.heir = heir /\ m.rq = loc[p].rq
       /\ m.id = id /\ m.at = k /\ m.uniq = loc[p].uniq /\ m.expire = loc[p].expire
  BY <1>2, <1>3, <1>6, <1>9 DEF Memory
<1> HIDE DEF m
<1>11. loc'[p] = m /\ \A q \in Procs \ {p} : loc'[q] = loc[q]
  BY <1>8, Old
<1>12. Steps(p)
  BY <1>1, <1>2, <1>10, <1>11 DEF Steps, Turn
<1>13. /\ users' = users /\ auth' = auth /\ now' = now /\ alone' = alone /\ index' = index
       /\ \A x : Used(x)' = Used(x) /\ Date(x)' = Date(x)
  BY <1>1 DEF sessionVars, profileVars, Used, Date, Registered
<1>14. heir # 0 => id \in Heirs'
  BY <1>9, <1>10, <1>11 DEF Heirs
<1>15. id \in Heirs => id \in Heirs'
  BY <1>2, <1>3, <1>12, StepsStill
<1>16. Used(k) => \/ ui.uniq = loc[p].uniq
                  \/ id \in Heirs
                  \/ loc[p].expire <= date + TTL
  <2>1. CASE alone
    BY <1>1, <1>2, <1>3, <1>5, <1>6, <2>1 DEF HandRight, SessionRight
  <2>2. CASE ~alone
    BY <1>1, <1>2, <1>3, <1>5, <2>2 DEF HandRight, SessionRight
  <2> QED
    BY <2>1, <2>2
\* One that goes on with an account of later date is noted as heir.
<1>17. pc = "touch" /\ loc[p].expire <= date + TTL =>
          ui.uniq = loc[p].uniq \/ id \in Heirs'
  <2>1. loc[p].expire \in Nat /\ TTL \in Nat
    BY <1>2, SessionsAssumption DEF Memory
  <2>2. pc = "touch" /\ loc[p].expire <= date + TTL => loc[p].expire = date + TTL
    BY <1>6, <1>7, <2>1 DEF OlderThanAccount
  <2> QED
    BY <1>2, <1>3, <1>7, <1>14, <2>2
<1>18. HandRight(p)'
  <2>1. Role(m)
    BY <1>2, <1>3, <1>9, <1>10 DEF Role
  <2>2. Filling' => Used(k)
    BY <1>1, <1>2, <1>3, <1>12, StepsStill DEF HandRight, RecordRight
  <2>3. RecordRight(p)'
    BY <1>5, <1>9, <1>10, <1>11, <1>13, <2>2 DEF RecordRight
  <2>4. m.pc = "touch" /\ Used(k) => ui.uniq = m.uniq \/ id \in Heirs'
    BY <1>10, <1>15, <1>16, <1>17
  <2>5. ~alone => ui.uniq = m.uniq
    BY <1>1, <1>2, <1>3, <1>5, <1>10 DEF HandRight, SessionRight
  <2>6. SessionRight(p)'
    BY <1>9, <1>10, <1>11, <1>13, <2>4, <2>5 DEF SessionRight
  <2> QED
    BY <1>11, <2>1, <2>3, <2>6 DEF HandRight, Role
<1>19. SessionsRight'
  <2>1. ASSUME NEW i \in DOMAIN auth PROVE EntryRight(auth[i])'
    <3>1. PICK e : e = auth[i]
      OBVIOUS
    <3>2. CASE e.id # id
      <4>1. EntryRight(e)'
        BY <1>1, <1>3, <1>12, <1>13, <3>1, <3>2, EntryKept
      <4> QED
        BY <1>13, <3>1, <4>1 DEF EntryRight
    <3>3. CASE e.id = id
      <4>1. EntryRight(e)
        BY <3>1 DEF RightInv, SessionsRight
      <4>2. Filling' => Filling
        BY <1>12, StepsStill
      <4>3. /\ e.expire <= now + TTL
            /\ Filling' => Used(e.at)
            /\ ~alone => users[e.at].uniq = e.uniq
        BY <4>1, <4>2 DEF EntryRight
      <4>4. CASE pc = "reject"
        <5>1. loc'[p].pc \in {"profile", "reject"} /\ loc'[p].id = e.id
          BY <1>10, <1>11, <3>3, <4>4
        <5> QED
          BY <1>13, <3>1, <4>3, <5>1 DEF EntryRight
      <4>5. CASE pc = "touch"
        <5>1. alone => e.at = k /\ e.uniq = loc[p].uniq
          BY <1>1, <1>2, <1>3, <3>1, <3>3 DEF HandRight, SessionRight
        <5>2. alone /\ Used(k) => users[k].uniq = e.uniq \/ id \in Heirs'
          BY <1>5, <1>15, <1>16, <1>17, <4>5, <5>1
        <5> QED
          BY <1>13, <3>1, <3>3, <4>3, <5>1, <5>2 DEF EntryRight
      <4> QED
        BY <1>9, <4>4, <4>5
    <3> QED
      BY <3>2, <3>3
  <2> QED
    BY <1>13, <2>1 DEF SessionsRight, EntryRight
<1> QED
  BY <1>1, <1>12, <1>18, <1>19, SessionsMove

\* The session is found and renewed: its entry has p for a while to judge it.
LEMMA RenewRight ==
    ASSUME AccountsInv, RightInv, NEW p \in Procs, NEW i \in DOMAIN auth, NEW same,
           loc[p].pc = "check", UNCHANGED <<profileVars, alone>>,
           Valid(i, loc[p].id, same), RenewEntry(i),
           loc' = [loc EXCEPT ![p].pc = "profile",
                       ![p].uniq = auth[i].uniq, ![p].at = auth[i].at,
                       ![p].expire = auth[i].expire]
    PROVE  RightInv'
<1> DEFINE m == [loc[p] EXCEPT !.pc = "profile", !.uniq = auth[i].uniq,
                               !.at = auth[i].at, !.expire = auth[i].expire]
<1>1. Turn(p) /\ Role(loc[p]) /\ loc[p] \in Memory /\ now \in Nat /\ TTL \in Nat
  BY HasTurn, Numbers, SessionsAssumption
<1>2. PICK e : e = auth[i]
  OBVIOUS
<1>3. /\ e.uniq \in Nat /\ e.at \in Nat /\ e.expire \in Nat /\ e.expire > now
      /\ e.id = loc[p].id /\ e.id \in Nat \ {0}
  BY <1>2, Numbers DEF Valid
<1>4. /\ m \in Memory /\ m.pc = "profile" /\ m.uniq = e.uniq /\ m.at = e.at
      /\ m.expire = e.expire /\ m.id = e.id /\ m.rq = loc[p].rq /\ m.heir = loc[p].heir
  BY <1>1, <1>2, <1>3 DEF Memory, Pc
<1>5. loc' = [loc EXCEPT ![p] = m]
  BY <1>1 DEF Memory
<1> HIDE DEF m
<1>6. loc'[p] = m /\ \A q \in Procs \ {p} : loc'[q] = loc[q]
  BY <1>5, Old
<1>7. Steps(p)
  BY <1>1, <1>4, <1>6 DEF Steps, Turn
<1>8. /\ users' = users /\ now' = now /\ alone' = alone /\ index' = index
      /\ \A x : Used(x)' = Used(x) /\ Date(x)' = Date(x)
  BY DEF RenewEntry, profileVars, Used, Date, Registered
<1>9. PICK f : f = WithExpire(e, now + TTL)
  OBVIOUS
<1>10. f.id = e.id /\ f.uniq = e.uniq /\ f.at = e.at /\ f.expire = now + TTL
  BY <1>9 DEF WithExpire
<1>11. /\ DOMAIN auth' = DOMAIN auth
       /\ \A j \in DOMAIN auth : auth'[j] = IF j = i THEN f ELSE auth[j]
  BY <1>2, <1>9 DEF RenewEntry, AccountsInv, SessionInv, SessionTypeOK
<1>12. \A j \in DOMAIN auth : auth[j].id = e.id => j = i
  BY <1>2 DEF AccountsInv, SessionInv, NumbersUnique
<1>13. EntryRight(e) /\ (Filling' => Filling)
  BY <1>2, <1>7, StepsStill DEF RightInv, SessionsRight
<1>14. EntryRight(f)'
  <2>1. loc'[p].pc = "profile" /\ loc'[p].id = f.id
    BY <1>4, <1>6, <1>10
  <2>2. Filling' => Used(f.at)
    BY <1>10, <1>13 DEF EntryRight
  <2>3. ~alone => users[f.at].uniq = f.uniq
    BY <1>10, <1>13 DEF EntryRight
  <2>4. f.expire <= now + TTL
    BY <1>1, <1>10
  <2> QED
    <3>1. f.expire <= now' + TTL /\ (Filling' => Used(f.at)') /\ (~alone' => users'[f.at].uniq = f.uniq)
      BY <1>8, <2>2, <2>3, <2>4
    <3>2. \E q \in Procs : loc'[q].pc \in {"profile", "reject"} /\ loc'[q].id = f.id
      BY <2>1
    <3> QED
      BY <3>1, <3>2 DEF EntryRight
<1>15. \A j \in DOMAIN auth : j # i => EntryRight(auth[j])'
  <2>1. SUFFICES ASSUME NEW j \in DOMAIN auth, j # i PROVE EntryRight(auth[j])'
    OBVIOUS
  <2>2. PICK g : g = auth[j]
    OBVIOUS
  <2>3. EntryRight(g)'
    BY <1>7, <1>8, <2>2, EntryKept
  <2>4. auth'[j] = g
    BY <1>11, <2>1, <2>2
  <2> QED
    BY <2>3, <2>4 DEF EntryRight
<1>16. SessionsRight'
  <2>1. \A j \in DOMAIN auth : EntryRight(auth[j])'
    <3>1. auth'[i] = f
      BY <1>11
    <3>2. EntryRight(auth[i])'
      BY <1>14, <3>1 DEF EntryRight
    <3> QED
      BY <1>15, <3>2
  <2> QED
    BY <1>11, <2>1 DEF SessionsRight, EntryRight
<1>17. HandRight(p)'
  <2>1. Role(m)
    BY <1>1, <1>3, <1>4 DEF Role
  <2>2. RecordRight(p)'
    BY <1>4, <1>6, <1>8, <1>13 DEF RecordRight, EntryRight
  <2>3. alone /\ Used(e.at) => \/ users[e.at].uniq = e.uniq
                               \/ e.id \in Heirs'
                               \/ e.expire <= Date(e.at) + TTL
    <3>1. ASSUME alone, NEW q \in Procs, loc[q].pc \in {"profile", "reject"} PROVE FALSE
      <4>1. q # p
        BY <3>1
      <4> QED
        BY <1>7, <3>1, <4>1 DEF Steps, Working
    <3>2. e.id \in Heirs => e.id \in Heirs'
      BY <1>3, <1>7, StepsStill
    <3> QED
      BY <1>3, <1>13, <3>1, <3>2 DEF EntryRight
  <2>4. \A j \in DOMAIN auth' : auth'[j].id = e.id => auth'[j].at = e.at /\ auth'[j].uniq = e.uniq
    BY <1>10, <1>11, <1>12
  <2>5. ~alone => users[e.at].uniq = e.uniq
    BY <1>13 DEF EntryRight
  <2>6. SessionRight(p)'
    <3>1. CASE alone
      BY <1>4, <1>6, <1>8, <2>3, <2>4, <3>1 DEF SessionRight
    <3>2. CASE ~alone
      <4>1. ~alone' /\ users'[e.at].uniq = e.uniq
        BY <1>8, <2>5, <3>2
      <4> QED
        BY <1>4, <1>6, <4>1 DEF SessionRight
    <3> QED
      BY <3>1, <3>2
  <2> QED
    BY <1>6, <2>1, <2>2, <2>6 DEF HandRight, Role
<1> QED
  BY <1>7, <1>16, <1>17, SessionsMove

LEMMA CheckSessionRight ==
    ASSUME AccountsInv, RightInv, NEW p \in Procs, CheckSession(p)
    PROVE  RightInv'
<1>1. UNCHANGED <<profileVars, alone>> /\ loc[p].pc = "check"
  <2>1. UNCHANGED <<profileVars, alone>> /\ At(p, "check")
    BY Zenon DEF CheckSession
  <2> QED
    BY <2>1 DEF At
<1>2. CASE Handle(p, FALSE) /\ UNCHANGED sessionVars
  BY <1>1, <1>2, HasTurn, HandleRight, MemoryMoves
<1>3. ASSUME NEW i \in DOMAIN auth, NEW same \in BOOLEAN,
             Valid(i, loc[p].id, same), RenewEntry(i),
             loc' = [loc EXCEPT ![p].pc = "profile",
                         ![p].uniq = auth[i].uniq, ![p].at = auth[i].at,
                         ![p].expire = auth[i].expire]
      PROVE  RightInv'
  BY <1>1, <1>3, RenewRight, Zenon
<1> QED
  BY <1>2, <1>3, Zenon DEF CheckSession

\* Sessions that are closed need nothing any more; nor do those that are over
\* when they are looked at, if p closes its own.
LEMMA ClosingRight ==
    ASSUME AccountsInv, RightInv, NEW p \in Procs, Turn(p), Continues(p),
           UNCHANGED <<profileVars, alone>>,
           NEW tn \in 0..now, NEW entries, CloseEntries(tn, entries),
           \/ loc[p].pc \notin {"profile", "reject"}
           \/ \A i \in DOMAIN auth : auth[i].id = loc[p].id => i \in entries
    PROVE  RightInv'
<1>1. Steps(p) /\ HandRight(p)'
  BY ContinuesSteps
<1>2. /\ DOMAIN auth' = DOMAIN auth /\ now' = now
      /\ \A i \in DOMAIN auth :
            auth'[i] = IF auth[i].expire > tn /\ i \in entries
                       THEN WithExpire(auth[i], now - 1) ELSE auth[i]
  BY DEF CloseEntries
<1>3. now \in Nat \ {0} /\ TTL \in Nat /\ tn \in Nat /\ tn <= now
  BY Numbers, SessionsAssumption
<1>4. ASSUME NEW i \in DOMAIN auth PROVE EntryRight(auth[i])'
  <2>1. PICK e, f : e = auth[i] /\ f = auth'[i]
    OBVIOUS
  <2>2. e.expire \in Nat /\ EntryRight(e) /\ (Filling' => Filling)
    BY <1>1, <2>1, Numbers, StepsStill DEF RightInv, SessionsRight
  <2>3. f.id = e.id /\ f.uniq = e.uniq /\ f.at = e.at
    BY <1>2, <2>1 DEF WithExpire
  <2>4. CASE f.expire <= now
    <3>1. f.expire <= now + TTL /\ ~(f.expire > now)
      <4>1. f.expire = now - 1 \/ f.expire = e.expire
        BY <1>2, <2>1 DEF WithExpire
      <4> QED
        BY <1>3, <2>2, <2>4, <4>1
    <3>2. /\ users' = users /\ alone' = alone /\ \A x : Used(x)' = Used(x)
      BY DEF profileVars, Used, Registered
    <3>3. Filling' => Used(f.at)
      BY <2>2, <2>3 DEF EntryRight
    <3>4. ~alone => users[f.at].uniq = f.uniq
      BY <2>2, <2>3 DEF EntryRight
    <3>5. EntryRight(f)'
      BY <1>2, <3>1, <3>2, <3>3, <3>4 DEF EntryRight
    <3> QED
      BY <2>1, <3>5 DEF EntryRight
  <2>5. CASE ~(f.expire <= now)
    <3>1. auth'[i] = auth[i] /\ ~(auth[i].expire > tn /\ i \in entries)
      <4>1. now - 1 <= now
        BY <1>3
      <4> QED
        BY <1>2, <2>1, <2>5, <4>1 DEF WithExpire
    <3>2. e.expire > tn
      BY <1>3, <2>1, <2>2, <2>5, <3>1
    <3>3. loc[p].pc \notin {"profile", "reject"} \/ e.id # loc[p].id
      BY <2>1, <3>1, <3>2
    <3>4. EntryRight(e)'
      BY <1>1, <1>2, <2>1, <3>3, EntryKept
    <3> QED
      BY <2>1, <3>1, <3>4 DEF EntryRight
  <2> QED
    BY <2>4, <2>5
<1>5. SessionsRight'
  BY <1>2, <1>4 DEF SessionsRight, EntryRight
<1> QED
  BY <1>1, <1>5, SessionsMove

LEMMA RejectSessionRight ==
    ASSUME AccountsInv, RightInv, NEW p \in Procs, RejectSession(p)
    PROVE  RightInv'
<1>1. loc[p].pc = "reject" /\ UNCHANGED <<profileVars, alone>> /\ Handle(p, FALSE)
  BY DEF RejectSession, At
<1>2. PICK tn \in loc[p].since..now : CloseById(tn, loc[p].id)
  BY DEF RejectSession
<1>3. tn \in 0..now
  <2>1. loc[p].since \in Nat /\ now \in Nat
    BY Old, Numbers DEF Good, Memory
  <2> QED
    BY <2>1
<1>4. CloseEntries(tn, {i \in DOMAIN auth : auth[i].id = loc[p].id})
  BY <1>2 DEF CloseById
<1>5. Turn(p) /\ Continues(p)
  BY <1>1, HasTurn, HandleRight
<1> QED
  BY <1>1, <1>3, <1>4, <1>5, ClosingRight

LEMMA EndOwnSessionRight ==
    ASSUME AccountsInv, RightInv, NEW p \in Procs, EndOwnSession(p)
    PROVE  RightInv'
<1>1. loc[p].pc = "endown" /\ UNCHANGED <<profileVars, alone>>
  BY DEF EndOwnSession, At
<1>2. PICK tn \in loc[p].since..now : CloseById(tn, loc[p].id)
  BY DEF EndOwnSession
<1>3. loc[p] \in Memory /\ tn \in 0..now /\ HasName(loc[p])
  <2>1. loc[p].since \in Nat /\ now \in Nat /\ loc[p] \in Memory /\ HasName(loc[p])
    BY Old, Numbers DEF Good, Memory
  <2> QED
    BY <2>1
<1>4. CloseEntries(tn, {i \in DOMAIN auth : auth[i].id = loc[p].id})
  BY <1>2 DEF CloseById
<1>5. Turn(p)
  BY <1>1, HasTurn
<1>6. Continues(p)
  <2>1. CASE loc[p].rq.op = "logout"
    BY <2>1, EndRight DEF EndOwnSession
  <2>2. CASE loc[p].rq.op # "logout"
    <3> DEFINE m == [loc[p] EXCEPT !.pc = "lookup", !.id = 0]
    <3>1. loc' = [loc EXCEPT ![p] = m]
      BY <1>3, <2>2 DEF EndOwnSession, Memory
    <3>2. m \in Memory /\ m.pc = "lookup" /\ m.rq = loc[p].rq /\ m.heir = loc[p].heir
      BY <1>3 DEF Memory, Pc
    <3> HIDE DEF m
    <3>3. loc'[p] = m
      BY <3>1, Old
    <3>4. m.rq.op \in {"login", "register"}
      BY <1>1, <2>2, <3>2, HasTurn DEF Role
    <3>5. HandRight(p)'
      BY <3>2, <3>3, <3>4 DEF HandRight, Role, RecordRight, SessionRight
    <3> QED
      BY <3>1, <3>2, <3>5, SameErrand
  <2> QED
    BY <2>1, <2>2
<1> QED
  BY <1>1, <1>3, <1>4, <1>5, <1>6, ClosingRight

LEMMA CloseSessionsRight ==
    ASSUME AccountsInv, RightInv, NEW p \in Procs, CloseSessions(p)
    PROVE  RightInv'
<1>1. loc[p].pc = "sweep" /\ UNCHANGED <<profileVars, alone>> /\ End(p, loc[p].gone)
  BY DEF CloseSessions, At
<1>2. PICK tn \in loc[p].since..now : CloseByUser(tn, loc[p].gone)
  BY DEF CloseSessions
<1>3. tn \in 0..now /\ loc[p].gone \in Nat
  <2>1. loc[p].since \in Nat /\ now \in Nat /\ loc[p].gone \in Nat
    BY Old, Numbers DEF Good, Memory
  <2> QED
    BY <2>1
<1>4. PICK entries : CloseEntries(tn, entries)
  BY <1>2 DEF CloseByUser
<1>5. Turn(p) /\ Continues(p)
  BY <1>1, <1>3, HasTurn, EndRight
<1> QED
  BY <1>1, <1>3, <1>4, <1>5, ClosingRight

LEMMA CloseOtherRight ==
    ASSUME AccountsInv, RightInv, NEW p \in Procs, CloseOther(p)
    PROVE  RightInv'
<1>1. loc[p].pc = "endother" /\ UNCHANGED <<profileVars, alone>> /\ End(p, 0)
  BY DEF CloseOther, At
<1>2. PICK tn \in loc[p].since..now : CloseById(tn, loc[p].other)
  BY DEF CloseOther
<1>3. tn \in 0..now
  <2>1. loc[p].since \in Nat /\ now \in Nat
    BY Old, Numbers DEF Good, Memory
  <2> QED
    BY <2>1
<1>4. PICK entries : CloseEntries(tn, entries)
  BY <1>2 DEF CloseById
<1>5. Turn(p) /\ Continues(p)
  BY <1>1, HasTurn, EndRight
<1> QED
  BY <1>1, <1>3, <1>4, <1>5, ClosingRight

-----------------------------------------------------------------------------
(* The steps that write to the profile database. *)

\* The places of a list, when one is taken out of it.
Shifted(f, g, i, len) ==
    /\ len \in Nat /\ i \in 1..len
    /\ \A j \in 1..(len - 1) : g[j] = IF j < i THEN f[j] ELSE f[j + 1]
    /\ \A j, k \in 1..len : f[j] = f[k] => j = k

OneOut(f, g, i, len) ==
    /\ \A j, k \in 1..(len - 1) : g[j] = g[k] => j = k
    /\ \A j \in 1..(len - 1) : \E k \in 1..len : g[j] = f[k] /\ k # i
    /\ \A k \in 1..len : k # i => \E j \in 1..(len - 1) : f[k] = g[j]

LEMMA TakenOut ==
    ASSUME NEW len, NEW i, NEW f, NEW g, Shifted(f, g, i, len)
    PROVE  OneOut(f, g, i, len)
<1> USE DEF Shifted
<1>1. ASSUME NEW j \in 1..(len - 1)
      PROVE  \E k \in 1..len : /\ g[j] = f[k] /\ k # i
                               /\ k = IF j < i THEN j ELSE j + 1
  <2>1. CASE j < i
    <3>1. j \in 1..len /\ g[j] = f[j] /\ j # i
      BY <2>1
    <3> QED
      BY <2>1, <3>1
  <2>2. CASE ~(j < i)
    <3>1. j + 1 \in 1..len /\ g[j] = f[j + 1] /\ j + 1 # i
      BY <2>2
    <3> QED
      BY <2>2, <3>1
  <2> QED
    BY <2>1, <2>2
<1>2. ASSUME NEW j \in 1..(len - 1), NEW k \in 1..(len - 1), g[j] = g[k]
      PROVE  j = k
  <2>1. PICK a \in 1..len : g[j] = f[a] /\ a = IF j < i THEN j ELSE j + 1
    BY <1>1
  <2>2. PICK b \in 1..len : g[k] = f[b] /\ b = IF k < i THEN k ELSE k + 1
    BY <1>1
  <2>3. a = b
    BY <1>2, <2>1, <2>2
  <2> QED
    BY <2>1, <2>2, <2>3
<1>3. ASSUME NEW k \in 1..len, k # i PROVE \E j \in 1..(len - 1) : f[k] = g[j]
  <2>1. CASE k < i
    <3>1. k \in 1..(len - 1) /\ g[k] = f[k]
      BY <2>1
    <3> QED
      BY <3>1
  <2>2. CASE ~(k < i)
    <3>1. k - 1 \in 1..(len - 1) /\ ~(k - 1 < i) /\ (k - 1) + 1 = k
      BY <1>3, <2>2
    <3>2. g[k - 1] = f[k]
      BY <3>1
    <3> QED
      BY <3>1, <3>2
  <2> QED
    BY <2>1, <2>2
<1> QED
  BY <1>1, <1>2, <1>3 DEF OneOut

\* What is left of the free places when one is handed out, or with one more.
LEMMA SpaceRight ==
    ASSUME NEW n \in Nat, NEW free \in Seq(1..n), IsInjective(free), NEW u \in Space(free, n)
    PROVE  /\ IsInjective(u.left)
           /\ \A x : x \in ToSet(u.left) <=> x \in ToSet(free) /\ x # u.at
           /\ u.at = n + 1 \/ u.at \in ToSet(free)
<1>1. CASE free = <<>>
  <2>1. u = [at |-> n + 1, left |-> free]
    BY <1>1 DEF Space
  <2>2. u.at = n + 1 /\ u.left = free /\ \A x : x \notin ToSet(free)
    BY <1>1, <2>1 DEF ToSet
  <2> QED
    BY <2>2
<1>2. CASE free # <<>>
  <2>1. PICK i \in DOMAIN free : u = [at |-> free[i], left |-> RemoveAt(free, i)]
    BY <1>2 DEF Space
  <2>2. i \in 1..Len(free) /\ Len(free) \in Nat /\ DOMAIN free = 1..Len(free)
    OBVIOUS
  <2>3. /\ RemoveAt(free, i) \in Seq(1..n) /\ Len(RemoveAt(free, i)) = Len(free) - 1
        /\ \A j \in 1..(Len(free) - 1) :
              RemoveAt(free, i)[j] = IF j < i THEN free[j] ELSE free[j + 1]
    BY <2>2, RemoveAtFacts, Zenon
  <2>4. PICK left, len, f : left = RemoveAt(free, i) /\ len = Len(free) /\ f = free
    OBVIOUS
  <2>5. /\ len \in Nat /\ i \in 1..len /\ DOMAIN f = 1..len /\ DOMAIN left = 1..(len - 1)
        /\ \A j \in 1..(len - 1) : left[j] = IF j < i THEN f[j] ELSE f[j + 1]
        /\ \A j, k \in 1..len : f[j] = f[k] => j = k
    <3>1. DOMAIN left = 1..(len - 1)
      BY <2>2, <2>3, <2>4
    <3> QED
      BY <2>2, <2>3, <2>4, <3>1 DEF IsInjective
  <2>6. /\ \A j, k \in 1..(len - 1) : left[j] = left[k] => j = k
        /\ \A j \in 1..(len - 1) : \E k \in 1..len : left[j] = f[k] /\ k # i
        /\ \A k \in 1..len : k # i => \E j \in 1..(len - 1) : f[k] = left[j]
    <3>1. Shifted(f, left, i, len)
      BY <2>5 DEF Shifted
    <3>2. OneOut(f, left, i, len)
      BY <3>1, TakenOut
    <3> QED
      BY <3>2 DEF OneOut
  <2>7. IsInjective(left)
    BY <2>5, <2>6 DEF IsInjective
  <2>8. \A x : x \in ToSet(left) <=> x \in ToSet(f) /\ x # f[i]
    <3>1. ASSUME NEW j \in 1..(len - 1) PROVE left[j] \in ToSet(f) /\ left[j] # f[i]
      <4>1. PICK k \in 1..len : left[j] = f[k] /\ k # i
        BY <2>6
      <4> QED
        BY <2>5, <4>1 DEF ToSet
    <3>2. ASSUME NEW k \in 1..len, f[k] # f[i] PROVE f[k] \in ToSet(left)
      <4>1. PICK j \in 1..(len - 1) : f[k] = left[j]
        BY <2>6, <3>2
      <4> QED
        BY <2>5, <4>1 DEF ToSet
    <3>3. ASSUME NEW x \in ToSet(left) PROVE x \in ToSet(f) /\ x # f[i]
      <4>1. PICK j \in 1..(len - 1) : x = left[j]
        BY <2>5 DEF ToSet
      <4> QED
        BY <3>1, <4>1
    <3>4. ASSUME NEW x \in ToSet(f), x # f[i] PROVE x \in ToSet(left)
      <4>1. PICK k \in 1..len : x = f[k]
        BY <2>5 DEF ToSet
      <4> QED
        BY <3>2, <3>4, <4>1
    <3> QED
      BY <3>3, <3>4
  <2>9. u.at = f[i] /\ u.left = left /\ f[i] \in ToSet(f)
    BY <2>1, <2>4 DEF ToSet
  <2> QED
    BY <2>4, <2>7, <2>8, <2>9
<1> QED
  BY <1>1, <1>2

LEMMA AppendRight ==
    ASSUME NEW S, NEW free \in Seq(S), NEW at \in S, IsInjective(free), at \notin ToSet(free)
    PROVE  /\ IsInjective(Append(free, at))
           /\ \A x : x \in ToSet(Append(free, at)) <=> x \in ToSet(free) \/ x = at
<1>1. PICK more : more = Append(free, at)
  OBVIOUS
<1>2. /\ Len(free) \in Nat /\ DOMAIN free = 1..Len(free)
      /\ DOMAIN more = 1..(Len(free) + 1) /\ more[Len(free) + 1] = at
      /\ \A j \in DOMAIN free : more[j] = free[j]
      /\ \A j \in DOMAIN more : j \in DOMAIN free \/ j = Len(free) + 1
  BY <1>1
<1>3. \A j \in DOMAIN free : free[j] # at
  BY DEF ToSet
<1>4. IsInjective(more)
  BY <1>2, <1>3 DEF IsInjective
<1>5. \A x : x \in ToSet(more) <=> x \in ToSet(free) \/ x = at
  BY <1>2 DEF ToSet
<1> QED
  BY <1>1, <1>4, <1>5

\* The places in use, and those not, of the database as it is.
LEMMA PlacesKnown ==
    ASSUME AccountsInv, RightInv
    PROVE  /\ ufree \in Seq(1..Len(users)) /\ bfree \in Seq(1..Len(bodies))
           /\ IsInjective(ufree) /\ IsInjective(bfree)
           /\ \A a \in Registered : /\ a \in Names
                                    /\ index[a] \in DOMAIN users /\ Full(a) \in DOMAIN bodies
                                    /\ index[a] \notin ToSet(ufree) /\ Full(a) \notin ToSet(bfree)
           /\ \A x \in ToSet(ufree) : x \in DOMAIN users
           /\ \A x \in ToSet(bfree) : x \in DOMAIN bodies
<1>1. ufree \in Seq(1..Len(users)) /\ bfree \in Seq(1..Len(bodies))
  BY Numbers DEF AccountsInv, FilesInv
<1>2. \A a \in Registered : a \in Names /\ index[a] \in DOMAIN users
  BY Numbers DEF Registered, AccountsInv, FilesInv
<1>3. \A a \in Registered : Full(a) \in DOMAIN bodies
  BY <1>2 DEF Full, AccountsInv, FilesInv
<1>4. \A x \in ToSet(ufree) : x \in DOMAIN users
  BY <1>1, Numbers DEF ToSet
<1>5. \A x \in ToSet(bfree) : x \in DOMAIN bodies
  BY <1>1, Numbers DEF ToSet
<1> QED
  BY <1>1, <1>2, <1>3, <1>4, <1>5 DEF RightInv, FilesRight, PlacesRight

\* What the sessions and the other requests need of the records.
KeepsRecords ==
    \A x \in DOMAIN users :
        /\ Filling /\ Used(x) => Used(x)'
        /\ ~alone /\ (Filling => Used(x)) => users'[x] = users[x]
        /\ alone /\ Used(x)' =>
              \/ Used(x) /\ users'[x].uniq = users[x].uniq /\ Date(x)' = Date(x)
              \/ \A i \in DOMAIN auth : auth[i].expire <= Date(x)' + TTL

LEMMA FilesMove ==
    ASSUME AccountsInv, RightInv, NEW p \in Procs, Turn(p), Continues(p),
           UNCHANGED <<sessionVars, alone>>, loc[p].pc \in {"add", "delete", "rewrite"},
           KeepsRecords, FilesRight'
    PROVE  RightInv'
<1>1. Steps(p) /\ HandRight(p)' /\ auth' = auth /\ now' = now /\ alone' = alone
  BY ContinuesSteps DEF sessionVars
<1>2. Filling' => Filling
  BY <1>1, StepsStill
<1>3. ASSUME NEW i \in DOMAIN auth PROVE EntryRight(auth[i])'
  <2>1. PICK e : e = auth[i]
    OBVIOUS
  <2>2. EntryRight(e) /\ e.at \in DOMAIN users /\ e.id \in Nat \ {0}
    BY <2>1, Numbers DEF RightInv, SessionsRight
  <2>3. e.expire <= now' + TTL /\ (Filling' => Used(e.at)')
    BY <1>1, <1>2, <2>2 DEF EntryRight, KeepsRecords
  <2>4. ASSUME ~alone PROVE users'[e.at].uniq = e.uniq
    BY <2>2, <2>4 DEF EntryRight, KeepsRecords
  <2>5. ASSUME alone, e.expire > now, Used(e.at)'
        PROVE  \/ users'[e.at].uniq = e.uniq
               \/ e.id \in Heirs'
               \/ e.expire <= Date(e.at)' + TTL
    <3>1. CASE \A j \in DOMAIN auth : auth[j].expire <= Date(e.at)' + TTL
      BY <2>1, <3>1
    <3>2. CASE /\ Used(e.at) /\ users'[e.at].uniq = users[e.at].uniq
               /\ Date(e.at)' = Date(e.at)
      <4>1. ASSUME NEW q \in Procs, loc[q].pc \in {"profile", "reject"} PROVE FALSE
        <5>1. q # p
          BY <4>1
        <5> QED
          BY <2>5, <4>1, <5>1 DEF Turn, Working
      <4>2. e.id \in Heirs => e.id \in Heirs'
        BY <1>1, <2>2, StepsStill
      <4>3. \/ users[e.at].uniq = e.uniq
            \/ e.id \in Heirs
            \/ e.expire <= Date(e.at) + TTL
        BY <2>2, <2>5, <3>2, <4>1 DEF EntryRight
      <4> QED
        BY <3>2, <4>2, <4>3
    <3> QED
      BY <2>2, <2>5, <3>1, <3>2 DEF KeepsRecords
  <2>6. EntryRight(e)'
    <3>1. CASE alone
      <4>1. e.expire > now' /\ Used(e.at)' => \/ users'[e.at].uniq = e.uniq
                                              \/ e.id \in Heirs'
                                              \/ e.expire <= Date(e.at)' + TTL
        BY <1>1, <2>5, <3>1
      <4> QED
        BY <1>1, <2>3, <3>1, <4>1 DEF EntryRight
    <3>2. CASE ~alone
      <4>1. users'[e.at].uniq = e.uniq /\ ~alone'
        BY <1>1, <2>4, <3>2
      <4> QED
        BY <2>3, <4>1 DEF EntryRight
    <3> QED
      BY <3>1, <3>2
  <2> QED
    BY <1>1, <2>1, <2>6 DEF EntryRight
<1>4. SessionsRight'
  BY <1>1, <1>3 DEF SessionsRight, EntryRight
<1>5. Spares(p)
  <2>1. SUFFICES ASSUME ~alone, NEW q \in Procs \ {p}
                 PROVE  /\ loc[q].pc \in {"profile", "touch", "open", "stamp"} =>
                              /\ users'[loc[q].at] = users[loc[q].at]
                              /\ Filling /\ Used(loc[q].at) => Used(loc[q].at)'
                        /\ loc[q].pc # "delete"
    BY DEF Spares
  <2>2. Role(loc[p]) /\ HandRight(q) /\ Role(loc[q]) /\ loc'[q] = loc[q]
    BY <1>1 DEF RightInv, HandRight, Steps
  <2>3. loc[q].pc # "delete"
    BY <2>1, <2>2 DEF Role, Removing, RightInv, Apart
  <2>4. PICK x : x = loc[q].at
    OBVIOUS
  <2>5. ASSUME loc[q].pc \in {"profile", "touch", "open", "stamp"}
        PROVE  users'[x] = users[x] /\ (Filling /\ Used(x) => Used(x)')
    <3>1. x \in DOMAIN users
      <4>1. Points(loc[q]) /\ loc[q].at \in Nat
        BY Old DEF Good, Memory
      <4>2. x # 0 /\ x <= Len(users) /\ x \in Nat
        BY <2>4, <2>5, <4>1 DEF Points
      <4> QED
        BY <4>2, Numbers
    <3>2. Filling => Used(x)
      BY <2>2, <2>4, <2>5 DEF HandRight, RecordRight
    <3> QED
      BY <2>1, <3>1, <3>2 DEF KeepsRecords
  <2>6. loc[q].pc \in {"profile", "touch", "open", "stamp"} /\ Filling /\ Used(x) =>
           Used(loc[q].at)'
    BY <2>2, <2>4, <2>5
  <2> QED
    BY <2>3, <2>4, <2>5, <2>6
<1> QED
  BY <1>1, <1>4, <1>5, RightStep

LEMMA DeleteUserRight ==
    ASSUME AccountsInv, RightInv, NEW p \in Procs, DeleteUser(p)
    PROVE  RightInv'
<1>1. loc[p].pc = "delete" /\ UNCHANGED <<sessionVars, alone>>
  BY DEF DeleteUser, At
<1>2. /\ Turn(p) /\ HandRight(p) /\ Role(loc[p]) /\ loc[p] \in Memory
      /\ loc[p].rq.op \in Removing /\ index[Name(p)] = loc[p].at
  BY <1>1, HasTurn DEF HandRight, RecordRight, Role
<1>3. PICK name, at : name = Name(p) /\ at = loc[p].at
  OBVIOUS
<1>4. /\ name \in Names /\ index[name] = at /\ at # 0 /\ name \in Registered
      /\ at \in DOMAIN users
  <2>1. name \in Names /\ index[name] = at
    BY <1>1, <1>2, <1>3, NameKnown
  <2>2. at # 0 /\ at \in DOMAIN users
    BY <1>1, <1>2, <1>3, Old, Numbers DEF Good, Points, Memory
  <2> QED
    BY <2>1, <2>2 DEF Registered
<1>5. users[at].name = name
  BY <1>4 DEF RightInv, FilesRight, NamesRight
<1>6. /\ bfree' = Append(bfree, users[at].full) /\ ufree' = Append(ufree, at)
      /\ index' = [index EXCEPT ![name] = 0]
      /\ users' = users /\ bodies' = bodies /\ lastUniq' = lastUniq
      /\ End(p, 0) \/ (Goto(p, "sweep") /\ loc[p].rq.op # "purge")
  BY <1>3, <1>4, <1>5 DEF DeleteUser
<1>7. Continues(p)
  <2>1. CASE End(p, 0)
    BY <2>1, EndRight
  <2>2. CASE Goto(p, "sweep") /\ loc[p].rq.op # "purge"
    <3> DEFINE m == [loc[p] EXCEPT !.pc = "sweep", !.since = now]
    <3>1. loc' = [loc EXCEPT ![p] = m]
      BY <1>2, <2>2 DEF Goto, Memory
    <3>2. m \in Memory /\ m.pc = "sweep" /\ m.rq = loc[p].rq /\ m.heir = loc[p].heir
      BY <1>2, Numbers DEF Memory, Pc
    <3> HIDE DEF m
    <3>3. loc'[p] = m
      BY <3>1, Old
    <3>4. HandRight(p)'
      BY <1>2, <2>2, <3>2, <3>3 DEF HandRight, Role, RecordRight, SessionRight, Removing
    <3> QED
      BY <3>1, <3>2, <3>4, SameErrand
  <2> QED
    BY <1>6, <2>1, <2>2
<1>8. /\ index \in [Names -> 0..Len(users)]
      /\ \A a : a \in Registered' <=> a \in Registered /\ a # name
      /\ \A a \in Registered' : index'[a] = index[a]
  BY <1>4, <1>6 DEF AccountsInv, FilesInv, Registered
<1>9. \A a \in Registered' : Full(a)' = Full(a)
  BY <1>6, <1>8 DEF Full
<1>10. NamesRight /\ PlacesRight
  BY DEF RightInv, FilesRight
<1>11. NamesRight'
  BY <1>6, <1>8, <1>10 DEF NamesRight
<1>12. PICK full : full = users[at].full
  OBVIOUS
<1>13. full = Full(name) /\ full \in DOMAIN bodies /\ full \notin ToSet(bfree) /\ at \notin ToSet(ufree)
  BY <1>4, <1>12, PlacesKnown DEF Full
<1>14. /\ IsInjective(ufree') /\ \A x : x \in ToSet(ufree') <=> x \in ToSet(ufree) \/ x = at
  <2>1. PICK S : S = 1..Len(users)
    OBVIOUS
  <2>2. ufree \in Seq(S) /\ at \in S /\ IsInjective(ufree)
    BY <1>4, <2>1, PlacesKnown, Numbers
  <2> QED
    BY <1>6, <1>13, <2>2, AppendRight
<1>15. /\ IsInjective(bfree') /\ \A x : x \in ToSet(bfree') <=> x \in ToSet(bfree) \/ x = full
  <2>1. PICK S : S = 1..Len(bodies)
    OBVIOUS
  <2>2. bfree \in Seq(S) /\ full \in S /\ IsInjective(bfree)
    BY <1>13, <2>1, PlacesKnown, Numbers
  <2> QED
    BY <1>6, <1>12, <1>13, <2>2, AppendRight
<1>16. PlacesRight'
  <2>1. \A a, b \in Registered' : index'[a] = index'[b] \/ Full(a)' = Full(b)' => a = b
    BY <1>8, <1>9, <1>10 DEF PlacesRight
  <2>2. \A a \in Registered' : index'[a] # at /\ Full(a)' # full
    BY <1>4, <1>8, <1>9, <1>10, <1>13 DEF PlacesRight
  <2>3. \A a \in Registered' : index'[a] \notin ToSet(ufree') /\ Full(a)' \notin ToSet(bfree')
    BY <1>8, <1>9, <1>10, <1>14, <1>15, <2>2 DEF PlacesRight
  <2>4. ASSUME NEW x \in DOMAIN users' PROVE x \in ToSet(ufree') \/ Used(x)'
    <3>1. CASE x \in ToSet(ufree)
      BY <1>14, <3>1
    <3>2. ASSUME NEW a \in Registered, index[a] = x PROVE x \in ToSet(ufree') \/ Used(x)'
      BY <1>4, <1>8, <1>14, <3>2 DEF Used
    <3> QED
      BY <1>6, <1>10, <3>1, <3>2 DEF PlacesRight, Used
  <2>5. ASSUME NEW x \in DOMAIN bodies'
        PROVE  x \in ToSet(bfree') \/ \E a \in Registered' : Full(a)' = x
    <3>1. CASE x \in ToSet(bfree)
      BY <1>15, <3>1
    <3>2. ASSUME NEW a \in Registered, Full(a) = x
          PROVE  x \in ToSet(bfree') \/ \E b \in Registered' : Full(b)' = x
      <4>1. CASE a = name
        BY <1>13, <1>15, <3>2, <4>1
      <4>2. CASE a # name
        BY <1>8, <1>9, <3>2, <4>2
      <4> QED
        BY <4>1, <4>2
    <3> QED
      BY <1>6, <1>10, <3>1, <3>2 DEF PlacesRight
  <2> QED
    BY <1>14, <1>15, <2>1, <2>3, <2>4, <2>5 DEF PlacesRight
<1>17. FilesRight'
  BY <1>11, <1>16 DEF FilesRight
<1>18. KeepsRecords
  <2>1. ~Filling
    BY <1>2 DEF Filling, RightInv, Apart
  <2>2. \A x : Used(x)' => Used(x)
    BY <1>8 DEF Used
  <2>3. \A x : Date(x)' = Date(x)
    BY <1>6 DEF Date
  <2> QED
    BY <1>6, <2>1, <2>2, <2>3 DEF KeepsRecords
<1> QED
  BY <1>1, <1>2, <1>7, <1>17, <1>18, FilesMove

\* What has been written at place at of seq, and nowhere else.
Written(seq, seq2, at, x) ==
    /\ at \in DOMAIN seq2 /\ seq2[at] = x
    /\ \A i \in DOMAIN seq2 : i # at => i \in DOMAIN seq /\ seq2[i] = seq[i]
    /\ \A i \in DOMAIN seq : i \in DOMAIN seq2

LEMMA PutWrites ==
    ASSUME NEW S, NEW seq \in Seq(S), NEW at \in 1..(Len(seq) + 1), NEW x \in S
    PROVE  Written(seq, Put(seq, at, x), at, x)
<1>1. PICK seq2 : seq2 = Put(seq, at, x)
  OBVIOUS
<1>2. /\ Put(seq, at, x) \in Seq(S) /\ Len(seq) <= Len(Put(seq, at, x))
      /\ Len(Put(seq, at, x)) \in Nat /\ at \in 1..Len(Put(seq, at, x))
      /\ \A i \in 1..Len(Put(seq, at, x)) :
            Put(seq, at, x)[i] = IF i = at THEN x ELSE seq[i]
      /\ \A i \in 1..Len(Put(seq, at, x)) : i # at => i \in 1..Len(seq)
  BY PutFacts, Zenon
<1>3. /\ seq2 \in Seq(S) /\ Len(seq) <= Len(seq2) /\ Len(seq2) \in Nat /\ at \in 1..Len(seq2)
      /\ \A i \in 1..Len(seq2) : seq2[i] = IF i = at THEN x ELSE seq[i]
      /\ \A i \in 1..Len(seq2) : i # at => i \in 1..Len(seq)
  BY <1>1, <1>2, Zenon
<1>4. DOMAIN seq = 1..Len(seq) /\ DOMAIN seq2 = 1..Len(seq2) /\ Len(seq) \in Nat
  BY <1>3
<1>5. Written(seq, seq2, at, x)
  BY <1>3, <1>4 DEF Written
<1> QED
  BY <1>1, <1>5

\* A free place that is written to, or the next of the file, was nobody's.
LEMMA NobodysPlace ==
    ASSUME AccountsInv, RightInv,
           NEW u \in Space(ufree, Len(users)), NEW b \in Space(bfree, Len(bodies))
    PROVE  \A a \in Registered : index[a] # u.at /\ Full(a) # b.at
<1>1. u.at = Len(users) + 1 \/ u.at \in ToSet(ufree)
  <2>1. PICK n, free : n = Len(users) /\ free = ufree
    OBVIOUS
  <2>2. n \in Nat /\ free \in Seq(1..n) /\ IsInjective(free) /\ u \in Space(free, n)
    BY <2>1, PlacesKnown, Numbers
  <2> QED
    BY <2>1, <2>2, SpaceRight
<1>2. b.at = Len(bodies) + 1 \/ b.at \in ToSet(bfree)
  <2>1. PICK n, free : n = Len(bodies) /\ free = bfree
    OBVIOUS
  <2>2. n \in Nat /\ free \in Seq(1..n) /\ IsInjective(free) /\ b \in Space(free, n)
    BY <2>1, PlacesKnown, Numbers
  <2> QED
    BY <2>1, <2>2, SpaceRight
<1>3. ~(Len(users) + 1 \in DOMAIN users) /\ ~(Len(bodies) + 1 \in DOMAIN bodies)
  BY Numbers
<1> QED
  BY <1>1, <1>2, <1>3, PlacesKnown

LEMMA AddUserRight ==
    ASSUME AccountsInv, RightInv, NEW p \in Procs, AddUser(p)
    PROVE  RightInv'
<1>1. loc[p].pc = "add" /\ UNCHANGED <<sessionVars, alone>>
  BY DEF AddUser, At
<1>2. /\ Turn(p) /\ HandRight(p) /\ Role(loc[p]) /\ loc[p] \in Memory
      /\ loc[p].rq.op = "register" /\ loc[p].created \in Nat
      /\ (~alone => Filling)
  BY <1>1, HasTurn DEF Role, Memory, Filling
<1>3. PICK name, date : name = Name(p) /\ date = loc[p].created
  OBVIOUS
<1>4. name \in Names /\ date \in Nat
  BY <1>1, <1>2, <1>3, NameKnown
<1>5. PICK u \in Space(ufree, Len(users)), b \in Space(bfree, Len(bodies)) :
         /\ users' = Put(users, u.at, [name |-> name, uniq |-> lastUniq + 1, full |-> b.at])
         /\ bodies' = Put(bodies, b.at, date)
         /\ \/ /\ index[name] = 0
               /\ ufree' = u.left /\ bfree' = b.left
               /\ index' = [index EXCEPT ![name] = u.at]
               /\ lastUniq' = lastUniq + 1
               /\ Goto(p, IF loc[p].id # 0 THEN "endown" ELSE "lookup")
            \/ /\ ufree' = Append(u.left, u.at) /\ bfree' = Append(b.left, b.at)
               /\ index' = index /\ lastUniq' = lastUniq
               /\ End(p, 0)
  BY <1>3 DEF AddUser, Unused, TakenBack
<1>6. Continues(p)
  <2>1. CASE End(p, 0)
    BY <2>1, EndRight
  <2>2. CASE Goto(p, IF loc[p].id # 0 THEN "endown" ELSE "lookup")
    <3>1. PICK pc : pc = IF loc[p].id # 0 THEN "endown" ELSE "lookup"
      OBVIOUS
    <3>2. pc \in {"endown", "lookup"}
      BY <3>1
    <3> DEFINE m == [loc[p] EXCEPT !.pc = pc, !.since = now]
    <3>3. loc' = [loc EXCEPT ![p] = m]
      BY <1>2, <2>2, <3>1 DEF Goto, Memory
    <3>4. m \in Memory /\ m.pc = pc /\ m.rq = loc[p].rq /\ m.heir = loc[p].heir
      BY <1>2, <3>2, Numbers DEF Memory, Pc
    <3> HIDE DEF m
    <3>5. loc'[p] = m
      BY <3>3, Old
    <3>6. Role(m)
      BY <1>2, <3>2, <3>4 DEF Role
    <3>7. HandRight(p)'
      BY <3>2, <3>4, <3>5, <3>6 DEF HandRight, Role, RecordRight, SessionRight
    <3> QED
      BY <3>3, <3>4, <3>7, SameErrand
  <2> QED
    BY <1>5, <2>1, <2>2
<1>7. /\ u.at \in 1..(Len(users) + 1) /\ u.left \in Seq(1..Len(users))
      /\ b.at \in 1..(Len(bodies) + 1) /\ b.left \in Seq(1..Len(bodies))
  BY SpaceFacts, PlacesKnown, Numbers
<1>8. PICK at, ui, full :
         /\ at = u.at /\ full = b.at
         /\ ui = [name |-> name, uniq |-> lastUniq + 1, full |-> full]
  OBVIOUS
<1>9. /\ ui \in User /\ ui.name = name /\ ui.uniq = lastUniq + 1 /\ ui.full = full
      /\ lastUniq \in Nat
  BY <1>4, <1>7, <1>8 DEF User, AccountsInv, FilesInv
<1>10. Written(users, users', at, ui)
  <2>1. users' = Put(users, at, ui)
    BY <1>5, <1>8
  <2>2. users \in Seq(User) /\ at \in 1..(Len(users) + 1)
    BY <1>7, <1>8 DEF AccountsInv, FilesInv
  <2>3. Written(users, Put(users, at, ui), at, ui)
    BY <1>9, <2>2, PutWrites
  <2> QED
    BY <2>1, <2>3
<1>11. Written(bodies, bodies', full, date)
  <2>1. bodies' = Put(bodies, full, date)
    BY <1>5, <1>8
  <2>2. bodies \in Seq(Nat) /\ full \in 1..(Len(bodies) + 1)
    BY <1>7, <1>8 DEF AccountsInv, FilesInv
  <2>3. Written(bodies, Put(bodies, full, date), full, date)
    BY <1>4, <2>2, PutWrites
  <2> QED
    BY <2>1, <2>3
<1>12. \A a \in Registered : /\ a \in Names /\ index[a] # at /\ Full(a) # full
                             /\ index[a] \in DOMAIN users /\ Full(a) \in DOMAIN bodies
  BY <1>8, NobodysPlace, PlacesKnown
<1>13. /\ IsInjective(u.left)
       /\ \A x : x \in ToSet(u.left) <=> x \in ToSet(ufree) /\ x # at
  <2>1. PICK n, free : n = Len(users) /\ free = ufree
    OBVIOUS
  <2>2. n \in Nat /\ free \in Seq(1..n) /\ IsInjective(free) /\ u \in Space(free, n)
    BY <2>1, PlacesKnown, Numbers
  <2> QED
    BY <1>8, <2>1, <2>2, SpaceRight
<1>14. /\ IsInjective(b.left)
       /\ \A x : x \in ToSet(b.left) <=> x \in ToSet(bfree) /\ x # full
  <2>1. PICK n, free : n = Len(bodies) /\ free = bfree
    OBVIOUS
  <2>2. n \in Nat /\ free \in Seq(1..n) /\ IsInjective(free) /\ b \in Space(free, n)
    BY <2>1, PlacesKnown, Numbers
  <2> QED
    BY <1>8, <2>1, <2>2, SpaceRight
<1>15. NamesRight /\ PlacesRight
  BY DEF RightInv, FilesRight
\* The record that is nobody's is written; who had one has it still.
<1>16. \A a \in Registered : users'[index[a]] = users[index[a]]
  BY <1>10, <1>12 DEF Written
<1>17. \A a \in Registered : bodies'[Full(a)] = bodies[Full(a)]
  BY <1>11, <1>12 DEF Written
<1>18. CASE /\ index[name] = 0
            /\ ufree' = u.left /\ bfree' = b.left
            /\ index' = [index EXCEPT ![name] = at]
            /\ lastUniq' = lastUniq + 1
  <2>1. /\ index \in [Names -> 0..Len(users)] /\ at # 0
        /\ \A a : a \in Registered' <=> a \in Registered \/ a = name
        /\ \A a \in Registered : index'[a] = index[a]
        /\ index'[name] = at /\ name \notin Registered
    <3>1. index \in [Names -> 0..Len(users)] /\ at # 0
      BY <1>7, <1>8, Numbers DEF AccountsInv, FilesInv
    <3> QED
      BY <1>4, <1>18, <3>1 DEF Registered
  <2>2. /\ \A a \in Registered : Full(a)' = Full(a)
        /\ Full(name)' = full
    BY <1>9, <1>10, <1>16, <2>1 DEF Full, Written
  <2>3. NamesRight'
    <3>1. \A a \in Registered : users[index[a]].uniq \in Nat /\ users[index[a]].uniq # lastUniq + 1
      BY <1>9, <1>12, <1>15, Numbers DEF NamesRight, User
    <3>2. \A a \in Registered' : users'[index'[a]].name = a
      BY <1>9, <1>10, <1>15, <1>16, <2>1 DEF NamesRight, Written
    <3>3. \A a \in Registered' : \A c \in Registered' :
             users'[index'[a]].uniq = users'[index'[c]].uniq => a = c
      BY <1>9, <1>10, <1>15, <1>16, <2>1, <3>1 DEF NamesRight, Written
    <3>4. \A a \in Registered' : users'[index'[a]].uniq <= lastUniq'
      <4>1. \A a \in Registered : users[index[a]].uniq <= lastUniq + 1
        BY <1>9, <1>15, <3>1 DEF NamesRight
      <4> QED
        BY <1>9, <1>10, <1>16, <1>18, <2>1, <4>1 DEF Written
    <3> QED
      BY <3>2, <3>3, <3>4 DEF NamesRight
  <2>4. PlacesRight'
    <3>1. \A a, c \in Registered' : index'[a] = index'[c] \/ Full(a)' = Full(c)' => a = c
      BY <1>12, <1>15, <2>1, <2>2 DEF PlacesRight
    <3>2. \A a \in Registered' : index'[a] \notin ToSet(ufree') /\ Full(a)' \notin ToSet(bfree')
      BY <1>13, <1>14, <1>15, <1>18, <2>1, <2>2 DEF PlacesRight
    <3>3. ASSUME NEW x \in DOMAIN users' PROVE x \in ToSet(ufree') \/ Used(x)'
      <4>1. CASE x = at
        BY <2>1, <4>1 DEF Used
      <4>2. CASE x # at
        <5>1. x \in ToSet(ufree) \/ Used(x)
          BY <1>10, <1>15, <4>2 DEF Written, PlacesRight
        <5> QED
          BY <1>13, <1>18, <2>1, <4>2, <5>1 DEF Used
      <4> QED
        BY <4>1, <4>2
    <3>4. ASSUME NEW x \in DOMAIN bodies'
          PROVE  x \in ToSet(bfree') \/ \E a \in Registered' : Full(a)' = x
      <4>1. CASE x = full
        BY <2>1, <2>2, <4>1
      <4>2. CASE x # full
        <5>1. x \in ToSet(bfree) \/ \E a \in Registered : Full(a) = x
          BY <1>11, <1>15, <4>2 DEF Written, PlacesRight
        <5> QED
          BY <1>14, <1>18, <2>1, <2>2, <4>2, <5>1
      <4> QED
        BY <4>1, <4>2
    <3> QED
      BY <1>13, <1>14, <1>18, <3>1, <3>2, <3>3, <3>4 DEF PlacesRight
  <2>5. KeepsRecords
    <3>1. \A x : Used(x) => Used(x)'
      BY <2>1 DEF Used
    <3>2. ~alone => \A x \in DOMAIN users : (Filling => Used(x)) => users'[x] = users[x]
      BY <1>2, <1>16 DEF Used
    <3>3. ASSUME alone, NEW x \in DOMAIN users, Used(x)'
          PROVE  \/ Used(x) /\ users'[x].uniq = users[x].uniq /\ Date(x)' = Date(x)
                 \/ \A i \in DOMAIN auth : auth[i].expire <= Date(x)' + TTL
      <4>1. CASE x = at
        <5>1. Date(x)' = date
          BY <1>9, <1>10, <1>11, <4>1 DEF Date, Written
        <5> QED
          BY <1>1, <1>2, <1>3, <3>3, <5>1 DEF HandRight, SessionRight
      <4>2. CASE x # at
        <5>1. PICK a \in Registered : index[a] = x
          BY <2>1, <3>3, <4>2 DEF Used
        <5>2. users'[x] = users[x] /\ bodies'[users[x].full] = bodies[users[x].full]
          BY <1>16, <1>17, <5>1 DEF Full
        <5> QED
          BY <5>1, <5>2 DEF Used, Date
      <4> QED
        BY <4>1, <4>2
    <3> QED
      BY <3>1, <3>2, <3>3 DEF KeepsRecords
  <2> QED
    BY <1>1, <1>2, <1>6, <2>3, <2>4, <2>5, FilesMove DEF FilesRight
\* The name was taken meanwhile: the places go back.
<1>19. CASE /\ ufree' = Append(u.left, at) /\ bfree' = Append(b.left, full)
            /\ index' = index /\ lastUniq' = lastUniq
  <2>1. /\ Registered' = Registered
        /\ \A a \in Registered : Full(a)' = Full(a)
        /\ \A x : Used(x)' <=> Used(x)
    <3>1. Registered' = Registered
      BY <1>19 DEF Registered
    <3> QED
      BY <1>16, <1>19, <3>1 DEF Full, Used
  <2>2. NamesRight'
    <3>1. \A a \in Registered' : users'[index'[a]].name = a
      BY <1>15, <1>16, <1>19, <2>1 DEF NamesRight
    <3>2. \A a, c \in Registered' : users'[index'[a]].uniq = users'[index'[c]].uniq => a = c
      BY <1>15, <1>16, <1>19, <2>1 DEF NamesRight
    <3>3. \A a \in Registered' : users'[index'[a]].uniq <= lastUniq'
      BY <1>15, <1>16, <1>19, <2>1 DEF NamesRight
    <3> QED
      BY <3>1, <3>2, <3>3 DEF NamesRight
  <2>3. /\ IsInjective(ufree') /\ \A x : x \in ToSet(ufree') <=> x \in ToSet(u.left) \/ x = at
    <3>1. PICK S : S = 1..(Len(users) + 1)
      OBVIOUS
    <3>2. PICK left : left = u.left
      OBVIOUS
    <3>3. left \in Seq(S) /\ at \in S /\ IsInjective(left) /\ at \notin ToSet(left)
      <4>1. left \in Seq(S)
        BY <1>7, <3>1, <3>2, PlacesStill, Numbers
      <4> QED
        BY <1>7, <1>8, <1>13, <3>1, <3>2, <4>1
    <3> QED
      BY <1>19, <3>2, <3>3, AppendRight
  <2>4. /\ IsInjective(bfree') /\ \A x : x \in ToSet(bfree') <=> x \in ToSet(b.left) \/ x = full
    <3>1. PICK S : S = 1..(Len(bodies) + 1)
      OBVIOUS
    <3>2. PICK left : left = b.left
      OBVIOUS
    <3>3. left \in Seq(S) /\ full \in S /\ IsInjective(left) /\ full \notin ToSet(left)
      <4>1. left \in Seq(S)
        BY <1>7, <3>1, <3>2, PlacesStill, Numbers
      <4> QED
        BY <1>7, <1>8, <1>14, <3>1, <3>2, <4>1
    <3> QED
      BY <1>19, <3>2, <3>3, AppendRight
  <2>5. PlacesRight'
    <3>1. \A a, c \in Registered' : index'[a] = index'[c] \/ Full(a)' = Full(c)' => a = c
      BY <1>15, <1>19, <2>1 DEF PlacesRight
    <3>2. \A a \in Registered' : index'[a] \notin ToSet(ufree') /\ Full(a)' \notin ToSet(bfree')
      BY <1>12, <1>13, <1>14, <1>15, <1>19, <2>1, <2>3, <2>4 DEF PlacesRight
    <3>3. ASSUME NEW x \in DOMAIN users' PROVE x \in ToSet(ufree') \/ Used(x)'
      <4>1. x = at \/ x \in ToSet(ufree) \/ Used(x)
        BY <1>10, <1>15 DEF Written, PlacesRight
      <4> QED
        BY <1>13, <2>1, <2>3, <4>1
    <3>4. ASSUME NEW x \in DOMAIN bodies'
          PROVE  x \in ToSet(bfree') \/ \E a \in Registered' : Full(a)' = x
      <4>1. x = full \/ x \in ToSet(bfree) \/ \E a \in Registered : Full(a) = x
        BY <1>11, <1>15 DEF Written, PlacesRight
      <4> QED
        BY <1>14, <2>1, <2>4, <4>1
    <3> QED
      BY <2>3, <2>4, <3>1, <3>2, <3>3, <3>4 DEF PlacesRight
  <2>6. KeepsRecords
    <3>1. \A x : Used(x) => users'[x] = users[x]
      BY <1>16 DEF Used
    <3>2. ASSUME NEW x, Used(x) PROVE users'[x].uniq = users[x].uniq /\ Date(x)' = Date(x)
      <4>1. PICK a \in Registered : index[a] = x
        BY <3>2 DEF Used
      <4>2. bodies'[users[x].full] = bodies[users[x].full]
        BY <1>17, <4>1 DEF Full
      <4> QED
        BY <3>1, <3>2, <4>2 DEF Date
    <3> QED
      BY <1>2, <2>1, <3>1, <3>2 DEF KeepsRecords
  <2> QED
    BY <1>1, <1>2, <1>6, <2>2, <2>5, <2>6, FilesMove DEF FilesRight
<1> QED
  BY <1>5, <1>8, <1>18, <1>19

LEMMA ModifyUserRight ==
    ASSUME AccountsInv, RightInv, NEW p \in Procs, ModifyUser(p)
    PROVE  RightInv'
<1>1. loc[p].pc = "rewrite" /\ UNCHANGED <<sessionVars, alone>> /\ End(p, 0)
  BY DEF ModifyUser, At
<1>2. /\ Turn(p) /\ HandRight(p) /\ Role(loc[p]) /\ loc[p] \in Memory
      /\ loc[p].rq.op = "modify" /\ loc[p].created \in Nat /\ alone
  BY <1>1, HasTurn DEF Role, Memory, RightInv, Apart
<1>3. Continues(p)
  BY <1>1, EndRight
<1>4. PICK name, date, at : name = Name(p) /\ date = loc[p].created /\ at = loc[p].at
  OBVIOUS
<1>5. /\ name \in Names /\ index[name] = at /\ at # 0 /\ name \in Registered
      /\ at \in DOMAIN users /\ date = Date(at) /\ date \in Nat
  <2>1. name \in Names /\ index[name] = at
    BY <1>1, <1>2, <1>4, NameKnown DEF HandRight, RecordRight
  <2>2. at # 0 /\ at \in DOMAIN users
    BY <1>1, <1>2, <1>4, Old, Numbers DEF Good, Points, Memory
  <2>3. date = Date(at)
    BY <1>1, <1>2, <1>4, <2>1, <2>2 DEF HandRight, RecordRight
  <2> QED
    BY <1>2, <1>4, <2>1, <2>2, <2>3 DEF Registered
<1>6. NamesRight /\ PlacesRight
  BY DEF RightInv, FilesRight
<1>7. users[at].name = name
  BY <1>5, <1>6 DEF NamesRight
<1>8. PICK old : old = users[at].full
  OBVIOUS
<1>9. old = Full(name) /\ old \in DOMAIN bodies /\ old \notin ToSet(bfree)
  BY <1>5, <1>8, PlacesKnown DEF Full
<1>10. PICK b \in Space(Append(bfree, old), Len(bodies)) :
          /\ bfree' = b.left /\ bodies' = Put(bodies, b.at, date)
          /\ users' = [users EXCEPT ![at].full = b.at]
  BY <1>4, <1>7, <1>8 DEF ModifyUser
<1>11. index' = index /\ ufree' = ufree /\ lastUniq' = lastUniq
  BY <1>4, <1>7 DEF ModifyUser
<1>12. PICK n, free, full : n = Len(bodies) /\ free = Append(bfree, old) /\ full = b.at
  OBVIOUS
<1>13. /\ n \in Nat /\ free \in Seq(1..n) /\ IsInjective(free) /\ b \in Space(free, n)
       /\ \A x : x \in ToSet(free) <=> x \in ToSet(bfree) \/ x = old
       /\ \A x \in ToSet(free) : x \in DOMAIN bodies
  <2>1. PICK S : S = 1..Len(bodies)
    OBVIOUS
  <2>2. bfree \in Seq(S) /\ old \in S /\ IsInjective(bfree)
    BY <1>9, <2>1, PlacesKnown, Numbers
  <2>3. IsInjective(free) /\ \A x : x \in ToSet(free) <=> x \in ToSet(bfree) \/ x = old
    BY <1>9, <1>12, <2>2, AppendRight
  <2>4. n \in Nat /\ free \in Seq(1..n)
    BY <1>12, <2>1, <2>2, Numbers
  <2> QED
    BY <1>9, <1>12, <2>3, <2>4, PlacesKnown
<1>14. /\ full \in 1..(n + 1) /\ IsInjective(bfree')
       /\ \A x : x \in ToSet(bfree') <=> x \in ToSet(free) /\ x # full
       /\ full = n + 1 \/ full \in ToSet(free)
  <2>1. /\ IsInjective(b.left)
        /\ \A x : x \in ToSet(b.left) <=> x \in ToSet(free) /\ x # b.at
        /\ b.at = n + 1 \/ b.at \in ToSet(free)
    BY <1>13, SpaceRight
  <2>2. b.at \in 1..(n + 1)
    BY <1>13, SpaceFacts
  <2> QED
    BY <1>10, <1>12, <2>1, <2>2
<1>15. Written(bodies, bodies', full, date)
  <2>1. bodies' = Put(bodies, full, date)
    BY <1>10, <1>12
  <2>2. bodies \in Seq(Nat) /\ full \in 1..(Len(bodies) + 1)
    BY <1>12, <1>14 DEF AccountsInv, FilesInv
  <2>3. Written(bodies, Put(bodies, full, date), full, date)
    BY <1>5, <2>2, PutWrites
  <2> QED
    BY <2>1, <2>3
<1>16. /\ DOMAIN users' = DOMAIN users
       /\ \A x \in DOMAIN users : x # at => users'[x] = users[x]
       /\ users'[at].name = users[at].name /\ users'[at].uniq = users[at].uniq
       /\ users'[at].full = full
  <2>1. users \in Seq(User) /\ users[at] \in User
    BY <1>5, Numbers DEF AccountsInv, FilesInv
  <2>2. PICK r : r = [users[at] EXCEPT !.full = full]
    OBVIOUS
  <2>3. users' = [users EXCEPT ![at] = r]
    BY <1>10, <1>12, <2>2
  <2>4. r.name = users[at].name /\ r.uniq = users[at].uniq /\ r.full = full
    BY <2>1, <2>2 DEF User
  <2> QED
    BY <1>5, <2>1, <2>3, <2>4
<1>17. Registered' = Registered
  BY <1>11 DEF Registered
\* Where another's full record is, nothing is written.
<1>18. \A a \in Registered : a # name =>
          /\ index[a] # at /\ Full(a) # old /\ Full(a) # full
          /\ index[a] \in DOMAIN users /\ Full(a) \in DOMAIN bodies
  <2>1. SUFFICES ASSUME NEW a \in Registered, a # name
                 PROVE  /\ index[a] # at /\ Full(a) # old /\ Full(a) # full
                        /\ index[a] \in DOMAIN users /\ Full(a) \in DOMAIN bodies
    OBVIOUS
  <2>2. index[a] # at /\ Full(a) # old
    BY <1>5, <1>6, <1>9, <2>1 DEF PlacesRight
  <2>3. Full(a) \notin ToSet(free)
    BY <1>13, <2>2, PlacesKnown
  <2>4. Full(a) # n + 1
    BY <1>12, PlacesKnown, Numbers
  <2> QED
    BY <1>14, <2>2, <2>3, <2>4, PlacesKnown
<1>19. /\ \A a \in Registered : a # name => Full(a)' = Full(a)
       /\ Full(name)' = full
  BY <1>5, <1>11, <1>16, <1>18 DEF Full
<1>20. NamesRight'
  <2>1. \A a \in Registered : /\ users'[index[a]].name = users[index[a]].name
                              /\ users'[index[a]].uniq = users[index[a]].uniq
    BY <1>5, <1>16, <1>18
  <2>2. \A a \in Registered' : users'[index'[a]].name = a
    BY <1>6, <1>11, <1>17, <2>1 DEF NamesRight
  <2>3. \A a, c \in Registered' : users'[index'[a]].uniq = users'[index'[c]].uniq => a = c
    BY <1>6, <1>11, <1>17, <2>1 DEF NamesRight
  <2>4. \A a \in Registered' : users'[index'[a]].uniq <= lastUniq'
    BY <1>6, <1>11, <1>17, <2>1 DEF NamesRight
  <2> QED
    BY <2>2, <2>3, <2>4 DEF NamesRight
<1>21. PlacesRight'
  <2>1. \A a, c \in Registered' : index'[a] = index'[c] \/ Full(a)' = Full(c)' => a = c
    BY <1>5, <1>6, <1>11, <1>17, <1>18, <1>19 DEF PlacesRight
  <2>2. \A a \in Registered' : Full(a)' \notin ToSet(bfree')
    <3>1. \A a \in Registered : a # name => Full(a) \notin ToSet(bfree')
      BY <1>13, <1>14, <1>18, PlacesKnown
    <3>2. full \notin ToSet(bfree')
      BY <1>14
    <3> QED
      BY <1>17, <1>19, <3>1, <3>2
  <2>3. ASSUME NEW x \in DOMAIN bodies'
        PROVE  x \in ToSet(bfree') \/ \E a \in Registered' : Full(a)' = x
    <3>1. CASE x = full
      BY <1>5, <1>17, <1>19, <3>1
    <3>2. CASE x # full
      <4>1. x \in ToSet(free) \/ \E a \in Registered : a # name /\ Full(a) = x
        BY <1>6, <1>9, <1>13, <1>15, <3>2 DEF Written, PlacesRight
      <4> QED
        BY <1>14, <1>17, <1>19, <3>2, <4>1
    <3> QED
      BY <3>1, <3>2
  <2>4. \A x : Used(x)' <=> Used(x)
    BY <1>11, <1>17 DEF Used
  <2>5. /\ IsInjective(ufree') /\ \A a \in Registered' : index'[a] \notin ToSet(ufree')
        /\ \A x \in DOMAIN users' : x \in ToSet(ufree') \/ Used(x)'
    BY <1>6, <1>11, <1>16, <1>17, <2>4 DEF PlacesRight
  <2> QED
    BY <1>14, <2>1, <2>2, <2>3, <2>5 DEF PlacesRight
<1>22. KeepsRecords
  <2>1. ASSUME NEW x, Used(x) PROVE users'[x].uniq = users[x].uniq /\ Date(x)' = Date(x)
    <3>1. PICK a \in Registered : index[a] = x
      BY <2>1 DEF Used
    <3>2. CASE a = name
      <4>1. x = at /\ bodies'[full] = date
        BY <1>5, <1>15, <3>1, <3>2 DEF Written
      <4> QED
        BY <1>5, <1>16, <4>1 DEF Date
    <3>3. CASE a # name
      <4>1. users'[x] = users[x] /\ users[x].full = Full(a)
        BY <1>16, <1>18, <3>1, <3>3 DEF Full
      <4>2. bodies'[Full(a)] = bodies[Full(a)]
        BY <1>15, <1>18, <3>3 DEF Written
      <4> QED
        BY <4>1, <4>2 DEF Date
    <3> QED
      BY <3>2, <3>3
  <2>2. \A x : Used(x)' <=> Used(x)
    BY <1>11, <1>17 DEF Used
  <2> QED
    BY <1>2, <2>1, <2>2 DEF KeepsRecords
<1> QED
  BY <1>1, <1>2, <1>3, <1>20, <1>21, <1>22, FilesMove DEF FilesRight

LEMMA ClockRight ==
    ASSUME AccountsInv, RightInv, Clock
    PROVE  RightInv'
<1>1. /\ now' = now + 1 /\ auth' = auth /\ UNCHANGED profileVars
      /\ alone' = alone /\ loc' = loc
  BY DEF Clock, Tick
<1>2. now \in Nat /\ TTL \in Nat
  BY Numbers, SessionsAssumption
<1>3. Apart' /\ OneWorks' /\ FilesRight' /\ (Filling' <=> Filling) /\ Heirs' = Heirs
  <2>1. Apart' /\ OneWorks' /\ (Filling' <=> Filling) /\ Heirs' = Heirs
    BY <1>1 DEF RightInv, Apart, OneWorks, Working, Filling, Heirs
  <2> QED
    BY <1>1, <2>1, FilesStayRight
<1>4. /\ users' = users /\ index' = index
      /\ \A x : (Used(x)' <=> Used(x)) /\ Date(x)' = Date(x)
  BY <1>1 DEF profileVars, Used, Date, Registered
<1>5. ASSUME NEW q \in Procs PROVE HandRight(q)'
  <2>1. PICK m : m = loc[q]
    OBVIOUS
  <2>2. Role(m) /\ RecordRight(q) /\ SessionRight(q) /\ loc'[q] = m /\ Name(q)' = Name(q)
    BY <1>1, <2>1 DEF RightInv, HandRight, Name
  <2>3. RecordRight(q)'
    BY <1>3, <1>4, <2>1, <2>2 DEF RecordRight
  <2>4. SessionRight(q)'
    BY <1>1, <1>3, <1>4, <2>1, <2>2 DEF SessionRight
  <2> QED
    BY <2>2, <2>3, <2>4 DEF HandRight, Role
<1>6. ASSUME NEW i \in DOMAIN auth PROVE EntryRight(auth[i])'
  <2>1. PICK e : e = auth[i]
    OBVIOUS
  <2>2. EntryRight(e) /\ e.expire \in Nat
    BY <2>1, Numbers DEF RightInv, SessionsRight
  <2>3. e.expire > now' => e.expire > now
    BY <1>1, <1>2, <2>2
  <2>4. e.expire <= now' + TTL
    BY <1>1, <1>2, <2>2 DEF EntryRight
  <2>5. EntryRight(e)'
    BY <1>1, <1>3, <1>4, <2>2, <2>3, <2>4 DEF EntryRight
  <2> QED
    BY <1>1, <2>1, <2>5 DEF EntryRight
<1>7. SessionsRight'
  BY <1>1, <1>6 DEF SessionsRight, EntryRight
<1> QED
  BY <1>3, <1>5, <1>7 DEF RightInv

LEMMA OpenSessionRight ==
    ASSUME AccountsInv, RightInv, NEW p \in Procs, OpenSession(p)
    PROVE  RightInv'
<1>1. loc[p].pc = "open" /\ UNCHANGED <<profileVars, alone>> /\ Goto(p, "stamp")
  BY DEF OpenSession, At
<1>2. /\ Turn(p) /\ HandRight(p) /\ Role(loc[p]) /\ loc[p] \in Memory
      /\ now \in Nat /\ TTL \in Nat /\ issued \in Nat
  BY <1>1, HasTurn, Numbers, SessionsAssumption
<1>3. PICK tn \in loc[p].since..now :
         OpenAuthSequence(tn, loc[p].ui.uniq, loc[p].rq.unbound, loc[p].at)
  BY DEF OpenSession
<1>4. PICK e : e = [id |-> issued + 1, uniq |-> loc[p].ui.uniq, unbound |-> loc[p].rq.unbound,
                    at |-> loc[p].at, expire |-> now + TTL]
  OBVIOUS
<1>5. /\ now' = now
      /\ \A i \in DOMAIN auth' : auth'[i] = e \/ (i \in DOMAIN auth /\ auth'[i] = auth[i])
  <2>1. auth \in Seq(Entry)
    BY DEF AccountsInv, SessionInv, SessionTypeOK
  <2>2. CASE \E i \in DOMAIN auth : auth' = [auth EXCEPT ![i] = e]
    BY <1>3, <2>1, <2>2 DEF OpenAuthSequence
  <2>3. CASE auth' = Append(auth, e)
    <3>1. \A i \in DOMAIN auth' : i = Len(auth) + 1 \/ i \in DOMAIN auth
      BY <2>1, <2>3
    <3>2. auth'[Len(auth) + 1] = e /\ \A i \in DOMAIN auth : auth'[i] = auth[i]
      BY <2>1, <2>3
    <3> QED
      BY <1>3, <3>1, <3>2 DEF OpenAuthSequence
  <2> QED
    BY <1>3, <1>4, <2>2, <2>3 DEF OpenAuthSequence
<1> DEFINE m == [loc[p] EXCEPT !.pc = "stamp", !.since = now]
<1>6. loc' = [loc EXCEPT ![p] = m]
  BY <1>1, <1>2 DEF Goto, Memory
<1>7. /\ m \in Memory /\ m.pc = "stamp" /\ m.rq = loc[p].rq /\ m.heir = loc[p].heir
      /\ m.at = loc[p].at /\ m.ui = loc[p].ui
  BY <1>2 DEF Memory, Pc
<1> HIDE DEF m
<1>8. loc'[p] = m /\ \A q \in Procs \ {p} : loc'[q] = loc[q]
  BY <1>6, Old
<1>9. Steps(p)
  BY <1>1, <1>2, <1>7, <1>8 DEF Steps, Turn
<1>10. PICK k : k = loc[p].at
  OBVIOUS
<1>11. /\ users' = users /\ alone' = alone
       /\ \A x : Used(x)' = Used(x)
  BY <1>1 DEF profileVars, Used, Registered
<1>12. (Filling' => Used(k)) /\ users[k] = loc[p].ui
  BY <1>1, <1>2, <1>9, <1>10, StepsStill DEF HandRight, RecordRight
<1>13. HandRight(p)'
  <2>1. Role(m)
    BY <1>1, <1>2, <1>7 DEF Role
  <2>2. RecordRight(p)'
    BY <1>7, <1>8, <1>10, <1>11, <1>12 DEF RecordRight
  <2> QED
    BY <1>7, <1>8, <2>1, <2>2 DEF HandRight, Role, SessionRight
<1>14. EntryRight(e)'
  <2>1. e.at = k /\ e.uniq = users[k].uniq /\ e.expire = now + TTL
    BY <1>4, <1>10, <1>12
  <2>2. /\ e.expire <= now' + TTL /\ (Filling' => Used(e.at)') /\ users'[e.at].uniq = e.uniq
    BY <1>2, <1>5, <1>11, <1>12, <2>1
  <2> QED
    BY <2>2 DEF EntryRight
<1>15. ASSUME NEW i \in DOMAIN auth' PROVE EntryRight(auth[i])'
  <2>1. CASE auth'[i] = e
    BY <1>14, <2>1 DEF EntryRight
  <2>2. CASE i \in DOMAIN auth /\ auth'[i] = auth[i]
    <3>1. PICK f : f = auth[i]
      OBVIOUS
    <3>2. EntryRight(f)'
      BY <1>1, <1>5, <1>9, <2>2, <3>1, EntryKept
    <3> QED
      BY <2>2, <3>1, <3>2 DEF EntryRight
  <2> QED
    BY <1>5, <2>1, <2>2
<1>16. SessionsRight'
  BY <1>15 DEF SessionsRight, EntryRight
<1> QED
  BY <1>1, <1>9, <1>13, <1>16, SessionsMove

-----------------------------------------------------------------------------
(* What follows for every run of such requests. *)

\* A database is sound to start from when its names, places and sessions are
\* right, and the requests that come keep apart.
Sound == Apart /\ NamesAgree /\ PlacesAccounted /\ SessionsRight

LEMMA PlacesSame ==
    ASSUME PlacesAccounted
    PROVE  PlacesRight
<1> DEFINE used == [name \in Registered |-> users[index[name]].full]
<1>1. \A name \in Registered : used[name] = Full(name)
  BY DEF Full
<1>2. /\ IsInjective(ufree) /\ IsInjective(bfree)
      /\ IsInjective([name \in Registered |-> index[name]]) /\ IsInjective(used)
      /\ Places(index) \cap ToSet(ufree) = {}
      /\ Places(index) \cup ToSet(ufree) = DOMAIN users
      /\ Places(used) \cap ToSet(bfree) = {}
      /\ Places(used) \cup ToSet(bfree) = DOMAIN bodies
  BY DEF PlacesAccounted
<1>3. \A a, b \in Registered : index[a] = index[b] \/ Full(a) = Full(b) => a = b
  BY <1>1, <1>2 DEF IsInjective
<1>4. \A a \in Registered : index[a] \in Places(index) /\ Full(a) \in Places(used)
  BY <1>1 DEF Places
<1>5. \A x : x \in Places(index) => Used(x)
  BY DEF Places, Used
<1>6. \A x : x \in Places(used) => \E a \in Registered : Full(a) = x
  BY <1>1 DEF Places
<1>7. \A a \in Registered : index[a] \notin ToSet(ufree) /\ Full(a) \notin ToSet(bfree)
  BY <1>2, <1>4
<1>8. \A x \in DOMAIN users : x \in ToSet(ufree) \/ Used(x)
  BY <1>2, <1>5
<1>9. \A x \in DOMAIN bodies : x \in ToSet(bfree) \/ \E a \in Registered : Full(a) = x
  BY <1>2, <1>6
<1> QED
  BY <1>2, <1>3, <1>7, <1>8, <1>9 DEF PlacesRight

LEMMA InitRight ==
    ASSUME Init, Sound
    PROVE  RightInv
<1>1. \A p \in Procs : \E rq : loc[p] = Idle("start", rq) \/ loc[p] = Idle("done", rq)
  BY DEF Init
<1>2. \A p \in Procs : loc[p].pc \in {"start", "done"} /\ loc[p].heir = 0
  <2>1. SUFFICES ASSUME NEW p \in Procs PROVE loc[p].pc \in {"start", "done"} /\ loc[p].heir = 0
    OBVIOUS
  <2>2. PICK rq : loc[p] = Idle("start", rq) \/ loc[p] = Idle("done", rq)
    BY <1>1
  <2>3. CASE loc[p] = Idle("start", rq)
    BY <2>3 DEF Idle
  <2>4. CASE loc[p] = Idle("done", rq)
    BY <2>4 DEF Idle
  <2> QED
    BY <2>2, <2>3, <2>4
<1>3. \A p \in Procs : HandRight(p)
  BY <1>2 DEF HandRight, Role, RecordRight, SessionRight
<1>4. OneWorks
  BY <1>2 DEF OneWorks, Working
<1>5. FilesRight
  BY PlacesSame DEF Sound, NamesAgree, NamesRight, FilesRight
<1> QED
  BY <1>3, <1>4, <1>5 DEF Sound, RightInv

LEMMA RightNext ==
    ASSUME AccountsInv, RightInv, [Next]_vars
    PROVE  RightInv'
<1>1. CASE UNCHANGED vars
  <2>1. /\ UNCHANGED profileVars /\ auth' = auth /\ now' = now /\ alone' = alone /\ loc' = loc
        /\ index' = index /\ users' = users /\ bodies' = bodies
    BY <1>1 DEF vars, sessionVars, profileVars
  <2>2. FilesRight'
    BY <2>1, FilesStayRight
  <2>3. Apart' /\ OneWorks' /\ (Filling' <=> Filling) /\ Heirs' = Heirs
    BY <2>1 DEF RightInv, Apart, OneWorks, Working, Filling, Heirs
  <2>4. \A x : (Used(x)' <=> Used(x)) /\ Date(x)' = Date(x)
    BY <2>1 DEF Used, Date, Registered
  <2>5. ASSUME NEW q \in Procs PROVE HandRight(q)'
    <3>1. PICK m : m = loc[q]
      OBVIOUS
    <3>2. Role(m) /\ RecordRight(q) /\ SessionRight(q) /\ loc'[q] = m /\ Name(q)' = Name(q)
      BY <2>1, <3>1 DEF RightInv, HandRight, Name
    <3>3. RecordRight(q)'
      BY <2>1, <2>3, <2>4, <3>1, <3>2 DEF RecordRight
    <3>4. SessionRight(q)'
      BY <2>1, <2>3, <2>4, <3>1, <3>2 DEF SessionRight
    <3> QED
      BY <3>2, <3>3, <3>4 DEF HandRight, Role
  <2>6. ASSUME NEW i \in DOMAIN auth PROVE EntryRight(auth[i])'
    <3>1. PICK e : e = auth[i]
      OBVIOUS
    <3>2. EntryRight(e)
      BY <3>1 DEF RightInv, SessionsRight
    <3>3. EntryRight(e)'
      BY <2>1, <2>3, <2>4, <3>2 DEF EntryRight
    <3> QED
      BY <2>1, <3>1, <3>3 DEF EntryRight
  <2> QED
    BY <2>1, <2>2, <2>3, <2>5, <2>6 DEF RightInv, SessionsRight, EntryRight
<1>2. ASSUME NEW p \in Procs, Begin(p) \/ Serve(p)
      PROVE  RightInv'
  <2>1. CASE Begin(p)
    BY <2>1, BeginRight
  <2>2. CASE Visit(p)
    BY <2>2, CheckSessionRight, ReadProfileRight, RejectSessionRight, TouchProfileRight DEF Visit
  <2>3. CASE Login(p)
    BY <2>3, EndOwnSessionRight, FindAccountRight, OpenSessionRight, StampLoginRight DEF Login
  <2>4. CASE ChangeAccount(p)
    BY <2>4, CheckNameRight, AddUserRight, FindRemovedRight, FindPlaceRight, DeleteUserRight,
       CloseSessionsRight, LoadOwnRight, ModifyUserRight DEF ChangeAccount
  <2>5. CASE PickSession(p) \/ CloseOther(p)
    BY <2>5, PickSessionRight, CloseOtherRight
  <2> QED
    BY <1>2, <2>1, <2>2, <2>3, <2>4, <2>5 DEF Serve
<1>3. CASE Clock
  BY <1>3, ClockRight
<1>4. CASE AllServed
  BY <1>1, <1>4 DEF AllServed
<1> QED
  BY <1>1, <1>2, <1>3, <1>4 DEF Next

THEOREM AccountsStayRight == Sound /\ Spec => []RightInv
<1>1. AccountsInv /\ RightInv /\ [Next]_vars => RightInv'
  BY RightNext
<1>2. Init /\ Sound => RightInv
  BY InitRight
<1> QED
  BY <1>1, <1>2, AccountsAlways, PTL DEF Spec

\* Every registered name leads to a record of its own, and the number of users is
\* theirs, although records are written back whole (SetUInfo) and two requests
\* may register one name (AddNewUser).
THEOREM NamesStayInAgreement == Sound /\ Spec => []NamesAgree
<1>1. AccountsInv /\ RightInv => NamesAgree
  BY DEF AccountsInv, UsersCounted, RightInv, FilesRight, NamesRight, NamesAgree
<1> QED
  BY <1>1, AccountsAlways, AccountsStayRight, PTL

\* Each place of both files of users is somebody's or free, and that once, also
\* after a registration that was taken back.
THEOREM PlacesStayAccounted == Sound /\ Spec => []PlacesAccounted
<1>1. AccountsInv /\ RightInv /\ TypeOK => PlacesAccounted
  <2> SUFFICES ASSUME AccountsInv, RightInv, TypeOK PROVE PlacesAccounted
    OBVIOUS
  <2> DEFINE used == [name \in Registered |-> users[index[name]].full]
             places == [name \in Registered |-> index[name]]
  <2>1. \A name \in Registered : used[name] = Full(name) /\ places[name] = index[name]
    BY DEF Full
  <2>2. PlacesRight
    BY DEF RightInv, FilesRight
  <2>3. IsInjective(places) /\ IsInjective(used)
    BY <2>1, <2>2 DEF PlacesRight, IsInjective
  <2>4. \A x : x \in Places(index) <=> Used(x)
    BY DEF Places, Used
  <2>5. \A x : x \in Places(used) <=> \E a \in Registered : Full(a) = x
    BY <2>1 DEF Places
  <2>6. Places(index) \cap ToSet(ufree) = {} /\ Places(used) \cap ToSet(bfree) = {}
    BY <2>2, <2>4, <2>5 DEF PlacesRight, Used
  <2>7. \A x : x \in Places(index) \cup ToSet(ufree) <=> x \in DOMAIN users
    BY <2>2, <2>4, PlacesKnown DEF PlacesRight, Used
  <2>8. \A x : x \in Places(used) \cup ToSet(bfree) <=> x \in DOMAIN bodies
    BY <2>2, <2>5, PlacesKnown DEF PlacesRight
  <2>9. IsInjective(ufree) /\ IsInjective(bfree)
    BY <2>2 DEF PlacesRight
  <2> HIDE DEF used, places
  <2>10. /\ Places(index) \cup ToSet(ufree) = DOMAIN users
         /\ Places(used) \cup ToSet(bfree) = DOMAIN bodies
    BY <2>7, <2>8
  <2> QED
    BY <2>3, <2>6, <2>9, <2>10 DEF PlacesAccounted, used, places
<1> QED
  BY <1>1, AccountsAlways, AccountsStayRight, AccountsTypes, PTL

\* A request that goes on with its session is on the account the session was
\* opened for, or on one made in the very second of the session's last use.
THEOREM SessionsKeepToAccounts == Sound /\ Spec => []SessionNamesItsAccount
<1>1. AccountsInv /\ RightInv => SessionNamesItsAccount
  <2>1. SUFFICES ASSUME AccountsInv, RightInv, NEW p \in Procs, At(p, "touch"),
                        index[loc[p].ui.name] = loc[p].at
                 PROVE  loc[p].uniq = loc[p].ui.uniq \/ loc[p].id \in Heirs
    BY DEF SessionNamesItsAccount, Heirs
  <2>2. /\ loc[p].pc = "touch" /\ loc[p].ui.name \in Names /\ loc[p].at # 0
        /\ SessionRight(p)
    BY <2>1, Old DEF At, Good, Points, RightInv, HandRight
  <2>3. Used(loc[p].at)
    BY <2>1, <2>2 DEF Used, Registered
  <2> QED
    BY <2>2, <2>3 DEF SessionRight
<1> QED
  BY <1>1, AccountsAlways, AccountsStayRight, PTL

-----------------------------------------------------------------------------
(* The sessions of somebody who has been removed. *)
Coming == {"login", "register"}

\* While somebody is removed, nobody else at work logs in.
Severed ==
    ~alone /\ (\E p \in Procs : loc[p].rq.op \in Removing) =>
        \A p \in Procs : loc[p].rq.op \notin Coming

\* Nobody has the UniqID uniq, nor will have.
Nobodys(uniq) ==
    /\ uniq <= lastUniq
    /\ \A name \in Registered : users[index[name]].uniq # uniq

\* What a request knows of the one it removes or removed, and one that logs in of
\* its account.
GoneRight(p) ==
    LET m == loc[p]
    IN  /\ m.pc \in {"sweep", "done"} /\ m.gone # 0 => Nobodys(m.gone)
        /\ m.pc \in {"where", "delete"} /\ m.rq.op \in {"remove", "leave"} /\ index[Name(p)] # 0
              => users[index[Name(p)]].uniq = m.gone
        /\ m.pc = "open" /\ (alone \/ \A q \in Procs : loc[q].rq.op \notin Removing) => Used(m.at)
        /\ m.rq.op \notin {"remove", "leave"} /\ m.pc # "done" => m.gone = 0

NoneGone ==
    /\ ~alone
    /\ \A q \in Procs : loc[q].rq.op \notin Removing
    /\ \E q \in Procs : loc[q].rq.op \in Coming
    => \A q \in Procs : loc[q].gone = 0

GoneInv ==
    /\ Severed /\ NoneGone
    /\ \A p \in Procs : GoneRight(p)
    /\ BoundSessionsEndWithAccount

\* A step of p, by which it may have removed somebody.
GoneMoves(p) ==
    /\ alone' = alone
    /\ \A q \in Procs \ {p} : loc'[q] = loc[q]
    /\ loc'[p].rq = loc[p].rq \/ loc'[p].rq.op = "visit"
    /\ loc'[p].gone \in {0, loc[p].gone} \/ loc[p].rq.op \in Removing
    /\ loc'[p].pc = "done" /\ loc'[p].gone # 0 =>
          loc[p].pc = "sweep" /\ loc'[p].gone = loc[p].gone

\* It removes nobody, or is not yet there.
Quiet(p) ==
    /\ alone' = alone
    /\ \A q \in Procs \ {p} : loc'[q] = loc[q]
    /\ \/ loc'[p].pc = "done" /\ loc'[p].gone = 0 /\ loc'[p].rq.op = "visit"
       \/ /\ loc'[p].pc \notin {"done", "open", "sweep"}
          /\ loc'[p].gone = loc[p].gone /\ loc'[p].rq = loc[p].rq
          /\ loc'[p].pc \in {"where", "delete"} => loc'[p].rq.op \notin {"remove", "leave"}

\* Accounts change by p only, and no UniqID is given again.
AccountsKept(p) ==
    \/ index' = index /\ users' = users /\ lastUniq' = lastUniq
    \/ /\ loc[p].pc \in {"add", "delete", "rewrite"}
       /\ lastUniq <= lastUniq'
       /\ \A name \in Registered' :
             \/ /\ name \in Registered
                /\ users'[index'[name]].uniq = users[index[name]].uniq
             \/ users'[index'[name]].uniq = lastUniq + 1
       /\ loc[p].pc # "delete" => \A x : Used(x) => Used(x)'

Bound(e) == e.expire > now /\ ~e.unbound

\* A session that is bound and open was so, or is opened by p.
BoundKept(p) ==
    \A i \in DOMAIN auth' : Bound(auth[i])' =>
        \/ \E j \in DOMAIN auth : Bound(auth[j]) /\ auth[j].uniq = auth'[i].uniq
        \/ loc[p].pc = "open" /\ auth'[i].uniq = loc[p].ui.uniq

\* With the sweep, no session of the one removed is left that is bound.
Swept(p) ==
    loc[p].pc = "sweep" =>
        \A i \in DOMAIN auth' : Bound(auth[i])' => auth'[i].uniq # loc[p].gone

LEMMA NobodysStill ==
    ASSUME AccountsInv, AccountsInv', NEW p \in Procs, AccountsKept(p),
           NEW uniq \in Nat, Nobodys(uniq)
    PROVE  Nobodys(uniq)'
<1>1. lastUniq \in Nat /\ lastUniq' \in Nat
  BY DEF AccountsInv, FilesInv
<1>2. CASE index' = index /\ users' = users /\ lastUniq' = lastUniq
  BY <1>2 DEF Nobodys, Registered
<1>3. CASE /\ lastUniq <= lastUniq'
           /\ \A name \in Registered' :
                 \/ /\ name \in Registered
                    /\ users'[index'[name]].uniq = users[index[name]].uniq
                 \/ users'[index'[name]].uniq = lastUniq + 1
  <2>1. uniq <= lastUniq' /\ uniq # lastUniq + 1
    BY <1>1, <1>3 DEF Nobodys
  <2> QED
    BY <1>3, <2>1 DEF Nobodys
<1> QED
  BY <1>2, <1>3 DEF AccountsKept

LEMMA OthersGone ==
    ASSUME AccountsInv, AccountsInv', RightInv, GoneInv, NEW p \in Procs, Turn(p),
           GoneMoves(p), AccountsKept(p), NEW q \in Procs \ {p}
    PROVE  GoneRight(q)'
<1>1. /\ loc'[q] = loc[q] /\ alone' = alone /\ GoneRight(q) /\ Role(loc[q]) /\ Role(loc[p])
      /\ loc[q].gone \in Nat /\ Name(q)' = Name(q)
  BY Old DEF GoneMoves, GoneInv, RightInv, HandRight, Name, Good, Memory
<1>2. loc[q].pc \in {"sweep", "done"} /\ loc[q].gone # 0 => Nobodys(loc[q].gone)'
  <2>1. SUFFICES ASSUME loc[q].pc \in {"sweep", "done"}, loc[q].gone # 0
                 PROVE  Nobodys(loc[q].gone)'
    OBVIOUS
  <2>2. PICK uniq : uniq = loc[q].gone
    OBVIOUS
  <2>3. Nobodys(uniq)'
    BY <1>1, <2>1, <2>2, NobodysStill DEF GoneRight, Nobodys
  <2> QED
    BY <1>1, <2>2, <2>3 DEF Nobodys
<1>3. CASE alone
  <2>1. loc[q].pc \in {"start", "done"}
    BY <1>3 DEF Turn, Working
  <2> QED
    BY <1>1, <1>2, <2>1 DEF GoneRight
<1>4. CASE ~alone
  <2>1. \A r \in Procs : loc'[r].rq = loc[r].rq \/ loc'[r].rq.op = "visit"
    BY DEF GoneMoves
  <2>2. loc[q].pc \in {"where", "delete"} /\ loc[q].rq.op \in {"remove", "leave"} =>
           index' = index /\ users' = users
    BY <1>1, <1>4 DEF RightInv, Apart, Removing, Role, AccountsKept
  <2>3. loc[q].pc \in {"where", "delete"} /\ loc[q].rq.op \in {"remove", "leave"}
        /\ index'[Name(q)] # 0 => users'[index'[Name(q)]].uniq = loc[q].gone
    BY <1>1, <2>2 DEF GoneRight
  <2>4. ASSUME loc[q].pc = "open", \A r \in Procs : loc'[r].rq.op \notin Removing
        PROVE  Used(loc[q].at)'
    <3>1. loc[q].rq.op \in Coming
      BY <1>1, <2>4 DEF Role, Coming
    <3>2. \A r \in Procs : loc[r].rq.op \notin Removing
      BY <1>4, <3>1 DEF GoneInv, Severed
    <3>3. PICK x : x = loc[q].at
      OBVIOUS
    <3>4. Used(x)
      BY <1>1, <2>4, <3>2, <3>3 DEF GoneRight
    <3>5. loc[p].pc # "delete"
      BY <1>1, <3>2 DEF Role
    <3>6. Used(x)'
      BY <3>4, <3>5 DEF AccountsKept, Used, Registered
    <3> QED
      BY <1>1, <3>3, <3>6
  <2>5. ~alone' /\ (loc[q].rq.op \notin {"remove", "leave"} /\ loc[q].pc # "done" => loc[q].gone = 0)
    BY <1>1, <1>4 DEF GoneRight
  <2> QED
    BY <1>1, <1>2, <2>3, <2>4, <2>5 DEF GoneRight
<1> QED
  BY <1>3, <1>4

LEMMA GoneStep ==
    ASSUME AccountsInv, AccountsInv', RightInv, GoneInv, NEW p \in Procs, Turn(p),
           GoneMoves(p), loc[p].pc # "done", AccountsKept(p), BoundKept(p), Swept(p),
           GoneRight(p)', now' = now
    PROVE  GoneInv'
<1>1. \A q \in Procs : GoneRight(q)'
  BY OthersGone
<1>2. \A q \in Procs : loc'[q].rq = loc[q].rq \/ loc'[q].rq.op = "visit"
  BY DEF GoneMoves
<1>3. alone' = alone
  BY DEF GoneMoves
<1>4. Severed'
  BY <1>2, <1>3 DEF GoneInv, Severed, Coming, Removing
<1>5. NoneGone'
  <2>1. SUFFICES ASSUME ~alone', \A q \in Procs : loc'[q].rq.op \notin Removing,
                        NEW r \in Procs, loc'[r].rq.op \in Coming, NEW q \in Procs
                 PROVE  loc'[q].gone = 0
    BY DEF NoneGone
  <2>2. loc[r].rq.op \in Coming /\ ~alone
    BY <1>2, <1>3, <2>1 DEF Coming
  <2>3. \A s \in Procs : loc[s].rq.op \notin Removing
    BY <2>2 DEF GoneInv, Severed
  <2>4. loc[q].gone = 0 /\ loc[p].gone = 0
    BY <2>2, <2>3 DEF GoneInv, NoneGone
  <2> QED
    BY <2>3, <2>4 DEF GoneMoves
<1>6. BoundSessionsEndWithAccount'
  <2>1. SUFFICES ASSUME NEW q \in Procs, loc'[q].pc = "done", loc'[q].gone # 0,
                        NEW i \in DOMAIN auth', auth'[i].uniq = loc'[q].gone,
                        auth'[i].expire > now', ~auth'[i].unbound
                 PROVE  FALSE
    BY DEF BoundSessionsEndWithAccount, OpenFor, Over, At
  <2>2. PICK gone : gone = loc'[q].gone
    OBVIOUS
  <2>3. Bound(auth[i])' /\ auth'[i].uniq = gone
    BY <2>1, <2>2 DEF Bound
  <2>4. CASE q = p
    BY <2>1, <2>3, <2>4 DEF GoneMoves, Swept
  <2>5. CASE q # p
    <3>1. loc[q].pc = "done" /\ loc[q].gone = gone /\ gone # 0
      BY <2>1, <2>2, <2>5 DEF GoneMoves
    <3>2. ASSUME NEW j \in DOMAIN auth, Bound(auth[j]), auth[j].uniq = gone PROVE FALSE
      BY <3>1, <3>2 DEF GoneInv, BoundSessionsEndWithAccount, OpenFor, Over, At, Bound
    <3>3. ASSUME loc[p].pc = "open", loc[p].ui.uniq = gone PROVE FALSE
      <4>1. Nobodys(gone)
        BY <3>1 DEF GoneInv, GoneRight
      <4>2. /\ loc[p].rq.op \in Coming /\ users[loc[p].at] = loc[p].ui
            /\ GoneRight(p)
        BY <3>3 DEF RightInv, HandRight, Role, RecordRight, Coming, GoneInv
      <4>3. CASE alone
        <5>1. Used(loc[p].at)
          BY <3>3, <4>2, <4>3 DEF GoneRight
        <5> QED
          BY <3>3, <4>1, <4>2, <5>1 DEF Used, Nobodys
      <4>4. CASE ~alone
        <5>1. \A s \in Procs : loc[s].rq.op \notin Removing
          BY <4>2, <4>4 DEF GoneInv, Severed
        <5> QED
          BY <3>1, <4>2, <4>4, <5>1 DEF GoneInv, NoneGone
      <4> QED
        BY <4>3, <4>4
    <3> QED
      BY <2>3, <3>2, <3>3 DEF BoundKept
  <2> QED
    BY <2>4, <2>5
<1> QED
  BY <1>1, <1>4, <1>5, <1>6 DEF GoneInv

LEMMA QuietStep ==
    ASSUME AccountsInv, AccountsInv', RightInv, GoneInv, NEW p \in Procs, Turn(p), Quiet(p),
           loc[p].pc \notin {"done", "sweep"}, AccountsKept(p), BoundKept(p), now' = now
    PROVE  GoneInv'
<1>1. GoneMoves(p)
  BY DEF Quiet, GoneMoves
<1>2. GoneRight(p)'
  <2>1. loc[p].rq.op \notin {"remove", "leave"} => loc[p].gone = 0
    BY DEF GoneInv, GoneRight
  <2> QED
    BY <2>1 DEF Quiet, GoneRight
<1>3. Swept(p)
  BY DEF Swept
<1> QED
  BY <1>1, <1>2, <1>3, GoneStep

\* Steps that leave the sessions alone, or close some.
LEMMA NoneOpened ==
    ASSUME NEW p \in Procs, auth' = auth, now' = now
    PROVE  BoundKept(p)
  BY DEF BoundKept, Bound

LEMMA ClosedOnly ==
    ASSUME AccountsInv, NEW p \in Procs, NEW tn \in 0..now, NEW entries,
           CloseEntries(tn, entries)
    PROVE  /\ BoundKept(p) /\ now' = now
           /\ \A i \in DOMAIN auth' : Bound(auth[i])' =>
                 i \in DOMAIN auth /\ i \notin entries /\ auth'[i] = auth[i]
<1>1. /\ DOMAIN auth' = DOMAIN auth /\ now' = now
      /\ \A i \in DOMAIN auth :
            auth'[i] = IF auth[i].expire > tn /\ i \in entries
                       THEN WithExpire(auth[i], now - 1) ELSE auth[i]
  BY DEF CloseEntries
<1>2. now \in Nat \ {0} /\ tn \in Nat /\ tn <= now
  BY Numbers
<1>3. ASSUME NEW i \in DOMAIN auth', Bound(auth[i])'
      PROVE  i \in DOMAIN auth /\ i \notin entries /\ auth'[i] = auth[i] /\ Bound(auth[i])
  <2>1. auth'[i].expire > now /\ ~auth'[i].unbound /\ auth[i].expire \in Nat
    BY <1>1, <1>3, Numbers DEF Bound
  <2>2. ~(auth[i].expire > tn /\ i \in entries)
    <3>1. ~(now - 1 > now)
      BY <1>2
    <3> QED
      BY <1>1, <2>1, <3>1 DEF WithExpire
  <2>3. auth'[i] = auth[i]
    BY <1>1, <2>2
  <2>4. auth[i].expire > tn
    BY <1>2, <2>1, <2>3
  <2> QED
    BY <1>1, <2>1, <2>2, <2>3, <2>4 DEF Bound
<1>4. BoundKept(p)
  BY <1>3 DEF BoundKept
<1> QED
  BY <1>1, <1>3, <1>4

\* A step that writes to no account and opens no session.
LEMMA QuietHere ==
    ASSUME AccountsInv, AccountsInv', RightInv, GoneInv, NEW p \in Procs, Turn(p), Quiet(p),
           loc[p].pc \notin {"done", "sweep"}, UNCHANGED profileVars, BoundKept(p), now' = now
    PROVE  GoneInv'
<1>1. AccountsKept(p)
  BY DEF AccountsKept, profileVars
<1> QED
  BY <1>1, QuietStep

LEMMA EndQuiet ==
    ASSUME AccountsInv, NEW p \in Procs, alone' = alone, End(p, 0)
    PROVE  Quiet(p)
<1>1. 0 \in Nat
  OBVIOUS
<1>2. PICK m \in Memory :
         /\ m = [pc |-> "done", rq |-> EndedRequest, id |-> 0, uniq |-> 0, expire |-> 0,
                 ui |-> NoUser, at |-> 0, created |-> 0, since |-> 0, gone |-> 0,
                 other |-> 0, heir |-> loc[p].heir]
         /\ loc' = [loc EXCEPT ![p] = m]
  BY <1>1, EndMakes
<1>3. m.pc = "done" /\ m.rq.op = "visit" /\ m.gone = 0
  BY <1>2 DEF EndedRequest
<1>4. loc'[p] = m /\ \A q \in Procs \ {p} : loc'[q] = loc[q]
  BY <1>2, Old
<1> QED
  BY <1>3, <1>4 DEF Quiet

\* The request goes on with memory m, and is not after an account.
LEMMA MemoryQuiet ==
    ASSUME AccountsInv, NEW p \in Procs, alone' = alone,
           NEW m \in Memory, loc' = [loc EXCEPT ![p] = m],
           m.rq = loc[p].rq, m.gone = loc[p].gone, m.pc \notin {"done", "open", "sweep"},
           m.pc \in {"where", "delete"} => m.rq.op \notin {"remove", "leave"}
    PROVE  Quiet(p)
<1>1. loc'[p] = m /\ \A q \in Procs \ {p} : loc'[q] = loc[q]
  BY Old
<1> QED
  BY <1>1 DEF Quiet

LEMMA HandleQuiet ==
    ASSUME AccountsInv, NEW p \in Procs, NEW logged \in BOOLEAN, alone' = alone,
           Handle(p, logged)
    PROVE  Quiet(p)
<1> DEFINE pc == Handler(loc[p].rq.op, logged)
           id == IF logged THEN loc[p].id ELSE 0
<1>1. loc \in [Procs -> Memory] /\ loc[p] \in Memory /\ now \in Nat
  BY Old, Numbers DEF Good
<1>2. loc[p].rq.op \in Op
  BY <1>1 DEF Memory, Request
<1>3. CASE pc = "done"
  BY <1>3, EndQuiet DEF Handle
<1>4. CASE pc # "done"
  <2>1. /\ pc \in {"endown", "lookup", "exists", "find", "where", "pick", "own"}
        /\ pc = "where" => loc[p].rq.op = "purge"
    <3>1. CASE loc[p].rq.op \in OwnOp
      BY <1>4, <3>1 DEF Handler, OwnHandler, OwnOp
    <3>2. CASE loc[p].rq.op \notin OwnOp
      BY <1>2, <1>4, <3>2 DEF Handler, Op, SuperOp
    <3> QED
      BY <3>1, <3>2
  <2>2. PICK m : m = [loc[p] EXCEPT !.pc = pc, !.since = now, !.id = id]
    OBVIOUS
  <2>3. loc' = [loc EXCEPT ![p] = m]
    BY <1>1, <1>4, <2>2 DEF Handle, Memory
  <2>4. id \in Nat /\ pc \in Pc
    BY <1>1, <2>1 DEF Memory, Pc
  <2> HIDE DEF pc, id
  <2>5. m \in Memory /\ m.pc = pc /\ m.rq = loc[p].rq /\ m.gone = loc[p].gone
    BY <1>1, <2>2, <2>4 DEF Memory
  <2>6. /\ m.pc \notin {"done", "open", "sweep"}
        /\ m.pc \in {"where", "delete"} => m.rq.op \notin {"remove", "leave"}
    BY <2>1, <2>5
  <2> QED
    BY <2>3, <2>5, <2>6, MemoryQuiet
<1> QED
  BY <1>3, <1>4

LEMMA BeginGone ==
    ASSUME AccountsInv, AccountsInv', RightInv, GoneInv, NEW p \in Procs, Begin(p)
    PROVE  GoneInv'
<1>1. UNCHANGED <<sessionVars, profileVars, alone>> /\ loc[p].pc = "start" /\ Turn(p)
  BY DEF Begin, At, Over, Turn, Working
<1>2. BoundKept(p) /\ now' = now
  BY <1>1, NoneOpened DEF sessionVars
<1>3. Quiet(p)
  <2>1. CASE Handle(p, FALSE)
    BY <1>1, <2>1, HandleQuiet
  <2>2. ASSUME NEW id \in 1..issued, loc' = [loc EXCEPT ![p].pc = "check", ![p].id = id]
        PROVE  Quiet(p)
    <3> DEFINE m == [loc[p] EXCEPT !.pc = "check", !.id = id]
    <3>1. loc[p] \in Memory /\ id \in Nat /\ "check" \in Pc
      BY Old, Numbers DEF Good, Pc
    <3>2. m \in Memory /\ m.pc = "check" /\ m.gone = loc[p].gone /\ m.rq = loc[p].rq
      BY <3>1 DEF Memory
    <3>3. loc' = [loc EXCEPT ![p] = m]
      BY <2>2, <3>1 DEF Memory
    <3> HIDE DEF m
    <3> QED
      BY <1>1, <3>2, <3>3, MemoryQuiet
  <2> QED
    BY <2>1, <2>2 DEF Begin
<1> QED
  BY <1>1, <1>2, <1>3, QuietHere

\* A session that is renewed was open before.
LEMMA RenewedOnly ==
    ASSUME AccountsInv, NEW p \in Procs, NEW i \in DOMAIN auth, NEW id, NEW same,
           Valid(i, id, same), RenewEntry(i)
    PROVE  BoundKept(p) /\ now' = now
<1>1. /\ now' = now /\ DOMAIN auth' = DOMAIN auth
      /\ \A j \in DOMAIN auth : auth'[j] = IF j = i THEN WithExpire(auth[i], now + TTL) ELSE auth[j]
  BY DEF RenewEntry, AccountsInv, SessionInv, SessionTypeOK
<1>2. ASSUME NEW j \in DOMAIN auth', Bound(auth[j])'
      PROVE  \E k \in DOMAIN auth : Bound(auth[k]) /\ auth[k].uniq = auth'[j].uniq
  <2>1. CASE j = i
    BY <1>1, <1>2, <2>1 DEF Bound, Valid, WithExpire
  <2>2. CASE j # i
    BY <1>1, <1>2, <2>2 DEF Bound
  <2> QED
    BY <2>1, <2>2
<1> QED
  BY <1>1, <1>2 DEF BoundKept

LEMMA CheckSessionGone ==
    ASSUME AccountsInv, AccountsInv', RightInv, GoneInv, NEW p \in Procs, CheckSession(p)
    PROVE  GoneInv'
<1>1. UNCHANGED <<profileVars, alone>> /\ loc[p].pc = "check"
  <2>1. UNCHANGED <<profileVars, alone>> /\ At(p, "check")
    BY Zenon DEF CheckSession
  <2> QED
    BY <2>1 DEF At
<1>2. Turn(p) /\ loc[p] \in Memory
  BY <1>1, HasTurn
<1>3. CASE Handle(p, FALSE) /\ UNCHANGED sessionVars
  <2>1. BoundKept(p) /\ now' = now
    BY <1>3, NoneOpened DEF sessionVars
  <2>2. Quiet(p)
    BY <1>1, <1>3, HandleQuiet
  <2> QED
    BY <1>1, <1>2, <2>1, <2>2, QuietHere
<1>4. ASSUME NEW i \in DOMAIN auth, NEW same \in BOOLEAN,
             Valid(i, loc[p].id, same), RenewEntry(i),
             loc' = [loc EXCEPT ![p].pc = "profile",
                         ![p].uniq = auth[i].uniq, ![p].at = auth[i].at,
                         ![p].expire = auth[i].expire]
      PROVE  GoneInv'
  <2> DEFINE m == [loc[p] EXCEPT !.pc = "profile", !.uniq = auth[i].uniq,
                                 !.at = auth[i].at, !.expire = auth[i].expire]
  <2>1. auth[i].uniq \in Nat /\ auth[i].at \in Nat /\ auth[i].expire \in Nat
    BY Numbers
  <2>2. m \in Memory /\ m.pc = "profile" /\ m.gone = loc[p].gone /\ m.rq = loc[p].rq
    BY <1>2, <2>1 DEF Memory, Pc
  <2>3. loc' = [loc EXCEPT ![p] = m]
    BY <1>2, <1>4 DEF Memory
  <2> HIDE DEF m
  <2>4. Quiet(p)
    BY <1>1, <2>2, <2>3, MemoryQuiet
  <2>5. PICK id : id = loc[p].id
    OBVIOUS
  <2>6. BoundKept(p) /\ now' = now
    BY <1>4, <2>5, RenewedOnly
  <2> QED
    BY <1>1, <1>2, <2>4, <2>6, QuietHere
<1> QED
  BY <1>3, <1>4, Zenon DEF CheckSession

LEMMA ReadProfileGone ==
    ASSUME AccountsInv, AccountsInv', RightInv, GoneInv, NEW p \in Procs, ReadProfile(p)
    PROVE  GoneInv'
<1>1. UNCHANGED <<sessionVars, profileVars, alone>> /\ loc[p].pc = "profile"
  BY DEF ReadProfile, At
<1>2. Turn(p) /\ loc[p] \in Memory /\ loc \in [Procs -> Memory]
  BY <1>1, HasTurn
<1>3. BoundKept(p) /\ now' = now
  BY <1>1, NoneOpened DEF sessionVars
<1> DEFINE ui0 == users[loc[p].at]
           pc0 == IF OlderThanAccount(loc[p].expire, bodies[ui0.full])
                  THEN "reject" ELSE "touch"
           heir0 == IF /\ ui0.uniq # loc[p].uniq
                       /\ bodies[ui0.full] + TTL = loc[p].expire
                    THEN loc[p].id ELSE 0
           m == [loc[p] EXCEPT !.ui = ui0, !.created = bodies[ui0.full],
                               !.since = now, !.heir = heir0, !.pc = pc0]
<1>4. pc0 \in {"reject", "touch"}
  OBVIOUS
<1>5. loc' = [loc EXCEPT ![p] = m]
  BY <1>2 DEF ReadProfile, Memory
<1> HIDE DEF pc0, heir0
<1>6. m.pc = pc0 /\ m.gone = loc[p].gone /\ m.rq = loc[p].rq
  BY <1>2 DEF Memory
<1> HIDE DEF m
<1>7. loc'[p] = m /\ \A q \in Procs \ {p} : loc'[q] = loc[q]
  BY <1>2, <1>5
<1>8. Quiet(p)
  BY <1>1, <1>4, <1>6, <1>7 DEF Quiet
<1> QED
  BY <1>1, <1>2, <1>3, <1>8, QuietHere

\* The times a request may have asked for, before it waited for the lock.
LEMMA Earlier ==
    ASSUME AccountsInv, NEW p \in Procs, NEW tn \in loc[p].since..now
    PROVE  tn \in 0..now
<1>1. loc[p].since \in Nat /\ now \in Nat
  BY Old, Numbers DEF Good, Memory
<1> QED
  BY <1>1

LEMMA RejectSessionGone ==
    ASSUME AccountsInv, AccountsInv', RightInv, GoneInv, NEW p \in Procs, RejectSession(p)
    PROVE  GoneInv'
<1>1. loc[p].pc = "reject" /\ UNCHANGED <<profileVars, alone>> /\ Handle(p, FALSE)
  BY DEF RejectSession, At
<1>2. PICK tn \in loc[p].since..now : CloseById(tn, loc[p].id)
  BY DEF RejectSession
<1>3. PICK entries : CloseEntries(tn, entries)
  BY <1>2 DEF CloseById
<1>4. BoundKept(p) /\ now' = now
  BY <1>3, Earlier, ClosedOnly
<1>5. Quiet(p)
  BY <1>1, HandleQuiet
<1> QED
  BY <1>1, <1>4, <1>5, HasTurn, QuietHere

LEMMA EndOwnSessionGone ==
    ASSUME AccountsInv, AccountsInv', RightInv, GoneInv, NEW p \in Procs, EndOwnSession(p)
    PROVE  GoneInv'
<1>1. loc[p].pc = "endown" /\ UNCHANGED <<profileVars, alone>>
  BY DEF EndOwnSession, At
<1>2. PICK tn \in loc[p].since..now : CloseById(tn, loc[p].id)
  BY DEF EndOwnSession
<1>3. PICK entries : CloseEntries(tn, entries)
  BY <1>2 DEF CloseById
<1>4. BoundKept(p) /\ now' = now
  BY <1>3, Earlier, ClosedOnly
<1>5. Quiet(p)
  <2>1. CASE loc[p].rq.op = "logout"
    BY <1>1, <2>1, EndQuiet DEF EndOwnSession
  <2>2. CASE loc[p].rq.op # "logout"
    <3> DEFINE m == [loc[p] EXCEPT !.pc = "lookup", !.id = 0]
    <3>1. loc[p] \in Memory
      BY Old DEF Good
    <3>2. loc' = [loc EXCEPT ![p] = m]
      BY <2>2, <3>1 DEF EndOwnSession, Memory
    <3>3. m \in Memory /\ m.pc = "lookup" /\ m.rq = loc[p].rq /\ m.gone = loc[p].gone
      BY <3>1 DEF Memory, Pc
    <3> HIDE DEF m
    <3> QED
      BY <1>1, <3>2, <3>3, MemoryQuiet
  <2> QED
    BY <2>1, <2>2
<1> QED
  BY <1>1, <1>4, <1>5, HasTurn, QuietHere

LEMMA CloseOtherGone ==
    ASSUME AccountsInv, AccountsInv', RightInv, GoneInv, NEW p \in Procs, CloseOther(p)
    PROVE  GoneInv'
<1>1. loc[p].pc = "endother" /\ UNCHANGED <<profileVars, alone>> /\ End(p, 0)
  BY DEF CloseOther, At
<1>2. PICK tn \in loc[p].since..now : CloseById(tn, loc[p].other)
  BY DEF CloseOther
<1>3. PICK entries : CloseEntries(tn, entries)
  BY <1>2 DEF CloseById
<1>4. BoundKept(p) /\ now' = now
  BY <1>3, Earlier, ClosedOnly
<1>5. Quiet(p)
  BY <1>1, EndQuiet
<1> QED
  BY <1>1, <1>4, <1>5, HasTurn, QuietHere

LEMMA TouchProfileGone ==
    ASSUME AccountsInv, AccountsInv', RightInv, GoneInv, NEW p \in Procs, TouchProfile(p)
    PROVE  GoneInv'
<1>1. loc[p].pc = "touch" /\ Handle(p, TRUE)
  BY DEF TouchProfile, At
<1>2. users' = users
  BY <1>1, SameRecord DEF TouchProfile
<1>3. UNCHANGED <<sessionVars, profileVars, alone>>
  BY <1>2 DEF TouchProfile, profileVars
<1>4. BoundKept(p) /\ now' = now /\ Quiet(p)
  BY <1>1, <1>3, NoneOpened, HandleQuiet DEF sessionVars
<1> QED
  BY <1>1, <1>3, <1>4, HasTurn, QuietHere

LEMMA StampLoginGone ==
    ASSUME AccountsInv, AccountsInv', RightInv, GoneInv, NEW p \in Procs, StampLogin(p)
    PROVE  GoneInv'
<1>1. loc[p].pc = "stamp" /\ End(p, 0)
  BY DEF StampLogin, At
<1>2. users' = users
  BY <1>1, SameRecord DEF StampLogin
<1>3. UNCHANGED <<sessionVars, profileVars, alone>>
  BY <1>2 DEF StampLogin, profileVars
<1>4. BoundKept(p) /\ now' = now /\ Quiet(p)
  BY <1>1, <1>3, NoneOpened, EndQuiet DEF sessionVars
<1> QED
  BY <1>1, <1>3, <1>4, HasTurn, QuietHere

LEMMA CheckNameGone ==
    ASSUME AccountsInv, AccountsInv', RightInv, GoneInv, NEW p \in Procs, CheckName(p)
    PROVE  GoneInv'
<1> DEFINE m == [loc[p] EXCEPT !.pc = "add", !.created = now]
<1>1. UNCHANGED <<sessionVars, profileVars, alone>> /\ loc[p].pc = "exists"
  BY DEF CheckName, At
<1>2. Turn(p) /\ loc[p] \in Memory /\ now \in Nat /\ "add" \in Pc
  BY <1>1, HasTurn, Numbers DEF Pc
<1>3. BoundKept(p) /\ now' = now
  BY <1>1, NoneOpened DEF sessionVars
<1>4. m \in Memory /\ m.pc = "add" /\ m.gone = loc[p].gone /\ m.rq = loc[p].rq
  BY <1>2 DEF Memory
<1>5. End(p, 0) \/ loc' = [loc EXCEPT ![p] = m]
  BY <1>2 DEF CheckName, Memory
<1> HIDE DEF m
<1>6. Quiet(p)
  BY <1>1, <1>4, <1>5, EndQuiet, MemoryQuiet
<1> QED
  BY <1>1, <1>2, <1>3, <1>6, QuietHere

LEMMA PickSessionGone ==
    ASSUME AccountsInv, AccountsInv', RightInv, GoneInv, NEW p \in Procs, PickSession(p)
    PROVE  GoneInv'
<1>1. UNCHANGED <<sessionVars, profileVars, alone>> /\ loc[p].pc = "pick"
  <2>1. UNCHANGED <<sessionVars, profileVars, alone>> /\ At(p, "pick")
    BY Zenon DEF PickSession
  <2> QED
    BY <2>1 DEF At
<1>2. Turn(p) /\ loc[p] \in Memory /\ now \in Nat
  BY <1>1, HasTurn, Numbers
<1>3. BoundKept(p) /\ now' = now
  BY <1>1, NoneOpened DEF sessionVars
<1>4. ASSUME NEW i \in DOMAIN auth,
             loc' = [loc EXCEPT ![p].pc = "endother", ![p].other = auth[i].id,
                                ![p].since = now]
      PROVE  Quiet(p)
  <2> DEFINE m == [loc[p] EXCEPT !.pc = "endother", !.other = auth[i].id, !.since = now]
  <2>1. loc' = [loc EXCEPT ![p] = m]
    BY <1>2, <1>4 DEF Memory
  <2>2. auth[i].id \in Nat /\ "endother" \in Pc
    BY Numbers DEF Pc
  <2>3. m \in Memory /\ m.pc = "endother" /\ m.rq = loc[p].rq /\ m.gone = loc[p].gone
    BY <1>2, <2>2 DEF Memory
  <2> HIDE DEF m
  <2> QED
    BY <1>1, <2>1, <2>3, MemoryQuiet
<1>5. End(p, 0) \/ Quiet(p)
  BY <1>4, Zenon DEF PickSession
<1>6. Quiet(p)
  BY <1>1, <1>5, EndQuiet
<1> QED
  BY <1>1, <1>2, <1>3, <1>6, QuietHere

LEMMA LoadOwnGone ==
    ASSUME AccountsInv, AccountsInv', RightInv, GoneInv, NEW p \in Procs, LoadOwn(p)
    PROVE  GoneInv'
<1>1. UNCHANGED <<sessionVars, profileVars, alone>> /\ loc[p].pc = "own"
  BY DEF LoadOwn, At
<1>2. Turn(p) /\ loc[p] \in Memory /\ Role(loc[p]) /\ loc \in [Procs -> Memory]
  BY <1>1, HasTurn
<1>3. BoundKept(p) /\ now' = now
  BY <1>1, NoneOpened DEF sessionVars
<1>4. PICK date : loc' = [loc EXCEPT ![p].pc = "where", ![p].created = date]
  BY DEF LoadOwn
<1> DEFINE m == [loc[p] EXCEPT !.pc = "where", !.created = date]
<1>5. loc' = [loc EXCEPT ![p] = m]
  BY <1>2, <1>4 DEF Memory
<1>6. m.pc = "where" /\ m.gone = loc[p].gone /\ m.rq = loc[p].rq
  BY <1>2 DEF Memory
<1> HIDE DEF m
<1>7. loc'[p] = m /\ \A q \in Procs \ {p} : loc'[q] = loc[q]
  BY <1>2, <1>5
<1>8. m.rq.op = "modify"
  BY <1>1, <1>2, <1>6 DEF Role
<1>9. Quiet(p)
  BY <1>1, <1>6, <1>7, <1>8 DEF Quiet
<1> QED
  BY <1>1, <1>2, <1>3, <1>9, QuietHere

LEMMA OpenSessionGone ==
    ASSUME AccountsInv, AccountsInv', RightInv, GoneInv, NEW p \in Procs, OpenSession(p)
    PROVE  GoneInv'
<1>1. loc[p].pc = "open" /\ UNCHANGED <<profileVars, alone>> /\ Goto(p, "stamp")
  BY DEF OpenSession, At
<1>2. Turn(p) /\ loc[p] \in Memory /\ now \in Nat
  BY <1>1, HasTurn, Numbers
<1>3. PICK tn \in loc[p].since..now :
         OpenAuthSequence(tn, loc[p].ui.uniq, loc[p].rq.unbound, loc[p].at)
  BY DEF OpenSession
<1>4. PICK e : e = [id |-> issued + 1, uniq |-> loc[p].ui.uniq, unbound |-> loc[p].rq.unbound,
                    at |-> loc[p].at, expire |-> now + TTL]
  OBVIOUS
<1>5. /\ now' = now
      /\ \A i \in DOMAIN auth' : auth'[i] = e \/ (i \in DOMAIN auth /\ auth'[i] = auth[i])
  <2>1. auth \in Seq(Entry)
    BY DEF AccountsInv, SessionInv, SessionTypeOK
  <2>2. CASE \E i \in DOMAIN auth : auth' = [auth EXCEPT ![i] = e]
    BY <1>3, <2>1, <2>2 DEF OpenAuthSequence
  <2>3. CASE auth' = Append(auth, e)
    <3>1. \A i \in DOMAIN auth' : i = Len(auth) + 1 \/ i \in DOMAIN auth
      BY <2>1, <2>3
    <3>2. auth'[Len(auth) + 1] = e /\ \A i \in DOMAIN auth : auth'[i] = auth[i]
      BY <2>1, <2>3
    <3> QED
      BY <1>3, <3>1, <3>2 DEF OpenAuthSequence
  <2> QED
    BY <1>3, <1>4, <2>2, <2>3 DEF OpenAuthSequence
<1>6. BoundKept(p)
  <2>1. e.uniq = loc[p].ui.uniq
    BY <1>4
  <2> QED
    BY <1>1, <1>5, <2>1 DEF BoundKept, Bound
<1>7. Quiet(p)
  <2> DEFINE m == [loc[p] EXCEPT !.pc = "stamp", !.since = now]
  <2>1. loc' = [loc EXCEPT ![p] = m]
    BY <1>1, <1>2 DEF Goto, Memory
  <2>2. m \in Memory /\ m.pc = "stamp" /\ m.gone = loc[p].gone /\ m.rq = loc[p].rq
    BY <1>2 DEF Memory, Pc
  <2> HIDE DEF m
  <2> QED
    BY <1>1, <2>1, <2>2, MemoryQuiet
<1> QED
  BY <1>1, <1>2, <1>5, <1>6, <1>7, QuietHere

-----------------------------------------------------------------------------
\* A step after which p has somebody in hand, with the files as they were.
LEMMA GoneHere ==
    ASSUME AccountsInv, AccountsInv', RightInv, GoneInv, NEW p \in Procs, Turn(p),
           UNCHANGED <<sessionVars, profileVars, alone>>, loc[p].pc \notin {"done", "sweep"},
           NEW m \in Memory, loc' = [loc EXCEPT ![p] = m], m.rq = loc[p].rq, m.pc # "done",
           m.gone = loc[p].gone \/ m.rq.op \in Removing, GoneRight(p)'
    PROVE  GoneInv'
<1>1. loc'[p] = m /\ \A q \in Procs \ {p} : loc'[q] = loc[q]
  BY Old
<1>2. GoneMoves(p)
  BY <1>1 DEF GoneMoves
<1>3. AccountsKept(p)
  BY DEF AccountsKept, profileVars
<1>4. auth' = auth /\ now' = now
  BY DEF sessionVars
<1>5. BoundKept(p) /\ Swept(p)
  BY <1>4, NoneOpened DEF Swept
<1> QED
  BY <1>2, <1>3, <1>4, <1>5, GoneStep

LEMMA FindAccountGone ==
    ASSUME AccountsInv, AccountsInv', RightInv, GoneInv, NEW p \in Procs, FindAccount(p)
    PROVE  GoneInv'
<1> DEFINE at == index[Name(p)]
           m == [loc[p] EXCEPT !.pc = "open", !.at = at, !.ui = users[at], !.since = now]
<1>1. UNCHANGED <<sessionVars, profileVars, alone>> /\ loc[p].pc = "lookup"
  BY DEF FindAccount, At
<1>2. Turn(p) /\ Role(loc[p]) /\ loc[p] \in Memory
  BY <1>1, HasTurn
<1>3. CASE Known(Name(p))
  <2>1. at \in DOMAIN users /\ at \in Nat /\ Name(p) \in Names /\ at # 0
    BY <1>1, <1>3, NameKnown, Numbers DEF Known
  <2>2. users[at] \in User /\ now \in Nat /\ "open" \in Pc
    BY <2>1, Numbers DEF Pc
  <2>3. loc' = [loc EXCEPT ![p] = m]
    BY <1>2, <1>3 DEF FindAccount, Memory
  <2>4. PICK k : k = at
    OBVIOUS
  <2> HIDE DEF at
  <2>5. /\ m \in Memory /\ m.pc = "open" /\ m.at = k
        /\ m.rq = loc[p].rq /\ m.gone = loc[p].gone
    BY <1>2, <2>1, <2>2, <2>4 DEF Memory
  <2> HIDE DEF m
  <2>6. loc'[p] = m
    BY <2>3, Old
  <2>7. Used(k)'
    <3>1. index' = index
      BY <1>1 DEF profileVars
    <3>2. Name(p) \in Registered' /\ index'[Name(p)] = k
      BY <2>1, <2>4, <3>1 DEF Registered, at
    <3> QED
      BY <3>1, <3>2 DEF Used
  <2>8. m.gone = 0
    BY <1>1, <1>2, <2>5 DEF GoneInv, GoneRight, Role
  <2>9. GoneRight(p)'
    BY <2>5, <2>6, <2>7, <2>8 DEF GoneRight
  <2> QED
    BY <1>1, <1>2, <2>3, <2>5, <2>9, GoneHere
<1>4. CASE ~Known(Name(p))
  <2>1. Quiet(p)
    BY <1>1, <1>4, EndQuiet DEF FindAccount
  <2>2. BoundKept(p) /\ now' = now
    BY <1>1, NoneOpened DEF sessionVars
  <2> QED
    BY <1>1, <1>2, <2>1, <2>2, QuietHere
<1> QED
  BY <1>3, <1>4

LEMMA FindRemovedGone ==
    ASSUME AccountsInv, AccountsInv', RightInv, GoneInv, NEW p \in Procs, FindRemoved(p)
    PROVE  GoneInv'
<1> DEFINE uniq == users[index[Name(p)]].uniq
           m == [loc[p] EXCEPT !.pc = "where", !.gone = uniq]
<1>1. UNCHANGED <<sessionVars, profileVars, alone>> /\ loc[p].pc = "find"
  BY DEF FindRemoved, At
<1>2. Turn(p) /\ Role(loc[p]) /\ loc[p] \in Memory
  BY <1>1, HasTurn
<1>3. CASE Known(Name(p))
  <2>1. uniq \in Nat
    BY <1>1, <1>3, NameKnown, Numbers DEF Known, User
  <2>2. loc' = [loc EXCEPT ![p] = m]
    BY <1>2, <1>3 DEF FindRemoved, Memory
  <2>3. PICK name, gone : name = Name(p) /\ gone = users[index[name]].uniq
    OBVIOUS
  <2>4. gone = uniq
    BY <2>3
  <2> HIDE DEF uniq
  <2>5. /\ m \in Memory /\ m.pc = "where" /\ m.rq = loc[p].rq /\ m.ui = loc[p].ui
        /\ m.gone = gone
    BY <1>2, <2>1, <2>4 DEF Memory, Pc
  <2> HIDE DEF m
  <2>6. loc'[p] = m
    BY <2>2, Old
  <2>7. m.rq.op \in {"remove", "leave"}
    BY <1>1, <1>2, <2>5 DEF Role
  <2>8. Name(p)' = name /\ index' = index /\ users' = users
    BY <1>1, <2>3, <2>5, <2>6 DEF Name, profileVars
  <2>9. GoneRight(p)'
    BY <2>3, <2>5, <2>6, <2>7, <2>8 DEF GoneRight
  <2> QED
    BY <1>1, <1>2, <2>2, <2>5, <2>7, <2>9, GoneHere DEF Removing
<1>4. CASE ~Known(Name(p))
  <2>1. Quiet(p)
    BY <1>1, <1>4, EndQuiet DEF FindRemoved
  <2>2. BoundKept(p) /\ now' = now
    BY <1>1, NoneOpened DEF sessionVars
  <2> QED
    BY <1>1, <1>2, <2>1, <2>2, QuietHere
<1> QED
  BY <1>3, <1>4

LEMMA FindPlaceGone ==
    ASSUME AccountsInv, AccountsInv', RightInv, GoneInv, NEW p \in Procs, FindPlace(p)
    PROVE  GoneInv'
<1> DEFINE at == index[Name(p)]
           pc == IF loc[p].rq.op = "modify" THEN "rewrite" ELSE "delete"
           m == [loc[p] EXCEPT !.at = at, !.pc = pc]
<1>1. UNCHANGED <<sessionVars, profileVars, alone>> /\ loc[p].pc = "where"
  BY DEF FindPlace, At
<1>2. Turn(p) /\ loc[p] \in Memory /\ GoneRight(p)
  BY <1>1, HasTurn DEF GoneInv
<1>3. CASE at # 0
  <2>1. at \in Nat
    BY <1>1, <1>3, NameKnown, Numbers
  <2>2. loc' = [loc EXCEPT ![p] = m]
    BY <1>2, <1>3 DEF FindPlace, Memory
  <2>3. pc \in {"rewrite", "delete"} /\ pc \in Pc
    BY DEF Pc
  <2> HIDE DEF pc
  <2>4. PICK name : name = Name(p)
    OBVIOUS
  <2>5. /\ m \in Memory /\ m.pc = pc /\ m.rq = loc[p].rq
        /\ m.ui = loc[p].ui /\ m.gone = loc[p].gone
    BY <1>2, <2>1, <2>3 DEF Memory
  <2> HIDE DEF m
  <2>6. loc'[p] = m
    BY <2>2, Old
  <2>7. Name(p)' = name /\ index' = index /\ users' = users
    BY <1>1, <2>4, <2>5, <2>6 DEF Name, profileVars
  <2>8. m.rq.op \in {"remove", "leave"} /\ index[name] # 0 => users[index[name]].uniq = m.gone
    BY <1>1, <1>2, <2>4, <2>5 DEF GoneRight
  <2>9. m.rq.op \notin {"remove", "leave"} => m.gone = 0
    BY <1>1, <1>2, <2>5 DEF GoneRight
  <2>10. GoneRight(p)'
    BY <2>3, <2>5, <2>6, <2>7, <2>8, <2>9 DEF GoneRight
  <2> QED
    BY <1>1, <1>2, <2>2, <2>3, <2>5, <2>10, GoneHere
<1>4. CASE at = 0
  <2>1. Quiet(p)
    BY <1>1, <1>4, EndQuiet DEF FindPlace
  <2>2. BoundKept(p) /\ now' = now
    BY <1>1, NoneOpened DEF sessionVars
  <2> QED
    BY <1>1, <1>2, <2>1, <2>2, QuietHere
<1> QED
  BY <1>3, <1>4

LEMMA CloseSessionsGone ==
    ASSUME AccountsInv, AccountsInv', RightInv, GoneInv, NEW p \in Procs, CloseSessions(p)
    PROVE  GoneInv'
<1>1. loc[p].pc = "sweep" /\ UNCHANGED <<profileVars, alone>> /\ End(p, loc[p].gone)
  BY DEF CloseSessions, At
<1>2. Turn(p) /\ Role(loc[p]) /\ loc[p] \in Memory /\ GoneRight(p)
  BY <1>1, HasTurn DEF GoneInv
<1>3. PICK gone : gone = loc[p].gone
  OBVIOUS
<1>4. gone \in Nat /\ loc[p].rq.op \in Removing
  BY <1>1, <1>2, <1>3 DEF Memory, Role, Removing
<1>5. PICK m \in Memory :
         /\ m = [pc |-> "done", rq |-> EndedRequest, id |-> 0, uniq |-> 0, expire |-> 0,
                 ui |-> NoUser, at |-> 0, created |-> 0, since |-> 0, gone |-> gone,
                 other |-> 0, heir |-> loc[p].heir]
         /\ loc' = [loc EXCEPT ![p] = m]
  BY <1>1, <1>3, <1>4, EndMakes
<1>6. m.pc = "done" /\ m.rq.op = "visit" /\ m.gone = gone
  BY <1>5 DEF EndedRequest
<1>7. loc'[p] = m /\ \A q \in Procs \ {p} : loc'[q] = loc[q]
  BY <1>5, Old
<1>8. GoneMoves(p)
  BY <1>1, <1>3, <1>6, <1>7 DEF GoneMoves
<1>9. AccountsKept(p)
  BY <1>1 DEF AccountsKept, profileVars
<1>10. PICK tn \in loc[p].since..now : CloseByUser(tn, loc[p].gone)
  BY DEF CloseSessions
<1>11. PICK entries :
          /\ entries = {i \in DOMAIN auth : auth[i].uniq = gone /\ ~auth[i].unbound}
          /\ CloseEntries(tn, entries)
  BY <1>3, <1>10 DEF CloseByUser
<1>12. /\ BoundKept(p) /\ now' = now
       /\ \A i \in DOMAIN auth' : Bound(auth[i])' =>
             i \in DOMAIN auth /\ i \notin entries /\ auth'[i] = auth[i]
  BY <1>11, Earlier, ClosedOnly
<1>13. Swept(p)
  BY <1>3, <1>11, <1>12 DEF Swept, Bound
<1>14. GoneRight(p)'
  <2>1. gone # 0 => Nobodys(gone)
    BY <1>1, <1>2, <1>3 DEF GoneRight
  <2>2. gone # 0 => Nobodys(gone)'
    BY <1>1, <2>1 DEF Nobodys, profileVars, Registered
  <2> QED
    BY <1>6, <1>7, <2>2 DEF GoneRight
<1> QED
  BY <1>1, <1>2, <1>8, <1>9, <1>12, <1>13, <1>14, GoneStep

LEMMA DeleteUserGone ==
    ASSUME AccountsInv, AccountsInv', RightInv, GoneInv, NEW p \in Procs, DeleteUser(p)
    PROVE  GoneInv'
<1>1. loc[p].pc = "delete" /\ UNCHANGED <<sessionVars, alone>>
  BY DEF DeleteUser, At
<1>2. /\ Turn(p) /\ HandRight(p) /\ Role(loc[p]) /\ loc[p] \in Memory
      /\ loc[p].rq.op \in Removing /\ index[Name(p)] = loc[p].at /\ GoneRight(p)
  BY <1>1, HasTurn DEF HandRight, RecordRight, Role, GoneInv
<1>3. PICK name, at : name = Name(p) /\ at = loc[p].at
  OBVIOUS
<1>4. /\ name \in Names /\ index[name] = at /\ at # 0 /\ name \in Registered
      /\ at \in DOMAIN users
  <2>1. name \in Names /\ index[name] = at
    BY <1>1, <1>2, <1>3, NameKnown
  <2>2. at # 0 /\ at \in DOMAIN users
    BY <1>1, <1>2, <1>3, Old, Numbers DEF Good, Points, Memory
  <2> QED
    BY <2>1, <2>2 DEF Registered
<1>5. users[at].name = name
  BY <1>4 DEF RightInv, FilesRight, NamesRight
<1>6. /\ index' = [index EXCEPT ![name] = 0]
      /\ users' = users /\ lastUniq' = lastUniq
      /\ End(p, 0) \/ (Goto(p, "sweep") /\ loc[p].rq.op # "purge")
  BY <1>3, <1>4, <1>5 DEF DeleteUser
<1>7. /\ index \in [Names -> 0..Len(users)]
      /\ \A a : a \in Registered' <=> a \in Registered /\ a # name
      /\ \A a \in Registered' : index'[a] = index[a]
  BY <1>4, <1>6 DEF AccountsInv, FilesInv, Registered
<1>8. AccountsKept(p)
  <2>1. lastUniq <= lastUniq'
    BY <1>6 DEF AccountsInv, FilesInv
  <2>2. \A a \in Registered' : a \in Registered /\ users'[index'[a]].uniq = users[index[a]].uniq
    BY <1>6, <1>7
  <2> QED
    BY <1>1, <2>1, <2>2 DEF AccountsKept
<1>9. BoundKept(p) /\ now' = now /\ Swept(p) /\ alone' = alone
  BY <1>1, NoneOpened DEF sessionVars, Swept
<1>10. CASE End(p, 0)
  BY <1>1, <1>2, <1>8, <1>9, <1>10, EndQuiet, QuietStep
<1>11. CASE Goto(p, "sweep") /\ loc[p].rq.op # "purge"
  <2> DEFINE m == [loc[p] EXCEPT !.pc = "sweep", !.since = now]
  <2>1. loc' = [loc EXCEPT ![p] = m]
    BY <1>2, <1>11 DEF Goto, Memory
  <2>2. m \in Memory /\ m.pc = "sweep" /\ m.rq = loc[p].rq /\ m.gone = loc[p].gone
    BY <1>2, Numbers DEF Memory, Pc
  <2> HIDE DEF m
  <2>3. loc'[p] = m /\ \A q \in Procs \ {p} : loc'[q] = loc[q]
    BY <2>1, <2>2, Old
  <2>4. GoneMoves(p)
    BY <1>9, <2>2, <2>3 DEF GoneMoves
  <2>5. PICK gone : gone = loc[p].gone
    OBVIOUS
  <2>6. loc[p].rq.op \in {"remove", "leave"}
    BY <1>2, <1>11 DEF Removing
  <2>7. users[at].uniq = gone
    BY <1>1, <1>2, <1>3, <1>4, <2>5, <2>6 DEF GoneRight
  <2>8. NamesRight
    BY DEF RightInv, FilesRight
  <2>9. gone <= lastUniq
    BY <1>4, <2>7, <2>8 DEF NamesRight
  <2>10. \A a \in Registered' : users'[index'[a]].uniq # gone
    BY <1>4, <1>6, <1>7, <2>7, <2>8 DEF NamesRight
  <2>11. Nobodys(gone)'
    BY <1>6, <2>9, <2>10 DEF Nobodys
  <2>12. GoneRight(p)'
    BY <2>2, <2>3, <2>5, <2>6, <2>11 DEF GoneRight
  <2> QED
    BY <1>1, <1>2, <1>8, <1>9, <2>4, <2>12, GoneStep
<1> QED
  BY <1>6, <1>10, <1>11

LEMMA AddUserGone ==
    ASSUME AccountsInv, AccountsInv', RightInv, GoneInv, NEW p \in Procs, AddUser(p)
    PROVE  GoneInv'
<1>1. loc[p].pc = "add" /\ UNCHANGED <<sessionVars, alone>>
  BY DEF AddUser, At
<1>2. Turn(p) /\ loc[p] \in Memory /\ lastUniq \in Nat
  BY <1>1, HasTurn DEF AccountsInv, FilesInv
<1>3. PICK name : name = Name(p)
  OBVIOUS
<1>4. name \in Names
  BY <1>1, <1>3, NameKnown
<1>5. PICK u \in Space(ufree, Len(users)), b \in Space(bfree, Len(bodies)) :
         /\ users' = Put(users, u.at, [name |-> name, uniq |-> lastUniq + 1, full |-> b.at])
         /\ \/ /\ index[name] = 0
               /\ index' = [index EXCEPT ![name] = u.at]
               /\ lastUniq' = lastUniq + 1
               /\ Goto(p, IF loc[p].id # 0 THEN "endown" ELSE "lookup")
            \/ /\ index' = index /\ lastUniq' = lastUniq
               /\ End(p, 0)
  BY <1>3 DEF AddUser, Unused, TakenBack
<1>6. u.at \in 1..(Len(users) + 1) /\ b.at \in 1..(Len(bodies) + 1)
  BY SpaceFacts, PlacesKnown, Numbers
<1>7. PICK at, full, ui :
         at = u.at /\ full = b.at /\ ui = [name |-> name, uniq |-> lastUniq + 1, full |-> full]
  OBVIOUS
<1>8. ui \in User /\ ui.uniq = lastUniq + 1
  BY <1>2, <1>4, <1>6, <1>7 DEF User
<1>9. Written(users, users', at, ui)
  <2>1. users' = Put(users, at, ui)
    BY <1>5, <1>7
  <2>2. users \in Seq(User) /\ at \in 1..(Len(users) + 1)
    BY <1>6, <1>7 DEF AccountsInv, FilesInv
  <2>3. Written(users, Put(users, at, ui), at, ui)
    BY <1>8, <2>2, PutWrites
  <2> QED
    BY <2>1, <2>3
<1>10. \A a \in Registered : index[a] # at /\ index[a] \in DOMAIN users
  BY <1>7, NobodysPlace, PlacesKnown
<1>11. \A a \in Registered : users'[index[a]] = users[index[a]]
  BY <1>9, <1>10 DEF Written
<1>12. /\ \A a \in Registered' : (a \in Registered /\ index'[a] = index[a])
                                 \/ (index'[a] = at /\ lastUniq' = lastUniq + 1)
       /\ \A a \in Registered : a \in Registered' /\ index'[a] = index[a]
  <2>1. index \in [Names -> 0..Len(users)]
    BY DEF AccountsInv, FilesInv
  <2>2. CASE index' = index
    BY <2>2 DEF Registered
  <2>3. CASE /\ index[name] = 0 /\ index' = [index EXCEPT ![name] = at]
             /\ lastUniq' = lastUniq + 1
    BY <1>4, <2>1, <2>3 DEF Registered
  <2> QED
    BY <1>5, <1>7, <2>2, <2>3
<1>13. AccountsKept(p)
  <2>1. lastUniq <= lastUniq'
    BY <1>2, <1>5
  <2>2. \A a \in Registered' : \/ /\ a \in Registered
                                  /\ users'[index'[a]].uniq = users[index[a]].uniq
                               \/ users'[index'[a]].uniq = lastUniq + 1
    BY <1>8, <1>9, <1>11, <1>12 DEF Written
  <2>3. \A x : Used(x) => Used(x)'
    BY <1>12 DEF Used
  <2> QED
    BY <1>1, <2>1, <2>2, <2>3 DEF AccountsKept
<1>14. BoundKept(p) /\ now' = now /\ alone' = alone
  BY <1>1, NoneOpened DEF sessionVars
<1>15. Quiet(p)
  <2>1. CASE End(p, 0)
    BY <1>14, <2>1, EndQuiet
  <2>2. CASE Goto(p, IF loc[p].id # 0 THEN "endown" ELSE "lookup")
    <3>1. PICK pc : pc = IF loc[p].id # 0 THEN "endown" ELSE "lookup"
      OBVIOUS
    <3>2. pc \in {"endown", "lookup"}
      BY <3>1
    <3> DEFINE m == [loc[p] EXCEPT !.pc = pc, !.since = now]
    <3>3. loc' = [loc EXCEPT ![p] = m]
      BY <1>2, <2>2, <3>1 DEF Goto, Memory
    <3>4. m \in Memory /\ m.pc = pc /\ m.rq = loc[p].rq /\ m.gone = loc[p].gone
      BY <1>2, <3>2, Numbers DEF Memory, Pc
    <3> HIDE DEF m
    <3> QED
      BY <1>14, <3>2, <3>3, <3>4, MemoryQuiet
  <2> QED
    BY <1>5, <2>1, <2>2
<1> QED
  BY <1>1, <1>2, <1>13, <1>14, <1>15, QuietStep

LEMMA ModifyUserGone ==
    ASSUME AccountsInv, AccountsInv', RightInv, GoneInv, NEW p \in Procs, ModifyUser(p)
    PROVE  GoneInv'
<1>1. loc[p].pc = "rewrite" /\ UNCHANGED <<sessionVars, alone>> /\ End(p, 0)
  BY DEF ModifyUser, At
<1>2. /\ index' = index /\ lastUniq' = lastUniq
      /\ users' = users \/ \E full : users' = [users EXCEPT ![loc[p].at].full = full]
  BY DEF ModifyUser, profileVars
<1>3. lastUniq \in Nat /\ users \in Seq(User)
  BY DEF AccountsInv, FilesInv
<1>4. \A x \in DOMAIN users : users'[x].uniq = users[x].uniq
  <2>1. ASSUME NEW full, users' = [users EXCEPT ![loc[p].at].full = full], NEW x \in DOMAIN users
        PROVE  users'[x].uniq = users[x].uniq
    <3>1. PICK at : at = loc[p].at
      OBVIOUS
    <3>2. PICK r : r = [users[at] EXCEPT !.full = full]
      OBVIOUS
    <3>3. users' = [users EXCEPT ![at] = r]
      BY <2>1, <3>1, <3>2
    <3>4. at \in DOMAIN users => r.uniq = users[at].uniq
      BY <1>3, <3>2, Numbers DEF User
    <3> QED
      BY <1>3, <3>3, <3>4
  <2> QED
    BY <1>2, <2>1
<1>5. \A a \in Registered : index[a] \in DOMAIN users
  BY PlacesKnown
<1>6. AccountsKept(p)
  <2>1. Registered' = Registered
    BY <1>2 DEF Registered
  <2>2. \A x : Used(x) => Used(x)'
    BY <1>2, <2>1 DEF Used
  <2>3. lastUniq <= lastUniq'
    BY <1>2, <1>3
  <2> QED
    BY <1>1, <1>2, <1>4, <1>5, <2>1, <2>2, <2>3 DEF AccountsKept
<1>7. BoundKept(p) /\ now' = now /\ alone' = alone
  BY <1>1, NoneOpened DEF sessionVars
<1>8. Quiet(p)
  BY <1>1, <1>7, EndQuiet
<1> QED
  BY <1>1, <1>6, <1>7, <1>8, HasTurn, QuietStep

-----------------------------------------------------------------------------
\* The clock only ends sessions.
LEMMA ClockGone ==
    ASSUME AccountsInv, GoneInv, Clock
    PROVE  GoneInv'
<1>1. /\ now' = now + 1 /\ auth' = auth /\ alone' = alone /\ loc' = loc
      /\ index' = index /\ users' = users /\ lastUniq' = lastUniq
  BY DEF Clock, Tick, profileVars
<1>2. Severed' /\ NoneGone'
  BY <1>1 DEF GoneInv, Severed, NoneGone
<1>3. \A x : (Nobodys(x)' <=> Nobodys(x)) /\ (Used(x)' <=> Used(x))
  BY <1>1 DEF Nobodys, Used, Registered
<1>4. ASSUME NEW q \in Procs PROVE GoneRight(q)'
  <2>1. PICK m, name : m = loc[q] /\ name = Name(q)
    OBVIOUS
  <2>2. loc'[q] = m /\ Name(q)' = name
    BY <1>1, <2>1 DEF Name
  <2>3. GoneRight(q)
    BY DEF GoneInv
  <2> QED
    BY <1>1, <1>3, <2>1, <2>2, <2>3 DEF GoneRight
<1>5. BoundSessionsEndWithAccount'
  <2>1. SUFFICES ASSUME NEW q \in Procs, loc[q].pc = "done", loc[q].gone # 0,
                        NEW i \in DOMAIN auth, auth[i].uniq = loc[q].gone,
                        auth[i].expire > now + 1
                 PROVE  auth[i].unbound
    BY <1>1 DEF BoundSessionsEndWithAccount, OpenFor, Over, At
  <2>2. auth[i].expire \in Nat /\ now \in Nat
    BY Numbers
  <2>3. auth[i].expire > now
    BY <2>1, <2>2
  <2> QED
    BY <2>1, <2>3 DEF GoneInv, BoundSessionsEndWithAccount, OpenFor, Over, At
<1> QED
  BY <1>2, <1>4, <1>5 DEF GoneInv

LEMMA StillGone ==
    ASSUME GoneInv, UNCHANGED vars
    PROVE  GoneInv'
<1>1. /\ now' = now /\ auth' = auth /\ alone' = alone /\ loc' = loc
      /\ index' = index /\ users' = users /\ lastUniq' = lastUniq
  BY DEF vars, sessionVars, profileVars
<1>2. Severed' /\ NoneGone'
  BY <1>1 DEF GoneInv, Severed, NoneGone
<1>3. \A x : (Nobodys(x)' <=> Nobodys(x)) /\ (Used(x)' <=> Used(x))
  BY <1>1 DEF Nobodys, Used, Registered
<1>4. ASSUME NEW q \in Procs PROVE GoneRight(q)'
  <2>1. PICK m, name : m = loc[q] /\ name = Name(q)
    OBVIOUS
  <2>2. loc'[q] = m /\ Name(q)' = name
    BY <1>1, <2>1 DEF Name
  <2>3. GoneRight(q)
    BY DEF GoneInv
  <2> QED
    BY <1>1, <1>3, <2>1, <2>2, <2>3 DEF GoneRight
<1>5. BoundSessionsEndWithAccount'
  BY <1>1 DEF GoneInv, BoundSessionsEndWithAccount, OpenFor, Over, At
<1> QED
  BY <1>2, <1>4, <1>5 DEF GoneInv

LEMMA InitGone ==
    ASSUME Init, Severed
    PROVE  GoneInv
<1>1. \A p \in Procs : \E rq : loc[p] = Idle("start", rq) \/ loc[p] = Idle("done", rq)
  BY DEF Init
<1>2. ASSUME NEW p \in Procs PROVE loc[p].pc \in {"start", "done"} /\ loc[p].gone = 0
  <2>1. PICK rq : loc[p] = Idle("start", rq) \/ loc[p] = Idle("done", rq)
    BY <1>1
  <2>2. CASE loc[p] = Idle("start", rq)
    BY <2>2 DEF Idle
  <2>3. CASE loc[p] = Idle("done", rq)
    BY <2>3 DEF Idle
  <2> QED
    BY <2>1, <2>2, <2>3
<1>3. \A p \in Procs : GoneRight(p)
  BY <1>2 DEF GoneRight
<1>4. NoneGone /\ BoundSessionsEndWithAccount
  BY <1>2 DEF NoneGone, BoundSessionsEndWithAccount
<1> QED
  BY <1>3, <1>4 DEF GoneInv

LEMMA GoneNext ==
    ASSUME AccountsInv, AccountsInv', RightInv, GoneInv, [Next]_vars
    PROVE  GoneInv'
<1>1. CASE UNCHANGED vars
  BY <1>1, StillGone
<1>2. ASSUME NEW p \in Procs, Begin(p) \/ Serve(p)
      PROVE  GoneInv'
  <2>1. CASE Begin(p)
    BY <2>1, BeginGone
  <2>2. CASE Visit(p)
    BY <2>2, CheckSessionGone, ReadProfileGone, RejectSessionGone, TouchProfileGone DEF Visit
  <2>3. CASE Login(p)
    BY <2>3, EndOwnSessionGone, FindAccountGone, OpenSessionGone, StampLoginGone DEF Login
  <2>4. CASE ChangeAccount(p)
    BY <2>4, CheckNameGone, AddUserGone, FindRemovedGone, FindPlaceGone, DeleteUserGone,
       CloseSessionsGone, LoadOwnGone, ModifyUserGone DEF ChangeAccount
  <2>5. CASE PickSession(p) \/ CloseOther(p)
    BY <2>5, PickSessionGone, CloseOtherGone
  <2> QED
    BY <1>2, <2>1, <2>2, <2>3, <2>4, <2>5 DEF Serve
<1>3. CASE Clock
  BY <1>3, ClockGone
<1>4. CASE AllServed
  BY <1>1, <1>4 DEF AllServed
<1> QED
  BY <1>1, <1>2, <1>3, <1>4 DEF Next

\* When somebody has been removed, no session of his that is bound to an
\* address is open any more, nor will one be: ForceCloseSessionForUser closes
\* those there are, and the UniqID is not given again.  Nobody logs in while
\* somebody else is removed, or all requests come one after another.
THEOREM RemovedStayOut == Sound /\ Severed /\ Spec => []BoundSessionsEndWithAccount
<1>1. AccountsInv /\ AccountsInv' /\ RightInv /\ GoneInv /\ [Next]_vars => GoneInv'
  BY GoneNext
<1>2. Init /\ Severed => GoneInv
  BY InitGone
<1>3. GoneInv => BoundSessionsEndWithAccount
  BY DEF GoneInv
<1> QED
  BY <1>1, <1>2, <1>3, AccountsAlways, AccountsStayRight, PTL DEF Spec
=============================================================================
