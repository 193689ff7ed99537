----------------------------- MODULE UserRecords ----------------------------
(***************************************************************************)
(* The short record of a user, and what several handlers keep in it:       *)
(* personal messages and favourite threads (profiles.cpp).  A message is   *)
(* put at the end of profpers.db; it is on two chains, of the messages its *)
(* recipient has got and of those its sender has posted, whose heads and   *)
(* lengths are in their records.  Every handler reads a whole record,      *)
(* changes some of it and writes all of it back (SetUInfo), at times the   *)
(* one its session was checked with.  The lock on profpers.db keeps two    *)
(* posters apart, but not from the other handlers; and both records are    *)
(* read before it.  Names are those of existing users (module Accounts).   *)
(***************************************************************************)
EXTENDS Requests, Naturals, Sequences, SequencesExt

CONSTANTS
    Threads,        \* numbers of messages, which may be favourites
    Favs,           \* PROFILES_FAV_THREADS_COUNT
    PageLength,     \* messages got that a page lists, 10
    MaxMessages,    \* bound: messages in profpers.db
    Plans           \* what requests may ask for, and whether one after another

\* What the constants are.
UserRecordsConstants ==
    /\ None \notin Procs
    /\ Threads \subseteq Nat \ {0}
    /\ {Favs, PageLength} \subseteq Nat \ {0}
    /\ MaxMessages \in Nat

VARIABLES
    users,          \* the records of profindex.db
    file,           \* profpers.db
    mailLock,           \* who holds its lock
    plan,           \* the plan in force
    mixed,          \* history: users whose record was made of two that differ
    recLoc             \* each request's own memory

recVars == <<users, file, mailLock, plan, mixed, recLoc>>

\* uniq: UniqID; got, persmsg: number and last of the messages got; posted,
\* postedpersmsg: of those posted (0 for 0xFFFFFFFF); read: number read of got.
Record == [uniq : Users, persmsg : 0..Len(file), got : Nat, read : Nat,
           postedpersmsg : 0..Len(file), posted : Nat,
           favs : [1..Favs -> Threads \cup {0}]]
Message == [to : Users, from : Users, prev : Nat, posterPrev : Nat]

NewUser(u) == [uniq |-> u, persmsg |-> 0, got |-> 0, read |-> 0,
               postedpersmsg |-> 0, posted |-> 0, favs |-> [i \in 1..Favs |-> 0]]

\* what: the recipient of a message, or the thread to be a favourite.
Request == [op : {"message", "read", "fav", "unfav", "show"}, user : Users,
            what : Users \cup Threads \cup {0}]

\* What requests may ask for.
PlansRight ==
    \A pl \in Plans : pl.alone \in BOOLEAN /\ \A p \in Procs : \A rq \in pl.may[p] :
        /\ rq \in Request
        /\ rq.op = "message" => rq.what \in Users
        /\ rq.op \in {"fav", "unfav"} => rq.what \in Threads

\* ui: the record the session was checked with; to, own: records read later.
Idle == [pc |-> "idle", rq |-> [op |-> "idle"], ui |-> <<>>, to |-> <<>>, own |-> <<>>]

RecInit ==
    /\ users = [u \in Users |-> NewUser(u)]
    /\ file = <<>>
    /\ mailLock = None
    /\ plan \in Plans
    /\ mixed = {}
    /\ recLoc = [p \in Procs |-> Idle]

-----------------------------------------------------------------------------
At(p, pc) == recLoc[p].pc = pc
UserOf(p) == recLoc[p].rq.user

\* SetUInfo: all of a record is written.
SetUInfo(u, record) == users' = [users EXCEPT ![u] = record]

\* Requests that have yet to put a message into the file.
Writing == {p \in Procs : recLoc[p].rq.op = "message" /\ ~At(p, "post")}

Handler(op) ==
    CASE op = "message" -> "to" [] op = "read" -> "list" [] op = "show" -> "show"
      [] op \in {"fav", "unfav"} -> "favs"

-----------------------------------------------------------------------------
\* CheckSession reads the user's record ...
CheckSession(p) ==
    /\ At(p, "idle")
    /\ plan.alone => \A q \in Procs : At(q, "idle")
    /\ \E rq \in plan.may[p] :
          /\ rq.op = "message" => Len(file) + Cardinality(Writing) < MaxMessages
          /\ recLoc' = [recLoc EXCEPT ![p].pc = "touch", ![p].rq = rq, ![p].ui = users[rq.user]]
    /\ UNCHANGED <<users, file, mailLock, plan, mixed>>

\* ... and writes it back with the date of the visit.
Touch(p) ==
    /\ At(p, "touch")
    /\ SetUInfo(UserOf(p), recLoc[p].ui)
    /\ recLoc' = [recLoc EXCEPT ![p].pc = Handler(recLoc[p].rq.op)]
    /\ UNCHANGED <<file, mailLock, plan, mixed>>

\* PostPersonalMessage: the recipient's record, then the sender's.
ReadTo(p) ==
    /\ At(p, "to")
    /\ recLoc' = [recLoc EXCEPT ![p].pc = "from", ![p].to = users[recLoc[p].rq.what]]
    /\ UNCHANGED <<users, file, mailLock, plan, mixed>>

ReadFrom(p) ==
    /\ At(p, "from")
    /\ recLoc' = [recLoc EXCEPT ![p].pc = "deliver", ![p].own = users[UserOf(p)]]
    /\ UNCHANGED <<users, file, mailLock, plan, mixed>>

\* Mutant: the chain of the posted messages is the recipient's.
MessageOfOther(to, own) ==
    [to |-> to.uniq, from |-> own.uniq, prev |-> to.persmsg, posterPrev |-> to.postedpersmsg]
MessageOf(to, own) ==
    [to |-> to.uniq, from |-> own.uniq, prev |-> to.persmsg, posterPrev |-> own.postedpersmsg]

Delivered(record) == [record EXCEPT !.persmsg = Len(file) + 1, !.got = @ + 1]

\* A message to oneself, between whose two readings of the record another request
\* has changed what was posted: the message will be linked to the later one and
\* the record be written with the counters of the earlier one.
Mixes(rq, to, own) == rq.what = rq.user /\ to.postedpersmsg # own.postedpersmsg

\* PostPersonalMessage locks profpers.db, writes the message and the
\* recipient's record ...
Deliver(p) ==
    LET to == Delivered(recLoc[p].to) IN
    /\ At(p, "deliver")
    /\ mailLock = None
    /\ file' = Append(file, MessageOf(recLoc[p].to, recLoc[p].own))
    /\ SetUInfo(recLoc[p].rq.what, to)
    /\ mailLock' = p
    /\ mixed' = IF Mixes(recLoc[p].rq, recLoc[p].to, recLoc[p].own)
                THEN mixed \cup {UserOf(p)} ELSE mixed
    /\ recLoc' = [recLoc EXCEPT ![p].pc = "post", ![p].to = to]
    /\ UNCHANGED plan

\* Mutant: a message to oneself is nothing special.
PosterAsRead(to, own) == own
\* "to correct bug with post to youself"
Poster(to, own) == IF own.uniq = to.uniq THEN to ELSE own

\* ... and the sender's.
Post(p) ==
    LET own == Poster(recLoc[p].to, recLoc[p].own) IN
    /\ At(p, "post")
    /\ SetUInfo(UserOf(p), [own EXCEPT !.postedpersmsg = Len(file), !.posted = @ + 1])
    /\ mailLock' = None
    /\ recLoc' = [recLoc EXCEPT ![p] = Idle]
    /\ UNCHANGED <<file, plan, mixed>>

\* The process is killed while it holds the lock.
Die(p) ==
    /\ At(p, "post") /\ ~plan.alone
    /\ mailLock' = None
    /\ recLoc' = [recLoc EXCEPT ![p] = Idle]
    /\ UNCHANGED <<users, file, plan, mixed>>

\* The page of personal messages shows them, then all are marked as read in the
\* record the session was checked with.
MarkRead(p) ==
    /\ At(p, "list")
    /\ SetUInfo(UserOf(p), [recLoc[p].ui EXCEPT !.read = recLoc[p].ui.got])
    /\ recLoc' = [recLoc EXCEPT ![p] = Idle]
    /\ UNCHANGED <<file, mailLock, plan, mixed>>

\* The page of favourites clears those whose threads are gone or hidden, in that
\* record too.
ShowFavs(p) ==
    LET ui == recLoc[p].ui IN
    /\ At(p, "show")
    /\ \E gone \in SUBSET (ToSet(ui.favs) \ {0}) :
          SetUInfo(UserOf(p), [ui EXCEPT !.favs =
                                  [i \in 1..Favs |-> IF @[i] \in gone THEN 0 ELSE @[i]]])
    /\ recLoc' = [recLoc EXCEPT ![p] = Idle]
    /\ UNCHANGED <<file, mailLock, plan, mixed>>

\* dbtool -np, while no request is under way: the messages of all users go.
RenewMail ==
    /\ plan.alone /\ \A p \in Procs : At(p, "idle")
    /\ file # <<>>
    /\ users' = [u \in Users |-> [NewUser(u) EXCEPT !.favs = users[u].favs]]
    /\ file' = <<>>
    /\ UNCHANGED <<mailLock, plan, mixed, recLoc>>

-----------------------------------------------------------------------------
\* The messages that ReadPersonalMessages reaches from message i: one after the
\* other, along links back.
Chain(links, i) ==
    LET from[j \in 0..Len(links)] == IF j = 0 THEN <<>> ELSE <<j>> \o from[links[j]]
    IN  from[i]

\* Those got, and those posted.
Got(i) == Chain([j \in DOMAIN file |-> file[j].prev], i)
PostedBy(i) == Chain([j \in DOMAIN file |-> file[j].posterPrev], i)

(* What is listed.  Messages are numbered in the order of their dates. *)
FirstOf(s, n) == SubSeq(s, 1, IF n < Len(s) THEN n ELSE Len(s))

\* ReadPersonalMessagesByDate: those before the first one that is older than the
\* oldest one got.
PostedSince(s, oldest) == SubSeq(s, 1, SelectInSeq(Append(s, 0), LAMBDA i : i < oldest) - 1)

\* ReadPersonalMessages: the first n of a chain; of the messages posted the
\* end is marked one place behind them if there are more (0 for no message).
ListedGot(u) == FirstOf(Got(users[u].persmsg), PageLength)
ListedPosted(u) ==
    LET posted == PostedBy(users[u].postedpersmsg) IN
    IF ListedGot(u) # <<>> THEN PostedSince(posted, Last(ListedGot(u)))
    ELSE FirstOf(posted, PageLength) \o (IF Len(posted) > PageLength THEN <<0>> ELSE <<>>)

-----------------------------------------------------------------------------
\* The first empty place, and the last one with a smaller number; 0 for none.
FirstEmptyFav(favs) == SelectInSeq(favs, LAMBDA f : f = 0)
LastBelow(favs, m) == SelectLastInSeq(favs, LAMBDA f : f # 0 /\ f < m)

\* Mutant: a favourite is put behind the smaller ones, over what is there.
AddFavOver(favs, m) == [favs EXCEPT ![LastBelow(favs, m) + 1] = m]

\* CheckandAddFavsList: one pass over the places (i from 1 here), which writes
\* prev one place back and carries in m the number still to be placed, until it
\* is behind both the first empty place and the last one with a smaller number.
PassPlace(empty, below, acc, i) ==
    LET back == IF i > 1 THEN [acc.favs EXCEPT ![i - 1] = acc.prev] ELSE acc.favs IN
    CASE acc.over -> acc
      [] ~acc.over /\ i - 1 > below /\ i - 1 > empty ->
            [acc EXCEPT !.prev = acc.favs[Favs], !.over = TRUE]
      [] OTHER ->
            CASE i + 1 > empty /\ i < below ->
                    [acc EXCEPT !.favs = back, !.prev = back[i + 1]]
              [] (i > below /\ i - 1 < empty) \/ (i = below /\ i + 1 > empty) ->
                    [acc EXCEPT !.favs = back, !.prev = acc.m, !.m = back[i]]
              [] OTHER ->
                    [acc EXCEPT !.favs = back, !.prev = back[i]]

AddFav(favs, m) ==
    LET pass[i \in 0..Favs] ==
            IF i = 0 THEN [favs |-> favs, prev |-> 0, m |-> m, over |-> FALSE]
            ELSE PassPlace(FirstEmptyFav(favs), LastBelow(favs, m), pass[i - 1], i)
    IN  [pass[Favs].favs EXCEPT ![Favs] = pass[Favs].prev]

\* CheckandAddFavsList and DelFavsList read the record anew; nothing is done
\* when the thread is there already, or there is no room, or it is not there.
ReadFavs(p) ==
    LET favs == users[UserOf(p)].favs
        m == recLoc[p].rq.what
    IN  /\ At(p, "favs")
        /\ IF \/ recLoc[p].rq.op = "fav" /\ m \notin ToSet(favs) /\ 0 \in ToSet(favs)
              \/ recLoc[p].rq.op = "unfav" /\ m \in ToSet(favs)
           THEN recLoc' = [recLoc EXCEPT ![p].pc = "setfavs", ![p].own = users[UserOf(p)]]
           ELSE recLoc' = [recLoc EXCEPT ![p] = Idle]
        /\ UNCHANGED <<users, file, mailLock, plan, mixed>>

SetFavs(p) ==
    LET own == recLoc[p].own
        m == recLoc[p].rq.what
    IN  /\ At(p, "setfavs")
        /\ SetUInfo(UserOf(p),
              IF recLoc[p].rq.op = "fav" THEN [own EXCEPT !.favs = AddFav(@, m)]
              ELSE [own EXCEPT !.favs[SelectInSeq(own.favs, LAMBDA f : f = m)] = 0])
        /\ recLoc' = [recLoc EXCEPT ![p] = Idle]
        /\ UNCHANGED <<file, mailLock, plan, mixed>>

RecNext ==
    \/ RenewMail
    \/ \E p \in Procs :
        \/ CheckSession(p) \/ Touch(p)
        \/ ReadTo(p) \/ ReadFrom(p) \/ Deliver(p) \/ Post(p) \/ Die(p)
        \/ MarkRead(p) \/ ShowFavs(p)
        \/ ReadFavs(p) \/ SetFavs(p)

RecSpec == RecInit /\ [][RecNext]_recVars

-----------------------------------------------------------------------------
RecTypeOK ==
    /\ users \in [Users -> Record]
    /\ file \in Seq(Message)
    /\ mailLock \in Procs \cup {None}
    /\ plan \in Plans
    /\ mixed \subseteq Users
    /\ \A p \in Procs :
          /\ recLoc[p].pc \in {"idle", "touch", "to", "from", "deliver", "post",
                           "list", "show", "favs", "setfavs"}
          /\ ~At(p, "idle") => recLoc[p].rq \in Request /\ recLoc[p].ui \in Record
          /\ {recLoc[p].to, recLoc[p].own} \subseteq Record \cup {<<>>}

\* The chains of a record are as long as it says and hold that user's messages
\* only: ReadPersonalMessages reads exactly as many as the record counts,
\* although records are written back that were read long before.  Only the number
\* posted is wrong once a record is mixed.
ChainsCounted ==
    /\ RecTypeOK
    /\ \A u \in Users :
          LET got == Got(users[u].persmsg)
              posted == PostedBy(users[u].postedpersmsg)
          IN  /\ Len(got) = users[u].got /\ users[u].read <= users[u].got
              /\ u \notin mixed => Len(posted) = users[u].posted
              /\ \A i \in ToSet(got) : file[i].to = u
              /\ \A i \in ToSet(posted) : file[i].from = u

\* While requests come one after the other each message is on the chains of its
\* recipient and of its sender, one and the same user or two.
OnBothChains ==
    plan.alone /\ (\A p \in Procs : At(p, "idle")) =>
        \A i \in DOMAIN file :
            /\ i \in ToSet(Got(users[file[i].to].persmsg))
            /\ i \in ToSet(PostedBy(users[file[i].from].postedpersmsg))

\* The page of a user who has got messages lists every message to or from that
\* user since the oldest one listed, although it reads two chains, one by number
\* and one by date.
PageWhole ==
    plan.alone /\ (\A p \in Procs : At(p, "idle")) =>
        \A u \in Users : ListedGot(u) # <<>> =>
            ToSet(ListedGot(u)) \cup ToSet(ListedPosted(u)) =
                {i \in Last(ListedGot(u))..Len(file) : u \in {file[i].to, file[i].from}}

\* While requests come one after the other no message is lost, neither from its
\* chains nor from the page (PostPersonalMessage, the handler in main.cpp).
MessagesKept == OnBothChains /\ PageWhole

\* Favourites stay in ascending order, with any empty places between them,
\* however they are added and removed (CheckandAddFavsList, DelFavsList).
InOrder(favs) ==
    \A i, j \in 1..Favs : i < j /\ favs[i] # 0 /\ favs[j] # 0 => favs[i] < favs[j]
FavsSorted == \A u \in Users : InOrder(users[u].favs)

FavSet(u) == ToSet(users[u].favs) \ {0}

\* Shifting places to make room neither loses nor doubles a favourite and keeps them
\* sorted: adding one adds that one to the set, removing one removes it.
FavsKept ==
    [][plan.alone => \A u \in Users, p \in Procs :
          At(p, "setfavs") /\ ~At(p, "setfavs")' /\ UserOf(p) = u =>
              /\ FavsSorted'
              /\ FavSet(u)' = IF recLoc[p].rq.op = "fav" THEN FavSet(u) \cup {recLoc[p].rq.what}
                              ELSE FavSet(u) \ {recLoc[p].rq.what}]_recVars
=============================================================================
