----------------------------- MODULE IndexPage -----------------------------
(***************************************************************************)
(* The index page by threads (DB_Base::printhtmlbuffer, called by          *)
(* printhtmlindexhron_bythreads), one message of the board a step.  The    *)
(* messages come in the order of the index: a thread is its root and then  *)
(* its replies, one level below what they reply to, newest thread first.   *)
(* Four variables that outlive a message decide what is left out: invflag  *)
(* and collapsed say at which level a hidden or rolled message was met,    *)
(* shouldprint holds a rolled message back until it is known how many      *)
(* messages it stands for, and skipped counts these.  The page nests its   *)
(* lists as the messages shown are nested.                                 *)
(***************************************************************************)
EXTENDS Integers, Sequences, FiniteSets

CONSTANTS
    Counts,         \* how many threads a reader may ask for
    MaxLevel,       \* bound: levels of replies
    MaxMessages     \* bound: messages read for a page

\* What the constants are.
IndexPageConstants ==
    /\ Counts \subseteq Nat \ {0}
    /\ MaxLevel \in Nat /\ MaxMessages \in Nat

VARIABLES
    view,           \* what the reader has asked for
    path,           \* history: the message last read and those it replies to
    read,           \* history: messages read
    invflag,        \* level of the hidden or rolled message met, -1 for none
    collapsed,      \* whether it was rolled
    pending,        \* pmes, the message held back, at most one (shouldprint)
    skipped,        \* messages skipped since, without the upper bits
    muted,          \* the upper bits of skipped: it does not count
    alrprn,         \* threads counted
    ll,             \* LastLevel
    opened,         \* history: lists opened and not closed
    printed,        \* history: what the last step has printed
    roots,          \* history: roots printed
    state           \* "reading", or why the page ended

flags == <<invflag, collapsed>>
output == <<pending, skipped, muted, alrprn, ll, opened, printed, roots>>
vars == <<view, path, read, flags, output, state>>

\* currentss 1 or 2, 4 and 5; currentlsel 1 and 2; currenttc.
View == [kind : {"threads", "rolled", "xml"}, super : BOOLEAN,
         limit : {"date", "count"}, tc : Counts]

\* A message as it is read.  Only a root's topic and date are looked at: off
\* is a topic not asked for, old a date before the earliest asked for.
Message == [level : 0..MaxLevel, hidden : BOOLEAN, rolled : BOOLEAN,
            off : BOOLEAN, old : BOOLEAN]

\* invflag = -1, alrprn = 0, and the list around all threads.
Init ==
    /\ view \in View
    /\ path = <<>> /\ read = 0
    /\ invflag = -1 /\ collapsed = FALSE
    /\ pending = <<>> /\ skipped = 0 /\ muted = FALSE
    /\ alrprn = 0
    /\ ll = 0
    /\ opened = IF view.kind = "xml" THEN 0 ELSE 1
    /\ printed = {} /\ roots = 0
    /\ state = "reading"

-----------------------------------------------------------------------------
\* What is decided of a message: invflag and collapsed from now on, and
\* whether it is shown.
Fate(inv, col, show) == [inv |-> inv, col |-> col, show |-> show]

\* Mutant: a hidden message ends where any message of its level follows.
TurnAnyEnds(m, inv, col) ==
    IF inv = -1
        THEN IF m.rolled THEN Fate(m.level, TRUE, ~m.hidden \/ view.super)
             ELSE IF m.hidden THEN Fate(m.level, col, view.super /\ ~col)
             ELSE Fate(-1, col, TRUE)
    ELSE IF inv >= m.level THEN Fate(-1, FALSE, view.super \/ ~m.hidden)
    ELSE Fate(inv, col, view.super /\ ~col)

\* Below a rolled message nothing is shown, below a hidden one to superusers
\* only, until a message comes that is not deeper than the one met; that one
\* is looked at on its own.
Turn(m, inv, col) ==
    CASE inv = -1 /\ m.rolled ->
            Fate(m.level, TRUE, ~m.hidden \/ view.super)
      [] inv = -1 /\ m.hidden /\ ~m.rolled ->
            Fate(m.level, col, view.super /\ ~col)
      [] inv = -1 /\ ~m.hidden /\ ~m.rolled ->
            Fate(-1, col, TRUE)
      [] inv # -1 /\ inv >= m.level /\ m.hidden ->
            Fate(m.level, IF view.super THEN m.rolled ELSE col, view.super)
      [] inv # -1 /\ inv >= m.level /\ ~m.hidden ->
            Fate(IF m.rolled THEN inv ELSE -1, m.rolled, TRUE)
      [] inv # -1 /\ inv < m.level ->
            Fate(inv, col, view.super /\ ~col)

\* A root is looked at afresh; when all threads are rolled, as a rolled one.
FateOf(m) ==
    CASE m.level > 0 -> Turn(m, invflag, collapsed)
      [] m.level = 0 /\ view.kind = "threads" -> Turn(m, -1, FALSE)
      [] m.level = 0 /\ view.kind # "threads" /\ m.hidden -> Turn(m, 0, TRUE)
      [] m.level = 0 /\ view.kind # "threads" /\ ~m.hidden -> Fate(0, TRUE, TRUE)

TooOld(m) == m.level = 0 /\ m.old /\ view.limit = "date"

\* The thread after the last one asked for.
Enough(m) ==
    m.level = 0 /\ view.limit = "count" /\ alrprn + 1 = view.tc + 1

\* What is told of a message printed or held back: its level, whether it or one
\* of the messages above it is hidden, whether its root is rolled or off topic,
\* how many messages of its thread came since, and whether the thread is over.
Entry(p) ==
    [level |-> Len(p) - 1, secret |-> \E i \in 1..Len(p) : p[i].hidden,
     folded |-> p[1].rolled /\ Len(p) > 1, off |-> p[1].off, below |-> 0, over |-> FALSE]

\* The one held back after m is read and not shown.
Passed(m) ==
    [i \in DOMAIN pending |->
        IF m.level = 0 THEN [pending[i] EXCEPT !.over = TRUE]
        ELSE IF pending[i].over THEN pending[i]
        ELSE [pending[i] EXCEPT !.below = @ + 1]]

Above(m) == SubSeq(path, 1, m.level)

\* The message is the next of the index: a root, or one level below one of the
\* messages above the last.
Comes(m) ==
    /\ state = "reading" /\ read < MaxMessages
    /\ m.level <= Len(path)
    /\ m.level > 0 => ~m.off /\ ~m.old
    /\ read' = read + 1
    /\ path' = Append(Above(m), [hidden |-> m.hidden, rolled |-> m.rolled, off |-> m.off])
    /\ UNCHANGED view

\* The page ends before a root that is too old.
StopByDate(m) ==
    /\ Comes(m) /\ TooOld(m)
    /\ invflag' = -1 /\ collapsed' = FALSE
    /\ state' = "old"
    /\ printed' = {}
    /\ UNCHANGED <<pending, skipped, muted, alrprn, ll, opened, roots>>

\* A thread of another topic is left out as if it was rolled and not shown.
OffTopic(m) ==
    /\ Comes(m) /\ ~TooOld(m) /\ m.level = 0 /\ m.off
    /\ invflag' = 0 /\ collapsed' = TRUE
    /\ muted' = TRUE
    /\ pending' = Passed(m)
    /\ printed' = {}
    /\ UNCHANGED <<skipped, alrprn, ll, opened, roots, state>>

\* Mutant: messages of a thread that is not shown are counted too.
MutedNever(m) == muted

\* From a root that is not shown on, messages do not count.
Muted(m) == muted \/ m.level = 0

\* A message that is not shown is counted, unless its thread is not shown.
LeaveOut(m) ==
    /\ Comes(m) /\ ~TooOld(m) /\ ~m.off /\ ~FateOf(m).show
    /\ invflag' = FateOf(m).inv /\ collapsed' = FateOf(m).col
    /\ muted' = Muted(m)
    /\ skipped' = IF muted' THEN skipped ELSE skipped + 1
    /\ printed' = {}
    /\ pending' = Passed(m)
    /\ UNCHANGED <<alrprn, ll, opened, roots, state>>

\* The page ends before the thread after the last one asked for.
StopByCount(m) ==
    /\ Comes(m) /\ ~TooOld(m) /\ ~m.off /\ FateOf(m).show /\ Enough(m)
    /\ invflag' = FateOf(m).inv /\ collapsed' = FateOf(m).col
    /\ alrprn' = alrprn + 1
    /\ state' = "enough"
    /\ printed' = {}
    /\ UNCHANGED <<pending, skipped, muted, ll, opened, roots>>

\* Mutant: one list is closed however many levels the message is higher.
NestedByOne(m) ==
    IF view.kind = "xml" THEN UNCHANGED <<ll, opened>>
    ELSE /\ ll' = m.level
         /\ opened' = CASE m.level < ll -> opened - 1
                       [] m.level = ll -> opened
                       [] m.level > ll -> opened + 1

\* Lists are closed down to the message's level, or one is opened for it.
Nested(m) ==
    IF view.kind = "xml" THEN UNCHANGED <<ll, opened>>
    ELSE /\ ll' = m.level
         /\ opened' = IF m.level <= ll THEN opened - (ll - m.level) ELSE opened + 1

RootsIn(es) == Cardinality({e \in es : e.level = 0})

\* A message that is shown: the one held back is printed, with the number of
\* those it stands for, and it is printed or held back itself.
Show(m) ==
    LET fate == FateOf(m)
        held == {pending[i] : i \in DOMAIN pending}
        mine == Entry(path')
    IN  /\ Comes(m) /\ ~TooOld(m) /\ ~m.off /\ fate.show /\ ~Enough(m)
        /\ invflag' = fate.inv /\ collapsed' = fate.col
        /\ alrprn' = IF m.level = 0 THEN alrprn + 1 ELSE alrprn
        /\ Nested(m)
        /\ pending' = IF fate.col THEN <<mine>> ELSE <<>>
        /\ printed' = IF fate.col THEN held ELSE held \cup {mine}
        /\ roots' = roots + RootsIn(held) + (IF ~fate.col /\ m.level = 0 THEN 1 ELSE 0)
        /\ IF pending # <<>> \/ fate.col
             THEN skipped' = 0 /\ muted' = FALSE
             ELSE UNCHANGED <<skipped, muted>>
        /\ UNCHANGED state

\* After the last message, or the one the page stopped at, the lists are closed.
\* The message held back is not printed any more.
Close ==
    /\ state # "closed"
    /\ state' = "closed"
    /\ opened' = IF view.kind = "xml" THEN opened ELSE opened - (ll + 1)
    /\ printed' = {}
    /\ UNCHANGED <<view, path, read, flags, pending, skipped, muted, alrprn, ll, roots>>

Next ==
    \/ \E m \in Message :
          StopByDate(m) \/ OffTopic(m) \/ LeaveOut(m) \/ StopByCount(m) \/ Show(m)
    \/ Close

Spec == Init /\ [][Next]_vars

-----------------------------------------------------------------------------
HeldOrPrinted == printed \cup {pending[i] : i \in DOMAIN pending}

Line == [hidden : BOOLEAN, rolled : BOOLEAN, off : BOOLEAN]
Told == [level : Nat, secret : BOOLEAN, folded : BOOLEAN, off : BOOLEAN,
         below : Nat, over : BOOLEAN]

TypeOK ==
    /\ view \in View
    /\ path \in Seq(Line) /\ Len(path) <= MaxLevel + 1 /\ read \in 0..MaxMessages
    /\ invflag \in -1..MaxLevel /\ collapsed \in BOOLEAN
    /\ pending \in Seq(Told) /\ Len(pending) <= 1
    /\ skipped \in 0..MaxMessages /\ muted \in BOOLEAN
    /\ alrprn \in Nat /\ ll \in 0..MaxLevel /\ opened \in Nat
    /\ state \in {"reading", "old", "enough", "closed"}

\* Nobody but a superuser is shown a message that is hidden or below a hidden
\* one, and nobody a message of a topic not asked for, though invflag holds one
\* level only, is set by rolled messages too, and ends at the next message that
\* is not deeper.
ShownToReader ==
    \A e \in HeldOrPrinted : ~e.off /\ (e.secret => view.super)

\* No reply of a thread rolled as a whole is shown, whatever else is rolled or
\* hidden in it and whoever reads.
ThreadsFolded == \A e \in HeldOrPrinted : ~e.folded

\* Every list opened is closed, at the end and in between: the lists open are
\* as many as the level of the message shown last, although only one is opened
\* for a message that may be deeper by any number of levels.
ListsBalanced ==
    opened = IF view.kind = "xml" \/ state = "closed" THEN 0 ELSE ll + 1

\* The number beside a rolled thread is the number of its replies, of which
\* none is shown: messages of threads left out that follow do not count.
SkippedRight ==
    \A i \in DOMAIN pending :
        pending[i].level = 0 => skipped = pending[i].below

\* Every thread counted was printed or is the one held back, and no more are
\* counted than asked for.
ThreadsCounted ==
    /\ view.limit = "count" => roots <= view.tc
    /\ alrprn = roots + RootsIn({pending[i] : i \in DOMAIN pending})
                + (IF view.limit = "count" /\ alrprn > view.tc THEN 1 ELSE 0)

\* The number beside a rolled thread is that of the replies left out for it, of
\* which none is shown, and every thread counted towards the limit was shown
\* (printhtmlbuffer).
CountsRight == TypeOK /\ SkippedRight /\ ThreadsFolded /\ ThreadsCounted

\* "The last N threads are shown" (messages.h:589): when the page ends at the
\* thread after them, they all have been printed.
AllAskedForShown == state = "enough" => roots = view.tc
=============================================================================
