----------------------------- MODULE ThreadPage -----------------------------
(***************************************************************************)
(* The page of one message: below its text, the list of its thread         *)
(* (DB_Base::printThreadbuffer, called by DB_PrintMessageThread).  The     *)
(* messages of the index are read from the thread's root on, one a step;   *)
(* the page ends before the second root that is shown.  When the thread's  *)
(* own root is hidden and not shown, that is the root after the next: the  *)
(* messages that are read meanwhile are those after the thread in a run    *)
(* that goes backward, but in one that goes forward they are read from the *)
(* thread's root on in the order of the file, whatever that is there.      *)
(***************************************************************************)
EXTENDS Integers, Sequences

CONSTANTS
    MaxThreadLevel,     \* bound: levels of replies
    MaxThreadMessages   \* bound: messages read for a page

\* What the constants are.
ThreadPageConstants == MaxThreadLevel \in Nat /\ MaxThreadMessages \in Nat \ {0}

VARIABLES
    super,          \* whether the reader is a superuser
    ownPath,        \* history: the message last read and those it replies to
    ownRead,        \* history: messages read
    ownInvflag,     \* level of a hidden message, -1 for none
    ownLl,          \* LastLevel
    czero,          \* roots shown
    ownOpened,      \* history: lists opened and not closed
    ownPrinted,     \* history: what the last step has printed, at most one
    ownState        \* "reading" the thread, "beyond" it or "astray", or the
                    \* page is "closed", or "lost" when it was astray

threadVars == <<super, ownPath, ownRead, ownInvflag, ownLl, czero, ownOpened, ownPrinted, ownState>>

ThreadMessage == [level : 0..MaxThreadLevel, hidden : BOOLEAN]

\* Before the root is reached nothing is done; then it is the first message.
ThreadInit ==
    /\ super \in BOOLEAN
    /\ ownPath = <<>> /\ ownRead = 0
    /\ ownInvflag = -1
    /\ ownLl = 0 /\ czero = 0
    /\ ownOpened = 1
    /\ ownPrinted = <<>>
    /\ ownState = "reading"

ThreadFate(inv, show) == [inv |-> inv, show |-> show]

\* Mutant: the level of the hidden message met first is kept.
FateFirstLevel(m) ==
    CASE ownInvflag = -1 /\ m.hidden -> ThreadFate(m.level, super)
      [] ownInvflag = -1 /\ ~m.hidden -> ThreadFate(-1, TRUE)
      [] ownInvflag # -1 /\ ownInvflag >= m.level /\ m.hidden -> ThreadFate(ownInvflag, super)
      [] ownInvflag # -1 /\ ownInvflag >= m.level /\ ~m.hidden -> ThreadFate(-1, TRUE)
      [] ownInvflag # -1 /\ ownInvflag < m.level -> ThreadFate(ownInvflag, super)

\* What becomes of invflag, and whether the message is shown.
ThreadFateOf(m) ==
    CASE ownInvflag = -1 /\ m.hidden -> ThreadFate(m.level, super)
      [] ownInvflag = -1 /\ ~m.hidden -> ThreadFate(-1, TRUE)
      [] ownInvflag # -1 /\ ownInvflag >= m.level /\ m.hidden -> ThreadFate(m.level, super)
      [] ownInvflag # -1 /\ ownInvflag >= m.level /\ ~m.hidden -> ThreadFate(-1, TRUE)
      [] ownInvflag # -1 /\ ownInvflag < m.level -> ThreadFate(ownInvflag, super)

\* The root, and after it a message one level below one of those above the
\* last; astray, any message, and nothing is known of those above it.
ThreadComes(m) ==
    /\ ownState \in {"reading", "beyond", "astray"} /\ ownRead < MaxThreadMessages
    /\ ownState # "astray" => m.level <= Len(ownPath)
    /\ ownRead' = ownRead + 1
    /\ ownPath' = Append(IF ownState = "astray" THEN <<>> ELSE SubSeq(ownPath, 1, m.level),
                        m.hidden)
    /\ UNCHANGED super

\* Whether m, read now, is still one of the thread.
Own(m) == ownState = "reading" /\ (ownPath = <<>> \/ m.level > 0)

\* After the thread the index is read on, from the wrong place while no root
\* has been shown.
Where(m) ==
    IF Own(m) THEN "reading"
    ELSE IF ownState = "reading" THEN IF czero = 0 THEN "astray" ELSE "beyond"
    ELSE ownState

\* Lists are closed down to the level of the message, or one is opened for it.
ThreadNested(m) ==
    /\ ownLl' = m.level
    /\ ownOpened' = IF m.level <= ownLl THEN ownOpened - (ownLl - m.level) ELSE ownOpened + 1

\* The second root shown ends the page; with it no list is left open.
LastRoot(m) == m.level = 0 /\ czero = 1

ThreadShow(m) ==
    /\ ThreadComes(m) /\ ThreadFateOf(m).show /\ ~LastRoot(m)
    /\ ownInvflag' = ThreadFateOf(m).inv
    /\ ThreadNested(m)
    /\ czero' = IF m.level = 0 THEN czero + 1 ELSE czero
    /\ ownPrinted' = <<[own |-> Own(m), hidden |-> \E i \in DOMAIN ownPath' : ownPath'[i]]>>
    /\ ownState' = Where(m)

ThreadLeaveOut(m) ==
    /\ ThreadComes(m) /\ ~ThreadFateOf(m).show
    /\ ownInvflag' = ThreadFateOf(m).inv
    /\ ownPrinted' = <<>>
    /\ ownState' = Where(m)
    /\ UNCHANGED <<ownLl, czero, ownOpened>>

\* The page ends at the second root shown, or after the last message of the
\* index (or, astray, of the file, where the request ends with an error).
ThreadClose ==
    /\ ownState \in {"reading", "beyond", "astray"} /\ ownPath # <<>>
    /\ ownState' = IF ownState = "astray" THEN "lost" ELSE "closed"
    /\ ownOpened' = ownOpened - (ownLl + 1)
    /\ ownPrinted' = <<>>
    /\ UNCHANGED <<super, ownPath, ownRead, ownInvflag, ownLl, czero>>

ThreadNext == (\E m \in ThreadMessage : ThreadShow(m) \/ ThreadLeaveOut(m)) \/ ThreadClose

ThreadSpec == ThreadInit /\ [][ThreadNext]_threadVars

-----------------------------------------------------------------------------
ThreadTypeOK ==
    /\ super \in BOOLEAN
    /\ ownPath \in Seq(BOOLEAN) /\ ownRead \in 0..MaxThreadMessages
    /\ ownInvflag \in -1..MaxThreadLevel /\ ownLl \in 0..MaxThreadLevel /\ czero \in 0..1
    /\ ownOpened \in Int /\ Len(ownPrinted) <= 1
    /\ ownState \in {"reading", "beyond", "astray", "closed", "lost"}

\* Nobody but a superuser is shown a message that is hidden, or below a hidden
\* one, though one level is all that is remembered of what was hidden.
HiddenNotListed ==
    \A i \in DOMAIN ownPrinted : ownPrinted[i].hidden => super

\* The lists open are as many as the level of the message shown last, and none
\* is left open, unless the page went astray.
ThreadListsBalanced ==
    ownState \notin {"astray", "lost"} => ownOpened = IF ownState = "closed" THEN 0 ELSE ownLl + 1

\* Where the root of the thread is shown nothing but the thread is, though the
\* index is read on until another root is shown.
OnlyOwnListed ==
    \A i \in DOMAIN ownPrinted : ownPrinted[i].own \/ ownState = "astray"

\* Below a message only its own thread is listed, no message hidden from the
\* reader, and all lists are closed (printThreadbuffer).
OthersNotListed ==
    ThreadTypeOK /\ OnlyOwnListed /\ HiddenNotListed /\ ThreadListsBalanced

\* "Print message's thread beginning from message root" (dbase.cpp:2451): what
\* is printed below "in this thread" is of the thread.
OwnThreadOnly == \A i \in DOMAIN ownPrinted : ownPrinted[i].own
=============================================================================
