------------------------------ MODULE MsgIndex ------------------------------
(***************************************************************************)
(* The index file ra_index.msg: how DB_InsertMessage and DB_DeleteMessage  *)
(* keep the display order as runs of neighbouring headers.  An entry       *)
(* {begin, end} with begin < end is a run shown in file order, from byte   *)
(* begin to byte end; one with begin > end is a run shown against file     *)
(* order, begin being the last byte of its first message and end the first *)
(* byte of its last.  The entries are read from the end of the file back.  *)
(* New threads extend a backward run, replies a forward one; anything else *)
(* splits a run.                                                           *)
(***************************************************************************)
EXTENDS ThreadWalk

CONSTANTS
    S,                      \* sizeof(SMessage)
    Pad,                    \* bytes before the first header (a DWORD)
    MaxSlots                \* bound: headers the file may hold

\* What the constants are.
MsgIndexConstants ==
    /\ S \in Nat \ {0, 1}
    /\ Pad \in Nat \ {0}
    /\ MaxSlots \in Nat

VARIABLES
    table,                  \* the entries, in file order
    slots,                  \* headers in index.msg, in use or free
    level, thread,          \* their Level and ParentThread
    doomed                  \* what is left of a DB_DeleteMessages loop

tableVars == <<table, slots, level, thread, doomed>>

Addr(k) == Pad + k * S
Slot == {Addr(k) : k \in 0..(MaxSlots - 1)}

Run(begin, end) == [begin |-> begin, end |-> end]
Single(m) == Run(m, m + S - 1)
If(cond, entry) == IF cond THEN <<entry>> ELSE <<>>

\* M_IN either way round; the file is searched from its last entry.
Covers(entry, m) ==
    \/ entry.begin <= m /\ m <= entry.end
    \/ entry.end <= m /\ m <= entry.begin

EntryOf(m) == Max({i \in DOMAIN table : Covers(table[i], m)})

\* Entry i gives way to `entries'; what follows it is written back behind.
Rewrite(i, entries) ==
    SubSeq(table, 1, i - 1) \o entries \o SubSeq(table, i + 1, Len(table))

\* Mutant: a forward run that ends just before m takes it, parent or not.
SplitJoiningAnyEnd(e, parent, m) ==
    IF e.end < e.begin
    THEN If(e.end < parent, Run(parent - 1, e.end)) \o
         (IF parent + S = m
          THEN <<Run(parent, m + S - 1)>>
          ELSE <<Single(m), Run(e.begin, parent)>>)
    ELSE IF e.end + 1 = m
         THEN <<Run(e.begin, m + S - 1)>>
         ELSE If(e.end + 1 # parent + S, Run(parent + S, e.end)) \o
              <<Single(m), Run(e.begin, parent + S - 1)>>

\* A reply m to `parent', whose run is e: the run is cut below the parent and
\* m put in between, unless m's header directly follows the parent's.
SplitForReply(e, parent, m) ==
    IF e.end < e.begin
    THEN If(e.end < parent, Run(parent - 1, e.end)) \o
         (IF parent + S = m
          THEN <<Run(parent, m + S - 1)>>
          ELSE <<Single(m), Run(e.begin, parent)>>)
    ELSE IF e.end + 1 = m /\ parent + S = m
         THEN <<Run(e.begin, m + S - 1)>>
         ELSE If(e.end + 1 # parent + S, Run(parent + S, e.end)) \o
              <<Single(m), Run(e.begin, parent + S - 1)>>

\* A new thread m joins the last entry if that runs backward, or holds one
\* message, and m's header directly follows it in the file.
JoinThread(e, m) ==
    IF e.begin > e.end /\ e.begin + 1 = m
    THEN <<Run(e.begin + S, e.end)>>
    ELSE IF e.begin < e.end /\ (e.end - e.begin + 1) \div S = 1 /\ e.end + 1 = m
         THEN <<Run(m - 1 + S, e.begin)>>
         ELSE <<e, Single(m)>>

\* Message m leaves its run e: what was shown after it, what was before it.
CutOut(e, m) ==
    IF e.end < e.begin
    THEN If(e.end < m, Run(m - 1, e.end)) \o
         If(e.begin + 1 # m + S, Run(e.begin, m + S))
    ELSE If(e.end + 1 # m + S, Run(m + S, e.end)) \o
         If(e.begin < m - 1, Run(e.begin, m - 1))

\* How every reader turns the file into the display order.
Messages(e) ==
    IF e.begin < e.end
    THEN [k \in 1..((e.end + 1 - e.begin) \div S) |-> e.begin + (k - 1) * S]
    ELSE [k \in 1..((e.begin + 1 - e.end) \div S) |-> e.begin + 1 - k * S]

order == FlattenSeq([i \in DOMAIN table |-> Messages(Reverse(table)[i])])

-----------------------------------------------------------------------------
TableInit ==
    /\ table = <<>>
    /\ slots = 0
    /\ level = [m \in Slot |-> 0]
    /\ thread = [m \in Slot |-> 0]
    /\ doomed = <<>>

\* The header goes to a free place if there is one, else to the file's end.
NewHeader(m) ==
    LET free == {Addr(k) : k \in 0..(slots - 1)} \ ToSet(order)
    IN  /\ m \in Slot
        /\ IF free # {} THEN m \in free /\ slots' = slots
                        ELSE m = Addr(slots) /\ slots' = slots + 1

PostThread(m) ==
    /\ doomed = <<>>
    /\ NewHeader(m)
    /\ level' = [level EXCEPT ![m] = 0]
    /\ thread' = [thread EXCEPT ![m] = 0]
    /\ table' = IF table = <<>>
                THEN <<Single(m)>>
                ELSE Rewrite(Len(table), JoinThread(table[Len(table)], m))
    /\ UNCHANGED doomed

HeadIsParent(parent) == parent        \* mutant: of any reply, too
HeadOf(parent) == IF level[parent] > 0 THEN thread[parent] ELSE parent

PostReply(parent, m) ==
    /\ doomed = <<>>
    /\ NewHeader(m)
    /\ level' = [level EXCEPT ![m] = level[parent] + 1]
    /\ thread' = [thread EXCEPT ![m] = HeadOf(parent)]
    /\ LET i == EntryOf(parent)
       IN  table' = Rewrite(i, SplitForReply(table[i], parent, m))
    /\ UNCHANGED doomed

DeleteMessages(root) ==
    /\ doomed = <<>>
    /\ doomed' = Walk(order, level, root)
    /\ UNCHANGED <<table, slots, level, thread>>

DeleteMessage ==
    /\ doomed # <<>>
    /\ LET i == EntryOf(Head(doomed))
       IN  table' = Rewrite(i, CutOut(table[i], Head(doomed)))
    /\ doomed' = Tail(doomed)
    /\ UNCHANGED <<slots, level, thread>>

TableNext ==
    \/ \E m \in Slot : PostThread(m)
    \/ \E parent \in ToSet(order), m \in Slot : PostReply(parent, m)
    \/ \E root \in ToSet(order) : DeleteMessages(root)
    \/ DeleteMessage

TableSpec == TableInit /\ [][TableNext]_tableVars

-----------------------------------------------------------------------------
TableTypeOK ==
    /\ table \in Seq([begin : Nat, end : Nat])
    /\ slots \in 0..MaxSlots
    /\ level \in [Slot -> 0..MaxSlots]
    /\ thread \in [Slot -> {0} \cup Slot]
    /\ doomed \in Seq(Slot)

\* Between requests the levels describe trees: the first message shown heads
\* a thread, no message is more than one level below the one above it, and a
\* reply's ParentThread is the head of the thread it is shown in, the place
\* getparent and the "whole thread" view start from.
Levels(i) == level[order[i]] <= IF i = 1 THEN 0 ELSE level[order[i - 1]] + 1
ThreadHeadKnown(i) ==
    level[order[i]] > 0 =>
        LET heads == {j \in 1..i : level[order[j]] = 0}
        IN  heads # {} /\ thread[order[i]] = order[Max(heads)]

\* So it is after any posts and deletions (DB_InsertMessage, DB_DeleteMessages).
ShapeIsForest ==
    /\ TableTypeOK
    /\ doomed = <<>> => \A i \in DOMAIN order : Levels(i) /\ ThreadHeadKnown(i)

Parent(m) == ParentOf(order, level, thread, m)

\* Whoever posts or is deleted elsewhere, a reply that stays goes on answering
\* the same message (getparent).
Survivors == {m \in ToSet(order) \cap ToSet(order)' :
                 level[m] > 0 /\ m \notin ToSet(doomed)'}
ParentsKept ==
    [][\A m \in Survivors : level'[m] = level[m] /\ Parent(m)' = Parent(m)]_tableVars

Order == INSTANCE ThreadOrder

\* However the runs are cut and joined (DB_InsertMessage, DB_DeleteMessage), the
\* file walks like the plain order of messages, and a reply keeps its parent.
OrderSpec == Order!OrderSpec /\ ParentsKept
=============================================================================
