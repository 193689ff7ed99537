----------------------------- MODULE ThreadWalk -----------------------------
(***************************************************************************)
(* The shape of the forum.  Messages are kept in display order: a thread   *)
(* head (level 0) followed by its replies, a reply right below the message *)
(* it answers and one level deeper.  There are no links between messages:  *)
(* who answers whom is read off the order and the levels, and each header  *)
(* names its thread head (ParentThread).                                   *)
(***************************************************************************)
EXTENDS Naturals, Sequences, SequencesExt, FiniteSetsExt

Pos(order, m) == CHOOSE i \in DOMAIN order : order[i] = m

\* A new thread is shown first, a reply right after the message it answers.
ThreadFirst(order, m) == <<m>> \o order
ReplyAfter(order, parent, m) == InsertAt(order, Pos(order, parent) + 1, m)

WithoutMessage(order, m) == RemoveAt(order, Pos(order, m))

\* SelectMessageThreadtoBuf: from the root on, up to the next message that is
\* not deeper than the root.  `level' is what the headers say.
Walk(order, level, root) ==
    LET from == Pos(order, root)
        stop == {i \in (from + 1)..Len(order) : level[order[i]] <= level[root]}
        last == IF stop = {} THEN Len(order) ELSE Min(stop) - 1
    IN  SubSeq(order, from, last)

\* getparent: the last message one level up between the thread head and m;
\* 0 if there is none.
ParentOf(order, level, thread, m) ==
    LET above == {i \in Pos(order, thread[m])..(Pos(order, m) - 1) :
                     level[order[i]] + 1 = level[m]}
    IN  IF above = {} THEN 0 ELSE order[Max(above)]
=============================================================================
