---------------------------- MODULE ThreadOrder ----------------------------
(***************************************************************************)
(* What the forum index promises: posting puts a message in its place in   *)
(* display order and deleting a thread takes its messages out one by one,  *)
(* top down.  The index is worked on by one request at a time here; what   *)
(* happens when requests overlap is the business of MsgStore.              *)
(***************************************************************************)
EXTENDS ThreadWalk

CONSTANT Slot               \* places in the header file

VARIABLES
    order,                  \* messages in display order
    level,                  \* their headers' Level ...
    thread,                 \* ... and ParentThread, 0 for a thread head
    doomed                  \* messages a running deletion has still to remove

orderVars == <<order, level, thread, doomed>>

OrderInit ==
    /\ order = <<>>
    /\ level = [m \in Slot |-> 0]
    /\ thread = [m \in Slot |-> 0]
    /\ doomed = <<>>

PostThread(m) ==
    /\ doomed = <<>>
    /\ m \notin ToSet(order)
    /\ order' = ThreadFirst(order, m)
    /\ level' = [level EXCEPT ![m] = 0]
    /\ thread' = [thread EXCEPT ![m] = 0]
    /\ UNCHANGED doomed

PostReply(parent, m) ==
    /\ doomed = <<>>
    /\ m \notin ToSet(order)
    /\ order' = ReplyAfter(order, parent, m)
    /\ level' = [level EXCEPT ![m] = level[parent] + 1]
    /\ thread' = [thread EXCEPT ![m] =
                     IF level[parent] > 0 THEN thread[parent] ELSE parent]
    /\ UNCHANGED doomed

DeleteMessages(root) ==
    /\ doomed = <<>>
    /\ doomed' = Walk(order, level, root)
    /\ UNCHANGED <<order, level, thread>>

DeleteMessage ==
    /\ doomed # <<>>
    /\ order' = WithoutMessage(order, Head(doomed))
    /\ doomed' = Tail(doomed)
    /\ UNCHANGED <<level, thread>>

OrderNext ==
    \/ \E m \in Slot : PostThread(m)
    \/ \E parent \in ToSet(order), m \in Slot : PostReply(parent, m)
    \/ \E root \in ToSet(order) : DeleteMessages(root)
    \/ DeleteMessage

OrderSpec == OrderInit /\ [][OrderNext]_orderVars
=============================================================================
