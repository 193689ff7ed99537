----------------------------- MODULE MCMsgStore -----------------------------
(* Databases and requests for the runs of MsgStore. *)
EXTENDS MsgStore

CONSTANTS p1, p2, p3

Message(level, thread, vi, body, size) ==
    [level |-> level, thread |-> thread, flags |-> {},
     vi |-> vi, body |-> body, size |-> size]

New == [hdr |-> <<>>, hfree |-> <<>>, bodyEnd |-> 0, bfree |-> <<>>,
        vidx |-> <<>>, threads |-> 0, order |-> <<>>]

\* A thread with a reply below a newer thread without a body; a message that
\* was posted third has been deleted.
Used == [hdr |-> <<Message(0, 0, 1, 1, 1), Message(1, 1, 2, 2, 1),
                   Message(1, 1, 3, 3, 1), Message(0, 0, 4, 4, 0)>>,
         hfree |-> <<[index |-> 3, size |-> 1]>>,
         bodyEnd |-> 4,
         bfree |-> <<[index |-> 3, size |-> 1]>>,
         vidx |-> <<1, 2, 0, 4>>,
         threads |-> 2,
         order |-> <<4, 1, 2>>]

\* The same without the deleted message: there is no free place, so the first
\* one to be freed is given to the next message.
Packed == [hdr |-> <<Message(0, 0, 1, 1, 1), Message(1, 1, 2, 2, 1),
                     Message(0, 0, 3, 3, 0)>>,
           hfree |-> <<>>,
           bodyEnd |-> 3,
           bfree |-> <<>>,
           vidx |-> <<1, 2, 3>>,
           threads |-> 2,
           order |-> <<3, 1, 2>>]

Ask(op, vi, size, su) == [op |-> op, vi |-> vi, size |-> size, su |-> su]
Posts(vis) == {Ask("post", vi, 1, FALSE) : vi \in vis}
Deletes(vis) == {Ask("delete", vi, 0, TRUE) : vi \in vis}
Edits(vis) == {Ask("edit", vi, size, FALSE) : vi \in vis, size \in {0, 1}}
Changes(ops, vis) == {Ask(op, vi, 0, op \notin Reading) : op \in ops, vi \in vis}


\* What each process may ask for, as the set of what they ask for together.
Together(may) ==
    {rq \in [Procs -> UNION {may[p] : p \in Procs}] : \A p \in Procs : rq[p] \in may[p]}
Each(a, b, c) == Together([p \in Procs |-> CASE p = p1 -> a [] p = p2 -> b [] p = p3 -> c])
OneByOne(seeds, asks) == [alone : {TRUE}, seed : seeds, asks : asks]
AtOnce(seed, asks) == [alone : {FALSE}, seed : {seed}, asks : asks]

\* Requests of any kind, one after the other.
Anything ==
    {Ask("post", vi, size, su) : vi \in 0..3, size \in {0, 1}, su \in BOOLEAN}
    \cup Deletes({1, 2, 4}) \cup Edits({1, 4, 5}) \cup Changes(ReadModifyWrite, {1, 2})
Serial == Each(Anything, Anything, Posts({0, 1, 5}) \cup Deletes({1, 2}) \cup Edits({1}))

\* At once, and nobody deletes: three posts, or an edit among posts, closes and
\* reads.
SomePosts == {Ask("post", vi, size, FALSE) : vi \in {0, 1, 2}, size \in {0, 1}}
NoDeletes ==
    Each(SomePosts, SomePosts, SomePosts)
    \cup Each(Edits({1, 2, 4}), Posts({0, 1}),
              Posts({0, 1}) \cup Changes({"close", "view"}, {1, 4}))
KeptPlans == OneByOne({New, Used}, Serial) \cup AtOnce(Used, NoDeletes)

\* One moderator deletes while others post, close, open and read; or two work on
\* flags and a third posts or deletes.
Moderated == AtOnce(Packed,
    Each(Deletes({1, 2, 3}), Posts({0, 1}),
         Posts({0, 1}) \cup Changes({"close", "open", "view"}, {1}))
    \cup Each(Posts({0, 1}) \cup Deletes({1}), Changes({"close", "open"}, {1, 2}),
              Changes({"close", "view"}, {1, 2})))

\* Two authors, or one twice, edit one message.
TwoEdits == AtOnce(Used, Each({Ask("edit", 1, 0, FALSE)}, {Ask("edit", 1, 0, FALSE)}, Posts({0})))
=============================================================================
