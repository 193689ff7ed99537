----------------------------- MODULE DataFile -----------------------------
(***************************************************************************)
(* One data file with its free list, as the forum's three pairs of files   *)
(* are used: messages.msg with freemess.msg, index.msg with freeindex.msg, *)
(* profbody.db with profbfree.db.  Requests run in processes of their own; *)
(* the data file is locked while space is looked for and appended to, the  *)
(* list file is locked inside each list operation, and handing space back  *)
(* takes the list's lock only.  So the steps below are the critical        *)
(* sections, except at the birth of the list file: a process that did not  *)
(* find it creates it with mode "wb+", which empties whatever another      *)
(* process has put there since (no lock is held then).                     *)
(*                                                                         *)
(* A process that ends between being given a block and recording it, or    *)
(* between dropping its record and handing the block back, leaves a block  *)
(* that is in use for ever: that is a stutter here.                        *)
(***************************************************************************)
EXTENDS FreeList

CONSTANTS
    Sizes,          \* record sizes that are asked for, 0 for an empty body
    Pad,            \* bytes written first into an empty data file
    AllocWasted,    \* wasted_block of the list objects that allocate
    MarkWasted,     \* wasted_block of the list objects that hand back
    MaxEnd,         \* bound: longest data file
    MaxList,        \* bound: longest list file
    MaxCreators     \* bound: processes at once about to create the list

ASSUME DataFileAssumption ==
    /\ Sizes \subseteq Nat
    /\ Pad \in Nat
    /\ AllocWasted \in Nat
    /\ MarkWasted \in Nat
    /\ MaxEnd \in Nat
    /\ MaxList \in Nat
    /\ MaxCreators \in Nat

VARIABLES
    end,            \* length of the data file
    live,           \* non-empty blocks in use
    free,           \* entries of the list file
    created,        \* the list file exists
    creators        \* processes that found no list file and will create it

vars == <<end, live, free, created, creators>>

Store == INSTANCE BlockStore

Disjoint(a, b) == Store!Disjoint(a, b)
NonEmpty(blocks) == Store!NonEmpty(blocks)

Init ==
    /\ end = 0
    /\ live = {}
    /\ free = <<>>
    /\ created = FALSE
    /\ creators = 0

-----------------------------------------------------------------------------
\* Opening the list for reading and writing fails: it does not exist yet.
MissList ==
    /\ ~created
    /\ creators < MaxCreators
    /\ creators' = creators + 1
    /\ UNCHANGED <<end, live, free, created>>

\* The process creates the list file, whoever has created it meanwhile.
CreateList ==
    /\ creators > 0
    /\ creators' = creators - 1
    /\ created' = TRUE
    /\ free' = <<>>
    /\ UNCHANGED <<end, live>>

\* AllocFreeSpace finds room: the block is the head of a free entry.
AllocFree(n) ==
    /\ created
    /\ \E i \in DOMAIN free :
          /\ TakeFrom(free, free', i, n, AllocWasted)
          /\ live' = live \cup NonEmpty({[index |-> free[i].index, size |-> n]})
    /\ UNCHANGED <<end, created, creators>>

\* The same, the list file being emptied by a late creator between the
\* lookup and the write: the entries before the written one read as zeros.
AllocWhileCreated(n) ==
    /\ created
    /\ creators > 0
    /\ \E i \in DOMAIN free :
          /\ FirstFit(free, i, n)
          /\ free' = [j \in 1..i |->
                        IF j = i THEN Remainder(free[i], n, AllocWasted)
                                 ELSE [index |-> 0, size |-> 0]]
          /\ live' = live \cup NonEmpty({[index |-> free[i].index, size |-> n]})
    /\ creators' = creators - 1
    /\ UNCHANGED <<end, created>>

\* AllocFreeSpace finds nothing: the block is appended to the data file,
\* after Pad bytes if the file is empty.
AllocEnd(n) ==
    LET at == IF end = 0 THEN Pad ELSE end
    IN  /\ created
        /\ NoFit(free, n)
        /\ at + n <= MaxEnd
        /\ end' = at + n
        /\ live' = live \cup NonEmpty({[index |-> at, size |-> n]})
        /\ UNCHANGED <<free, created, creators>>

\* Mutant: the head of the block is handed back instead of its tail.
FreeFromStart(b, n) ==
    /\ created
    /\ Len(free) < MaxList
    /\ MarkFreeSpace(free, free', [index |-> b.index, size |-> b.size - n],
                     MarkWasted)
    /\ live' = (live \ {b}) \cup NonEmpty({[index |-> b.index, size |-> n]})
    /\ UNCHANGED <<end, created, creators>>

\* MarkFreeSpace hands back the bytes of b from its byte n on: all of them
\* when the record is deleted or moved, the tail when it is rewritten shorter.
FreeFrom(b, n) ==
    /\ created
    /\ Len(free) < MaxList
    /\ MarkFreeSpace(free, free',
                     [index |-> b.index + n, size |-> b.size - n], MarkWasted)
    /\ live' = (live \ {b}) \cup NonEmpty({[index |-> b.index, size |-> n]})
    /\ UNCHANGED <<end, created, creators>>

Next ==
    \/ MissList
    \/ CreateList
    \/ \E n \in Sizes : AllocFree(n) \/ AllocWhileCreated(n) \/ AllocEnd(n)
    \/ \E b \in live : \E n \in 0..(b.size - 1) : FreeFrom(b, n)

Spec == Init /\ [][Next]_vars

-----------------------------------------------------------------------------
TypeOK ==
    /\ end \in Nat
    /\ live \subseteq Block
    /\ free \in Seq(Block)
    /\ created \in BOOLEAN
    /\ creators \in Nat

\* Two records in use never share a byte: writing one message body, header
\* or profile cannot damage another (AllocFreeSpace, MarkFreeSpace).
LiveDisjoint ==
    \A a, b \in live : a # b => Disjoint(a, b)

\* No free entry covers a byte in use, and no byte is free twice, so the next
\* allocation served from the list is safe too.
FreeDisjoint ==
    /\ \A b \in live : \A i \in DOMAIN free : Disjoint(b, free[i])
    /\ \A i, j \in DOMAIN free : i # j => Disjoint(free[i], free[j])

InFile(b) == b.size # 0 => b.index >= Pad /\ b.index + b.size <= end

\* Every block handed out or free lies after the pad and inside the file, so
\* an append never lands on one; the file never ends inside the pad.
BlocksInFile ==
    /\ end # 0 => end >= Pad
    /\ \A b \in live : b.size # 0 /\ InFile(b)
    /\ \A i \in DOMAIN free : InFile(free[i])

\* The inductive invariant: what the list and the file owe each other.  No block
\* that MarkFreeSpace and AllocFreeSpace deal with lies beyond the file's end.
SpaceInv == TypeOK /\ LiveDisjoint /\ FreeDisjoint /\ BlocksInFile

Lost == {x \in Pad..(end - 1) :
            \A b \in live \cup {free[i] : i \in DOMAIN free} :
                x < b.index \/ b.index + b.size <= x}

\* With no waste a byte is lost by the creation of the list and in no other
\* way: each one after the pad is in use or can be handed out again, however
\* the entries have been split and overwritten.
NoByteLost == [][creators' = creators => Lost' \subseteq Lost]_vars

\* The file and its list implement the block store their users rely on.
StoreSpec == Store!StoreSpec
===========================================================================
