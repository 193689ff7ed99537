---------------------------- MODULE BlockStore ----------------------------
(***************************************************************************)
(* What a data file with a free list promises the code that stores records *)
(* in it: a block it hands out shares no byte with any block in use, and a *)
(* block in use stays where it is until its owner gives it back, whole or  *)
(* from some byte on.  How free space is found is not the users' business. *)
(***************************************************************************)
EXTENDS Naturals

CONSTANT Sizes              \* sizes a user may ask for
VARIABLE live               \* blocks in use: a set of [index, size]

Disjoint(a, b) ==
    \/ a.size = 0
    \/ b.size = 0
    \/ a.index + a.size <= b.index
    \/ b.index + b.size <= a.index

NonEmpty(blocks) == {b \in blocks : b.size # 0}

StoreInit == live = {}

\* A block of 0 bytes is no block: asking for one changes nothing.
Allocate ==
    \E b \in live' \ live :
        /\ b.size \in Sizes \ {0}
        /\ \A c \in live : Disjoint(b, c)
        /\ live' = live \cup {b}

\* The bytes of a block are given back from its byte n on, all if n = 0.
Shrink ==
    \E b \in live : \E n \in 0..(b.size - 1) :
        live' = (live \ {b}) \cup NonEmpty({[index |-> b.index, size |-> n]})

StoreNext == Allocate \/ Shrink

StoreSpec == StoreInit /\ [][StoreNext]_live
===========================================================================
