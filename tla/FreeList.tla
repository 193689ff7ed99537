----------------------------- MODULE FreeList -----------------------------
(***************************************************************************)
(* The free-space list of one data file: class CFreeDBFile of freedb.cpp.  *)
(* The list file is a sequence of entries {size, index} (SFreeDBEntry),    *)
(* each naming `size' unused bytes of the data file from byte `index' on.  *)
(* An entry of size 0 is an empty place, which the next block handed back  *)
(* overwrites.  Both operations scan the file from its start and take the  *)
(* first entry that suits; "the first" is a predicate here, so that an     *)
(* action picks it with \E.                                                *)
(***************************************************************************)
EXTENDS Naturals, Sequences

Block == [index : Nat, size : Nat]

\* Mutant: one-byte entries are taken for empty places.
FirstEmptyAny(free, i) ==
    /\ i \in DOMAIN free
    /\ free[i].size <= 1
    /\ \A j \in 1..(i - 1) : free[j].size > 1

\* The place MarkFreeSpace overwrites: the first entry of size 0.
FirstEmpty(free, i) ==
    /\ i \in DOMAIN free
    /\ free[i].size = 0
    /\ \A j \in 1..(i - 1) : free[j].size # 0

\* The entry AllocFreeSpace takes: the first one with room for n bytes.
\* A request for 0 bytes (an empty body) stops at the very first entry.
FirstFit(free, i, n) ==
    /\ i \in DOMAIN free
    /\ free[i].size >= n
    /\ \A j \in 1..(i - 1) : free[j].size < n

\* A remainder smaller than wasted_block is dropped: its size is set to 0.
Kept(size, wasted) == IF size < wasted THEN 0 ELSE size

\* MarkFreeSpace(block.index, block.size): the list becomes `after'.
MarkFreeSpace(free, after, block, wasted) ==
    LET entry == [index |-> block.index, size |-> Kept(block.size, wasted)]
    IN  \/ \E i \in DOMAIN free :
              /\ FirstEmpty(free, i)
              /\ after = [free EXCEPT ![i] = entry]
        \/ /\ \A i \in DOMAIN free : free[i].size # 0
           /\ after = Append(free, entry)

\* What is left of an entry when its first n bytes have been handed out.
Remainder(entry, n, wasted) ==
    [index |-> entry.index + n, size |-> Kept(entry.size - n, wasted)]

\* Mutant: the entry is not written back.
TakeFromKeeping(free, after, i, n, wasted) ==
    FirstFit(free, i, n) /\ after = free

\* AllocFreeSpace(n) served by entry i; it returns free[i].index.
TakeFrom(free, after, i, n, wasted) ==
    /\ FirstFit(free, i, n)
    /\ after = [free EXCEPT ![i] = Remainder(free[i], n, wasted)]

\* AllocFreeSpace(n) finds nothing and returns 0xFFFFFFFF.
NoFit(free, n) == \A i \in DOMAIN free : free[i].size < n
===========================================================================
