----------------------------- MODULE NameIndex -----------------------------
(***************************************************************************)
(* The hashed index of user names, profindex.idx (hashindex.cpp).  The     *)
(* file is a row of blocks; the first ones are the heads of a chain for    *)
(* each hash value, the others are added at the end and linked to the last *)
(* block of a chain.  Adding and deleting hold the file's lock;            *)
(* looking a name up and listing the index do not: they read one block     *)
(* after the other while names come and go.                                *)
(* dbtool has created the file.  A name takes Size[n] units of a block.    *)
(***************************************************************************)
EXTENDS Naturals, Sequences, SequencesExt

CONSTANTS
    Writers,        \* requests that add or delete a name
    Readers,        \* requests that look one up or list all
    None,           \* nobody: the lock is free
    Names,          \* user names
    Places,         \* places of records
    Slots,          \* HASHTAB_LEN
    Hash,           \* slot of each name
    Size,           \* length of each name's entry
    BlockSize,      \* HASHINDEX_BLOCK_SIZE, less the block's header
    MaxBlocks       \* bound: blocks in the file

ASSUME NameIndexAssumption ==
    /\ None \notin Writers /\ Writers \cap Readers = {}
    /\ Places \subseteq Nat \ {0}
    /\ Slots \in Nat \ {0}
    /\ Hash \in [Names -> 1..Slots]
    /\ BlockSize \in Nat \ {0}
    /\ Size \in [Names -> 1..(BlockSize - 1)]
    /\ MaxBlocks \in Nat

VARIABLES
    blocks,         \* the file
    lock,           \* who holds its lock
    loc             \* each request's own memory

vars == <<blocks, lock, loc>>

Procs == Writers \cup Readers

Entry == [name : Names, at : Places]

\* next: HASHINDEX_BLOCKINFO.Next, 0 for HASHINDEX_NULL.
NewBlock(entries) == [entries |-> entries, next |-> 0]

\* block: the block to be read next; got: the places found of each name asked
\* for; could: what place a name looked up has had since the request began;
\* stays: the names in the index all that while.  Of a list only these are kept.
Idle == [pc |-> "idle", block |-> 0, slot |-> 0, got |-> <<>>, could |-> {}, stays |-> {}]

\* AddStringToHashedIndex when there is no file: the empty heads.
Init ==
    /\ blocks = [s \in 1..Slots |-> NewBlock(<<>>)]
    /\ lock = None
    /\ loc = [p \in Procs |-> Idle]

-----------------------------------------------------------------------------
At(p, pc) == loc[p].pc = pc

\* The blocks of a file bs that are not heads.
Added(bs) == {j \in DOMAIN bs : j > Slots}

\* Whoever reads a block of T and follows its link stays in T.
Closed(bs, T) == \A j \in T : bs[j].next # 0 => bs[j].next \in T

\* Block i and those that are reached from it.  No link leads to a head.
Chain(bs, i) ==
    LET walks == {T \in SUBSET Added(bs) : Closed(bs, {i} \cup T)}
    IN  {i} \cup {j \in Added(bs) : \A T \in walks : j \in T}

\* What the entries in the chain of a name say, in a whole file.
PlacesIn(bs, n) ==
    UNION {{e.at : e \in {e \in ToSet(bs[i].entries) : e.name = n}} : i \in Chain(bs, Hash[n])}

\* The place a whole file gives a name, 0 for none.
PlaceIn(bs, n) ==
    LET places == PlacesIn(bs, n) IN IF places = {} THEN 0 ELSE CHOOSE x \in places : TRUE

\* What some entries take.
LengthOf(entries) ==
    LET upTo[k \in 0..Len(entries)] ==
            IF k = 0 THEN 0 ELSE upTo[k - 1] + Size[entries[k].name]
    IN  upTo[Len(entries)]

\* bi.Used, less the header.
Used(bs, i) == LengthOf(bs[i].entries)

\* Mutant: no room is kept for the zero behind the entries.
FitsExactly(bs, i, n) == BlockSize >= Size[n] + Used(bs, i)

\* The block has room for the name's entry and a zero behind it.
Fits(bs, i, n) == BlockSize >= Size[n] + Used(bs, i) + 1

\* mstrstr in one block.
Holds(bs, i, n) == \E e \in ToSet(bs[i].entries) : e.name = n

\* What readers under way are to see of a change of the file.
Observe(p, mine) ==
    loc' = [q \in Procs |->
        LET me == loc[q]
            stay == {n \in me.stays : PlaceIn(blocks', n) = PlaceIn(blocks, n)}
        IN  CASE q = p -> mine
              [] At(q, "look") ->
                    [me EXCEPT !.could = @ \cup {PlaceIn(blocks', n) : n \in DOMAIN me.got}]
              [] me.stays # {} ->
                    [me EXCEPT !.stays = stay, !.got = [n \in stay |-> @[n]]]
              [] OTHER -> me]

-----------------------------------------------------------------------------
\* Mutant: the search ends at the first block with room.
MissingSoFar(n) ==
    LET chain == Chain(blocks, Hash[n]) IN
    \A i \in chain :
        (\A j \in chain \ Chain(blocks, i) : ~Fits(blocks, j, n)) => ~Holds(blocks, i, n)

\* AddStringToHashedIndex searches all of the chain.
Missing(n) == \A i \in Chain(blocks, Hash[n]) : ~Holds(blocks, i, n)

Roomy(n) == {i \in Chain(blocks, Hash[n]) : Fits(blocks, i, n)}

\* The first of S, some blocks of a chain: the one the others are reached from.
FirstOf(S) == {i \in S : S \subseteq Chain(blocks, i)}

\* AddStringToHashedIndex, when some block of the chain has room: the first
\* such block is written with the entry at its end.  If the name is there
\* nothing is done.
AddToBlock(p, n, at) ==
    /\ At(p, "idle") /\ lock = None
    /\ Missing(n)
    /\ \E i \in FirstOf(Roomy(n)) :
          blocks' = [blocks EXCEPT ![i].entries = Append(@, [name |-> n, at |-> at])]
    /\ Observe(p, Idle)
    /\ UNCHANGED lock

\* When no block has room: a new block with the entry is written at the end of
\* the file first ...
AddBlock(p, n, at) ==
    /\ At(p, "idle") /\ lock = None
    /\ Missing(n)
    /\ Roomy(n) = {}
    /\ Len(blocks) < MaxBlocks
    /\ blocks' = Append(blocks, NewBlock(<<[name |-> n, at |-> at]>>))
    /\ lock' = p
    /\ \E last \in Chain(blocks, Hash[n]) :
          /\ blocks[last].next = 0
          /\ Observe(p, [Idle EXCEPT !.pc = "link", !.block = last])

Linked(bs, i, new) == [bs EXCEPT ![i].next = new]

\* ... and linked to the last of the chain then.
LinkBlock(p) ==
    /\ At(p, "link")
    /\ blocks' = Linked(blocks, loc[p].block, Len(blocks))
    /\ lock' = None
    /\ Observe(p, Idle)

\* The request is killed in between.
Die(p) ==
    /\ At(p, "link")
    /\ lock' = None
    /\ loc' = [loc EXCEPT ![p] = Idle]
    /\ UNCHANGED blocks

\* DeleteStringFromHashedIndex: in the first block that has the name, the entries
\* behind its first one are moved up.
Delete(p, n) ==
    /\ At(p, "idle") /\ lock = None
    /\ \E i \in FirstOf({j \in Chain(blocks, Hash[n]) : Holds(blocks, j, n)}) :
          blocks' = [blocks EXCEPT ![i].entries =
                        RemoveAt(@, SelectInSeq(@, LAMBDA e : e.name = n))]
    /\ Observe(p, Idle)
    /\ UNCHANGED lock

-----------------------------------------------------------------------------
\* GetIndexOfString.
BeginLookUp(p, n) ==
    /\ At(p, "idle")
    /\ loc' = [loc EXCEPT ![p] =
                  [pc |-> "look", block |-> Hash[n], slot |-> Hash[n],
                   got |-> [m \in {n} |-> <<>>], could |-> {PlaceIn(blocks, n)},
                   stays |-> {}]]
    /\ UNCHANGED <<blocks, lock>>

\* Mutant: the last block of a chain is not read.
NextOfMany(i) ==
    IF blocks[i].next = 0 \/ blocks[blocks[i].next].next = 0 THEN 0 ELSE blocks[i].next
NextOf(i) == blocks[i].next

\* One block is searched; the search goes on if it has not the name.
LookUp(p) ==
    LET me == loc[p] IN
    /\ At(p, "look")
    /\ \E n \in DOMAIN me.got :
          \/ \E e \in ToSet(blocks[me.block].entries) :
                /\ e.name = n
                /\ loc' = [loc EXCEPT ![p].pc = "answered", ![p].got = [m \in {n} |-> <<e.at>>]]
          \/ /\ ~Holds(blocks, me.block, n)
             /\ IF NextOf(me.block) = 0
                THEN loc' = [loc EXCEPT ![p].pc = "answered"]
                ELSE loc' = [loc EXCEPT ![p].block = NextOf(me.block)]
    /\ UNCHANGED <<blocks, lock>>

\* GenerateIndexList.
BeginList(p) ==
    LET there == {n \in Names : PlaceIn(blocks, n) # 0} IN
    /\ At(p, "idle")
    /\ loc' = [loc EXCEPT ![p] =
                  [pc |-> "list", block |-> 1, slot |-> 1,
                   got |-> [n \in there |-> <<>>], could |-> {}, stays |-> there]]
    /\ UNCHANGED <<blocks, lock>>

\* The places the entries of one block say, if there were several, in any order.
PlacesOf(entries, n) ==
    LET mine == SetToSeq({k \in DOMAIN entries : entries[k].name = n})
    IN  [k \in DOMAIN mine |-> entries[mine[k]].at]

\* One block's entries are taken over, then comes the next of the chain, or the
\* next chain.
List(p) ==
    LET me == loc[p]
        next == NextOf(me.block)
        last == next = 0 /\ me.slot = Slots
        slot == IF next = 0 /\ ~last THEN me.slot + 1 ELSE me.slot
    IN  /\ At(p, "list")
        /\ loc' = [loc EXCEPT
                      ![p].pc = IF last THEN "listed" ELSE "list",
                      ![p].block = IF next # 0 THEN next ELSE slot,
                      ![p].slot = slot,
                      ![p].got = [n \in me.stays |->
                                     @[n] \o PlacesOf(blocks[me.block].entries, n)]]
        /\ UNCHANGED <<blocks, lock>>

End(p) ==
    /\ At(p, "answered") \/ At(p, "listed")
    /\ loc' = [loc EXCEPT ![p] = Idle]
    /\ UNCHANGED <<blocks, lock>>

Next ==
    \/ \E p \in Writers :
          \/ \E n \in Names :
                \/ \E at \in Places : AddToBlock(p, n, at) \/ AddBlock(p, n, at)
                \/ Delete(p, n)
          \/ LinkBlock(p) \/ Die(p)
    \/ \E p \in Readers :
          \/ \E n \in Names : BeginLookUp(p, n)
          \/ LookUp(p) \/ BeginList(p) \/ List(p) \/ End(p)

Spec == Init /\ [][Next]_vars

-----------------------------------------------------------------------------
TypeOK ==
    /\ blocks \in Seq([entries : Seq(Entry), next : 0..Len(blocks)])
    /\ Len(blocks) >= Slots
    /\ \A i \in DOMAIN blocks : blocks[i].next # 0 => blocks[i].next > i /\ blocks[i].next > Slots
    /\ lock \in Procs \cup {None}
    /\ \A p \in Procs :
          /\ loc[p].pc \in {"idle", "link", "look", "list", "answered", "listed"}
          /\ loc[p].block \in 0..Len(blocks) /\ loc[p].slot \in 0..Slots
          /\ DOMAIN loc[p].got \subseteq Names /\ loc[p].stays \subseteq Names
          /\ \A n \in DOMAIN loc[p].got : loc[p].got[n] \in Seq(Places)
          /\ loc[p].could \subseteq Places \cup {0}

\* Everything is of its type, chains end, and behind the entries of each block there
\* is a zero, however often entries were added and deleted: GenerateIndexList and
\* GenerateHashwordList read up to it.
RoomForZero == TypeOK /\ \A i \in DOMAIN blocks : Used(blocks, i) < BlockSize

\* What GetIndexOfString answers was true at some moment while it searched the
\* chain without a lock.
LookUpRight ==
    \A p \in Procs : At(p, "answered") =>
        \A n \in DOMAIN loc[p].got :
            IF loc[p].got[n] = <<>> THEN 0 \in loc[p].could
            ELSE Head(loc[p].got[n]) \in loc[p].could

\* GenerateIndexList, also without a lock, lists every name that stays in the
\* index meanwhile once, with its place.
ListComplete ==
    \A p \in Procs : At(p, "listed") =>
        \A n \in loc[p].stays : loc[p].got[n] = <<PlaceIn(blocks, n)>>

\* No reader needs the lock that writers hold.
ReadersRight == LookUpRight /\ ListComplete

\* The file, whatever its chains look like, is a map from names to places:
\* a name that cannot be found is not there twice, and adding or deleting one
\* leaves the others alone, also when a request is killed.
Map == INSTANCE NameMap WITH place <- [n \in Names |-> PlaceIn(blocks, n)]
MapSpec == Map!MapSpec
=============================================================================
