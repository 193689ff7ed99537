-------------------------- MODULE NameIndex_proofs --------------------------
(***************************************************************************)
(* profindex.idx is a map from names to places, whatever its chains look   *)
(* like, and readers need no lock: for any names, hash function, sizes of  *)
(* entries and blocks, and any number of requests at once.  Its blocks     *)
(* always have room for the zero behind their entries.                     *)
(*                                                                         *)
(* A chain is the least set of blocks that a link does not lead out of;    *)
(* ChainHolds and ChainLeast say so, and everything else about chains      *)
(* follows from these two.                                                 *)
(***************************************************************************)
EXTENDS NameIndex, ListLemmas, FiniteSetTheorems

Block == [entries : Seq(Entry), next : Nat]

\* What every file is, whoever has written it: a row of blocks, the heads first,
\* with links to later blocks that are not heads.
File(bs) ==
    /\ bs \in Seq(Block)
    /\ Slots <= Len(bs)
    /\ \A i \in 1..Len(bs) : bs[i].next # 0 =>
          bs[i].next > i /\ bs[i].next > Slots /\ bs[i].next <= Len(bs)

-----------------------------------------------------------------------------
\* A chain has its first block, stays in the file and ends where no link leads on.
LEMMA ChainHolds ==
    ASSUME NEW bs, File(bs), NEW i \in 1..Len(bs)
    PROVE  /\ i \in Chain(bs, i) /\ Chain(bs, i) \subseteq 1..Len(bs)
           /\ Closed(bs, Chain(bs, i))
<1>1. DOMAIN bs = 1..Len(bs) /\ Slots \in Nat /\ Len(bs) \in Nat
  BY NameIndexAssumption, LenProperties DEF File
<1> DEFINE walks == {T \in SUBSET Added(bs) : Closed(bs, {i} \cup T)}
           reached == {j \in Added(bs) : \A T \in walks : j \in T}
<1>2. Chain(bs, i) = {i} \cup reached
  BY DEF Chain
<1>3. reached \subseteq 1..Len(bs)
  BY <1>1 DEF Added
<1>4. ASSUME NEW j \in {i} \cup reached, bs[j].next # 0
      PROVE  bs[j].next \in {i} \cup reached
  <2>1. bs[j].next \in Added(bs)
    <3>1. j \in 1..Len(bs)
      BY <1>3
    <3>2. bs[j].next > j /\ bs[j].next > Slots /\ bs[j].next <= Len(bs) /\ bs[j] \in Block
      BY <1>1, <1>4, <3>1, ElementOfSeq DEF File
    <3>3. bs[j].next \in Nat
      BY <3>2 DEF Block
    <3> QED
      BY <1>1, <3>1, <3>2, <3>3 DEF Added
  <2>2. ASSUME NEW T \in walks PROVE bs[j].next \in {i} \cup T
    <3>1. j \in {i} \cup T /\ Closed(bs, {i} \cup T)
      OBVIOUS
    <3> QED
      BY <1>4, <3>1 DEF Closed
  <2>3. CASE bs[j].next # i
    BY <2>1, <2>2, <2>3
  <2> QED
    BY <2>3
<1> HIDE DEF reached
<1>5. Closed(bs, {i} \cup reached)
  BY <1>4 DEF Closed
<1> QED
  BY <1>2, <1>3, <1>5

\* It is the least such set.
LEMMA ChainLeast ==
    ASSUME NEW bs, File(bs), NEW i \in 1..Len(bs),
           NEW S \in SUBSET (1..Len(bs)), i \in S, Closed(bs, S)
    PROVE  Chain(bs, i) \subseteq S
<1>1. DOMAIN bs = 1..Len(bs) /\ Slots \in Nat /\ Len(bs) \in Nat
  BY NameIndexAssumption, LenProperties DEF File
<1> DEFINE T == S \cap Added(bs)
<1>2. Closed(bs, {i} \cup T)
  <2>1. ASSUME NEW j \in {i} \cup T, bs[j].next # 0
        PROVE  bs[j].next \in T
    <3>1. j \in S /\ j \in 1..Len(bs)
      OBVIOUS
    <3>2. bs[j].next \in S
      BY <2>1, <3>1 DEF Closed
    <3>3. bs[j].next > Slots
      BY <2>1, <3>1 DEF File
    <3> QED
      BY <1>1, <3>2, <3>3 DEF Added
  <2> QED
    BY <2>1 DEF Closed
<1>3. \A j \in Chain(bs, i) : j = i \/ j \in T
  BY <1>2 DEF Chain
<1> QED
  BY <1>3

\* Block by block.
LEMMA ChainUnfolds ==
    ASSUME NEW bs, File(bs), NEW i \in 1..Len(bs)
    PROVE  /\ bs[i].next = 0 => Chain(bs, i) = {i}
           /\ bs[i].next # 0 => /\ bs[i].next \in 1..Len(bs)
                                /\ Chain(bs, i) = {i} \cup Chain(bs, bs[i].next)
<1>1. i \in Chain(bs, i) /\ Chain(bs, i) \subseteq 1..Len(bs) /\ Closed(bs, Chain(bs, i))
  BY ChainHolds
<1>2. CASE bs[i].next = 0
  <2>1. Closed(bs, {i})
    BY <1>2 DEF Closed
  <2>2. Chain(bs, i) \subseteq {i}
    BY <2>1, ChainLeast
  <2> QED
    BY <1>1, <1>2, <2>2
<1>3. CASE bs[i].next # 0
  <2>1. PICK n : n = bs[i].next
    OBVIOUS
  <2>2. n \in Chain(bs, i) /\ n \in 1..Len(bs)
    BY <1>1, <1>3, <2>1 DEF Closed
  <2>3. n \in Chain(bs, n) /\ Chain(bs, n) \subseteq 1..Len(bs) /\ Closed(bs, Chain(bs, n))
    BY <2>2, ChainHolds
  <2>4. Closed(bs, {i} \cup Chain(bs, n))
    BY <2>1, <2>3 DEF Closed
  <2>5. Chain(bs, i) \subseteq {i} \cup Chain(bs, n)
    BY <2>3, <2>4, ChainLeast
  <2>6. Chain(bs, n) \subseteq Chain(bs, i)
    BY <1>1, <2>2, ChainLeast
  <2> QED
    BY <1>1, <1>3, <2>1, <2>2, <2>5, <2>6
<1> QED
  BY <1>2, <1>3

\* Chains do not depend on the entries.
LEMMA ChainSame ==
    ASSUME NEW bs, NEW cs, File(bs), File(cs), Len(cs) = Len(bs),
           \A j \in 1..Len(bs) : cs[j].next = bs[j].next, NEW i \in 1..Len(bs)
    PROVE  Chain(cs, i) = Chain(bs, i)
<1>1. /\ i \in Chain(bs, i) /\ Chain(bs, i) \subseteq 1..Len(bs) /\ Closed(bs, Chain(bs, i))
      /\ i \in Chain(cs, i) /\ Chain(cs, i) \subseteq 1..Len(bs) /\ Closed(cs, Chain(cs, i))
  BY ChainHolds
<1>2. Closed(cs, Chain(bs, i)) /\ Closed(bs, Chain(cs, i))
  BY <1>1 DEF Closed
<1>3. Chain(cs, i) \subseteq Chain(bs, i)
  BY <1>1, <1>2, ChainLeast
<1>4. Chain(bs, i) \subseteq Chain(cs, i)
  BY <1>1, <1>2, ChainLeast
<1> QED
  BY <1>3, <1>4

\* A block at the end of the file is in no chain before it is linked ...
LEMMA ChainAppended ==
    ASSUME NEW bs, NEW cs, NEW block, File(bs), File(cs), cs = Append(bs, block),
           NEW i \in 1..Len(bs)
    PROVE  Chain(cs, i) = Chain(bs, i)
<1>1. /\ Len(bs) \in Nat /\ Len(cs) = Len(bs) + 1 /\ i \in 1..Len(cs)
      /\ \A j \in 1..Len(bs) : cs[j] = bs[j]
  BY DEF File
<1>2. /\ i \in Chain(bs, i) /\ Chain(bs, i) \subseteq 1..Len(bs) /\ Closed(bs, Chain(bs, i))
      /\ i \in Chain(cs, i) /\ Closed(cs, Chain(cs, i))
  BY <1>1, ChainHolds
<1>3. Closed(cs, Chain(bs, i)) /\ Chain(bs, i) \subseteq 1..Len(cs)
  BY <1>1, <1>2 DEF Closed
<1>4. Chain(cs, i) \subseteq Chain(bs, i)
  BY <1>1, <1>2, <1>3, ChainLeast
<1>5. Closed(bs, Chain(cs, i))
  BY <1>1, <1>2, <1>4 DEF Closed
<1>6. Chain(bs, i) \subseteq Chain(cs, i)
  BY <1>2, <1>4, <1>5, ChainLeast
<1> QED
  BY <1>4, <1>6

\* ... and then it is in the chains that ended where it is linked.
LEMMA ChainLinked ==
    ASSUME NEW bs, File(bs), NEW last \in 1..Len(bs), NEW new \in 1..Len(bs),
           bs[last].next = 0, bs[new].next = 0, last < new, new > Slots
    PROVE  /\ File(Linked(bs, last, new)) /\ Len(Linked(bs, last, new)) = Len(bs)
           /\ \A j \in 1..Len(bs) : Linked(bs, last, new)[j].entries = bs[j].entries
           /\ \A i \in 1..Len(bs) :
                 Chain(Linked(bs, last, new), i) =
                     IF last \in Chain(bs, i) THEN Chain(bs, i) \cup {new} ELSE Chain(bs, i)
<1>1. PICK cs : cs = Linked(bs, last, new)
  OBVIOUS
<1>2. bs \in Seq(Block) /\ DOMAIN bs = 1..Len(bs) /\ Len(bs) \in Nat /\ Slots \in Nat
  BY NameIndexAssumption, LenProperties DEF File
<1>3. \A j \in 1..Len(bs) : bs[j] \in Block
  BY <1>2, ElementOfSeq
<1>4. [bs[last] EXCEPT !.next = new] \in Block
  <2>1. bs[last] \in Block /\ new \in Nat
    BY <1>2, <1>3
  <2> QED
    BY <2>1 DEF Block
<1>5. cs \in Seq(Block) /\ Len(cs) = Len(bs)
  BY <1>1, <1>2, <1>4 DEF Linked
<1>6. \A j \in 1..Len(bs) : /\ cs[j].next = (IF j = last THEN new ELSE bs[j].next)
                            /\ cs[j].entries = bs[j].entries
  BY <1>1, <1>2, <1>3 DEF Linked, Block
<1>7. File(cs)
  BY <1>2, <1>5, <1>6 DEF File
<1>8. ASSUME NEW i \in 1..Len(bs)
      PROVE  Chain(cs, i) = IF last \in Chain(bs, i) THEN Chain(bs, i) \cup {new}
                            ELSE Chain(bs, i)
  <2>1. /\ i \in Chain(bs, i) /\ Chain(bs, i) \subseteq 1..Len(bs)
        /\ Closed(bs, Chain(bs, i))
        /\ i \in Chain(cs, i) /\ Chain(cs, i) \subseteq 1..Len(bs)
        /\ Closed(cs, Chain(cs, i))
    BY <1>5, <1>7, ChainHolds
  <2>2. Closed(bs, Chain(cs, i))
    BY <1>6, <2>1 DEF Closed
  <2>3. Chain(bs, i) \subseteq Chain(cs, i)
    BY <2>1, <2>2, ChainLeast
  <2>4. CASE last \in Chain(bs, i)
    <3>1. new \in Chain(cs, i)
      <4>1. last \in Chain(cs, i) /\ cs[last].next = new /\ new # 0
        BY <1>2, <1>6, <2>3, <2>4
      <4> QED
        BY <2>1, <4>1 DEF Closed
    <3>2. Closed(cs, Chain(bs, i) \cup {new})
      BY <1>6, <2>1 DEF Closed
    <3>3. Chain(cs, i) \subseteq Chain(bs, i) \cup {new}
      BY <1>5, <1>7, <2>1, <3>2, ChainLeast
    <3> QED
      BY <2>3, <2>4, <3>1, <3>3
  <2>5. CASE last \notin Chain(bs, i)
    <3>1. Closed(cs, Chain(bs, i))
      BY <1>6, <2>1, <2>5 DEF Closed
    <3>2. Chain(cs, i) \subseteq Chain(bs, i)
      BY <1>5, <1>7, <2>1, <3>1, ChainLeast
    <3> QED
      BY <2>3, <2>5, <3>2
  <2> QED
    BY <2>4, <2>5
<1> QED
  BY <1>1, <1>5, <1>6, <1>7, <1>8
-----------------------------------------------------------------------------
\* No name twice in a block.
Once(entries) == \A k, l \in DOMAIN entries : entries[k].name = entries[l].name => k = l

\* The entries of name m in block i.
Mine(bs, i, m) == {e \in ToSet(bs[i].entries) : e.name = m}

\* The chains are apart, each has names of its own slot only, and each of
\* them once.
Sound(bs) ==
    /\ File(bs)
    /\ \A s, t \in 1..Slots : s # t => Chain(bs, s) \cap Chain(bs, t) = {}
    /\ \A s \in 1..Slots : \A i \in Chain(bs, s) :
          /\ Once(bs[i].entries)
          /\ \A e \in ToSet(bs[i].entries) : Hash[e.name] = s
    /\ \A s \in 1..Slots : \A i, j \in Chain(bs, s) : \A n \in Names :
          Holds(bs, i, n) /\ Holds(bs, j, n) => i = j

\* What a request keeps in its own memory.
Gots == UNION {[D -> Seq(Places)] : D \in SUBSET Names}
Memory == [pc : {"idle", "link", "look", "list", "answered", "listed"},
           block : Nat, slot : 0..Slots, got : Gots,
           could : SUBSET (Places \cup {0}), stays : SUBSET Names]

\* A look-up: it has been told what the name's place is now, and if the name has
\* been there all the time its entry is still to come.
LookingRight(bs, me) ==
    \E n \in Names :
        /\ me.got = [m \in {n} |-> <<>>]
        /\ me.block \in Chain(bs, Hash[n])
        /\ PlaceIn(bs, n) \in me.could
        /\ 0 \notin me.could => \E b \in Chain(bs, me.block) : Holds(bs, b, n)

AnsweredRight(me) ==
    \A n \in DOMAIN me.got :
        IF me.got[n] = <<>> THEN 0 \in me.could ELSE Head(me.got[n]) \in me.could

\* A list: the entry of n is in a block not read yet.
Ahead(bs, me, n) ==
    \/ Hash[n] > me.slot
    \/ Hash[n] = me.slot /\ \E b \in Chain(bs, me.block) : Holds(bs, b, n)

ListingRight(bs, me) ==
    /\ me.slot \in 1..Slots /\ me.block \in Chain(bs, me.slot)
    /\ DOMAIN me.got = me.stays
    /\ \A n \in me.stays :
          /\ PlaceIn(bs, n) # 0
          /\ me.got[n] = IF Ahead(bs, me, n) THEN <<>> ELSE <<PlaceIn(bs, n)>>

ListedRight(bs, me) ==
    /\ DOMAIN me.got = me.stays
    /\ \A n \in me.stays : me.got[n] = <<PlaceIn(bs, n)>> /\ PlaceIn(bs, n) # 0

ReaderRight(bs, me) ==
    /\ me.block <= Len(bs)
    /\ me.pc = "look" => LookingRight(bs, me)
    /\ me.pc = "answered" => AnsweredRight(me)
    /\ me.pc = "list" => ListingRight(bs, me)
    /\ me.pc = "listed" => ListedRight(bs, me)
    /\ me.pc \notin {"list", "listed"} => me.stays = {}

\* Between AddBlock and LinkBlock: the last block is of no chain and has a name that
\* no chain has, and goes behind the last block of that name's chain.
LinkRight(bs, last) ==
    \E n \in Names, at \in Places :
        /\ last \in Chain(bs, Hash[n]) /\ bs[last].next = 0
        /\ bs[Len(bs)] = NewBlock(<<[name |-> n, at |-> at]>>)
        /\ Len(bs) > Slots /\ Len(bs) > last
        /\ \A i \in Chain(bs, Hash[n]) : ~Holds(bs, i, n)
        /\ \A s \in 1..Slots : Len(bs) \notin Chain(bs, s)

IndexInv ==
    /\ Sound(blocks)
    /\ lock \in Writers \cup {None}
    /\ loc \in [Procs -> Memory]
    /\ \A p \in Procs : ReaderRight(blocks, loc[p])
    /\ \A p \in Procs : At(p, "link") <=> p \in Writers /\ lock = p
    /\ \A p \in Procs : At(p, "link") => LinkRight(blocks, loc[p].block)

-----------------------------------------------------------------------------
\* A chain goes on to the end of the file, and each of its blocks begins a chain
\* that is a part of it.
LEMMA ChainForward ==
    ASSUME NEW bs, File(bs), NEW i \in 1..Len(bs)
    PROVE  /\ \A j \in Chain(bs, i) : j >= i
           /\ \A j \in Chain(bs, i) : j \in 1..Len(bs) /\ Chain(bs, j) \subseteq Chain(bs, i)
<1>1. i \in Chain(bs, i) /\ Chain(bs, i) \subseteq 1..Len(bs) /\ Closed(bs, Chain(bs, i))
  BY ChainHolds
<1>2. bs \in Seq(Block) /\ Len(bs) \in Nat
  BY DEF File
<1> DEFINE behind == {j \in 1..Len(bs) : j >= i}
<1>3. Closed(bs, behind)
  <2>1. ASSUME NEW j \in behind, bs[j].next # 0 PROVE bs[j].next \in behind
    <3>1. bs[j] \in Block /\ j \in 1..Len(bs) /\ j >= i
      BY <1>2, ElementOfSeq
    <3>2. bs[j].next > j /\ bs[j].next <= Len(bs) /\ bs[j].next \in Nat
      BY <2>1, <3>1 DEF File, Block
    <3> QED
      BY <1>2, <3>1, <3>2
  <2> QED
    BY <2>1 DEF Closed
<1>4. Chain(bs, i) \subseteq behind
  BY <1>2, <1>3, ChainLeast
<1>5. ASSUME NEW j \in Chain(bs, i) PROVE Chain(bs, j) \subseteq Chain(bs, i)
  BY <1>1, ChainLeast
<1> QED
  BY <1>1, <1>4, <1>5

\* The entries of a block.
LEMMA BlockFacts ==
    ASSUME NEW bs, File(bs), NEW i \in 1..Len(bs)
    PROVE  /\ bs[i] \in Block /\ bs[i].entries \in Seq(Entry) /\ bs[i].next \in 0..Len(bs)
           /\ ToSet(bs[i].entries) \subseteq Entry
           /\ DOMAIN bs[i].entries = 1..Len(bs[i].entries)
<1>1. bs \in Seq(Block) /\ Len(bs) \in Nat
  BY DEF File
<1>2. bs[i] \in Block
  BY <1>1, ElementOfSeq
<1>3. bs[i].entries \in Seq(Entry) /\ bs[i].next \in Nat
  BY <1>2 DEF Block
<1>4. bs[i].next <= Len(bs)
  BY <1>1, <1>3 DEF File
<1>5. DOMAIN bs[i].entries = 1..Len(bs[i].entries)
  BY <1>3, LenProperties
<1>6. ToSet(bs[i].entries) \subseteq Entry
  BY <1>3, <1>5, ElementOfSeq DEF ToSet
<1> QED
  BY <1>1, <1>2, <1>3, <1>4, <1>5, <1>6

\* The heads are blocks.
LEMMA HeadOf ==
    ASSUME NEW bs, File(bs)
    PROVE  /\ Len(bs) \in Nat
           /\ \A s \in 1..Slots : s \in 1..Len(bs)
           /\ \A n \in Names : Hash[n] \in 1..Slots /\ Hash[n] \in 1..Len(bs)
<1>1. Len(bs) \in Nat /\ Slots \in Nat /\ Slots <= Len(bs)
  BY NameIndexAssumption DEF File
<1>2. \A n \in Names : Hash[n] \in 1..Slots
  BY NameIndexAssumption
<1> QED
  BY <1>1, <1>2

\* In a sound file the place of a name is what its one entry says.
LEMMA PlaceFacts ==
    ASSUME NEW bs, Sound(bs), NEW n \in Names
    PROVE  /\ PlaceIn(bs, n) \in Places \cup {0}
           /\ PlaceIn(bs, n) = 0 <=> \A b \in Chain(bs, Hash[n]) : ~Holds(bs, b, n)
           /\ \A b \in Chain(bs, Hash[n]) : \A e \in ToSet(bs[b].entries) :
                 e.name = n => e.at = PlaceIn(bs, n)
<1>1. File(bs) /\ 0 \notin Places
  BY NameIndexAssumption DEF Sound
<1>2. Hash[n] \in 1..Slots /\ Hash[n] \in 1..Len(bs)
  BY <1>1, HeadOf
<1>3. Chain(bs, Hash[n]) \subseteq 1..Len(bs)
  BY <1>1, <1>2, ChainHolds
<1>4. \A v : v \in PlacesIn(bs, n) <=>
          \E b \in Chain(bs, Hash[n]) : \E e \in ToSet(bs[b].entries) : e.name = n /\ v = e.at
  BY DEF PlacesIn
<1>5. CASE \A b \in Chain(bs, Hash[n]) : ~Holds(bs, b, n)
  <2>1. PlacesIn(bs, n) = {}
    BY <1>4, <1>5 DEF Holds
  <2>2. PlaceIn(bs, n) = 0
    BY <2>1 DEF PlaceIn
  <2> QED
    BY <1>5, <2>2 DEF Holds
<1>6. CASE \E b \in Chain(bs, Hash[n]) : Holds(bs, b, n)
  <2>1. PICK b \in Chain(bs, Hash[n]) : Holds(bs, b, n)
    BY <1>6
  <2>2. PICK e \in ToSet(bs[b].entries) : e.name = n
    BY <2>1 DEF Holds
  <2>3. ASSUME NEW c \in Chain(bs, Hash[n]), NEW f \in ToSet(bs[c].entries), f.name = n
        PROVE  f = e
    <3>1. Holds(bs, c, n)
      BY <2>3 DEF Holds
    <3>2. c = b
      BY <1>2, <2>1, <3>1 DEF Sound
    <3>3. Once(bs[b].entries)
      BY <1>2, <2>1 DEF Sound
    <3> QED
      BY <2>2, <2>3, <3>2, <3>3 DEF Once, ToSet
  <2>4. PlacesIn(bs, n) = {e.at}
    BY <1>4, <2>1, <2>2, <2>3
  <2>5. PlaceIn(bs, n) = e.at
    BY <2>4 DEF PlaceIn
  <2>6. e \in Entry
    BY <1>1, <1>3, <2>1, <2>2, BlockFacts
  <2>7. e.at \in Places
    BY <2>6 DEF Entry
  <2> QED
    BY <1>1, <1>6, <2>3, <2>5, <2>7
<1> QED
  BY <1>5, <1>6

-----------------------------------------------------------------------------
\* A change of a file that gives each name of N a place or takes it away, and
\* leaves the entries of the others where they are.
Changes(bs, cs, N) ==
    /\ Sound(bs) /\ Sound(cs) /\ Len(bs) <= Len(cs)
    /\ \A i \in 1..Len(bs) : Chain(bs, i) \subseteq Chain(cs, i)
    /\ \A m \in Names \ N : \A i \in 1..Len(bs) :
          /\ \A j \in Chain(bs, i) : Mine(cs, j, m) = Mine(bs, j, m)
          /\ \A j \in Chain(cs, i) : Holds(cs, j, m) => j \in Chain(bs, i)
    /\ \A n \in N : (PlaceIn(bs, n) = 0) # (PlaceIn(cs, n) = 0)

LEMMA MineHolds ==
    ASSUME NEW bs, NEW cs, NEW i, NEW m, Mine(cs, i, m) = Mine(bs, i, m)
    PROVE  /\ Holds(cs, i, m) <=> Holds(bs, i, m)
           /\ \A e \in ToSet(cs[i].entries) : e.name = m => e \in ToSet(bs[i].entries)
<1>1. \A e : e \in Mine(cs, i, m) <=> e \in ToSet(cs[i].entries) /\ e.name = m
  BY DEF Mine
<1>2. \A e : e \in Mine(bs, i, m) <=> e \in ToSet(bs[i].entries) /\ e.name = m
  BY DEF Mine
<1> QED
  BY <1>1, <1>2 DEF Holds

\* The others keep their places, and are ahead of a reader as before.
LEMMA Untouched ==
    ASSUME NEW bs, NEW cs, NEW N, Changes(bs, cs, N), NEW m \in Names \ N
    PROVE  /\ PlaceIn(cs, m) = PlaceIn(bs, m)
           /\ \A i \in 1..Len(bs) : (\E b \in Chain(cs, i) : Holds(cs, b, m))
                                        <=> (\E b \in Chain(bs, i) : Holds(bs, b, m))
<1>1. Sound(bs) /\ Sound(cs) /\ File(bs) /\ Hash[m] \in 1..Len(bs)
  BY HeadOf DEF Changes, Sound
<1>2. ASSUME NEW i \in 1..Len(bs)
      PROVE  (\E b \in Chain(cs, i) : Holds(cs, b, m)) <=> (\E b \in Chain(bs, i) : Holds(bs, b, m))
  <2>1. \A j \in Chain(bs, i) : j \in Chain(cs, i) /\ Mine(cs, j, m) = Mine(bs, j, m)
    BY DEF Changes
  <2>2. \A j \in Chain(cs, i) : Holds(cs, j, m) => j \in Chain(bs, i)
    BY DEF Changes
  <2>3. \A j \in Chain(bs, i) : Holds(cs, j, m) <=> Holds(bs, j, m)
    BY <2>1, MineHolds
  <2> QED
    BY <2>1, <2>2, <2>3
<1>3. PlaceIn(cs, m) = PlaceIn(bs, m)
  <2>1. CASE \A b \in Chain(cs, Hash[m]) : ~Holds(cs, b, m)
    <3>1. \A b \in Chain(bs, Hash[m]) : ~Holds(bs, b, m)
      BY <1>1, <1>2, <2>1
    <3> QED
      BY <1>1, <2>1, <3>1, PlaceFacts
  <2>2. CASE \E b \in Chain(cs, Hash[m]) : Holds(cs, b, m)
    <3>1. PICK b \in Chain(cs, Hash[m]) : Holds(cs, b, m)
      BY <2>2
    <3>2. PICK e \in ToSet(cs[b].entries) : e.name = m
      BY <3>1 DEF Holds
    <3>3. b \in Chain(bs, Hash[m]) /\ Mine(cs, b, m) = Mine(bs, b, m)
      BY <1>1, <3>1 DEF Changes
    <3>4. e \in ToSet(bs[b].entries)
      BY <3>2, <3>3, MineHolds
    <3> QED
      BY <1>1, <3>1, <3>2, <3>3, <3>4, PlaceFacts
  <2> QED
    BY <2>1, <2>2
<1> QED
  BY <1>2, <1>3

\* One block of a name's chain is written anew, with the entries of the others.
LEMMA Rewritten ==
    ASSUME NEW bs, Sound(bs), NEW n \in Names, NEW i \in Chain(bs, Hash[n]),
           NEW entries \in Seq(Entry), Once(entries),
           \A e : e.name # n => (e \in ToSet(entries) <=> e \in ToSet(bs[i].entries)),
           \A j \in Chain(bs, Hash[n]) : j # i => ~Holds(bs, j, n),
           (PlaceIn(bs, n) = 0) = (\E e \in ToSet(entries) : e.name = n),
           NEW cs, cs = [bs EXCEPT ![i].entries = entries]
    PROVE  Changes(bs, cs, {n})
<1>1. File(bs) /\ Hash[n] \in 1..Slots /\ Hash[n] \in 1..Len(bs) /\ Len(bs) \in Nat
  BY HeadOf DEF Sound
<1>2. bs \in Seq(Block) /\ DOMAIN bs = 1..Len(bs) /\ i \in 1..Len(bs)
  BY <1>1, ChainHolds, LenProperties DEF File
<1>3. [bs[i] EXCEPT !.entries = entries] \in Block
  <2>1. bs[i] \in Block
    BY <1>1, <1>2, BlockFacts
  <2> QED
    BY <2>1 DEF Block
<1>4. cs \in Seq(Block) /\ Len(cs) = Len(bs)
  BY <1>2, <1>3
<1>5. \A j \in 1..Len(bs) : bs[j] \in Block
  BY <1>1, BlockFacts
<1>6. \A j \in 1..Len(bs) : /\ cs[j].next = bs[j].next
                            /\ cs[j].entries = IF j = i THEN entries ELSE bs[j].entries
  BY <1>2, <1>5 DEF Block
<1>7. File(cs)
  BY <1>1, <1>4, <1>6 DEF File
<1>8. ASSUME NEW j \in 1..Len(bs)
      PROVE  Chain(cs, j) = Chain(bs, j) /\ Chain(bs, j) \subseteq 1..Len(bs)
  <2>1. \A k \in 1..Len(bs) : cs[k].next = bs[k].next
    BY <1>6
  <2>2. Len(cs) = Len(bs) /\ File(bs) /\ File(cs)
    BY <1>1, <1>4, <1>7
  <2>3. Chain(cs, j) = Chain(bs, j)
    BY <2>1, <2>2, ChainSame, ZenonT(40)
  <2> QED
    BY <1>1, <2>3, ChainHolds
<1>9. \A s \in 1..Slots : s \in 1..Len(bs) /\ Chain(cs, s) = Chain(bs, s)
  BY <1>1, <1>8, HeadOf
<1>10. \A m \in Names : m # n =>
           \A j \in 1..Len(bs) : \A e : e.name = m =>
               (e \in ToSet(cs[j].entries) <=> e \in ToSet(bs[j].entries))
  BY <1>6
<1>11. \A m \in Names : m # n => \A j \in 1..Len(bs) :
           /\ Mine(cs, j, m) = Mine(bs, j, m)
           /\ Holds(cs, j, m) <=> Holds(bs, j, m)
  BY <1>10 DEF Mine, Holds
<1>12. \A j \in Chain(bs, Hash[n]) : j # i => ~Holds(cs, j, n)
  BY <1>6, <1>1, <1>8 DEF Holds
<1>13. Sound(cs)
  <2>1. \A s, t \in 1..Slots : s # t => Chain(cs, s) \cap Chain(cs, t) = {}
    BY <1>9 DEF Sound
  <2>2. ASSUME NEW s \in 1..Slots, NEW j \in Chain(cs, s)
        PROVE  /\ Once(cs[j].entries)
               /\ \A e \in ToSet(cs[j].entries) : Hash[e.name] = s
    <3>1. j \in Chain(bs, s) /\ j \in 1..Len(bs)
      BY <1>8, <1>9
    <3>2. Once(cs[j].entries)
      BY <1>6, <3>1 DEF Sound
    <3>3. ASSUME NEW e \in ToSet(cs[j].entries) PROVE Hash[e.name] = s
      <4>1. CASE e \in ToSet(bs[j].entries)
        BY <3>1, <4>1 DEF Sound
      <4>2. CASE e \notin ToSet(bs[j].entries)
        <5>1. j = i /\ e.name = n
          BY <1>6, <3>1, <4>2
        <5>2. s = Hash[n]
          BY <1>1, <3>1, <5>1 DEF Sound
        <5> QED
          BY <5>1, <5>2
      <4> QED
        BY <4>1, <4>2
    <3> QED
      BY <3>2, <3>3
  <2>3. ASSUME NEW s \in 1..Slots, NEW j \in Chain(cs, s), NEW k \in Chain(cs, s),
               NEW m \in Names, Holds(cs, j, m), Holds(cs, k, m)
        PROVE  j = k
    <3>1. j \in Chain(bs, s) /\ j \in 1..Len(bs) /\ k \in Chain(bs, s) /\ k \in 1..Len(bs)
      BY <1>8, <1>9
    <3>2. CASE m # n
      <4>1. Holds(bs, j, m) /\ Holds(bs, k, m)
        BY <1>11, <2>3, <3>1, <3>2
      <4> QED
        BY <3>1, <4>1 DEF Sound
    <3>3. CASE m = n
      <4>1. PICK e \in ToSet(cs[j].entries) : e.name = n
        BY <2>3, <3>3 DEF Holds
      <4>2. Hash[e.name] = s
        BY <2>2
      <4>3. Hash[n] = s
        BY <4>1, <4>2
      <4> QED
        BY <1>12, <2>3, <3>1, <3>3, <4>3
    <3> QED
      BY <3>2, <3>3
  <2> QED
    BY <1>7, <2>1, <2>2, <2>3 DEF Sound
<1>14. (PlaceIn(bs, n) = 0) # (PlaceIn(cs, n) = 0)
  <2>1. PlaceIn(cs, n) = 0 <=> ~Holds(cs, i, n)
    BY <1>1, <1>9, <1>12, <1>13, PlaceFacts
  <2>2. Holds(cs, i, n) <=> \E e \in ToSet(entries) : e.name = n
    BY <1>2, <1>6 DEF Holds
  <2> QED
    BY <2>1, <2>2
<1>15. ASSUME NEW m \in Names \ {n}, NEW j \in 1..Len(bs)
       PROVE  /\ \A k \in Chain(bs, j) : Mine(cs, k, m) = Mine(bs, k, m)
              /\ \A k \in Chain(cs, j) : Holds(cs, k, m) => k \in Chain(bs, j)
  BY <1>8, <1>11
<1>16. Len(bs) <= Len(cs) /\ \A j \in 1..Len(bs) : Chain(bs, j) \subseteq Chain(cs, j)
  <2>1. Len(bs) <= Len(cs)
    BY <1>1, <1>4
  <2> QED
    BY <1>8, <2>1
<1>17. \A m \in {n} : (PlaceIn(bs, m) = 0) # (PlaceIn(cs, m) = 0)
  BY <1>14
<1> QED
  BY <1>13, <1>15, <1>16, <1>17 DEF Changes

\* A new block at the end changes nothing yet.
LEMMA Appended ==
    ASSUME NEW bs, Sound(bs), NEW x \in Entry, NEW cs, cs = Append(bs, NewBlock(<<x>>))
    PROVE  /\ Changes(bs, cs, {}) /\ Len(cs) = Len(bs) + 1
           /\ cs[Len(cs)] = NewBlock(<<x>>) /\ \A i \in 1..Len(bs) : cs[i] = bs[i]
           /\ \A i \in 1..Len(bs) : Chain(cs, i) = Chain(bs, i)
<1>1. File(bs) /\ bs \in Seq(Block) /\ Len(bs) \in Nat /\ Slots \in Nat /\ Slots <= Len(bs)
  BY HeadOf, NameIndexAssumption DEF Sound, File
<1>2. NewBlock(<<x>>) \in Block /\ NewBlock(<<x>>).next = 0
  BY DEF NewBlock, Block
<1>3. /\ cs \in Seq(Block) /\ Len(cs) = Len(bs) + 1 /\ cs[Len(bs) + 1] = NewBlock(<<x>>)
      /\ \A i \in 1..Len(bs) : cs[i] = bs[i]
  BY <1>1, <1>2, AppendProperties
<1>4. File(cs)
  <2>1. ASSUME NEW i \in 1..Len(cs), cs[i].next # 0
        PROVE  cs[i].next > i /\ cs[i].next > Slots /\ cs[i].next <= Len(cs)
    <3>1. i \in 1..Len(bs) /\ cs[i] = bs[i]
      BY <1>1, <1>2, <1>3, <2>1
    <3>2. bs[i].next > i /\ bs[i].next > Slots /\ bs[i].next <= Len(bs) /\ bs[i].next \in Nat
      BY <1>1, <2>1, <3>1, BlockFacts DEF File
    <3> QED
      BY <1>1, <1>3, <3>1, <3>2
  <2> QED
    BY <1>1, <1>3, <2>1 DEF File
<1>5. \A i \in 1..Len(bs) : Chain(cs, i) = Chain(bs, i) /\ Chain(bs, i) \subseteq 1..Len(bs)
  BY <1>1, <1>2, <1>4, ChainAppended, ChainHolds
<1>6. \A i \in 1..Len(bs) : \A m : /\ Holds(cs, i, m) <=> Holds(bs, i, m)
                                   /\ Mine(cs, i, m) = Mine(bs, i, m)
  BY <1>3 DEF Holds, Mine
<1>7. \A s \in 1..Slots : s \in 1..Len(bs) /\ Chain(cs, s) = Chain(bs, s)
  BY <1>1, <1>5, HeadOf
<1>8. Sound(cs)
  <2>1. \A s, t \in 1..Slots : s # t => Chain(cs, s) \cap Chain(cs, t) = {}
    BY <1>7 DEF Sound
  <2>2. ASSUME NEW s \in 1..Slots, NEW i \in Chain(cs, s)
        PROVE  i \in Chain(bs, s) /\ i \in 1..Len(bs) /\ cs[i] = bs[i]
    BY <1>3, <1>5, <1>7
  <2>3. \A s \in 1..Slots : \A i \in Chain(cs, s) :
            /\ Once(cs[i].entries)
            /\ \A e \in ToSet(cs[i].entries) : Hash[e.name] = s
    BY <2>2 DEF Sound
  <2>4. \A s \in 1..Slots : \A i, j \in Chain(cs, s) : \A m \in Names :
            Holds(cs, i, m) /\ Holds(cs, j, m) => i = j
    BY <1>6, <2>2 DEF Sound
  <2> QED
    BY <1>4, <2>1, <2>3, <2>4 DEF Sound
<1>9. Len(bs) <= Len(cs)
  BY <1>1, <1>3
<1>10. ASSUME NEW m \in Names \ {}, NEW i \in 1..Len(bs)
       PROVE  /\ \A j \in Chain(bs, i) : Mine(cs, j, m) = Mine(bs, j, m)
              /\ \A j \in Chain(cs, i) : Holds(cs, j, m) => j \in Chain(bs, i)
  BY <1>5, <1>6
<1>11. Changes(bs, cs, {})
  BY <1>5, <1>8, <1>9, <1>10 DEF Changes
<1> QED
  BY <1>3, <1>5, <1>11

\* It gives its name a place when it is linked.
LEMMA LinkedIn ==
    ASSUME NEW bs, Sound(bs), NEW last, LinkRight(bs, last),
           NEW cs, cs = Linked(bs, last, Len(bs))
    PROVE  \E n \in Names : Changes(bs, cs, {n}) /\ PlaceIn(bs, n) = 0
<1>1. PICK n \in Names, at \in Places :
          /\ last \in Chain(bs, Hash[n]) /\ bs[last].next = 0
          /\ bs[Len(bs)] = NewBlock(<<[name |-> n, at |-> at]>>)
          /\ Len(bs) > Slots /\ Len(bs) > last
          /\ \A i \in Chain(bs, Hash[n]) : ~Holds(bs, i, n)
          /\ \A s \in 1..Slots : Len(bs) \notin Chain(bs, s)
  BY DEF LinkRight
<1>2. PICK new : new = Len(bs)
  OBVIOUS
<1>3. PICK x : x = [name |-> n, at |-> at]
  OBVIOUS
<1>4. x \in Entry /\ x.name = n
  BY <1>3 DEF Entry
<1>5. /\ File(bs) /\ Len(bs) \in Nat /\ Slots \in Nat /\ Hash[n] \in 1..Slots
      /\ \A s \in 1..Slots : s \in 1..Len(bs)
  BY HeadOf, NameIndexAssumption DEF Sound
<1>6. /\ \A i \in 1..Len(bs) : Chain(bs, i) \subseteq 1..Len(bs)
      /\ last \in 1..Len(bs) /\ new \in 1..Len(bs) /\ last < new /\ new > Slots
  <2>1. \A i \in 1..Len(bs) : Chain(bs, i) \subseteq 1..Len(bs)
    BY <1>5, ChainHolds
  <2> QED
    BY <1>1, <1>2, <1>5, <2>1
<1>7. bs[new].next = 0 /\ bs[new].entries = <<x>>
  BY <1>1, <1>2, <1>3 DEF NewBlock
<1>8. /\ File(cs) /\ Len(cs) = Len(bs)
      /\ \A j \in 1..Len(bs) : cs[j].entries = bs[j].entries
      /\ \A i \in 1..Len(bs) :
            Chain(cs, i) = IF last \in Chain(bs, i) THEN Chain(bs, i) \cup {new} ELSE Chain(bs, i)
  BY <1>1, <1>2, <1>5, <1>6, <1>7, ChainLinked
<1>9. \A i \in 1..Len(bs) : \A m : /\ Holds(cs, i, m) <=> Holds(bs, i, m)
                                   /\ Mine(cs, i, m) = Mine(bs, i, m)
  BY <1>8 DEF Holds, Mine
<1>10. ToSet(bs[new].entries) = {x} /\ Once(bs[new].entries)
  BY <1>7 DEF ToSet, Once
<1>11. \A m : Holds(bs, new, m) <=> m = n
  BY <1>4, <1>10 DEF Holds
<1>12. \A s \in 1..Slots :
           Chain(cs, s) = IF s = Hash[n] THEN Chain(bs, s) \cup {new} ELSE Chain(bs, s)
  <2>1. ASSUME NEW s \in 1..Slots PROVE last \in Chain(bs, s) <=> s = Hash[n]
    BY <1>1, <1>5 DEF Sound
  <2> QED
    BY <1>5, <1>8, <2>1
<1>13. \A s \in 1..Slots : new \notin Chain(bs, s) /\ Chain(bs, s) \subseteq 1..Len(bs)
  BY <1>1, <1>2, <1>5, <1>6
<1>14. Sound(cs)
  <2>1. ASSUME NEW s \in 1..Slots, NEW t \in 1..Slots, s # t
        PROVE  Chain(cs, s) \cap Chain(cs, t) = {}
    <3>1. Chain(bs, s) \cap Chain(bs, t) = {}
      BY <2>1 DEF Sound
    <3> QED
      BY <1>12, <1>13, <2>1, <3>1
  <2>2. ASSUME NEW s \in 1..Slots, NEW i \in Chain(cs, s)
        PROVE  i \in Chain(bs, s) \/ (i = new /\ s = Hash[n])
    BY <1>12
  <2>3. ASSUME NEW s \in 1..Slots, NEW i \in Chain(cs, s)
        PROVE  /\ Once(cs[i].entries)
               /\ \A e \in ToSet(cs[i].entries) : Hash[e.name] = s
    <3>1. CASE i = new /\ s = Hash[n]
      BY <1>4, <1>6, <1>8, <1>10, <3>1
    <3>2. CASE i \in Chain(bs, s)
      <4>1. cs[i].entries = bs[i].entries
        BY <1>8, <1>13, <3>2
      <4> QED
        BY <3>2, <4>1 DEF Sound
    <3> QED
      BY <2>2, <3>1, <3>2
  <2>4. ASSUME NEW s \in 1..Slots, NEW i \in Chain(cs, s), NEW j \in Chain(cs, s),
               NEW m \in Names, Holds(cs, i, m), Holds(cs, j, m)
        PROVE  i = j
    <3>1. Holds(bs, i, m) /\ Holds(bs, j, m)
      BY <1>6, <1>9, <1>13, <2>2, <2>4
    <3>2. CASE i \in Chain(bs, s) /\ j \in Chain(bs, s)
      BY <3>1, <3>2 DEF Sound
    <3>3. CASE s = Hash[n] /\ (i = new \/ j = new)
      <4>1. m = n
        BY <1>11, <3>1, <3>3
      <4> QED
        BY <1>1, <2>2, <3>1, <3>3, <4>1
    <3> QED
      BY <2>2, <3>2, <3>3
  <2> QED
    BY <1>8, <2>1, <2>3, <2>4 DEF Sound
<1>15. PlaceIn(bs, n) = 0
  BY <1>1, PlaceFacts
<1>16. PlaceIn(cs, n) # 0
  <2>1. new \in Chain(cs, Hash[n]) /\ Holds(cs, new, n)
    BY <1>5, <1>6, <1>9, <1>11, <1>12
  <2> QED
    BY <1>14, <2>1, PlaceFacts
<1>17. ASSUME NEW m \in Names \ {n}, NEW i \in 1..Len(bs)
       PROVE  /\ \A j \in Chain(bs, i) : Mine(cs, j, m) = Mine(bs, j, m)
              /\ \A j \in Chain(cs, i) : Holds(cs, j, m) => j \in Chain(bs, i)
  BY <1>6, <1>8, <1>9, <1>11
<1>18. Len(bs) <= Len(cs) /\ \A i \in 1..Len(bs) : Chain(bs, i) \subseteq Chain(cs, i)
  BY <1>5, <1>8
<1>19. \A m \in {n} : (PlaceIn(bs, m) = 0) # (PlaceIn(cs, m) = 0)
  BY <1>15, <1>16
<1>20. Changes(bs, cs, {n})
  BY <1>14, <1>17, <1>18, <1>19 DEF Changes
<1> QED
  BY <1>15, <1>20

-----------------------------------------------------------------------------
\* An entry goes behind the others ...
LEMMA EntryAppended ==
    ASSUME NEW entries \in Seq(Entry), Once(entries), NEW x \in Entry,
           ~ \E e \in ToSet(entries) : e.name = x.name
    PROVE  /\ Append(entries, x) \in Seq(Entry) /\ Once(Append(entries, x))
           /\ ToSet(Append(entries, x)) = ToSet(entries) \cup {x}
<1>1. PICK app : app = Append(entries, x)
  OBVIOUS
<1>2. Len(entries) \in Nat /\ DOMAIN entries = 1..Len(entries)
  BY LenProperties
<1>3. /\ app \in Seq(Entry) /\ Len(app) = Len(entries) + 1 /\ app[Len(entries) + 1] = x
      /\ \A i \in 1..Len(entries) : app[i] = entries[i]
  BY <1>1, AppendProperties
<1>4. DOMAIN app = 1..(Len(entries) + 1)
  BY <1>3, LenProperties
<1>5. \A i \in 1..Len(entries) : entries[i].name # x.name
  BY <1>2 DEF ToSet
<1>6. Once(app)
  <2>1. ASSUME NEW k \in DOMAIN app, NEW l \in DOMAIN app, app[k].name = app[l].name
        PROVE  k = l
    <3>1. CASE k \in 1..Len(entries) /\ l \in 1..Len(entries)
      BY <1>2, <1>3, <2>1, <3>1 DEF Once
    <3>2. CASE k = Len(entries) + 1 /\ l = Len(entries) + 1
      BY <3>2
    <3>3. CASE k \in 1..Len(entries) /\ l = Len(entries) + 1
      BY <1>3, <1>5, <2>1, <3>3
    <3>4. CASE k = Len(entries) + 1 /\ l \in 1..Len(entries)
      BY <1>3, <1>5, <2>1, <3>4
    <3>5. \A i \in DOMAIN app : i \in 1..Len(entries) \/ i = Len(entries) + 1
      BY <1>2, <1>4
    <3> QED
      BY <3>1, <3>2, <3>3, <3>4, <3>5
  <2> QED
    BY <2>1 DEF Once
<1>7. ASSUME NEW e PROVE e \in ToSet(app) <=> e \in ToSet(entries) \/ e = x
  <2>1. e \in ToSet(app) <=> \E i \in 1..(Len(entries) + 1) : e = app[i]
    BY <1>4 DEF ToSet
  <2>2. e \in ToSet(entries) <=> \E i \in 1..Len(entries) : e = app[i]
    BY <1>2, <1>3 DEF ToSet
  <2>3. \A i \in 1..(Len(entries) + 1) : i \in 1..Len(entries) \/ i = Len(entries) + 1
    BY <1>2
  <2>4. \A i \in 1..Len(entries) : i \in 1..(Len(entries) + 1)
    BY <1>2
  <2>5. Len(entries) + 1 \in 1..(Len(entries) + 1)
    BY <1>2
  <2> QED
    BY <1>3, <2>1, <2>2, <2>3, <2>4, <2>5
<1> QED
  BY <1>1, <1>3, <1>6, <1>7

\* ... and out of them, those behind it moving up.
LEMMA EntryRemoved ==
    ASSUME NEW entries \in Seq(Entry), Once(entries), NEW i \in 1..Len(entries)
    PROVE  /\ RemoveAt(entries, i) \in Seq(Entry) /\ Once(RemoveAt(entries, i))
           /\ ToSet(RemoveAt(entries, i)) = ToSet(entries) \ {entries[i]}
<1>1. PICK rest : rest = RemoveAt(entries, i)
  OBVIOUS
<1>2. Len(entries) \in Nat /\ DOMAIN entries = 1..Len(entries)
  BY LenProperties
<1>3. /\ rest \in Seq(Entry) /\ Len(rest) = Len(entries) - 1
      /\ \A j \in 1..(Len(entries) - 1) :
            rest[j] = IF j < i THEN entries[j] ELSE entries[j + 1]
  BY <1>1, RemoveAtFacts
<1>4. DOMAIN rest = 1..(Len(entries) - 1)
  BY <1>3, LenProperties
<1> DEFINE From(j) == IF j < i THEN j ELSE j + 1
<1>5. \A j \in 1..(Len(entries) - 1) :
          rest[j] = entries[From(j)] /\ From(j) \in 1..Len(entries) /\ From(j) # i
  BY <1>2, <1>3
<1>6. \A j, k \in 1..(Len(entries) - 1) : From(j) = From(k) => j = k
  OBVIOUS
<1>7. \A l \in 1..Len(entries) : l # i => \E j \in 1..(Len(entries) - 1) : From(j) = l
  <2>1. ASSUME NEW l \in 1..Len(entries), l # i
        PROVE  \E j \in 1..(Len(entries) - 1) : From(j) = l
    <3>1. CASE l < i
      BY <1>2, <3>1
    <3>2. CASE l > i
      <4>1. l - 1 \in 1..(Len(entries) - 1) /\ From(l - 1) = l
        BY <1>2, <3>2
      <4> QED
        BY <4>1
    <3> QED
      BY <2>1, <3>1, <3>2
  <2> QED
    BY <2>1
<1> HIDE DEF From
<1>8. Once(rest)
  <2>1. ASSUME NEW k \in 1..(Len(entries) - 1), NEW l \in 1..(Len(entries) - 1),
               rest[k].name = rest[l].name
        PROVE  k = l
    <3>1. From(k) = From(l)
      BY <1>2, <1>5, <2>1 DEF Once
    <3> QED
      BY <1>6, <3>1
  <2> QED
    BY <1>4, <2>1 DEF Once
<1>9. ASSUME NEW e PROVE e \in ToSet(rest) <=> e \in ToSet(entries) /\ e # entries[i]
  <2>1. e \in ToSet(rest) <=> \E j \in 1..(Len(entries) - 1) : e = entries[From(j)]
    BY <1>4, <1>5 DEF ToSet
  <2>2. e \in ToSet(entries) <=> \E l \in 1..Len(entries) : e = entries[l]
    BY <1>2 DEF ToSet
  <2>3. \A l \in 1..Len(entries) : entries[l] = entries[i] => l = i
    BY <1>2 DEF Once
  <2> QED
    BY <1>5, <1>7, <2>1, <2>2, <2>3
<1> QED
  BY <1>1, <1>3, <1>8, <1>9

-----------------------------------------------------------------------------
LEMMA GotFacts ==
    /\ \A g \in Gots : /\ DOMAIN g \subseteq Names /\ g = [n \in DOMAIN g |-> g[n]]
                       /\ \A n \in DOMAIN g : g[n] \in Seq(Places)
    /\ \A D \in SUBSET Names : \A f \in [D -> Seq(Places)] : f \in Gots
<1>1. \A g \in Gots : \E D \in SUBSET Names : g \in [D -> Seq(Places)]
  BY DEF Gots
<1>2. \A D \in SUBSET Names : \A f \in [D -> Seq(Places)] : f \in Gots
  BY DEF Gots
<1> QED
  BY <1>1, <1>2

\* What Observe makes of a reader's memory.
Seen(bs, cs, me) ==
    LET stay == {n \in me.stays : PlaceIn(cs, n) = PlaceIn(bs, n)}
    IN  CASE me.pc = "look" -> [me EXCEPT !.could = @ \cup {PlaceIn(cs, n) : n \in DOMAIN me.got}]
          [] me.pc # "look" /\ me.stays # {} ->
                [me EXCEPT !.stays = stay, !.got = [n \in stay |-> @[n]]]
          [] OTHER -> me

\* While the file changes the readers stay right.
LEMMA StillRight ==
    ASSUME NEW bs, NEW cs, NEW N, Changes(bs, cs, N),
           NEW me \in Memory, ReaderRight(bs, me)
    PROVE  /\ Seen(bs, cs, me) \in Memory /\ ReaderRight(cs, Seen(bs, cs, me))
           /\ Seen(bs, cs, me).pc = me.pc /\ Seen(bs, cs, me).block = me.block
<1>1. PICK you : you = Seen(bs, cs, me)
  OBVIOUS
<1>2. /\ Sound(bs) /\ Sound(cs) /\ File(bs) /\ File(cs) /\ Len(bs) <= Len(cs)
      /\ Len(bs) \in Nat /\ Len(cs) \in Nat
      /\ \A i \in 1..Len(bs) : Chain(bs, i) \subseteq Chain(cs, i)
  BY HeadOf DEF Changes, Sound
<1>3. me.block \in Nat /\ me.block <= Len(bs) /\ me.got \in Gots
      /\ me.stays \subseteq Names /\ me.could \subseteq Places \cup {0}
  BY DEF Memory, ReaderRight
<1>4. \A n \in Names : /\ PlaceIn(cs, n) \in Places \cup {0}
                       /\ Hash[n] \in 1..Slots /\ Hash[n] \in 1..Len(bs)
  BY <1>2, PlaceFacts, HeadOf
<1>5. \A s \in 1..Slots : s \in 1..Len(bs) /\ Chain(bs, s) \subseteq 1..Len(bs)
  BY <1>2, HeadOf, ChainHolds
<1>6. CASE me.pc = "look"
  <2>1. you = [me EXCEPT !.could = @ \cup {PlaceIn(cs, n) : n \in DOMAIN me.got}]
    BY <1>1, <1>6 DEF Seen
  <2>2. PICK n \in Names :
            /\ me.got = [m \in {n} |-> <<>>]
            /\ me.block \in Chain(bs, Hash[n])
            /\ PlaceIn(bs, n) \in me.could
            /\ 0 \notin me.could => \E b \in Chain(bs, me.block) : Holds(bs, b, n)
    BY <1>6 DEF ReaderRight, LookingRight
  <2>3. PICK could : could = me.could \cup {PlaceIn(cs, n)}
    OBVIOUS
  <2>4. you = [me EXCEPT !.could = could]
    BY <2>1, <2>2, <2>3
  <2>5. could \subseteq Places \cup {0}
    BY <1>3, <1>4, <2>2, <2>3
  <2>6. /\ you \in Memory /\ you.pc = me.pc /\ you.block = me.block /\ you.got = me.got
        /\ you.stays = me.stays /\ you.could = could
    BY <2>4, <2>5 DEF Memory
  <2>7. me.block \in 1..Len(bs) /\ me.block \in Chain(cs, Hash[n])
    BY <1>2, <1>4, <1>5, <2>2
  <2>8. 0 \notin could => \E b \in Chain(cs, me.block) : Holds(cs, b, n)
    <3>1. SUFFICES ASSUME 0 \notin could PROVE \E b \in Chain(cs, me.block) : Holds(cs, b, n)
      OBVIOUS
    <3>2. PICK b \in Chain(bs, me.block) : Holds(bs, b, n)
      BY <2>2, <2>3, <3>1
    <3>3. PlaceIn(bs, n) # 0 /\ PlaceIn(cs, n) # 0
      BY <2>2, <2>3, <3>1
    <3>4. n \notin N
      BY <3>3 DEF Changes
    <3>5. n \in Names \ N
      BY <3>4
    <3> QED
      BY <2>7, <3>2, <3>5, Untouched
  <2>9. LookingRight(cs, you)
    BY <2>2, <2>3, <2>6, <2>7, <2>8 DEF LookingRight
  <2>10. you.block <= Len(cs)
    BY <1>2, <1>3, <2>6
  <2>11. me.stays = {}
    BY <1>6 DEF ReaderRight
  <2> QED
    BY <1>1, <1>6, <2>6, <2>9, <2>10, <2>11 DEF ReaderRight
<1>7. CASE me.pc # "look" /\ me.stays # {}
  <2>1. PICK stay : stay = {n \in me.stays : PlaceIn(cs, n) = PlaceIn(bs, n)}
    OBVIOUS
  <2>2. PICK got : got = [n \in stay |-> me.got[n]]
    OBVIOUS
  <2>3. you = [me EXCEPT !.stays = stay, !.got = got]
    BY <1>1, <1>7, <2>1, <2>2 DEF Seen
  <2>4. me.pc \in {"list", "listed"}
    BY <1>7 DEF ReaderRight
  <2>5. DOMAIN me.got = me.stays /\ \A n \in me.stays : PlaceIn(bs, n) # 0
    BY <2>4 DEF ReaderRight, ListingRight, ListedRight
  <2>6. stay \subseteq me.stays /\ stay \subseteq Names
    BY <1>3, <2>1
  <2>7. \A n \in stay : me.got[n] \in Seq(Places)
    BY <1>3, <2>5, <2>6, GotFacts
  <2>8. got \in [stay -> Seq(Places)]
    BY <2>2, <2>7
  <2>9. got \in Gots /\ DOMAIN got = stay
    BY <2>6, <2>8, GotFacts
  <2>10. /\ you \in Memory /\ you.pc = me.pc /\ you.block = me.block /\ you.slot = me.slot
         /\ you.got = got /\ you.stays = stay
    BY <2>3, <2>6, <2>9 DEF Memory
  <2>11. ASSUME NEW n \in stay
         PROVE  /\ n \in me.stays /\ n \in Names \ N /\ got[n] = me.got[n]
                /\ PlaceIn(cs, n) = PlaceIn(bs, n) /\ PlaceIn(cs, n) # 0
    <3>1. n \in me.stays /\ n \in Names /\ got[n] = me.got[n] /\ PlaceIn(cs, n) = PlaceIn(bs, n)
      BY <2>1, <2>2, <2>6
    <3>2. n \notin N
      BY <3>1 DEF Changes
    <3> QED
      BY <2>5, <3>1, <3>2
  <2>12. you.block <= Len(cs)
    BY <1>2, <1>3, <2>10
  <2>13. CASE me.pc = "list"
    <3>1. /\ me.slot \in 1..Slots /\ me.block \in Chain(bs, me.slot)
          /\ \A n \in me.stays :
                me.got[n] = IF Ahead(bs, me, n) THEN <<>> ELSE <<PlaceIn(bs, n)>>
      BY <2>13 DEF ReaderRight, ListingRight
    <3>2. me.block \in 1..Len(bs) /\ me.block \in Chain(cs, me.slot)
      BY <1>2, <1>5, <3>1
    <3>3. ASSUME NEW n \in stay PROVE Ahead(cs, you, n) <=> Ahead(bs, me, n)
      <4>1. (\E b \in Chain(cs, me.block) : Holds(cs, b, n))
                <=> (\E b \in Chain(bs, me.block) : Holds(bs, b, n))
        BY <2>11, <3>2, Untouched
      <4> QED
        BY <2>10, <4>1 DEF Ahead
    <3>4. ListingRight(cs, you)
      BY <2>9, <2>10, <2>11, <3>1, <3>2, <3>3 DEF ListingRight
    <3> QED
      BY <1>1, <2>10, <2>12, <2>13, <3>4 DEF ReaderRight
  <2>14. CASE me.pc = "listed"
    <3>1. \A n \in me.stays : me.got[n] = <<PlaceIn(bs, n)>>
      BY <2>14 DEF ReaderRight, ListedRight
    <3>2. ListedRight(cs, you)
      BY <2>9, <2>10, <2>11, <3>1 DEF ListedRight
    <3> QED
      BY <1>1, <2>10, <2>12, <2>14, <3>2 DEF ReaderRight
  <2> QED
    BY <2>4, <2>13, <2>14
<1>8. CASE me.pc # "look" /\ me.stays = {}
  <2>1. you = me
    BY <1>1, <1>8 DEF Seen
  <2>2. me.block <= Len(cs)
    BY <1>2, <1>3
  <2>3. me.pc = "list" => ListingRight(cs, me)
    <3>1. SUFFICES ASSUME me.pc = "list" PROVE ListingRight(cs, me)
      OBVIOUS
    <3>2. me.slot \in 1..Slots /\ me.block \in Chain(bs, me.slot) /\ DOMAIN me.got = me.stays
      BY <3>1 DEF ReaderRight, ListingRight
    <3>3. me.block \in Chain(cs, me.slot)
      BY <1>2, <1>5, <3>2
    <3> QED
      BY <1>8, <3>2, <3>3 DEF ListingRight
  <2>4. me.pc = "listed" => ListedRight(cs, me)
    BY <1>8 DEF ReaderRight, ListedRight
  <2>5. me.pc = "answered" => AnsweredRight(me)
    BY DEF ReaderRight
  <2> QED
    BY <1>1, <1>8, <2>1, <2>2, <2>3, <2>4, <2>5 DEF ReaderRight
<1> QED
  BY <1>6, <1>7, <1>8

-----------------------------------------------------------------------------
\* A look-up is answered with what the file says, or goes on in what is left of
\* the chain.
LEMMA LookStep ==
    ASSUME NEW bs, Sound(bs), NEW me \in Memory, ReaderRight(bs, me), me.pc = "look",
           NEW n \in DOMAIN me.got
    PROVE  /\ \A e \in ToSet(bs[me.block].entries) : e.name = n =>
                 \A got \in [{n} -> {<<e.at>>}] :
                     LET you == [me EXCEPT !.pc = "answered", !.got = got]
                     IN  you \in Memory /\ ReaderRight(bs, you)
           /\ ~Holds(bs, me.block, n) /\ bs[me.block].next = 0 =>
                 LET you == [me EXCEPT !.pc = "answered"]
                 IN  you \in Memory /\ ReaderRight(bs, you)
           /\ ~Holds(bs, me.block, n) /\ bs[me.block].next # 0 =>
                 LET you == [me EXCEPT !.block = bs[me.block].next]
                 IN  you \in Memory /\ ReaderRight(bs, you)
<1>1. /\ n \in Names /\ me.got = [m \in {n} |-> <<>>]
      /\ me.block \in Chain(bs, Hash[n])
      /\ PlaceIn(bs, n) \in me.could
      /\ 0 \notin me.could => \E b \in Chain(bs, me.block) : Holds(bs, b, n)
  <2>1. PICK k \in Names :
            /\ me.got = [m \in {k} |-> <<>>]
            /\ me.block \in Chain(bs, Hash[k])
            /\ PlaceIn(bs, k) \in me.could
            /\ 0 \notin me.could => \E b \in Chain(bs, me.block) : Holds(bs, b, k)
    BY DEF ReaderRight, LookingRight
  <2>2. n = k
    BY <2>1
  <2> QED
    BY <2>1, <2>2
<1>2. /\ File(bs) /\ Len(bs) \in Nat /\ Hash[n] \in 1..Slots /\ Hash[n] \in 1..Len(bs)
  BY <1>1, HeadOf DEF Sound
<1>3. Chain(bs, Hash[n]) \subseteq 1..Len(bs) /\ me.block \in 1..Len(bs)
  BY <1>1, <1>2, ChainHolds
<1>4. me.stays = {} /\ me.block <= Len(bs)
  BY DEF ReaderRight
<1>5. ASSUME NEW e \in ToSet(bs[me.block].entries), e.name = n,
             NEW got \in [{n} -> {<<e.at>>}],
             NEW you, you = [me EXCEPT !.pc = "answered", !.got = got]
      PROVE  you \in Memory /\ ReaderRight(bs, you)
  <2>1. e \in Entry
    BY <1>2, <1>3, BlockFacts
  <2>2. e.at \in Places /\ e.at = PlaceIn(bs, n)
    BY <1>1, <1>5, <2>1, PlaceFacts DEF Entry
  <2>3. <<e.at>> \in Seq(Places)
    BY <2>2
  <2>4. got \in [{n} -> Seq(Places)]
    BY <1>5, <2>3
  <2>5. got \in Gots
    BY <1>1, <2>4, GotFacts
  <2>6. /\ you \in Memory /\ you.pc = "answered" /\ you.got = got /\ you.could = me.could
        /\ you.stays = me.stays /\ you.block = me.block
    BY <1>5, <2>5 DEF Memory
  <2>7. AnsweredRight(you)
    <3>1. <<e.at>> # <<>> /\ Head(<<e.at>>) = e.at
      OBVIOUS
    <3>2. e.at \in me.could /\ you.could = me.could
      BY <1>1, <2>2, <2>6
    <3>3. \A m \in DOMAIN you.got : you.got[m] = <<e.at>>
      BY <2>6
    <3> QED
      BY <3>1, <3>2, <3>3 DEF AnsweredRight
  <2> QED
    BY <1>4, <2>6, <2>7 DEF ReaderRight
<1>6. ASSUME ~Holds(bs, me.block, n), bs[me.block].next = 0,
             NEW you, you = [me EXCEPT !.pc = "answered"]
      PROVE  you \in Memory /\ ReaderRight(bs, you)
  <2>1. /\ you \in Memory /\ you.pc = "answered" /\ you.got = me.got /\ you.could = me.could
        /\ you.stays = me.stays /\ you.block = me.block
    BY <1>6 DEF Memory
  <2>2. Chain(bs, me.block) = {me.block}
    BY <1>2, <1>3, <1>6, ChainUnfolds
  <2>3. 0 \in me.could
    BY <1>1, <1>6, <2>2
  <2>4. AnsweredRight(you)
    BY <1>1, <2>1, <2>3 DEF AnsweredRight
  <2> QED
    BY <1>4, <2>1, <2>4 DEF ReaderRight
<1>7. ASSUME ~Holds(bs, me.block, n), bs[me.block].next # 0,
             NEW you, you = [me EXCEPT !.block = bs[me.block].next]
      PROVE  you \in Memory /\ ReaderRight(bs, you)
  <2>1. PICK next : next = bs[me.block].next
    OBVIOUS
  <2>2. next \in 1..Len(bs) /\ Chain(bs, me.block) = {me.block} \cup Chain(bs, next)
    BY <1>2, <1>3, <1>7, <2>1, ChainUnfolds
  <2>3. next \in Nat /\ next <= Len(bs)
    BY <1>2, <2>2
  <2>4. you = [me EXCEPT !.block = next]
    BY <1>7, <2>1
  <2>5. /\ you \in Memory /\ you.pc = "look" /\ you.got = me.got /\ you.could = me.could
        /\ you.stays = me.stays /\ you.block = next
    BY <2>3, <2>4 DEF Memory
  <2>6. next \in Chain(bs, Hash[n])
    <3>1. next \in Chain(bs, next)
      BY <1>2, <2>2, ChainHolds
    <3>2. Chain(bs, me.block) \subseteq Chain(bs, Hash[n])
      BY <1>1, <1>2, ChainForward
    <3> QED
      BY <2>2, <3>1, <3>2
  <2>7. 0 \notin me.could => \E b \in Chain(bs, next) : Holds(bs, b, n)
    BY <1>1, <1>7, <2>2
  <2>8. LookingRight(bs, you)
    BY <1>1, <2>5, <2>6, <2>7 DEF LookingRight
  <2> QED
    BY <1>4, <2>3, <2>5, <2>8 DEF ReaderRight
<1> QED
  BY <1>5, <1>6, <1>7

\* What a block's entries say of one name.
LEMMA PlacesOfFacts ==
    ASSUME NEW entries \in Seq(Entry), Once(entries), NEW n
    PROVE  /\ \A e \in ToSet(entries) : e.name = n => PlacesOf(entries, n) = <<e.at>>
           /\ ~(\E e \in ToSet(entries) : e.name = n) => PlacesOf(entries, n) = <<>>
<1> DEFINE mine == {k \in DOMAIN entries : entries[k].name = n}
           seq == SetToSeq(mine)
<1>1. PlacesOf(entries, n) = [k \in DOMAIN seq |-> entries[seq[k]].at]
  BY DEF PlacesOf
<1>2. ASSUME NEW e \in ToSet(entries), e.name = n
      PROVE  PlacesOf(entries, n) = <<e.at>>
  <2>1. PICK k \in DOMAIN entries : entries[k] = e
    BY DEF ToSet
  <2>2. mine = {k}
    BY <1>2, <2>1 DEF Once
  <2>3. Cardinality(mine) = 1
    BY <2>2, FS_Singleton
  <2>4. \A f : f \in [1..1 -> {k}] => f = [j \in 1..1 |-> k]
    OBVIOUS
  <2>5. [j \in 1..1 |-> k] \in [1..1 -> {k}] /\ IsInjective([j \in 1..1 |-> k])
    BY DEF IsInjective
  <2>6. seq \in [1..1 -> {k}]
    <3>1. seq = CHOOSE f \in [1..1 -> {k}] : IsInjective(f)
      BY <2>2, <2>3 DEF SetToSeq
    <3> HIDE DEF seq
    <3> QED
      BY <2>5, <3>1
  <2>7. DOMAIN seq = 1..1 /\ seq[1] = k
    <3> HIDE DEF seq
    <3> QED
      BY <2>6
  <2>8. PlacesOf(entries, n) = [j \in 1..1 |-> entries[seq[j]].at]
    BY <1>1, <2>7
  <2>9. \A j \in 1..1 : entries[seq[j]].at = e.at
    <3>1. \A j \in 1..1 : j = 1
      OBVIOUS
    <3> HIDE DEF seq
    <3> QED
      BY <2>1, <2>7, <3>1
  <2>10. PlacesOf(entries, n) = [j \in 1..1 |-> e.at]
    BY <2>8, <2>9
  <2>11. [j \in 1..1 |-> e.at] = <<e.at>>
    OBVIOUS
  <2> QED
    BY <2>10, <2>11
<1>3. ASSUME ~(\E e \in ToSet(entries) : e.name = n)
      PROVE  PlacesOf(entries, n) = <<>>
  <2>1. mine = {}
    BY <1>3 DEF ToSet
  <2>2. Cardinality(mine) = 0
    BY <2>1, FS_EmptySet
  <2>3. seq = CHOOSE f \in [1..0 -> {}] : IsInjective(f)
    BY <2>1, <2>2 DEF SetToSeq
  <2>4. <<>> \in [1..0 -> {}] /\ IsInjective(<<>>)
    BY DEF IsInjective
  <2>5. seq \in [1..0 -> {}]
    <3> HIDE DEF seq
    <3> QED
      BY <2>3, <2>4
  <2>6. DOMAIN seq = {}
    <3> HIDE DEF seq
    <3> QED
      BY <2>5
  <2>7. PlacesOf(entries, n) = [j \in {} |-> entries[seq[j]].at]
    BY <1>1, <2>6
  <2> QED
    BY <2>7
<1> QED
  BY <1>2, <1>3

\* A list takes the names of one block over and goes on.
LEMMA ListStep ==
    ASSUME NEW bs, Sound(bs), NEW me \in Memory, ReaderRight(bs, me), me.pc = "list",
           NEW next, next = bs[me.block].next,
           NEW pc, pc = IF next = 0 /\ me.slot = Slots THEN "listed" ELSE "list",
           NEW slot, slot = IF next = 0 /\ me.slot # Slots THEN me.slot + 1 ELSE me.slot,
           NEW block, block = IF next # 0 THEN next ELSE slot,
           NEW R, NEW got \in [me.stays -> R],
           \A n \in me.stays : got[n] = me.got[n] \o PlacesOf(bs[me.block].entries, n),
           NEW you, you = [pc |-> pc, block |-> block, slot |-> slot, got |-> got,
                           could |-> me.could, stays |-> me.stays]
    PROVE  you \in Memory /\ ReaderRight(bs, you)
<1>1. /\ me.slot \in 1..Slots /\ me.block \in Chain(bs, me.slot) /\ DOMAIN me.got = me.stays
      /\ \A n \in me.stays :
            /\ PlaceIn(bs, n) # 0
            /\ me.got[n] = IF Ahead(bs, me, n) THEN <<>> ELSE <<PlaceIn(bs, n)>>
  BY DEF ReaderRight, ListingRight
<1>2. File(bs) /\ Len(bs) \in Nat /\ \A s \in 1..Slots : s \in 1..Len(bs)
  BY HeadOf DEF Sound
<1>3. me.slot \in 1..Len(bs) /\ me.block \in 1..Len(bs) /\ Slots \in Nat
  <2>1. Chain(bs, me.slot) \subseteq 1..Len(bs)
    BY <1>1, <1>2, ChainHolds
  <2> QED
    BY <1>1, <1>2, <2>1, NameIndexAssumption
<1>4. me.stays \subseteq Names /\ me.got \in Gots /\ me.block <= Len(bs)
  BY DEF Memory, ReaderRight
<1>5. /\ bs[me.block].entries \in Seq(Entry) /\ next \in 0..Len(bs)
      /\ Once(bs[me.block].entries)
      /\ \A e \in ToSet(bs[me.block].entries) : Hash[e.name] = me.slot
  <2>1. Once(bs[me.block].entries) /\ \A e \in ToSet(bs[me.block].entries) : Hash[e.name] = me.slot
    BY <1>1 DEF Sound
  <2> QED
    BY <1>2, <1>3, <2>1, BlockFacts
<1>6. \A n \in Names : Hash[n] \in 1..Slots /\ PlaceIn(bs, n) \in Places \cup {0}
  BY <1>2, HeadOf, PlaceFacts
<1> DEFINE last == next = 0 /\ me.slot = Slots
<1>7. slot \in 1..Slots
  BY <1>1, <1>3
<1>8. pc \in {"list", "listed"} /\ (pc = "listed" <=> last)
  OBVIOUS
<1>9. block \in 1..Len(bs)
  BY <1>2, <1>5, <1>7, <1>8
<1> DEFINE After(n) == \/ Hash[n] > slot
                       \/ Hash[n] = slot /\ \E b \in Chain(bs, block) : Holds(bs, b, n)
<1>10. ASSUME NEW n \in me.stays, Holds(bs, me.block, n)
       PROVE  got[n] = <<PlaceIn(bs, n)>> /\ (~last => ~After(n))
  <2>1. PICK e \in ToSet(bs[me.block].entries) : e.name = n
    BY <1>10 DEF Holds
  <2>2. n \in Names /\ Hash[n] = me.slot
    BY <1>4, <1>5, <2>1
  <2>3. e.at = PlaceIn(bs, n)
    BY <1>1, <2>1, <2>2, PlaceFacts
  <2>4. PlacesOf(bs[me.block].entries, n) = <<PlaceIn(bs, n)>>
    BY <1>5, <2>1, <2>3, PlacesOfFacts
  <2>5. me.got[n] = <<>>
    <3>1. me.block \in Chain(bs, me.block)
      BY <1>2, <1>3, ChainHolds
    <3>2. Ahead(bs, me, n)
      BY <1>10, <2>2, <3>1 DEF Ahead
    <3> QED
      BY <1>1, <3>2
  <2>6. got[n] = <<PlaceIn(bs, n)>>
    <3>1. PlaceIn(bs, n) \in Places
      BY <1>1, <1>6, <2>2
    <3>2. <<PlaceIn(bs, n)>> \in Seq(Places)
      BY <3>1
    <3>3. got[n] = <<>> \o <<PlaceIn(bs, n)>>
      BY <2>4, <2>5
    <3> QED
      BY <3>2, <3>3, ConcatEmptySeq
  <2>7. CASE next # 0
    <3>1. slot = me.slot /\ block = next
      BY <1>8, <2>7
    <3>2. next > me.block
      BY <1>2, <1>3, <2>7 DEF File
    <3>3. ASSUME NEW b \in Chain(bs, block) PROVE ~Holds(bs, b, n)
      <4>1. b >= block
        BY <1>2, <1>9, ChainForward
      <4>2. b \in 1..Len(bs)
        BY <1>2, <1>9, ChainForward
      <4>3. b # me.block
        BY <1>2, <1>3, <1>9, <3>1, <3>2, <4>1, <4>2
      <4>4. Chain(bs, me.block) = {me.block} \cup Chain(bs, next)
        BY <1>2, <1>3, <2>7, ChainUnfolds
      <4>5. b \in Chain(bs, me.slot)
        BY <1>1, <1>2, <1>3, <3>1, <4>4, ChainForward
      <4> QED
        BY <1>1, <1>10, <2>2, <4>3, <4>5 DEF Sound
    <3>4. Hash[n] = slot
      BY <2>2, <3>1
    <3>5. ~(Hash[n] > slot)
      BY <1>7, <3>4
    <3> QED
      BY <2>6, <3>3, <3>5
  <2>8. CASE next = 0
    <3>1. ~last => slot = me.slot + 1
      BY <2>8
    <3>2. ~last => Hash[n] # slot /\ ~(Hash[n] > slot)
      BY <1>1, <1>3, <2>2, <3>1
    <3> QED
      BY <2>6, <3>2
  <2> QED
    BY <2>7, <2>8
<1>11. ASSUME NEW n \in me.stays, ~Holds(bs, me.block, n)
       PROVE  /\ got[n] = me.got[n]
              /\ ~last => (After(n) <=> Ahead(bs, me, n))
              /\ last => ~Ahead(bs, me, n)
  <2>1. got[n] = me.got[n]
    <3>1. PlacesOf(bs[me.block].entries, n) = <<>>
      BY <1>5, <1>11, PlacesOfFacts DEF Holds
    <3>2. me.got[n] \in Seq(Places)
      BY <1>1, <1>4, GotFacts
    <3>3. got[n] = me.got[n] \o <<>>
      BY <3>1
    <3> QED
      BY <3>2, <3>3, ConcatEmptySeq
  <2>2. n \in Names /\ Hash[n] \in 1..Slots
    BY <1>4, <1>6
  <2>3. CASE next # 0
    <3>1. slot = me.slot /\ block = next /\ ~last
      BY <1>8, <2>3
    <3>2. Chain(bs, me.block) = {me.block} \cup Chain(bs, block)
      BY <1>2, <1>3, <2>3, <3>1, ChainUnfolds
    <3>3. After(n) <=> Ahead(bs, me, n)
      BY <1>11, <3>1, <3>2 DEF Ahead
    <3> QED
      BY <2>1, <3>1, <3>3
  <2>4. CASE next = 0
    <3>1. Chain(bs, me.block) = {me.block}
      <4>1. bs[me.block].next = 0
        BY <2>4
      <4> QED
        BY <1>2, <1>3, <4>1, ChainUnfolds, Zenon
    <3>2. Ahead(bs, me, n) <=> Hash[n] > me.slot
      BY <1>11, <3>1 DEF Ahead
    <3>3. CASE last
      <4>1. ~(Hash[n] > me.slot)
        BY <1>3, <2>2, <3>3
      <4> QED
        BY <2>1, <3>2, <3>3, <4>1
    <3>4. CASE ~last
      <4>1. slot = me.slot + 1 /\ block = slot
        BY <1>8, <2>4, <3>4
      <4>2. \E b \in Chain(bs, Hash[n]) : Holds(bs, b, n)
        BY <1>1, <2>2, PlaceFacts
      <4>3. After(n) <=> Hash[n] > slot \/ Hash[n] = slot
        BY <4>1, <4>2
      <4>4. Hash[n] > slot \/ Hash[n] = slot <=> Hash[n] > me.slot
        BY <1>1, <1>3, <2>2, <4>1
      <4> QED
        BY <2>1, <3>2, <3>4, <4>3, <4>4
    <3> QED
      BY <3>3, <3>4
  <2> QED
    BY <2>3, <2>4
<1>12. got \in Gots /\ DOMAIN got = me.stays
  <2>1. \A n \in me.stays : me.got[n] \in Seq(Places)
    BY <1>1, <1>4, GotFacts
  <2>2. ASSUME NEW n \in me.stays PROVE <<PlaceIn(bs, n)>> \in Seq(Places)
    <3>1. PlaceIn(bs, n) \in Places
      BY <1>1, <1>4, <1>6
    <3> QED
      BY <3>1
  <2>3. \A n \in me.stays : got[n] \in Seq(Places)
    BY <1>10, <1>11, <2>1, <2>2
  <2>4. DOMAIN got = me.stays
    OBVIOUS
  <2>5. got = [n \in me.stays |-> got[n]]
    OBVIOUS
  <2> HIDE DEF After
  <2>6. got \in [me.stays -> Seq(Places)]
    BY <2>3, <2>5
  <2> QED
    BY <1>4, <2>4, <2>6, GotFacts
<1>13. /\ you \in Memory /\ you.pc = pc /\ you.block = block
       /\ you.slot = slot /\ you.got = got /\ you.stays = me.stays
  <2>1. block \in Nat /\ slot \in 0..Slots
    BY <1>2, <1>3, <1>7, <1>9
  <2> QED
    BY <1>8, <1>12, <2>1 DEF Memory
<1>14. you.block <= Len(bs)
  BY <1>2, <1>9, <1>13
<1>15. CASE last
  <2>1. \A n \in me.stays : got[n] = <<PlaceIn(bs, n)>> /\ PlaceIn(bs, n) # 0
    BY <1>1, <1>10, <1>11, <1>15
  <2>2. ListedRight(bs, you)
    BY <1>12, <1>13, <2>1 DEF ListedRight
  <2>3. you.pc = "listed"
    BY <1>8, <1>13, <1>15
  <2> QED
    BY <1>13, <1>14, <2>2, <2>3 DEF ReaderRight
<1>16. CASE ~last
  <2>1. block \in Chain(bs, slot)
    <3>1. CASE next # 0
      <4>1. slot = me.slot /\ block = next
        BY <1>8, <3>1
      <4>2. Chain(bs, me.block) = {me.block} \cup Chain(bs, next) /\ next \in Chain(bs, next)
        BY <1>2, <1>3, <1>9, <3>1, <4>1, ChainUnfolds, ChainHolds
      <4> QED
        BY <1>1, <1>2, <1>3, <4>1, <4>2, ChainForward
    <3>2. CASE next = 0
      BY <1>2, <1>8, <1>9, <3>2, ChainHolds
    <3> QED
      BY <3>1, <3>2
  <2>2. ASSUME NEW n \in me.stays
        PROVE  /\ PlaceIn(bs, n) # 0
               /\ got[n] = IF After(n) THEN <<>> ELSE <<PlaceIn(bs, n)>>
    BY <1>1, <1>10, <1>11, <1>16
  <2>3. \A n : After(n) <=> Ahead(bs, you, n)
    BY <1>13 DEF Ahead
  <2> HIDE DEF After
  <2>4. ListingRight(bs, you)
    BY <1>7, <1>12, <1>13, <2>1, <2>2, <2>3 DEF ListingRight
  <2>5. you.pc = "list"
    BY <1>8, <1>13, <1>16
  <2> QED
    BY <1>13, <1>14, <2>4, <2>5 DEF ReaderRight
<1> QED
  BY <1>15, <1>16

-----------------------------------------------------------------------------
\* Writers change the file so that the readers stay right.
LEMMA AddChanges ==
    ASSUME IndexInv, NEW p, NEW n \in Names, NEW at \in Places, AddToBlock(p, n, at)
    PROVE  Changes(blocks, blocks', {n})
<1>1. PICK i \in FirstOf(Roomy(n)) :
          blocks' = [blocks EXCEPT ![i].entries = Append(@, [name |-> n, at |-> at])]
  BY DEF AddToBlock
<1>2. /\ Sound(blocks) /\ File(blocks) /\ Hash[n] \in 1..Slots /\ Hash[n] \in 1..Len(blocks)
      /\ i \in Chain(blocks, Hash[n])
  BY <1>1, HeadOf DEF IndexInv, Sound, FirstOf, Roomy
<1>3. \A j \in Chain(blocks, Hash[n]) : ~Holds(blocks, j, n)
  BY DEF AddToBlock, Missing
<1>4. PICK x : x = [name |-> n, at |-> at]
  OBVIOUS
<1>5. x \in Entry /\ x.name = n
  BY <1>4 DEF Entry
<1>6. i \in 1..Len(blocks)
  BY <1>2, ChainHolds
<1>7. blocks[i].entries \in Seq(Entry) /\ Once(blocks[i].entries)
  BY <1>2, <1>6, BlockFacts DEF Sound
<1>8. ~ \E e \in ToSet(blocks[i].entries) : e.name = x.name
  BY <1>2, <1>3, <1>5 DEF Holds
<1>9. PICK entries : entries = Append(blocks[i].entries, x)
  OBVIOUS
<1>10. /\ entries \in Seq(Entry) /\ Once(entries)
       /\ ToSet(entries) = ToSet(blocks[i].entries) \cup {x}
  BY <1>5, <1>7, <1>8, <1>9, EntryAppended
<1>11. blocks' = [blocks EXCEPT ![i].entries = entries]
  BY <1>1, <1>4, <1>9
<1>12. \A e : e.name # n => (e \in ToSet(entries) <=> e \in ToSet(blocks[i].entries))
  BY <1>5, <1>10
<1>13. (PlaceIn(blocks, n) = 0) = (\E e \in ToSet(entries) : e.name = n)
  <2>1. PlaceIn(blocks, n) = 0
    BY <1>2, <1>3, PlaceFacts
  <2>2. \E e \in ToSet(entries) : e.name = n
    BY <1>5, <1>10
  <2> QED
    BY <2>1, <2>2
<1> QED
  BY <1>2, <1>3, <1>10, <1>11, <1>12, <1>13, Rewritten

LEMMA DeleteChanges ==
    ASSUME IndexInv, NEW p, NEW n \in Names, Delete(p, n)
    PROVE  Changes(blocks, blocks', {n})
<1>1. PICK i \in FirstOf({j \in Chain(blocks, Hash[n]) : Holds(blocks, j, n)}) :
          blocks' = [blocks EXCEPT ![i].entries =
                        RemoveAt(@, SelectInSeq(@, LAMBDA e : e.name = n))]
  BY DEF Delete
<1>2. /\ Sound(blocks) /\ File(blocks) /\ Hash[n] \in 1..Slots /\ Hash[n] \in 1..Len(blocks)
      /\ i \in Chain(blocks, Hash[n]) /\ Holds(blocks, i, n)
  BY <1>1, HeadOf DEF IndexInv, Sound, FirstOf
<1>3. i \in 1..Len(blocks)
  BY <1>2, ChainHolds
<1>4. PICK old : old = blocks[i].entries
  OBVIOUS
<1>5. old \in Seq(Entry) /\ Once(old) /\ DOMAIN old = 1..Len(old) /\ Len(old) \in Nat
  <2>1. old \in Seq(Entry) /\ Once(old)
    BY <1>2, <1>3, <1>4, BlockFacts DEF Sound
  <2> QED
    BY <2>1, LenProperties
<1>6. PICK k : k = SelectInSeq(old, LAMBDA e : e.name = n)
  OBVIOUS
<1>7. k \in 1..Len(old) /\ old[k].name = n
  <2> DEFINE I == {j \in 1..Len(old) : old[j].name = n}
  <2>1. I # {}
    BY <1>2, <1>4, <1>5 DEF Holds, ToSet
  <2>2. k = Min(I)
    BY <1>6, <2>1 DEF SelectInSeq
  <2>3. Min(I) \in I
    BY <1>5, <2>1, SearchFacts
  <2> QED
    BY <2>2, <2>3
<1>8. PICK entries : entries = RemoveAt(old, k)
  OBVIOUS
<1>9. entries \in Seq(Entry) /\ Once(entries) /\ ToSet(entries) = ToSet(old) \ {old[k]}
  BY <1>5, <1>7, <1>8, EntryRemoved
<1>10. blocks' = [blocks EXCEPT ![i].entries = entries]
  BY <1>1, <1>4, <1>6, <1>8
<1>11. \A e : e.name # n => (e \in ToSet(entries) <=> e \in ToSet(blocks[i].entries))
  BY <1>4, <1>7, <1>9
<1>12. \A j \in Chain(blocks, Hash[n]) : j # i => ~Holds(blocks, j, n)
  BY <1>2 DEF Sound
<1>13. (PlaceIn(blocks, n) = 0) = (\E e \in ToSet(entries) : e.name = n)
  <2>1. PlaceIn(blocks, n) # 0
    BY <1>2, PlaceFacts
  <2>2. ASSUME NEW e \in ToSet(entries), e.name = n PROVE FALSE
    <3>1. PICK j \in DOMAIN old : old[j] = e /\ e # old[k]
      BY <1>9 DEF ToSet
    <3>2. j = k
      BY <1>5, <1>7, <2>2, <3>1 DEF Once
    <3> QED
      BY <3>1, <3>2
  <2> QED
    BY <2>1, <2>2
<1> QED
  BY <1>2, <1>9, <1>10, <1>11, <1>12, <1>13, Rewritten

LEMMA AddBlockChanges ==
    ASSUME IndexInv, NEW p, NEW n \in Names, NEW at \in Places, AddBlock(p, n, at)
    PROVE  /\ Changes(blocks, blocks', {})
           /\ \E last \in 1..Len(blocks) :
                 /\ Observe(p, [Idle EXCEPT !.pc = "link", !.block = last])
                 /\ LinkRight(blocks', last)
<1>1. PICK last \in Chain(blocks, Hash[n]) :
          /\ blocks[last].next = 0
          /\ Observe(p, [Idle EXCEPT !.pc = "link", !.block = last])
  BY DEF AddBlock
<1>2. PICK x : x = [name |-> n, at |-> at]
  OBVIOUS
<1>3. x \in Entry
  BY <1>2 DEF Entry
<1>4. blocks' = Append(blocks, NewBlock(<<x>>))
  BY <1>2 DEF AddBlock
<1>5. /\ Sound(blocks) /\ File(blocks) /\ Hash[n] \in 1..Slots /\ Hash[n] \in 1..Len(blocks)
      /\ Len(blocks) \in Nat /\ Slots \in Nat /\ Slots <= Len(blocks)
      /\ \A s \in 1..Slots : s \in 1..Len(blocks)
  BY HeadOf, NameIndexAssumption DEF IndexInv, Sound, File
<1>6. /\ Changes(blocks, blocks', {}) /\ Len(blocks') = Len(blocks) + 1
      /\ blocks'[Len(blocks')] = NewBlock(<<x>>)
      /\ \A i \in 1..Len(blocks) : blocks'[i] = blocks[i]
      /\ \A i \in 1..Len(blocks) : Chain(blocks', i) = Chain(blocks, i)
  BY <1>3, <1>4, <1>5, Appended
<1>7. \A s \in 1..Slots : Chain(blocks, s) \subseteq 1..Len(blocks) /\ Chain(blocks', s) = Chain(blocks, s)
  BY <1>5, <1>6, ChainHolds
<1>8. last \in 1..Len(blocks) /\ last \in Chain(blocks', Hash[n]) /\ blocks'[last].next = 0
  BY <1>1, <1>5, <1>6, <1>7
<1>9. \A i \in Chain(blocks', Hash[n]) : ~Holds(blocks', i, n)
  <2>1. \A i \in Chain(blocks, Hash[n]) : ~Holds(blocks, i, n)
    BY DEF AddBlock, Missing
  <2> QED
    BY <1>5, <1>6, <1>7, <2>1 DEF Holds
<1>10. \A s \in 1..Slots : Len(blocks') \notin Chain(blocks', s)
  BY <1>5, <1>6, <1>7
<1>11. Len(blocks') > Slots /\ Len(blocks') > last
  BY <1>5, <1>6, <1>8
<1>12. LinkRight(blocks', last)
  BY <1>2, <1>6, <1>8, <1>9, <1>10, <1>11 DEF LinkRight
<1> QED
  BY <1>1, <1>6, <1>8, <1>12

LEMMA LinkChanges ==
    ASSUME IndexInv, NEW p \in Procs, LinkBlock(p)
    PROVE  \E n \in Names : Changes(blocks, blocks', {n})
<1>1. Sound(blocks) /\ LinkRight(blocks, loc[p].block)
  BY DEF IndexInv, LinkBlock
<1>2. blocks' = Linked(blocks, loc[p].block, Len(blocks))
  BY DEF LinkBlock
<1> QED
  BY <1>1, <1>2, LinkedIn

\* While a change is made each other request goes on with what it has seen.
LEMMA ReadersObserve ==
    ASSUME IndexInv, NEW N, Changes(blocks, blocks', N), NEW p \in Procs,
           loc[p].pc \in {"idle", "link"},
           NEW mine \in Memory, Observe(p, mine), ReaderRight(blocks', mine)
    PROVE  /\ Sound(blocks') /\ loc' \in [Procs -> Memory]
           /\ \A q \in Procs : ReaderRight(blocks', loc'[q])
           /\ \A q \in Procs : q # p => loc'[q].pc = loc[q].pc /\ loc'[q].block = loc[q].block
           /\ loc'[p] = mine
<1>1. ASSUME NEW q \in Procs, q # p
      PROVE  loc'[q] = Seen(blocks, blocks', loc[q])
  <2>1. loc[q].pc = "look" => loc[q].stays = {}
    BY DEF IndexInv, ReaderRight
  <2>2. CASE loc[q].pc = "look"
    BY <1>1, <2>1, <2>2 DEF Observe, Seen, At
  <2>3. CASE loc[q].pc # "look" /\ loc[q].stays # {}
    BY <1>1, <2>3 DEF Observe, Seen, At
  <2>4. CASE loc[q].pc # "look" /\ loc[q].stays = {}
    BY <1>1, <2>4 DEF Observe, Seen, At
  <2> QED
    BY <2>2, <2>3, <2>4
<1>2. loc'[p] = mine
  <2>1. loc[p].pc # "look" /\ loc[p].stays = {}
    BY DEF IndexInv, ReaderRight
  <2> QED
    BY <2>1 DEF Observe, At
<1>3. ASSUME NEW q \in Procs
      PROVE  /\ loc'[q] \in Memory /\ ReaderRight(blocks', loc'[q])
             /\ q # p => loc'[q].pc = loc[q].pc /\ loc'[q].block = loc[q].block
  <2>1. loc[q] \in Memory /\ ReaderRight(blocks, loc[q])
    BY DEF IndexInv
  <2> QED
    BY <1>1, <1>2, <2>1, StillRight
<1>4. loc' \in [Procs -> Memory]
  BY <1>3, Zenon DEF Observe
<1> QED
  BY <1>2, <1>3, <1>4 DEF Changes

LEMMA IdleFacts ==
    /\ Idle \in Memory /\ Idle.pc = "idle"
    /\ \A bs : Len(bs) \in Nat => ReaderRight(bs, Idle)
    /\ \A i \in Nat : LET link == [Idle EXCEPT !.pc = "link", !.block = i]
                     IN  /\ link \in Memory /\ link.pc = "link" /\ link.block = i
                         /\ \A bs : i <= Len(bs) => ReaderRight(bs, link)
<1>1. <<>> \in Gots
  <2>1. <<>> \in [{} -> Seq(Places)]
    OBVIOUS
  <2> QED
    BY <2>1, GotFacts
<1>2. Slots \in Nat
  BY NameIndexAssumption
<1>3. Idle \in Memory /\ Idle.pc = "idle" /\ Idle.block = 0 /\ Idle.stays = {}
  BY <1>1, <1>2 DEF Idle, Memory
<1>4. ASSUME NEW i \in Nat, NEW link, link = [Idle EXCEPT !.pc = "link", !.block = i]
      PROVE  link \in Memory /\ link.pc = "link" /\ link.block = i /\ link.stays = {}
  BY <1>3, <1>4 DEF Memory
<1>5. \A bs : Len(bs) \in Nat => ReaderRight(bs, Idle)
  BY <1>3 DEF ReaderRight
<1>6. \A i \in Nat : LET link == [Idle EXCEPT !.pc = "link", !.block = i]
                   IN  \A bs : i <= Len(bs) => ReaderRight(bs, link)
  BY <1>4 DEF ReaderRight
<1> QED
  BY <1>3, <1>4, <1>5, <1>6

\* The invariant after a step of a writer, and after one of a reader.
LEMMA WriterKeeps ==
    ASSUME IndexInv, NEW N, Changes(blocks, blocks', N), NEW p \in Writers,
           loc[p].pc \in {"idle", "link"},
           \A q \in Procs : q # p => loc[q].pc # "link",
           NEW mine \in Memory, Observe(p, mine), ReaderRight(blocks', mine),
           \/ lock' = None /\ mine.pc # "link"
           \/ lock' = p /\ mine.pc = "link" /\ LinkRight(blocks', mine.block)
    PROVE  IndexInv'
<1>1. p \in Procs /\ None \notin Writers
  BY NameIndexAssumption DEF Procs
<1>2. /\ Sound(blocks') /\ loc' \in [Procs -> Memory]
      /\ \A q \in Procs : ReaderRight(blocks', loc'[q])
      /\ \A q \in Procs : q # p => loc'[q].pc = loc[q].pc
      /\ loc'[p] = mine
  BY <1>1, ReadersObserve
<1>3. \A q \in Procs : loc'[q].pc = "link" <=> q \in Writers /\ lock' = q
  BY <1>1, <1>2
<1>4. \A q \in Procs : loc'[q].pc = "link" => LinkRight(blocks', loc'[q].block)
  BY <1>1, <1>2
<1> QED
  BY <1>1, <1>2, <1>3, <1>4 DEF IndexInv, At

LEMMA ReaderKeeps ==
    ASSUME IndexInv, NEW p \in Readers, NEW you \in Memory, ReaderRight(blocks, you),
           you.pc # "link", loc' = [loc EXCEPT ![p] = you], UNCHANGED <<blocks, lock>>
    PROVE  IndexInv'
<1>1. p \in Procs /\ p \notin Writers
  BY NameIndexAssumption DEF Procs
<1>2. /\ loc \in [Procs -> Memory] /\ \A q \in Procs : ReaderRight(blocks, loc[q])
      /\ Sound(blocks) /\ lock \in Writers \cup {None}
      /\ \A q \in Procs : loc[q].pc = "link" <=> q \in Writers /\ lock = q
      /\ \A q \in Procs : loc[q].pc = "link" => LinkRight(blocks, loc[q].block)
  BY DEF IndexInv, At
<1>3. loc' \in [Procs -> Memory] /\ loc'[p] = you /\ \A q \in Procs : q # p => loc'[q] = loc[q]
  BY <1>1, <1>2
<1>4. \A q \in Procs : /\ ReaderRight(blocks', loc'[q])
                       /\ loc'[q].pc = "link" <=> q \in Writers /\ lock' = q
                       /\ loc'[q].pc = "link" => LinkRight(blocks', loc'[q].block)
  BY <1>1, <1>2, <1>3
<1> QED
  BY <1>2, <1>3, <1>4 DEF IndexInv, At

LEMMA IndexStarts == Init => IndexInv
<1> SUFFICES ASSUME Init PROVE IndexInv
  OBVIOUS
<1>1. Slots \in Nat /\ \A n \in Names : Hash[n] \in 1..Slots
  BY NameIndexAssumption
<1>2. NewBlock(<<>>) \in Block /\ NewBlock(<<>>).next = 0 /\ NewBlock(<<>>).entries = <<>>
  BY DEF NewBlock, Block
<1>3. /\ blocks \in Seq(Block) /\ Len(blocks) = Slots
      /\ \A i \in 1..Len(blocks) : blocks[i].next = 0 /\ blocks[i].entries = <<>>
  BY <1>1, <1>2 DEF Init
<1>4. File(blocks)
  BY <1>1, <1>3 DEF File
<1>5. \A i \in 1..Slots : Chain(blocks, i) = {i}
  BY <1>3, <1>4, ChainUnfolds
<1>6. Once(<<>>) /\ ToSet(<<>>) = {}
  BY DEF Once, ToSet
<1>7. \A s \in 1..Slots : \A i \in Chain(blocks, s) : \A n \in Names : ~Holds(blocks, i, n)
  BY <1>3, <1>5, <1>6 DEF Holds
<1>8. Sound(blocks)
  <2>1. \A s, t \in 1..Slots : s # t => Chain(blocks, s) \cap Chain(blocks, t) = {}
    BY <1>5
  <2>2. \A s \in 1..Slots : \A i \in Chain(blocks, s) :
            /\ Once(blocks[i].entries)
            /\ \A e \in ToSet(blocks[i].entries) : Hash[e.name] = s
    BY <1>3, <1>5, <1>6
  <2> QED
    BY <1>4, <1>7, <2>1, <2>2 DEF Sound
<1>9. loc \in [Procs -> Memory] /\ \A p \in Procs : loc[p] = Idle
  BY IdleFacts DEF Init
<1>10. \A p \in Procs : ReaderRight(blocks, loc[p]) /\ loc[p].pc # "link"
  BY <1>1, <1>3, <1>9, IdleFacts
<1>11. lock = None /\ None \notin Writers
  BY NameIndexAssumption DEF Init
<1> QED
  BY <1>8, <1>9, <1>10, <1>11 DEF IndexInv, At

\* Only one writer at a time.
LEMMA NobodyLinks ==
    ASSUME IndexInv, lock = None
    PROVE  \A q \in Procs : loc[q].pc # "link"
BY NameIndexAssumption DEF IndexInv, At

LEMMA IndexKept == IndexInv /\ [Next]_vars => IndexInv'
<1> SUFFICES ASSUME IndexInv, [Next]_vars PROVE IndexInv'
  OBVIOUS
<1> USE DEF At
<1>1. /\ Sound(blocks) /\ File(blocks) /\ Len(blocks) \in Nat
      /\ loc \in [Procs -> Memory] /\ \A q \in Procs : ReaderRight(blocks, loc[q])
      /\ Writers \subseteq Procs /\ Readers \subseteq Procs
  BY HeadOf DEF IndexInv, Sound, Procs
<1>2. ASSUME NEW p \in Writers, NEW n \in Names, NEW at \in Places, AddToBlock(p, n, at)
      PROVE  IndexInv'
  <2>1. Changes(blocks, blocks', {n})
    BY <1>2, AddChanges
  <2>2. Observe(p, Idle) /\ lock = None /\ lock' = None /\ loc[p].pc = "idle"
    BY <1>2 DEF AddToBlock
  <2>3. Len(blocks') \in Nat
    BY <2>1, HeadOf DEF Changes, Sound
  <2>4. Idle \in Memory /\ ReaderRight(blocks', Idle) /\ Idle.pc # "link"
    BY <2>3, IdleFacts
  <2>5. \A q \in Procs : loc[q].pc # "link"
    BY <2>2, NobodyLinks
  <2> QED
    BY <2>1, <2>2, <2>4, <2>5, WriterKeeps
<1>3. ASSUME NEW p \in Writers, NEW n \in Names, NEW at \in Places, AddBlock(p, n, at)
      PROVE  IndexInv'
  <2>1. Changes(blocks, blocks', {})
    BY <1>3, AddBlockChanges
  <2>2. lock = None /\ lock' = p /\ loc[p].pc = "idle"
    BY <1>3 DEF AddBlock
  <2>3. PICK last \in 1..Len(blocks) :
            /\ Observe(p, [Idle EXCEPT !.pc = "link", !.block = last])
            /\ LinkRight(blocks', last)
    BY <1>3, AddBlockChanges
  <2>4. PICK mine : mine = [Idle EXCEPT !.pc = "link", !.block = last]
    OBVIOUS
  <2>5. Len(blocks') \in Nat /\ last \in Nat /\ last <= Len(blocks')
    <3>1. Len(blocks') \in Nat /\ Len(blocks) <= Len(blocks')
      BY <2>1, HeadOf DEF Changes, Sound
    <3> QED
      BY <1>1, <3>1
  <2>6. mine \in Memory /\ mine.pc = "link" /\ mine.block = last /\ ReaderRight(blocks', mine)
    BY <2>4, <2>5, IdleFacts
  <2>7. \A q \in Procs : loc[q].pc # "link"
    BY <2>2, NobodyLinks
  <2>8. Observe(p, mine)
    BY <2>3, <2>4
  <2>9. LinkRight(blocks', mine.block)
    BY <2>3, <2>6
  <2> QED
    BY <2>1, <2>2, <2>6, <2>7, <2>8, <2>9, WriterKeeps
<1>4. ASSUME NEW p \in Writers, NEW n \in Names, Delete(p, n)
      PROVE  IndexInv'
  <2>1. Changes(blocks, blocks', {n})
    BY <1>4, DeleteChanges
  <2>2. Observe(p, Idle) /\ lock = None /\ lock' = None /\ loc[p].pc = "idle"
    BY <1>4 DEF Delete
  <2>3. Len(blocks') \in Nat
    BY <2>1, HeadOf DEF Changes, Sound
  <2>4. Idle \in Memory /\ ReaderRight(blocks', Idle) /\ Idle.pc # "link"
    BY <2>3, IdleFacts
  <2>5. \A q \in Procs : loc[q].pc # "link"
    BY <2>2, NobodyLinks
  <2> QED
    BY <2>1, <2>2, <2>4, <2>5, WriterKeeps
<1>5. ASSUME NEW p \in Writers, LinkBlock(p)
      PROVE  IndexInv'
  <2>1. PICK n \in Names : Changes(blocks, blocks', {n})
    BY <1>1, <1>5, LinkChanges
  <2>2. Observe(p, Idle) /\ lock' = None /\ loc[p].pc = "link"
    BY <1>5 DEF LinkBlock
  <2>3. Len(blocks') \in Nat
    BY <2>1, HeadOf DEF Changes, Sound
  <2>4. Idle \in Memory /\ ReaderRight(blocks', Idle) /\ Idle.pc # "link"
    BY <2>3, IdleFacts
  <2>5. \A q \in Procs : q # p => loc[q].pc # "link"
    BY <1>1, <2>2 DEF IndexInv
  <2> QED
    BY <2>1, <2>2, <2>4, <2>5, WriterKeeps
<1>6. ASSUME NEW p \in Writers, Die(p)
      PROVE  IndexInv'
  <2>1. loc[p].pc = "link" /\ lock' = None /\ blocks' = blocks /\ loc' = [loc EXCEPT ![p] = Idle]
    BY <1>6 DEF Die
  <2>2. p \in Procs /\ \A q \in Procs : q # p => loc[q].pc # "link"
    BY <1>1, <2>1 DEF IndexInv
  <2>3. loc'[p] = Idle /\ \A q \in Procs : q # p => loc'[q] = loc[q]
    BY <1>1, <2>1, <2>2
  <2>4. loc' \in [Procs -> Memory]
    BY <1>1, <2>1, IdleFacts
  <2>5. \A q \in Procs : ReaderRight(blocks', loc'[q]) /\ loc'[q].pc # "link"
    BY <1>1, <2>1, <2>2, <2>3, IdleFacts
  <2> QED
    BY <1>1, <2>1, <2>4, <2>5, NameIndexAssumption DEF IndexInv
<1>7. ASSUME NEW p \in Readers, NEW n \in Names, BeginLookUp(p, n)
      PROVE  IndexInv'
  <2>1. PICK you : you = [pc |-> "look", block |-> Hash[n], slot |-> Hash[n],
                          got |-> [m \in {n} |-> <<>>], could |-> {PlaceIn(blocks, n)},
                          stays |-> {}]
    OBVIOUS
  <2>2. loc' = [loc EXCEPT ![p] = you] /\ UNCHANGED <<blocks, lock>>
    BY <1>7, <2>1 DEF BeginLookUp
  <2>3. Hash[n] \in 1..Slots /\ Hash[n] \in 1..Len(blocks) /\ Slots \in Nat
    BY <1>1, HeadOf, NameIndexAssumption
  <2>4. PlaceIn(blocks, n) \in Places \cup {0}
    BY <1>1, PlaceFacts
  <2>5. [m \in {n} |-> <<>>] \in Gots
    <3>1. [m \in {n} |-> <<>>] \in [{n} -> Seq(Places)]
      OBVIOUS
    <3> QED
      BY <3>1, GotFacts
  <2>6. you \in Memory /\ you.pc = "look" /\ you.stays = {} /\ you.block = Hash[n]
    <3>1. Hash[n] \in Nat /\ Hash[n] \in 0..Slots
      BY <2>3
    <3> QED
      BY <2>1, <2>4, <2>5, <3>1 DEF Memory
  <2>7. LookingRight(blocks, you)
    <3>1. Hash[n] \in Chain(blocks, Hash[n])
      BY <1>1, <2>3, ChainHolds
    <3>2. PlaceIn(blocks, n) # 0 => \E b \in Chain(blocks, Hash[n]) : Holds(blocks, b, n)
      BY <1>1, PlaceFacts
    <3>3. /\ you.got = [m \in {n} |-> <<>>] /\ you.block = Hash[n]
          /\ you.could = {PlaceIn(blocks, n)}
      BY <2>1
    <3> QED
      BY <3>1, <3>2, <3>3 DEF LookingRight
  <2>8. you.block <= Len(blocks)
    BY <1>1, <2>3, <2>6
  <2>9. ReaderRight(blocks, you) /\ you.pc # "link"
    BY <2>6, <2>7, <2>8 DEF ReaderRight
  <2> QED
    BY <2>2, <2>6, <2>9, ReaderKeeps
<1>8. ASSUME NEW p \in Readers, LookUp(p)
      PROVE  IndexInv'
  <2>1. p \in Procs /\ loc[p] \in Memory /\ ReaderRight(blocks, loc[p]) /\ loc[p].pc = "look"
    BY <1>1, <1>8 DEF LookUp
  <2>2. UNCHANGED <<blocks, lock>>
    BY <1>8 DEF LookUp
  <2>3. PICK n \in DOMAIN loc[p].got :
          \/ \E e \in ToSet(blocks[loc[p].block].entries) :
                /\ e.name = n
                /\ loc' = [loc EXCEPT ![p].pc = "answered", ![p].got = [m \in {n} |-> <<e.at>>]]
          \/ /\ ~Holds(blocks, loc[p].block, n)
             /\ IF NextOf(loc[p].block) = 0
                THEN loc' = [loc EXCEPT ![p].pc = "answered"]
                ELSE loc' = [loc EXCEPT ![p].block = NextOf(loc[p].block)]
    BY <1>8 DEF LookUp
  <2>4. ASSUME NEW e \in ToSet(blocks[loc[p].block].entries), e.name = n,
               loc' = [loc EXCEPT ![p].pc = "answered", ![p].got = [m \in {n} |-> <<e.at>>]]
        PROVE  IndexInv'
    <3> DEFINE got == [m \in {n} |-> <<e.at>>]
               you == [loc[p] EXCEPT !.pc = "answered", !.got = got]
    <3>1. got \in [{n} -> {<<e.at>>}]
      OBVIOUS
    <3>2. loc' = [loc EXCEPT ![p] = you]
      BY <1>1, <2>1, <2>4
    <3> HIDE DEF got
    <3>3. you \in Memory /\ ReaderRight(blocks, you)
      BY <1>1, <2>1, <2>4, <3>1, LookStep
    <3>4. you.pc = "answered"
      BY <2>1 DEF Memory
    <3> HIDE DEF you
    <3> QED
      BY <2>2, <3>2, <3>3, <3>4, ReaderKeeps
  <2>5. ASSUME ~Holds(blocks, loc[p].block, n), blocks[loc[p].block].next = 0,
               loc' = [loc EXCEPT ![p].pc = "answered"]
        PROVE  IndexInv'
    <3>1. PICK you : you = [loc[p] EXCEPT !.pc = "answered"]
      OBVIOUS
    <3>2. you \in Memory /\ ReaderRight(blocks, you)
      BY <1>1, <2>1, <2>5, <3>1, LookStep
    <3>3. you.pc = "answered"
      BY <2>1, <3>1 DEF Memory
    <3>4. loc' = [loc EXCEPT ![p] = you]
      BY <1>1, <2>1, <2>5, <3>1
    <3> QED
      BY <2>2, <3>2, <3>3, <3>4, ReaderKeeps
  <2>6. ASSUME ~Holds(blocks, loc[p].block, n), blocks[loc[p].block].next # 0,
               loc' = [loc EXCEPT ![p].block = blocks[loc[p].block].next]
        PROVE  IndexInv'
    <3>1. PICK you : you = [loc[p] EXCEPT !.block = blocks[loc[p].block].next]
      OBVIOUS
    <3>2. you \in Memory /\ ReaderRight(blocks, you)
      BY <1>1, <2>1, <2>6, <3>1, LookStep
    <3>3. you.pc = "look"
      BY <2>1, <3>1 DEF Memory
    <3>4. loc' = [loc EXCEPT ![p] = you]
      BY <1>1, <2>1, <2>6, <3>1
    <3> QED
      BY <2>2, <3>2, <3>3, <3>4, ReaderKeeps
  <2> QED
    BY <2>3, <2>4, <2>5, <2>6 DEF NextOf
<1>9. ASSUME NEW p \in Readers, BeginList(p)
      PROVE  IndexInv'
  <2>1. PICK there : there = {n \in Names : PlaceIn(blocks, n) # 0}
    OBVIOUS
  <2>2. PICK you : you = [pc |-> "list", block |-> 1, slot |-> 1,
                          got |-> [n \in there |-> <<>>], could |-> {}, stays |-> there]
    OBVIOUS
  <2>3. loc' = [loc EXCEPT ![p] = you] /\ UNCHANGED <<blocks, lock>>
    BY <1>9, <2>1, <2>2 DEF BeginList
  <2>4. 1 \in 1..Slots /\ 1 \in 1..Len(blocks) /\ Slots \in Nat
    <3>1. Slots \in Nat \ {0}
      BY NameIndexAssumption
    <3>2. 1 \in 1..Slots
      BY <3>1
    <3> QED
      BY <1>1, <3>1, <3>2, HeadOf
  <2>5. [n \in there |-> <<>>] \in Gots
    <3>1. [n \in there |-> <<>>] \in [there -> Seq(Places)]
      OBVIOUS
    <3>2. there \in SUBSET Names
      BY <2>1
    <3> QED
      BY <3>1, <3>2, GotFacts
  <2>6. /\ you \in Memory /\ you.pc = "list" /\ you.stays = there /\ you.block = 1
        /\ you.slot = 1 /\ you.got = [n \in there |-> <<>>]
    <3>1. 1 \in 0..Slots /\ there \subseteq Names
      BY <2>1, <2>4
    <3> QED
      BY <2>2, <2>5, <3>1 DEF Memory
  <2>7. ASSUME NEW n \in there
        PROVE  Ahead(blocks, you, n) /\ PlaceIn(blocks, n) # 0
    <3>1. n \in Names /\ PlaceIn(blocks, n) # 0 /\ Hash[n] \in 1..Slots
      BY <1>1, <2>1, HeadOf
    <3>2. \E b \in Chain(blocks, Hash[n]) : Holds(blocks, b, n)
      BY <1>1, <3>1, PlaceFacts
    <3>3. Hash[n] > 1 \/ Hash[n] = 1
      BY <2>4, <3>1
    <3> QED
      BY <2>6, <3>1, <3>2, <3>3 DEF Ahead
  <2>8. ListingRight(blocks, you)
    <3>1. 1 \in Chain(blocks, 1)
      BY <1>1, <2>4, ChainHolds
    <3> QED
      BY <2>4, <2>6, <2>7, <3>1 DEF ListingRight
  <2>9. you.block <= Len(blocks)
    BY <1>1, <2>4, <2>6
  <2>10. ReaderRight(blocks, you) /\ you.pc # "link"
    BY <2>6, <2>8, <2>9 DEF ReaderRight
  <2> QED
    BY <2>3, <2>6, <2>10, ReaderKeeps
<1>10. ASSUME NEW p \in Readers, List(p)
       PROVE  IndexInv'
  <2>1. p \in Procs /\ loc[p] \in Memory /\ ReaderRight(blocks, loc[p]) /\ loc[p].pc = "list"
    BY <1>1, <1>10 DEF List
  <2>2. UNCHANGED <<blocks, lock>>
    BY <1>10 DEF List
  <2> DEFINE me == loc[p]
             next == blocks[me.block].next
             pc == IF next = 0 /\ me.slot = Slots THEN "listed" ELSE "list"
             slot == IF next = 0 /\ me.slot # Slots THEN me.slot + 1 ELSE me.slot
             block == IF next # 0 THEN next ELSE slot
             got == [n \in me.stays |-> me.got[n] \o PlacesOf(blocks[me.block].entries, n)]
             you == [me EXCEPT !.pc = pc, !.block = block, !.slot = slot, !.got = got]
  <2>3. loc' = [loc EXCEPT ![p] = you]
    BY <1>1, <1>10, <2>1 DEF List, NextOf
  <2>4. got \in [me.stays -> {got[n] : n \in me.stays}]
    OBVIOUS
  <2>5. \A n \in me.stays : got[n] = me.got[n] \o PlacesOf(blocks[me.block].entries, n)
    OBVIOUS
  <2>6. you \in Memory /\ ReaderRight(blocks, you)
    <3>1. PICK R : R = {got[n] : n \in me.stays}
      OBVIOUS
    <3>2. got \in [me.stays -> R]
      BY <2>4, <3>1
    <3>3. /\ next = blocks[me.block].next
          /\ pc = IF next = 0 /\ me.slot = Slots THEN "listed" ELSE "list"
          /\ slot = IF next = 0 /\ me.slot # Slots THEN me.slot + 1 ELSE me.slot
          /\ block = IF next # 0 THEN next ELSE slot
      OBVIOUS
    <3>4. me \in Memory /\ ReaderRight(blocks, me) /\ me.pc = "list" /\ Sound(blocks)
      BY <1>1, <2>1
    <3> HIDE DEF me, got, next, pc, slot, block
    <3>5. you = [pc |-> pc, block |-> block, slot |-> slot, got |-> got,
                 could |-> me.could, stays |-> me.stays]
      <4>1. PICK c1, c2, c3, c4, c5, c6 :
                me = [pc |-> c1, block |-> c2, slot |-> c3, got |-> c4, could |-> c5, stays |-> c6]
        BY <3>4 DEF Memory
      <4>2. PICK y1 : y1 = [me EXCEPT !.pc = pc]
        OBVIOUS
      <4>3. PICK y2 : y2 = [y1 EXCEPT !.block = block]
        OBVIOUS
      <4>4. PICK y3 : y3 = [y2 EXCEPT !.slot = slot]
        OBVIOUS
      <4>5. you = [y3 EXCEPT !.got = got]
        BY <4>2, <4>3, <4>4
      <4> HIDE DEF you
      <4>6. y1 = [pc |-> pc, block |-> c2, slot |-> c3, got |-> c4, could |-> c5, stays |-> c6]
        BY <4>1, <4>2
      <4>7. y2 = [pc |-> pc, block |-> block, slot |-> c3, got |-> c4, could |-> c5, stays |-> c6]
        BY <4>3, <4>6
      <4>8. y3 = [pc |-> pc, block |-> block, slot |-> slot, got |-> c4, could |-> c5, stays |-> c6]
        BY <4>4, <4>7
      <4>9. you =
                [pc |-> pc, block |-> block, slot |-> slot, got |-> got, could |-> c5, stays |-> c6]
        BY <4>5, <4>8
      <4> QED
        BY <4>1, <4>9
    <3> HIDE DEF you
    <3> QED
      BY ZenonT(40), <2>5, <3>2, <3>3, <3>4, <3>5, ListStep
  <2>7. you.pc # "link"
    <3> HIDE DEF got
    <3> QED
      BY <2>1 DEF Memory
  <2> HIDE DEF you
  <2> QED
    BY <2>2, <2>3, <2>6, <2>7, ReaderKeeps
<1>11. ASSUME NEW p \in Readers, End(p)
       PROVE  IndexInv'
  <2>1. loc' = [loc EXCEPT ![p] = Idle] /\ UNCHANGED <<blocks, lock>>
    BY <1>11 DEF End
  <2>2. Idle \in Memory /\ ReaderRight(blocks, Idle) /\ Idle.pc # "link"
    BY <1>1, IdleFacts
  <2> QED
    BY <2>1, <2>2, ReaderKeeps
<1>12. CASE UNCHANGED vars
  BY <1>12 DEF vars, IndexInv
<1> QED
  BY <1>2, <1>3, <1>4, <1>5, <1>6, <1>7, <1>8, <1>9, <1>10, <1>11, <1>12 DEF Next

LEMMA IndexHolds == Spec => []IndexInv
<1>1. Init => IndexInv
  BY IndexStarts
<1>2. IndexInv /\ [Next]_vars => IndexInv'
  BY IndexKept
<1> QED
  BY <1>1, <1>2, PTL DEF Spec

-----------------------------------------------------------------------------
\* However names come and go, the file keeps its shape: chains end, links lead to
\* blocks that are there, and every request keeps places and names in its memory.
THEOREM ShapeHolds == Spec => []TypeOK
<1>1. IndexInv => TypeOK
  <2> SUFFICES ASSUME IndexInv PROVE TypeOK
    OBVIOUS
  <2>1. /\ File(blocks) /\ loc \in [Procs -> Memory] /\ lock \in Writers \cup {None}
        /\ \A p \in Procs : ReaderRight(blocks, loc[p])
    BY DEF IndexInv, Sound
  <2>2. blocks \in Seq(Block) /\ Len(blocks) \in Nat /\ DOMAIN blocks = 1..Len(blocks)
        /\ Slots \in Nat /\ Slots <= Len(blocks)
    BY <2>1, NameIndexAssumption, LenProperties DEF File
  <2>3. blocks \in Seq([entries : Seq(Entry), next : 0..Len(blocks)])
    <3>1. ASSUME NEW i \in 1..Len(blocks)
          PROVE  blocks[i] \in [entries : Seq(Entry), next : 0..Len(blocks)]
      <4>1. /\ blocks[i] \in Block /\ blocks[i].entries \in Seq(Entry)
            /\ blocks[i].next \in 0..Len(blocks)
        BY <2>1, <2>2, BlockFacts
      <4> QED
        BY <4>1 DEF Block
    <3>2. PICK S : S = [entries : Seq(Entry), next : 0..Len(blocks)]
      OBVIOUS
    <3>3. blocks \in [1..Len(blocks) -> S]
      BY <2>2, <3>1, <3>2, LenProperties
    <3>4. blocks \in Seq(S)
      BY <2>2, <3>3
    <3> QED
      BY <3>2, <3>4
  <2>4. \A i \in DOMAIN blocks : blocks[i].next # 0 => blocks[i].next > i /\ blocks[i].next > Slots
    BY <2>1, <2>2 DEF File
  <2>5. ASSUME NEW p \in Procs
        PROVE  /\ loc[p].pc \in {"idle", "link", "look", "list", "answered", "listed"}
               /\ loc[p].block \in 0..Len(blocks) /\ loc[p].slot \in 0..Slots
               /\ DOMAIN loc[p].got \subseteq Names /\ loc[p].stays \subseteq Names
               /\ \A n \in DOMAIN loc[p].got : loc[p].got[n] \in Seq(Places)
               /\ loc[p].could \subseteq Places \cup {0}
    <3>1. loc[p] \in Memory /\ loc[p].block <= Len(blocks)
      BY <2>1 DEF ReaderRight
    <3>2. /\ loc[p].pc \in {"idle", "link", "look", "list", "answered", "listed"}
          /\ loc[p].block \in Nat /\ loc[p].slot \in 0..Slots /\ loc[p].got \in Gots
          /\ loc[p].stays \subseteq Names /\ loc[p].could \subseteq Places \cup {0}
      BY <3>1 DEF Memory
    <3>3. loc[p].block \in 0..Len(blocks)
      BY <2>2, <3>1, <3>2
    <3> QED
      BY <3>2, <3>3, GotFacts
  <2>6. lock \in Procs \cup {None}
    BY <2>1 DEF Procs
  <2> QED
    BY <2>2, <2>3, <2>4, <2>5, <2>6 DEF TypeOK
<1> QED
  BY <1>1, IndexHolds, PTL

\* GetIndexOfString answers with a place the name had, or with none when it had
\* none, at some moment of the search, and GenerateIndexList lists each name that
\* stays in the index once and with its place: neither takes the lock.
THEOREM NoLockNeeded == Spec => []ReadersRight
<1>1. IndexInv => ReadersRight
  <2> SUFFICES ASSUME IndexInv PROVE ReadersRight
    OBVIOUS
  <2>1. \A p \in Procs : ReaderRight(blocks, loc[p])
    BY DEF IndexInv
  <2>2. LookUpRight
    BY <2>1 DEF LookUpRight, ReaderRight, AnsweredRight, At
  <2>3. ListComplete
    BY <2>1 DEF ListComplete, ReaderRight, ListedRight, At
  <2> QED
    BY <2>2, <2>3 DEF ReadersRight
<1> QED
  BY <1>1, IndexHolds, PTL

\* AddStringToHashedIndex and DeleteStringFromHashedIndex bind and unbind one name
\* of a map and touch no other, also when a request is killed between writing a
\* new block and linking it.
THEOREM IndexIsMap == Spec => MapSpec
<1> DEFINE place == [n \in Names |-> PlaceIn(blocks, n)]
<1>1. Init => Map!MapInit
  <2> SUFFICES ASSUME Init PROVE Map!MapInit
    OBVIOUS
  <2>1. Sound(blocks) /\ File(blocks)
    BY IndexStarts DEF IndexInv, Sound
  <2>2. Len(blocks) = Slots /\ \A i \in 1..Slots : blocks[i].next = 0 /\ blocks[i].entries = <<>>
    BY NameIndexAssumption DEF Init, NewBlock
  <2>3. ASSUME NEW n \in Names PROVE PlaceIn(blocks, n) = 0
    <3>1. Hash[n] \in 1..Slots /\ Hash[n] \in 1..Len(blocks)
      BY <2>1, HeadOf
    <3>2. Chain(blocks, Hash[n]) = {Hash[n]}
      BY <2>1, <2>2, <3>1, ChainUnfolds
    <3>3. ~Holds(blocks, Hash[n], n)
      BY <2>2, <3>1 DEF Holds, ToSet
    <3> QED
      BY <2>1, <3>2, <3>3, PlaceFacts
  <2> QED
    BY <2>3 DEF Map!MapInit
<1>2. ASSUME IndexInv, NEW n \in Names, Changes(blocks, blocks', {n})
      PROVE  Map!MapNext
  <2>1. \A m \in Names : m # n => PlaceIn(blocks', m) = PlaceIn(blocks, m)
    BY <1>2, Untouched
  <2>2. /\ PlaceIn(blocks, n) \in Places \cup {0} /\ PlaceIn(blocks', n) \in Places \cup {0}
        /\ (PlaceIn(blocks, n) = 0) # (PlaceIn(blocks', n) = 0)
    BY <1>2, PlaceFacts DEF Changes
  <2>3. Map!OthersKept(n)
    BY <2>1 DEF Map!OthersKept
  <2>4. Map!Bind(n) \/ Map!Unbind(n)
    BY <2>2 DEF Map!Bind, Map!Unbind
  <2> QED
    BY <2>3, <2>4 DEF Map!MapNext
<1>3. ASSUME IndexInv, Changes(blocks, blocks', {})
      PROVE  place' = place
  <2>1. \A m \in Names : PlaceIn(blocks', m) = PlaceIn(blocks, m)
    BY <1>3, Untouched
  <2> QED
    BY <2>1
<1>4. IndexInv /\ [Next]_vars => [Map!MapNext]_place
  <2> SUFFICES ASSUME IndexInv, [Next]_vars PROVE Map!MapNext \/ place' = place
    OBVIOUS
  <2> HIDE DEF place
  <2>1. ASSUME NEW p \in Writers, NEW n \in Names, NEW at \in Places, AddToBlock(p, n, at)
        PROVE  Map!MapNext
    BY <1>2, <2>1, AddChanges
  <2>2. ASSUME NEW p \in Writers, NEW n \in Names, NEW at \in Places, AddBlock(p, n, at)
        PROVE  place' = place
    BY <1>3, <2>2, AddBlockChanges
  <2>3. ASSUME NEW p \in Writers, NEW n \in Names, Delete(p, n)
        PROVE  Map!MapNext
    BY <1>2, <2>3, DeleteChanges
  <2>4. ASSUME NEW p \in Writers, LinkBlock(p)
        PROVE  Map!MapNext
    <3>1. PICK n \in Names : Changes(blocks, blocks', {n})
      BY <2>4, LinkChanges DEF Procs
    <3> QED
      BY <1>2, <3>1
  <2>5. ASSUME blocks' = blocks PROVE place' = place
    BY <2>5 DEF place
  <2>6. ASSUME NEW p \in Writers, Die(p) PROVE blocks' = blocks
    BY <2>6 DEF Die
  <2>7. ASSUME NEW p \in Readers,
               \/ \E n \in Names : BeginLookUp(p, n)
               \/ LookUp(p) \/ BeginList(p) \/ List(p) \/ End(p)
        PROVE  blocks' = blocks
    BY <2>7 DEF BeginLookUp, LookUp, BeginList, List, End
  <2>8. ASSUME UNCHANGED vars PROVE blocks' = blocks
    BY <2>8 DEF vars
  <2> QED
    BY <2>1, <2>2, <2>3, <2>4, <2>5, <2>6, <2>7, <2>8 DEF Next
<1> QED
  BY <1>1, <1>4, IndexHolds, PTL DEF Spec, MapSpec, Map!MapSpec

-----------------------------------------------------------------------------
\* The running sum of what entries take.
Sums(f, entries) ==
    /\ f \in [0..Len(entries) -> Nat] /\ f[0] = 0
    /\ \A k \in 1..Len(entries) : f[k] = f[k - 1] + Size[entries[k].name]

LEMMA EntrySize ==
    ASSUME NEW entries \in Seq(Entry)
    PROVE  /\ Len(entries) \in Nat /\ DOMAIN entries = 1..Len(entries)
           /\ \A k \in 1..Len(entries) :
                 /\ entries[k] \in Entry /\ entries[k].name \in Names
                 /\ Size[entries[k].name] \in 1..(BlockSize - 1)
<1>1. Len(entries) \in Nat /\ DOMAIN entries = 1..Len(entries)
  BY LenProperties
<1>2. ASSUME NEW k \in 1..Len(entries)
      PROVE  /\ entries[k] \in Entry /\ entries[k].name \in Names
             /\ Size[entries[k].name] \in 1..(BlockSize - 1)
  <2>1. entries[k] \in Entry
    BY ElementOfSeq
  <2>2. entries[k].name \in Names
    BY <2>1 DEF Entry
  <2> QED
    BY <2>1, <2>2, NameIndexAssumption
<1> QED
  BY <1>1, <1>2

LEMMA SumsThere ==
    ASSUME NEW entries \in Seq(Entry)
    PROVE  \E f : Sums(f, entries)
<1> DEFINE n == Len(entries)
           part(f, m) == /\ f \in [0..m -> Nat] /\ f[0] = 0
                         /\ \A k \in 1..m : f[k] = f[k - 1] + Size[entries[k].name]
           T == {m \in 0..n : ~ \E f : part(f, m)}
<1>1. n \in Nat /\ \A k \in 1..n : Size[entries[k].name] \in Nat
  <2>1. BlockSize \in Nat
    BY NameIndexAssumption
  <2> QED
    BY <2>1, EntrySize
<1>2. SUFFICES ASSUME T # {} PROVE FALSE
  BY <1>1 DEF Sums
<1>3. PICK m \in T : \A y \in T : m <= y
  <2>1. T \in SUBSET Nat
    BY <1>1
  <2> HIDE DEF T
  <2> QED
    BY <1>2, <2>1, HasLeast
<1>4. m # 0
  <2>1. part([k \in 0..0 |-> 0], 0)
    OBVIOUS
  <2> QED
    BY <1>3, <2>1
<1>5. m - 1 \in 0..n /\ m - 1 \notin T /\ m \in 1..n
  <2>1. m - 1 \in 0..n /\ m \in 1..n /\ ~(m <= m - 1)
    BY <1>1, <1>3, <1>4
  <2> HIDE DEF T
  <2> QED
    BY <1>3, <2>1
<1>6. PICK f : part(f, m - 1)
  BY <1>5
<1> DEFINE g == [k \in 0..m |-> IF k = m THEN f[m - 1] + Size[entries[m].name] ELSE f[k]]
<1>7. g \in [0..m -> Nat]
  BY <1>1, <1>5, <1>6
<1>8. g[0] = 0
  BY <1>5, <1>6
<1>9. ASSUME NEW k \in 1..m PROVE g[k] = g[k - 1] + Size[entries[k].name]
  BY <1>5, <1>6
<1>10. part(g, m)
  BY <1>7, <1>8, <1>9
<1> QED
  BY <1>3, <1>10

\* What LengthOf stands for.
LEMMA LengthIs ==
    ASSUME NEW entries \in Seq(Entry)
    PROVE  \E f : Sums(f, entries) /\ LengthOf(entries) = f[Len(entries)]
<1> DEFINE n == Len(entries)
           step(f) == [k \in 0..n |-> IF k = 0 THEN 0 ELSE f[k - 1] + Size[entries[k].name]]
           upTo == CHOOSE f : f = step(f)
<1>1. n \in Nat
  BY EntrySize
<1>2. PICK f : Sums(f, entries)
  BY SumsThere
<1>3. f = step(f)
  BY <1>1, <1>2 DEF Sums
<1>4. upTo = step(upTo)
  BY <1>3
<1>5. LengthOf(entries) = upTo[n]
  BY DEF LengthOf
<1> HIDE DEF upTo
<1>6. upTo[0] = 0 /\ \A k \in 1..n : upTo[k] = upTo[k - 1] + Size[entries[k].name]
  BY <1>1, <1>4
<1> DEFINE T == {m \in 0..n : upTo[m] # f[m]}
<1>7. T = {}
  <2> SUFFICES ASSUME T # {} PROVE FALSE
    OBVIOUS
  <2>1. PICK m \in T : \A y \in T : m <= y
    <3>1. T \in SUBSET Nat
      BY <1>1
    <3> HIDE DEF T
    <3> QED
      BY <3>1, HasLeast
  <2>2. m # 0 /\ m \in 1..n /\ m - 1 \in 0..n /\ m - 1 \notin T
    BY <1>1, <1>2, <1>6, <2>1 DEF Sums
  <2> QED
    BY <1>2, <1>6, <2>1, <2>2 DEF Sums
<1> QED
  BY <1>1, <1>2, <1>5, <1>7

\* Two running sums that are alike.
LEMMA SumsAlike ==
    ASSUME NEW s \in Seq(Entry), NEW t \in Seq(Entry), NEW f, NEW g, Sums(f, s), Sums(g, t),
           NEW m \in Nat, m <= Len(s), m <= Len(t), \A k \in 1..m : s[k] = t[k]
    PROVE  f[m] = g[m]
<1> DEFINE T == {k \in 0..m : f[k] # g[k]}
<1>1. Len(s) \in Nat /\ Len(t) \in Nat
  BY EntrySize
<1>2. SUFFICES ASSUME T # {} PROVE FALSE
  OBVIOUS
<1>3. PICK k \in T : \A y \in T : k <= y
  <2>1. T \in SUBSET Nat
    OBVIOUS
  <2> HIDE DEF T
  <2> QED
    BY <1>2, <2>1, HasLeast
<1>4. k # 0 /\ k \in 1..m /\ k - 1 \in 0..m /\ k - 1 \notin T
  BY <1>1, <1>3 DEF Sums
<1>5. f[k] = f[k - 1] + Size[s[k].name] /\ g[k] = g[k - 1] + Size[t[k].name]
  BY <1>1, <1>4 DEF Sums
<1> QED
  BY <1>3, <1>4, <1>5

LEMMA LengthOfNone == LengthOf(<<>>) = 0
<1>1. <<>> \in Seq(Entry) /\ Len(<<>>) = 0
  OBVIOUS
<1> QED
  BY <1>1, LengthIs DEF Sums

LEMMA LengthAppended ==
    ASSUME NEW entries \in Seq(Entry), NEW x \in Entry
    PROVE  /\ LengthOf(entries) \in Nat
           /\ LengthOf(Append(entries, x)) = LengthOf(entries) + Size[x.name]
<1>1. /\ Append(entries, x) \in Seq(Entry) /\ Len(Append(entries, x)) = Len(entries) + 1
      /\ Append(entries, x)[Len(entries) + 1] = x
      /\ \A k \in 1..Len(entries) : Append(entries, x)[k] = entries[k]
  BY AppendProperties
<1>2. Len(entries) \in Nat
  BY EntrySize
<1>3. PICK f : Sums(f, entries) /\ LengthOf(entries) = f[Len(entries)]
  BY LengthIs
<1>4. PICK g : /\ Sums(g, Append(entries, x))
               /\ LengthOf(Append(entries, x)) = g[Len(entries) + 1]
  BY <1>1, LengthIs
<1>5. f[Len(entries)] = g[Len(entries)]
  <2>1. /\ Len(entries) <= Len(entries) /\ Len(entries) <= Len(Append(entries, x))
        /\ \A k \in 1..Len(entries) : entries[k] = Append(entries, x)[k]
    BY <1>1, <1>2
  <2>2. PICK t : t = Append(entries, x)
    OBVIOUS
  <2>3. PICK m : m = Len(entries)
    OBVIOUS
  <2>4. /\ t \in Seq(Entry) /\ Sums(g, t) /\ Sums(f, entries) /\ m \in Nat
        /\ m <= Len(entries) /\ m <= Len(t) /\ \A k \in 1..m : entries[k] = t[k]
    BY <1>1, <1>2, <1>3, <1>4, <2>1, <2>2, <2>3
  <2>5. f[m] = g[m]
    BY ONLY <2>4, SumsAlike, entries \in Seq(Entry)
  <2> QED
    BY <2>3, <2>5
<1>6. g[Len(entries) + 1] = g[Len(entries)] + Size[x.name]
  BY <1>1, <1>2, <1>4 DEF Sums
<1> QED
  BY <1>2, <1>3, <1>4, <1>5, <1>6 DEF Sums

LEMMA LengthRemoved ==
    ASSUME NEW entries \in Seq(Entry), NEW i \in 1..Len(entries)
    PROVE  LengthOf(RemoveAt(entries, i)) <= LengthOf(entries)
<1> DEFINE n == Len(entries)
<1>1. PICK rest : rest = RemoveAt(entries, i)
  OBVIOUS
<1>2. /\ rest \in Seq(Entry) /\ Len(rest) = n - 1
      /\ \A j \in 1..(n - 1) : rest[j] = IF j < i THEN entries[j] ELSE entries[j + 1]
  BY <1>1, RemoveAtFacts
<1>3. n \in Nat /\ n - 1 \in Nat /\ i \in 1..n
  BY EntrySize
<1>4. PICK f : Sums(f, entries) /\ LengthOf(entries) = f[n]
  BY LengthIs
<1>5. PICK g : Sums(g, rest) /\ LengthOf(rest) = g[n - 1]
  BY <1>2, LengthIs
<1>6. \A j \in 1..n : Size[entries[j].name] \in Nat
  <2>1. BlockSize \in Nat
    BY NameIndexAssumption
  <2> QED
    BY <2>1, EntrySize
<1>7. g[i - 1] = f[i - 1]
  <2>1. i - 1 \in Nat /\ i - 1 <= n /\ i - 1 <= Len(rest)
    BY <1>2, <1>3
  <2>2. \A k \in 1..(i - 1) : rest[k] = entries[k]
    BY <1>2, <1>3
  <2> QED
    BY <1>2, <1>4, <1>5, <2>1, <2>2, SumsAlike
<1> HIDE DEF n
<1>8. f \in [0..n -> Nat] /\ \A k \in 1..n : f[k] = f[k - 1] + Size[entries[k].name]
  BY <1>4 DEF Sums, n
<1>9. g \in [0..(n - 1) -> Nat] /\ \A k \in 1..(n - 1) : g[k] = g[k - 1] + Size[rest[k].name]
  BY <1>2, <1>5 DEF Sums, n
<1> DEFINE T == {j \in (i - 1)..(n - 1) : g[j] > f[j + 1]}
<1>10. T = {}
  <2> SUFFICES ASSUME T # {} PROVE FALSE
    OBVIOUS
  <2>1. PICK j \in T : \A y \in T : j <= y
    <3>1. T \in SUBSET Nat
      BY <1>3
    <3> HIDE DEF T
    <3> QED
      BY <3>1, HasLeast
  <2>2. f[i] = f[i - 1] + Size[entries[i].name] /\ f[i - 1] \in Nat /\ f[i] \in Nat
    <3>1. i - 1 \in 0..n /\ i \in 0..n
      BY <1>3
    <3> QED
      BY <1>3, <1>8, <3>1
  <2>3. j # i - 1
    <3> SUFFICES ASSUME j = i - 1 PROVE FALSE
      OBVIOUS
    <3>1. Size[entries[i].name] \in Nat
      BY <1>3, <1>6
    <3>2. j + 1 = i
      BY <1>3
    <3>3. g[j] > f[j + 1]
      BY <2>1
    <3>4. f[i - 1] > f[i]
      BY <1>7, <3>2, <3>3
    <3>5. PICK a, b, c : a = f[i - 1] /\ b = f[i] /\ c = Size[entries[i].name]
      OBVIOUS
    <3>6. a \in Nat /\ c \in Nat /\ b = a + c /\ a > b
      BY <2>2, <3>1, <3>4, <3>5
    <3> QED
      BY ONLY <3>6
  <2>4. j \in i..(n - 1) /\ j - 1 \notin T /\ j - 1 \in (i - 1)..(n - 1)
    BY <1>3, <2>1, <2>3
  <2>5. rest[j] = entries[j + 1]
    BY <1>2, <1>3, <2>4 DEF n
  <2>6. g[j] = g[j - 1] + Size[entries[j + 1].name]
    BY SMTT(40), <1>3, <1>9, <2>4, <2>5
  <2>7. j + 1 \in 1..n /\ j + 1 - 1 = j
    BY <1>3, <2>4
  <2>8. f[j + 1] = f[j] + Size[entries[j + 1].name]
    BY <1>8, <2>7
  <2>9. g[j - 1] <= f[j]
    <3>1. g[j - 1] \in Nat /\ f[j] \in Nat /\ j - 1 + 1 = j
      BY <1>3, <1>8, <1>9, <2>4
    <3>2. ~(g[j - 1] > f[j - 1 + 1])
      BY <2>4
    <3>3. PICK a, b : a = g[j - 1] /\ b = f[j]
      OBVIOUS
    <3>4. a \in Nat /\ b \in Nat /\ ~(a > b)
      BY <3>1, <3>2, <3>3
    <3>5. a <= b
      BY ONLY <3>4
    <3> QED
      BY <3>3, <3>5
  <2>10. g[j - 1] \in Nat /\ f[j] \in Nat /\ Size[entries[j + 1].name] \in Nat
    BY <1>3, <1>6, <1>8, <1>9, <2>4, <2>7
  <2>11. g[j] > f[j + 1]
    BY <2>1
  <2>12. PICK a, b, c, d, w : /\ a = g[j] /\ b = f[j + 1] /\ c = g[j - 1] /\ d = f[j]
                              /\ w = Size[entries[j + 1].name]
    OBVIOUS
  <2>13. c \in Nat /\ d \in Nat /\ w \in Nat /\ a = c + w /\ b = d + w /\ c <= d /\ a > b
    BY <2>6, <2>8, <2>9, <2>10, <2>11, <2>12
  <2> QED
    BY ONLY <2>13
<1>11. g[n - 1] <= f[n]
  <2>1. n - 1 \in (i - 1)..(n - 1) /\ n - 1 + 1 = n
    BY <1>3
  <2>2. g[n - 1] \in Nat /\ f[n] \in Nat
    BY <1>3, <1>8, <1>9
  <2> QED
    BY <1>10, <2>1, <2>2
<1> QED
  BY <1>1, <1>4, <1>5, <1>11 DEF n

-----------------------------------------------------------------------------
Room(bs) == \A i \in 1..Len(bs) : LengthOf(bs[i].entries) < BlockSize

\* What is put into a block fits into it.
LEMMA RoomRewritten ==
    ASSUME NEW bs, File(bs), Room(bs), NEW i \in 1..Len(bs), NEW entries,
           LengthOf(entries) < BlockSize, NEW cs, cs = [bs EXCEPT ![i].entries = entries]
    PROVE  Room(cs)
<1>1. DOMAIN bs = 1..Len(bs) /\ bs \in Seq(Block)
  BY LenProperties DEF File
<1>2. DOMAIN cs = 1..Len(bs) /\ Len(bs) \in Nat
  BY <1>1, LenProperties
<1>3. Len(cs) = Len(bs)
  BY <1>1, <1>2
<1>4. \A j \in 1..Len(bs) : cs[j].entries = IF j = i THEN entries ELSE bs[j].entries
  <2>1. bs[i] \in Block
    BY <1>1, ElementOfSeq
  <2> QED
    BY <1>1, <2>1 DEF Block
<1> QED
  BY <1>3, <1>4 DEF Room

LEMMA RoomKept ==
    ASSUME IndexInv, Room(blocks), [Next]_vars
    PROVE  Room(blocks)'
<1>1. /\ Sound(blocks) /\ File(blocks) /\ BlockSize \in Nat /\ Len(blocks) \in Nat
      /\ DOMAIN blocks = 1..Len(blocks) /\ blocks \in Seq(Block)
  BY NameIndexAssumption, LenProperties DEF IndexInv, Sound, File
<1>2. \A n \in Names : Chain(blocks, Hash[n]) \subseteq 1..Len(blocks)
  BY <1>1, HeadOf, ChainHolds
<1>3. ASSUME NEW p \in Writers, NEW n \in Names, NEW at \in Places, AddToBlock(p, n, at)
      PROVE  Room(blocks)'
  <2>1. PICK i \in FirstOf(Roomy(n)) :
            blocks' = [blocks EXCEPT ![i].entries = Append(@, [name |-> n, at |-> at])]
    BY <1>3 DEF AddToBlock
  <2>2. i \in 1..Len(blocks) /\ Fits(blocks, i, n)
    BY <1>2, <2>1 DEF FirstOf, Roomy
  <2>3. PICK x : x = [name |-> n, at |-> at]
    OBVIOUS
  <2>4. x \in Entry /\ x.name = n /\ blocks[i].entries \in Seq(Entry) /\ Size[n] \in Nat
    <3>1. Size[n] \in 1..(BlockSize - 1)
      BY NameIndexAssumption
    <3>2. blocks[i].entries \in Seq(Entry)
      BY <1>1, <2>2, BlockFacts
    <3> QED
      BY <1>1, <2>3, <3>1, <3>2 DEF Entry
  <2>5. PICK old, entries : old = blocks[i].entries /\ entries = Append(old, x)
    OBVIOUS
  <2>6. LengthOf(old) \in Nat /\ LengthOf(entries) = LengthOf(old) + Size[n]
    BY <2>4, <2>5, LengthAppended
  <2>7. BlockSize >= Size[n] + LengthOf(old) + 1
    BY <2>2, <2>5 DEF Fits, Used
  <2>8. LengthOf(entries) < BlockSize
    BY <1>1, <2>4, <2>6, <2>7
  <2>9. blocks' = [blocks EXCEPT ![i].entries = entries]
    BY <2>1, <2>3, <2>5
  <2> QED
    BY <1>1, <2>2, <2>8, <2>9, RoomRewritten
<1>4. ASSUME NEW p \in Writers, NEW n \in Names, NEW at \in Places, AddBlock(p, n, at)
      PROVE  Room(blocks)'
  <2>1. PICK x : x = [name |-> n, at |-> at]
    OBVIOUS
  <2>2. x \in Entry /\ x.name = n /\ Size[n] \in 1..(BlockSize - 1)
    BY <2>1, NameIndexAssumption DEF Entry
  <2>3. blocks' = Append(blocks, NewBlock(<<x>>))
    BY <1>4, <2>1 DEF AddBlock
  <2>4. LengthOf(<<x>>) < BlockSize
    <3>1. <<>> \in Seq(Entry) /\ <<x>> = Append(<<>>, x)
      OBVIOUS
    <3>2. LengthOf(<<x>>) = 0 + Size[x.name]
      BY <2>2, <3>1, LengthAppended, LengthOfNone
    <3> QED
      BY <1>1, <2>2, <3>2
  <2>5. /\ Len(blocks') = Len(blocks) + 1 /\ blocks'[Len(blocks) + 1] = NewBlock(<<x>>)
        /\ \A i \in 1..Len(blocks) : blocks'[i] = blocks[i]
    BY <1>1, <2>2, <2>3, Appended
  <2>6. NewBlock(<<x>>).entries = <<x>>
    BY DEF NewBlock
  <2> QED
    BY <1>1, <2>4, <2>5, <2>6 DEF Room
<1>5. ASSUME NEW p \in Writers, NEW n \in Names, Delete(p, n)
      PROVE  Room(blocks)'
  <2>1. PICK i \in FirstOf({j \in Chain(blocks, Hash[n]) : Holds(blocks, j, n)}) :
          blocks' = [blocks EXCEPT ![i].entries =
                        RemoveAt(@, SelectInSeq(@, LAMBDA e : e.name = n))]
    BY <1>5 DEF Delete
  <2>2. i \in 1..Len(blocks) /\ Holds(blocks, i, n)
    BY <1>2, <2>1 DEF FirstOf
  <2>3. PICK old : old = blocks[i].entries
    OBVIOUS
  <2>4. old \in Seq(Entry) /\ DOMAIN old = 1..Len(old) /\ Len(old) \in Nat
    <3>1. old \in Seq(Entry)
      BY <1>1, <2>2, <2>3, BlockFacts
    <3> QED
      BY <3>1, EntrySize
  <2>5. PICK k : k = SelectInSeq(old, LAMBDA e : e.name = n)
    OBVIOUS
  <2>6. k \in 1..Len(old)
    <3> DEFINE I == {j \in 1..Len(old) : old[j].name = n}
    <3>1. I # {}
      BY <2>2, <2>3, <2>4 DEF Holds, ToSet
    <3>2. k = Min(I)
      BY <2>5, <3>1 DEF SelectInSeq
    <3>3. Min(I) \in I
      BY <2>4, <3>1, SearchFacts
    <3> QED
      BY <3>2, <3>3
  <2>7. PICK entries : entries = RemoveAt(old, k)
    OBVIOUS
  <2>8. LengthOf(entries) <= LengthOf(old) /\ entries \in Seq(Entry)
    BY <2>4, <2>6, <2>7, LengthRemoved, RemoveAtFacts
  <2>9. LengthOf(entries) < BlockSize
    <3>1. LengthOf(old) < BlockSize
      BY <2>2, <2>3 DEF Room
    <3>2. LengthOf(old) \in Nat /\ LengthOf(entries) \in Nat
      <4>1. \E x : x \in Entry
        BY <2>4, <2>6, EntrySize
      <4> QED
        BY <2>4, <2>8, <4>1, LengthAppended
    <3> QED
      BY <1>1, <2>8, <3>1, <3>2
  <2>10. blocks' = [blocks EXCEPT ![i].entries = entries]
    BY <2>1, <2>3, <2>5, <2>7
  <2> QED
    BY <1>1, <2>2, <2>9, <2>10, RoomRewritten
<1>6. ASSUME NEW p \in Writers, LinkBlock(p)
      PROVE  Room(blocks)'
  <2>1. blocks' = Linked(blocks, loc[p].block, Len(blocks)) /\ LinkRight(blocks, loc[p].block)
    BY <1>6 DEF LinkBlock, IndexInv, Procs
  <2>2. /\ loc[p].block \in 1..Len(blocks) /\ Len(blocks) \in 1..Len(blocks)
        /\ blocks[loc[p].block].next = 0 /\ blocks[Len(blocks)].next = 0
        /\ loc[p].block < Len(blocks) /\ Len(blocks) > Slots
    <3>1. PICK n \in Names, at \in Places :
              /\ loc[p].block \in Chain(blocks, Hash[n]) /\ blocks[loc[p].block].next = 0
              /\ blocks[Len(blocks)] = NewBlock(<<[name |-> n, at |-> at]>>)
              /\ Len(blocks) > Slots /\ Len(blocks) > loc[p].block
      BY <2>1 DEF LinkRight
    <3>2. loc[p].block \in 1..Len(blocks)
      BY <1>2, <3>1
    <3> QED
      BY <1>1, <3>1, <3>2 DEF NewBlock
  <2>3. /\ Len(blocks') = Len(blocks)
        /\ \A j \in 1..Len(blocks) : blocks'[j].entries = blocks[j].entries
    BY <1>1, <2>1, <2>2, ChainLinked
  <2> QED
    BY <2>3 DEF Room
<1>7. CASE UNCHANGED blocks
  BY <1>7 DEF Room
<1>8. ASSUME NEW p \in Procs,
             \/ Die(p) \/ LookUp(p) \/ BeginList(p) \/ List(p) \/ End(p)
             \/ \E n \in Names : BeginLookUp(p, n)
      PROVE  UNCHANGED blocks
  BY Zenon, <1>8 DEF Die, LookUp, BeginList, List, End, BeginLookUp
<1>9. CASE Next
  BY <1>3, <1>4, <1>5, <1>6, <1>7, <1>8, <1>9 DEF Next, Procs
<1>10. CASE UNCHANGED vars
  BY <1>7, <1>10 DEF vars
<1> QED
  BY <1>9, <1>10

\* However names come and go, and wherever a request is killed, the entries of a
\* block leave room for the zero that GenerateIndexList and GenerateHashwordList
\* read up to: AddStringToHashedIndex keeps it when it looks for room, and
\* DeleteStringFromHashedIndex takes from what a block holds.
THEOREM BlocksKeepRoom == Spec => []RoomForZero
<1>1. Init => Room(blocks)
  <2> SUFFICES ASSUME Init PROVE Room(blocks)
    OBVIOUS
  <2>1. blocks = [s \in 1..Slots |-> NewBlock(<<>>)] /\ Slots \in Nat
    BY NameIndexAssumption DEF Init
  <2>2. Len(blocks) = Slots /\ \A s \in 1..Slots : blocks[s].entries = <<>>
    BY <2>1 DEF NewBlock
  <2>3. 0 < BlockSize
    BY NameIndexAssumption
  <2> QED
    BY <2>2, <2>3, LengthOfNone DEF Room
<1>2. IndexInv /\ Room(blocks) /\ [Next]_vars => Room(blocks)'
  BY RoomKept
<1>3. TypeOK /\ Room(blocks) => RoomForZero
  BY LenProperties DEF RoomForZero, Room, Used, TypeOK
<1> QED
  BY <1>1, <1>2, <1>3, IndexHolds, ShapeHolds, PTL DEF Spec
=============================================================================
