---------------------------- MODULE Files_proofs ----------------------------
(***************************************************************************)
(* The files that requests share besides the database: a data file with    *)
(* its free list, antispam.dat, globalann.msg, the activity log and the    *)
(* file of alternative spellings.  Any number of requests work on each of  *)
(* them.                                                                   *)
(***************************************************************************)
EXTENDS DataFile, PostGuard, Announces, ActivityLog, AltNames, ListLemmas, FiniteSetTheorems

-----------------------------------------------------------------------------
(***************************************************************************)
(* SpaceInv is an invariant of DataFile for every pad, waste threshold and *)
(* set of sizes, DataFile implements BlockStore, and without waste no byte *)
(* is lost but by a creation of the list.                                  *)
(***************************************************************************)

\* The head of a free entry and what is left of it share no byte, and both
\* lie within the entry.
LEMMA SplitEntry ==
    ASSUME NEW e \in Block, NEW n \in Nat, e.size >= n, NEW w \in Nat
    PROVE  /\ Remainder(e, n, w) \in Block
           /\ [index |-> e.index, size |-> n] \in Block
           /\ Disjoint([index |-> e.index, size |-> n], Remainder(e, n, w))
           /\ \A b \in Block : Disjoint(b, e) =>
                 /\ Disjoint(b, Remainder(e, n, w))
                 /\ Disjoint(b, [index |-> e.index, size |-> n])
                 /\ Disjoint([index |-> e.index, size |-> n], b)
                 /\ Disjoint(Remainder(e, n, w), b)
           /\ Remainder(e, n, w).size # 0 => 
                 /\ e.size # 0
                 /\ Remainder(e, n, w).index >= e.index
                 /\ Remainder(e, n, w).index + Remainder(e, n, w).size
                       = e.index + e.size
  BY DEF Block, Remainder, Kept, Disjoint, Store!Disjoint

\* Taking the head of entry i keeps the invariant, whether the other entries
\* stay or read as empty.
LEMMA SplitStep ==
    ASSUME SpaceInv,
           NEW n \in Sizes,
           NEW i \in DOMAIN free,
           free[i].size >= n,
           live' = live \cup NonEmpty({[index |-> free[i].index, size |-> n]}),
           end' = end, created' \in BOOLEAN, creators' \in Nat,
           free' \in Seq(Block),
           DOMAIN free' \subseteq DOMAIN free,
           \A j \in DOMAIN free' :
              \/ j = i /\ free'[j] = Remainder(free[i], n, AllocWasted)
              \/ j # i /\ (free'[j] = free[j] \/ free'[j].size = 0)
    PROVE  SpaceInv'
<1> DEFINE head == [index |-> free[i].index, size |-> n]
           rest == Remainder(free[i], n, AllocWasted)
<1>1. /\ n \in Nat /\ AllocWasted \in Nat
      /\ free[i] \in Block
      /\ \A j \in DOMAIN free : free[j] \in Block
      /\ \A b \in live : b \in Block
  BY DataFileAssumption DEF SpaceInv, TypeOK
<1>2. /\ rest \in Block /\ head \in Block
      /\ Disjoint(head, rest)
      /\ \A b \in Block : Disjoint(b, free[i]) =>
            /\ Disjoint(b, rest) /\ Disjoint(rest, b)
            /\ Disjoint(b, head) /\ Disjoint(head, b)
      /\ rest.size # 0 => /\ free[i].size # 0
                          /\ rest.index >= free[i].index
                          /\ rest.index + rest.size
                                = free[i].index + free[i].size
  BY <1>1, SplitEntry
<1>3. \A b \in live' : b \in live \/ (b = head /\ n # 0)
  BY DEF NonEmpty, Store!NonEmpty
<1>4. TypeOK'
  BY <1>1, <1>2, <1>3 DEF SpaceInv, TypeOK
<1>5. \A b \in live : Disjoint(b, head) /\ Disjoint(head, b)
  BY <1>1, <1>2 DEF SpaceInv, FreeDisjoint
<1>6. LiveDisjoint'
  BY <1>3, <1>5 DEF SpaceInv, LiveDisjoint, Disjoint
<1>7. ASSUME NEW b \in live', NEW j \in DOMAIN free'
      PROVE  Disjoint(b, free'[j])
  <2>1. CASE free'[j].size = 0
    BY <2>1 DEF Disjoint, Store!Disjoint
  <2>2. CASE j = i /\ free'[j] = rest
    BY <2>2, <1>1, <1>2, <1>3 DEF SpaceInv, FreeDisjoint
  <2>3. CASE j # i /\ free'[j] = free[j]
    <3>1. j \in DOMAIN free /\ Disjoint(free[j], free[i])
      BY <2>3 DEF SpaceInv, FreeDisjoint
    <3>2. Disjoint(head, free[j])
      BY <3>1, <1>1, <1>2
    <3>3. QED
      BY <2>3, <3>1, <3>2, <1>3 DEF SpaceInv, FreeDisjoint
  <2>4. QED
    BY <2>1, <2>2, <2>3
<1>8. ASSUME NEW j \in DOMAIN free', NEW k \in DOMAIN free', j # k
      PROVE  Disjoint(free'[j], free'[k])
  <2>1. CASE free'[j].size = 0 \/ free'[k].size = 0
    BY <2>1 DEF Disjoint, Store!Disjoint
  <2>2. CASE free'[j].size # 0 /\ free'[k].size # 0
    <3>1. /\ j \in DOMAIN free /\ k \in DOMAIN free
          /\ free'[j] = IF j = i THEN rest ELSE free[j]
          /\ free'[k] = IF k = i THEN rest ELSE free[k]
      BY <2>2
    <3>2. \A l \in DOMAIN free : l # i => Disjoint(free[l], free[i])
      BY DEF SpaceInv, FreeDisjoint
    <3>3. CASE j = i
      BY <3>1, <3>2, <3>3, <1>1, <1>2, <1>8
    <3>4. CASE k = i
      BY <3>1, <3>2, <3>4, <1>1, <1>2, <1>8
    <3>5. CASE j # i /\ k # i
      BY <3>1, <3>5, <1>8 DEF SpaceInv, FreeDisjoint
    <3>6. QED
      BY <3>3, <3>4, <3>5
  <2>3. QED
    BY <2>1, <2>2
<1>9. FreeDisjoint'
  BY <1>7, <1>8 DEF FreeDisjoint, Disjoint
<1>10. InFile(free[i]) /\ (n # 0 => free[i].size # 0)
  BY <1>1 DEF SpaceInv, BlocksInFile, Block
<1>11. ASSUME n # 0 PROVE InFile(head)
  <2>1. end \in Nat /\ Pad \in Nat
    BY DataFileAssumption DEF SpaceInv, TypeOK
  <2>2. QED
    BY <1>1, <1>10, <1>11, <2>1 DEF InFile, Block
<1>12. InFile(rest)
  <2>1. end \in Nat /\ Pad \in Nat
    BY DataFileAssumption DEF SpaceInv, TypeOK
  <2>2. QED
    BY <1>1, <1>2, <1>10, <2>1 DEF InFile, Block
<1>13. BlocksInFile'
  <2>1. ASSUME NEW b \in live' PROVE b.size # 0 /\ InFile(b)'
    <3>1. CASE b \in live
      BY <3>1 DEF SpaceInv, BlocksInFile, InFile
    <3>2. CASE b = head /\ n # 0
      BY <3>2, <1>11 DEF InFile
    <3>3. QED
      BY <3>1, <3>2, <1>3
  <2>2. ASSUME NEW j \in DOMAIN free' PROVE InFile(free[j])'
    BY <1>12 DEF SpaceInv, BlocksInFile, InFile
  <2>3. QED
    BY <2>1, <2>2 DEF BlocksInFile, SpaceInv
<1>14. QED
  BY <1>4, <1>6, <1>9, <1>13 DEF SpaceInv

LEMMA AllocFreeStep ==
    ASSUME SpaceInv, NEW n \in Sizes, AllocFree(n)
    PROVE  SpaceInv'
<1>1. PICK i \in DOMAIN free :
          /\ TakeFrom(free, free', i, n, AllocWasted)
          /\ live' = live \cup NonEmpty({[index |-> free[i].index, size |-> n]})
  BY DEF AllocFree
<1>2. free[i].size >= n /\ n \in Nat /\ AllocWasted \in Nat /\ free[i] \in Block
  BY <1>1, DataFileAssumption DEF TakeFrom, FirstFit, SpaceInv, TypeOK
<1>3. Remainder(free[i], n, AllocWasted) \in Block
  BY <1>2, SplitEntry
<1>4. /\ free' = [free EXCEPT ![i] = Remainder(free[i], n, AllocWasted)]
      /\ free' \in Seq(Block)
      /\ DOMAIN free' = DOMAIN free
  BY <1>1, <1>3 DEF TakeFrom, SpaceInv, TypeOK
<1>5. end' = end /\ created' \in BOOLEAN /\ creators' \in Nat
  BY DEF AllocFree, SpaceInv, TypeOK
<1>6. \A j \in DOMAIN free' :
          \/ j = i /\ free'[j] = Remainder(free[i], n, AllocWasted)
          \/ j # i /\ (free'[j] = free[j] \/ free'[j].size = 0)
  BY <1>4
<1>7. QED
  BY <1>1, <1>2, <1>4, <1>5, <1>6, SplitStep

LEMMA AllocWhileCreatedStep ==
    ASSUME SpaceInv, NEW n \in Sizes, AllocWhileCreated(n)
    PROVE  SpaceInv'
<1> DEFINE emptied(i) ==
        [j \in 1..i |-> IF j = i THEN Remainder(free[i], n, AllocWasted)
                                 ELSE [index |-> 0, size |-> 0]]
<1>1. PICK i \in DOMAIN free :
          /\ FirstFit(free, i, n)
          /\ free' = emptied(i)
          /\ live' = live \cup NonEmpty({[index |-> free[i].index, size |-> n]})
  BY DEF AllocWhileCreated
<1>2. free[i].size >= n /\ n \in Nat /\ AllocWasted \in Nat /\ free[i] \in Block
  BY <1>1, DataFileAssumption DEF FirstFit, SpaceInv, TypeOK
<1>3. Remainder(free[i], n, AllocWasted) \in Block
  BY <1>2, SplitEntry
<1>4. i \in Nat /\ DOMAIN free = 1..Len(free) /\ Len(free) \in Nat /\ i <= Len(free)
  BY DEF SpaceInv, TypeOK
<1>5. free' \in Seq(Block) /\ DOMAIN free' = 1..i
  <2>1. [index |-> 0, size |-> 0] \in Block
    BY DEF Block
  <2>2. free' \in [1..i -> Block]
    BY <1>1, <1>3, <1>4, <2>1
  <2>3. QED
    BY <1>4, <2>2, SeqDef
<1>6. end' = end /\ created' \in BOOLEAN /\ creators' \in Nat
  BY DEF AllocWhileCreated, SpaceInv, TypeOK
<1>7. \A j \in DOMAIN free' :
          \/ j = i /\ free'[j] = Remainder(free[i], n, AllocWasted)
          \/ j # i /\ (free'[j] = free[j] \/ free'[j].size = 0)
  BY <1>1, <1>5
<1>8. DOMAIN free' \subseteq DOMAIN free
  BY <1>4, <1>5
<1>9. QED
  BY <1>1, <1>2, <1>5, <1>6, <1>7, <1>8, SplitStep

LEMMA AllocEndStep ==
    ASSUME SpaceInv, NEW n \in Sizes, AllocEnd(n)
    PROVE  SpaceInv'
<1> DEFINE at == IF end = 0 THEN Pad ELSE end
           new == [index |-> at, size |-> n]
<1>1. /\ end \in Nat /\ Pad \in Nat /\ n \in Nat
      /\ \A b \in live : b \in Block
      /\ \A i \in DOMAIN free : free[i] \in Block
  BY DataFileAssumption DEF SpaceInv, TypeOK
<1>2. /\ free' = free /\ created' = created /\ creators' = creators
      /\ end' = at + n
      /\ \A b \in live' : b \in live \/ (b = new /\ n # 0)
  BY DEF AllocEnd, NonEmpty, Store!NonEmpty
<1>3. new \in Block
  BY <1>1 DEF Block
<1>4. TypeOK'
  BY <1>1, <1>2, <1>3 DEF SpaceInv, TypeOK
\* everything of size > 0 lies below the old end, hence below `at'
<1>5. ASSUME NEW b \in Block, InFile(b)
      PROVE  Disjoint(b, new) /\ Disjoint(new, b) /\ InFile(b)'
  <2>1. b.size # 0 => /\ b.index + b.size <= end
                      /\ end # 0
                      /\ b.index >= Pad
    BY <1>1, <1>5 DEF InFile, Block
  <2>2. b.size # 0 => b.index + b.size <= at
    BY <2>1
  <2>3. Disjoint(b, new) /\ Disjoint(new, b)
    BY <2>2 DEF Disjoint, Store!Disjoint
  <2>4. InFile(b)'
    BY <1>1, <1>2, <1>5, <2>1, <2>2 DEF InFile, Block
  <2>5. QED
    BY <2>3, <2>4
<1>6. /\ \A b \in live : InFile(b)
      /\ \A i \in DOMAIN free : InFile(free[i])
  BY DEF SpaceInv, BlocksInFile
<1>7. LiveDisjoint'
  BY <1>1, <1>2, <1>5, <1>6 DEF SpaceInv, LiveDisjoint, Disjoint
<1>8. FreeDisjoint'
  BY <1>1, <1>2, <1>5, <1>6 DEF SpaceInv, FreeDisjoint, Disjoint
<1>9. at >= Pad /\ at + n <= end' /\ end' >= Pad
  BY <1>1, <1>2 DEF SpaceInv, BlocksInFile
<1>10. BlocksInFile'
  <2>1. ASSUME NEW b \in live' PROVE b.size # 0 /\ InFile(b)'
    <3>1. CASE b \in live
      BY <3>1, <1>1, <1>5, <1>6 DEF SpaceInv, BlocksInFile
    <3>2. CASE b = new /\ n # 0
      <4>1. b.index = at /\ b.size = n
        BY <3>2
      <4>2. QED
        BY <3>2, <4>1, <1>9 DEF InFile
    <3>3. QED
      BY <3>1, <3>2, <1>2
  <2>2. \A i \in DOMAIN free' : InFile(free[i])'
    BY <1>1, <1>2, <1>5, <1>6
  <2>3. QED
    BY <2>1, <2>2, <1>9 DEF BlocksInFile
<1>11. QED
  BY <1>4, <1>7, <1>8, <1>10 DEF SpaceInv

\* Handing back part of a block in use: the part becomes a free entry, in an
\* empty place of the list or at its end.
LEMMA FreeFromStep ==
    ASSUME SpaceInv, NEW b \in live, NEW n \in 0..(b.size - 1), FreeFrom(b, n)
    PROVE  SpaceInv'
<1> DEFINE head == [index |-> b.index, size |-> n]
           tail == [index |-> b.index + n, size |-> b.size - n]
           entry == [index |-> b.index + n,
                     size |-> Kept(b.size - n, MarkWasted)]
<1>1. /\ b \in Block /\ n \in Nat /\ n < b.size
      /\ end \in Nat /\ Pad \in Nat /\ MarkWasted \in Nat
      /\ \A c \in live : c \in Block
      /\ \A i \in DOMAIN free : free[i] \in Block
  <2>1. b \in Block /\ end \in Nat /\ free \in Seq(Block) /\ live \subseteq Block
    BY DEF SpaceInv, TypeOK
  <2>2. b.size \in Nat
    BY <2>1 DEF Block
  <2>3. QED
    BY <2>1, <2>2, DataFileAssumption
<1>2. /\ end' = end /\ created' = created /\ creators' = creators
      /\ live' = (live \ {b}) \cup NonEmpty({head})
      /\ MarkFreeSpace(free, free', tail, MarkWasted)
  BY DEF FreeFrom
<1>3. \A c \in live' : (c \in live /\ c # b) \/ (c = head /\ n # 0)
  BY <1>1, <1>2 DEF NonEmpty, Store!NonEmpty, Block
<1>4. head \in Block /\ entry \in Block /\ Disjoint(head, entry)
  BY <1>1 DEF Block, Kept, Disjoint, Store!Disjoint
<1>5. \A c \in Block : Disjoint(c, b) =>
          /\ Disjoint(c, head) /\ Disjoint(head, c)
          /\ Disjoint(c, entry) /\ Disjoint(entry, c)
  BY <1>1 DEF Block, Kept, Disjoint, Store!Disjoint
<1>6. \A c \in live : c # b => Disjoint(c, b)
  BY DEF SpaceInv, LiveDisjoint
<1>7. \A i \in DOMAIN free : Disjoint(free[i], b)
  BY <1>1 DEF SpaceInv, FreeDisjoint, Disjoint, Store!Disjoint, Block
\* where the entry went, and that every other place is as it was
<1>8. PICK k \in 1..(Len(free) + 1) :
         /\ free' \in Seq(Block)
         /\ k \in DOMAIN free' /\ free'[k] = entry
         /\ \A j \in DOMAIN free' : j # k => j \in DOMAIN free /\ free'[j] = free[j]
  <2>1. free \in Seq(Block)
    BY DEF SpaceInv, TypeOK
  <2>2. ASSUME NEW i \in DOMAIN free, free' = [free EXCEPT ![i] = entry]
        PROVE  /\ i \in 1..(Len(free) + 1)
               /\ free' \in Seq(Block)
               /\ i \in DOMAIN free' /\ free'[i] = entry
               /\ \A j \in DOMAIN free' :
                     j # i => j \in DOMAIN free /\ free'[j] = free[j]
    BY <2>1, <2>2, <1>4
  <2>3. ASSUME free' = Append(free, entry)
        PROVE  /\ Len(free) + 1 \in 1..(Len(free) + 1)
               /\ free' \in Seq(Block)
               /\ Len(free) + 1 \in DOMAIN free' /\ free'[Len(free) + 1] = entry
               /\ \A j \in DOMAIN free' :
                     j # Len(free) + 1 => j \in DOMAIN free /\ free'[j] = free[j]
    BY <2>1, <2>3, <1>4
  <2>4. \/ \E i \in DOMAIN free : free' = [free EXCEPT ![i] = entry]
        \/ free' = Append(free, entry)
    BY <1>2 DEF MarkFreeSpace
  <2>5. QED
    BY <2>2, <2>3, <2>4
<1>9. TypeOK'
  BY <1>1, <1>2, <1>3, <1>4, <1>8 DEF SpaceInv, TypeOK
<1>10. LiveDisjoint'
  BY <1>1, <1>3, <1>5, <1>6 DEF SpaceInv, LiveDisjoint, Disjoint
<1>11. ASSUME NEW c \in live', NEW j \in DOMAIN free'
       PROVE  Disjoint(c, free'[j])
  <2>1. CASE j = k
    BY <2>1, <1>1, <1>3, <1>4, <1>5, <1>6, <1>8
  <2>2. CASE j # k
    <3>1. j \in DOMAIN free /\ free'[j] = free[j]
      BY <2>2, <1>8
    <3>2. Disjoint(head, free[j])
      BY <3>1, <1>1, <1>5, <1>7
    <3>3. QED
      BY <3>1, <3>2, <1>3 DEF SpaceInv, FreeDisjoint
  <2>3. QED
    BY <2>1, <2>2
<1>12. ASSUME NEW i \in DOMAIN free', NEW j \in DOMAIN free', i # j
       PROVE  Disjoint(free'[i], free'[j])
  <2>1. CASE i = k
    BY <2>1, <1>1, <1>5, <1>7, <1>8, <1>12
  <2>2. CASE j = k
    BY <2>2, <1>1, <1>5, <1>7, <1>8, <1>12
  <2>3. CASE i # k /\ j # k
    BY <2>3, <1>8, <1>12 DEF SpaceInv, FreeDisjoint
  <2>4. QED
    BY <2>1, <2>2, <2>3
<1>13. FreeDisjoint'
  BY <1>11, <1>12 DEF FreeDisjoint, Disjoint
<1>14. b.index >= Pad /\ b.index + b.size <= end
  BY <1>1 DEF SpaceInv, BlocksInFile, InFile
<1>15. InFile(head)' /\ InFile(entry)'
  BY <1>1, <1>2, <1>14 DEF InFile, Block, Kept
<1>16. BlocksInFile'
  <2>1. ASSUME NEW c \in live' PROVE c.size # 0 /\ InFile(c)'
    <3>1. CASE c \in live
      BY <3>1, <1>2 DEF SpaceInv, BlocksInFile, InFile
    <3>2. CASE c = head /\ n # 0
      <4>1. c.size = n
        BY <3>2, <1>1 DEF Block
      <4>2. QED
        BY <3>2, <4>1, <1>15
    <3>3. QED
      BY <3>1, <3>2, <1>3
  <2>2. ASSUME NEW j \in DOMAIN free' PROVE InFile(free[j])'
    BY <1>2, <1>8, <1>15 DEF SpaceInv, BlocksInFile, InFile
  <2>3. QED
    BY <2>1, <2>2, <1>2 DEF BlocksInFile, SpaceInv
<1>17. QED
  BY <1>9, <1>10, <1>13, <1>16 DEF SpaceInv

-----------------------------------------------------------------------------
LEMMA InitInv == Init => SpaceInv
<1> SUFFICES ASSUME Init PROVE SpaceInv
  OBVIOUS
<1>1. free \in Seq(Block) /\ DOMAIN free = {} /\ live = {} /\ end = 0
  BY DEF Init
<1>2. TypeOK
  <2>1. end \in Nat /\ live \subseteq Block /\ creators \in Nat
    BY <1>1 DEF Init
  <2>2. created \in BOOLEAN
    BY Zenon DEF Init
  <2>3. QED
    BY <1>1, <2>1, <2>2 DEF TypeOK
<1>3. LiveDisjoint /\ FreeDisjoint /\ BlocksInFile
  BY <1>1 DEF LiveDisjoint, FreeDisjoint, BlocksInFile
<1>4. QED
  BY <1>2, <1>3 DEF SpaceInv

LEMMA NextInv == SpaceInv /\ [Next]_vars => SpaceInv'
<1> SUFFICES ASSUME SpaceInv, [Next]_vars PROVE SpaceInv'
  OBVIOUS
<1>1. CASE MissList
  BY <1>1 DEF MissList, SpaceInv, TypeOK, LiveDisjoint, FreeDisjoint,
              BlocksInFile, InFile, Disjoint
<1>2. CASE CreateList
  BY <1>2 DEF CreateList, SpaceInv, TypeOK, LiveDisjoint, FreeDisjoint,
              BlocksInFile, InFile, Disjoint
<1>3. ASSUME NEW n \in Sizes, AllocFree(n) PROVE SpaceInv'
  BY <1>3, AllocFreeStep
<1>4. ASSUME NEW n \in Sizes, AllocWhileCreated(n) PROVE SpaceInv'
  BY <1>4, AllocWhileCreatedStep
<1>5. ASSUME NEW n \in Sizes, AllocEnd(n) PROVE SpaceInv'
  BY <1>5, AllocEndStep
<1>6. ASSUME NEW b \in live, NEW n \in 0..(b.size - 1), FreeFrom(b, n)
      PROVE  SpaceInv'
  BY <1>6, FreeFromStep
<1>7. CASE UNCHANGED vars
  BY <1>7 DEF vars, SpaceInv, TypeOK, LiveDisjoint, FreeDisjoint,
              BlocksInFile, InFile, Disjoint
<1>8. QED
  BY <1>1, <1>2, <1>3, <1>4, <1>5, <1>6, <1>7 DEF Next

\* In every behaviour the state has its type, blocks in use and free entries
\* are pairwise disjoint and all of them lie inside the data file.
THEOREM SpaceSafe == Spec => []SpaceInv
<1>1. QED
  BY InitInv, NextInv, PTL DEF Spec

\* Records in use never share a byte (AllocFreeSpace, MarkFreeSpace).
THEOREM RecordsDisjoint == Spec => []LiveDisjoint
<1>1. SpaceInv => LiveDisjoint
  BY DEF SpaceInv
<1>2. QED
  BY <1>1, SpaceSafe, PTL

\* No free entry covers a byte in use or a byte free already, so the space the
\* list hands out next is nobody's.
THEOREM FreeSpaceDisjoint == Spec => []FreeDisjoint
<1>1. SpaceInv => FreeDisjoint
  BY DEF SpaceInv
<1>2. QED
  BY <1>1, SpaceSafe, PTL

-----------------------------------------------------------------------------
\* Taking space from a free entry is an allocation of the block store.
LEMMA TakeIsAllocate ==
    ASSUME SpaceInv, NEW n \in Sizes, NEW i \in DOMAIN free, free[i].size >= n,
           live' = live \cup NonEmpty({[index |-> free[i].index, size |-> n]})
    PROVE  [Store!StoreNext]_live
<1> DEFINE new == [index |-> free[i].index, size |-> n]
<1>1. n \in Nat /\ free[i] \in Block /\ \A c \in live : c \in Block
  BY DataFileAssumption DEF SpaceInv, TypeOK
<1>2. CASE n = 0 \/ new \in live
  BY <1>2 DEF NonEmpty, Store!NonEmpty
<1>3. CASE n # 0 /\ new \notin live
  <2>1. live' = live \cup {new} /\ new \in live' \ live /\ new.size \in Sizes \ {0}
    BY <1>3 DEF NonEmpty, Store!NonEmpty
  <2>2. \A c \in live : Disjoint(c, free[i])
    BY DEF SpaceInv, FreeDisjoint
  <2>3. \A c \in live : Store!Disjoint(new, c)
    BY <2>2, <1>1, SplitEntry, DataFileAssumption DEF Disjoint
  <2>4. QED
    BY <2>1, <2>3 DEF Store!StoreNext, Store!Allocate
<1>4. QED
  BY <1>2, <1>3

LEMMA AppendIsAllocate ==
    ASSUME SpaceInv, NEW n \in Sizes, AllocEnd(n)
    PROVE  [Store!StoreNext]_live
<1> DEFINE at == IF end = 0 THEN Pad ELSE end
           new == [index |-> at, size |-> n]
<1>1. /\ n \in Nat /\ Pad \in Nat /\ end \in Nat
      /\ \A c \in live : c \in Block
      /\ live' = live \cup NonEmpty({new})
  BY DataFileAssumption DEF SpaceInv, TypeOK, AllocEnd
<1>2. CASE n = 0 \/ new \in live
  BY <1>1, <1>2 DEF NonEmpty, Store!NonEmpty
<1>3. CASE n # 0 /\ new \notin live
  <2>1. live' = live \cup {new} /\ new \in live' \ live /\ new.size \in Sizes \ {0}
    BY <1>1, <1>3 DEF NonEmpty, Store!NonEmpty
  <2>2. ASSUME NEW c \in live PROVE Store!Disjoint(new, c)
    BY <1>1 DEF SpaceInv, BlocksInFile, InFile, Store!Disjoint, Block
  <2>3. QED
    BY <2>1, <2>2 DEF Store!StoreNext, Store!Allocate
<1>4. QED
  BY <1>2, <1>3

\* The data file with its list implements the block store: whatever order
\* requests come in, and whoever creates the list file, a block given out is
\* disjoint from all blocks in use and stays in place until it is given back.
THEOREM Implements == Spec => StoreSpec
<1>1. Init => Store!StoreInit
  BY DEF Init, Store!StoreInit
<1>2. SpaceInv /\ [Next]_vars => [Store!StoreNext]_live
  <2> SUFFICES ASSUME SpaceInv, [Next]_vars PROVE [Store!StoreNext]_live
    OBVIOUS
  <2>1. CASE MissList \/ CreateList \/ UNCHANGED vars
    BY <2>1 DEF MissList, CreateList, vars
  <2>2. ASSUME NEW n \in Sizes, AllocFree(n) PROVE [Store!StoreNext]_live
    BY <2>2, TakeIsAllocate DEF AllocFree, TakeFrom, FirstFit
  <2>3. ASSUME NEW n \in Sizes, AllocWhileCreated(n)
        PROVE  [Store!StoreNext]_live
    BY <2>3, TakeIsAllocate DEF AllocWhileCreated, FirstFit
  <2>4. ASSUME NEW n \in Sizes, AllocEnd(n) PROVE [Store!StoreNext]_live
    BY <2>4, AppendIsAllocate
  <2>5. ASSUME NEW b \in live, NEW n \in 0..(b.size - 1), FreeFrom(b, n)
        PROVE  [Store!StoreNext]_live
    BY <2>5 DEF FreeFrom, NonEmpty, Store!StoreNext, Store!Shrink
  <2>6. QED
    BY <2>1, <2>2, <2>3, <2>4, <2>5 DEF Next
<1>3. QED
  BY <1>1, <1>2, SpaceSafe, PTL DEF Spec, StoreSpec, Store!StoreSpec
-----------------------------------------------------------------------------
\* A byte of the data file is known: it is in use or can be handed out again.
Within(b, x) == b.index <= x /\ x < b.index + b.size

Known(x) ==
    \/ \E b \in live : Within(b, x)
    \/ \E i \in DOMAIN free : Within(free[i], x)

\* No byte is newly lost when the bytes known stay known and those appended
\* are known.
LEMMA KnownStays ==
    ASSUME SpaceInv, SpaceInv',
           \A x \in Nat : Known(x) => Known(x)',
           \A x \in Pad..(end' - 1) : x < end \/ Known(x)'
    PROVE  Lost' \subseteq Lost
<1>1. Pad \in Nat /\ end \in Nat /\ end' \in Nat
  BY DataFileAssumption DEF SpaceInv, TypeOK
<1>2. /\ \A b \in live : b.index \in Nat /\ b.size \in Nat
      /\ \A i \in DOMAIN free : free[i].index \in Nat /\ free[i].size \in Nat
  <2>1. live \subseteq Block /\ \A i \in DOMAIN free : free[i] \in Block
    BY DEF SpaceInv, TypeOK
  <2>2. QED
    BY <2>1 DEF Block
<1>3. /\ \A b \in live' : b.index \in Nat /\ b.size \in Nat
      /\ \A i \in DOMAIN free' : free'[i].index \in Nat /\ free'[i].size \in Nat
  <2>1. live' \subseteq Block /\ \A i \in DOMAIN free' : free'[i] \in Block
    BY DEF SpaceInv, TypeOK
  <2>2. QED
    BY <2>1 DEF Block
<1>4. ASSUME NEW x \in Lost' PROVE x \in Lost
  <2>1. /\ x \in Pad..(end' - 1)
        /\ \A b \in live' \cup {free'[i] : i \in DOMAIN free'} :
              x < b.index \/ b.index + b.size <= x
    BY <1>4 DEF Lost
  <2>2. x \in Nat /\ x >= Pad
    BY <2>1, <1>1
  <2>3. ~Known(x)'
    <3>1. \A b \in live' : ~Within(b, x)
      BY <2>1, <2>2, <1>3 DEF Within
    <3>2. \A i \in DOMAIN free' : ~Within(free'[i], x)
      <4>1. ASSUME NEW i \in DOMAIN free' PROVE ~Within(free'[i], x)
        <5>1. x < free'[i].index \/ free'[i].index + free'[i].size <= x
          BY <2>1, <4>1
        <5>2. QED
          BY <5>1, <2>2, <1>3 DEF Within
      <4>2. QED
        BY <4>1
    <3>3. QED
      BY <3>1, <3>2 DEF Known, Within
  <2>4. x < end /\ ~Known(x)
    BY <2>1, <2>2, <2>3
  <2>5. x \in Pad..(end - 1)
    BY <2>2, <2>4, <1>1
  <2>6. \A b \in live \cup {free[i] : i \in DOMAIN free} :
            x < b.index \/ b.index + b.size <= x
    BY <2>4, <2>2, <1>2 DEF Known, Within
  <2>7. QED
    BY <2>5, <2>6 DEF Lost
<1>5. QED
  BY <1>4

\* Taking the head of an entry: its bytes are those of the new record and of
\* what is left, if no remainder is dropped.
LEMMA TakeKeepsKnown ==
    ASSUME SpaceInv, SpaceInv', AllocWasted = 0, NEW n \in Sizes, AllocFree(n)
    PROVE  Lost' \subseteq Lost
<1>1. PICK i \in DOMAIN free :
          /\ TakeFrom(free, free', i, n, AllocWasted)
          /\ live' = live \cup NonEmpty({[index |-> free[i].index, size |-> n]})
  BY DEF AllocFree
<1> DEFINE new == [index |-> free[i].index, size |-> n]
           left == [index |-> free[i].index + n, size |-> free[i].size - n]
<1>2. /\ n \in Nat /\ free \in Seq(Block)
      /\ \A j \in DOMAIN free : free[j].index \in Nat /\ free[j].size \in Nat
  <2>1. free \in Seq(Block) /\ n \in Nat
    BY DataFileAssumption DEF SpaceInv, TypeOK
  <2>2. \A j \in DOMAIN free : free[j] \in Block
    BY <2>1
  <2>3. QED
    BY <2>1, <2>2 DEF Block
<1>3. free[i].size >= n /\ free' = [free EXCEPT ![i] = left]
  <2>1. free[i].size >= n /\ free' = [free EXCEPT ![i] = Remainder(free[i], n, 0)]
    BY <1>1 DEF TakeFrom, FirstFit
  <2>2. free[i].size - n \in Nat
    BY <2>1, <1>2
  <2>3. Kept(free[i].size - n, 0) = free[i].size - n
    BY <2>2 DEF Kept
  <2>4. QED
    BY <2>1, <2>3 DEF Remainder
<1>4. DOMAIN free' = DOMAIN free /\ free'[i] = left
      /\ \A j \in DOMAIN free : j # i => free'[j] = free[j]
  BY <1>2, <1>3
<1>5. n # 0 => new \in live'
  BY <1>1 DEF NonEmpty, Store!NonEmpty
<1>6. ASSUME NEW x \in Nat, Known(x) PROVE Known(x)'
  <2>1. CASE \E b \in live : Within(b, x)
    BY <2>1, <1>1 DEF Known, Within
  <2>2. CASE \E j \in DOMAIN free : j # i /\ Within(free[j], x)
    BY <2>2, <1>4 DEF Known, Within
  <2>3. CASE Within(free[i], x)
    <3>1. CASE x < free[i].index + n
      <4>1. n # 0 /\ Within(new, x)
        BY <2>3, <3>1, <1>2 DEF Within
      <4>2. QED
        BY <4>1, <1>5 DEF Known, Within
    <3>2. CASE x >= free[i].index + n
      <4>1. Within(left, x)
        BY <2>3, <3>2, <1>2, <1>3 DEF Within
      <4>2. QED
        BY <4>1, <1>4 DEF Known, Within
    <3>3. QED
      BY <3>1, <3>2, <1>2
  <2>4. QED
    BY <1>6, <2>1, <2>2, <2>3 DEF Known
<1>7. end' = end /\ end \in Nat /\ Pad \in Nat
  BY DataFileAssumption DEF AllocFree, SpaceInv, TypeOK
<1>8. QED
  BY <1>6, <1>7, KnownStays

\* An append loses at most the pad, which is not counted.
LEMMA AppendKeepsKnown ==
    ASSUME SpaceInv, SpaceInv', NEW n \in Sizes, AllocEnd(n)
    PROVE  Lost' \subseteq Lost
<1> DEFINE at == IF end = 0 THEN Pad ELSE end
           new == [index |-> at, size |-> n]
<1>1. /\ n \in Nat /\ Pad \in Nat /\ end \in Nat
      /\ end' = at + n /\ live' = live \cup NonEmpty({new}) /\ free' = free
  BY DataFileAssumption DEF SpaceInv, TypeOK, AllocEnd
<1>2. n # 0 => new \in live'
  BY <1>1 DEF NonEmpty, Store!NonEmpty
<1>3. ASSUME NEW x \in Nat, Known(x) PROVE Known(x)'
  BY <1>1, <1>3 DEF Known, Within
<1>4. ASSUME NEW x \in Pad..(end' - 1) PROVE x < end \/ Known(x)'
  <2>1. x \in Nat /\ x >= Pad /\ x < at + n
    BY <1>1
  <2>2. CASE x >= at
    <3>1. n # 0 /\ Within(new, x)
      BY <2>1, <2>2, <1>1 DEF Within
    <3>2. QED
      BY <3>1, <1>2 DEF Known, Within
  <2>3. CASE x < at
    BY <2>1, <2>3, <1>1
  <2>4. QED
    BY <2>1, <2>2, <2>3, <1>1
<1>5. QED
  BY <1>3, <1>4, KnownStays

\* Bytes handed back are in the entry they are handed back in.
LEMMA HandBackKeepsKnown ==
    ASSUME SpaceInv, SpaceInv', MarkWasted = 0,
           NEW b \in live, NEW n \in 0..(b.size - 1), FreeFrom(b, n)
    PROVE  Lost' \subseteq Lost
<1> DEFINE head == [index |-> b.index, size |-> n]
           tail == [index |-> b.index + n, size |-> b.size - n]
<1>1. /\ b.index \in Nat /\ b.size \in Nat /\ n \in Nat /\ n < b.size
      /\ free \in Seq(Block)
      /\ \A j \in DOMAIN free : free[j].index \in Nat /\ free[j].size \in Nat
  <2>1. b \in Block /\ free \in Seq(Block)
    BY DEF SpaceInv, TypeOK
  <2>2. \A j \in DOMAIN free : free[j] \in Block
    BY <2>1
  <2>3. b.index \in Nat /\ b.size \in Nat
    BY <2>1 DEF Block
  <2>4. QED
    BY <2>1, <2>2, <2>3 DEF Block
<1>2. /\ live' = (live \ {b}) \cup NonEmpty({head}) /\ end' = end
      /\ MarkFreeSpace(free, free', tail, MarkWasted)
  BY DEF FreeFrom
<1>3. n # 0 => head \in live'
  BY <1>2 DEF NonEmpty, Store!NonEmpty
<1>4. Kept(tail.size, MarkWasted) = b.size - n /\ tail.index = b.index + n
  BY <1>1 DEF Kept
<1>5. /\ \A j \in DOMAIN free : free[j].size # 0 =>
            j \in DOMAIN free' /\ free'[j] = free[j]
      /\ \E k \in DOMAIN free' : free'[k] = tail
  <2>1. CASE \E i \in DOMAIN free :
                FirstEmpty(free, i) /\ free' = [free EXCEPT ![i] = tail]
    BY <2>1, <1>1 DEF FirstEmpty
  <2>2. CASE free' = Append(free, tail)
    <3>1. /\ DOMAIN free = 1..Len(free) /\ DOMAIN free' = 1..(Len(free) + 1)
          /\ Len(free) \in Nat /\ free'[Len(free) + 1] = tail
          /\ \A j \in 1..Len(free) : free'[j] = free[j]
      BY <2>2, <1>1
    <3>2. QED
      BY <3>1
  <2>3. QED
    BY <2>1, <2>2, <1>2, <1>4 DEF MarkFreeSpace
<1>6. ASSUME NEW x \in Nat, Known(x) PROVE Known(x)'
  <2>1. CASE \E c \in live : c # b /\ Within(c, x)
    BY <2>1, <1>2 DEF Known, Within
  <2>2. CASE \E j \in DOMAIN free : Within(free[j], x)
    <3>1. PICK j \in DOMAIN free : Within(free[j], x)
      BY <2>2
    <3>2. free[j].size # 0
      BY <3>1, <1>1 DEF Within
    <3>3. QED
      BY <3>1, <3>2, <1>5 DEF Known, Within
  <2>3. CASE Within(b, x)
    <3>1. CASE x < b.index + n
      <4>1. n # 0 /\ Within(head, x)
        BY <2>3, <3>1, <1>1 DEF Within
      <4>2. QED
        BY <4>1, <1>3 DEF Known, Within
    <3>2. CASE x >= b.index + n
      <4>1. Within(tail, x)
        BY <2>3, <3>2, <1>1 DEF Within
      <4>2. QED
        BY <4>1, <1>5 DEF Known, Within
    <3>3. QED
      BY <3>1, <3>2, <1>1
  <2>4. QED
    BY <1>6, <2>1, <2>2, <2>3 DEF Known
<1>7. end \in Nat /\ Pad \in Nat
  BY DataFileAssumption DEF SpaceInv, TypeOK
<1>8. QED
  BY <1>2, <1>6, <1>7, KnownStays

\* Where nothing counts as waste, a byte once known is lost only when the list
\* is created over, or its creation meets an allocation (AllocFreeSpace,
\* MarkFreeSpace and the creation of the list in freedb.cpp).
THEOREM BytesKept ==
    ASSUME AllocWasted = 0, MarkWasted = 0
    PROVE  Spec => NoByteLost
<1>1. ASSUME SpaceInv, SpaceInv', [Next]_vars
      PROVE  [creators' = creators => Lost' \subseteq Lost]_vars
  <2> SUFFICES ASSUME creators' = creators, ~UNCHANGED vars
               PROVE  Lost' \subseteq Lost
    OBVIOUS
  <2>1. creators \in Nat
    BY <1>1 DEF SpaceInv, TypeOK
  <2>2. ~MissList /\ ~CreateList /\ \A n \in Sizes : ~AllocWhileCreated(n)
    BY <2>1 DEF MissList, CreateList, AllocWhileCreated
  <2>3. CASE \E n \in Sizes : AllocFree(n)
    BY <2>3, <1>1, TakeKeepsKnown
  <2>4. CASE \E n \in Sizes : AllocEnd(n)
    BY <2>4, <1>1, AppendKeepsKnown
  <2>5. CASE \E b \in live : \E n \in 0..(b.size - 1) : FreeFrom(b, n)
    BY <2>5, <1>1, HandBackKeepsKnown
  <2>6. QED
    BY <1>1, <2>2, <2>3, <2>4, <2>5 DEF Next
<1>2. QED
  BY <1>1, SpaceSafe, PTL DEF Spec, NoByteLost

-----------------------------------------------------------------------------
(***************************************************************************)
(* A visit that is counted twice was pushed out by others in between, for  *)
(* every length of the list and any number of requests, however long they  *)
(* wait for the lock with an old reading of the clock.                     *)
(***************************************************************************)

Slots == 1..Length

\* The visits counted among the first n, other than i, that are as late as i.
AsLate(i, n) == {k \in 1..n : k # i /\ counted[k].date >= counted[i].date}

\* pos says which visit counted each entry of the list is, 0 for an empty one.
Placed(pos) ==
    /\ pos \in [Slots -> 0..Len(counted)]
    /\ \A s \in Slots : IF pos[s] = 0 THEN reads[s].date = 0
                        ELSE reads[s] = counted[pos[s]]
    /\ \A r, s \in Slots : r # s /\ pos[r] # 0 => pos[r] # pos[s]

\* A visit counted is in the list still, or enough visits were as late as it.
OutRightly(pos) ==
    \A i \in DOMAIN counted :
        \/ \E s \in Slots : pos[s] = i
        \/ Length - 1 <= Cardinality(AsLate(i, Len(counted)))

\* Times read are not 0, which marks the empty entries.
TimesRead ==
    /\ \A i \in DOMAIN counted : counted[i].date # 0
    /\ \A p \in Procs : ~GuardAt(p, "idle") => guardLoc[p].t # 0

ListInv == \E pos \in [Slots -> 0..Len(counted)] : Placed(pos) /\ OutRightly(pos)

GuardInv == GuardTypeOK /\ TimesRead /\ ListInv /\ CountedOnce

-----------------------------------------------------------------------------
\* The sets that are counted are finite and grow with what is counted.
LEMMA AsLateFacts ==
    ASSUME NEW i, NEW m \in Nat, NEW n \in Nat, m <= n
    PROVE  /\ IsFiniteSet(AsLate(i, n))
           /\ Cardinality(AsLate(i, m)) \in Nat
           /\ Cardinality(AsLate(i, n)) \in Nat
           /\ Cardinality(AsLate(i, m)) <= Cardinality(AsLate(i, n))
<1>1. IsFiniteSet(1..n)
  BY FS_Interval
<1>2. AsLate(i, n) \in SUBSET (1..n) /\ AsLate(i, m) \in SUBSET AsLate(i, n)
  BY DEF AsLate
<1>3. IsFiniteSet(AsLate(i, n))
  BY <1>1, <1>2, FS_Subset
<1>4. IsFiniteSet(AsLate(i, m)) /\ Cardinality(AsLate(i, m)) <= Cardinality(AsLate(i, n))
  BY <1>2, <1>3, FS_Subset
<1> QED
  BY <1>3, <1>4, FS_CardinalityType

\* When the earliest entry of the list gives way, the others are as late as it
\* and are all different visits (EarliestEntry).
LEMMA OthersAsLate ==
    ASSUME PostGuardConstants, GuardTypeOK, TimesRead,
           NEW pos, Placed(pos), NEW e \in Slots, EarliestEntry(e), pos[e] # 0
    PROVE  Length - 1 <= Cardinality(AsLate(pos[e], Len(counted)))
<1> DEFINE Others == Slots \ {e}
           Late == AsLate(pos[e], Len(counted))
           f == [s \in Others |-> pos[s]]
<1>1. Length \in Nat \ {0} /\ Len(counted) \in Nat /\ pos[e] \in 1..Len(counted)
  BY DEF PostGuardConstants, GuardTypeOK, Placed
<1>2. counted[pos[e]] = reads[e] /\ counted[pos[e]].date # 0
  BY <1>1 DEF Placed, TimesRead, GuardTypeOK
<1>3. \A s \in Slots : reads[s].date \in Nat
  BY DEF GuardTypeOK, GuardEntry, Slots
<1>4. ASSUME NEW s \in Others PROVE pos[s] \in Late
  <2>1. reads[e].date <= reads[s].date
    BY DEF EarliestEntry, Slots
  <2>2. reads[s].date # 0
    BY <2>1, <1>2, <1>3
  <2>3. pos[s] \in 1..Len(counted) /\ counted[pos[s]] = reads[s]
    BY <2>2, <1>1 DEF Placed
  <2>4. pos[s] # pos[e]
    BY DEF Placed
  <2> QED
    BY <2>1, <2>3, <2>4, <1>2, <1>3 DEF AsLate
<1>5. f \in Injection(Others, Late)
  <2>1. f \in [Others -> Late]
    BY <1>4
  <2>2. ASSUME NEW r \in Others, NEW s \in Others, f[r] = f[s] PROVE r = s
    <3>1. pos[r] = pos[s] /\ pos[r] # 0
      BY <2>2, <1>4 DEF AsLate
    <3> QED
      BY <3>1 DEF Placed
  <2> QED
    BY <2>1, <2>2 DEF Injection, IsInjective
<1>6. IsFiniteSet(Slots) /\ Cardinality(Slots) = Length
  <2>1. 1 \in Int /\ Length \in Int /\ ~(1 > Length) /\ Length - 1 + 1 = Length
    BY <1>1
  <2>2. IsFiniteSet(1..Length)
    BY <2>1, FS_Interval
  <2>3. Cardinality(1..Length) = Length - 1 + 1
    BY <2>1, FS_Interval, Zenon
  <2> QED
    BY <2>1, <2>2, <2>3 DEF Slots
<1>7. Cardinality(Others) = Length - 1
  BY <1>6, FS_RemoveElement
<1>8. IsFiniteSet(Late)
  BY <1>1, AsLateFacts
<1>9. Cardinality(Others) <= Cardinality(Late)
  BY <1>5, <1>8, FS_Injection
<1> QED
  BY <1>7, <1>9

-----------------------------------------------------------------------------
LEMMA GuardInitHolds == ASSUME PostGuardConstants PROVE GuardInit => GuardInv
<1> SUFFICES ASSUME GuardInit PROVE GuardInv
  OBVIOUS
<1>1. Length \in Nat \ {0}
  BY DEF PostGuardConstants
<1>2. GuardTypeOK
  <2>1. guardNow \in 1..MaxTime
    BY DEF GuardInit, PostGuardConstants
  <2>2. reads \in [1..Length -> GuardEntry]
    BY <1>1 DEF GuardInit, Blank, GuardEntry
  <2>3. counted \in Seq(GuardEntry)
    BY DEF GuardInit
  <2> QED
    BY <2>1, <2>2, <2>3 DEF GuardInit, GuardTypeOK, GuardIdle, ReadRequest
<1>3. TimesRead /\ CountedOnce
  BY DEF GuardInit, TimesRead, CountedOnce, GuardIdle, GuardAt
<1>4. ListInv
  <2>1. counted = <<>> /\ Len(counted) = 0 /\ DOMAIN counted = {}
    BY DEF GuardInit
  <2>2. Placed([s \in Slots |-> 0]) /\ OutRightly([s \in Slots |-> 0])
    BY <2>1 DEF GuardInit, Blank, Placed, OutRightly, Slots
  <2> QED
    BY <2>1, <2>2 DEF ListInv, Placed
<1> QED
  BY <1>2, <1>3, <1>4 DEF GuardInv

\* A step that leaves the list and what was counted as they are.
LEMMA SameList ==
    ASSUME GuardInv, GuardTypeOK', TimesRead', UNCHANGED <<reads, counted>>
    PROVE  GuardInv'
<1>1. ListInv'
  BY DEF GuardInv, ListInv, Placed, OutRightly, AsLate
<1>2. CountedOnce'
  BY DEF GuardInv, CountedOnce
<1> QED
  BY <1>1, <1>2 DEF GuardInv

LEMMA TickHolds == ASSUME PostGuardConstants, GuardInv, GuardTick PROVE GuardInv'
<1>1. GuardTypeOK'
  <2>1. guardNow' \in 1..MaxTime /\ guardNow <= guardNow'
    BY DEF GuardInv, GuardTypeOK, GuardTick, PostGuardConstants
  <2>2. \A p \in Procs : guardLoc[p].t <= guardNow'
    BY <2>1 DEF GuardInv, GuardTypeOK, ReadRequest, PostGuardConstants
  <2> QED
    BY <2>1, <2>2 DEF GuardInv, GuardTypeOK, GuardTick
<1>2. TimesRead'
  BY DEF GuardInv, TimesRead, GuardTick, GuardAt
<1> QED
  BY <1>1, <1>2, SameList DEF GuardTick

LEMMA BeginHolds ==
    ASSUME PostGuardConstants, GuardInv, NEW p \in Procs, BeginVisit(p)
    PROVE  GuardInv'
<1>1. guardNow \in 1..MaxTime /\ guardNow \in Nat \ {0}
  BY DEF GuardInv, GuardTypeOK, PostGuardConstants
<1>2. PICK new \in ReadRequest : new.t = guardNow /\ guardLoc' = [guardLoc EXCEPT ![p] = new]
  <2>1. CASE guardLoc' = [guardLoc EXCEPT ![p] = [GuardIdle EXCEPT !.pc = "open", !.t = guardNow]]
    <3>1. [GuardIdle EXCEPT !.pc = "open", !.t = guardNow] \in ReadRequest
      BY <1>1 DEF GuardIdle, ReadRequest
    <3> QED
      BY <2>1, <3>1 DEF GuardIdle
  <2>2. CASE \E v \in Visits : guardLoc' = [guardLoc EXCEPT ![p] =
                [pc |-> "open", op |-> "view", visit |-> v, t |-> guardNow]]
    BY <2>2, <1>1 DEF ReadRequest
  <2> QED
    BY <2>1, <2>2 DEF BeginVisit
<1>3. \A q \in Procs : guardLoc'[q] = IF q = p THEN new ELSE guardLoc[q]
  BY <1>2 DEF GuardInv, GuardTypeOK
<1>4. GuardTypeOK'
  <2>1. guardLoc' \in [Procs -> ReadRequest]
    BY <1>2 DEF GuardInv, GuardTypeOK
  <2>2. \A q \in Procs : guardLoc'[q].t <= guardNow
    BY <1>1, <1>2, <1>3 DEF GuardInv, GuardTypeOK
  <2> QED
    BY <2>1, <2>2 DEF GuardInv, GuardTypeOK, BeginVisit
<1>5. TimesRead'
  BY <1>1, <1>2, <1>3 DEF GuardInv, TimesRead, BeginVisit, GuardAt
<1> QED
  BY <1>4, <1>5, SameList DEF BeginVisit

\* What Goto and End do to the requests, whatever else happens.
LEMMA Going ==
    ASSUME GuardInv, NEW p \in Procs, UNCHANGED guardNow,
           \/ EndVisit(p)
           \/ ~GuardAt(p, "idle") /\ \E pc \in {"create", "fill", "check"} : GuardGoto(p, pc)
    PROVE  /\ guardLoc' \in [Procs -> ReadRequest]
           /\ \A q \in Procs : guardLoc'[q].t <= guardNow'
           /\ \A q \in Procs : ~(guardLoc'[q].pc = "idle") => guardLoc'[q].t # 0
<1>1. /\ guardLoc \in [Procs -> ReadRequest] /\ guardNow \in Nat
      /\ \A q \in Procs : guardLoc[q].t <= guardNow
      /\ \A q \in Procs : guardLoc[q].pc # "idle" => guardLoc[q].t # 0
  BY DEF GuardInv, GuardTypeOK, TimesRead, GuardAt
<1>2. CASE EndVisit(p)
  <2>1. GuardIdle \in ReadRequest /\ GuardIdle.t <= guardNow /\ GuardIdle.pc = "idle"
    BY <1>1 DEF GuardIdle, ReadRequest
  <2> QED
    BY <1>1, <1>2, <2>1 DEF EndVisit
<1>3. CASE ~GuardAt(p, "idle") /\ \E pc \in {"create", "fill", "check"} : GuardGoto(p, pc)
  <2>1. PICK pc \in {"create", "fill", "check"} : guardLoc' = [guardLoc EXCEPT ![p].pc = pc]
    BY <1>3 DEF GuardGoto
  <2>2. guardLoc' \in [Procs -> ReadRequest]
    BY <1>1, <2>1 DEF ReadRequest
  <2>3. \A q \in Procs : guardLoc'[q].t = guardLoc[q].t /\ (q # p => guardLoc'[q].pc = guardLoc[q].pc)
    BY <1>1, <2>1 DEF ReadRequest
  <2> QED
    BY <1>1, <1>3, <2>2, <2>3 DEF GuardAt
<1> QED
  BY <1>2, <1>3

\* The steps that end a request or move it on and leave list and file alone, or
\* only open the file.
LEMMA OthersHold ==
    ASSUME GuardInv, NEW p \in Procs, OpenGuard(p) \/ CreateGuard(p) \/ CheckOnly(p)
    PROVE  GuardInv'
<1>1. /\ UNCHANGED <<guardNow, reads, counted>> /\ made' \in {"missing", "empty", "made"}
      /\ \/ EndVisit(p)
         \/ ~GuardAt(p, "idle") /\ \E pc \in {"create", "fill", "check"} : GuardGoto(p, pc)
  BY DEF OpenGuard, CreateGuard, CheckOnly, GuardAt, GuardInv, GuardTypeOK
<1>2. GuardTypeOK' /\ TimesRead'
  BY <1>1, Going DEF GuardInv, GuardTypeOK, TimesRead, GuardAt
<1> QED
  BY <1>1, <1>2, SameList

\* Filling the file forgets what was counted, which is what `counted' says.
LEMMA FillHolds ==
    ASSUME PostGuardConstants, GuardInv, NEW p \in Procs, FillGuard(p)
    PROVE  GuardInv'
<1>1. /\ UNCHANGED guardNow /\ made' = "made" /\ reads' = Blank /\ counted' = <<>>
      /\ \/ EndVisit(p)
         \/ ~GuardAt(p, "idle") /\ \E pc \in {"create", "fill", "check"} : GuardGoto(p, pc)
  BY DEF FillGuard, GuardAt
<1>2. Blank \in [1..Length -> GuardEntry]
  BY DEF Blank, GuardEntry
<1>3. GuardTypeOK' /\ TimesRead'
  BY <1>1, <1>2, Going DEF GuardInv, GuardTypeOK, TimesRead, GuardAt
<1>4. ListInv'
  <2> DEFINE none == [s \in Slots |-> 0]
  <2>1. Len(counted') = 0 /\ DOMAIN counted' = {}
    BY <1>1
  <2>2. none \in [Slots -> 0..Len(counted')]
    BY <2>1
  <2>3. /\ \A s \in Slots : none[s] = 0 /\ reads'[s].date = 0
    BY <1>1 DEF Blank, Slots
  <2> QED
    BY <2>1, <2>2, <2>3 DEF ListInv, Placed, OutRightly
<1>5. CountedOnce'
  BY <1>1 DEF CountedOnce
<1> QED
  BY <1>3, <1>4, <1>5 DEF GuardInv

-----------------------------------------------------------------------------
\* A visit is counted and takes the place of the earliest one.
LEMMA CheckReadHolds ==
    ASSUME PostGuardConstants, GuardInv, NEW p \in Procs, CheckRead(p)
    PROVE  GuardInv'
<1> DEFINE new == [visit |-> guardLoc[p].visit, date |-> guardLoc[p].t]
<1> PICK n \in Nat : n = Len(counted)
  BY DEF GuardInv, GuardTypeOK
<1>1. PICK pos \in [Slots -> 0..n] : Placed(pos) /\ OutRightly(pos)
  BY DEF GuardInv, ListInv
<1>2. PICK e \in Slots : EarliestEntry(e) /\ reads' = [reads EXCEPT ![e] = new]
  BY DEF CheckRead, Slots
<1>3. new \in GuardEntry /\ new.date # 0 /\ counted \in Seq(GuardEntry) /\ n \in Nat
  BY DEF GuardInv, GuardTypeOK, TimesRead, CheckRead, ReadRequest, GuardEntry, GuardAt
<1>4. /\ counted' = Append(counted, new) /\ counted' \in Seq(GuardEntry) /\ Len(counted') = n + 1
      /\ \A i \in 1..n : counted'[i] = counted[i]
      /\ counted'[n + 1] = new
  BY <1>3 DEF CheckRead
<1>5. GuardTypeOK'
  <2>1. reads' \in [1..Length -> GuardEntry]
    BY <1>2, <1>3 DEF GuardInv, GuardTypeOK, Slots
  <2> QED
    BY <2>1, <1>4, Going DEF GuardInv, GuardTypeOK, CheckRead
<1>6. TimesRead'
  BY <1>3, <1>4, Going DEF GuardInv, TimesRead, CheckRead, GuardAt
\* For a visit counted before, the visits as late as it can only get more.
<1>7. ASSUME NEW i \in 1..n, Length - 1 <= Cardinality(AsLate(i, n))
      PROVE  Length - 1 <= Cardinality(AsLate(i, n + 1)')
  <2>1. AsLate(i, n) \in SUBSET (AsLate(i, n + 1)') /\ AsLate(i, n + 1)' \in SUBSET (1..(n + 1))
    BY <1>3, <1>4 DEF AsLate
  <2>2. IsFiniteSet(1..(n + 1))
    <3>1. 1 \in Int /\ n + 1 \in Int
      OBVIOUS
    <3> QED
      BY <3>1, FS_Interval, Zenon
  <2>3. IsFiniteSet(AsLate(i, n + 1)')
    BY <2>1, <2>2, FS_Subset
  <2>4. Cardinality(AsLate(i, n)) <= Cardinality(AsLate(i, n + 1)')
    BY <2>1, <2>3, FS_Subset
  <2>5. Cardinality(AsLate(i, n)) \in Nat /\ Cardinality(AsLate(i, n + 1)') \in Nat
    BY <2>1, <2>3, FS_Subset, FS_CardinalityType
  <2> QED
    BY <1>7, <2>4, <2>5 DEF PostGuardConstants
<1>8. ListInv'
  <2> DEFINE moved == [pos EXCEPT ![e] = n + 1]
  <2>1. moved \in [Slots -> 0..(n + 1)] /\ \A s \in Slots : moved[s] = IF s = e THEN n + 1 ELSE pos[s]
    BY <1>1, <1>3
  <2>2. Placed(moved)'
    <3>1. \A s \in Slots : IF moved[s] = 0 THEN reads'[s].date = 0
                           ELSE reads'[s] = counted'[moved[s]]
      BY <2>1, <1>1, <1>2, <1>3, <1>4 DEF Placed, GuardInv, GuardTypeOK, Slots
    <3>2. \A r, s \in Slots : r # s /\ moved[r] # 0 => moved[r] # moved[s]
      BY <2>1, <1>1, <1>3 DEF Placed
    <3> QED
      BY <2>1, <3>1, <3>2, <1>4 DEF Placed
  <2>3. ASSUME NEW i \in 1..(n + 1)
        PROVE  \/ \E s \in Slots : moved[s] = i
               \/ Length - 1 <= Cardinality(AsLate(i, n + 1)')
    <3>1. CASE i = n + 1
      BY <3>1, <2>1, <1>2
    <3>2. CASE i \in 1..n /\ \E s \in Slots : pos[s] = i /\ s # e
      BY <3>2, <2>1
    <3>3. CASE i \in 1..n /\ pos[e] = i
      <4>1. Length - 1 <= Cardinality(AsLate(i, n))
        BY <3>3, <1>1, <1>2, OthersAsLate DEF GuardInv
      <4> QED
        BY <3>3, <4>1, <1>7
    <3>4. CASE i \in 1..n /\ ~\E s \in Slots : pos[s] = i
      <4>1. Length - 1 <= Cardinality(AsLate(i, n))
        BY <3>4, <1>1, <1>3 DEF OutRightly
      <4> QED
        BY <3>4, <4>1, <1>7
    <3> QED
      BY <3>1, <3>2, <3>3, <3>4, <1>3
  <2>4. DOMAIN counted' = 1..(n + 1)
    BY <1>4
  <2>5. OutRightly(moved)'
    BY <2>3, <2>4, <1>4 DEF OutRightly
  <2> QED
    BY <2>1, <2>2, <2>5, <1>4 DEF ListInv
\* A visit that is not in the list was pushed out rightly.
<1>9. CountedOnce'
  <2> SUFFICES ASSUME NEW i \in 1..(n + 1), NEW j \in 1..(n + 1),
                      i < j, counted'[i].visit = counted'[j].visit
               PROVE  Length - 1 <= Cardinality(AsLate(i, j - 1)')
    <3>1. DOMAIN counted' = 1..(n + 1)
      BY <1>4
    <3> QED
      BY <3>1 DEF CountedOnce, AsLate
  <2>1. AsLate(i, j - 1)' = AsLate(i, j - 1)
    BY <1>3, <1>4 DEF AsLate
  <2>2. CASE j <= n
    <3>1. i \in 1..n /\ j \in 1..n /\ counted[i].visit = counted[j].visit
      BY <2>2, <1>3, <1>4
    <3>2. DOMAIN counted = 1..n
      BY <1>3
    <3> QED
      BY <2>1, <3>1, <3>2 DEF GuardInv, CountedOnce, AsLate
  <2>3. CASE j = n + 1
    <3>1. i \in 1..n /\ counted[i].visit = guardLoc[p].visit
      BY <2>3, <1>3, <1>4
    <3>2. ~\E s \in Slots : pos[s] = i
      <4>1. \A s \in Slots : reads[s].visit # guardLoc[p].visit
        BY DEF CheckRead, Slots
      <4> QED
        BY <3>1, <4>1, <1>1 DEF Placed
    <3> QED
      BY <2>1, <2>3, <3>1, <3>2, <1>1, <1>3 DEF OutRightly
  <2> QED
    BY SMTT(40), <2>2, <2>3, <1>3
<1> QED
  BY <1>5, <1>6, <1>8, <1>9 DEF GuardInv

LEMMA GuardStepHolds == ASSUME PostGuardConstants PROVE GuardInv /\ [GuardNext]_guardVars => GuardInv'
<1> SUFFICES ASSUME GuardInv, [GuardNext]_guardVars PROVE GuardInv'
  OBVIOUS
<1>1. CASE GuardTick
  BY <1>1, TickHolds
<1>2. CASE \E p \in Procs : BeginVisit(p) \/ OpenGuard(p) \/ CreateGuard(p) \/ FillGuard(p) \/ CheckRead(p) \/ CheckOnly(p)
  BY <1>2, BeginHolds, OthersHold, FillHolds, CheckReadHolds
<1>3. CASE UNCHANGED guardVars
  <2>1. GuardTypeOK' /\ TimesRead'
    BY <1>3 DEF GuardInv, GuardTypeOK, TimesRead, GuardAt, guardVars
  <2> QED
    BY <1>3, <2>1, SameList DEF guardVars
<1> QED
  BY <1>1, <1>2, <1>3 DEF GuardNext

\* A visit is counted once while it is remembered: when it is counted again, at
\* least as many visits as the list has other entries were as late as it
\* (CheckReadValidity, CheckForIpAndMsgInQueue).
THEOREM CountedAgainRightly ==
    ASSUME PostGuardConstants PROVE GuardSpec => [](GuardTypeOK /\ CountedOnce)
<1>1. GuardInit => GuardInv
  BY GuardInitHolds
<1>2. GuardInv /\ [GuardNext]_guardVars => GuardInv'
  BY GuardStepHolds
<1>3. GuardInv => GuardTypeOK /\ CountedOnce
  BY DEF GuardInv
<1> QED
  BY <1>1, <1>2, <1>3, PTL DEF GuardSpec
-----------------------------------------------------------------------------
(***************************************************************************)
(* The announcements' numbers go up in the file, and none is lost while    *)
(* another is deleted, for any number of requests.  A deletion holds the   *)
(* lock from before it moves the announcements up until the file is cut:   *)
(* in between the file has one announcement too many at its end, and it is *)
(* there twice or the one to be deleted.                                   *)
(***************************************************************************)

AnnRequest ==
    [pc : {"idle", "replace", "cut"}, user : Announcers \cup {None}, number : Nat, end : Nat]

Fields ==
    /\ next \in 1..MaxNumber
    /\ anns \in Seq(Announce)
    /\ annLock \in Procs \cup {None} /\ torn \in BOOLEAN
    /\ annLoc \in [Procs -> AnnRequest]
    /\ \A p \in Procs : annLoc[p].number \in 0..(next - 1)

\* Who is about to cut the file holds the lock, and nobody else does.
LockHeldToCut == \A p \in Procs : annLoc[p].pc = "cut" <=> annLock = p

\* The numbers go up to place n.
GoUpTo(n) == \A i, j \in 1..n : i < j => anns[i].number < anns[j].number

Below == \A i \in 1..Len(anns) : anns[i].number < next

InOrder == ~torn /\ annLock = None => GoUpTo(Len(anns))

\* While a deletion holds the lock, the file is in order but for its last
\* announcement, and this is the one to be deleted or there before.
OneTooMany ==
    \A p \in Procs : annLock = p =>
        /\ Len(anns) > 0 /\ annLoc[p].end = Len(anns) - 1
        /\ ~torn => GoUpTo(Len(anns) - 1)
        /\ \/ anns[Len(anns)].number = annLoc[p].number
           \/ \E i \in 1..(Len(anns) - 1) : anns[i].number = anns[Len(anns)].number

AnnInv == Fields /\ LockHeldToCut /\ Below /\ InOrder /\ OneTooMany

\* What OthersStay says of one step.
LostByDeletion ==
    \A n \in Numbers \ Numbers' :
        \E p \in Procs :
            /\ annLock = p \/ annLock' = p
            /\ n \in {annLoc[p].number, annLoc'[p].number}

-----------------------------------------------------------------------------
\* The numbers in the file, place by place.
LEMMA NumbersFacts ==
    ASSUME Fields
    PROVE  Numbers = {anns[i].number : i \in 1..Len(anns)}
<1>1. ToSet(anns) = {anns[i] : i \in 1..Len(anns)}
  BY LenProperties DEF Fields, ToSet
<1>2. QED
  BY <1>1 DEF Numbers

\* What DeleteGlobalAnnounce finds has the number asked for.
LEMMA FoundFacts ==
    ASSUME Fields, NEW n, NEW all \in BOOLEAN, NEW u, Found(n, all, u) # 0
    PROVE  \/ /\ Found(n, all, u) \in 1..Len(anns)
              /\ anns[Found(n, all, u)].number = n
           \/ /\ Found(n, all, u) = Len(anns) + 1 /\ Len(anns) > 0
              /\ anns[Len(anns)].number = n
<1> DEFINE I == {i \in 1..Len(anns) : anns[i].number = n /\ (all \/ anns[i].from = u)}
           it == IF I # {} THEN Min(I) ELSE 0
<1>1. Found(n, all, u) = IF it # 0 THEN it
                         ELSE IF anns # <<>> /\ Last(anns).number = n THEN Len(anns) + 1 ELSE 0
  BY DEF Found, SelectInSeq
<1>2. Len(anns) \in Nat /\ anns \in Seq(Announce)
  BY DEF Fields
<1>3. CASE I # {}
  <2>1. I \in SUBSET (1..Len(anns))
    OBVIOUS
  <2>2. Min(I) \in I
    BY <1>2, <1>3, <2>1, SearchFacts
  <2>3. it = Min(I) /\ it # 0
    BY <1>2, <1>3, <2>2
  <2>4. QED
    BY <1>1, <2>2, <2>3
<1>4. CASE I = {}
  <2>1. it = 0
    BY <1>4
  <2>2. anns # <<>> /\ Last(anns).number = n /\ Found(n, all, u) = Len(anns) + 1
    BY <1>1, <2>1
  <2>3. Len(anns) > 0 /\ Last(anns) = anns[Len(anns)]
    BY <1>2, <2>2 DEF Last
  <2>4. QED
    BY <2>2, <2>3
<1>5. QED
  BY <1>3, <1>4

\* The announcements moved up: one with the number asked for is gone, and the
\* last one is still at its place.
LEMMA MoveUpFacts ==
    ASSUME Fields, NEW p \in Procs, NEW n, NEW all \in BOOLEAN, NEW u, MoveUp(p, n, all, u)
    PROVE  /\ Len(anns) > 0 /\ anns' \in Seq(Announce) /\ Len(anns') = Len(anns)
           /\ anns'[Len(anns)] = anns[Len(anns)]
           /\ \E i \in 1..Len(anns) :
                /\ anns[i].number = n
                /\ \A j \in 1..(Len(anns) - 1) :
                      anns'[j] = IF j < i THEN anns[j] ELSE anns[j + 1]
<1> DEFINE f == Found(n, all, u)
           moved == MovedUp(f)
<1>1. f # 0 /\ anns' = moved \o SubSeq(anns, Len(moved) + 1, Len(anns))
  BY DEF MoveUp
<1>2. anns \in Seq(Announce) /\ Len(anns) \in Nat
  BY DEF Fields
<1>3. CASE f \in 1..Len(anns) /\ anns[f].number = n
  <2>1. moved = RemoveAt(anns, f)
    BY DEF MovedUp, RemoveAt
  <2>2. /\ moved \in Seq(Announce) /\ Len(moved) = Len(anns) - 1
        /\ \A j \in 1..(Len(anns) - 1) :
              moved[j] = IF j < f THEN anns[j] ELSE anns[j + 1]
    BY <1>2, <1>3, <2>1, RemoveAtFacts
  <2>3. Len(anns) > 0 /\ Len(moved) + 1 = Len(anns)
    BY <1>2, <1>3, <2>2
  <2>4. SubSeq(anns, Len(anns), Len(anns)) = <<anns[Len(anns)]>>
    BY <1>2, <2>3, LastAlone
  <2> HIDE DEF moved, f
  <2>5. anns' = Append(moved, anns[Len(anns)])
    <3>1. anns' = moved \o <<anns[Len(anns)]>>
      BY <1>1, <2>3, <2>4
    <3>2. QED
      BY <1>2, <2>2, <2>3, <3>1
  <2>6. /\ anns' \in Seq(Announce) /\ Len(anns') = Len(anns)
        /\ \A j \in 1..(Len(anns) - 1) : anns'[j] = moved[j]
        /\ anns'[Len(anns)] = anns[Len(anns)]
    BY <1>2, <2>2, <2>3, <2>5
  <2>7. QED
    BY <1>3, <2>2, <2>3, <2>6
<1>4. CASE f = Len(anns) + 1 /\ Len(anns) > 0 /\ anns[Len(anns)].number = n
  <2>1. moved = SubSeq(anns, 1, Len(anns)) \o SubSeq(anns, Len(anns) + 2, Len(anns))
    <3>1. f - 1 = Len(anns) /\ f + 1 = Len(anns) + 2
      BY <1>2, <1>4
    <3>2. moved = SubSeq(anns, 1, f - 1) \o SubSeq(anns, f + 1, Len(anns))
      BY DEF MovedUp
    <3> HIDE DEF moved, f
    <3>3. QED
      BY <3>1, <3>2
  <2>2. SubSeq(anns, 1, Len(anns)) = anns /\ SubSeq(anns, Len(anns) + 2, Len(anns)) = <<>>
        /\ SubSeq(anns, Len(anns) + 1, Len(anns)) = <<>>
    BY <1>2
  <2> HIDE DEF moved, f
  <2>3. moved = anns
    <3>1. moved = anns \o <<>>
      BY <2>1, <2>2
    <3>2. QED
      BY <1>2, <3>1, ConcatEmptySeq
  <2>4. anns' = anns
    <3>1. anns' = anns \o <<>>
      BY <1>1, <2>2, <2>3
    <3>2. QED
      BY <1>2, <3>1, ConcatEmptySeq
  <2>5. \A j \in 1..(Len(anns) - 1) :
           anns'[j] = IF j < Len(anns) THEN anns[j] ELSE anns[j + 1]
    BY <1>2, <2>4
  <2>6. Len(anns) \in 1..Len(anns)
    BY <1>2, <1>4
  <2>7. QED
    BY <1>2, <1>4, <2>4, <2>5, <2>6
<1>5. QED
  BY ZenonT(40), <1>1, <1>3, <1>4, FoundFacts

\* A deletion begins.
LEMMA MoveUpHolds ==
    ASSUME AnnouncesConstants, AnnInv, NEW p \in Procs, NEW n \in 0..(next - 1),
           NEW all \in BOOLEAN, NEW u \in Announcers \cup {None}, MoveUp(p, n, all, u)
    PROVE  AnnInv' /\ LostByDeletion
<1>1. /\ annLock = None /\ annLock' = p /\ next' = next /\ torn' = torn
      /\ annLoc' = [annLoc EXCEPT ![p] = [pc |-> "cut", user |-> u, number |-> n,
                                    end |-> Len(anns) - 1]]
  BY DEF MoveUp
<1>2. Fields /\ LockHeldToCut /\ Below /\ InOrder
  BY DEF AnnInv
<1>3. anns \in Seq(Announce) /\ Len(anns) \in Nat /\ None \notin Procs /\ next \in Nat
      /\ annLoc \in [Procs -> AnnRequest]
  BY <1>2 DEF Fields, AnnouncesConstants
<1>4. /\ Len(anns) > 0 /\ anns' \in Seq(Announce) /\ Len(anns') = Len(anns)
      /\ anns'[Len(anns)] = anns[Len(anns)]
  BY <1>2, MoveUpFacts
<1>5. PICK i \in 1..Len(anns) :
        /\ anns[i].number = n
        /\ \A j \in 1..(Len(anns) - 1) : anns'[j] = IF j < i THEN anns[j] ELSE anns[j + 1]
  BY <1>2, MoveUpFacts
<1>6. /\ annLoc'[p].pc = "cut" /\ annLoc'[p].number = n /\ annLoc'[p].end = Len(anns) - 1
      /\ \A q \in Procs \ {p} : annLoc'[q] = annLoc[q] /\ annLoc[q].pc # "cut"
  BY <1>1, <1>2, <1>3 DEF LockHeldToCut
<1>7. Fields'
  <2>1. [pc |-> "cut", user |-> u, number |-> n, end |-> Len(anns) - 1] \in AnnRequest
    BY <1>3, <1>4 DEF AnnRequest
  <2>2. annLoc' \in [Procs -> AnnRequest]
    BY <1>1, <1>3, <2>1
  <2>3. \A q \in Procs : annLoc'[q].number \in 0..(next' - 1)
    BY <1>1, <1>2, <1>6 DEF Fields
  <2>4. QED
    BY <1>1, <1>2, <1>4, <2>2, <2>3 DEF Fields
<1>8. LockHeldToCut'
  BY <1>1, <1>6 DEF LockHeldToCut
<1>9. Below'
  <2>1. ASSUME NEW j \in 1..Len(anns)
        PROVE  anns'[j].number < next
    <3>1. CASE j = Len(anns)
      BY <1>2, <1>3, <1>4, <3>1 DEF Below
    <3>2. CASE j < Len(anns)
      <4>1. j \in 1..Len(anns) /\ j + 1 \in 1..Len(anns) /\ j \in 1..(Len(anns) - 1)
        BY <1>3, <3>2
      <4>2. anns'[j] = anns[j] \/ anns'[j] = anns[j + 1]
        BY <1>5, <4>1
      <4>3. QED
        BY <1>2, <4>1, <4>2 DEF Below
    <3>3. QED
      BY <1>3, <3>1, <3>2
  <2>2. QED
    BY <1>1, <1>4, <2>1 DEF Below
<1>10. InOrder'
  BY <1>1, <1>3 DEF InOrder
<1>11. ~torn => GoUpTo(Len(anns) - 1)'
  <2>1. SUFFICES ASSUME ~torn, NEW j \in 1..(Len(anns) - 1), NEW k \in 1..(Len(anns) - 1), j < k
                 PROVE  anns'[j].number < anns'[k].number
    BY <1>4 DEF GoUpTo
  <2>2. \A x, y \in 1..Len(anns) : x < y => anns[x].number < anns[y].number
    BY <1>1, <1>2, <2>1 DEF InOrder, GoUpTo
  <2> DEFINE Old(x) == IF x < i THEN x ELSE x + 1
  <2>3. /\ Old(j) \in 1..Len(anns) /\ Old(k) \in 1..Len(anns) /\ Old(j) < Old(k)
        /\ anns'[j] = anns[Old(j)] /\ anns'[k] = anns[Old(k)]
    <3>1. Old(j) \in 1..Len(anns) /\ Old(k) \in 1..Len(anns) /\ Old(j) < Old(k)
      BY <1>3, <2>1
    <3>2. anns'[j] = anns[Old(j)] /\ anns'[k] = anns[Old(k)]
      BY <1>5, <2>1
    <3>3. QED
      BY <3>1, <3>2
  <2>4. QED
    BY <2>2, <2>3
<1>12. \/ anns'[Len(anns)].number = n
       \/ \E j \in 1..(Len(anns) - 1) : anns'[j].number = anns'[Len(anns)].number
  <2>1. CASE i = Len(anns)
    BY <1>4, <1>5, <2>1
  <2>2. CASE i < Len(anns)
    <3>1. Len(anns) - 1 \in 1..(Len(anns) - 1) /\ ~(Len(anns) - 1 < i)
          /\ (Len(anns) - 1) + 1 = Len(anns)
      BY <1>3, <2>2
    <3>2. anns'[Len(anns) - 1] = anns[(Len(anns) - 1) + 1]
      BY <1>5, <3>1
    <3>3. QED
      BY <1>4, <3>1, <3>2
  <2>3. QED
    BY <1>3, <2>1, <2>2
<1>13. OneTooMany'
  <2>1. SUFFICES /\ Len(anns') > 0 /\ annLoc'[p].end = Len(anns') - 1
                 /\ ~torn' => GoUpTo(Len(anns) - 1)'
                 /\ \/ anns'[Len(anns)].number = n
                    \/ \E j \in 1..(Len(anns) - 1) : anns'[j].number = anns'[Len(anns)].number
    BY <1>1, <1>4, <1>6 DEF OneTooMany, GoUpTo
  <2>2. QED
    BY <1>1, <1>4, <1>6, <1>11, <1>12
<1>14. LostByDeletion
  <2>1. SUFFICES ASSUME NEW k \in 1..Len(anns), anns[k].number # n
                 PROVE  \E j \in 1..Len(anns) : anns'[j].number = anns[k].number
    <3>1. Numbers = {anns[k].number : k \in 1..Len(anns)}
      BY <1>2, NumbersFacts
    <3>2. Numbers' = {anns'[k].number : k \in 1..Len(anns)}
      <4>1. ToSet(anns') = {anns'[k] : k \in 1..Len(anns)}
        BY <1>4, LenProperties DEF ToSet
      <4>2. QED
        BY <4>1 DEF Numbers
    <3>3. \A x \in Numbers \ Numbers' : x = n
      BY <2>1, <3>1, <3>2
    <3>4. QED
      BY <1>1, <1>6, <3>3 DEF LostByDeletion
  <2>2. k # i
    BY <1>5, <2>1
  <2>3. CASE k < i
    <3>1. k \in 1..(Len(anns) - 1) /\ k \in 1..Len(anns)
      BY <1>3, <2>3
    <3>2. anns'[k] = anns[k]
      BY <1>5, <2>3, <3>1
    <3>3. QED
      BY <3>1, <3>2
  <2>4. CASE k > i
    <3>1. k - 1 \in 1..(Len(anns) - 1) /\ k - 1 \in 1..Len(anns) /\ ~(k - 1 < i)
          /\ (k - 1) + 1 = k
      BY <1>3, <2>4
    <3>2. anns'[k - 1] = anns[(k - 1) + 1]
      BY <1>5, <3>1
    <3>3. QED
      BY <3>1, <3>2
  <2>5. QED
    BY <2>2, <2>3, <2>4
<1>15. QED
  BY <1>7, <1>8, <1>9, <1>10, <1>13, <1>14 DEF AnnInv

\* An announcement is posted.
LEMMA PostHolds ==
    ASSUME AnnouncesConstants, AnnInv, NEW p \in Procs, PostAnnounce(p)
    PROVE  AnnInv' /\ LostByDeletion
<1>1. /\ annLoc[p].pc = "idle" /\ annLock = None /\ next < MaxNumber /\ next' = next + 1
      /\ annLock' = annLock /\ torn' = torn
  BY DEF PostAnnounce, AnnAt, NextNumber
<1>2. PICK u \in Announcers :
        /\ anns' = Append(anns, [number |-> next, from |-> u])
        /\ \/ annLoc' = annLoc
           \/ \E n \in 1..(next - 1) :
                 annLoc' = [annLoc EXCEPT ![p] = [AnnIdle EXCEPT !.pc = "replace", !.user = u, !.number = n]]
  BY DEF PostAnnounce
<1>3. Fields /\ LockHeldToCut /\ Below /\ InOrder
  BY DEF AnnInv
<1>4. /\ anns \in Seq(Announce) /\ Len(anns) \in Nat /\ None \notin Procs
      /\ next \in Nat /\ next > 0 /\ MaxNumber \in Nat /\ annLoc \in [Procs -> AnnRequest]
  BY <1>3 DEF Fields, AnnouncesConstants
<1> DEFINE new == [number |-> next, from |-> u]
<1>5. new \in Announce /\ new.number = next
  BY <1>4 DEF Announce
<1>6. /\ anns' \in Seq(Announce) /\ Len(anns') = Len(anns) + 1
      /\ \A i \in 1..Len(anns) : anns'[i] = anns[i]
      /\ anns'[Len(anns) + 1].number = next
  <2>1. anns' = Append(anns, new)
    BY <1>2
  <2> HIDE DEF new
  <2>2. QED
    BY <1>4, <1>5, <2>1
<1>7. /\ annLoc' \in [Procs -> AnnRequest]
      /\ \A q \in Procs : annLoc'[q].number \in 0..(next' - 1)
      /\ \A q \in Procs : (annLoc'[q].pc = "cut") <=> (annLoc[q].pc = "cut")
  <2>1. CASE annLoc' = annLoc
    BY <1>1, <1>3, <1>4, <2>1 DEF Fields
  <2>2. ASSUME NEW n \in 1..(next - 1),
               annLoc' = [annLoc EXCEPT ![p] = [AnnIdle EXCEPT !.pc = "replace", !.user = u, !.number = n]]
        PROVE  <1>7!1 /\ <1>7!2 /\ <1>7!3
    <3> DEFINE r == [AnnIdle EXCEPT !.pc = "replace", !.user = u, !.number = n]
    <3>1. r \in AnnRequest /\ r.pc = "replace" /\ r.number = n
      <4>1. AnnIdle \in AnnRequest /\ n \in Nat
        BY <1>4 DEF AnnIdle, AnnRequest
      <4>2. QED
        BY <4>1 DEF AnnRequest
    <3> HIDE DEF r
    <3>2. annLoc' = [annLoc EXCEPT ![p] = r]
      BY <2>2 DEF r
    <3>3. \A q \in Procs : annLoc'[q] = IF q = p THEN r ELSE annLoc[q]
      BY <1>4, <3>2
    <3>4. QED
      BY <1>1, <1>3, <1>4, <3>1, <3>2, <3>3 DEF Fields
  <2>3. QED
    BY <1>2, <2>1, <2>2
<1>8. Fields'
  BY <1>1, <1>3, <1>4, <1>6, <1>7 DEF Fields
<1>9. LockHeldToCut'
  BY <1>1, <1>3, <1>7 DEF LockHeldToCut
<1>10. Below'
  <2>1. ASSUME NEW i \in 1..(Len(anns) + 1)
        PROVE  anns'[i].number < next + 1
    <3>1. CASE i = Len(anns) + 1
      BY <1>4, <1>6, <3>1
    <3>2. CASE i \in 1..Len(anns)
      <4>1. anns[i].number < next /\ anns[i] \in Announce /\ anns'[i] = anns[i]
        BY <1>3, <1>4, <1>6, <3>2 DEF Below
      <4>2. anns[i].number \in Nat
        BY <4>1 DEF Announce
      <4>3. QED
        BY <1>4, <4>1, <4>2
    <3>3. QED
      BY <1>4, <2>1, <3>1, <3>2
  <2>2. QED
    BY <1>1, <1>6, <2>1 DEF Below
<1>11. InOrder'
  <2>1. ASSUME ~torn, NEW i \in 1..(Len(anns) + 1), NEW j \in 1..(Len(anns) + 1), i < j
        PROVE  anns'[i].number < anns'[j].number
    <3>1. i \in 1..Len(anns)
      BY <1>4, <2>1
    <3>2. CASE j = Len(anns) + 1
      BY <1>3, <1>6, <3>1, <3>2 DEF Below
    <3>3. CASE j \in 1..Len(anns)
      BY <1>1, <1>3, <1>6, <2>1, <3>1, <3>3 DEF InOrder, GoUpTo
    <3>4. QED
      BY <1>4, <2>1, <3>2, <3>3
  <2>2. QED
    BY <1>1, <1>6, <2>1 DEF InOrder, GoUpTo
<1>12. OneTooMany'
  BY <1>1, <1>4 DEF OneTooMany
<1>13. Numbers \subseteq Numbers'
  <2>1. Numbers = {anns[k].number : k \in 1..Len(anns)}
    BY <1>3, NumbersFacts
  <2>2. ToSet(anns') = {anns'[k] : k \in 1..(Len(anns) + 1)}
    BY <1>6, LenProperties DEF ToSet
  <2>3. Numbers' = {anns'[k].number : k \in 1..(Len(anns) + 1)}
    BY <2>2 DEF Numbers
  <2>4. \A k \in 1..Len(anns) : k \in 1..(Len(anns) + 1)
    BY <1>4
  <2>5. QED
    BY <1>6, <2>1, <2>3, <2>4
<1>14. QED
  BY <1>8, <1>9, <1>10, <1>11, <1>12, <1>13 DEF AnnInv, LostByDeletion

\* A step that leaves the numbers in the file as they are.
LEMMA SameNumbers ==
    ASSUME AnnInv, anns' \in Seq(Announce), Len(anns') = Len(anns),
           \A i \in 1..Len(anns) : anns'[i].number = anns[i].number
    PROVE  Numbers' = Numbers
<1>1. Numbers = {anns[k].number : k \in 1..Len(anns)}
  BY NumbersFacts DEF AnnInv
<1>2. ToSet(anns') = {anns'[k] : k \in 1..Len(anns)}
  BY LenProperties DEF ToSet
<1>3. Numbers' = {anns'[k].number : k \in 1..Len(anns)}
  BY <1>2 DEF Numbers
<1>4. QED
  BY <1>1, <1>3

\* An announcement is updated.
LEMMA UpdateHolds ==
    ASSUME AnnouncesConstants, AnnInv, NEW p \in Procs, UpdateAnnounce(p)
    PROVE  AnnInv' /\ LostByDeletion
<1>1. /\ annLock = None /\ next' = next /\ annLock' = annLock /\ torn' = torn /\ annLoc' = annLoc
  BY DEF UpdateAnnounce
<1>2. Fields /\ LockHeldToCut /\ Below /\ InOrder /\ OneTooMany
  BY DEF AnnInv
<1>3. anns \in Seq(Announce) /\ Len(anns) \in Nat /\ DOMAIN anns = 1..Len(anns)
      /\ None \notin Procs
  BY <1>2, LenProperties DEF Fields, AnnouncesConstants
<1>4. PICK u \in Announcers, i \in 1..Len(anns) : anns' = [anns EXCEPT ![i].from = u]
  BY <1>3 DEF UpdateAnnounce
<1>5. /\ anns' \in Seq(Announce) /\ Len(anns') = Len(anns)
      /\ \A j \in 1..Len(anns) : anns'[j].number = anns[j].number
  <2>1. [anns[i] EXCEPT !.from = u] \in Announce
        /\ [anns[i] EXCEPT !.from = u].number = anns[i].number
    <3>1. anns[i] \in Announce
      BY <1>3
    <3>2. QED
      BY <3>1 DEF Announce
  <2>2. anns' = [anns EXCEPT ![i] = [anns[i] EXCEPT !.from = u]]
    BY <1>4
  <2> DEFINE a == [anns[i] EXCEPT !.from = u]
  <2> HIDE DEF a
  <2>3. anns' = [anns EXCEPT ![i] = a] /\ a \in Announce /\ a.number = anns[i].number
    BY <2>1, <2>2 DEF a
  <2>4. QED
    BY <1>3, <2>3
<1>6. Fields' /\ LockHeldToCut' /\ Below' /\ InOrder' /\ OneTooMany'
  <2>1. Fields'
    BY <1>1, <1>2, <1>5 DEF Fields
  <2>2. LockHeldToCut'
    BY <1>1, <1>2 DEF LockHeldToCut
  <2>3. Below'
    BY <1>1, <1>2, <1>5 DEF Below
  <2>4. InOrder'
    BY <1>1, <1>2, <1>5 DEF InOrder, GoUpTo
  <2>5. OneTooMany'
    BY <1>1, <1>3 DEF OneTooMany
  <2>6. QED
    BY <2>1, <2>2, <2>3, <2>4, <2>5
<1>7. Numbers' = Numbers
  BY <1>5, SameNumbers
<1>8. QED
  BY <1>6, <1>7 DEF AnnInv, LostByDeletion

\* The file is cut, and the lock released.
LEMMA CutHolds ==
    ASSUME AnnouncesConstants, AnnInv, NEW p \in Procs, CutAnnounces(p)
    PROVE  AnnInv' /\ LostByDeletion
<1>1. /\ annLoc[p].pc = "cut" /\ anns' = SubSeq(anns, 1, annLoc[p].end) /\ annLock' = None
      /\ annLoc' = [annLoc EXCEPT ![p] = AnnIdle] /\ next' = next /\ torn' = torn
  BY DEF CutAnnounces, AnnAt
<1>2. Fields /\ LockHeldToCut /\ Below /\ OneTooMany
  BY DEF AnnInv
<1>3. annLock = p
  BY <1>1, <1>2 DEF LockHeldToCut
<1>4. /\ anns \in Seq(Announce) /\ Len(anns) \in Nat /\ None \notin Procs /\ next \in 1..MaxNumber
      /\ annLoc \in [Procs -> AnnRequest]
  BY <1>2 DEF Fields, AnnouncesConstants
<1>5. /\ Len(anns) > 0 /\ annLoc[p].end = Len(anns) - 1
      /\ ~torn => GoUpTo(Len(anns) - 1)
      /\ \/ anns[Len(anns)].number = annLoc[p].number
         \/ \E i \in 1..(Len(anns) - 1) : anns[i].number = anns[Len(anns)].number
  BY <1>2, <1>3 DEF OneTooMany
<1>6. /\ anns' \in Seq(Announce) /\ Len(anns') = Len(anns) - 1
      /\ \A i \in 1..(Len(anns) - 1) : anns'[i] = anns[i]
  <2>1. anns' = SubSeq(anns, 1, Len(anns) - 1)
    BY <1>1, <1>5
  <2>2. QED
    BY <1>4, <1>5, <2>1, WithoutLast
<1>7. \A i \in 1..(Len(anns) - 1) : i \in 1..Len(anns)
  BY <1>4
<1>8. AnnIdle \in AnnRequest /\ AnnIdle.pc = "idle" /\ AnnIdle.number = 0
  BY DEF AnnIdle, AnnRequest
<1>9. /\ annLoc' \in [Procs -> AnnRequest]
      /\ \A q \in Procs : annLoc'[q] = IF q = p THEN AnnIdle ELSE annLoc[q]
  BY <1>1, <1>4, <1>8
<1>10. Fields'
  <2>1. \A q \in Procs : annLoc'[q].number \in 0..(next' - 1)
    BY <1>1, <1>2, <1>4, <1>8, <1>9 DEF Fields
  <2>2. QED
    BY <1>1, <1>2, <1>6, <1>9, <2>1 DEF Fields
<1>11. LockHeldToCut'
  BY <1>1, <1>2, <1>3, <1>4, <1>8, <1>9 DEF LockHeldToCut
<1>12. Below'
  BY <1>1, <1>2, <1>6, <1>7 DEF Below
<1>13. InOrder'
  BY <1>1, <1>5, <1>6 DEF InOrder, GoUpTo
<1>14. OneTooMany'
  BY <1>1, <1>4 DEF OneTooMany
<1>15. LostByDeletion
  <2>1. Numbers = {anns[k].number : k \in 1..Len(anns)}
    BY <1>2, NumbersFacts
  <2>2. Numbers' = {anns[k].number : k \in 1..(Len(anns) - 1)}
    <3>1. ToSet(anns') = {anns'[k] : k \in 1..(Len(anns) - 1)}
      BY <1>6, LenProperties DEF ToSet
    <3>2. Numbers' = {anns'[k].number : k \in 1..(Len(anns) - 1)}
      BY <3>1 DEF Numbers
    <3>3. QED
      BY <1>6, <3>2
  <2>3. ASSUME NEW x \in Numbers \ Numbers'
        PROVE  x = annLoc[p].number
    <3>1. PICK k \in 1..Len(anns) : x = anns[k].number
      BY <2>1, <2>3
    <3>2. k \notin 1..(Len(anns) - 1)
      BY <2>2, <2>3, <3>1
    <3>3. k = Len(anns)
      BY <1>4, <3>2
    <3>4. ~\E i \in 1..(Len(anns) - 1) : anns[i].number = anns[Len(anns)].number
      BY <2>2, <2>3, <3>1, <3>3
    <3>5. QED
      BY <1>5, <3>1, <3>3, <3>4
  <2>4. QED
    BY <1>3, <2>3 DEF LostByDeletion
<1>16. QED
  BY <1>10, <1>11, <1>12, <1>13, <1>14, <1>15 DEF AnnInv

\* A request that holds no lock goes back to where it began.
LEMMA GivesUp ==
    ASSUME AnnouncesConstants, AnnInv, NEW p \in Procs, annLoc[p].pc # "cut",
           annLoc' = [annLoc EXCEPT ![p] = AnnIdle], UNCHANGED <<next, anns, annLock, torn>>
    PROVE  AnnInv' /\ LostByDeletion
<1>1. Fields /\ LockHeldToCut /\ Below /\ InOrder /\ OneTooMany
  BY DEF AnnInv
<1>2. AnnIdle \in AnnRequest /\ AnnIdle.pc = "idle" /\ AnnIdle.number = 0
  BY DEF AnnIdle, AnnRequest
<1>3. /\ annLoc' \in [Procs -> AnnRequest]
      /\ \A q \in Procs : annLoc'[q] = IF q = p THEN AnnIdle ELSE annLoc[q]
  BY <1>1, <1>2 DEF Fields
<1>4. Fields'
  <2>1. \A q \in Procs : annLoc'[q].number \in 0..(next' - 1)
    BY <1>1, <1>2, <1>3 DEF Fields
  <2>2. QED
    BY <1>1, <1>3, <2>1 DEF Fields
<1>5. LockHeldToCut'
  BY <1>1, <1>2, <1>3 DEF LockHeldToCut
<1>6. Below' /\ InOrder'
  BY <1>1 DEF Below, InOrder, GoUpTo
<1>7. annLock # p
  BY <1>1 DEF LockHeldToCut
<1>8. OneTooMany'
  BY <1>1, <1>3, <1>7 DEF OneTooMany, GoUpTo
<1>9. Numbers' = Numbers
  BY DEF Numbers
<1>10. QED
  BY <1>4, <1>5, <1>6, <1>8, <1>9 DEF AnnInv, LostByDeletion

\* A request is killed; the file stays as it was.
LEMMA DieHolds ==
    ASSUME AnnouncesConstants, AnnInv, NEW p \in Procs, DieAnnouncing(p)
    PROVE  AnnInv' /\ LostByDeletion
<1>1. Fields /\ LockHeldToCut /\ Below /\ InOrder /\ None \notin Procs
  BY DEF AnnInv, AnnouncesConstants
<1>2. CASE annLoc[p].pc # "cut"
  <2>1. annLock # p
    BY <1>1, <1>2 DEF LockHeldToCut
  <2>2. torn' = torn
    <3>1. torn' = (torn \/ AnnAt(p, "cut")) /\ torn \in BOOLEAN /\ ~AnnAt(p, "cut")
      BY <1>1, <1>2 DEF DieAnnouncing, AnnAt, Fields
    <3>2. QED
      BY <3>1
  <2>3. QED
    BY <1>2, <2>1, <2>2, GivesUp DEF DieAnnouncing
<1>3. CASE annLoc[p].pc = "cut"
  <2>1. annLock = p
    BY <1>1, <1>3 DEF LockHeldToCut
  <2>2. annLock' = None /\ torn' /\ torn' \in BOOLEAN
    BY <1>3, <2>1 DEF DieAnnouncing, AnnAt
  <2>3. annLoc' = [annLoc EXCEPT ![p] = AnnIdle] /\ next' = next /\ anns' = anns
    BY DEF DieAnnouncing
  <2>4. AnnIdle \in AnnRequest /\ AnnIdle.pc = "idle" /\ AnnIdle.number = 0
    BY DEF AnnIdle, AnnRequest
  <2>5. /\ annLoc' \in [Procs -> AnnRequest]
        /\ \A q \in Procs : annLoc'[q] = IF q = p THEN AnnIdle ELSE annLoc[q]
    BY <1>1, <2>3, <2>4 DEF Fields
  <2>6. Fields'
    <3>1. \A q \in Procs : annLoc'[q].number \in 0..(next' - 1)
      BY <1>1, <2>3, <2>4, <2>5 DEF Fields
    <3>2. QED
      BY <1>1, <2>2, <2>3, <2>5, <3>1 DEF Fields
  <2>7. LockHeldToCut'
    BY <1>1, <2>1, <2>2, <2>4, <2>5 DEF LockHeldToCut
  <2>8. Below' /\ InOrder'
    BY <1>1, <2>2, <2>3 DEF Below, InOrder
  <2>9. OneTooMany'
    BY <1>1, <2>2 DEF OneTooMany
  <2>10. Numbers' = Numbers
    BY <2>3 DEF Numbers
  <2>11. QED
    BY <2>6, <2>7, <2>8, <2>9, <2>10 DEF AnnInv, LostByDeletion
<1>4. QED
  BY <1>2, <1>3

LEMMA AnnInitHolds == ASSUME AnnouncesConstants, AnnInit PROVE AnnInv
<1>1. /\ next = 1 /\ anns = <<>> /\ annLock = None /\ torn = FALSE
      /\ annLoc = [p \in Procs |-> AnnIdle]
  BY DEF AnnInit
<1>2. AnnIdle \in AnnRequest /\ AnnIdle.pc = "idle" /\ AnnIdle.number = 0
  BY DEF AnnIdle, AnnRequest
<1>3. MaxNumber \in Nat \ {0} /\ None \notin Procs
  BY DEF AnnouncesConstants
<1>4. Fields
  <2>1. /\ next \in 1..MaxNumber /\ anns \in Seq(Announce) /\ annLock \in Procs \cup {None}
        /\ torn \in BOOLEAN
    <3>1. 1 \in 1..MaxNumber /\ None \in Procs \cup {None}
      BY <1>3
    <3>2. anns \in Seq(Announce)
      BY <1>1
    <3>3. torn \in BOOLEAN
      BY <1>1
    <3>4. next \in 1..MaxNumber /\ annLock \in Procs \cup {None}
      BY <1>1, <3>1
    <3>5. QED
      BY <3>2, <3>3, <3>4
  <2>2. annLoc \in [Procs -> AnnRequest] /\ \A p \in Procs : annLoc[p] = AnnIdle
    BY <1>1, <1>2
  <2>3. \A p \in Procs : annLoc[p].number = 0
    BY <1>2, <2>2
  <2>4. 0 \in 0..(next - 1)
    BY <1>1
  <2>5. QED
    BY <2>1, <2>2, <2>3, <2>4 DEF Fields
<1>5. LockHeldToCut
  BY <1>1, <1>2, <1>3 DEF LockHeldToCut
<1>6. Below /\ InOrder /\ OneTooMany
  BY <1>1, <1>3 DEF Below, InOrder, GoUpTo, OneTooMany
<1>7. QED
  BY <1>4, <1>5, <1>6 DEF AnnInv

LEMMA AnnStepHolds ==
    ASSUME AnnouncesConstants, AnnInv, [AnnNext]_annVars
    PROVE  AnnInv' /\ (LostByDeletion \/ UNCHANGED annVars)
<1>1. Fields
  BY DEF AnnInv
<1>2. ASSUME NEW p \in Procs, DeleteAnnounce(p)
      PROVE  AnnInv' /\ LostByDeletion
  <2>1. PICK u \in Announcers, n \in 1..(next - 1) : MoveUp(p, n, u \in Supers, u)
    BY <1>2 DEF DeleteAnnounce
  <2>2. n \in 0..(next - 1) /\ u \in Announcers \cup {None} /\ (u \in Supers) \in BOOLEAN
    BY <1>1, <2>1 DEF Fields
  <2>3. QED
    BY <2>1, <2>2, MoveUpHolds
<1>3. ASSUME NEW p \in Procs, ReplaceAnnounce(p)
      PROVE  AnnInv' /\ LostByDeletion
  <2>1. CASE MoveUp(p, annLoc[p].number, TRUE, annLoc[p].user)
    <3>1. annLoc[p].number \in 0..(next - 1) /\ annLoc[p].user \in Announcers \cup {None}
      BY <1>1 DEF Fields, AnnRequest
    <3>2. TRUE \in BOOLEAN
      OBVIOUS
    <3>3. QED
      BY <2>1, <3>1, <3>2, MoveUpHolds
  <2>2. CASE annLoc' = [annLoc EXCEPT ![p] = AnnIdle] /\ UNCHANGED <<next, anns, annLock, torn>>
    <3>1. annLoc[p].pc # "cut"
      BY <1>3 DEF ReplaceAnnounce, AnnAt
    <3>2. QED
      BY <2>2, <3>1, GivesUp
  <2>3. QED
    BY <1>3, <2>1, <2>2 DEF ReplaceAnnounce
<1>4. CASE UNCHANGED annVars
  <2>1. next' = next /\ anns' = anns /\ annLock' = annLock /\ torn' = torn /\ annLoc' = annLoc
    BY <1>4 DEF annVars
  <2>2. AnnInv'
    BY <2>1 DEF AnnInv, Fields, LockHeldToCut, Below, InOrder, OneTooMany, GoUpTo
  <2>3. QED
    BY <1>4, <2>2
<1>5. ASSUME NEW p \in Procs, ShowAnnounces(p)
      PROVE  UNCHANGED annVars
  BY <1>5 DEF ShowAnnounces
<1>6. QED
  BY <1>2, <1>3, <1>4, <1>5, PostHolds, UpdateHolds, CutHolds, DieHolds DEF AnnNext

-----------------------------------------------------------------------------
LEMMA AnnInvHolds == ASSUME AnnouncesConstants PROVE AnnSpec => []AnnInv
<1>1. AnnInit => AnnInv
  BY AnnInitHolds
<1>2. AnnInv /\ [AnnNext]_annVars => AnnInv'
  BY AnnStepHolds
<1>3. QED
  BY <1>1, <1>2, PTL DEF AnnSpec

\* The numbers go up in the file and the next one is greater than all of them,
\* unless a deletion was cut short (PostGlobalAnnounce, DeleteGlobalAnnounce).
THEOREM NumbersStayOrdered ==
    ASSUME AnnouncesConstants PROVE AnnSpec => [](AnnTypeOK /\ NumbersGoUp)
<1>1. AnnInv => AnnTypeOK
  BY DEF AnnInv, Fields, AnnRequest, AnnTypeOK
<1>2. AnnInv => NumbersGoUp
  BY LenProperties DEF AnnInv, Fields, Below, InOrder, GoUpTo, NumbersGoUp
<1>3. QED
  BY <1>1, <1>2, AnnInvHolds, PTL

\* An announcement disappears only when a deletion of its number moves up what
\* is behind it or cuts the file (DeleteGlobalAnnounce).
THEOREM NoneLost == ASSUME AnnouncesConstants PROVE AnnSpec => OthersStay
<1>1. AnnInv /\ [AnnNext]_annVars => [LostByDeletion]_annVars
  BY AnnStepHolds
<1>2. QED
  BY <1>1, AnnInvHolds, PTL DEF AnnSpec, OthersStay, LostByDeletion
-----------------------------------------------------------------------------
(***************************************************************************)
(* The file of alternative spellings has one record of a user at most, for *)
(* any number of requests at once and whatever their caches say: a record  *)
(* is looked for in the file under its lock.                               *)
(***************************************************************************)

Record == [user : Users, alt : Spellings]

NameRequest ==
    [pc : {"idle", "login", "read", "write", "file"}, op : Ops \cup {"none"},
     user : Users \cup {None}, cache : SUBSET Users, may : BOOLEAN, ui : User,
     job : {"none", "add", "delete"}, alt : Spelling]

\* A request that has begun has a user, and a spelling to be added is not the
\* empty one.
RequestsRight ==
    /\ nameLoc \in [Procs -> NameRequest]
    /\ \A p \in Procs :
          /\ nameLoc[p].pc # "idle" => nameLoc[p].user \in Users
          /\ nameLoc[p].job = "add" => nameLoc[p].alt \in Spellings

NamesInv == NameTypeOK /\ OneSpelling /\ RequestsRight

-----------------------------------------------------------------------------
\* The place of a user's first record.
LEMMA FirstPlace ==
    ASSUME NamesInv, NEW u, PlacesOf(u) # {}
    PROVE  LET i == CHOOSE i \in PlacesOf(u) : \A j \in PlacesOf(u) : i <= j
           IN  i \in 1..Len(names) /\ names[i].user = u
<1>1. names \in Seq(Record) /\ DOMAIN names = 1..Len(names)
  BY LenProperties DEF NamesInv, NameTypeOK, Record
<1>2. PlacesOf(u) \in SUBSET Nat /\ PlacesOf(u) \subseteq 1..Len(names)
  BY <1>1 DEF PlacesOf
<1>3. \E i \in PlacesOf(u) : \A j \in PlacesOf(u) : i <= j
  BY <1>2, HasLeast
<1>4. QED
  BY <1>2, <1>3 DEF PlacesOf

\* AddAltName leaves one record of each user.
LEMMA WrittenOnce ==
    ASSUME NamesInv, NEW p \in Procs, NEW u \in Users, NEW alt \in Spellings,
           names' = Written(p, u, [user |-> u, alt |-> alt])
    PROVE  names' \in Seq(Record) /\ OneSpelling'
<1> DEFINE record == [user |-> u, alt |-> alt]
<1>1. /\ names \in Seq(Record) /\ Len(names) \in Nat /\ DOMAIN names = 1..Len(names)
      /\ record \in Record /\ OneSpelling
  BY LenProperties DEF NamesInv, NameTypeOK, Record
<1>2. CASE PlacesOf(u) = {}
  <2>1. names' = Append(names, record)
    BY <1>2 DEF Written
  <2>2. /\ names' \in Seq(Record) /\ Len(names') = Len(names) + 1
        /\ \A i \in 1..Len(names) : names'[i] = names[i]
        /\ names'[Len(names) + 1] = record
    BY <1>1, <2>1
  <2>3. \A i \in 1..Len(names) : names[i].user # u
    BY <1>1, <1>2 DEF PlacesOf
  <2>4. QED
    BY <1>1, <2>2, <2>3 DEF OneSpelling
<1>3. CASE PlacesOf(u) # {}
  <2>1. PICK i \in 1..Len(names) :
           names[i].user = u /\ names' = [names EXCEPT ![i] = record]
    BY <1>3, FirstPlace DEF Written
  <2>2. /\ names' \in Seq(Record) /\ Len(names') = Len(names)
        /\ \A j \in 1..Len(names) : names'[j].user = names[j].user
    BY SMTT(40), <1>1, <2>1
  <2>3. QED
    BY <1>1, <2>2 DEF OneSpelling
<1>4. QED
  BY <1>2, <1>3

\* DeleteAltName leaves the other records as they are.
LEMMA RemovedOnce ==
    ASSUME NamesInv, NEW i \in 1..Len(names), names' = RemoveAt(names, i)
    PROVE  names' \in Seq(Record) /\ OneSpelling'
<1>1. /\ names \in Seq(Record) /\ Len(names) \in Nat /\ DOMAIN names = 1..Len(names)
      /\ OneSpelling
  BY LenProperties DEF NamesInv, NameTypeOK, Record
<1>2. /\ names' \in Seq(Record) /\ Len(names') = Len(names) - 1
      /\ \A j \in 1..(Len(names) - 1) :
            names'[j] = IF j < i THEN names[j] ELSE names[j + 1]
  BY <1>1, RemoveAtFacts
<1>3. ASSUME NEW j \in 1..(Len(names) - 1), NEW k \in 1..(Len(names) - 1),
             names'[j].user = names'[k].user
      PROVE  j = k
  <2> DEFINE Old(x) == IF x < i THEN x ELSE x + 1
  <2>1. /\ Old(j) \in 1..Len(names) /\ Old(k) \in 1..Len(names)
        /\ names[Old(j)].user = names[Old(k)].user
    BY <1>1, <1>2, <1>3
  <2>2. Old(j) = Old(k)
    BY <1>1, <2>1 DEF OneSpelling
  <2>3. QED
    BY <2>2
<1>4. QED
  BY <1>2, <1>3, LenProperties DEF OneSpelling

-----------------------------------------------------------------------------
\* A request after a step: the other requests are as they were.
LEMMA RequestsStayRight ==
    ASSUME RequestsRight, NEW p \in Procs, NEW r \in NameRequest, nameLoc' = [nameLoc EXCEPT ![p] = r],
           r.pc # "idle" => r.user \in Users, r.job = "add" => r.alt \in Spellings
    PROVE  RequestsRight'
  BY DEF RequestsRight

LEMMA IdleRequest == NameIdle \in NameRequest /\ NameIdle.pc = "idle" /\ NameIdle.job = "none"
<1>1. Unknown \in User
  BY DEF Unknown, User, Spelling
<1>2. QED
  BY <1>1 DEF NameIdle, NameRequest, Ops, Spelling

\* The record was written and something is left to be done, or nothing is.
LEMMA ThenRight ==
    ASSUME RequestsRight, NEW p \in Procs, nameLoc[p].pc # "idle",
           NEW job \in {"none", "add", "delete"}, NEW alt \in Spelling,
           job = "add" => alt \in Spellings, Then(p, job, alt)
    PROVE  RequestsRight'
<1>1. nameLoc[p] \in NameRequest /\ nameLoc[p].user \in Users /\ nameLoc \in [Procs -> NameRequest]
  BY DEF RequestsRight
<1>2. CASE job = "none"
  BY <1>2, IdleRequest, RequestsStayRight DEF Then
<1>3. CASE job # "none"
  <2> DEFINE r == [nameLoc[p] EXCEPT !.pc = "file", !.may = FALSE, !.ui = Unknown,
                                     !.job = job, !.alt = alt]
  <2>1. nameLoc' = [nameLoc EXCEPT ![p] = r]
    BY <1>1, <1>3 DEF Then
  <2>2. Unknown \in User
    BY DEF Unknown, User, Spelling
  <2>3. r \in NameRequest /\ r.user = nameLoc[p].user /\ r.job = job /\ r.alt = alt
    BY <1>1, <2>2 DEF NameRequest
  <2>4. QED
    BY <1>1, <2>1, <2>3, RequestsStayRight
<1>4. QED
  BY <1>2, <1>3

LEMMA NameInitRight == ASSUME AltNamesConstants, NameInit PROVE NamesInv
<1>1. Unknown \in User /\ UsedUp \in User
  BY DEF Unknown, UsedUp, User, Spelling
<1>2. nameUsers \in [Users -> User]
  BY <1>1 DEF NameInit
<1>3. names = <<>> /\ unchecked = {} /\ alone \in BOOLEAN /\ nameLoc = [p \in Procs |-> NameIdle]
  BY DEF NameInit
<1>4. NameTypeOK
  BY <1>2, <1>3 DEF NameTypeOK
<1>5. OneSpelling
  BY <1>3 DEF OneSpelling
<1>6. RequestsRight
  BY <1>3, IdleRequest DEF RequestsRight
<1>7. QED
  BY <1>4, <1>5, <1>6 DEF NamesInv

\* The right of whoever asks is there or not.
LEMMA AskersAreBoolean ==
    ASSUME NEW op, NEW u, nameUsers[u].right \in BOOLEAN, NEW may \in Askers(op, u)
    PROVE  may \in BOOLEAN
<1>1. CASE op = "register"
  BY <1>1 DEF Askers
<1>2. CASE op = "update"
  BY <1>2 DEF Askers
<1>3. CASE op \notin {"register", "update"}
  BY <1>3 DEF Askers
<1> QED
  BY <1>1, <1>2, <1>3

LEMMA NameStepRight ==
    ASSUME AltNamesConstants, NamesInv, [NameNext]_nameVars
    PROVE  NamesInv'
<1>1. /\ NameTypeOK /\ OneSpelling /\ RequestsRight
      /\ nameUsers \in [Users -> User] /\ names \in Seq(Record) /\ unchecked \subseteq Users
      /\ alone \in BOOLEAN
  BY DEF NamesInv, NameTypeOK, Record
<1>2. ASSUME NEW p \in Procs, BeginNaming(p)
      PROVE  NamesInv'
  <2>1. PICK op \in Ops, u \in Users :
           nameLoc' = [nameLoc EXCEPT ![p] = [NameIdle EXCEPT !.pc = "login", !.op = op, !.user = u,
                                        !.cache = {names[i].user : i \in DOMAIN names}]]
    BY <1>2 DEF BeginNaming
  <2> DEFINE cache == {names[i].user : i \in DOMAIN names}
             r == [NameIdle EXCEPT !.pc = "login", !.op = op, !.user = u, !.cache = cache]
  <2>2. cache \in SUBSET Users
    <3>1. \A i \in DOMAIN names : names[i] \in Record
      BY <1>1, LenProperties, ElementOfSeq
    <3>2. QED
      BY <3>1 DEF Record
  <2> HIDE DEF cache
  <2>3. r \in NameRequest /\ r.user = u /\ r.job = "none"
    BY <2>2, IdleRequest DEF NameRequest
  <2>4. RequestsRight'
    BY <1>1, <2>1, <2>3, RequestsStayRight DEF cache
  <2>5. QED
    BY <1>1, <1>2, <2>4 DEF NamesInv, NameTypeOK, OneSpelling, BeginNaming
<1>3. ASSUME NEW p \in Procs, ReadRecord(p)
      PROVE  NamesInv'
  <2> DEFINE r == [nameLoc[p] EXCEPT !.pc = "write", !.ui = nameUsers[nameLoc[p].user]]
  <2>1. nameLoc[p] \in NameRequest /\ nameLoc[p].user \in Users /\ nameLoc \in [Procs -> NameRequest]
        /\ (nameLoc[p].job = "add" => nameLoc[p].alt \in Spellings)
    BY <1>1, <1>3 DEF ReadRecord, RequestsRight
  <2>2. nameLoc' = [nameLoc EXCEPT ![p] = r]
    BY <1>3, <2>1 DEF ReadRecord
  <2>3. r \in NameRequest /\ r.user = nameLoc[p].user /\ r.job = nameLoc[p].job /\ r.alt = nameLoc[p].alt
    BY <1>1, <2>1 DEF NameRequest
  <2>4. RequestsRight'
    BY <1>1, <2>1, <2>2, <2>3, RequestsStayRight
  <2>5. QED
    BY <1>1, <1>3, <2>4 DEF NamesInv, NameTypeOK, OneSpelling, ReadRecord
<1>16. ASSUME NEW p \in Procs, LogIn(p)
       PROVE  NamesInv'
  <2>1. PICK may \in BOOLEAN :
           nameLoc' = [nameLoc EXCEPT ![p] = [nameLoc[p] EXCEPT !.pc = "read", !.may = may]]
    <3>1. /\ nameLoc[p] \in NameRequest /\ nameLoc[p].user \in Users
          /\ nameLoc \in [Procs -> NameRequest]
      BY <1>1, <1>16 DEF LogIn, RequestsRight
    <3>2. PICK may \in Askers(nameLoc[p].op, nameLoc[p].user) :
             nameLoc' = [nameLoc EXCEPT ![p].pc = "read", ![p].may = may]
      BY <1>16 DEF LogIn
    <3>3. nameUsers[nameLoc[p].user].right \in BOOLEAN
      BY <1>1, <3>1 DEF User
    <3>4. may \in BOOLEAN
      BY <3>2, <3>3, AskersAreBoolean
    <3> QED
      BY <3>1, <3>2, <3>4
  <2> DEFINE r == [nameLoc[p] EXCEPT !.pc = "read", !.may = may]
  <2>2. nameLoc[p] \in NameRequest /\ nameLoc[p].user \in Users /\ nameLoc \in [Procs -> NameRequest]
        /\ (nameLoc[p].job = "add" => nameLoc[p].alt \in Spellings)
    BY <1>1, <1>16 DEF LogIn, RequestsRight
  <2>3. r \in NameRequest /\ r.user = nameLoc[p].user /\ r.job = nameLoc[p].job /\ r.alt = nameLoc[p].alt
    BY <2>2 DEF NameRequest
  <2>4. RequestsRight'
    BY <1>1, <2>1, <2>2, <2>3, RequestsStayRight
  <2>5. QED
    BY <1>1, <1>16, <2>4 DEF NamesInv, NameTypeOK, OneSpelling, LogIn
<1>4. ASSUME NEW p \in Procs, Fails(p)
      PROVE  NamesInv'
  <2>1. RequestsRight'
    BY <1>1, <1>4, IdleRequest, RequestsStayRight DEF Fails
  <2>2. QED
    BY <1>1, <1>4, <2>1 DEF NamesInv, NameTypeOK, OneSpelling, Fails
<1>5. ASSUME NEW p \in Procs, nameLoc[p].pc = "write", NEW job \in {"none", "add", "delete"},
             NEW alt \in Spelling, job = "add" => alt \in Spellings, Then(p, job, alt),
             nameUsers' \in [Users -> User], unchecked' \subseteq Users,
             UNCHANGED <<names, alone>>
      PROVE  NamesInv'
  <2>1. RequestsRight'
    BY <1>1, <1>5, ThenRight
  <2>2. QED
    BY <1>1, <1>5, <2>1 DEF NamesInv, NameTypeOK, OneSpelling
<1>6. ASSUME NEW alt \in Spelling
      PROVE  JobFor(alt) \in {"none", "add", "delete"} /\ (JobFor(alt) = "add" => alt \in Spellings)
  BY DEF JobFor, Spelling
<1>7. ASSUME NEW p \in Procs, nameLoc[p].pc = "write"
      PROVE  nameLoc[p].user \in Users /\ nameLoc[p].ui \in User /\ Empty \in Spelling
  BY <1>1, <1>7 DEF RequestsRight, NameRequest, Spelling
<1>17. ASSUME NEW p \in Procs, nameLoc[p].pc = "write", NEW alt \in Spelling,
              NEW right \in BOOLEAN
       PROVE  Respelled(alt, nameLoc[p].may, right) \in User
  BY <1>1, <1>17 DEF Respelled, User, RequestsRight, NameRequest
<1>8. ASSUME NEW p \in Procs, RegisterUser(p)
      PROVE  NamesInv'
  <2>1. PICK alt \in Spelling :
           /\ nameUsers' = [nameUsers EXCEPT ![nameLoc[p].user] =
                          Respelled(alt, nameLoc[p].may, FALSE)]
           /\ Then(p, JobFor(alt), alt)
           /\ Checked(nameLoc[p].user, JobFor(alt), FALSE)
    BY <1>8 DEF RegisterUser
  <2>2. nameLoc[p].user \in Users /\ nameLoc[p].pc = "write"
    BY <1>7, <1>8 DEF RegisterUser, Writes
  <2>3. nameUsers' \in [Users -> User] /\ unchecked' \subseteq Users
    BY <1>1, <1>17, <2>1, <2>2 DEF Checked
  <2>4. QED
    BY <1>5, <1>6, <1>8, <2>1, <2>2, <2>3 DEF RegisterUser
<1>9. ASSUME NEW p \in Procs, UpdateUser(p)
      PROVE  NamesInv'
  <2>1. PICK alt \in Spelling :
           /\ nameUsers' = [nameUsers EXCEPT ![nameLoc[p].user] =
                          Respelled(alt, nameLoc[p].may, nameLoc[p].ui.right)]
           /\ Then(p, JobOfUpdate(nameLoc[p].may, alt), alt)
           /\ Checked(nameLoc[p].user, JobOfUpdate(nameLoc[p].may, alt), nameLoc[p].ui.right)
    BY <1>9 DEF UpdateUser
  <2>2. nameLoc[p].user \in Users /\ nameLoc[p].pc = "write" /\ nameLoc[p].ui.right \in BOOLEAN
    BY <1>7, <1>9 DEF UpdateUser, Writes, User
  <2>3. nameUsers' \in [Users -> User] /\ unchecked' \subseteq Users
    BY <1>1, <1>17, <2>1, <2>2 DEF Checked
  <2>4. /\ JobOfUpdate(nameLoc[p].may, alt) \in {"none", "add", "delete"}
        /\ JobOfUpdate(nameLoc[p].may, alt) = "add" => alt \in Spellings
    BY <1>6 DEF JobOfUpdate
  <2>5. QED
    BY <1>5, <1>9, <2>1, <2>2, <2>3, <2>4 DEF UpdateUser
<1>10. ASSUME NEW p \in Procs, RemoveUser(p)
       PROVE  NamesInv'
  <2>1. nameUsers' = [nameUsers EXCEPT ![nameLoc[p].user].state = "removed"]
    BY <1>10 DEF RemoveUser
  <2>2. nameUsers' \in [Users -> User]
    <3>1. nameLoc[p].user \in Users
      BY <1>7, <1>10 DEF RemoveUser, Writes
    <3>2. [nameUsers[nameLoc[p].user] EXCEPT !.state = "removed"] \in User
      BY <1>1, <3>1 DEF User
    <3>3. QED
      BY <1>1, <2>1, <3>1, <3>2
  <2>3. PICK job \in {"none", "delete"} : Then(p, job, Empty)
    BY <1>10 DEF RemoveUser
  <2>4. QED
    BY <1>1, <1>5, <1>7, <1>10, <2>2, <2>3 DEF RemoveUser, Writes
<1>11. ASSUME NEW p \in Procs, Rights(p)
       PROVE  NamesInv'
  <2> DEFINE ui == nameLoc[p].ui
  <2>1. PICK right \in BOOLEAN :
           /\ \/ nameUsers' = nameUsers
              \/ nameUsers' = [nameUsers EXCEPT ![nameLoc[p].user] =
                              [state |-> "there", alt |-> ui.alt,
                               flag |-> ui.flag /\ ~(ui.right /\ ~right), right |-> right]]
           /\ \E job \in {"none", "delete"} : Then(p, job, Empty)
    BY <1>11 DEF Rights
  <2>2. (ui.flag /\ ~(ui.right /\ ~right)) \in BOOLEAN /\ ui.alt \in Spelling
    BY <1>7, <1>11 DEF Rights, Writes, User
  <2>3. nameUsers' \in [Users -> User]
    <3> DEFINE written == [state |-> "there", alt |-> ui.alt,
                           flag |-> ui.flag /\ ~(ui.right /\ ~right), right |-> right]
    <3>1. written \in User
      BY <2>2 DEF User
    <3>2. nameUsers' = nameUsers \/ nameUsers' = [nameUsers EXCEPT ![nameLoc[p].user] = written]
      BY <2>1
    <3> HIDE DEF written
    <3>3. QED
      BY <1>1, <3>1, <3>2
  <2>4. PICK job \in {"none", "delete"} : Then(p, job, Empty)
    BY <2>1
  <2>5. QED
    BY <1>1, <1>5, <1>7, <1>11, <2>3, <2>4 DEF Rights, Writes
<1>12. ASSUME NEW p \in Procs, AddAltName(p)
       PROVE  NamesInv'
  <2>1. nameLoc[p].user \in Users /\ nameLoc[p].alt \in Spellings
    BY <1>1, <1>12 DEF AddAltName, RequestsRight
  <2>2. names' \in Seq(Record) /\ OneSpelling'
    BY <1>12, <2>1, WrittenOnce DEF AddAltName
  <2>3. RequestsRight'
    BY <1>1, <1>12, IdleRequest, RequestsStayRight DEF AddAltName
  <2>4. QED
    BY <1>1, <1>12, <2>2, <2>3 DEF NamesInv, NameTypeOK, Record, AddAltName
<1>13. ASSUME NEW p \in Procs, DeleteAltName(p)
       PROVE  NamesInv'
  <2>1. unchecked' \subseteq Users
    BY <1>1, <1>13 DEF DeleteAltName
  <2>2. RequestsRight'
    BY <1>1, <1>13, IdleRequest, RequestsStayRight DEF DeleteAltName
  <2>3. names' \in Seq(Record) /\ OneSpelling'
    <3>1. CASE nameLoc[p].user \in nameLoc[p].cache /\ PlacesOf(nameLoc[p].user) # {}
      <4>1. PICK i \in 1..Len(names) : names' = RemoveAt(names, i)
        BY <1>13, <3>1, FirstPlace DEF DeleteAltName
      <4>2. QED
        BY <4>1, RemovedOnce
    <3>2. CASE ~(nameLoc[p].user \in nameLoc[p].cache /\ PlacesOf(nameLoc[p].user) # {})
      <4>1. names' = names
        BY <1>13, <3>2 DEF DeleteAltName
      <4>2. QED
        BY <1>1, <4>1 DEF OneSpelling
    <3>3. QED
      BY <3>1, <3>2
  <2>4. QED
    BY <1>1, <1>13, <2>1, <2>2, <2>3 DEF NamesInv, NameTypeOK, Record, DeleteAltName
<1>14. CASE UNCHANGED nameVars
  BY <1>1, <1>14 DEF nameVars, NamesInv, NameTypeOK, OneSpelling, RequestsRight
<1>15. QED
  BY <1>2, <1>3, <1>4, <1>8, <1>9, <1>10, <1>11, <1>12, <1>13, <1>14, <1>16 DEF NameNext

-----------------------------------------------------------------------------
LEMMA NamesInvHolds == ASSUME AltNamesConstants PROVE NameSpec => []NamesInv
<1>1. NameInit => NamesInv
  BY NameInitRight
<1>2. NamesInv /\ [NameNext]_nameVars => NamesInv'
  BY NameStepRight
<1>3. QED
  BY <1>1, <1>2, PTL DEF NameSpec

\* A user has one record in the file at most, however many requests write it at
\* once with whatever they read before (AddAltName, DeleteAltName).
THEOREM OneRecordEach == ASSUME AltNamesConstants PROVE NameSpec => [](NameTypeOK /\ OneSpelling)
<1>1. NamesInv => NameTypeOK /\ OneSpelling
  BY DEF NamesInv
<1>2. QED
  BY <1>1, NamesInvHolds, PTL

-----------------------------------------------------------------------------
(* One request after the other.  The file has for each user what the record *)
(* says, or more if it is one who was given a spelling without a right to   *)
(* it, or a request is about to put that right.  What is left to be done is *)
(* right for the record as the request has written it, the cache has the    *)
(* users of the file, and a user who asks without the right has none,       *)
(* because nobody else has come in between.                                 *)

Spelled(u) == {names[i].alt : i \in PlacesOf(u)}

Due(u) == IF nameUsers[u].state = "there" /\ nameUsers[u].flag THEN {nameUsers[u].alt} ELSE {}

Recorded == {names[i].user : i \in DOMAIN names}

\* The file agrees with the record; or it has a spelling given without a right,
\* which the record does not name.
Settled(u) == Spelled(u) = Due(u) \/ (u \in unchecked /\ Due(u) = {})

\* Who is spelled has a spelling, and a right to it or none was asked for.
FlagsRight ==
    \A u \in Users : nameUsers[u].flag /\ nameUsers[u].state = "there" =>
        nameUsers[u].alt # Empty /\ (nameUsers[u].right \/ u \in unchecked)

JobRight(r) ==
    /\ r.user \in Users /\ r.job \in {"add", "delete"}
    /\ r.job = "add" => Due(r.user) = {r.alt}
                         \/ (r.user \in unchecked /\ Due(r.user) = {})
    /\ r.job = "delete" => Due(r.user) = {}

\* Who changes a profile without the right is its user, who has none.
AskerRight(r) ==
    r.op = "update" /\ ~r.may /\ nameUsers[r.user].state = "there" => ~nameUsers[r.user].right

RequestInOrder(r) ==
    /\ r.pc # "idle" => r.cache = Recorded
    /\ r.pc \in {"read", "write"} => AskerRight(r)
    /\ r.pc = "write" => r.ui = nameUsers[r.user]
    /\ r.pc = "file" => JobRight(r)

OneAfterTheOther ==
    alone =>
        /\ \A p, q \in Procs : nameLoc[p].pc # "idle" /\ nameLoc[q].pc # "idle" => p = q
        /\ FlagsRight
        /\ \A p \in Procs : RequestInOrder(nameLoc[p])
        /\ \A u \in Users :
              \/ Settled(u)
              \/ \E p \in Procs : nameLoc[p].pc = "file" /\ nameLoc[p].user = u

\* A step of the one request there is, which leaves it as r.
LEMMA OneRequestMoves ==
    ASSUME NamesInv, NEW p \in Procs, NEW r, nameLoc' = [nameLoc EXCEPT ![p] = r],
           \A q \in Procs : q # p => nameLoc[q].pc = "idle",
           FlagsRight', RequestInOrder(r)',
           \A u \in Users : Settled(u)' \/ (r.pc = "file" /\ r.user = u)
    PROVE  OneAfterTheOther'
<1>1. \A q \in Procs : nameLoc'[q] = IF q = p THEN r ELSE nameLoc[q]
  BY DEF NamesInv, RequestsRight
<1>2. \A q \in Procs : q # p => nameLoc'[q].pc = "idle"
  BY <1>1
<1>3. \A q \in Procs : RequestInOrder(nameLoc[q])'
  <2>1. ASSUME NEW q \in Procs, q # p PROVE RequestInOrder(nameLoc[q])'
    BY <1>2, <2>1 DEF RequestInOrder
  <2>2. RequestInOrder(nameLoc[p])'
    BY <1>1
  <2> QED
    BY <2>1, <2>2
<1>4. \A q, s \in Procs : nameLoc'[q].pc # "idle" /\ nameLoc'[s].pc # "idle" => q = s
  BY <1>2
<1>5. \A u \in Users :
         Settled(u)' \/ \E q \in Procs : nameLoc'[q].pc = "file" /\ nameLoc'[q].user = u
  BY <1>1
<1> QED
  BY <1>3, <1>4, <1>5 DEF OneAfterTheOther

\* Nobody else is under way.
LEMMA OnlyOne ==
    ASSUME OneAfterTheOther, alone, NEW p \in Procs, nameLoc[p].pc # "idle"
    PROVE  /\ \A q \in Procs : q # p => nameLoc[q].pc = "idle"
           /\ FlagsRight /\ RequestInOrder(nameLoc[p])
           /\ \A u \in Users :
                 Settled(u) \/ (nameLoc[p].pc = "file" /\ nameLoc[p].user = u)
  BY DEF OneAfterTheOther

\* A handler has written the record, and goes on to the file if it has to.
LEMMA RecordWritten ==
    ASSUME NamesInv, OneAfterTheOther, alone, NEW p \in Procs, nameLoc[p].pc = "write",
           NEW u, u = nameLoc[p].user,
           NEW record, nameUsers' = [nameUsers EXCEPT ![u] = record],
           record.flag /\ record.state = "there" =>
               record.alt # Empty /\ (record.right \/ u \in unchecked'),
           \A v \in Users \ {u} : v \in unchecked' <=> v \in unchecked,
           NEW job \in {"none", "add", "delete"}, NEW alt, Then(p, job, alt),
           job = "none" => Settled(u)',
           job = "add" => Due(u)' = {alt} \/ (u \in unchecked' /\ Due(u)' = {}),
           job = "delete" => Due(u)' = {},
           UNCHANGED <<names, alone>>
    PROVE  OneAfterTheOther'
<1> PICK left : left = [nameLoc[p] EXCEPT !.pc = "file", !.may = FALSE, !.ui = Unknown,
                                          !.job = job, !.alt = alt]
  OBVIOUS
<1>1. /\ nameLoc \in [Procs -> NameRequest] /\ u \in Users /\ nameLoc[p] \in NameRequest
      /\ nameUsers \in [Users -> User]
  BY DEF NamesInv, RequestsRight, NameTypeOK
<1>2. /\ \A q \in Procs : q # p => nameLoc[q].pc = "idle"
      /\ FlagsRight /\ nameLoc[p].cache = Recorded
      /\ \A v \in Users : Settled(v)
  BY OnlyOne DEF RequestInOrder
<1>3. \A v \in Users : nameUsers'[v] = IF v = u THEN record ELSE nameUsers[v]
  BY <1>1
<1>4. FlagsRight'
  BY <1>2, <1>3 DEF FlagsRight
<1>5. /\ Recorded' = Recorded /\ \A v \in Users : Spelled(v)' = Spelled(v)
      /\ \A v \in Users : v # u => Due(v)' = Due(v)
  BY <1>3 DEF Recorded, Spelled, PlacesOf, Due
<1>8. \A v \in Users : v # u => Settled(v)'
  BY <1>2, <1>5 DEF Settled
<1>6. CASE job = "none"
  <2>1. nameLoc' = [nameLoc EXCEPT ![p] = NameIdle] /\ NameIdle.pc = "idle"
    BY <1>6 DEF Then, NameIdle
  <2>2. RequestInOrder(NameIdle)'
    BY <2>1 DEF RequestInOrder
  <2>3. \A v \in Users : Settled(v)'
    BY <1>6, <1>8
  <2> QED
    BY <1>2, <1>4, <2>1, <2>2, <2>3, OneRequestMoves
<1>7. CASE job # "none"
  <2>1. nameLoc' = [nameLoc EXCEPT ![p] = left]
    BY <1>1, <1>7 DEF Then
  <2>2. /\ left.pc = "file" /\ left.user = u /\ left.job = job /\ left.alt = alt
        /\ left.cache = nameLoc[p].cache
    BY <1>1 DEF NameRequest
  <2>3. JobRight(left)'
    BY <1>1, <1>7, <2>2 DEF JobRight
  <2>4. RequestInOrder(left)'
    BY <1>2, <1>5, <2>2, <2>3 DEF RequestInOrder
  <2>5. \A v \in Users : Settled(v)' \/ (left.pc = "file" /\ left.user = v)
    BY <1>8, <2>2
  <2> QED
    BY <1>2, <1>4, <2>1, <2>4, <2>5, OneRequestMoves
<1> QED
  BY <1>6, <1>7

\* AddAltName changes the spelling of its user only.
LEMMA SpelledWhenWritten ==
    ASSUME NamesInv, NEW p, NEW u \in Users, NEW alt \in Spellings,
           names' = Written(p, u, [user |-> u, alt |-> alt])
    PROVE  /\ Spelled(u)' = {alt}
           /\ \A v \in Users : v # u => Spelled(v)' = Spelled(v)
<1> DEFINE record == [user |-> u, alt |-> alt]
<1>1. /\ names \in Seq(Record) /\ Len(names) \in Nat /\ DOMAIN names = 1..Len(names)
      /\ OneSpelling
  BY LenProperties DEF NamesInv, NameTypeOK, Record
<1>2. CASE PlacesOf(u) = {}
  <2>1. names' = Append(names, record)
    BY <1>2 DEF Written
  <2>2. /\ DOMAIN names' = 1..(Len(names) + 1) /\ names'[Len(names) + 1] = record
        /\ \A i \in 1..Len(names) : names'[i] = names[i]
    BY <1>1, <2>1
  <2>3. \A i \in 1..Len(names) : names[i].user # u
    BY <1>1, <1>2 DEF PlacesOf
  <2>4. PlacesOf(u)' = {Len(names) + 1}
    BY <1>1, <2>2, <2>3 DEF PlacesOf
  <2>5. ASSUME NEW v \in Users, v # u PROVE PlacesOf(v)' = PlacesOf(v)
    BY <1>1, <2>2, <2>5 DEF PlacesOf
  <2>6. ASSUME NEW v \in Users, v # u PROVE Spelled(v)' = Spelled(v)
    BY <1>1, <2>2, <2>5, <2>6 DEF Spelled, PlacesOf
  <2>7. Spelled(u)' = {record.alt}
    BY <2>2, <2>4 DEF Spelled
  <2> QED
    BY <2>6, <2>7
<1>3. CASE PlacesOf(u) # {}
  <2>1. PICK i \in 1..Len(names) :
           names[i].user = u /\ names' = [names EXCEPT ![i] = record]
    BY <1>3, FirstPlace DEF Written
  <2>2. /\ DOMAIN names' = 1..Len(names) /\ names'[i] = record
        /\ \A j \in 1..Len(names) : j # i => names'[j] = names[j]
    BY <1>1, <2>1
  <2>3. \A j \in 1..Len(names) : names[j].user = u => j = i
    BY <1>1, <2>1 DEF OneSpelling
  <2>4. PlacesOf(u)' = {i}
    BY <2>1, <2>2, <2>3 DEF PlacesOf
  <2>5. ASSUME NEW v \in Users, v # u
        PROVE  PlacesOf(v)' = PlacesOf(v) /\ \A j \in PlacesOf(v) : names'[j] = names[j]
    BY <1>1, <2>1, <2>2, <2>5 DEF PlacesOf
  <2>6. ASSUME NEW v \in Users, v # u PROVE Spelled(v)' = Spelled(v)
    BY <2>5, <2>6 DEF Spelled
  <2>7. Spelled(u)' = {record.alt}
    BY <2>2, <2>4 DEF Spelled
  <2> QED
    BY <2>6, <2>7
<1> QED
  BY <1>2, <1>3

\* DeleteAltName takes out the spelling of its user only.
LEMMA SpelledWhenRemoved ==
    ASSUME NamesInv, NEW u \in Users, NEW i \in 1..Len(names), names[i].user = u,
           names' = RemoveAt(names, i)
    PROVE  /\ Spelled(u)' = {}
           /\ \A v \in Users : v # u => Spelled(v)' = Spelled(v)
<1>1. /\ names \in Seq(Record) /\ Len(names) \in Nat /\ DOMAIN names = 1..Len(names)
      /\ OneSpelling
  BY LenProperties DEF NamesInv, NameTypeOK, Record
<1>2. /\ names' \in Seq(Record) /\ Len(names') = Len(names) - 1
      /\ \A j \in 1..(Len(names) - 1) :
            names'[j] = IF j < i THEN names[j] ELSE names[j + 1]
  BY <1>1, RemoveAtFacts
<1>3. DOMAIN names' = 1..(Len(names) - 1)
  BY <1>2, LenProperties
<1>4. \A j \in 1..Len(names) : names[j].user = u => j = i
  BY <1>1 DEF OneSpelling
<1>5. PlacesOf(u)' = {}
  BY <1>1, <1>2, <1>3, <1>4 DEF PlacesOf
<1>6. ASSUME NEW v \in Users, v # u PROVE Spelled(v)' = Spelled(v)
  <2>1. ASSUME NEW j \in PlacesOf(v)' PROVE names'[j].alt \in Spelled(v)
    <3>1. j \in 1..(Len(names) - 1) /\ names'[j].user = v
      BY <1>3, <2>1 DEF PlacesOf
    <3>2. PICK k \in 1..Len(names) : names'[j] = names[k]
      BY <1>1, <1>2, <3>1
    <3> QED
      BY <1>1, <3>1, <3>2 DEF Spelled, PlacesOf
  <2>2. ASSUME NEW j \in PlacesOf(v) PROVE names[j].alt \in Spelled(v)'
    <3>1. j \in 1..Len(names) /\ names[j].user = v /\ j # i
      BY <1>1, <1>6 DEF PlacesOf
    <3>2. PICK k \in 1..(Len(names) - 1) : names'[k] = names[j]
      <4>1. CASE j < i
        BY <1>1, <1>2, <3>1, <4>1
      <4>2. CASE j > i
        <5>1. j - 1 \in 1..(Len(names) - 1) /\ ~(j - 1 < i) /\ j - 1 + 1 = j
          BY <1>1, <3>1, <4>2
        <5> QED
          BY <1>2, <5>1
      <4> QED
        BY <3>1, <4>1, <4>2
    <3> QED
      BY <1>3, <3>1, <3>2 DEF Spelled, PlacesOf
  <2> QED
    BY <2>1, <2>2 DEF Spelled
<1> QED
  BY <1>5, <1>6 DEF Spelled

-----------------------------------------------------------------------------
LEMMA OneAfterTheOtherFirst == ASSUME AltNamesConstants, NameInit PROVE OneAfterTheOther
<1>1. /\ nameLoc = [p \in Procs |-> NameIdle] /\ NameIdle.pc = "idle" /\ names = <<>>
      /\ \A u \in Users : nameUsers[u].flag = FALSE
  BY DEF NameInit, NameIdle, Unknown, UsedUp
<1>2. \A p \in Procs : nameLoc[p].pc = "idle"
  BY <1>1
<1>3. \A u \in Users : PlacesOf(u) = {} /\ Spelled(u) = {} /\ Due(u) = {}
  BY <1>1 DEF PlacesOf, Spelled, Due
<1> QED
  BY <1>1, <1>2, <1>3 DEF OneAfterTheOther, FlagsRight, RequestInOrder, Settled

LEMMA OneAfterTheOtherStays ==
    ASSUME AltNamesConstants, NamesInv, OneAfterTheOther, [NameNext]_nameVars
    PROVE  OneAfterTheOther'
<1> SUFFICES ASSUME alone, alone' = alone PROVE OneAfterTheOther'
  <2>1. alone' = alone
    BY DEF NameNext, nameVars, BeginNaming, LogIn, ReadRecord, RegisterUser, UpdateUser, RemoveUser,
           Rights, Fails, AddAltName, DeleteAltName
  <2>2. CASE ~alone
    BY <2>1, <2>2 DEF OneAfterTheOther
  <2> QED
    BY <2>1, <2>2
<1>1. /\ nameLoc \in [Procs -> NameRequest] /\ nameUsers \in [Users -> User]
      /\ names \in Seq(Record) /\ DOMAIN names = 1..Len(names)
      /\ \A p \in Procs : nameLoc[p].pc # "idle" => nameLoc[p].user \in Users
  BY LenProperties DEF NamesInv, NameTypeOK, RequestsRight, Record
\* Steps that leave the records and the file alone.
<1>2. ASSUME UNCHANGED <<nameUsers, names, unchecked>>
      PROVE  /\ Recorded' = Recorded /\ (FlagsRight' <=> FlagsRight)
             /\ \A u \in Users : Spelled(u)' = Spelled(u) /\ Due(u)' = Due(u)
             /\ \A u \in Users : Settled(u)' <=> Settled(u)
  BY <1>2 DEF Recorded, FlagsRight, Spelled, Due, PlacesOf, Settled
<1>3. ASSUME NEW p \in Procs, BeginNaming(p)
      PROVE  OneAfterTheOther'
  <2>1. PICK r : /\ nameLoc' = [nameLoc EXCEPT ![p] = r]
                 /\ r.pc = "login" /\ r.cache = Recorded
    <3>1. PICK op \in Ops, u \in Users :
             nameLoc' = [nameLoc EXCEPT ![p] =
                            [NameIdle EXCEPT !.pc = "login", !.op = op, !.user = u,
                                             !.cache = Recorded]]
      BY <1>3 DEF BeginNaming, Recorded
    <3>2. PICK r : r = [NameIdle EXCEPT !.pc = "login", !.op = op, !.user = u, !.cache = Recorded]
      OBVIOUS
    <3>3. NameIdle \in NameRequest
      BY IdleRequest
    <3>4. r.pc = "login" /\ r.cache = Recorded
      BY <3>2, <3>3 DEF NameRequest
    <3> QED
      BY <3>1, <3>2, <3>4
  <2>2. \A q \in Procs : nameLoc[q].pc = "idle"
    BY <1>3 DEF BeginNaming
  <2>3. UNCHANGED <<nameUsers, names, unchecked>>
    BY <1>3 DEF BeginNaming
  <2>4. FlagsRight' /\ Recorded' = Recorded
    BY <1>2, <2>3 DEF OneAfterTheOther
  <2>5. RequestInOrder(r)'
    BY <2>1, <2>4 DEF RequestInOrder
  <2>6. \A u \in Users : Settled(u)'
    BY <1>2, <2>2, <2>3 DEF OneAfterTheOther
  <2> QED
    BY <2>1, <2>2, <2>4, <2>5, <2>6, OneRequestMoves
<1>16. ASSUME NEW p \in Procs, LogIn(p)
       PROVE  OneAfterTheOther'
  <2>1. PICK may \in Askers(nameLoc[p].op, nameLoc[p].user) :
           nameLoc' = [nameLoc EXCEPT ![p].pc = "read", ![p].may = may]
    BY <1>16 DEF LogIn
  <2>2. PICK r : r = [nameLoc[p] EXCEPT !.pc = "read", !.may = may]
    OBVIOUS
  <2>3. nameLoc[p].pc = "login" /\ nameLoc' = [nameLoc EXCEPT ![p] = r]
    BY <1>1, <1>16, <2>1, <2>2 DEF LogIn
  <2>4. /\ r.pc = "read" /\ r.may = may /\ r.user = nameLoc[p].user
        /\ r.op = nameLoc[p].op /\ r.cache = nameLoc[p].cache
    BY <1>1, <2>2 DEF NameRequest
  <2>5. UNCHANGED <<nameUsers, names, unchecked>>
    BY <1>16 DEF LogIn
  <2>6. /\ \A q \in Procs : q # p => nameLoc[q].pc = "idle"
        /\ FlagsRight /\ nameLoc[p].cache = Recorded
        /\ \A u \in Users : Settled(u)
    BY <2>3, OnlyOne DEF RequestInOrder
  <2>7. AskerRight(r)
    BY <2>1, <2>4 DEF AskerRight, Askers
  <2>8. RequestInOrder(r)'
    BY <1>2, <2>4, <2>5, <2>6, <2>7 DEF RequestInOrder, AskerRight
  <2> QED
    BY <1>2, <2>3, <2>5, <2>6, <2>8, OneRequestMoves
<1>4. ASSUME NEW p \in Procs, ReadRecord(p)
      PROVE  OneAfterTheOther'
  <2>1. PICK r : r = [nameLoc[p] EXCEPT !.pc = "write", !.ui = nameUsers[nameLoc[p].user]]
    OBVIOUS
  <2>2. nameLoc[p].pc = "read" /\ nameLoc' = [nameLoc EXCEPT ![p] = r]
    BY <1>1, <1>4, <2>1 DEF ReadRecord
  <2>3. /\ r.pc = "write" /\ r.ui = nameUsers[r.user] /\ r.cache = nameLoc[p].cache
        /\ r.op = nameLoc[p].op /\ r.may = nameLoc[p].may /\ r.user = nameLoc[p].user
    BY <1>1, <2>1 DEF NameRequest
  <2>4. UNCHANGED <<nameUsers, names, unchecked>>
    BY <1>4 DEF ReadRecord
  <2>5. /\ \A q \in Procs : q # p => nameLoc[q].pc = "idle"
        /\ FlagsRight /\ nameLoc[p].cache = Recorded /\ AskerRight(nameLoc[p])
        /\ \A u \in Users : Settled(u)
    BY <2>2, OnlyOne DEF RequestInOrder
  <2>6. RequestInOrder(r)'
    BY <1>2, <2>3, <2>4, <2>5 DEF RequestInOrder, AskerRight
  <2> QED
    BY <1>2, <2>2, <2>4, <2>5, <2>6, OneRequestMoves
<1>5. ASSUME NEW p \in Procs, Fails(p)
      PROVE  OneAfterTheOther'
  <2>1. /\ nameLoc[p].pc \in {"read", "write"} /\ nameLoc' = [nameLoc EXCEPT ![p] = NameIdle]
        /\ UNCHANGED <<nameUsers, names, unchecked>> /\ NameIdle.pc = "idle"
    BY <1>5 DEF Fails, NameIdle
  <2>2. /\ \A q \in Procs : q # p => nameLoc[q].pc = "idle"
        /\ FlagsRight /\ \A u \in Users : Settled(u)
    BY <2>1, OnlyOne
  <2>3. RequestInOrder(NameIdle)'
    BY <2>1 DEF RequestInOrder
  <2> QED
    BY <1>2, <2>1, <2>2, <2>3, OneRequestMoves
\* The record of a request about to write is the one it has read.
<1>6. ASSUME NEW p \in Procs, nameLoc[p].pc = "write"
      PROVE  /\ nameLoc[p].user \in Users /\ nameLoc[p].ui = nameUsers[nameLoc[p].user]
             /\ nameUsers[nameLoc[p].user] \in User /\ FlagsRight
             /\ AskerRight(nameLoc[p]) /\ nameLoc[p].may \in BOOLEAN
             /\ \A u \in Users : Settled(u)
    BY <1>1, <1>6, OnlyOne DEF RequestInOrder, NameRequest
<1>7. ASSUME NEW p \in Procs, RegisterUser(p)
      PROVE  OneAfterTheOther'
  <2>1. nameLoc[p].pc = "write" /\ UNCHANGED <<names, alone>>
    BY <1>7 DEF RegisterUser, Writes
  <2>2. PICK u \in Users, may \in BOOLEAN : u = nameLoc[p].user /\ may = nameLoc[p].may
    BY <1>6, <2>1
  <2>3. PICK alt \in Spelling, job \in {"none", "add", "delete"} :
           /\ nameUsers' = [nameUsers EXCEPT ![u] = Respelled(alt, may, FALSE)]
           /\ job = JobFor(alt) /\ Then(p, job, alt) /\ Checked(u, job, FALSE)
    <3>1. PICK alt \in Spelling :
             /\ nameUsers' = [nameUsers EXCEPT ![u] = Respelled(alt, may, FALSE)]
             /\ Then(p, JobFor(alt), alt) /\ Checked(u, JobFor(alt), FALSE)
      BY <1>7, <2>2 DEF RegisterUser
    <3>2. JobFor(alt) \in {"none", "add", "delete"}
      BY DEF JobFor
    <3> QED
      BY <3>1, <3>2
  <2>7. PICK record : record = Respelled(alt, may, FALSE)
    OBVIOUS
  <2>4. /\ record.state = "there" /\ record.alt = alt /\ record.flag = (may /\ alt # Empty)
        /\ record.right = FALSE
    BY <2>7 DEF Respelled
  <2>5. /\ job = "add" => unchecked' = unchecked \cup {u}
        /\ job # "add" => unchecked' = unchecked
        /\ job = IF alt = Empty THEN "delete" ELSE "add"
    BY <2>3 DEF Checked, JobFor
  <2>6. Due(u)' = IF may /\ alt # Empty THEN {alt} ELSE {}
    BY <1>1, <2>3, <2>4, <2>7 DEF Due
  <2> QED
    BY <2>1, <2>2, <2>3, <2>4, <2>5, <2>6, <2>7, RecordWritten
<1>8. ASSUME NEW p \in Procs, UpdateUser(p)
      PROVE  OneAfterTheOther'
  <2>1. nameLoc[p].pc = "write" /\ nameLoc[p].op = "update" /\ UNCHANGED <<names, alone>>
    BY <1>8 DEF UpdateUser, Writes
  <2>2. PICK u \in Users, may \in BOOLEAN, right \in BOOLEAN :
           u = nameLoc[p].user /\ may = nameLoc[p].may /\ right = nameUsers[u].right
    BY <1>6, <2>1 DEF User
  <2>3. nameUsers[u].state = "there" /\ (~may => ~right)
    BY <1>6, <1>8, <2>1, <2>2 DEF UpdateUser, AskerRight
  <2>4. PICK alt \in Spelling, job \in {"none", "add", "delete"} :
           /\ nameUsers' = [nameUsers EXCEPT ![u] = Respelled(alt, may, right)]
           /\ job = JobOfUpdate(may, alt) /\ Then(p, job, alt) /\ Checked(u, job, right)
    <3>1. nameLoc[p].ui.right = right
      BY <1>6, <2>1, <2>2
    <3>2. PICK alt \in Spelling :
             /\ nameUsers' = [nameUsers EXCEPT ![u] = Respelled(alt, may, right)]
             /\ Then(p, JobOfUpdate(may, alt), alt)
             /\ Checked(u, JobOfUpdate(may, alt), right)
      BY <1>8, <2>2, <3>1 DEF UpdateUser
    <3>3. JobOfUpdate(may, alt) \in {"none", "add", "delete"}
      BY DEF JobOfUpdate, JobFor
    <3> QED
      BY <3>2, <3>3
  <2>9. PICK record : record = Respelled(alt, may, right)
    OBVIOUS
  <2>5. /\ record.state = "there" /\ record.alt = alt /\ record.flag = (may /\ alt # Empty)
        /\ record.right = right
    BY <2>9 DEF Respelled
  <2>6. /\ job = "add" => unchecked' = IF right THEN unchecked \ {u} ELSE unchecked \cup {u}
        /\ job # "add" => unchecked' = unchecked
        /\ job = IF ~may THEN "none" ELSE IF alt = Empty THEN "delete" ELSE "add"
    BY <2>4 DEF Checked, JobFor, JobOfUpdate
  <2>7. Due(u)' = IF may /\ alt # Empty THEN {alt} ELSE {}
    BY <1>1, <2>4, <2>5, <2>9 DEF Due
  <2>8. job = "none" => Settled(u)'
    <3>1. SUFFICES ASSUME job = "none" PROVE Settled(u)'
      OBVIOUS
    <3>2. ~may /\ ~right /\ Due(u)' = {} /\ unchecked' = unchecked /\ Spelled(u)' = Spelled(u)
      BY <2>1, <2>3, <2>6, <2>7, <3>1 DEF Spelled, PlacesOf
    <3>3. Settled(u) /\ (Due(u) = {} \/ u \in unchecked)
      BY <1>6, <2>1, <2>2, <3>2 DEF FlagsRight, Due
    <3> QED
      BY <3>2, <3>3 DEF Settled
  <2> QED
    BY <2>1, <2>2, <2>4, <2>5, <2>6, <2>7, <2>8, <2>9, RecordWritten
<1>9. ASSUME NEW p \in Procs, RemoveUser(p)
      PROVE  OneAfterTheOther'
  <2>1. nameLoc[p].pc = "write" /\ UNCHANGED <<names, unchecked, alone>>
    BY <1>9 DEF RemoveUser, Writes
  <2>2. PICK u \in Users, ui \in User :
           u = nameLoc[p].user /\ ui = nameLoc[p].ui /\ ui = nameUsers[u]
    BY <1>6, <2>1
  <2>3. PICK job \in {"none", "add", "delete"}, record \in User :
           /\ record = [nameUsers[u] EXCEPT !.state = "removed"]
           /\ nameUsers' = [nameUsers EXCEPT ![u] = record]
           /\ job = IF ui.alt # Empty /\ ui.flag THEN "delete" ELSE "none"
           /\ Then(p, job, Empty)
    BY <1>1, <1>9, <2>2 DEF RemoveUser, User
  <2>4. Due(u)' = {} /\ record.flag = ui.flag /\ record.right = ui.right /\ record.alt = ui.alt
    BY <1>1, <2>2, <2>3 DEF Due, User
  <2>5. record.state = "removed" /\ (ui.flag /\ ui.state = "there" => ui.alt # Empty)
    BY <1>6, <2>1, <2>2, <2>3 DEF FlagsRight, User
  <2>6. job # "add" /\ (job = "none" => Due(u) = {})
    BY <2>2, <2>3, <2>5 DEF Due
  <2>7. job = "none" => Settled(u)'
    <3>1. Settled(u) /\ Spelled(u)' = Spelled(u)
      BY <1>6, <2>1, <2>2 DEF Spelled, PlacesOf
    <3> QED
      BY <2>1, <2>4, <2>6, <3>1 DEF Settled
  <2> QED
    BY <2>1, <2>2, <2>3, <2>4, <2>5, <2>6, <2>7, RecordWritten
<1>10. ASSUME NEW p \in Procs, Rights(p)
       PROVE  OneAfterTheOther'
  <2>1. nameLoc[p].pc = "write" /\ UNCHANGED <<names, unchecked, alone>>
    BY <1>10 DEF Rights, Writes
  <2>2. PICK u \in Users, ui \in User :
           u = nameLoc[p].user /\ ui = nameLoc[p].ui /\ ui = nameUsers[u]
    BY <1>6, <2>1
  <2>3. PICK right \in BOOLEAN, job \in {"none", "add", "delete"}, record \in User :
           /\ record = IF ui.state # "there" THEN ui
                       ELSE [state |-> "there", alt |-> ui.alt,
                             flag |-> ui.flag /\ ~(ui.right /\ ~right), right |-> right]
           /\ nameUsers' = [nameUsers EXCEPT ![u] = record]
           /\ job = IF ui.right /\ ~right THEN "delete" ELSE "none"
           /\ Then(p, job, Empty)
    <3> DEFINE Changed(right) == [state |-> "there", alt |-> ui.alt,
                                 flag |-> ui.flag /\ ~(ui.right /\ ~right), right |-> right]
    <3>1. PICK right \in BOOLEAN :
             /\ nameUsers' = IF ui.state # "there" THEN nameUsers
                              ELSE [nameUsers EXCEPT ![u] = Changed(right)]
             /\ Then(p, IF ui.right /\ ~right THEN "delete" ELSE "none", Empty)
      BY <1>10, <2>2 DEF Rights
    <3>2. Changed(right) \in User
      BY <2>2 DEF User
    <3>3. nameUsers = [nameUsers EXCEPT ![u] = ui]
      BY <1>1, <2>2
    <3> HIDE DEF Changed
    <3>4. CASE ui.state # "there"
      BY <2>2, <3>1, <3>3, <3>4
    <3>5. CASE ui.state = "there"
      BY <3>1, <3>2, <3>5 DEF Changed
    <3> QED
      BY <3>4, <3>5
  <2>4. ui.flag /\ ui.state = "there" => ui.alt # Empty /\ (ui.right \/ u \in unchecked)
    BY <1>6, <2>1, <2>2 DEF FlagsRight
  <2>5. nameUsers'[u] = record
    BY <1>1, <2>2, <2>3
  <2>8. Due(u)' = Due(u) => Settled(u)'
    <3>1. Settled(u) /\ Spelled(u)' = Spelled(u)
      BY <1>6, <2>1, <2>2 DEF Spelled, PlacesOf
    <3> QED
      BY <2>1, <3>1 DEF Settled
  <2>6. CASE ui.state # "there"
    <3>1. Due(u) = {} /\ Due(u)' = {}
      BY <2>2, <2>3, <2>5, <2>6 DEF Due
    <3>2. record.state # "there" /\ job # "add"
      BY <2>3, <2>6
    <3> QED
      BY <2>1, <2>2, <2>3, <2>6, <2>8, <3>1, <3>2, RecordWritten
  <2>7. CASE ui.state = "there"
    <3>1. /\ record.state = "there" /\ record.alt = ui.alt /\ record.right = right
          /\ record.flag = (ui.flag /\ ~(ui.right /\ ~right))
      BY <2>3, <2>7
    <3>2. record.flag => record.alt # Empty /\ (record.right \/ u \in unchecked)
      BY <2>4, <2>7, <3>1
    <3>3. /\ job = "delete" => Due(u)' = {}
          /\ job = "none" => Due(u)' = Due(u)
          /\ job # "add"
      <4>1. /\ Due(u) = IF ui.flag THEN {ui.alt} ELSE {}
            /\ Due(u)' = IF record.flag THEN {ui.alt} ELSE {}
        BY <2>2, <2>5, <2>7, <3>1 DEF Due
      <4>2. CASE ui.right /\ ~right
        BY SMTT(40), <2>3, <3>1, <4>1, <4>2
      <4>3. CASE ~(ui.right /\ ~right)
        <5>1. job = "none" /\ record.flag = ui.flag
          BY SMTT(40), <2>2, <2>3, <3>1, <4>3 DEF User
        <5> QED
          BY <4>1, <5>1
      <4> QED
        BY <4>2, <4>3
    <3> QED
      BY <2>1, <2>2, <2>3, <2>8, <3>2, <3>3, RecordWritten
  <2> QED
    BY <2>6, <2>7
<1>11. ASSUME NEW p \in Procs, nameLoc[p].pc = "file"
       PROVE  /\ nameLoc[p].user \in Users /\ JobRight(nameLoc[p])
              /\ \A q \in Procs : q # p => nameLoc[q].pc = "idle"
              /\ FlagsRight /\ nameLoc[p].cache = Recorded
              /\ \A v \in Users : v # nameLoc[p].user => Settled(v)
  BY <1>1, <1>11, OnlyOne DEF RequestInOrder
\* The request has put the file right and ends.
<1>12. ASSUME NEW p \in Procs, nameLoc[p].pc = "file", nameLoc' = [nameLoc EXCEPT ![p] = NameIdle],
              UNCHANGED nameUsers, FlagsRight', \A v \in Users : Settled(v)'
       PROVE  OneAfterTheOther'
  <2>1. NameIdle.pc = "idle" /\ RequestInOrder(NameIdle)'
    BY DEF RequestInOrder, NameIdle
  <2> QED
    BY <1>11, <1>12, <2>1, OneRequestMoves
<1>13. ASSUME NEW p \in Procs, AddAltName(p)
       PROVE  OneAfterTheOther'
  <2>1. PICK u \in Users, alt \in Spellings :
           /\ u = nameLoc[p].user /\ alt = nameLoc[p].alt
           /\ names' = Written(p, u, [user |-> u, alt |-> alt])
    BY <1>1, <1>13 DEF AddAltName, NamesInv, RequestsRight
  <2>2. /\ nameLoc[p].pc = "file" /\ nameLoc[p].job = "add"
        /\ nameLoc' = [nameLoc EXCEPT ![p] = NameIdle] /\ UNCHANGED <<nameUsers, unchecked>>
    BY <1>13, <2>1 DEF AddAltName
  <2>3. FlagsRight' /\ (Due(u) = {alt} \/ (u \in unchecked /\ Due(u) = {}))
    BY <1>11, <2>1, <2>2 DEF JobRight, FlagsRight
  <2>4. Spelled(u)' = {alt} /\ \A v \in Users : v # u => Spelled(v)' = Spelled(v)
    BY <2>1, SpelledWhenWritten
  <2>5. \A v \in Users : v # u => Settled(v)
    BY <1>11, <2>1, <2>2
  <2>6. \A v \in Users : Due(v)' = Due(v)
    BY <2>2 DEF Due
  <2>7. \A v \in Users : Settled(v)'
    BY <2>2, <2>3, <2>4, <2>5, <2>6 DEF Settled
  <2> QED
    BY <1>12, <2>2, <2>3, <2>7
<1>14. ASSUME NEW p \in Procs, DeleteAltName(p)
       PROVE  OneAfterTheOther'
  <2>1. PICK u \in Users : u = nameLoc[p].user
    BY <1>1, <1>14 DEF DeleteAltName
  <2>2. /\ nameLoc[p].pc = "file" /\ nameLoc[p].job = "delete"
        /\ nameLoc' = [nameLoc EXCEPT ![p] = NameIdle] /\ UNCHANGED nameUsers
    BY <1>14 DEF DeleteAltName
  <2>3. Due(u) = {} /\ nameLoc[p].cache = Recorded
    BY <1>11, <2>1, <2>2 DEF JobRight
  <2>4. /\ \A v \in Users : v # u => Settled(v)
        /\ \A v \in Users : Due(v)' = Due(v)
    BY <1>11, <2>1, <2>2 DEF Due
  <2>5. CASE PlacesOf(u) # {}
    <3>1. u \in nameLoc[p].cache
      BY <2>3, <2>5 DEF Recorded, PlacesOf
    <3>2. PICK i \in 1..Len(names) : names[i].user = u /\ names' = RemoveAt(names, i)
      BY <1>14, <2>1, <2>5, <3>1, FirstPlace DEF DeleteAltName
    <3>3. unchecked' = unchecked \ {u}
      BY <1>14, <2>1, <2>5, <3>1 DEF DeleteAltName
    <3>4. Spelled(u)' = {} /\ \A v \in Users : v # u => Spelled(v)' = Spelled(v)
      BY <3>2, SpelledWhenRemoved
    <3>5. \A v \in Users : Settled(v)'
      BY <2>3, <2>4, <3>3, <3>4 DEF Settled
    <3>6. ~(nameUsers[u].flag /\ nameUsers[u].state = "there")
      BY <2>3 DEF Due
    <3>7. FlagsRight'
      BY <1>11, <2>2, <3>3, <3>6 DEF FlagsRight
    <3> QED
      BY <1>12, <2>2, <3>5, <3>7
  <2>6. CASE PlacesOf(u) = {}
    <3>1. UNCHANGED <<nameUsers, names, unchecked>>
      BY <1>14, <2>1, <2>6 DEF DeleteAltName
    <3>2. Spelled(u) = {}
      BY <2>6 DEF Spelled
    <3>3. \A v \in Users : Settled(v)'
      BY <1>2, <2>3, <2>4, <3>1, <3>2 DEF Settled
    <3> QED
      BY <1>2, <1>11, <1>12, <2>2, <3>1, <3>3
  <2> QED
    BY <2>5, <2>6
<1>15. CASE UNCHANGED nameVars
  <2>1. UNCHANGED <<nameUsers, names, unchecked, nameLoc, alone>>
    BY <1>15 DEF nameVars
  <2>2. \A p \in Procs : RequestInOrder(nameLoc[p])'
    BY <1>2, <2>1 DEF OneAfterTheOther, RequestInOrder, AskerRight, JobRight, Due
  <2> QED
    BY <1>2, <2>1, <2>2 DEF OneAfterTheOther
<1> QED
  BY <1>3, <1>4, <1>5, <1>7, <1>8, <1>9, <1>10, <1>13, <1>14, <1>15, <1>16 DEF NameNext

\* When requests come one after the other, however many users there are and whoever
\* asks, the file spells every user whose record says so as the record says, and
\* nobody else, but for users who were given a spelling without a right of their own,
\* at registration or by a superuser (CheckAndCreateProfile, the handler of rights,
\* AddAltName, DeleteAltName).
THEOREM FileAgreesWithRecords == ASSUME AltNamesConstants PROVE NameSpec => []SpellingsAgree
<1>1. NameInit => OneAfterTheOther
  BY OneAfterTheOtherFirst
<1>2. NamesInv /\ OneAfterTheOther /\ [NameNext]_nameVars => OneAfterTheOther'
  BY OneAfterTheOtherStays
<1>3. NamesInv /\ OneAfterTheOther => SpellingsAgree
  BY DEF OneAfterTheOther, SpellingsAgree, Spelled, Due, Settled
<1> QED
  BY <1>1, <1>2, <1>3, NamesInvHolds, PTL DEF NameSpec

-----------------------------------------------------------------------------
(***************************************************************************)
(* PeriodsRight is an invariant of ActivityLog.  Each of the numbers kept, *)
(* whether still as records or summed up, is that of a set of hits of its  *)
(* period; nobody hits the period again once it is over, and of requests   *)
(* that come one after the other none is missing, because the two files    *)
(* take turns: the file that collects is never the one that is shown, and  *)
(* one that is reused is of an earlier period than the other.              *)
(***************************************************************************)

\* The records of a file.
LEMMA HitsFacts ==
    ASSUME NEW hits \in Hits
    PROVE  /\ hits \in Seq([host : Hosts, count : Nat])
           /\ Len(hits) \in Nat /\ DOMAIN hits = 1..Len(hits)
           /\ \A k \in 1..Len(hits) :
                 /\ hits[k] \in [host : Hosts, count : Nat]
                 /\ hits[k].host \in Hosts /\ hits[k].count \in Nat
<1>1. hits \in Seq([host : Hosts, count : Nat])
  BY DEF Hits
<1>2. Len(hits) \in Nat /\ DOMAIN hits = 1..Len(hits)
  BY <1>1
<1>3. \A k \in 1..Len(hits) : hits[k] \in [host : Hosts, count : Nat]
  BY <1>1, ElementOfSeq
<1>4. \A r \in [host : Hosts, count : Nat] : r.host \in Hosts /\ r.count \in Nat
  OBVIOUS
<1> QED
  BY <1>1, <1>2, <1>3, <1>4

\* f is the running sum of the counts.
Adds(f, hits) ==
    /\ f \in [0..Len(hits) -> Nat] /\ f[0] = 0
    /\ \A k \in 1..Len(hits) : f[k] = f[k - 1] + hits[k].count

\* There is one.
LEMMA AddsThere == ASSUME NEW hits \in Hits PROVE \E f : Adds(f, hits)
<1> DEFINE n == Len(hits)
           part(f, m) == /\ f \in [0..m -> Nat] /\ f[0] = 0
                         /\ \A k \in 1..m : f[k] = f[k - 1] + hits[k].count
           T == {m \in 0..n : ~ \E f : part(f, m)}
<1>1. n \in Nat /\ \A k \in 1..n : hits[k].count \in Nat
  BY HitsFacts
<1>2. SUFFICES ASSUME T # {} PROVE FALSE
  <2>1. n \in 0..n
    BY <1>1
  <2> QED
    BY <2>1 DEF Adds
<1>3. PICK m \in T : \A y \in T : m <= y
  <2>1. T \in SUBSET Nat
    BY <1>1
  <2> HIDE DEF T
  <2> QED
    BY <1>2, <2>1, HasLeast
<1>4. m # 0
  <2>1. part([k \in 0..0 |-> 0], 0)
    OBVIOUS
  <2> QED
    BY <1>3, <2>1
<1>5. m \in 1..n /\ m - 1 \in 0..n /\ m - 1 \notin T
  <2>1. m \in 0..n
    BY <1>3
  <2>2. m \in 1..n /\ m - 1 \in 0..n /\ ~ m <= m - 1
    BY ONLY <1>1, <1>4, <2>1
  <2> HIDE DEF T
  <2> QED
    BY <1>3, <2>2
<1>6. PICK f : part(f, m - 1)
  BY <1>5
<1> DEFINE g == [k \in 0..m |-> IF k = m THEN f[m - 1] + hits[m].count ELSE f[k]]
<1>7. g \in [0..m -> Nat]
  BY <1>1, <1>5, <1>6
<1>8. g[0] = 0
  BY <1>5, <1>6
<1>9. ASSUME NEW k \in 1..m PROVE g[k] = g[k - 1] + hits[k].count
  <2>1. CASE k = m
    BY <1>5, <1>6, <2>1
  <2>2. CASE k # m
    <3>1. k \in 1..(m - 1) /\ k \in 0..m /\ k - 1 \in 0..m /\ k - 1 # m
      BY <1>5, <2>2
    <3>2. g[k] = f[k] /\ g[k - 1] = f[k - 1]
      BY <2>2, <3>1
    <3> QED
      BY <1>6, <3>1, <3>2
  <2> QED
    BY <2>1, <2>2
<1>10. part(g, m)
  BY <1>7, <1>8, <1>9
<1> QED
  BY <1>3, <1>10

\* Total is what it comes to.
LEMMA TotalIs == ASSUME NEW hits \in Hits PROVE \E f : Adds(f, hits) /\ Total(hits) = f[Len(hits)]
<1> DEFINE n == Len(hits)
           step(f) == [k \in 0..n |-> IF k = 0 THEN 0 ELSE f[k - 1] + hits[k].count]
           upTo == CHOOSE f : f = step(f)
<1>1. n \in Nat
  BY DEF Hits
<1>2. PICK f : Adds(f, hits)
  BY AddsThere
<1>3. f = step(f)
  BY <1>1, <1>2 DEF Adds
<1>4. upTo = step(upTo)
  BY <1>3
<1>5. Total(hits) = upTo[n]
  BY DEF Total
<1> HIDE DEF upTo
<1>6. upTo[0] = 0 /\ \A k \in 1..n : upTo[k] = upTo[k - 1] + hits[k].count
  BY <1>1, <1>4
<1> DEFINE T == {m \in 0..n : upTo[m] # f[m]}
<1>7. T = {}
  <2> SUFFICES ASSUME T # {} PROVE FALSE
    OBVIOUS
  <2>1. PICK m \in T : \A y \in T : m <= y
    <3>1. T \in SUBSET Nat
      BY <1>1
    <3> HIDE DEF T
    <3> QED
      BY <3>1, HasLeast
  <2>2. m # 0 /\ m \in 1..n /\ m - 1 \in 0..n /\ m - 1 \notin T
    BY <1>1, <1>2, <1>6, <2>1 DEF Adds
  <2> QED
    BY <1>2, <1>6, <2>1, <2>2 DEF Adds
<1> QED
  BY <1>1, <1>2, <1>5, <1>7

\* Up to where the records are the same, the sums are.
LEMMA AddsAlike ==
    ASSUME NEW s \in Hits, NEW t \in Hits, NEW f, NEW g, Adds(f, s), Adds(g, t),
           NEW m \in Nat, m <= Len(s), m <= Len(t), \A k \in 1..m : s[k].count = t[k].count
    PROVE  f[m] = g[m]
<1> DEFINE T == {k \in 0..m : f[k] # g[k]}
<1>1. Len(s) \in Nat /\ Len(t) \in Nat
  BY DEF Hits
<1>2. SUFFICES ASSUME T # {} PROVE FALSE
  OBVIOUS
<1>3. PICK k \in T : \A y \in T : k <= y
  <2>1. T \in SUBSET Nat
    OBVIOUS
  <2> HIDE DEF T
  <2> QED
    BY <1>2, <2>1, HasLeast
<1>4. k # 0 /\ k \in 1..m /\ k - 1 \in 0..m /\ k - 1 \notin T
  BY <1>1, <1>3 DEF Adds
<1>5. f[k] = f[k - 1] + s[k].count /\ g[k] = g[k - 1] + t[k].count
  BY <1>1, <1>4 DEF Adds
<1> QED
  BY <1>3, <1>4, <1>5

\* One count is one more: so is the sum.
LEMMA TotalOneMore ==
    ASSUME NEW s \in Hits, NEW t \in Hits, Len(t) = Len(s), NEW i \in 1..Len(s),
           \A k \in 1..Len(s) : t[k].count = IF k = i THEN s[k].count + 1 ELSE s[k].count
    PROVE  Total(t) = Total(s) + 1
<1> DEFINE n == Len(s)
<1>1. n \in Nat /\ i \in 1..n /\ i - 1 \in Nat /\ \A k \in 1..n : s[k].count \in Nat
  BY HitsFacts
<1>2. PICK f : Adds(f, s) /\ Total(s) = f[n]
  BY TotalIs
<1>3. PICK g : Adds(g, t) /\ Total(t) = g[n]
  BY TotalIs
<1>4. g[i - 1] = f[i - 1]
  <2>1. i - 1 <= Len(s) /\ i - 1 <= Len(t) /\ \A k \in 1..(i - 1) : s[k].count = t[k].count
    BY <1>1
  <2> QED
    BY <1>1, <1>2, <1>3, <2>1, AddsAlike
<1>5. f \in [0..n -> Nat] /\ \A k \in 1..n : f[k] = f[k - 1] + s[k].count
  BY <1>2 DEF Adds
<1>6. g \in [0..n -> Nat] /\ \A k \in 1..n : g[k] = g[k - 1] + t[k].count
  BY <1>3 DEF Adds
<1> HIDE DEF n
<1> DEFINE T == {k \in i..n : g[k] # f[k] + 1}
<1>7. T = {}
  <2> SUFFICES ASSUME T # {} PROVE FALSE
    OBVIOUS
  <2>1. PICK k \in T : \A y \in T : k <= y
    <3>1. T \in SUBSET Nat
      BY <1>1
    <3> HIDE DEF T
    <3> QED
      BY <3>1, HasLeast
  <2>2. k \in 1..n /\ k - 1 \in 0..n /\ k >= i
    BY <1>1, <2>1
  <2>3. CASE k = i
    <3>1. g[k] = g[k - 1] + (s[k].count + 1) /\ f[k] = f[k - 1] + s[k].count
      BY <1>5, <1>6, <2>2, <2>3 DEF n
    <3> QED
      BY <1>1, <1>4, <1>5, <2>1, <2>2, <2>3, <3>1
  <2>4. CASE k # i
    <3>1. g[k] = g[k - 1] + s[k].count /\ f[k] = f[k - 1] + s[k].count
      BY <1>5, <1>6, <2>2, <2>4 DEF n
    <3>2. k - 1 \in i..n /\ k - 1 \notin T
      <4>1. i \in Nat /\ k \in Nat /\ n \in Nat /\ k >= i /\ k <= n
        BY <1>1, <2>2
      <4>2. k - 1 \in i..n /\ k - 1 < k
        BY <2>4, <4>1
      <4>3. \A y \in T : k <= y
        BY <2>1
      <4> HIDE DEF T
      <4>4. k - 1 \notin T
        BY <4>1, <4>2, <4>3
      <4> QED
        BY <4>2, <4>4
    <3>3. g[k - 1] = f[k - 1] + 1
      BY <3>2
    <3> QED
      <4>1. f[k - 1] \in Nat /\ s[k].count \in Nat
        BY <1>1, <1>5, <2>2
      <4>2. g[k] # f[k] + 1
        BY <2>1
      <4> HIDE DEF T
      <4> QED
        BY <3>1, <3>3, <4>1, <4>2
  <2> QED
    BY <2>3, <2>4
<1>8. g[n] = f[n] + 1
  BY <1>1, <1>7
<1> QED
  BY <1>2, <1>3, <1>8

\* A record more with the count 1.
LEMMA TotalAppended ==
    ASSUME NEW s \in Hits, NEW h \in Hosts
    PROVE  Total(Append(s, [host |-> h, count |-> 1])) = Total(s) + 1
<1>1. PICK x : x = [host |-> h, count |-> 1]
  OBVIOUS
<1>2. PICK t : t = Append(s, x)
  OBVIOUS
<1>3. PICK n : n = Len(s)
  OBVIOUS
<1>4. x \in [host : Hosts, count : Nat] /\ x.count = 1
  BY <1>1
<1>5. /\ t \in Hits /\ Len(t) = n + 1 /\ t[n + 1] = x /\ n \in Nat
      /\ \A k \in 1..n : t[k] = s[k]
  BY <1>2, <1>3, <1>4, AppendProperties DEF Hits
<1>6. PICK f : Adds(f, s) /\ Total(s) = f[n]
  BY <1>3, TotalIs
<1>7. PICK g : Adds(g, t) /\ Total(t) = g[n + 1]
  BY <1>5, TotalIs
<1>8. f[n] = g[n]
  <2>1. n <= Len(s) /\ n <= Len(t) /\ \A k \in 1..n : s[k].count = t[k].count
    BY <1>3, <1>5
  <2> QED
    BY ONLY s \in Hits, <1>5, <1>6, <1>7, <2>1, AddsAlike
<1>9. g[n + 1] = g[n] + 1
  <2>1. n + 1 \in 1..Len(t) /\ (n + 1) - 1 = n
    BY <1>5
  <2> QED
    BY <1>4, <1>5, <1>7, <2>1 DEF Adds
<1> QED
  BY <1>1, <1>2, <1>6, <1>7, <1>8, <1>9

LEMMA TotalNone == Total(<<>>) = 0
<1>1. <<>> \in Hits /\ Len(<<>>) = 0
  BY DEF Hits
<1> QED
  BY <1>1, TotalIs DEF Adds

LEMMA TotalType == ASSUME NEW s \in Hits PROVE Total(s) \in Nat
<1>1. Len(s) \in Nat
  BY DEF Hits
<1> QED
  BY <1>1, TotalIs DEF Adds

OneEach(hits) == \A i, j \in DOMAIN hits : hits[i].host = hits[j].host => i = j
Listed(hits) == {hits[i].host : i \in DOMAIN hits}

\* A hit is counted once, for its address, which then has a record.
LEMMA CountedFacts ==
    ASSUME NEW hits \in Hits, OneEach(hits), NEW h \in Hosts
    PROVE  /\ Counted(hits, h) \in Hits /\ OneEach(Counted(hits, h))
           /\ Total(Counted(hits, h)) = Total(hits) + 1
           /\ Listed(Counted(hits, h)) = Listed(hits) \cup {h}
<1> DEFINE n == Len(hits)
           I == {k \in 1..n : hits[k].host = h}
           i == SelectInSeq(hits, LAMBDA r : r.host = h)
<1>1. n \in Nat /\ DOMAIN hits = 1..n /\ \A k \in 1..n : hits[k] \in [host : Hosts, count : Nat]
  BY HitsFacts
<1>2. i = IF I # {} THEN Min(I) ELSE 0
  BY DEF SelectInSeq
<1>3. CASE I = {}
  <2>1. i = 0
    BY <1>2, <1>3
  <2>2. PICK x : x = [host |-> h, count |-> 1]
    OBVIOUS
  <2>3. PICK t : t = Append(hits, x)
    OBVIOUS
  <2>4. Counted(hits, h) = t
    BY <2>1, <2>2, <2>3 DEF Counted
  <2>5. x \in [host : Hosts, count : Nat] /\ x.host = h
    BY <2>2
  <2>6. /\ t \in Hits /\ Len(t) = n + 1 /\ t[n + 1] = x /\ DOMAIN t = 1..(n + 1)
        /\ \A k \in 1..n : t[k] = hits[k]
    BY <2>3, <2>5, AppendProperties DEF Hits
  <2>7. OneEach(t)
    BY <1>1, <1>3, <2>5, <2>6 DEF OneEach
  <2>8. Listed(t) = Listed(hits) \cup {h}
    BY <1>1, <2>5, <2>6 DEF Listed
  <2>9. Total(t) = Total(hits) + 1
    BY <2>2, <2>3, TotalAppended
  <2> QED
    BY <2>4, <2>6, <2>7, <2>8, <2>9
<1>4. CASE I # {}
  <2>1. i \in 1..n /\ hits[i].host = h
    <3>1. I \in SUBSET (1..n)
      OBVIOUS
    <3>2. Min(I) \in I
      <4> HIDE DEF I, n
      <4> QED
        BY <1>1, <1>4, <3>1, SearchFacts
    <3> QED
      BY <1>2, <1>4, <3>2
  <2> HIDE DEF i
  <2>2. PICK p : p = i
    OBVIOUS
  <2>3. PICK t : t = [hits EXCEPT ![p].count = @ + 1]
    OBVIOUS
  <2>4. Counted(hits, h) = t
    BY <2>1, <2>2, <2>3 DEF Counted, i
  <2>5. /\ t \in Hits /\ Len(t) = n /\ DOMAIN t = 1..n
        /\ \A k \in 1..n : /\ t[k].host = hits[k].host
                           /\ t[k].count = IF k = p THEN hits[k].count + 1 ELSE hits[k].count
    <3>1. /\ Len(t) = n /\ DOMAIN t = 1..n
          /\ \A k \in 1..n : t[k] = IF k = p THEN [hits[k] EXCEPT !.count = @ + 1] ELSE hits[k]
      BY <1>1, <2>1, <2>2, <2>3, HitsFacts
    <3>2. ASSUME NEW k \in 1..n
          PROVE  /\ t[k] \in [host : Hosts, count : Nat]
                 /\ t[k].host = hits[k].host
                 /\ t[k].count = IF k = p THEN hits[k].count + 1 ELSE hits[k].count
      <4>1. PICK r \in [host : Hosts, count : Nat] : r = hits[k]
        BY <1>1
      <4>2. t[k] = IF k = p THEN [r EXCEPT !.count = @ + 1] ELSE r
        BY <3>1, <4>1
      <4>3. /\ t[k] \in [host : Hosts, count : Nat] /\ t[k].host = r.host
            /\ t[k].count = IF k = p THEN r.count + 1 ELSE r.count
        BY <4>1, <4>2
      <4> QED
        BY <4>1, <4>3
    <3>3. t \in Hits
      <4>1. PICK R : R = [host : Hosts, count : Nat]
        OBVIOUS
      <4>2. t = [k \in 1..n |-> t[k]]
        BY <1>1, <2>3
      <4>3. n \in Nat /\ \A k \in 1..n : t[k] \in R
        BY <1>1, <3>2, <4>1
      <4> HIDE DEF n
      <4>4. [k \in 1..n |-> t[k]] \in Seq(R)
        BY <4>3
      <4> QED
        BY <4>1, <4>2, <4>4 DEF Hits
    <3> QED
      BY <3>1, <3>2, <3>3
  <2>6. OneEach(t)
    BY <1>1, <2>5 DEF OneEach
  <2>7. Listed(t) = Listed(hits) \cup {h}
    BY <1>1, <2>1, <2>5 DEF Listed
  <2>8. Total(t) = Total(hits) + 1
    <3>1. p \in 1..n
      BY <2>1, <2>2
    <3> QED
      BY <2>5, <3>1, TotalOneMore
  <2> QED
    BY <2>4, <2>5, <2>6, <2>7, <2>8
<1> QED
  BY <1>3, <1>4

-----------------------------------------------------------------------------
\* In a history v of visits the set C is that of the hits counted for the period
\* that began at s: at most one of them came at s itself, and when requests come
\* one after the other none is missing.
Counting(one, v, C, s) ==
    /\ C \in SUBSET DOMAIN v
    /\ \A k \in C : s <= v[k].t /\ v[k].t <= s + Period
    /\ \A j, k \in C : v[j].t = s /\ v[k].t = s => j = k
    /\ one => \A k \in DOMAIN v : Collects(s, v[k].t) => k \in C

HostsOf(v, C) == {v[k].host : k \in C}

NumbersOf(one, v, s, sum, hosts) ==
    \E C : /\ Counting(one, v, C, s)
           /\ sum = Cardinality(C) /\ hosts = Cardinality(HostsOf(v, C))

\* What the records of a file hold.
RecordsOf(one, v, s, hits) ==
    /\ OneEach(hits)
    /\ \E C : /\ Counting(one, v, C, s)
              /\ Total(hits) = Cardinality(C) /\ Listed(hits) = HostsOf(v, C)

Histories == Seq([host : Hosts, t : Nat])

LEMMA VisitsFacts ==
    ASSUME NEW v \in Histories
    PROVE  /\ Len(v) \in Nat /\ DOMAIN v = 1..Len(v) /\ IsFiniteSet(DOMAIN v)
           /\ \A k \in DOMAIN v : v[k].t \in Nat
<1>1. Len(v) \in Nat /\ DOMAIN v = 1..Len(v)
  BY DEF Histories
<1>2. \A k \in 1..Len(v) : v[k] \in [host : Hosts, t : Nat]
  BY <1>1, ElementOfSeq DEF Histories
<1>3. \A r \in [host : Hosts, t : Nat] : r.t \in Nat
  OBVIOUS
<1>4. IsFiniteSet(1..Len(v))
  BY <1>1, FS_Interval
<1> QED
  BY <1>1, <1>2, <1>3, <1>4

\* There are no more addresses than hits.
LEMMA HostsFacts ==
    ASSUME NEW v \in Histories, NEW C \in SUBSET DOMAIN v
    PROVE  /\ IsFiniteSet(C) /\ Cardinality(C) \in Nat
           /\ IsFiniteSet(HostsOf(v, C)) /\ Cardinality(HostsOf(v, C)) \in Nat
           /\ Cardinality(HostsOf(v, C)) <= Cardinality(C)
<1>1. IsFiniteSet(C)
  BY VisitsFacts, FS_Subset
<1> DEFINE f == [k \in C |-> v[k].host]
<1>2. f \in Surjection(C, HostsOf(v, C))
  BY DEF Surjection, HostsOf
<1> HIDE DEF f
<1> QED
  BY <1>1, <1>2, FS_Surjection, FS_CardinalityType

\* As many addresses as records.
LEMMA ListedFacts ==
    ASSUME NEW hits \in Hits, OneEach(hits)
    PROVE  Cardinality(Listed(hits)) = Len(hits)
<1>0. Len(hits) \in Nat /\ DOMAIN hits = 1..Len(hits)
  BY SMTT(40), HitsFacts
<1>1. /\ Len(hits) \in Nat /\ DOMAIN hits = 1..Len(hits) /\ IsFiniteSet(1..Len(hits))
      /\ Cardinality(1..Len(hits)) = Len(hits)
  <2>1. \A n \in Nat : IsFiniteSet(1..n) /\ Cardinality(1..n) = n
    BY SMTT(40), FS_Interval
  <2> QED
    BY <1>0, <2>1
<1> DEFINE f == [k \in 1..Len(hits) |-> hits[k].host]
<1>2. f \in Surjection(1..Len(hits), Listed(hits))
  BY <1>1 DEF Surjection, Listed
<1>3. f \in Injection(1..Len(hits), Listed(hits))
  BY <1>1, <1>2 DEF Surjection, Injection, OneEach, IsInjective
<1> HIDE DEF f
<1> QED
  BY <1>1, <1>2, <1>3, FS_Surjection

LEMMA RecordedNumbers ==
    ASSUME NEW one, NEW v, NEW s, NEW hits \in Hits, RecordsOf(one, v, s, hits)
    PROVE  NumbersOf(one, v, s, Total(hits), Len(hits))
  BY ListedFacts DEF RecordsOf, NumbersOf

\* A set and a part of it that differs by at most one element.
LEMMA AlmostAll ==
    ASSUME NEW S, IsFiniteSet(S), NEW T \in SUBSET S,
           \A x, y \in S : x \notin T /\ y \notin T => x = y
    PROVE  /\ IsFiniteSet(T) /\ Cardinality(S) \in Nat /\ Cardinality(T) \in Nat
           /\ Cardinality(T) <= Cardinality(S) /\ Cardinality(S) <= Cardinality(T) + 1
<1>1. /\ IsFiniteSet(T) /\ Cardinality(T) <= Cardinality(S)
      /\ Cardinality(S) \in Nat /\ Cardinality(T) \in Nat
  BY FS_Subset, FS_CardinalityType
<1>2. CASE S = T
  BY <1>1, <1>2
<1>3. CASE S # T
  <2>1. PICK x \in S : x \notin T
    BY <1>3
  <2>2. S = T \cup {x}
    BY <2>1
  <2>3. Cardinality(T \cup {x}) = Cardinality(T) + 1
    BY <1>1, <2>1, FS_AddElement
  <2> QED
    BY <1>1, <2>2, <2>3
<1> QED
  BY <1>2, <1>3

\* Such numbers are right.
LEMMA NumbersRight ==
    ASSUME ActivityLogConstants, visits \in Histories, logAlone \in BOOLEAN, NEW s \in Nat,
           NEW sum, NEW hosts, NumbersOf(logAlone, visits, s, sum, hosts)
    PROVE  RightFor(s, sum, hosts)
<1>1. PICK C : /\ Counting(logAlone, visits, C, s)
               /\ sum = Cardinality(C) /\ hosts = Cardinality(HostsOf(visits, C))
  BY DEF NumbersOf
<1> DEFINE H == HitsOf(s)
           D == C \cap H
<1>2. /\ C \in SUBSET DOMAIN visits /\ H \in SUBSET DOMAIN visits
      /\ \A k \in DOMAIN visits : visits[k].t \in Nat
  BY <1>1, VisitsFacts DEF Counting, HitsOf
<1>3. \A j, k \in C : j \notin D /\ k \notin D => j = k
  <2>1. \A k \in C : k \notin D => visits[k].t = s
    BY <1>1, <1>2 DEF Counting, HitsOf, ActivityLogConstants
  <2> QED
    BY <1>1, <2>1 DEF Counting
<1>4. logAlone => H = D
  BY <1>1, <1>2 DEF Counting, HitsOf, Collects, ActivityLogConstants
<1>5. /\ IsFiniteSet(C) /\ IsFiniteSet(H) /\ Cardinality(H) \in Nat
      /\ IsFiniteSet(HostsOf(visits, C)) /\ hosts <= sum
  BY <1>1, <1>2, HostsFacts
<1>6. /\ Cardinality(C) \in Nat /\ Cardinality(D) \in Nat
      /\ Cardinality(D) <= Cardinality(C) /\ Cardinality(C) <= Cardinality(D) + 1
  <2>1. D \in SUBSET C
    OBVIOUS
  <2> HIDE DEF D
  <2> QED
    BY <1>3, <1>5, <2>1, AlmostAll
<1>7. Cardinality(D) <= Cardinality(H)
  BY <1>5, FS_Subset
<1>8. sum <= Cardinality(H) + 1
  BY <1>1, <1>5, <1>6, <1>7
<1>9. ASSUME logAlone PROVE Cardinality(H) <= sum
  BY <1>1, <1>4, <1>6, <1>9
<1>10. ASSUME logAlone PROVE Cardinality(HostsOf(visits, H)) \in {hosts - 1, hosts}
  <2>1. HostsOf(visits, D) \in SUBSET HostsOf(visits, C)
    BY DEF HostsOf
  <2>2. \A x, y \in HostsOf(visits, C) :
           x \notin HostsOf(visits, D) /\ y \notin HostsOf(visits, D) => x = y
    <3>1. \A x \in HostsOf(visits, C) : x \notin HostsOf(visits, D)
             => \E k \in C : k \notin D /\ x = visits[k].host
      BY DEF HostsOf
    <3> QED
      BY <1>3, <3>1
  <2>3. /\ Cardinality(HostsOf(visits, C)) \in Nat /\ Cardinality(HostsOf(visits, D)) \in Nat
        /\ Cardinality(HostsOf(visits, D)) <= Cardinality(HostsOf(visits, C))
        /\ Cardinality(HostsOf(visits, C)) <= Cardinality(HostsOf(visits, D)) + 1
    BY <1>5, <2>1, <2>2, AlmostAll
  <2>4. HostsOf(visits, H) = HostsOf(visits, D)
    BY <1>4, <1>10
  <2>5. \A a, b \in Nat : a <= b /\ b <= a + 1 => a \in {b - 1, b}
    OBVIOUS
  <2> HIDE DEF D, H
  <2> QED
    BY <1>1, <2>3, <2>4, <2>5
<1> QED
  BY <1>1, <1>5, <1>8, <1>9, <1>10 DEF RightFor, HostsOf

\* w is the history v with the hit x.
After(v, x, w) ==
    /\ Len(v) \in Nat /\ DOMAIN v = 1..Len(v) /\ DOMAIN w = 1..(Len(v) + 1)
    /\ w[Len(v) + 1] = x /\ \A k \in DOMAIN v : w[k] = v[k]

LEMMA IsAfter ==
    ASSUME NEW v \in Histories, NEW x \in [host : Hosts, t : Nat]
    PROVE  Append(v, x) \in Histories /\ After(v, x, Append(v, x))
<1>1. Len(v) \in Nat /\ DOMAIN v = 1..Len(v)
  BY VisitsFacts
<1>2. PICK w : w = Append(v, x)
  OBVIOUS
<1>3. /\ w \in Histories /\ Len(w) = Len(v) + 1 /\ w[Len(v) + 1] = x
      /\ \A k \in 1..Len(v) : w[k] = v[k]
  BY <1>2, AppendProperties DEF Histories
<1>4. DOMAIN w = 1..Len(w)
  BY <1>3, VisitsFacts
<1>5. After(v, x, w)
  BY <1>1, <1>3, <1>4 DEF After
<1> QED
  BY <1>2, <1>3, <1>5

\* A later hit that is not one of the period changes nothing.
LEMMA CountingLater ==
    ASSUME NEW one \in BOOLEAN, NEW v \in Histories, NEW C, NEW s, Counting(one, v, C, s),
           NEW x \in [host : Hosts, t : Nat], one => ~Collects(s, x.t),
           NEW w, After(v, x, w)
    PROVE  Counting(one, w, C, s) /\ HostsOf(w, C) = HostsOf(v, C)
<1>1. /\ Len(v) \in Nat /\ DOMAIN v = 1..Len(v)
      /\ DOMAIN w = 1..(Len(v) + 1) /\ w[Len(v) + 1] = x /\ \A k \in DOMAIN v : w[k] = v[k]
  BY DEF After
<1>2. C \in SUBSET DOMAIN v /\ C \in SUBSET DOMAIN w
  BY <1>1 DEF Counting
<1>3. \A k \in C : w[k] = v[k]
  BY <1>1, <1>2
<1>4. one => \A k \in DOMAIN w : Collects(s, w[k].t) => k \in C
  <2> SUFFICES ASSUME one, NEW k \in DOMAIN w, Collects(s, w[k].t) PROVE k \in C
    OBVIOUS
  <2>1. k # Len(v) + 1
    BY <1>1
  <2>2. k \in DOMAIN v
    BY <1>1, <2>1
  <2> QED
    BY <1>1, <2>2 DEF Counting
<1>5. HostsOf(w, C) = HostsOf(v, C)
  BY <1>3 DEF HostsOf
<1> QED
  BY <1>2, <1>3, <1>4, <1>5 DEF Counting

LEMMA NumbersLater ==
    ASSUME NEW one \in BOOLEAN, NEW v \in Histories, NEW s, NEW sum, NEW hosts,
           NumbersOf(one, v, s, sum, hosts),
           NEW x \in [host : Hosts, t : Nat], one => ~Collects(s, x.t),
           NEW w, After(v, x, w)
    PROVE  NumbersOf(one, w, s, sum, hosts)
<1>1. PICK C : /\ Counting(one, v, C, s)
               /\ sum = Cardinality(C) /\ hosts = Cardinality(HostsOf(v, C))
  BY DEF NumbersOf
<1>2. Counting(one, w, C, s) /\ HostsOf(w, C) = HostsOf(v, C)
  BY <1>1, CountingLater
<1> QED
  BY <1>1, <1>2 DEF NumbersOf

LEMMA RecordedLater ==
    ASSUME NEW one \in BOOLEAN, NEW v \in Histories, NEW s, NEW hits, RecordsOf(one, v, s, hits),
           NEW x \in [host : Hosts, t : Nat], one => ~Collects(s, x.t),
           NEW w, After(v, x, w)
    PROVE  RecordsOf(one, w, s, hits)
<1>1. PICK C : /\ Counting(one, v, C, s)
               /\ Total(hits) = Cardinality(C) /\ Listed(hits) = HostsOf(v, C)
  BY DEF RecordsOf
<1>2. Counting(one, w, C, s) /\ HostsOf(w, C) = HostsOf(v, C)
  BY <1>1, CountingLater
<1> QED
  BY <1>1, <1>2 DEF RecordsOf

\* A hit of the period, or the one at its beginning, is counted.
LEMMA RecordedHit ==
    ASSUME ActivityLogConstants, NEW one \in BOOLEAN, NEW v \in Histories, NEW s \in Nat,
           NEW hits \in Hits, RecordsOf(one, v, s, hits),
           NEW x \in [host : Hosts, t : Nat],
           Collects(s, x.t) \/ (s = x.t /\ hits = <<>>),
           NEW w, After(v, x, w)
    PROVE  Counted(hits, x.host) \in Hits /\ RecordsOf(one, w, s, Counted(hits, x.host))
<1>1. PICK C : /\ Counting(one, v, C, s)
               /\ Total(hits) = Cardinality(C) /\ Listed(hits) = HostsOf(v, C)
  BY DEF RecordsOf
<1> DEFINE n == Len(v) + 1
           E == C \cup {n}
<1>2. /\ Len(v) \in Nat /\ DOMAIN v = 1..Len(v) /\ \A k \in DOMAIN v : v[k].t \in Nat
      /\ DOMAIN w = 1..n /\ w[n] = x /\ \A k \in DOMAIN v : w[k] = v[k]
      /\ n \notin DOMAIN v
  BY VisitsFacts DEF After
<1>3. C \in SUBSET DOMAIN v /\ E \in SUBSET DOMAIN w /\ n \notin C
  BY <1>1, <1>2 DEF Counting
<1>4. \A k \in C : w[k] = v[k]
  BY <1>2, <1>3
<1> HIDE DEF n
<1>5. s <= x.t /\ x.t <= s + Period
  BY DEF Collects, ActivityLogConstants
<1>6. \A k \in E : s <= w[k].t /\ w[k].t <= s + Period
  BY <1>1, <1>2, <1>4, <1>5 DEF Counting
<1>7. x.t = s => C = {}
  <2>1. ASSUME x.t = s PROVE hits = <<>>
    BY <2>1 DEF Collects
  <2>2. ASSUME hits = <<>> PROVE C = {}
    <3>1. Cardinality(C) = 0
      BY <1>1, <2>2, TotalNone
    <3> QED
      BY <1>3, <3>1, HostsFacts, FS_EmptySet
  <2> QED
    BY <2>1, <2>2
<1>8. \A j, k \in E : w[j].t = s /\ w[k].t = s => j = k
  BY <1>1, <1>2, <1>4, <1>7 DEF Counting
<1>9. one => \A k \in DOMAIN w : Collects(s, w[k].t) => k \in E
  <2> SUFFICES ASSUME one, NEW k \in DOMAIN w, Collects(s, w[k].t), k # n PROVE k \in C
    OBVIOUS
  <2>1. k \in DOMAIN v
    BY <1>2 DEF n
  <2> QED
    BY <1>1, <1>2, <2>1 DEF Counting
<1>10. Counting(one, w, E, s)
  BY <1>3, <1>6, <1>8, <1>9 DEF Counting
<1>11. Cardinality(E) = Cardinality(C) + 1
  BY <1>3, HostsFacts, FS_AddElement
<1>12. HostsOf(w, E) = HostsOf(v, C) \cup {x.host}
  <2>1. HostsOf(w, C) = HostsOf(v, C)
    BY <1>4 DEF HostsOf
  <2>2. HostsOf(w, E) = HostsOf(w, C) \cup {w[n].host}
    BY DEF HostsOf
  <2> QED
    BY <1>2, <2>1, <2>2
<1>13. x.host \in Hosts
  OBVIOUS
<1>14. /\ Counted(hits, x.host) \in Hits /\ OneEach(Counted(hits, x.host))
       /\ Total(Counted(hits, x.host)) = Total(hits) + 1
       /\ Listed(Counted(hits, x.host)) = Listed(hits) \cup {x.host}
  BY <1>13, CountedFacts DEF RecordsOf
<1> QED
  BY <1>1, <1>10, <1>11, <1>12, <1>14 DEF RecordsOf

\* Nothing is in a file just emptied, if no hit so far belongs into it.
LEMMA RecordedNone ==
    ASSUME NEW one \in BOOLEAN, NEW v \in Histories, NEW s,
           one => \A k \in DOMAIN v : ~Collects(s, v[k].t)
    PROVE  <<>> \in Hits /\ RecordsOf(one, v, s, <<>>)
<1>1. Counting(one, v, {}, s)
  BY DEF Counting
<1>2. HostsOf(v, {}) = {} /\ Listed(<<>>) = {} /\ OneEach(<<>>) /\ Total(<<>>) = Cardinality({})
  BY TotalNone, FS_EmptySet DEF HostsOf, Listed, OneEach
<1>3. <<>> \in Hits
  BY DEF Hits
<1> QED
  BY <1>1, <1>2, <1>3 DEF RecordsOf

-----------------------------------------------------------------------------
\* What a file has stands for its period.
FileRight(one, v, file) ==
    IF file.summed THEN NumbersOf(one, v, file.start, file.sum, file.hosts)
    ELSE RecordsOf(one, v, file.start, file.hits)

ShowsPeriod == shown.start # 0 /\ ~shown.archiving

\* No request has read an earlier time.
SoFar(x) == x <= logNow /\ \A p \in Procs : logLoc[p] # 0 => x <= logLoc[p]

\* There was a hit later than the period that began at s.
Passed(v, s) == \E k \in DOMAIN v : s + Period < v[k].t

\* The files begin in different periods, until both have been used.
Apart(a, b) == (a = 0 /\ b = 0) \/ a + Period <= b \/ b + Period <= a

\* A file that has been summed up is of an earlier period than the other and is
\* over; the period after that of any other file has had no hit yet, for the
\* first such hit sums it up.
FilesInTurn(v, fs) ==
    /\ \A i \in {1, 2} :
          IF fs[i].summed THEN Passed(v, fs[i].start) /\ fs[i].start < fs[Other(i)].start
          ELSE \A k \in DOMAIN v : ~Shows(fs[i].start, v[k].t)
    /\ Apart(fs[1].start, fs[2].start)
    /\ fs[2].start <= fs[1].start + 2 * Period

\* The archive has periods that are over, in order, earlier than the files'.
ArchiveInTurn(v, fs, ar) ==
    /\ \A i \in DOMAIN ar : /\ Passed(v, ar[i].start)
                             /\ ar[i].start < fs[1].start /\ ar[i].start < fs[2].start
    /\ \A i, j \in DOMAIN ar : i < j => ar[i].start < ar[j].start

\* Requests that come one after the other.
TimesInTurn ==
    /\ \A p, q \in Procs : logLoc[p] # 0 /\ logLoc[q] # 0 => p = q
    /\ logNow >= 2 * Period + 1
    /\ \A p \in Procs : logLoc[p] # 0 => logLoc[p] >= 2 * Period + 1
    /\ \A k \in DOMAIN visits : SoFar(visits[k].t)
    /\ \A i \in {1, 2} : SoFar(files[i].start)

InTurn ==
    /\ TimesInTurn
    /\ FilesInTurn(visits, files)
    /\ ArchiveInTurn(visits, files, archive)
    /\ ShowsPeriod => Passed(visits, shown.start)

NumbersHeld ==
    /\ \A i \in {1, 2} : FileRight(logAlone, visits, files[i])
    /\ \A i \in DOMAIN archive :
          NumbersOf(logAlone, visits, archive[i].start, archive[i].sum, archive[i].hosts)
    /\ ShowsPeriod => NumbersOf(logAlone, visits, shown.start, shown.sum, shown.hosts)

LogInv == LogTypeOK /\ NumbersHeld /\ (logAlone => InTurn)

\* LogInv is enough.
LEMMA LogInvRight == ASSUME ActivityLogConstants, LogInv PROVE PeriodsRight
<1>1. LogTypeOK /\ visits \in Histories /\ logAlone \in BOOLEAN /\ shown.start \in Nat
  BY DEF LogInv, LogTypeOK, Histories
<1>2. ShownRight
  BY <1>1, NumbersRight DEF LogInv, NumbersHeld, ShownRight, ShowsPeriod
<1>3. ASSUME NEW i \in DOMAIN archive
      PROVE  RightFor(archive[i].start, archive[i].sum, archive[i].hosts)
  <2>1. archive[i] \in [start : Nat, sum : Nat, hosts : Nat]
    <3>1. archive \in Seq([start : Nat, sum : Nat, hosts : Nat])
      BY DEF LogInv, LogTypeOK
    <3>2. i \in 1..Len(archive)
      BY <3>1
    <3> QED
      BY <3>1, <3>2, ElementOfSeq
  <2>2. archive[i].start \in Nat
    BY <2>1
  <2> QED
    BY <1>1, <2>2, NumbersRight DEF LogInv, NumbersHeld
<1>4. logAlone => \A i, j \in DOMAIN archive : i < j => archive[i].start < archive[j].start
  BY DEF LogInv, InTurn, ArchiveInTurn
<1> QED
  BY <1>1, <1>2, <1>3, <1>4 DEF PeriodsRight, ArchivedRight

\* The archive's records.
LEMMA ArchiveFacts ==
    ASSUME LogTypeOK
    PROVE  /\ Len(archive) \in Nat /\ DOMAIN archive = 1..Len(archive)
           /\ \A i \in DOMAIN archive : archive[i].start \in Nat
<1>1. archive \in Seq([start : Nat, sum : Nat, hosts : Nat])
  BY DEF LogTypeOK
<1>2. Len(archive) \in Nat /\ DOMAIN archive = 1..Len(archive)
  BY <1>1
<1>3. \A i \in 1..Len(archive) : archive[i] \in [start : Nat, sum : Nat, hosts : Nat]
  BY <1>1, ElementOfSeq
<1>4. \A r \in [start : Nat, sum : Nat, hosts : Nat] : r.start \in Nat
  OBVIOUS
<1> QED
  BY <1>2, <1>3, <1>4

LEMMA LogInitHolds == ASSUME ActivityLogConstants, LogInit PROVE LogInv
<1>1. \A i \in {1, 2} : files[i] = NewFile(0, <<>>)
  BY DEF LogInit
<1>2. NewFile(0, <<>>) \in File
  BY DEF NewFile, File, Hits
<1>3. files \in [{1, 2} -> File]
  BY <1>2 DEF LogInit
<1>4. visits = <<>> /\ archive = <<>> /\ shown = Nothing /\ logAlone \in BOOLEAN
  BY DEF LogInit
<1>5. /\ <<>> \in Seq([host : Hosts, t : Nat])
      /\ <<>> \in Seq([start : Nat, sum : Nat, hosts : Nat])
      /\ Nothing \in [start : Nat, sum : Nat, hosts : Nat, archiving : BOOLEAN]
      /\ DOMAIN <<>> = {}
  BY DEF Nothing
<1>6. /\ logNow = 2 * Period + 1 /\ logNow \in Nat /\ logLoc = [p \in Procs |-> 0]
      /\ Period \in Nat
  BY DEF LogInit, ActivityLogConstants
<1>7. LogTypeOK
  BY <1>1, <1>3, <1>4, <1>5, <1>6 DEF LogTypeOK, NewFile
<1>8. NumbersHeld
  <2>1. RecordsOf(logAlone, visits, 0, <<>>)
    <3>1. logAlone => \A k \in DOMAIN visits : ~Collects(0, visits[k].t)
      BY <1>4, <1>5
    <3>2. visits \in Histories
      BY <1>4, <1>5 DEF Histories
    <3> QED
      BY <1>4, <3>1, <3>2, RecordedNone
  <2>2. \A i \in {1, 2} : FileRight(logAlone, visits, files[i])
    BY <1>1, <2>1 DEF FileRight, NewFile
  <2> QED
    BY <1>4, <1>5, <2>2 DEF NumbersHeld, ShowsPeriod, Nothing
<1>9. InTurn
  <2>1. \A p \in Procs : logLoc[p] = 0
    BY <1>6
  <2>2. TimesInTurn
    BY <1>1, <1>4, <1>5, <1>6, <2>1 DEF TimesInTurn, SoFar, NewFile
  <2>3. FilesInTurn(visits, files)
    BY <1>1, <1>4, <1>5, <1>6 DEF FilesInTurn, Apart, NewFile
  <2> QED
    BY <1>4, <1>5, <2>2, <2>3 DEF InTurn, ArchiveInTurn, ShowsPeriod, Nothing
<1> QED
  BY <1>7, <1>8, <1>9 DEF LogInv

\* Time passes, or a request reads it.
LEMMA ClockHolds ==
    ASSUME ActivityLogConstants, LogInv,
           \/ Tick
           \/ \E p \in Procs : BeginHit(p)
           \/ UNCHANGED logVars
    PROVE  LogInv'
<1>1. UNCHANGED <<files, archive, visits, shown, logAlone>>
  BY DEF Tick, BeginHit, logVars
<1>2. LogTypeOK
  BY DEF LogInv
<1>3. logNow \in Nat /\ logNow' \in Nat /\ logNow <= logNow'
  <2>1. logNow \in Nat
    BY <1>2 DEF LogTypeOK
  <2>2. logNow' = logNow \/ logNow' = logNow + 1
    BY DEF Tick, BeginHit, logVars
  <2> QED
    BY <2>1, <2>2
<1>4. logLoc' \in [Procs -> 0..logNow']
  <2>1. CASE Tick
    <3>1. logLoc' = logLoc /\ logNow' = logNow + 1
      BY <2>1 DEF Tick
    <3> QED
      BY <1>2, <1>3, <3>1 DEF LogTypeOK
  <2>2. CASE \E p \in Procs : BeginHit(p)
    <3>1. PICK p \in Procs : logLoc' = [logLoc EXCEPT ![p] = logNow] /\ logNow' = logNow
      BY <2>2 DEF BeginHit
    <3> QED
      BY <1>2, <1>3, <3>1 DEF LogTypeOK
  <2>3. CASE UNCHANGED logVars
    BY <1>2, <2>3 DEF LogTypeOK, logVars
  <2> QED
    BY <2>1, <2>2, <2>3
<1>5. LogTypeOK'
  BY <1>1, <1>2, <1>3, <1>4 DEF LogTypeOK
<1>6. NumbersHeld'
  <2>1. NumbersHeld
    BY DEF LogInv
  <2> QED
    BY <1>1, <2>1 DEF NumbersHeld, ShowsPeriod, FileRight
<1>7. ASSUME logAlone' PROVE InTurn'
  <2>1. logAlone /\ InTurn
    BY <1>1, <1>7 DEF LogInv
  <2>2. \A i \in {1, 2} : files[i].start \in Nat
    BY <1>2 DEF LogTypeOK, File
  <2>3. \A k \in DOMAIN visits : visits[k].t \in Nat
    BY <1>2, VisitsFacts DEF LogTypeOK, Histories
  <2>4. /\ \A p, q \in Procs : logLoc'[p] # 0 /\ logLoc'[q] # 0 => p = q
        /\ \A p \in Procs : logLoc'[p] # 0 => logLoc'[p] >= 2 * Period + 1
        /\ \A x \in Nat : SoFar(x) => SoFar(x)'
    <3>1. CASE Tick
      <4>1. logLoc' = logLoc
        BY <3>1 DEF Tick
      <4> QED
        BY <1>3, <2>1, <4>1 DEF InTurn, TimesInTurn, SoFar
    <3>2. CASE \E p \in Procs : BeginHit(p)
      <4>1. PICK p \in Procs : /\ logLoc' = [logLoc EXCEPT ![p] = logNow] /\ logNow' = logNow
                                /\ \A q \in Procs : logLoc[q] = 0
        BY <2>1, <3>2 DEF BeginHit
      <4>2. \A q \in Procs : logLoc'[q] = IF q = p THEN logNow ELSE 0
        BY <1>2, <4>1 DEF LogTypeOK
      <4>3. logNow >= 2 * Period + 1
        BY <2>1 DEF InTurn, TimesInTurn
      <4> QED
        BY <4>1, <4>2, <4>3 DEF SoFar
    <3>3. CASE UNCHANGED logVars
      <4>1. logLoc' = logLoc
        BY <3>3 DEF logVars
      <4> QED
        BY <1>3, <2>1, <4>1 DEF InTurn, TimesInTurn, SoFar
    <3> QED
      BY <3>1, <3>2, <3>3
  <2>5. logNow' >= 2 * Period + 1
    BY <1>3, <2>1 DEF InTurn, TimesInTurn, ActivityLogConstants
  <2>6. \A k \in DOMAIN visits : SoFar(visits[k].t)'
    <3>1. \A k \in DOMAIN visits : SoFar(visits[k].t)
      BY <2>1 DEF InTurn, TimesInTurn
    <3> QED
      BY <1>1, <2>3, <2>4, <3>1 DEF SoFar
  <2>7. \A i \in {1, 2} : SoFar(files[i].start)'
    <3>1. \A i \in {1, 2} : SoFar(files[i].start)
      BY <2>1 DEF InTurn, TimesInTurn
    <3> QED
      BY <1>1, <2>2, <2>4, <3>1 DEF SoFar
  <2>8. TimesInTurn'
    BY <1>1, <2>4, <2>5, <2>6, <2>7 DEF TimesInTurn
  <2> QED
    BY <1>1, <2>1, <2>8 DEF InTurn, ShowsPeriod
<1> QED
  BY <1>5, <1>6, <1>7 DEF LogInv

\* Requests one after the other: of the two files f is the one for the hit at t,
\* g the other; g collects no hits at t, f does not show any; when f does not
\* collect them either, g's period is over, and file 2 is taken only while file
\* 1 is shown.
LEMMA Turns ==
    ASSUME ActivityLogConstants, LogTypeOK, InTurn,
           NEW t \in Nat, t >= 2 * Period + 1, \A i \in {1, 2} : files[i].start <= t,
           NEW f, f = Target(t), NEW g, g = Other(f)
    PROVE  /\ f \in {1, 2} /\ g \in {1, 2} /\ f # g /\ Other(g) = f
           /\ ~Collects(files[g].start, t) /\ ~Shows(files[f].start, t)
           /\ ~Collects(files[f].start, t) =>
                 files[g].start + Period < t /\ (f = 2 => Shows(files[1].start, t))
<1>1. Period \in Nat /\ Period > 0
  BY DEF ActivityLogConstants
<1>2. PICK a \in Nat : a = files[1].start
  BY DEF LogTypeOK, File
<1>3. PICK b \in Nat : b = files[2].start
  BY DEF LogTypeOK, File
<1>4. a <= t /\ b <= t /\ Apart(a, b) /\ b <= a + 2 * Period
  BY <1>2, <1>3 DEF InTurn, FilesInTurn
<1>5. Other(1) = 2 /\ Other(2) = 1
  BY DEF Other
<1>6. Target(t) = IF Shows(a, t) THEN (IF Collects(a, t) THEN 1 ELSE 2)
                                 ELSE (IF Collects(b, t) THEN 2 ELSE 1)
  BY <1>2, <1>3, <1>5 DEF Target, Free
<1>7. CASE f = 1
  <2>1. g = 2
    BY <1>5, <1>7
  <2>2. ~Shows(a, t) /\ ~Collects(b, t)
    BY <1>1, <1>6, <1>7 DEF Shows, Collects
  <2>3. ~Collects(a, t) => b + Period < t
    BY <1>1, <1>4, <2>2 DEF Shows, Collects, Apart
  <2> QED
    BY <1>2, <1>3, <1>5, <1>7, <2>1, <2>2, <2>3
<1>8. CASE f = 2
  <2>1. g = 1
    BY <1>5, <1>8
  <2>2. Shows(a, t) \/ Collects(b, t)
    BY <1>6, <1>8
  <2>3. ~Collects(a, t) /\ ~Shows(b, t)
    BY <1>1, <1>4, <1>6, <1>8 DEF Shows, Collects, Apart
  <2>4. ~Collects(b, t) => a + Period < t /\ Shows(a, t)
    BY <1>1, <2>2 DEF Shows
  <2> QED
    BY <1>2, <1>3, <1>5, <1>8, <2>1, <2>3, <2>4
<1> QED
  BY <1>6, <1>7, <1>8

\* What is true of the hit of request p, and of its files when g has been summed
\* up if it is shown, whatever becomes of file f.
HitAt(p, h, t, f, g, x, w, before) ==
    /\ t = logLoc[p] /\ t # 0
    /\ f = Target(t) /\ g = Other(f)
    /\ x = [host |-> h, t |-> t] /\ w = Append(visits, x)
    /\ before = IF Shows(files[g].start, t) THEN SummedUp(files[g]) ELSE files[g]

LEMMA HitPlaces ==
    ASSUME ActivityLogConstants, LogInv, NEW p \in Procs, NEW h \in Hosts,
           NEW t, NEW f, NEW g, NEW x, NEW w, NEW before, HitAt(p, h, t, f, g, x, w, before)
    PROVE  /\ f \in {1, 2} /\ g \in {1, 2} /\ f # g /\ Other(g) = f /\ Other(f) = g
           /\ files[f] \in File /\ files[g] \in File
           /\ t \in Nat /\ t <= logNow
           /\ x \in [host : Hosts, t : Nat] /\ x.t = t /\ x.host = h
           /\ w \in Histories /\ After(visits, x, w)
           /\ before \in File /\ before.start = files[g].start
           /\ (before.summed <=> files[g].summed \/ Shows(files[g].start, t))
           /\ (before.summed => before.hits = <<>>)
<1>1. LogTypeOK
  BY DEF LogInv
<1>2. f \in {1, 2} /\ g \in {1, 2} /\ f # g /\ Other(g) = f /\ Other(f) = g
  BY DEF HitAt, Target, Free, Other
<1>3. files[f] \in File /\ files[g] \in File
  BY <1>1, <1>2 DEF LogTypeOK
<1>4. t \in Nat /\ t <= logNow
  BY <1>1 DEF HitAt, LogTypeOK
<1>5. x \in [host : Hosts, t : Nat] /\ x.t = t /\ x.host = h
  BY <1>4 DEF HitAt
<1>6. w \in Histories /\ After(visits, x, w)
  BY <1>1, <1>5, IsAfter DEF HitAt, LogTypeOK, Histories
<1>7. PICK file \in File : file = files[g]
  BY <1>3
<1>8. /\ SummedUp(file) \in File /\ SummedUp(file).start = file.start /\ SummedUp(file).summed
      /\ SummedUp(file).hits = IF file.summed THEN file.hits ELSE <<>>
  <2>1. CASE file.summed
    BY <2>1 DEF SummedUp
  <2>2. CASE ~file.summed
    <3>1. file.hits \in Hits /\ file.start \in Nat /\ <<>> \in Hits
      BY DEF File, Hits
    <3>2. Total(file.hits) \in Nat /\ Len(file.hits) \in Nat
      BY <3>1, TotalType, HitsFacts
    <3>3. SummedUp(file) = [start |-> file.start, summed |-> TRUE, hits |-> <<>>,
                            sum |-> Total(file.hits), hosts |-> Len(file.hits)]
      BY <2>2 DEF SummedUp
    <3> QED
      BY <2>2, <3>1, <3>2, <3>3 DEF File
  <2> QED
    BY <2>1, <2>2
<1>9. before = IF Shows(file.start, t) THEN SummedUp(file) ELSE file
  BY <1>7 DEF HitAt
<1>10. file.summed => file.hits = <<>>
  BY <1>1, <1>2, <1>7 DEF LogTypeOK
<1>11. /\ before \in File /\ before.start = file.start
       /\ (before.summed <=> file.summed \/ Shows(file.start, t))
       /\ (before.summed => before.hits = <<>>)
  BY <1>8, <1>9, <1>10
<1> QED
  BY <1>2, <1>3, <1>4, <1>5, <1>6, <1>7, <1>11

\* When requests come one after the other.
LEMMA HitTimes ==
    ASSUME ActivityLogConstants, LogInv, logAlone, NEW p \in Procs, NEW h \in Hosts,
           NEW t, NEW f, NEW g, NEW x, NEW w, NEW before, HitAt(p, h, t, f, g, x, w, before)
    PROVE  /\ t >= 2 * Period + 1
           /\ \A q \in Procs : q # p => logLoc[q] = 0
           /\ \A k \in DOMAIN visits : visits[k].t <= t
           /\ \A i \in {1, 2} : files[i].start <= t
           /\ ~Collects(files[g].start, t) /\ ~Shows(files[f].start, t)
           /\ ~Collects(files[f].start, t) =>
                 files[g].start + Period < t /\ (f = 2 => Shows(files[1].start, t))
           /\ \A s \in Nat : Passed(visits, s) => Passed(w, s) /\ s + Period < t
<1>1. LogTypeOK /\ InTurn /\ TimesInTurn /\ visits \in Histories
  BY DEF LogInv, InTurn, LogTypeOK, Histories
<1>2. t = logLoc[p] /\ t # 0 /\ f = Target(t) /\ g = Other(f)
  BY DEF HitAt
<1>3. t \in Nat /\ After(visits, x, w)
  BY HitPlaces
<1>4. /\ t >= 2 * Period + 1 /\ \A q \in Procs : q # p => logLoc[q] = 0
      /\ \A k \in DOMAIN visits : visits[k].t <= t
      /\ \A i \in {1, 2} : files[i].start <= t
  BY <1>1, <1>2 DEF TimesInTurn, SoFar
<1>5. \A s \in Nat : Passed(visits, s) => Passed(w, s) /\ s + Period < t
  <2> SUFFICES ASSUME NEW s \in Nat, Passed(visits, s) PROVE Passed(w, s) /\ s + Period < t
    OBVIOUS
  <2>1. PICK k \in DOMAIN visits : s + Period < visits[k].t
    BY DEF Passed
  <2>2. visits[k].t \in Nat /\ visits[k].t <= t
    BY <1>1, <1>4, VisitsFacts
  <2>3. k \in DOMAIN w /\ w[k] = visits[k]
    BY <1>3 DEF After
  <2> QED
    BY <1>3, <2>1, <2>2, <2>3 DEF Passed, ActivityLogConstants
<1> QED
  BY <1>1, <1>2, <1>3, <1>4, <1>5, Turns

\* All numbers but those of file f are right with the hit.
LEMMA NumbersWithHit ==
    ASSUME ActivityLogConstants, LogInv, NEW p \in Procs, NEW h \in Hosts,
           NEW t, NEW f, NEW g, NEW x, NEW w, NEW before, HitAt(p, h, t, f, g, x, w, before)
    PROVE  /\ FileRight(logAlone, w, before)
           /\ Shows(before.start, t) =>
                 NumbersOf(logAlone, w, before.start, before.sum, before.hosts)
           /\ files[f].summed =>
                 FileRight(logAlone, w, files[f]) /\ (logAlone => ~Collects(files[f].start, t))
           /\ \A i \in DOMAIN archive :
                 NumbersOf(logAlone, w, archive[i].start, archive[i].sum, archive[i].hosts)
<1>1. /\ LogTypeOK /\ NumbersHeld /\ (logAlone => InTurn) /\ visits \in Histories
      /\ logAlone \in BOOLEAN
  BY DEF LogInv, LogTypeOK, Histories
<1>2. /\ f \in {1, 2} /\ g \in {1, 2} /\ f # g /\ Other(g) = f /\ Other(f) = g
      /\ files[f] \in File /\ files[g] \in File /\ t \in Nat
      /\ x \in [host : Hosts, t : Nat] /\ x.t = t /\ After(visits, x, w)
  BY HitPlaces
<1>3. \A s \in Nat : logAlone /\ Passed(visits, s) => ~Collects(s, t)
  BY <1>2, HitTimes DEF Collects, ActivityLogConstants
<1>4. logAlone => ~Collects(files[g].start, t)
  BY HitTimes
<1>5. files[f].summed =>
         FileRight(logAlone, w, files[f]) /\ (logAlone => ~Collects(files[f].start, t))
  <2> SUFFICES ASSUME files[f].summed
               PROVE  FileRight(logAlone, w, files[f]) /\ (logAlone => ~Collects(files[f].start, t))
    OBVIOUS
  <2>1. NumbersOf(logAlone, visits, files[f].start, files[f].sum, files[f].hosts)
    BY <1>1, <1>2 DEF NumbersHeld, FileRight
  <2>2. logAlone => Passed(visits, files[f].start)
    BY <1>1, <1>2 DEF InTurn, FilesInTurn
  <2>3. files[f].start \in Nat
    BY <1>2 DEF File
  <2>4. logAlone => ~Collects(files[f].start, t)
    BY <1>3, <2>2, <2>3
  <2> QED
    BY <1>1, <1>2, <2>1, <2>4, NumbersLater DEF FileRight
<1>6. FileRight(logAlone, w, files[g])
  <2>1. FileRight(logAlone, visits, files[g])
    BY <1>1, <1>2 DEF NumbersHeld
  <2> QED
    BY <1>1, <1>2, <1>4, <2>1, NumbersLater, RecordedLater DEF FileRight
<1>7. /\ FileRight(logAlone, w, SummedUp(files[g]))
      /\ NumbersOf(logAlone, w, SummedUp(files[g]).start,
                   SummedUp(files[g]).sum, SummedUp(files[g]).hosts)
  <2>1. PICK file \in File : file = files[g]
    BY <1>2
  <2>2. FileRight(logAlone, w, file)
    BY <1>6, <2>1
  <2>3. CASE file.summed
    BY <2>1, <2>2, <2>3 DEF FileRight, SummedUp
  <2>4. CASE ~file.summed
    <3>1. file.hits \in Hits
      BY DEF File
    <3>2. NumbersOf(logAlone, w, file.start, Total(file.hits), Len(file.hits))
      BY <2>2, <2>4, <3>1, RecordedNumbers DEF FileRight
    <3>3. SummedUp(file) = [start |-> file.start, summed |-> TRUE, hits |-> <<>>,
                            sum |-> Total(file.hits), hosts |-> Len(file.hits)]
      BY <2>4 DEF SummedUp
    <3> QED
      BY <2>1, <3>2, <3>3 DEF FileRight
  <2> QED
    BY <2>3, <2>4
<1>8. before = IF Shows(files[g].start, t) THEN SummedUp(files[g]) ELSE files[g]
  BY DEF HitAt
<1>9. before.start = files[g].start
  BY HitPlaces
<1>10. ASSUME NEW i \in DOMAIN archive
       PROVE  NumbersOf(logAlone, w, archive[i].start, archive[i].sum, archive[i].hosts)
  <2>1. archive[i].start \in Nat
    <3>1. archive \in Seq([start : Nat, sum : Nat, hosts : Nat])
      BY <1>1 DEF LogTypeOK
    <3>2. archive[i] \in [start : Nat, sum : Nat, hosts : Nat]
      <4>1. i \in 1..Len(archive)
        BY <3>1
      <4> QED
        BY <3>1, <4>1, ElementOfSeq
    <3> QED
      BY <3>2
  <2>2. logAlone => Passed(visits, archive[i].start)
    BY <1>1 DEF InTurn, ArchiveInTurn
  <2>3. NumbersOf(logAlone, visits, archive[i].start, archive[i].sum, archive[i].hosts)
    BY <1>1 DEF NumbersHeld
  <2>4. logAlone => ~Collects(archive[i].start, x.t)
    BY <1>2, <1>3, <2>1, <2>2
  <2> QED
    BY <1>1, <1>2, <2>3, <2>4, NumbersLater
<1> QED
  BY <1>5, <1>6, <1>7, <1>8, <1>9, <1>10

\* What is left to be shown of a hit, where nf is what becomes of file f.
Effect(p, t, f, g, w, before, nf) ==
    /\ nf \in File /\ (nf.summed => nf.hits = <<>>) /\ nf.start <= t
    /\ FileRight(logAlone, w, nf)
    /\ files' \in [{1, 2} -> File] /\ files'[f] = nf /\ files'[g] = before
    /\ visits' = w /\ logNow' = logNow /\ logAlone' = logAlone
    /\ logLoc' \in [Procs -> 0..logNow]
    /\ \A q \in Procs : logLoc'[q] = IF q = p THEN 0 ELSE logLoc[q]
    /\ archive' \in Seq([start : Nat, sum : Nat, hosts : Nat])
    /\ \A i \in DOMAIN archive' :
          NumbersOf(logAlone, w, archive'[i].start, archive'[i].sum, archive'[i].hosts)
    /\ shown' \in [start : Nat, sum : Nat, hosts : Nat, archiving : BOOLEAN]
    /\ ShowsPeriod' => /\ Shows(before.start, t) /\ shown'.start = before.start
                       /\ shown'.sum = before.sum /\ shown'.hosts = before.hosts
    /\ logAlone => FilesInTurn(w, files') /\ ArchiveInTurn(w, files', archive')

LEMMA HitDone ==
    ASSUME ActivityLogConstants, LogInv, NEW p \in Procs, NEW h \in Hosts,
           NEW t, NEW f, NEW g, NEW x, NEW w, NEW before, HitAt(p, h, t, f, g, x, w, before),
           NEW nf, Effect(p, t, f, g, w, before, nf)
    PROVE  LogInv'
<1>1. LogTypeOK
  BY DEF LogInv
<1> USE DEF Effect
<1>2. /\ f \in {1, 2} /\ g \in {1, 2} /\ f # g /\ files[g] \in File /\ before \in File
      /\ before.start = files[g].start /\ (before.summed => before.hits = <<>>)
      /\ t \in Nat /\ t <= logNow /\ x.t = t /\ w \in Histories /\ After(visits, x, w)
  BY HitPlaces
<1>3. \A i \in {1, 2} : i = f \/ i = g
  BY <1>2
<1>4. LogTypeOK'
  <2>1. \A i \in {1, 2} : files'[i].summed => files'[i].hits = <<>>
    BY <1>2, <1>3
  <2>2. visits' \in Seq([host : Hosts, t : Nat])
    BY <1>2 DEF Histories
  <2> QED
    BY <1>1, <2>1, <2>2 DEF LogTypeOK
<1>5. NumbersHeld'
  <2>1. /\ FileRight(logAlone, w, before)
        /\ Shows(before.start, t) => NumbersOf(logAlone, w, before.start, before.sum, before.hosts)
    BY NumbersWithHit
  <2>2. \A i \in {1, 2} : FileRight(logAlone, w, files'[i])
    BY <1>3, <2>1
  <2>3. ShowsPeriod' => NumbersOf(logAlone, w, shown'.start, shown'.sum, shown'.hosts)
    BY <2>1
  <2>4. \A i \in {1, 2} : FileRight(logAlone', visits', files'[i])
    BY <2>2
  <2>5. \A i \in DOMAIN archive' :
           NumbersOf(logAlone', visits', archive'[i].start, archive'[i].sum, archive'[i].hosts)
    OBVIOUS
  <2>6. ShowsPeriod' => NumbersOf(logAlone', visits', shown'.start, shown'.sum, shown'.hosts)
    BY <2>3
  <2> QED
    BY <2>4, <2>5, <2>6 DEF NumbersHeld
<1>6. ASSUME logAlone' PROVE InTurn'
  <2>1. /\ logAlone /\ InTurn /\ TimesInTurn
    BY <1>6 DEF LogInv, InTurn
  <2>2. /\ \A q \in Procs : q # p => logLoc[q] = 0
        /\ \A k \in DOMAIN visits : visits[k].t <= t
        /\ \A i \in {1, 2} : files[i].start <= t
    BY <2>1, HitTimes
  <2>3. \A q \in Procs : logLoc'[q] = 0
    BY <2>2
  <2>4. \A k \in DOMAIN w : w[k].t \in Nat /\ w[k].t <= t
    <3>1. \A k \in DOMAIN w : w[k].t \in Nat
      BY <1>2, VisitsFacts
    <3>2. ASSUME NEW k \in DOMAIN w PROVE w[k].t <= t
      <4>1. CASE k = Len(visits) + 1
        BY <1>2, <4>1 DEF After
      <4>2. CASE k # Len(visits) + 1
        <5>1. k \in DOMAIN visits /\ w[k] = visits[k]
          BY <1>2, <4>2 DEF After
        <5> QED
          BY <2>2, <5>1
      <4> QED
        BY <4>1, <4>2
    <3> QED
      BY <3>1, <3>2
  <2>5. \A i \in {1, 2} : files'[i].start \in Nat /\ files'[i].start <= t
    BY <1>2, <1>3, <2>2 DEF File
  <2>6. t <= logNow' /\ \A y \in Nat : y <= t => y <= logNow'
    <3>1. logNow \in Nat
      BY <1>1 DEF LogTypeOK
    <3> QED
      BY <1>2, <3>1
  <2>7. TimesInTurn'
    <3>1. logNow' >= 2 * Period + 1
      BY <2>1 DEF TimesInTurn
    <3>2. \A k \in DOMAIN visits' : visits'[k].t <= logNow'
      BY <2>4, <2>6
    <3>3. \A i \in {1, 2} : files'[i].start <= logNow'
      BY <2>5, <2>6
    <3> QED
      BY <2>3, <3>1, <3>2, <3>3 DEF TimesInTurn, SoFar
  <2>8. ShowsPeriod' => Passed(w, shown'.start)
    <3> SUFFICES ASSUME ShowsPeriod' PROVE Passed(w, before.start)
      OBVIOUS
    <3>1. Len(visits) + 1 \in DOMAIN w /\ w[Len(visits) + 1].t = t
      BY <1>2 DEF After
    <3>2. before.start \in Nat /\ before.start < t - Period
      BY <1>2 DEF Shows, File
    <3>3. before.start + Period < t
      BY <1>2, <3>2 DEF ActivityLogConstants
    <3> QED
      BY <3>1, <3>3 DEF Passed
  <2> QED
    BY <2>1, <2>7, <2>8 DEF InTurn
<1> QED
  BY <1>4, <1>5, <1>6 DEF LogInv

\* A hit for a file that there is.
LEMMA HitHolds ==
    ASSUME ActivityLogConstants, LogInv, NEW p \in Procs, NEW h \in Hosts, Hit(p, h)
    PROVE  LogInv'
<1>1. PICK t, f, g, x, w, before : HitAt(p, h, t, f, g, x, w, before)
  BY DEF Hit, HitAt
<1>2. /\ f \in {1, 2} /\ g \in {1, 2} /\ f # g /\ Other(g) = f /\ Other(f) = g
      /\ files[f] \in File /\ files[g] \in File
      /\ t \in Nat /\ t <= logNow
      /\ x \in [host : Hosts, t : Nat] /\ x.t = t /\ x.host = h
      /\ w \in Histories /\ After(visits, x, w)
      /\ before \in File /\ before.start = files[g].start
      /\ (before.summed <=> files[g].summed \/ Shows(files[g].start, t))
      /\ (before.summed => before.hits = <<>>)
  BY <1>1, HitPlaces
<1>3. /\ LogTypeOK /\ NumbersHeld /\ visits \in Histories /\ logAlone \in BOOLEAN
      /\ Period \in Nat /\ Period > 0
  BY DEF LogInv, LogTypeOK, Histories, ActivityLogConstants
<1> DEFINE nf == WithHit(files[f], h)
<1>4. /\ Collects(files[f].start, t)
      /\ files' = [files EXCEPT ![f] = nf, ![g] = before]
      /\ shown' = IF Shows(before.start, t)
                  THEN [start |-> before.start, sum |-> before.sum,
                        hosts |-> before.hosts, archiving |-> FALSE]
                  ELSE Nothing
      /\ visits' = w /\ logLoc' = [logLoc EXCEPT ![p] = 0]
      /\ logNow' = logNow /\ archive' = archive /\ logAlone' = logAlone
  BY <1>1 DEF Hit, HitAt
<1>5. /\ nf \in File /\ nf.start = files[f].start /\ nf.summed = files[f].summed
      /\ FileRight(logAlone, w, nf) /\ (nf.summed => nf.hits = <<>>)
  <2>1. PICK file \in File : file = files[f]
    BY <1>2
  <2>2. CASE file.summed
    <3>1. nf = file /\ file.hits = <<>>
      BY <1>2, <1>3, <2>1, <2>2 DEF WithHit, LogTypeOK
    <3>2. FileRight(logAlone, w, file)
      BY <1>1, <2>1, <2>2, NumbersWithHit
    <3> QED
      BY <2>1, <3>1, <3>2
  <2>3. CASE ~file.summed
    <3>1. file.hits \in Hits /\ file.start \in Nat
      BY DEF File
    <3>2. RecordsOf(logAlone, visits, file.start, file.hits)
      BY <1>2, <1>3, <2>1, <2>3 DEF NumbersHeld, FileRight
    <3>3. Collects(file.start, x.t)
      BY <1>2, <1>4, <2>1
    <3>4. Counted(file.hits, h) \in Hits /\ RecordsOf(logAlone, w, file.start, Counted(file.hits, h))
      BY <1>2, <1>3, <3>1, <3>2, <3>3, RecordedHit
    <3>5. nf = [file EXCEPT !.hits = Counted(file.hits, h)]
      BY <2>1, <2>3 DEF WithHit
    <3>6. /\ nf \in File /\ nf.start = file.start /\ nf.summed = file.summed
          /\ nf.hits = Counted(file.hits, h)
      BY <3>4, <3>5 DEF File
    <3> QED
      BY <2>1, <2>3, <3>4, <3>6 DEF FileRight
  <2> QED
    BY <2>2, <2>3
<1> HIDE DEF nf
<1>6. files' \in [{1, 2} -> File] /\ files'[f] = nf /\ files'[g] = before
  BY <1>2, <1>3, <1>4, <1>5 DEF LogTypeOK
<1>7. /\ logLoc' \in [Procs -> 0..logNow]
      /\ \A q \in Procs : logLoc'[q] = IF q = p THEN 0 ELSE logLoc[q]
  BY <1>3, <1>4 DEF LogTypeOK
<1>8. /\ shown' \in [start : Nat, sum : Nat, hosts : Nat, archiving : BOOLEAN]
      /\ ShowsPeriod' => /\ Shows(before.start, t) /\ shown'.start = before.start
                         /\ shown'.sum = before.sum /\ shown'.hosts = before.hosts
  BY <1>2, <1>4 DEF File, Nothing, ShowsPeriod
<1>9. /\ archive' \in Seq([start : Nat, sum : Nat, hosts : Nat])
      /\ \A i \in DOMAIN archive' :
            NumbersOf(logAlone, w, archive'[i].start, archive'[i].sum, archive'[i].hosts)
  BY <1>1, <1>3, <1>4, NumbersWithHit DEF LogTypeOK
<1>10. ASSUME logAlone PROVE FilesInTurn(w, files') /\ ArchiveInTurn(w, files', archive')
  <2>1. InTurn /\ FilesInTurn(visits, files) /\ ArchiveInTurn(visits, files, archive)
    BY <1>10 DEF LogInv, InTurn
  <2>2. /\ \A k \in DOMAIN visits : visits[k].t <= t
        /\ \A s \in Nat : Passed(visits, s) => Passed(w, s) /\ s + Period < t
    BY <1>1, <1>10, HitTimes
  <2>3. \A i \in {1, 2} : files'[i].start = files[i].start /\ files[i].start \in Nat
    BY <1>2, <1>5, <1>6 DEF File
  <2>4. /\ Len(visits) + 1 \in DOMAIN w /\ w[Len(visits) + 1].t = t
        /\ \A k \in DOMAIN w : k # Len(visits) + 1 => k \in DOMAIN visits /\ w[k] = visits[k]
    BY <1>2 DEF After
  <2>5. \A s \in Nat : Shows(s, t) => Passed(w, s)
    BY <1>2, <1>3, <2>4 DEF Passed, Shows
  <2>6. /\ files'[f].summed => FALSE
        /\ ~files[f].summed /\ \A k \in DOMAIN w : ~Shows(files'[f].start, w[k].t)
    <3>1. ~files[f].summed /\ ~files'[f].summed
      BY <1>1, <1>4, <1>5, <1>6, <1>10, NumbersWithHit
    <3>2. ~Shows(files[f].start, t)
      BY <1>1, <1>10, HitTimes
    <3>3. \A k \in DOMAIN visits : ~Shows(files[f].start, visits[k].t)
      BY <1>2, <2>1, <3>1 DEF FilesInTurn
    <3> QED
      BY <1>2, <2>3, <2>4, <3>1, <3>2, <3>3
  <2>7. IF files'[g].summed THEN Passed(w, files'[g].start) /\ files'[g].start < files'[f].start
        ELSE \A k \in DOMAIN w : ~Shows(files'[g].start, w[k].t)
    <3>1. CASE files[g].summed
      <4>1. Passed(visits, files[g].start) /\ files[g].start < files[f].start
        BY <1>2, <2>1, <3>1 DEF FilesInTurn
      <4> QED
        BY <1>2, <1>6, <2>2, <2>3, <3>1, <4>1
    <3>2. CASE ~files[g].summed /\ Shows(files[g].start, t)
      <4>1. files[g].start < files[f].start
        BY <1>2, <1>3, <1>4, <2>3, <3>2 DEF Shows, Collects
      <4> QED
        BY <1>2, <1>6, <2>3, <2>5, <3>2, <4>1
    <3>3. CASE ~files[g].summed /\ ~Shows(files[g].start, t)
      <4>1. \A k \in DOMAIN visits : ~Shows(files[g].start, visits[k].t)
        BY <1>2, <2>1, <3>3 DEF FilesInTurn
      <4> QED
        BY <1>2, <1>6, <2>3, <2>4, <3>3, <4>1
    <3> QED
      BY <3>1, <3>2, <3>3
  <2>8. FilesInTurn(w, files')
    <3>1. \A i \in {1, 2} :
             IF files'[i].summed
             THEN Passed(w, files'[i].start) /\ files'[i].start < files'[Other(i)].start
             ELSE \A k \in DOMAIN w : ~Shows(files'[i].start, w[k].t)
      BY <1>2, <2>6, <2>7
    <3> QED
      BY <2>1, <2>3, <3>1 DEF FilesInTurn
  <2>9. ArchiveInTurn(w, files', archive')
    <3>1. \A i \in DOMAIN archive : archive[i].start \in Nat
      BY <1>3, ArchiveFacts
    <3> QED
      BY <1>4, <2>1, <2>2, <2>3, <3>1 DEF ArchiveInTurn
  <2> QED
    BY <2>8, <2>9
<1>11. nf.start <= t
  BY <1>2, <1>4, <1>5 DEF Collects, File
<1>12. Effect(p, t, f, g, w, before, nf)
  BY <1>4, <1>5, <1>6, <1>7, <1>8, <1>9, <1>10, <1>11 DEF Effect
<1> QED
  BY <1>1, <1>12, HitDone

\* A hit that starts a file.
LEMMA StartHolds ==
    ASSUME ActivityLogConstants, LogInv, NEW p \in Procs, NEW h \in Hosts, StartPeriod(p, h)
    PROVE  LogInv'
<1>1. PICK t, f, g, x, w, before : HitAt(p, h, t, f, g, x, w, before)
  BY DEF StartPeriod, HitAt
<1>2. /\ f \in {1, 2} /\ g \in {1, 2} /\ f # g /\ Other(g) = f /\ Other(f) = g
      /\ files[f] \in File /\ files[g] \in File
      /\ t \in Nat /\ t <= logNow
      /\ x \in [host : Hosts, t : Nat] /\ x.t = t /\ x.host = h
      /\ w \in Histories /\ After(visits, x, w)
      /\ before \in File /\ before.start = files[g].start
      /\ (before.summed <=> files[g].summed \/ Shows(files[g].start, t))
      /\ (before.summed => before.hits = <<>>)
  BY <1>1, HitPlaces
<1>3. /\ LogTypeOK /\ NumbersHeld /\ visits \in Histories /\ logAlone \in BOOLEAN
      /\ Period \in Nat /\ Period > 0
  BY DEF LogInv, LogTypeOK, Histories, ActivityLogConstants
<1>4. \A k \in DOMAIN visits : visits[k].t \in Nat
  BY <1>3, VisitsFacts
<1> DEFINE s == Start(t, g)
           nf == NewFile(s, Counted(<<>>, h))
           old == files[f]
<1>5. /\ ~Collects(old.start, t)
      /\ files' = [files EXCEPT ![f] = nf, ![g] = before]
      /\ archive' = IF old.summed THEN Append(archive, Archived(old)) ELSE archive
      /\ shown' = CASE old.summed ->
                          [start |-> IF Shows(before.start, t) THEN before.start ELSE 0,
                           sum |-> old.sum, hosts |-> old.hosts, archiving |-> TRUE]
                    [] ~old.summed /\ Shows(before.start, t) ->
                          [start |-> before.start, sum |-> before.sum,
                           hosts |-> before.hosts, archiving |-> FALSE]
                    [] OTHER -> Nothing
      /\ visits' = w /\ logLoc' = [logLoc EXCEPT ![p] = 0]
      /\ logNow' = logNow /\ logAlone' = logAlone
  BY <1>1 DEF StartPeriod, HitAt
<1>6. /\ s \in Nat /\ s <= t
      /\ \/ s = t
         \/ /\ s = files[g].start + Period /\ Collects(s, t)
            /\ Shows(files[g].start, t) /\ ~files[g].summed
      /\ ~files[g].summed /\ Shows(files[g].start, t) => s = files[g].start + Period
  <2>1. files[g].start \in Nat
    BY <1>2 DEF File
  <2> QED
    BY <1>2, <1>3, <2>1 DEF Start, Shows, Collects
<1> HIDE DEF s
\* No hit so far belongs to the new period.
<1>7. ASSUME logAlone PROVE \A k \in DOMAIN visits : ~Collects(s, visits[k].t)
  <2>1. \A k \in DOMAIN visits : visits[k].t <= t
    BY <1>1, <1>7, HitTimes
  <2>2. CASE s = t
    BY <1>2, <1>3, <1>4, <2>1, <2>2 DEF Collects
  <2>3. CASE s = files[g].start + Period /\ Shows(files[g].start, t) /\ ~files[g].summed
    <3>1. \A k \in DOMAIN visits : ~Shows(files[g].start, visits[k].t)
      BY <1>2, <1>7, <2>3 DEF LogInv, InTurn, FilesInTurn
    <3>2. files[g].start \in Nat
      BY <1>2 DEF File
    <3> QED
      BY <1>3, <1>4, <2>3, <3>1, <3>2 DEF Collects, Shows
  <2> QED
    BY <1>6, <2>2, <2>3
<1>8. Counted(<<>>, h) \in Hits /\ RecordsOf(logAlone, w, s, Counted(<<>>, h))
  <2>1. <<>> \in Hits /\ RecordsOf(logAlone, visits, s, <<>>)
    BY <1>3, <1>7, RecordedNone
  <2>2. Collects(s, x.t) \/ (s = x.t /\ <<>> = <<>>)
    BY <1>2, <1>6
  <2>3. PICK none : none = <<>>
    OBVIOUS
  <2>4. none \in Hits /\ RecordsOf(logAlone, visits, s, none)
    BY <2>1, <2>3
  <2>5. Counted(none, x.host) \in Hits /\ RecordsOf(logAlone, w, s, Counted(none, x.host))
    BY <1>2, <1>3, <1>6, <2>2, <2>3, <2>4, RecordedHit
  <2> QED
    BY <1>2, <2>3, <2>5
<1>9. /\ nf \in File /\ nf.start = s /\ ~nf.summed /\ FileRight(logAlone, w, nf)
  BY <1>6, <1>8 DEF NewFile, File, FileRight
<1> HIDE DEF nf
<1>10. files' \in [{1, 2} -> File] /\ files'[f] = nf /\ files'[g] = before
  BY <1>2, <1>3, <1>5, <1>9 DEF LogTypeOK
<1>11. /\ logLoc' \in [Procs -> 0..logNow]
       /\ \A q \in Procs : logLoc'[q] = IF q = p THEN 0 ELSE logLoc[q]
  BY <1>3, <1>5 DEF LogTypeOK
<1>12. /\ shown' \in [start : Nat, sum : Nat, hosts : Nat, archiving : BOOLEAN]
       /\ ShowsPeriod' => /\ Shows(before.start, t) /\ shown'.start = before.start
                          /\ shown'.sum = before.sum /\ shown'.hosts = before.hosts
  <2>1. CASE old.summed
    <3>1. shown' = [start |-> IF Shows(before.start, t) THEN before.start ELSE 0,
                    sum |-> old.sum, hosts |-> old.hosts, archiving |-> TRUE]
      BY <1>5, <2>1
    <3> QED
      BY <1>2, <3>1 DEF File, ShowsPeriod
  <2>2. CASE ~old.summed /\ Shows(before.start, t)
    <3>1. shown' = [start |-> before.start, sum |-> before.sum,
                    hosts |-> before.hosts, archiving |-> FALSE]
      BY <1>5, <2>2
    <3> QED
      BY <1>2, <2>2, <3>1 DEF File, ShowsPeriod
  <2>3. CASE ~old.summed /\ ~Shows(before.start, t)
    <3>1. shown' = Nothing
      BY <1>5, <2>3
    <3> QED
      BY <3>1 DEF Nothing, ShowsPeriod
  <2> QED
    BY <2>1, <2>2, <2>3
\* The archive, with the record of the old period if there is one.
<1>13. /\ archive' \in Seq([start : Nat, sum : Nat, hosts : Nat])
       /\ \A i \in DOMAIN archive' :
             \/ i \in DOMAIN archive /\ archive'[i] = archive[i]
             \/ i = Len(archive) + 1 /\ old.summed /\ archive'[i] = Archived(old)
  <2>1. Archived(old) \in [start : Nat, sum : Nat, hosts : Nat]
    BY <1>2 DEF Archived, File
  <2>2. archive \in Seq([start : Nat, sum : Nat, hosts : Nat])
    BY <1>3 DEF LogTypeOK
  <2>3. CASE ~old.summed
    BY <1>5, <2>2, <2>3
  <2>4. CASE old.summed
    <3>1. PICK a : a = Archived(old)
      OBVIOUS
    <3>2. archive' = Append(archive, a)
      BY <1>5, <2>4, <3>1
    <3>3. /\ archive' \in Seq([start : Nat, sum : Nat, hosts : Nat])
          /\ Len(archive') = Len(archive) + 1 /\ archive'[Len(archive) + 1] = a
          /\ \A i \in 1..Len(archive) : archive'[i] = archive[i]
      BY <2>1, <2>2, <3>1, <3>2, AppendProperties
    <3>4. DOMAIN archive' = 1..(Len(archive) + 1) /\ DOMAIN archive = 1..Len(archive)
      BY <2>2, <3>3
    <3> QED
      BY <1>3, <2>4, <3>1, <3>3, <3>4, ArchiveFacts
  <2> QED
    BY <2>3, <2>4
<1>14. \A i \in DOMAIN archive' :
          NumbersOf(logAlone, w, archive'[i].start, archive'[i].sum, archive'[i].hosts)
  <2>1. /\ old.summed => NumbersOf(logAlone, w, old.start, old.sum, old.hosts)
        /\ \A i \in DOMAIN archive :
              NumbersOf(logAlone, w, archive[i].start, archive[i].sum, archive[i].hosts)
    BY <1>1, NumbersWithHit DEF FileRight
  <2>2. old.summed => NumbersOf(logAlone, w, Archived(old).start,
                                Archived(old).sum, Archived(old).hosts)
    BY <2>1 DEF Archived
  <2> QED
    BY <1>13, <2>1, <2>2
<1>15. ASSUME logAlone PROVE FilesInTurn(w, files') /\ ArchiveInTurn(w, files', archive')
  <2>1. InTurn /\ FilesInTurn(visits, files) /\ ArchiveInTurn(visits, files, archive)
    BY <1>15 DEF LogInv, InTurn
  <2>2. /\ \A k \in DOMAIN visits : visits[k].t <= t
        /\ \A y \in Nat : Passed(visits, y) => Passed(w, y) /\ y + Period < t
        /\ files[g].start + Period < t /\ (f = 2 => Shows(files[1].start, t))
        /\ files[f].start <= t
    BY <1>1, <1>2, <1>5, <1>15, HitTimes
  <2>3. /\ files'[g].start = files[g].start /\ files'[f].start = s
        /\ files[g].start \in Nat /\ files[f].start \in Nat
        /\ ~files'[f].summed /\ (files'[g].summed <=> before.summed)
    BY <1>2, <1>9, <1>10 DEF File
  <2>4. /\ Len(visits) + 1 \in DOMAIN w /\ w[Len(visits) + 1].t = t
        /\ \A k \in DOMAIN w : k # Len(visits) + 1 => k \in DOMAIN visits /\ w[k] = visits[k]
    BY <1>2 DEF After
  <2>5. \A y \in Nat : Shows(y, t) => Passed(w, y)
    BY <1>2, <1>3, <2>4 DEF Passed, Shows
  <2>6. files[g].start + Period <= s
    <3>1. PICK a \in Nat : a = files[g].start
      BY <2>3
    <3>2. a + Period < t /\ (s = t \/ s = a + Period)
      BY <1>6, <2>2, <3>1
    <3> QED
      BY <1>2, <1>3, <1>6, <3>1, <3>2
  <2>7. \A k \in DOMAIN w : ~Shows(files'[f].start, w[k].t)
    <3>1. \A k \in DOMAIN w : w[k].t <= t /\ w[k].t \in Nat
      BY <1>2, <1>4, <2>2, <2>4
    <3>2. t <= s + Period
      BY <1>2, <1>3, <1>6 DEF Collects
    <3> QED
      BY <1>2, <1>3, <1>6, <2>3, <3>1, <3>2 DEF Shows
  <2>8. IF files'[g].summed THEN Passed(w, files'[g].start) /\ files'[g].start < files'[f].start
        ELSE \A k \in DOMAIN w : ~Shows(files'[g].start, w[k].t)
    <3>1. files'[g].start < files'[f].start
      BY <1>3, <1>6, <2>3, <2>6
    <3>2. CASE files[g].summed
      <4>1. Passed(visits, files[g].start)
        BY <1>2, <2>1, <3>2 DEF FilesInTurn
      <4> QED
        BY <1>2, <2>2, <2>3, <3>1, <3>2, <4>1
    <3>3. CASE ~files[g].summed /\ Shows(files[g].start, t)
      BY <1>2, <2>3, <2>5, <3>1, <3>3
    <3>4. CASE ~files[g].summed /\ ~Shows(files[g].start, t)
      <4>1. \A k \in DOMAIN visits : ~Shows(files[g].start, visits[k].t)
        BY <1>2, <2>1, <3>4 DEF FilesInTurn
      <4> QED
        BY <1>2, <2>3, <2>4, <3>4, <4>1
    <3> QED
      BY <3>2, <3>3, <3>4
  <2>9. FilesInTurn(w, files')
    <3>1. \A i \in {1, 2} :
             IF files'[i].summed
             THEN Passed(w, files'[i].start) /\ files'[i].start < files'[Other(i)].start
             ELSE \A k \in DOMAIN w : ~Shows(files'[i].start, w[k].t)
      BY <1>2, <2>3, <2>7, <2>8
    <3>2. CASE f = 1
      <4>1. g = 2
        BY <1>2, <3>2
      <4> QED
        BY <1>3, <1>6, <2>3, <2>6, <3>1, <3>2, <4>1 DEF FilesInTurn, Apart
    <3>3. CASE f = 2
      <4>1. g = 1 /\ t - 2 * Period <= files[1].start
        BY <1>2, <2>2, <3>3 DEF Shows
      <4>2. s <= files[1].start + 2 * Period
        BY <1>2, <1>3, <1>6, <2>3, <4>1
      <4> QED
        BY <1>3, <1>6, <2>3, <2>6, <3>1, <3>3, <4>1, <4>2 DEF FilesInTurn, Apart
    <3> QED
      BY <1>2, <3>2, <3>3
  <2>10. ArchiveInTurn(w, files', archive')
    <3>1. /\ \A i \in DOMAIN archive : archive[i].start \in Nat
          /\ DOMAIN archive = 1..Len(archive) /\ Len(archive) \in Nat
      BY <1>3, ArchiveFacts
    <3>2. \A i \in DOMAIN archive :
             /\ Passed(w, archive[i].start)
             /\ archive[i].start < files[g].start /\ archive[i].start < s
             /\ archive[i].start < files[f].start
      BY SMTT(40), <1>2, <1>3, <1>6, <2>1, <2>2, <2>3, <2>6, <3>1 DEF ArchiveInTurn
    <3>3. old.summed => /\ Passed(w, old.start)
                        /\ old.start < files[g].start /\ old.start < s
      BY SMTT(40), <1>2, <1>3, <1>6, <2>1, <2>2, <2>3, <2>6 DEF FilesInTurn
    <3>4. \A i \in DOMAIN archive' :
             /\ Passed(w, archive'[i].start)
             /\ archive'[i].start < files'[g].start /\ archive'[i].start < files'[f].start
      BY <1>13, <2>3, <3>2, <3>3 DEF Archived
    <3>5. \A i, j \in DOMAIN archive' : i < j => archive'[i].start < archive'[j].start
      <4>1. ASSUME NEW i \in DOMAIN archive', NEW j \in DOMAIN archive', i < j
            PROVE  archive'[i].start < archive'[j].start
        <5>1. i \in DOMAIN archive /\ archive'[i] = archive[i]
          <6>1. j \in 1..Len(archive) \/ j = Len(archive) + 1
            BY <1>13, <3>1
          <6>2. i \in 1..Len(archive) \/ i = Len(archive) + 1
            BY <1>13, <3>1
          <6>3. i # Len(archive) + 1
            BY <3>1, <4>1, <6>1, <6>2
          <6> QED
            BY <1>13, <6>3
        <5>2. CASE j \in DOMAIN archive /\ archive'[j] = archive[j]
          BY <2>1, <4>1, <5>1, <5>2 DEF ArchiveInTurn
        <5>3. CASE j = Len(archive) + 1 /\ old.summed /\ archive'[j] = Archived(old)
          BY <3>2, <5>1, <5>3 DEF Archived
        <5> QED
          BY <1>13, <5>2, <5>3
      <4> QED
        BY <4>1
    <3> QED
      BY <1>2, <3>4, <3>5 DEF ArchiveInTurn
  <2> QED
    BY <2>9, <2>10
<1>16. Effect(p, t, f, g, w, before, nf)
  BY <1>5, <1>6, <1>9, <1>10, <1>11, <1>12, <1>13, <1>14, <1>15 DEF Effect
<1> QED
  BY <1>1, <1>16, HitDone

LEMMA LogStepHolds == ASSUME ActivityLogConstants PROVE LogInv /\ [LogNext]_logVars => LogInv'
<1> SUFFICES ASSUME LogInv, [LogNext]_logVars PROVE LogInv'
  OBVIOUS
<1>1. CASE Tick \/ (\E p \in Procs : BeginHit(p)) \/ UNCHANGED logVars
  BY <1>1, ClockHolds
<1>2. CASE BoundReached
  BY <1>2, ClockHolds DEF BoundReached
<1>3. ASSUME NEW p \in Procs, NEW h \in Hosts, Hit(p, h) PROVE LogInv'
  BY <1>3, HitHolds
<1>4. ASSUME NEW p \in Procs, NEW h \in Hosts, StartPeriod(p, h) PROVE LogInv'
  BY <1>4, StartHolds
<1> QED
  BY <1>1, <1>2, <1>3, <1>4 DEF LogNext

\* The numbers shown are those of the period before, and a period is archived
\* with its numbers, however requests overlap (then a hit may be missing) and
\* periods with and without hits follow each other, for every length of a period
\* and any number of requests and addresses: RegisterActivityFrom picks the two
\* files by comparing times.
THEOREM PeriodsStayRight == ASSUME ActivityLogConstants PROVE LogSpec => []PeriodsRight
<1>1. LogInit => LogInv
  BY LogInitHolds
<1>2. LogInv /\ [LogNext]_logVars => LogInv'
  BY LogStepHolds
<1>3. LogInv => PeriodsRight
  BY LogInvRight
<1> QED
  BY <1>1, <1>2, <1>3, PTL DEF LogSpec
=============================================================================
