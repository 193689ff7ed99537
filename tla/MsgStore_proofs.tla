-------------------------- MODULE MsgStore_proofs --------------------------
(***************************************************************************)
(* What the message database keeps right for every set of requests, every  *)
(* order of their steps, every settled database they start from and every  *)
(* request that may be killed.  PlacesInv says who owns a place of the     *)
(* header file: it is shown, free, or held by one request.                 *)
(***************************************************************************)
EXTENDS MsgStore, ListLemmas, FiniteSetTheorems

Memory == [pc : Pc, rq : Request, at : Nat, msg : Header,
           todo : Seq(Nat), code : 0..2]

\* Program counters by what the request's memory means there.
Placing == {"header", "index", "append"}     \* has a place that is not shown yet
Deleting == {"delete", "unindex", "read", "cut", "freeheader", "freebody"}
Flagging == {"flags", "update", "store"}
Selecting == {"select", "walk"}
Copying == {"resize", "realloc", "rewrite", "store"}  \* has a header to write back

\* Request p has place x of the header file in hand: taken and not shown yet,
\* or cut out of the index and not handed back yet.
Holds(p, x) ==
    \/ loc[p].pc \in Placing /\ x = vidx[loc[p].msg.vi]
    \/ loc[p].pc = "freeheader" /\ x = loc[p].at

\* What a request remembers fits the files.
Fits(m) ==
    /\ m.pc \in Deleting \cup Flagging => Len(m.todo) > 0
    /\ m.pc \in Deleting =>
         m.rq.op = "delete" /\ \A i \in DOMAIN m.todo : m.todo[i] \in DOMAIN vidx
    /\ m.pc \in Flagging => m.rq.op \in ReadModifyWrite
    /\ m.pc \in Selecting => m.rq.op \in {"delete"} \cup ReadModifyWrite
    /\ m.pc \in Copying => m.at \in DOMAIN hdr /\ m.msg.vi \in DOMAIN vidx
    /\ m.pc \in Placing =>
         /\ m.msg.vi \in DOMAIN vidx
         /\ vidx[m.msg.vi] \in 1..(Len(hdr) + 1)
         /\ m.pc # "header" => vidx[m.msg.vi] \in DOMAIN hdr
    /\ m.pc = "freeheader" => m.at \in DOMAIN hdr

\* Number n, given out for place x, is not yet known to the others: a header
\* with it is written to x only, and no request to delete has met it.
Unknown(m, n, x) ==
    /\ m.pc \in Copying /\ m.msg.vi = n => m.at = x
    /\ m.pc \in Deleting => \A i \in DOMAIN m.todo : m.todo[i] # n

HeldRight ==
    \A p \in Procs : loc[p].pc = "header" => held["fm"] = p

NumbersKnown ==
    \A x \in DOMAIN hdr : hdr[x].vi \in DOMAIN vidx

NumbersFresh ==
    \A p \in Procs : loc[p].pc \in Placing =>
        LET n == loc[p].msg.vi
        IN  /\ \A x \in DOMAIN hdr : hdr[x].vi = n => x = vidx[n]
            /\ \A q \in Procs : Unknown(loc[q], n, vidx[n])

\* A place is shown, free, in the hands of one request, or lost.
PlacesOwned ==
    /\ PlacesNotShared
    /\ FreePlaces \subseteq DOMAIN hdr
    /\ \A p \in Procs : \A x \in Nat : Holds(p, x) =>
          /\ x \notin Shown /\ x \notin FreePlaces
          /\ \A q \in Procs \ {p} : ~Holds(q, x)

PlacesInv ==
    /\ TypeOK
    /\ \A p \in Procs : Fits(loc[p])
    /\ HeldRight /\ NumbersKnown /\ NumbersFresh /\ PlacesOwned
-----------------------------------------------------------------------------
(* Lists: the free lists. *)

LEMMA UnitsFacts ==
    ASSUME NEW free \in Seq(Block)
    PROVE  /\ \A i \in DOMAIN free : free[i].index \in Nat /\ free[i].size \in Nat
           /\ \A x : x \in Units(free) <=> \E i \in DOMAIN free : x \in Span(free[i])
           /\ Units(free) \subseteq Nat
<1>1. \A i \in DOMAIN free : free[i] \in Block
  OBVIOUS
<1>2. \A i \in DOMAIN free : free[i].index \in Nat /\ free[i].size \in Nat
  BY <1>1 DEF Block
<1>3. \A x : x \in Units(free) <=> \E i \in DOMAIN free : x \in Span(free[i])
  BY DEF Units, ToSet, Span
<1>4. \A i \in DOMAIN free : Span(free[i]) \subseteq Nat
  BY <1>2 DEF Span
<1>5. QED
  BY <1>2, <1>3, <1>4

\* A list names no unit twice.
LEMMA OnceFacts ==
    ASSUME NEW free \in Seq(Block)
    PROVE  NoneTwice(free) <=>
              \A i, j \in DOMAIN free : \A x : 
                 x \in Span(free[i]) /\ x \in Span(free[j]) => i = j
<1>1. \A i \in DOMAIN free : free[i].index \in Nat /\ free[i].size \in Nat
  BY UnitsFacts
<1>2. \A i \in DOMAIN free : free[i].size = 0 <=> Span(free[i]) = {}
  BY <1>1 DEF Span
<1>3. QED
  BY <1>2 DEF NoneTwice, Span

\* Space taken from a list was free, and is not free any more.
LEMMA TakeFacts ==
    ASSUME NEW free \in Seq(Block), NoneTwice(free),
           NEW n \in Nat, NEW w \in {0, 1}, NEW i \in DOMAIN free, NEW after,
           TakeFrom(free, after, i, n, w)
    PROVE  /\ after \in Seq(Block) /\ NoneTwice(after)
           /\ free[i].index \in Nat
           /\ free[i].index..(free[i].index + n - 1) \subseteq Units(free)
           /\ Units(after)
                = Units(free) \ (free[i].index..(free[i].index + n - 1))
<1> DEFINE at == free[i].index
           rest == Remainder(free[i], n, w)
           taken == at..(at + n - 1)
<1>1. \A j \in DOMAIN free : free[j].index \in Nat /\ free[j].size \in Nat
  BY UnitsFacts
<1>2. free[i].size >= n /\ after = [free EXCEPT ![i] = rest]
  BY DEF TakeFrom, FirstFit
<1>3. rest.index = at + n /\ rest.size = free[i].size - n /\ rest \in Block
  BY SMTT(40), <1>1, <1>2 DEF Remainder, Kept, Block
<1>4. /\ after \in Seq(Block) /\ DOMAIN after = DOMAIN free
      /\ after[i] = rest /\ \A j \in DOMAIN free \ {i} : after[j] = free[j]
  BY <1>2, <1>3
<1>5. taken \subseteq Span(free[i]) /\ Span(rest) = Span(free[i]) \ taken
  <2> DEFINE size == free[i].size
  <2>1. at \in Nat /\ size \in Nat /\ size >= n
    BY <1>1, <1>2
  <2>2. Span(free[i]) = at..(at + size - 1) /\ Span(rest) = (at + n)..(at + n + (size - n) - 1)
    BY <1>3 DEF Span
  <2> HIDE DEF at, size, rest
  <2>3. QED
    BY <2>1, <2>2
<1>6. \A j \in DOMAIN free : Span(after[j]) \subseteq Span(free[j])
  BY <1>4, <1>5
<1>7. \A j, k \in DOMAIN free : \A x :
         x \in Span(free[j]) /\ x \in Span(free[k]) => j = k
  BY OnceFacts
<1>8. NoneTwice(after)
  <2>1. \A j, k \in DOMAIN after : \A x :
           x \in Span(after[j]) /\ x \in Span(after[k]) => j = k
    BY <1>4, <1>6, <1>7
  <2>2. QED
    BY <1>4, <2>1, OnceFacts
<1>9. \A x : x \in Units(free) <=> \E j \in DOMAIN free : x \in Span(free[j])
  BY UnitsFacts
<1>10. \A x : x \in Units(after) <=> \E j \in DOMAIN free : x \in Span(after[j])
  BY <1>4, UnitsFacts
<1> HIDE DEF taken, rest
<1>11. \A x : x \in Units(after) <=> x \in Units(free) /\ x \notin taken
  <2>1. ASSUME NEW x \in Units(after) PROVE x \in Units(free) /\ x \notin taken
    <3>1. PICK j \in DOMAIN free : x \in Span(after[j])
      BY <1>10
    <3>2. x \in Span(free[j])
      BY <1>6, <3>1
    <3>3. CASE j = i
      BY <1>4, <1>5, <1>9, <3>1, <3>2, <3>3
    <3>4. CASE j # i
      BY <1>5, <1>7, <1>9, <3>2, <3>4
    <3>5. QED
      BY <3>3, <3>4
  <2>2. ASSUME NEW x \in Units(free), x \notin taken PROVE x \in Units(after)
    <3>1. PICK j \in DOMAIN free : x \in Span(free[j])
      BY <1>9
    <3>2. x \in Span(after[j])
      BY <1>4, <1>5, <2>2, <3>1
    <3>3. QED
      BY <1>10, <3>2
  <2>3. QED
    BY <2>1, <2>2
<1>12. taken \subseteq Units(free)
  BY <1>5, <1>9
<1>13. Units(after) = Units(free) \ taken
  BY <1>11
<1>14. QED
  BY <1>1, <1>4, <1>8, <1>12, <1>13 DEF taken

\* Space handed back that was not free is free.
LEMMA MarkFacts ==
    ASSUME NEW free \in Seq(Block), NoneTwice(free),
           NEW b \in Block, NEW after, Span(b) \cap Units(free) = {},
           MarkFreeSpace(free, after, b, 0)
    PROVE  /\ after \in Seq(Block) /\ NoneTwice(after)
           /\ Units(after) = Units(free) \cup Span(b)
<1>1. \A j \in DOMAIN free : free[j].index \in Nat /\ free[j].size \in Nat
  BY UnitsFacts
<1>2. b.index \in Nat /\ b.size \in Nat
  BY DEF Block
<1> DEFINE entry == [index |-> b.index, size |-> Kept(b.size, 0)]
<1>3. entry \in Block /\ Span(entry) = Span(b)
  BY <1>2 DEF Kept, Block, Span
<1>4. \A x : x \in Units(free) <=> \E j \in DOMAIN free : x \in Span(free[j])
  BY UnitsFacts
<1>5. \A j, k \in DOMAIN free : \A x :
         x \in Span(free[j]) /\ x \in Span(free[k]) => j = k
  BY OnceFacts
<1> DEFINE put(i) == /\ after \in Seq(Block) /\ i \in DOMAIN after
                     /\ after[i] = entry
                     /\ DOMAIN free \subseteq DOMAIN after
                     /\ DOMAIN after \subseteq DOMAIN free \cup {i}
                     /\ \A j \in DOMAIN free \ {i} : after[j] = free[j]
                     /\ i \in DOMAIN free => Span(free[i]) = {}
<1> HIDE DEF entry
<1>6. \E i : put(i)
  <2>1. CASE \E i \in DOMAIN free : /\ FirstEmpty(free, i)
                                    /\ after = [free EXCEPT ![i] = entry]
    <3>1. PICK i \in DOMAIN free : /\ free[i].size = 0
                                   /\ after = [free EXCEPT ![i] = entry]
      BY <2>1 DEF FirstEmpty
    <3>2. Span(free[i]) = {}
      BY <1>1, <3>1 DEF Span
    <3>3. put(i)
      BY <1>3, <3>1, <3>2
    <3>4. QED
      BY <3>3
  <2>2. CASE after = Append(free, entry)
    <3>1. put(Len(free) + 1)
      BY <1>3, <2>2
    <3>2. QED
      BY <3>1
  <2>3. QED
    BY <2>1, <2>2 DEF MarkFreeSpace, entry
<1>7. PICK i : put(i)
  BY <1>6
<1>8. ASSUME NEW j \in DOMAIN after, NEW x \in Span(after[j])
      PROVE  \/ j = i /\ x \in Span(b)
             \/ j # i /\ j \in DOMAIN free /\ x \in Span(free[j])
  BY <1>3, <1>7, <1>8
<1>9. NoneTwice(after)
  <2>1. ASSUME NEW j \in DOMAIN after, NEW k \in DOMAIN after, NEW x,
               x \in Span(after[j]), x \in Span(after[k])
        PROVE  j = k
    <3>1. x \in Span(b) => x \notin Units(free)
      OBVIOUS
    <3>2. QED
      BY <1>4, <1>5, <1>8, <2>1, <3>1
  <2>2. QED
    BY <1>7, <2>1, OnceFacts
<1>10. \A x : x \in Units(after) <=> \E j \in DOMAIN after : x \in Span(after[j])
  BY <1>7, UnitsFacts
<1>11. ASSUME NEW x PROVE x \in Units(after) <=> x \in Units(free) \cup Span(b)
  <2>1. ASSUME x \in Units(after) PROVE x \in Units(free) \cup Span(b)
    BY <1>4, <1>8, <1>10, <2>1
  <2>2. ASSUME x \in Units(free) PROVE x \in Units(after)
    <3>1. PICK j \in DOMAIN free : x \in Span(free[j])
      BY <1>4, <2>2
    <3>2. j # i /\ after[j] = free[j] /\ j \in DOMAIN after
      BY <1>7, <3>1
    <3>3. QED
      BY <1>10, <3>1, <3>2
  <2>3. ASSUME x \in Span(b) PROVE x \in Units(after)
    BY <1>3, <1>7, <1>10, <2>3
  <2>4. QED
    BY <2>1, <2>2, <2>3
<1>12. QED
  BY <1>7, <1>9, <1>11

-----------------------------------------------------------------------------
(* Requests: what one remembers, and what a step of one leaves alone. *)

\* A step of p: what the others remember and the locks they hold stay.
Moves(p) ==
    /\ loc' \in [Procs -> Memory]
    /\ \A q \in Procs \ {p} : loc'[q] = loc[q]
    /\ held' \in [{"fm", "fi"} -> Procs \cup {None}]
    /\ \A q \in Procs \ {p} : \A lock \in {"fm", "fi"} :
          held'[lock] = q <=> held[lock] = q
    /\ alone' = alone

LEMMA MemoryFacts ==
    ASSUME TypeOK, NEW p \in Procs
    PROVE  /\ loc \in [Procs -> Memory]
           /\ loc[p] \in Memory /\ loc[p].pc \in Pc /\ loc[p].at \in Nat
           /\ loc[p].rq \in Request /\ loc[p].msg \in Header
           /\ loc[p].todo \in Seq(Nat) /\ loc[p].code \in 0..2
           /\ held \in [{"fm", "fi"} -> Procs \cup {None}]
<1>1. loc \in [Procs -> Memory] /\ held \in [{"fm", "fi"} -> Procs \cup {None}]
  BY DEF TypeOK, Memory
<1>2. loc[p] \in Memory
  BY <1>1
<1>3. QED
  BY <1>1, <1>2 DEF Memory

LEMMA EndedFacts ==
    ASSUME NEW pc \in Pc
    PROVE  /\ Ended(pc) \in Memory /\ Ended(pc).pc = pc
           /\ Ended(pc).rq.op = "view"
<1>1. /\ NewHeader \in Header
      /\ [op |-> "view", vi |-> 0, size |-> 0, su |-> FALSE] \in Request
  BY DEF NewHeader, Header, Request, Op, ReadModifyWrite, Single, Reading
<1>2. << >> \in Seq(Nat)
  OBVIOUS
<1>3. QED
  BY <1>1, <1>2 DEF Ended, Idle, Memory

LEMMA ReleasedFacts ==
    ASSUME TypeOK, NEW p \in Procs, held' = Released(p)
    PROVE  /\ held' \in [{"fm", "fi"} -> Procs \cup {None}]
           /\ \A q \in Procs \ {p} : \A lock \in {"fm", "fi"} :
                 held'[lock] = q <=> held[lock] = q
           /\ \A lock \in {"fm", "fi"} : held'[lock] # p
<1>1. held \in [{"fm", "fi"} -> Procs \cup {None}] /\ None \notin Procs
  BY MsgStoreAssumption DEF TypeOK
<1>2. /\ DOMAIN held' = {"fm", "fi"}
      /\ \A lock \in {"fm", "fi"} :
            held'[lock] = IF held[lock] = p THEN None ELSE held[lock]
  BY <1>1 DEF Released
<1>3. held' \in [{"fm", "fi"} -> Procs \cup {None}]
  BY <1>1 DEF Released
<1>4. QED
  BY <1>1, <1>2, <1>3

LEMMA ExitMoves ==
    ASSUME TypeOK, NEW p \in Procs, Exit(p), UNCHANGED alone
    PROVE  Moves(p) /\ loc'[p] = Ended("done") /\ loc'[p].pc = "done"
<1>1. Ended("done") \in Memory /\ Ended("done").pc = "done"
  BY EndedFacts DEF Pc
<1>2. loc \in [Procs -> Memory]
  BY MemoryFacts
<1>3. loc' = [loc EXCEPT ![p] = Ended("done")]
  BY DEF Exit
<1>4. /\ loc' \in [Procs -> Memory] /\ loc'[p] = Ended("done")
      /\ \A q \in Procs \ {p} : loc'[q] = loc[q]
  BY <1>1, <1>2, <1>3
<1>5. held' = Released(p)
  BY DEF Exit
<1>6. QED
  BY <1>1, <1>4, <1>5, ReleasedFacts DEF Moves

\* A step that only sets the program counter.
LEMMA GotoMoves ==
    ASSUME TypeOK, NEW p \in Procs, NEW pc \in Pc, Goto(p, pc)
    PROVE  /\ loc' \in [Procs -> Memory]
           /\ loc'[p] = [loc[p] EXCEPT !.pc = pc]
           /\ \A q \in Procs \ {p} : loc'[q] = loc[q]
<1>1. loc \in [Procs -> Memory] /\ loc' = [loc EXCEPT ![p].pc = pc]
  BY MemoryFacts DEF Goto
<1>2. [loc[p] EXCEPT !.pc = pc] \in Memory
  BY <1>1 DEF Memory
<1>3. QED
  BY <1>1, <1>2

\* On to the next message, or the end.
LEMMA AdvanceMoves ==
    ASSUME TypeOK, NEW p \in Procs, NEW code, code \in 0..2, Len(loc[p].todo) > 0,
           Advance(p, code), UNCHANGED alone
    PROVE  /\ Moves(p)
           /\ \A lock \in {"fm", "fi"} : held'[lock] # p
           /\ \/ loc'[p] = Ended("done") /\ loc'[p].pc = "done"
              \/ /\ loc'[p].pc = IF loc[p].rq.op = "delete" THEN "delete" ELSE "flags"
                 /\ loc'[p].rq = loc[p].rq
                 /\ Len(loc'[p].todo) > 0
                 /\ Len(loc'[p].todo) = Len(loc[p].todo) - 1
                 /\ \A i \in 1..(Len(loc[p].todo) - 1) :
                       loc'[p].todo[i] = loc[p].todo[i + 1]
<1>1. loc \in [Procs -> Memory] /\ loc[p].todo \in Seq(Nat)
  BY MemoryFacts
<1>2. CASE Len(loc[p].todo) = 1
  <2>1. Exit(p)
    BY <1>2 DEF Advance
  <2>2. QED
    BY <2>1, ExitMoves, ReleasedFacts DEF Exit
<1>3. CASE Len(loc[p].todo) # 1
  <2> DEFINE pc == IF loc[p].rq.op = "delete" THEN "delete" ELSE "flags"
             rest == Tail(loc[p].todo)
  <2>1. held' = Released(p)
    BY <1>3 DEF Advance
  <2>2. loc' = [loc EXCEPT ![p].todo = rest, ![p].code = code, ![p].pc = pc]
    BY <1>3 DEF Advance
  <2>3. Len(loc[p].todo) \in Nat /\ Len(loc[p].todo) > 1
    <3> HIDE DEF pc, rest
    <3>1. Len(loc[p].todo) \in Nat
      BY <1>1
    <3>2. \A k \in Nat : k > 0 /\ k # 1 => k > 1
      OBVIOUS
    <3>3. QED
      BY <1>3, <3>1, <3>2, Zenon
  <2>4. /\ rest \in Seq(Nat) /\ Len(rest) = Len(loc[p].todo) - 1
        /\ \A i \in 1..(Len(loc[p].todo) - 1) : rest[i] = loc[p].todo[i + 1]
    BY <1>1, <2>3
  <2>5. Len(rest) > 0
    BY <2>3, <2>4
  <2>6. pc \in Pc
    BY DEF Pc
  <2> HIDE DEF pc, rest
  <2>7. loc'[p] = [loc[p] EXCEPT !.todo = rest, !.code = code, !.pc = pc]
    BY <1>1, <2>2
  <2>8. [loc[p] EXCEPT !.todo = rest, !.code = code, !.pc = pc] \in Memory
    BY <1>1, <2>4, <2>6 DEF Memory
  <2>9. loc' \in [Procs -> Memory] /\ \A q \in Procs \ {p} : loc'[q] = loc[q]
    BY <1>1, <2>2, <2>7, <2>8
  <2>10. loc'[p].pc = pc /\ loc'[p].rq = loc[p].rq /\ loc'[p].todo = rest
    BY <1>1, <2>7 DEF Memory
  <2>11. Moves(p) /\ \A lock \in {"fm", "fi"} : held'[lock] # p
    BY <2>1, <2>9, ReleasedFacts DEF Moves
  <2>12. QED
    BY <2>4, <2>5, <2>10, <2>11 DEF pc
<1>4. QED
  BY <1>2, <1>3

LEMMA TypesStill ==
    ASSUME TypeOK, NEW p \in Procs, Moves(p),
           hdr' \in Seq(Header), hfree' \in Seq(Block), bfree' \in Seq(Block),
           bodyEnd' \in Nat, threads' \in Nat, vidx' \in Seq(Nat),
           order' \in Seq(1..Len(hdr'))
    PROVE  TypeOK'
<1>1. alone' \in BOOLEAN
  BY Zenon DEF TypeOK, Moves
<1>2. /\ held' \in [{"fm", "fi"} -> Procs \cup {None}]
      /\ loc' \in [Procs -> Memory]
  BY DEF Moves
<1>3. QED
  BY <1>1, <1>2 DEF TypeOK, Memory

\* A step that leaves headers and numbers alone, by which p comes to no new
\* message and meets no number given out for a place that another one has in
\* hand: what is left to show is that each place still has one owner.
LEMMA PartsStill ==
    ASSUME PlacesInv, NEW p \in Procs, Moves(p), UNCHANGED <<hdr, vidx>>,
           hfree' \in Seq(Block), order' \in Seq(1..Len(hdr)),
           bfree' \in Seq(Block), bodyEnd' \in Nat, threads' \in Nat,
           Fits(loc'[p]),
           loc'[p].pc = "header" => held'["fm"] = p,
           loc'[p].pc \in Placing =>
              loc[p].pc \in Placing /\ loc'[p].msg.vi = loc[p].msg.vi,
           \A q \in Procs : loc[q].pc \in Placing =>
              Unknown(loc'[p], loc[q].msg.vi, vidx[loc[q].msg.vi])
    PROVE  /\ PlacesOwned' => PlacesInv'
           /\ \A q \in Procs \ {p} : \A x : Holds(q, x)' <=> Holds(q, x)
<1>1. \A q \in Procs \ {p} : loc'[q] = loc[q]
  BY DEF Moves
<1>2. TypeOK'
  BY TypesStill DEF PlacesInv, TypeOK
<1>3. \A q \in Procs : Fits(loc[q])'
  BY SMTT(40), <1>1 DEF PlacesInv, Fits
<1>4. HeldRight'
  BY <1>1 DEF PlacesInv, HeldRight, Moves
<1>5. NumbersKnown'
  BY DEF PlacesInv, NumbersKnown
<1>6. \A q \in Procs : loc'[q].pc \in Placing =>
         loc[q].pc \in Placing /\ loc'[q].msg.vi = loc[q].msg.vi
  BY <1>1
<1>7. NumbersFresh'
  <2> SUFFICES ASSUME NEW q \in Procs, loc'[q].pc \in Placing
               PROVE  LET n == loc'[q].msg.vi
                      IN  /\ \A x \in DOMAIN hdr : hdr[x].vi = n => x = vidx[n]
                          /\ \A r \in Procs : Unknown(loc'[r], n, vidx[n])
    BY DEF NumbersFresh, Unknown
  <2> DEFINE n == loc[q].msg.vi
  <2>1. loc[q].pc \in Placing /\ loc'[q].msg.vi = n
    BY <1>6
  <2>2. /\ \A x \in DOMAIN hdr : hdr[x].vi = n => x = vidx[n]
        /\ \A r \in Procs : Unknown(loc[r], n, vidx[n])
    BY <2>1 DEF PlacesInv, NumbersFresh
  <2>3. Unknown(loc'[p], n, vidx[n])
    BY <2>1
  <2> HIDE DEF n
  <2>4. \A r \in Procs : Unknown(loc'[r], n, vidx[n])
    BY <1>1, <2>2, <2>3
  <2>5. QED
    BY <2>1, <2>2, <2>4
<1>8. \A q \in Procs \ {p} : \A x : Holds(q, x)' <=> Holds(q, x)
  BY <1>1 DEF Holds
<1>9. QED
  BY <1>2, <1>3, <1>4, <1>5, <1>7, <1>8 DEF PlacesInv

\* A step that leaves the index and the free list of headers alone as well.
LEMMA PlacesStill ==
    ASSUME PlacesInv, NEW p \in Procs, Moves(p),
           UNCHANGED <<hdr, hfree, vidx, order>>,
           bfree' \in Seq(Block), bodyEnd' \in Nat, threads' \in Nat,
           Fits(loc'[p]),
           loc'[p].pc # "freeheader",
           loc'[p].pc = "header" => held'["fm"] = p,
           loc'[p].pc \in Placing =>
              loc[p].pc \in Placing /\ loc'[p].msg.vi = loc[p].msg.vi,
           \A q \in Procs : loc[q].pc \in Placing =>
              Unknown(loc'[p], loc[q].msg.vi, vidx[loc[q].msg.vi])
    PROVE  PlacesInv'
<1>1. hfree' \in Seq(Block) /\ order' \in Seq(1..Len(hdr))
  BY DEF PlacesInv, TypeOK
<1>2. /\ PlacesOwned' => PlacesInv'
      /\ \A q \in Procs \ {p} : \A x : Holds(q, x)' <=> Holds(q, x)
  BY <1>1, PartsStill
<1>3. \A x : Holds(p, x)' => Holds(p, x)
  BY DEF Holds
<1>4. PlacesOwned'
  <2>1. PlacesNotShared'
    BY DEF PlacesInv, PlacesOwned, PlacesNotShared, Shown, FreePlaces
  <2>2. FreePlaces' \subseteq DOMAIN hdr'
    BY DEF PlacesInv, PlacesOwned, FreePlaces
  <2>3. \A q \in Procs : \A x \in Nat : Holds(q, x)' => Holds(q, x)
    BY <1>2, <1>3
  <2>4. ASSUME NEW q \in Procs, NEW x \in Nat, Holds(q, x)'
        PROVE  /\ x \notin Shown' /\ x \notin FreePlaces'
               /\ \A r \in Procs \ {q} : ~Holds(r, x)'
    <3>1. Holds(q, x)
      BY <2>3, <2>4
    <3>2. /\ x \notin Shown /\ x \notin FreePlaces
          /\ \A r \in Procs \ {q} : ~Holds(r, x)
      BY <3>1 DEF PlacesInv, PlacesOwned
    <3>3. Shown' = Shown /\ FreePlaces' = FreePlaces
      BY DEF Shown, FreePlaces
    <3>4. QED
      BY <2>3, <3>2, <3>3
  <2>5. QED
    BY <2>1, <2>2, <2>4 DEF PlacesOwned
<1>5. QED
  BY <1>2, <1>4

\* The same when p has nothing to do with places, headers or lists of numbers.
LEMMA PlacesIdle ==
    ASSUME PlacesInv, NEW p \in Procs, Moves(p),
           UNCHANGED <<hdr, hfree, vidx, order>>,
           bfree' \in Seq(Block), bodyEnd' \in Nat, threads' \in Nat,
           loc'[p].pc \notin Deleting \cup Flagging \cup Selecting \cup Copying
                             \cup Placing
    PROVE  PlacesInv'
<1>1. loc'[p].pc # "freeheader" /\ loc'[p].pc # "header"
  BY DEF Deleting, Placing
<1>2. Fits(loc'[p])
  BY <1>1 DEF Fits
<1>3. \A n, x : Unknown(loc'[p], n, x)
  BY DEF Unknown
<1>4. QED
  BY <1>1, <1>2, <1>3, PlacesStill

LEMMA FilesSame ==
    ASSUME TypeOK, UNCHANGED store
    PROVE  /\ UNCHANGED <<hdr, hfree, vidx, order>>
           /\ bfree' \in Seq(Block) /\ bodyEnd' \in Nat /\ threads' \in Nat
  BY DEF TypeOK, store

\* What a request does next, by kind of program counter.
LEMMA Kinds ==
    /\ Deleting \cap (Flagging \cup Selecting \cup Copying \cup Placing) = {}
    /\ Selecting \cap (Flagging \cup Copying \cup Placing) = {}
    /\ Placing \cap (Flagging \cup Copying) = {}
    /\ "delete" \notin ReadModifyWrite /\ Single \subseteq ReadModifyWrite
    /\ "done" \notin Deleting \cup Flagging \cup Selecting \cup Copying \cup Placing
    /\ "dead" \notin Deleting \cup Flagging \cup Selecting \cup Copying \cup Placing
  BY DEF Deleting, Flagging, Selecting, Copying, Placing, ReadModifyWrite,
         Single, Reading

LEMMA ExitKeeps ==
    ASSUME PlacesInv, NEW p \in Procs, Exit(p), UNCHANGED alone,
           UNCHANGED <<hdr, hfree, vidx, order>>,
           bfree' \in Seq(Block), bodyEnd' \in Nat, threads' \in Nat
    PROVE  PlacesInv'
<1>1. TypeOK
  BY DEF PlacesInv
<1>2. Moves(p) /\ loc'[p].pc = "done"
  BY <1>1, ExitMoves
<1>3. QED
  BY <1>2, Kinds, PlacesIdle

\* The numbers still to be treated were met before.
LEMMA AdvanceFits ==
    ASSUME PlacesInv, NEW p \in Procs, loc[p].pc \in Deleting \cup Flagging,
           NEW code, code \in 0..2, Advance(p, code), UNCHANGED alone
    PROVE  /\ Moves(p) /\ Fits(loc'[p])
           /\ loc'[p].pc \notin Copying \cup Placing
           /\ loc'[p].pc # "freeheader" /\ loc'[p].pc # "header"
           /\ \A q \in Procs : loc[q].pc \in Placing =>
                 Unknown(loc'[p], loc[q].msg.vi, vidx[loc[q].msg.vi])
<1>1. TypeOK /\ Fits(loc[p])
  BY DEF PlacesInv
<1>2. Len(loc[p].todo) > 0 /\ loc[p].todo \in Seq(Nat)
  BY <1>1, MemoryFacts DEF Fits
<1>3. /\ Moves(p)
      /\ \/ loc'[p].pc = "done"
         \/ /\ loc'[p].pc = IF loc[p].rq.op = "delete" THEN "delete" ELSE "flags"
            /\ loc'[p].rq = loc[p].rq
            /\ Len(loc'[p].todo) > 0
            /\ Len(loc'[p].todo) = Len(loc[p].todo) - 1
            /\ \A i \in 1..(Len(loc[p].todo) - 1) :
                  loc'[p].todo[i] = loc[p].todo[i + 1]
  BY <1>1, <1>2, AdvanceMoves
<1>4. CASE loc'[p].pc = "done"
  <2>1. /\ loc'[p].pc \notin Deleting \cup Flagging \cup Selecting \cup Copying \cup Placing
        /\ loc'[p].pc # "freeheader" /\ loc'[p].pc # "header"
    BY <1>4, Kinds
  <2>2. Fits(loc'[p]) /\ \A n, x : Unknown(loc'[p], n, x)
    BY <2>1 DEF Fits, Unknown
  <2>3. QED
    BY <1>3, <2>1, <2>2
<1>5. CASE loc'[p].pc # "done"
  <2>1. loc'[p].todo \in Seq(Nat)
    BY <1>3 DEF Moves, Memory
  <2>2. ASSUME NEW i \in DOMAIN loc'[p].todo
        PROVE  i + 1 \in DOMAIN loc[p].todo /\ loc'[p].todo[i] = loc[p].todo[i + 1]
    <3>0. Len(loc'[p].todo) = Len(loc[p].todo) - 1 /\ i \in 1..Len(loc'[p].todo)
      BY <1>3, <1>5, <2>1
    <3>1. i \in 1..(Len(loc[p].todo) - 1)
      BY <3>0
    <3>2. i + 1 \in 1..Len(loc[p].todo)
      BY <1>2, <3>1
    <3>3. loc'[p].todo[i] = loc[p].todo[i + 1]
      BY <1>3, <1>5, <3>1
    <3>4. QED
      BY <1>2, <3>2, <3>3
  <2>3. loc'[p].pc \in Deleting <=> loc[p].pc \in Deleting
    BY <1>1, <1>3, <1>5, Kinds DEF Fits, Deleting, Flagging
  <2>4. loc'[p].pc \in {"delete", "flags"}
    BY <1>3, <1>5
  <2>5. Fits(loc'[p])
    <3>1. loc'[p].pc \notin Selecting \cup Copying \cup Placing /\ loc'[p].pc # "freeheader"
      BY <2>4 DEF Selecting, Copying, Placing
    <3>2. loc'[p].pc \in Deleting => 
              loc'[p].rq.op = "delete" /\ \A i \in DOMAIN loc'[p].todo : loc'[p].todo[i] \in DOMAIN vidx
      BY <1>1, <1>3, <1>5, <2>2, <2>3 DEF Fits
    <3>3. loc'[p].pc \in Flagging => loc'[p].rq.op \in ReadModifyWrite
      BY <1>1, <1>3, <1>5, <2>3, Kinds DEF Fits
    <3>4. QED
      BY <1>3, <1>5, <3>1, <3>2, <3>3 DEF Fits
  <2>6. ASSUME NEW q \in Procs, loc[q].pc \in Placing
        PROVE  Unknown(loc'[p], loc[q].msg.vi, vidx[loc[q].msg.vi])
    <3>1. Unknown(loc[p], loc[q].msg.vi, vidx[loc[q].msg.vi])
      BY <2>6 DEF PlacesInv, NumbersFresh
    <3>2. loc'[p].pc \notin Copying
      BY <2>4 DEF Copying
    <3>3. QED
      BY <2>2, <2>3, <3>1, <3>2 DEF Unknown
  <2>7. loc'[p].pc # "freeheader" /\ loc'[p].pc # "header" /\ loc'[p].pc \notin Placing
    BY <2>4 DEF Placing
  <2>8. QED
    BY <1>3, <2>4, <2>5, <2>6, <2>7 DEF Copying
<1>6. QED
  BY <1>4, <1>5

LEMMA AdvanceKeeps ==
    ASSUME PlacesInv, NEW p \in Procs, loc[p].pc \in Deleting \cup Flagging,
           NEW code, code \in 0..2, Advance(p, code), UNCHANGED alone,
           UNCHANGED <<hdr, hfree, vidx, order>>,
           bfree' \in Seq(Block), bodyEnd' \in Nat, threads' \in Nat
    PROVE  PlacesInv'
  BY AdvanceFits, PlacesStill

-----------------------------------------------------------------------------
(* Steps that look at the files only. *)

LEMMA BeginStep ==
    ASSUME PlacesInv, NEW p \in Procs, Begin(p)
    PROVE  PlacesInv'
<1> DEFINE rq == loc[p].rq
           pc == CASE rq.op = "post" -> IF rq.vi = 0 THEN "body" ELSE "parent"
                   [] rq.op = "edit" -> "translate"
                   [] rq.op \in Single -> "flags"
                   [] OTHER -> "select"
           todo == IF rq.op \in Single THEN <<rq.vi>> ELSE <<>>
<1>1. TypeOK
  BY DEF PlacesInv
<1>2. loc \in [Procs -> Memory] /\ rq \in Request /\ rq.vi \in Nat
  BY <1>1, MemoryFacts DEF Request
<1>3. todo \in Seq(Nat) /\ (rq.op \in Single => Len(todo) > 0)
  BY <1>2
<1>4. "post" \notin Single /\ "edit" \notin Single
  BY DEF Single, Reading
<1>5. /\ pc \in {"body", "parent", "translate", "flags", "select"}
      /\ (pc = "flags" <=> rq.op \in Single)
      /\ (pc = "select" => rq.op \notin {"post", "edit"})
  BY <1>4
<1>6. loc' = [loc EXCEPT ![p].pc = pc, ![p].todo = todo]
  BY DEF Begin
<1>7. UNCHANGED <<held, alone>> /\ UNCHANGED store
  BY DEF Begin
<1> HIDE DEF pc, todo
<1>8. loc'[p] = [loc[p] EXCEPT !.pc = pc, !.todo = todo]
  BY <1>2, <1>6
<1>9. [loc[p] EXCEPT !.pc = pc, !.todo = todo] \in Memory
  BY ZenonT(40), <1>2, <1>3, <1>5 DEF Memory, Pc
<1>10. loc' \in [Procs -> Memory] /\ \A q \in Procs \ {p} : loc'[q] = loc[q]
  BY <1>2, <1>6, <1>8, <1>9
<1>11. loc'[p].pc = pc /\ loc'[p].todo = todo /\ loc'[p].rq = rq
  BY <1>2, <1>8 DEF Memory
<1>12. Moves(p)
  BY <1>1, <1>7, <1>10, MemoryFacts DEF Moves
<1>13. pc \notin Deleting \cup Copying \cup Placing /\ pc # "freeheader" /\ pc # "header"
  BY <1>5 DEF Deleting, Copying, Placing
<1>14. Fits(loc'[p])
  <2>1. pc \in Flagging => pc = "flags"
    BY <1>5 DEF Flagging
  <2>2. pc \in Selecting => pc = "select"
    BY <1>5 DEF Selecting
  <2>3. pc = "select" => rq.op \in {"delete"} \cup ReadModifyWrite
    <3>1. rq.op \in Op
      BY <1>2 DEF Request
    <3>2. QED
      BY <1>5, <3>1 DEF Op
  <2>4. QED
    BY <1>3, <1>5, <1>11, <1>13, <2>1, <2>2, <2>3, Kinds DEF Fits
<1>15. \A n, x : Unknown(loc'[p], n, x)
  BY <1>11, <1>13 DEF Unknown
<1>16. QED
  BY <1>1, <1>7, <1>11, <1>12, <1>13, <1>14, <1>15, FilesSame, PlacesStill

LEMMA TranslateFacts ==
    ASSUME TypeOK, NEW n
    PROVE  /\ Translate(n) \in Nat
           /\ Translate(n) # Gone => n \in DOMAIN vidx /\ Translate(n) = vidx[n]
<1>1. vidx \in Seq(Nat)
  BY DEF TypeOK
<1>2. CASE n \in DOMAIN vidx
  BY <1>1, <1>2 DEF Translate
<1>3. CASE n \notin DOMAIN vidx
  BY <1>3 DEF Translate, Gone
<1>4. QED
  BY <1>2, <1>3

\* Moves(p) of a step that takes and drops no lock.
LEMMA HeldMoves ==
    ASSUME TypeOK, NEW p \in Procs, UNCHANGED <<held, alone>>,
           loc' \in [Procs -> Memory], \A q \in Procs \ {p} : loc'[q] = loc[q]
    PROVE  Moves(p)
  BY MemoryFacts DEF Moves

\* The numbers that a request has met are the same, or it is no longer to
\* delete; if it is to write a header back, it was before or the header is
\* the one at its place.
LEMMA StillUnknown ==
    ASSUME PlacesInv, NEW p \in Procs, 
           loc'[p].pc \in Deleting => 
              loc[p].pc \in Deleting /\ loc'[p].todo = loc[p].todo,
           loc'[p].pc \in Copying =>
              /\ loc'[p].at \in DOMAIN hdr /\ loc'[p].msg.vi = hdr[loc'[p].at].vi
    PROVE  \A q \in Procs : loc[q].pc \in Placing =>
              Unknown(loc'[p], loc[q].msg.vi, vidx[loc[q].msg.vi])
<1> SUFFICES ASSUME NEW q \in Procs, loc[q].pc \in Placing
             PROVE  Unknown(loc'[p], loc[q].msg.vi, vidx[loc[q].msg.vi])
  OBVIOUS
<1> DEFINE n == loc[q].msg.vi
<1>1. /\ \A x \in DOMAIN hdr : hdr[x].vi = n => x = vidx[n]
      /\ Unknown(loc[p], n, vidx[n])
  BY DEF PlacesInv, NumbersFresh
<1> HIDE DEF n
<1>2. Unknown(loc'[p], n, vidx[n])
  BY <1>1 DEF Unknown
<1>3. QED
  BY <1>2 DEF n

LEMMA FindParentStep ==
    ASSUME PlacesInv, NEW p \in Procs, FindParent(p), UNCHANGED alone
    PROVE  PlacesInv'
<1>1. TypeOK /\ UNCHANGED store
  BY DEF PlacesInv, FindParent
<1> DEFINE at == Translate(loc[p].rq.vi)
<1>2. CASE at = Gone
  BY <1>1, <1>2, FilesSame, ExitKeeps DEF FindParent
<1>3. CASE at # Gone
  <2>1. loc' = [loc EXCEPT ![p].at = at, ![p].pc = "inherit"] /\ UNCHANGED held
    BY <1>3 DEF FindParent
  <2>2. loc \in [Procs -> Memory] /\ at \in Nat /\ "inherit" \in Pc
    BY <1>1, MemoryFacts, TranslateFacts DEF Pc
  <2> HIDE DEF at
  <2>3. /\ loc' \in [Procs -> Memory] /\ \A q \in Procs \ {p} : loc'[q] = loc[q]
        /\ loc'[p].pc = "inherit"
    <3>1. loc'[p] = [loc[p] EXCEPT !.at = at, !.pc = "inherit"]
      BY <2>1, <2>2
    <3>2. [loc[p] EXCEPT !.at = at, !.pc = "inherit"] \in Memory
      BY <2>2 DEF Memory
    <3>3. QED
      BY <2>1, <2>2, <3>1, <3>2 DEF Memory
  <2>4. Moves(p)
    BY <1>1, <2>1, <2>3, HeldMoves
  <2>5. loc'[p].pc \notin Deleting \cup Flagging \cup Selecting \cup Copying \cup Placing
    BY <2>3 DEF Deleting, Flagging, Selecting, Copying, Placing
  <2>6. QED
    BY <1>1, <2>4, <2>5, FilesSame, PlacesIdle
<1>4. QED
  BY <1>2, <1>3

LEMMA FindRootStep ==
    ASSUME PlacesInv, NEW p \in Procs, FindRoot(p), UNCHANGED alone
    PROVE  PlacesInv'
<1>1. TypeOK /\ UNCHANGED store /\ Fits(loc[p]) /\ loc[p].pc = "select"
  BY DEF PlacesInv, FindRoot, At
<1> DEFINE at == Translate(loc[p].rq.vi)
<1>2. CASE at = Gone
  BY <1>1, <1>2, FilesSame, ExitKeeps DEF FindRoot
<1>3. CASE at # Gone
  <2>1. loc' = [loc EXCEPT ![p].at = at, ![p].pc = "walk"] /\ UNCHANGED held
    BY <1>3 DEF FindRoot
  <2>2. loc \in [Procs -> Memory] /\ at \in Nat /\ "walk" \in Pc
    BY <1>1, MemoryFacts, TranslateFacts DEF Pc
  <2> HIDE DEF at
  <2>3. /\ loc' \in [Procs -> Memory] /\ \A q \in Procs \ {p} : loc'[q] = loc[q]
        /\ loc'[p].pc = "walk" /\ loc'[p].rq = loc[p].rq
    <3>1. loc'[p] = [loc[p] EXCEPT !.at = at, !.pc = "walk"]
      BY <2>1, <2>2
    <3>2. [loc[p] EXCEPT !.at = at, !.pc = "walk"] \in Memory
      BY <2>2 DEF Memory
    <3>3. QED
      BY <2>1, <2>2, <3>1, <3>2 DEF Memory
  <2>4. Moves(p)
    BY <1>1, <2>1, <2>3, HeldMoves
  <2>5. /\ loc'[p].pc \notin Deleting \cup Flagging \cup Copying \cup Placing
        /\ loc'[p].pc # "freeheader" /\ loc'[p].pc # "header"
    BY <2>3 DEF Deleting, Flagging, Copying, Placing
  <2>6. Fits(loc'[p])
    BY <1>1, <2>3, <2>5 DEF Fits, Selecting
  <2>7. QED
    BY <1>1, <2>4, <2>5, <2>6, FilesSame, PlacesStill, StillUnknown
<1>4. QED
  BY <1>2, <1>3

LEMMA FindDoomedStep ==
    ASSUME PlacesInv, NEW p \in Procs, FindDoomed(p), UNCHANGED alone
    PROVE  PlacesInv'
<1>1. TypeOK /\ UNCHANGED store /\ Fits(loc[p]) /\ loc[p].pc = "delete"
  BY DEF PlacesInv, FindDoomed, At
<1>2. loc[p].pc \in Deleting
  BY <1>1 DEF Deleting
<1> DEFINE at == Translate(Head(loc[p].todo))
<1>3. CASE at = Gone
  BY <1>1, <1>2, <1>3, FilesSame, AdvanceKeeps DEF FindDoomed
<1>4. CASE at # Gone
  <2>1. loc' = [loc EXCEPT ![p].at = at, ![p].pc = "unindex"] /\ UNCHANGED held
    BY <1>4 DEF FindDoomed
  <2>2. loc \in [Procs -> Memory] /\ at \in Nat /\ "unindex" \in Pc
    BY <1>1, MemoryFacts, TranslateFacts DEF Pc
  <2> HIDE DEF at
  <2>3. /\ loc' \in [Procs -> Memory] /\ \A q \in Procs \ {p} : loc'[q] = loc[q]
        /\ loc'[p].pc = "unindex" /\ loc'[p].rq = loc[p].rq /\ loc'[p].todo = loc[p].todo
    <3>1. loc'[p] = [loc[p] EXCEPT !.at = at, !.pc = "unindex"]
      BY <2>1, <2>2
    <3>2. [loc[p] EXCEPT !.at = at, !.pc = "unindex"] \in Memory
      BY <2>2 DEF Memory
    <3>3. QED
      BY <2>1, <2>2, <3>1, <3>2 DEF Memory
  <2>4. Moves(p)
    BY <1>1, <2>1, <2>3, HeldMoves
  <2>5. /\ loc'[p].pc \in Deleting
        /\ loc'[p].pc # "freeheader" /\ loc'[p].pc # "header"
    BY <2>3 DEF Deleting
  <2>6. Fits(loc'[p])
    BY <1>1, <1>2, <2>3, <2>5, Kinds DEF Fits
  <2>7. QED
    BY <1>1, <1>2, <2>3, <2>4, <2>5, <2>6, Kinds, FilesSame, PlacesStill, StillUnknown
<1>5. QED
  BY <1>3, <1>4

LEMMA FindEditedStep ==
    ASSUME PlacesInv, NEW p \in Procs, FindEdited(p), UNCHANGED alone
    PROVE  PlacesInv'
<1>1. TypeOK /\ UNCHANGED store
  BY DEF PlacesInv, FindEdited
<1> DEFINE at == Translate(loc[p].rq.vi)
<1>2. CASE at = Gone
  BY <1>1, <1>2, FilesSame, ExitKeeps DEF FindEdited
<1>3. CASE at # Gone
  <2>1. loc' = [loc EXCEPT ![p].at = at, ![p].pc = "check"] /\ UNCHANGED held
    BY <1>3 DEF FindEdited
  <2>2. loc \in [Procs -> Memory] /\ at \in Nat /\ "check" \in Pc
    BY <1>1, MemoryFacts, TranslateFacts DEF Pc
  <2> HIDE DEF at
  <2>3. /\ loc' \in [Procs -> Memory] /\ \A q \in Procs \ {p} : loc'[q] = loc[q]
        /\ loc'[p].pc = "check"
    <3>1. loc'[p] = [loc[p] EXCEPT !.at = at, !.pc = "check"]
      BY <2>1, <2>2
    <3>2. [loc[p] EXCEPT !.at = at, !.pc = "check"] \in Memory
      BY <2>2 DEF Memory
    <3>3. QED
      BY <2>1, <2>2, <3>1, <3>2 DEF Memory
  <2>4. Moves(p)
    BY <1>1, <2>1, <2>3, HeldMoves
  <2>5. loc'[p].pc \notin Deleting \cup Flagging \cup Selecting \cup Copying \cup Placing
    BY <2>3 DEF Deleting, Flagging, Selecting, Copying, Placing
  <2>6. QED
    BY <1>1, <2>4, <2>5, FilesSame, PlacesIdle
<1>4. QED
  BY <1>2, <1>3

LEMMA HeaderFacts ==
    ASSUME NEW h \in Header
    PROVE  /\ h.level \in Nat /\ h.thread \in Nat /\ h.flags \in SUBSET Flag
           /\ h.vi \in Nat /\ h.body \in Nat /\ h.size \in {0, 1} /\ h.size \in Nat
  BY DEF Header

LEMMA ReadParentStep ==
    ASSUME PlacesInv, NEW p \in Procs, ReadParent(p), UNCHANGED alone
    PROVE  PlacesInv'
<1>1. TypeOK /\ UNCHANGED store
  BY DEF PlacesInv, ReadParent
<1> DEFINE at == loc[p].at
           h == hdr[at]
<1>2. CASE at \notin DOMAIN hdr \/ Barred(h, loc[p].rq)
  BY <1>1, <1>2, FilesSame, ExitKeeps DEF ReadParent
<1>3. CASE ~(at \notin DOMAIN hdr \/ Barred(h, loc[p].rq))
  <2> DEFINE level == h.level + 1
             thread == HeadOf(h, at)
             flags == h.flags
  <2>1. /\ loc' = [loc EXCEPT ![p].msg.level = level, ![p].msg.thread = thread,
                              ![p].msg.flags = flags, ![p].pc = "body"]
        /\ UNCHANGED held
    BY <1>3 DEF ReadParent
  <2>2. loc \in [Procs -> Memory] /\ loc[p].msg \in Header /\ at \in Nat
    BY <1>1, MemoryFacts
  <2>3. hdr \in Seq(Header) /\ at \in DOMAIN hdr
    BY <1>1, <1>3 DEF TypeOK
  <2>4. h \in Header
    BY <2>3
  <2>5. level \in Nat /\ thread \in Nat /\ flags \in SUBSET Flag
    BY <2>2, <2>4, HeaderFacts DEF HeadOf
  <2> HIDE DEF level, thread, flags, at, h
  <2> DEFINE msg == [loc[p].msg EXCEPT !.level = level, !.thread = thread, !.flags = flags]
  <2>6. msg \in Header
    BY <2>2, <2>5 DEF Header
  <2>7. loc'[p] = [loc[p] EXCEPT !.msg = msg, !.pc = "body"]
    BY <2>1, <2>2 DEF Memory, Header
  <2> HIDE DEF msg
  <2>8. [loc[p] EXCEPT !.msg = msg, !.pc = "body"] \in Memory
    BY ZenonT(40), <2>2, <2>6 DEF Memory, Pc
  <2>9. loc' \in [Procs -> Memory] /\ \A q \in Procs \ {p} : loc'[q] = loc[q]
    BY <2>1, <2>2, <2>7, <2>8
  <2>10. loc'[p].pc = "body"
    BY <2>2, <2>7 DEF Memory
  <2>11. Moves(p)
    BY <1>1, <2>1, <2>9, HeldMoves
  <2>12. loc'[p].pc \notin Deleting \cup Flagging \cup Selecting \cup Copying \cup Placing
    BY <2>10 DEF Deleting, Flagging, Selecting, Copying, Placing
  <2>13. QED
    BY <1>1, <2>11, <2>12, FilesSame, PlacesIdle
<1>4. QED
  BY <1>2, <1>3

\* The numbers met are those of shown messages: none is being given out.
LEMMA SelectThreadStep ==
    ASSUME PlacesInv, NEW p \in Procs, SelectThread(p), UNCHANGED alone
    PROVE  PlacesInv'
<1> DEFINE at == loc[p].at
           level == [m \in DOMAIN hdr |-> hdr[m].level]
           thread == IF Indexed(at) /\ hdr[at].vi = loc[p].rq.vi
                     THEN Walk(order, level, at) ELSE <<>>
           todo == [i \in DOMAIN thread |-> hdr[thread[i]].vi]
           pc == IF loc[p].rq.op = "delete" THEN "delete" ELSE "flags"
<1>1. TypeOK /\ UNCHANGED store /\ Fits(loc[p]) /\ loc[p].pc = "walk"
  BY DEF PlacesInv, SelectThread, At
<1>2. CASE thread = <<>>
  BY <1>1, <1>2, FilesSame, ExitKeeps DEF SelectThread
<1>3. CASE thread # <<>>
  <2>1. loc' = [loc EXCEPT ![p].todo = todo, ![p].pc = pc] /\ UNCHANGED held
    BY <1>3 DEF SelectThread
  <2>2. at \in ToSet(order) /\ thread = Walk(order, level, at)
    BY <1>3 DEF Indexed
  <2>3. order \in Seq(1..Len(hdr)) /\ IsInjective(order) /\ hdr \in Seq(Header)
    BY <1>1 DEF PlacesInv, PlacesOwned, PlacesNotShared, TypeOK
  <2> HIDE DEF at, level
  <2>4. /\ Walk(order, level, at) \in Seq(1..Len(hdr))
        /\ Len(Walk(order, level, at)) > 0
        /\ \A i \in 1..Len(Walk(order, level, at)) : Walk(order, level, at)[i] \in ToSet(order)
    BY <2>2, <2>3, WalkFacts
  <2> HIDE DEF thread
  <2>5. /\ thread \in Seq(1..Len(hdr)) /\ Len(thread) > 0 /\ Len(thread) \in Nat
        /\ \A i \in 1..Len(thread) : thread[i] \in Shown
    <3>1. Len(Walk(order, level, at)) \in Nat
      BY <2>4
    <3>2. QED
      BY <2>2, <2>4, <3>1, Zenon DEF Shown
  <2>6. \A i \in 1..Len(thread) : thread[i] \in DOMAIN hdr /\ hdr[thread[i]] \in Header
    BY <2>3, <2>5
  <2>7. \A i \in 1..Len(thread) : hdr[thread[i]].vi \in Nat
    BY <2>6, HeaderFacts
  <2>8. DOMAIN thread = 1..Len(thread)
    BY <2>5
  <2>9. /\ todo \in Seq(Nat) /\ Len(todo) = Len(thread) /\ DOMAIN todo = 1..Len(thread)
        /\ \A i \in 1..Len(thread) : todo[i] = hdr[thread[i]].vi
    BY <2>5, <2>7, <2>8
  <2>10. Len(todo) > 0
    BY <2>5, <2>9
  <2>11. pc \in Pc /\ (pc = "delete" => loc[p].rq.op = "delete") /\ pc \in {"delete", "flags"}
         /\ (pc # "delete" => loc[p].rq.op # "delete")
    BY DEF Pc
  <2> HIDE DEF todo, pc
  <2>12. loc \in [Procs -> Memory] /\ loc[p].rq \in Request
    BY <1>1, MemoryFacts
  <2>13. loc'[p] = [loc[p] EXCEPT !.todo = todo, !.pc = pc]
    BY <2>1, <2>12
  <2>14. [loc[p] EXCEPT !.todo = todo, !.pc = pc] \in Memory
    BY <2>9, <2>11, <2>12 DEF Memory
  <2>15. loc' \in [Procs -> Memory] /\ \A q \in Procs \ {p} : loc'[q] = loc[q]
    BY <2>1, <2>12, <2>13, <2>14
  <2>16. loc'[p].pc = pc /\ loc'[p].todo = todo /\ loc'[p].rq = loc[p].rq
    BY <2>12, <2>13 DEF Memory
  <2>17. Moves(p)
    BY <1>1, <2>1, <2>15, HeldMoves
  <2>18. \A i \in DOMAIN todo : todo[i] \in DOMAIN vidx
    BY <2>6, <2>9 DEF PlacesInv, NumbersKnown
  <2>19. pc \notin Selecting \cup Copying \cup Placing /\ pc # "freeheader" /\ pc # "header"
    BY <2>11 DEF Selecting, Copying, Placing
  <2>20. Fits(loc'[p])
    <3>1. pc \in Deleting => pc = "delete"
      BY <2>11 DEF Deleting
    <3>2. pc \in Flagging => pc = "flags"
      BY <2>11 DEF Flagging
    <3>3. loc[p].rq.op # "delete" => loc[p].rq.op \in ReadModifyWrite
      BY <1>1 DEF Fits, Selecting
    <3>4. QED
      BY <2>10, <2>11, <2>16, <2>18, <2>19, <3>1, <3>2, <3>3 DEF Fits
  <2>21. ASSUME NEW q \in Procs, loc[q].pc \in Placing
         PROVE  Unknown(loc'[p], loc[q].msg.vi, vidx[loc[q].msg.vi])
    <3> DEFINE n == loc[q].msg.vi
    <3>1. \A x \in DOMAIN hdr : hdr[x].vi = n => x = vidx[n]
      BY <2>21 DEF PlacesInv, NumbersFresh
    <3>2. vidx[n] \notin Shown
      <4>1. vidx[n] \in Nat
        BY <2>21 DEF PlacesInv, Fits
      <4>2. Holds(q, vidx[n])
        BY <2>21 DEF Holds
      <4>3. QED
        BY <4>1, <4>2 DEF PlacesInv, PlacesOwned
    <3> HIDE DEF n
    <3>3. \A i \in DOMAIN todo : todo[i] # n
      BY <2>5, <2>6, <2>9, <3>1, <3>2
    <3>4. Unknown(loc'[p], n, vidx[n])
      BY <2>16, <2>19, <3>3 DEF Unknown
    <3>5. QED
      BY <3>4 DEF n
  <2>22. QED
    BY <1>1, <2>16, <2>17, <2>19, <2>20, <2>21, FilesSame, PlacesStill
<1>4. QED
  BY <1>2, <1>3

LEMMA ReadEditedStep ==
    ASSUME PlacesInv, NEW p \in Procs, ReadEdited(p), UNCHANGED alone
    PROVE  PlacesInv'
<1>1. TypeOK /\ UNCHANGED store
  BY DEF PlacesInv, ReadEdited
<1> DEFINE at == loc[p].at
           h == hdr[at]
<1>2. CASE at \notin DOMAIN hdr \/ Barred(h, loc[p].rq)
  BY <1>1, <1>2, FilesSame, ExitKeeps DEF ReadEdited
<1>3. CASE ~(at \notin DOMAIN hdr \/ Barred(h, loc[p].rq))
  <2>1. loc' = [loc EXCEPT ![p].msg = h, ![p].pc = "resize"] /\ UNCHANGED held
    BY <1>3 DEF ReadEdited
  <2>2. loc \in [Procs -> Memory] /\ at \in DOMAIN hdr /\ h \in Header
    BY <1>1, <1>3, MemoryFacts DEF TypeOK
  <2>3. /\ loc' \in [Procs -> Memory] /\ \A q \in Procs \ {p} : loc'[q] = loc[q]
        /\ loc'[p].pc = "resize" /\ loc'[p].msg = h /\ loc'[p].at = at
    <3> HIDE DEF h
    <3>1. loc'[p] = [loc[p] EXCEPT !.msg = h, !.pc = "resize"]
      BY <2>1, <2>2
    <3>2. [loc[p] EXCEPT !.msg = h, !.pc = "resize"] \in Memory
      BY ZenonT(40), <2>2 DEF Memory, Pc
    <3>3. QED
      BY <2>1, <2>2, <3>1, <3>2 DEF Memory
  <2>4. Moves(p)
    BY <1>1, <2>1, <2>3, HeldMoves
  <2>5. /\ loc'[p].pc \notin Deleting \cup Flagging \cup Selecting \cup Placing
        /\ loc'[p].pc # "freeheader" /\ loc'[p].pc # "header"
    BY <2>3 DEF Deleting, Flagging, Selecting, Placing
  <2>6. h.vi \in DOMAIN vidx
    BY <2>2 DEF PlacesInv, NumbersKnown
  <2>7. Fits(loc'[p])
    BY <2>2, <2>3, <2>5, <2>6 DEF Fits
  <2>8. QED
    BY <1>1, <2>2, <2>3, <2>4, <2>5, <2>7, FilesSame, PlacesStill, StillUnknown
<1>4. QED
  BY <1>2, <1>3

LEMMA FindFlaggedStep ==
    ASSUME PlacesInv, NEW p \in Procs, FindFlagged(p), UNCHANGED alone
    PROVE  PlacesInv'
<1>1. TypeOK /\ UNCHANGED store /\ Fits(loc[p]) /\ loc[p].pc = "flags"
  BY DEF PlacesInv, FindFlagged, At
<1>2. loc[p].pc \in Flagging
  BY <1>1 DEF Flagging
<1> DEFINE at == Translate(Head(loc[p].todo))
<1>3. CASE Exit(p)
  BY <1>1, <1>3, FilesSame, ExitKeeps
<1>4. CASE Advance(p, 0)
  BY <1>1, <1>2, <1>4, FilesSame, AdvanceKeeps
<1>5. CASE loc' = [loc EXCEPT ![p].at = at, ![p].pc = "update"] /\ UNCHANGED held
  <2>2. loc \in [Procs -> Memory] /\ at \in Nat /\ "update" \in Pc
    BY <1>1, MemoryFacts, TranslateFacts DEF Pc
  <2> HIDE DEF at
  <2>3. /\ loc' \in [Procs -> Memory] /\ \A q \in Procs \ {p} : loc'[q] = loc[q]
        /\ loc'[p].pc = "update" /\ loc'[p].rq = loc[p].rq /\ loc'[p].todo = loc[p].todo
    <3>1. loc'[p] = [loc[p] EXCEPT !.at = at, !.pc = "update"]
      BY <1>5, <2>2
    <3>2. [loc[p] EXCEPT !.at = at, !.pc = "update"] \in Memory
      BY <2>2 DEF Memory
    <3>3. QED
      BY <1>5, <2>2, <3>1, <3>2 DEF Memory
  <2>4. Moves(p)
    BY <1>1, <1>5, <2>3, HeldMoves
  <2>5. /\ loc'[p].pc \notin Deleting \cup Selecting \cup Copying \cup Placing
        /\ loc'[p].pc # "freeheader" /\ loc'[p].pc # "header"
    BY <2>3 DEF Deleting, Selecting, Copying, Placing
  <2>6. Fits(loc'[p])
    BY <1>1, <1>2, <2>3, <2>5 DEF Fits
  <2>7. QED
    BY <1>1, <2>4, <2>5, <2>6, FilesSame, PlacesStill, StillUnknown
<1>6. QED
  BY <1>3, <1>4, <1>5 DEF FindFlagged

LEMMA TakeFree ==
    ASSUME TypeOK, NEW p \in Procs, NEW lock \in {"fm", "fi"}, Free(lock), Take(p, lock)
    PROVE  /\ held' \in [{"fm", "fi"} -> Procs \cup {None}] /\ held'[lock] = p
           /\ \A q \in Procs \ {p} : \A l \in {"fm", "fi"} :
                 held'[l] = q <=> held[l] = q
<1>1. held \in [{"fm", "fi"} -> Procs \cup {None}] /\ None \notin Procs
  BY MsgStoreAssumption DEF TypeOK
<1>2. held[lock] = None /\ held' = [held EXCEPT ![lock] = p]
  BY DEF Free, Take
<1>3. QED
  BY <1>1, <1>2

LEMMA FlagsFacts ==
    ASSUME NEW flags \in SUBSET Flag, NEW op, NEW code
    PROVE  NewFlags(flags, op, code) \in SUBSET Flag /\ Rolled(flags) \in 0..2
  BY DEF NewFlags, Flag, Rolled

LEMMA ReadFlaggedStep ==
    ASSUME PlacesInv, NEW p \in Procs, ReadFlagged(p), UNCHANGED alone
    PROVE  PlacesInv'
<1> DEFINE op == loc[p].rq.op
           at == loc[p].at
           flags == NewFlags(hdr[at].flags, op, loc[p].code)
<1>1. TypeOK /\ UNCHANGED store /\ Fits(loc[p]) /\ loc[p].pc = "update"
  BY DEF PlacesInv, ReadFlagged, At
<1>2. loc[p].pc \in Flagging
  BY <1>1 DEF Flagging
<1>3. CASE at \notin DOMAIN hdr
  <2>1. Advance(p, 0) \/ Exit(p)
    BY <1>3 DEF ReadFlagged
  <2>2. QED
    BY <1>1, <1>2, <2>1, FilesSame, ExitKeeps, AdvanceKeeps
<1>4. CASE at \in DOMAIN hdr
  <2>1. hdr[at] \in Header /\ hdr[at].flags \in SUBSET Flag
    <3>1. hdr[at] \in Header
      BY <1>1, <1>4 DEF TypeOK
    <3>2. QED
      BY <3>1, HeaderFacts
  <2>2. flags \in SUBSET Flag /\ Rolled(flags) \in 0..2
    BY <2>1, FlagsFacts
  <2> DEFINE msg == [hdr[at] EXCEPT !.flags = flags]
  <2>3. msg \in Header /\ msg.vi = hdr[at].vi
    <3> HIDE DEF flags
    <3>1. QED
      BY <2>1, <2>2 DEF Header
  <2>4. CASE Advance(p, Rolled(flags))
    BY <1>1, <1>2, <2>2, <2>4, FilesSame, AdvanceKeeps
  <2>5. CASE /\ loc' = [loc EXCEPT ![p].msg = msg, ![p].pc = "store"]
             /\ IF Locking(op) THEN Take(p, "fm") ELSE UNCHANGED held
    <3>1. loc \in [Procs -> Memory]
      BY <1>1, MemoryFacts
    <3> HIDE DEF msg
    <3>2. /\ loc' \in [Procs -> Memory] /\ \A q \in Procs \ {p} : loc'[q] = loc[q]
          /\ loc'[p].pc = "store" /\ loc'[p].msg = msg /\ loc'[p].at = at
          /\ loc'[p].rq = loc[p].rq /\ loc'[p].todo = loc[p].todo
      <4>1. loc'[p] = [loc[p] EXCEPT !.msg = msg, !.pc = "store"]
        BY <2>5, <3>1
      <4>2. [loc[p] EXCEPT !.msg = msg, !.pc = "store"] \in Memory
        BY ZenonT(40), <2>3, <3>1 DEF Memory, Pc
      <4>3. QED
        BY <2>5, <3>1, <4>1, <4>2 DEF Memory
    <3>3. Moves(p)
      <4>1. CASE Locking(op)
        <5>1. Free("fm") /\ Take(p, "fm")
          BY <2>5, <4>1 DEF ReadFlagged
        <5>2. QED
          BY <1>1, <3>2, <5>1, TakeFree DEF Moves
      <4>2. CASE ~Locking(op)
        BY <1>1, <2>5, <3>2, <4>2, HeldMoves
      <4>3. QED
        BY <4>1, <4>2
    <3>4. /\ loc'[p].pc \notin Deleting \cup Selecting \cup Placing
          /\ loc'[p].pc # "freeheader" /\ loc'[p].pc # "header"
      BY <3>2 DEF Deleting, Selecting, Placing
    <3>5. msg.vi \in DOMAIN vidx
      BY <1>4, <2>3 DEF PlacesInv, NumbersKnown
    <3>6. Fits(loc'[p])
      BY <1>1, <1>2, <1>4, <3>2, <3>4, <3>5 DEF Fits
    <3>7. QED
      BY <1>1, <1>4, <2>3, <3>2, <3>3, <3>4, <3>6, FilesSame, PlacesStill, StillUnknown
  <2>6. QED
    BY <1>4, <2>4, <2>5 DEF ReadFlagged
<1>5. QED
  BY <1>3, <1>4

LEMMA DieStep ==
    ASSUME PlacesInv, NEW p \in Procs, Die(p)
    PROVE  PlacesInv'
<1>1. TypeOK /\ UNCHANGED store /\ UNCHANGED alone
  BY DEF PlacesInv, Die
<1>2. Ended("dead") \in Memory /\ Ended("dead").pc = "dead"
  BY EndedFacts DEF Pc
<1>3. loc \in [Procs -> Memory] /\ loc' = [loc EXCEPT ![p] = Ended("dead")]
  BY <1>1, MemoryFacts DEF Die
<1>4. /\ loc' \in [Procs -> Memory] /\ loc'[p] = Ended("dead")
      /\ \A q \in Procs \ {p} : loc'[q] = loc[q]
  BY <1>2, <1>3
<1>5. held' = Released(p)
  BY DEF Die
<1>6. Moves(p)
  BY <1>1, <1>4, <1>5, ReleasedFacts DEF Moves
<1>7. QED
  BY <1>1, <1>2, <1>4, <1>6, Kinds, FilesSame, PlacesIdle

-----------------------------------------------------------------------------
(* Steps that change bodies and the number of threads only. *)

LEMMA TakeTypes ==
    ASSUME NEW free \in Seq(Block), NEW n \in Nat, NEW w \in {0, 1},
           NEW i \in DOMAIN free, NEW after, TakeFrom(free, after, i, n, w)
    PROVE  after \in Seq(Block) /\ free[i].index \in Nat
<1>1. free[i].index \in Nat /\ free[i].size \in Nat
  BY UnitsFacts
<1>2. Remainder(free[i], n, w) \in Block
  BY SMTT(40), <1>1 DEF TakeFrom, FirstFit, Remainder, Kept, Block
<1>3. QED
  BY <1>1, <1>2 DEF TakeFrom

LEMMA MarkTypes ==
    ASSUME NEW free \in Seq(Block), NEW b \in Block, NEW after,
           MarkFreeSpace(free, after, b, 0)
    PROVE  after \in Seq(Block)
<1>1. [index |-> b.index, size |-> Kept(b.size, 0)] \in Block
  BY DEF Kept, Block
<1>2. QED
  BY <1>1 DEF MarkFreeSpace

LEMMA BodySpaceTypes ==
    ASSUME TypeOK, NEW at \in Nat, NEW n \in {0, 1}, BodySpace(at, n)
    PROVE  bfree' \in Seq(Block) /\ bodyEnd' \in Nat
<1>1. bfree \in Seq(Block) /\ bodyEnd \in Nat /\ n \in Nat
  BY DEF TypeOK
<1>2. CASE \E i \in DOMAIN bfree : TakeFrom(bfree, bfree', i, n, 0) /\ UNCHANGED bodyEnd
  BY <1>1, <1>2, TakeTypes
<1>3. CASE bodyEnd' = at + n /\ UNCHANGED bfree
  BY <1>1, <1>3
<1>4. QED
  BY <1>2, <1>3 DEF BodySpace

LEMMA FreeBodyTypes ==
    ASSUME TypeOK, NEW at \in Nat, NEW n \in Nat, FreeBody(at, n)
    PROVE  bfree' \in Seq(Block)
<1>1. bfree \in Seq(Block) /\ [index |-> at, size |-> n] \in Block
  BY DEF TypeOK, Block
<1>2. QED
  BY <1>1, MarkTypes DEF FreeBody

LEMMA WriteBodyStep ==
    ASSUME PlacesInv, NEW p \in Procs, WriteBody(p), UNCHANGED alone
    PROVE  PlacesInv'
<1>1. /\ TypeOK
      /\ UNCHANGED <<hdr, hfree, vidx, threads, order, held>>
  BY DEF PlacesInv, WriteBody
<1>2. /\ loc \in [Procs -> Memory] /\ loc[p].msg \in Header /\ loc[p].rq.size \in {0, 1}
      /\ bodyEnd \in Nat
  BY <1>1, MemoryFacts DEF Request, TypeOK
<1>3. PICK at \in 0..(bodyEnd + Pad) :
         /\ BodySpace(at, loc[p].rq.size)
         /\ loc' = [loc EXCEPT ![p].msg.body = at, ![p].msg.size = loc[p].rq.size,
                               ![p].pc = "number"]
  BY DEF WriteBody
<1>4. at \in Nat
  BY <1>2 DEF Pad
<1> DEFINE msg == [loc[p].msg EXCEPT !.body = at, !.size = loc[p].rq.size]
<1>5. msg \in Header
  BY <1>2, <1>4 DEF Header
<1>6. loc'[p] = [loc[p] EXCEPT !.msg = msg, !.pc = "number"]
  BY <1>2, <1>3 DEF Memory, Header
<1> HIDE DEF msg
<1>7. [loc[p] EXCEPT !.msg = msg, !.pc = "number"] \in Memory
  BY ZenonT(40), <1>2, <1>5 DEF Memory, Pc
<1>8. loc' \in [Procs -> Memory] /\ \A q \in Procs \ {p} : loc'[q] = loc[q]
  BY <1>2, <1>3, <1>6, <1>7
<1>9. loc'[p].pc = "number"
  BY <1>2, <1>6 DEF Memory
<1>10. Moves(p)
  BY <1>1, <1>8, HeldMoves
<1>11. bfree' \in Seq(Block) /\ bodyEnd' \in Nat /\ threads' \in Nat
  BY <1>1, <1>2, <1>3, <1>4, BodySpaceTypes DEF TypeOK
<1>12. loc'[p].pc \notin Deleting \cup Flagging \cup Selecting \cup Copying \cup Placing
  BY <1>9 DEF Deleting, Flagging, Selecting, Copying, Placing
<1>13. QED
  BY <1>1, <1>10, <1>11, <1>12, PlacesIdle

\* What is written back is still the header it was, but for body and size.
LEMMA StillCopying ==
    ASSUME PlacesInv, NEW p \in Procs, Moves(p),
           UNCHANGED <<hdr, hfree, vidx, order>>,
           bfree' \in Seq(Block), bodyEnd' \in Nat, threads' \in Nat,
           loc[p].pc \in Copying, loc'[p].pc \in {"realloc", "rewrite"},
           loc'[p].at = loc[p].at, loc'[p].msg.vi = loc[p].msg.vi
    PROVE  PlacesInv'
<1>1. /\ loc'[p].pc \notin Deleting \cup Flagging \cup Selecting \cup Placing
      /\ loc'[p].pc # "freeheader" /\ loc'[p].pc # "header"
  BY DEF Deleting, Flagging, Selecting, Placing
<1>2. Fits(loc[p])
  BY DEF PlacesInv
<1>3. Fits(loc'[p])
  BY <1>1, <1>2 DEF Fits
<1>4. ASSUME NEW q \in Procs, loc[q].pc \in Placing
      PROVE  Unknown(loc'[p], loc[q].msg.vi, vidx[loc[q].msg.vi])
  <2>1. Unknown(loc[p], loc[q].msg.vi, vidx[loc[q].msg.vi])
    BY <1>4 DEF PlacesInv, NumbersFresh
  <2>2. QED
    BY <1>1, <2>1 DEF Unknown
<1>5. QED
  BY <1>1, <1>3, <1>4, PlacesStill

LEMMA ResizeBodyStep ==
    ASSUME PlacesInv, NEW p \in Procs, ResizeBody(p), UNCHANGED alone
    PROVE  PlacesInv'
<1> DEFINE old == loc[p].msg
           size == loc[p].rq.size
<1>1. /\ TypeOK /\ loc[p].pc = "resize" /\ Free("fm") /\ Take(p, "fm")
      /\ UNCHANGED <<hdr, hfree, bodyEnd, vidx, threads, order>>
  BY DEF PlacesInv, ResizeBody, At
<1>2. /\ loc \in [Procs -> Memory] /\ old \in Header /\ size \in {0, 1}
      /\ old.size \in Nat /\ old.body \in Nat /\ size \in Nat
  BY <1>1, MemoryFacts, HeaderFacts DEF Request
<1>3. /\ bodyEnd' \in Nat /\ threads' \in Nat /\ loc[p].pc \in Copying
  BY <1>1 DEF TypeOK, Copying
<1>4. /\ held' \in [{"fm", "fi"} -> Procs \cup {None}]
      /\ \A q \in Procs \ {p} : \A l \in {"fm", "fi"} : held'[l] = q <=> held[l] = q
  BY <1>1, TakeFree
<1>5. ASSUME NEW pc \in {"realloc", "rewrite"}, Goto(p, pc), bfree' \in Seq(Block)
      PROVE  PlacesInv'
  <2>1. pc \in Pc
    BY DEF Pc
  <2>2. /\ loc' \in [Procs -> Memory] /\ loc'[p] = [loc[p] EXCEPT !.pc = pc]
        /\ \A q \in Procs \ {p} : loc'[q] = loc[q]
    BY <1>1, <1>5, <2>1, GotoMoves
  <2>3. loc'[p].pc = pc /\ loc'[p].at = loc[p].at /\ loc'[p].msg = old
    BY <1>2, <2>2 DEF Memory
  <2>4. Moves(p)
    BY <1>4, <2>2 DEF Moves
  <2>5. QED
    BY <1>1, <1>3, <1>5, <2>3, <2>4, StillCopying
<1>6. CASE size > old.size /\ FreeBody(old.body, old.size) /\ Goto(p, "realloc")
  <2>1. bfree' \in Seq(Block)
    BY <1>1, <1>2, <1>6, FreeBodyTypes
  <2>2. QED
    BY <1>5, <1>6, <2>1
<1>7. CASE size = old.size /\ UNCHANGED bfree /\ Goto(p, "rewrite")
  BY <1>1, <1>5, <1>7 DEF TypeOK
<1>8. CASE /\ size < old.size
           /\ FreeBody(old.body + size, old.size - size)
           /\ loc' = [loc EXCEPT ![p].msg.size = size, ![p].pc = "rewrite"]
  <2>1. old.body + size \in Nat /\ old.size - size \in Nat
    BY <1>2, <1>8
  <2>2. bfree' \in Seq(Block)
    BY <1>1, <1>8, <2>1, FreeBodyTypes
  <2> DEFINE msg == [old EXCEPT !.size = size]
  <2>3. msg \in Header /\ msg.vi = old.vi
    BY <1>2 DEF Header
  <2>4. loc'[p] = [loc[p] EXCEPT !.msg = msg, !.pc = "rewrite"]
    BY <1>2, <1>8 DEF Memory, Header
  <2> HIDE DEF msg
  <2>5. [loc[p] EXCEPT !.msg = msg, !.pc = "rewrite"] \in Memory
    BY ZenonT(40), <1>2, <2>3 DEF Memory, Pc
  <2>6. loc' \in [Procs -> Memory] /\ \A q \in Procs \ {p} : loc'[q] = loc[q]
    BY <1>2, <1>8, <2>4, <2>5
  <2>7. loc'[p].pc = "rewrite" /\ loc'[p].at = loc[p].at /\ loc'[p].msg = msg
    BY <1>2, <2>4 DEF Memory
  <2>8. Moves(p)
    BY <1>4, <2>6 DEF Moves
  <2>9. QED
    BY <1>1, <1>3, <2>2, <2>3, <2>7, <2>8, StillCopying
<1>9. QED
  BY <1>6, <1>7, <1>8 DEF ResizeBody

LEMMA MoveBodyStep ==
    ASSUME PlacesInv, NEW p \in Procs, MoveBody(p), UNCHANGED alone
    PROVE  PlacesInv'
<1>1. /\ TypeOK /\ loc[p].pc = "realloc"
      /\ UNCHANGED <<hdr, hfree, vidx, threads, order, held>>
  BY DEF PlacesInv, MoveBody, At
<1>2. /\ loc \in [Procs -> Memory] /\ loc[p].msg \in Header /\ loc[p].rq.size \in {0, 1}
      /\ bodyEnd \in Nat
  BY <1>1, MemoryFacts DEF Request, TypeOK
<1>3. PICK at \in 0..(bodyEnd + Pad) :
         /\ BodySpace(at, loc[p].rq.size)
         /\ loc' = [loc EXCEPT ![p].msg.body = at, ![p].msg.size = loc[p].rq.size,
                               ![p].pc = "rewrite"]
  BY DEF MoveBody
<1>4. at \in Nat
  BY <1>2 DEF Pad
<1> DEFINE msg == [loc[p].msg EXCEPT !.body = at, !.size = loc[p].rq.size]
<1>5. msg \in Header /\ msg.vi = loc[p].msg.vi
  BY <1>2, <1>4 DEF Header
<1>6. loc'[p] = [loc[p] EXCEPT !.msg = msg, !.pc = "rewrite"]
  BY <1>2, <1>3 DEF Memory, Header
<1> HIDE DEF msg
<1>7. [loc[p] EXCEPT !.msg = msg, !.pc = "rewrite"] \in Memory
  BY ZenonT(40), <1>2, <1>5 DEF Memory, Pc
<1>8. loc' \in [Procs -> Memory] /\ \A q \in Procs \ {p} : loc'[q] = loc[q]
  BY <1>2, <1>3, <1>6, <1>7
<1>9. loc'[p].pc = "rewrite" /\ loc'[p].at = loc[p].at /\ loc'[p].msg = msg
  BY <1>2, <1>6 DEF Memory
<1>10. Moves(p)
  BY <1>1, <1>8, HeldMoves
<1>11. bfree' \in Seq(Block) /\ bodyEnd' \in Nat /\ threads' \in Nat
  BY <1>1, <1>2, <1>3, <1>4, BodySpaceTypes DEF TypeOK
<1>12. loc[p].pc \in Copying
  BY <1>1 DEF Copying
<1>13. QED
  BY <1>1, <1>5, <1>9, <1>10, <1>11, <1>12, StillCopying

LEMMA FreeDoomedBodyStep ==
    ASSUME PlacesInv, NEW p \in Procs, FreeDoomedBody(p), UNCHANGED alone
    PROVE  PlacesInv'
<1>1. /\ TypeOK /\ loc[p].pc \in Deleting
      /\ UNCHANGED <<hdr, hfree, bodyEnd, vidx, threads, order>>
  BY DEF PlacesInv, FreeDoomedBody, At, Deleting
<1>2. loc[p].msg.body \in Nat /\ loc[p].msg.size \in Nat
  BY <1>1, MemoryFacts, HeaderFacts
<1>3. FreeBody(loc[p].msg.body, loc[p].msg.size) /\ Advance(p, 0)
  BY DEF FreeDoomedBody
<1>4. bfree' \in Seq(Block)
  BY <1>1, <1>2, <1>3, FreeBodyTypes
<1>5. bodyEnd' \in Nat /\ threads' \in Nat
  BY <1>1 DEF TypeOK
<1>6. QED
  BY <1>1, <1>3, <1>4, <1>5, AdvanceKeeps

LEMMA CountThreadStep ==
    ASSUME PlacesInv, NEW p \in Procs, CountThread(p), UNCHANGED alone
    PROVE  PlacesInv'
<1>1. /\ TypeOK /\ loc[p].pc = "index" /\ Free("fi") /\ Take(p, "fi") /\ Fits(loc[p])
      /\ UNCHANGED <<hdr, hfree, bodyEnd, bfree, vidx, order>>
      /\ threads' = threads + 1 /\ Goto(p, "append") /\ "append" \in Pc
  BY DEF PlacesInv, CountThread, At, Pc
<1>2. bfree' \in Seq(Block) /\ bodyEnd' \in Nat /\ threads' \in Nat
  BY <1>1 DEF TypeOK
<1>3. /\ loc' \in [Procs -> Memory] /\ loc'[p] = [loc[p] EXCEPT !.pc = "append"]
      /\ \A q \in Procs \ {p} : loc'[q] = loc[q]
  BY <1>1, GotoMoves
<1>4. loc'[p].pc = "append" /\ loc'[p].msg = loc[p].msg
  BY <1>1, <1>3, MemoryFacts DEF Memory
<1>5. Moves(p)
  BY <1>1, <1>3, TakeFree DEF Moves
<1>6. /\ loc'[p].pc \notin Deleting \cup Flagging \cup Selecting \cup Copying
      /\ loc'[p].pc # "freeheader" /\ loc'[p].pc # "header"
      /\ loc[p].pc \in Placing
  BY <1>1, <1>4 DEF Deleting, Flagging, Selecting, Copying, Placing
<1>7. Fits(loc'[p])
  BY <1>1, <1>4, <1>6 DEF Fits
<1>8. QED
  BY <1>1, <1>2, <1>4, <1>5, <1>6, <1>7, PlacesStill, StillUnknown

LEMMA ReadDoomedStep ==
    ASSUME PlacesInv, NEW p \in Procs, ReadDoomed(p), UNCHANGED alone
    PROVE  PlacesInv'
<1> DEFINE at == loc[p].at
           h == hdr[at]
<1>1. /\ TypeOK /\ loc[p].pc = "read" /\ Fits(loc[p])
      /\ UNCHANGED <<hdr, hfree, bodyEnd, bfree, vidx, order>>
  BY DEF PlacesInv, ReadDoomed, At
<1>2. bfree' \in Seq(Block) /\ bodyEnd' \in Nat /\ threads \in Nat /\ loc[p].pc \in Deleting
  BY <1>1 DEF TypeOK, Deleting
<1>3. CASE at \notin DOMAIN hdr
  <2>1. Exit(p) /\ threads' \in Nat
    BY <1>2, <1>3 DEF ReadDoomed
  <2>2. QED
    BY <1>1, <1>2, <2>1, ExitKeeps
<1>4. CASE at \in DOMAIN hdr
  <2>1. /\ loc' = [loc EXCEPT ![p].msg = h, ![p].pc = "cut"]
        /\ threads' = Uncounted(h) /\ UNCHANGED held
    BY <1>4 DEF ReadDoomed
  <2>2. threads' \in Nat
    BY <1>2, <2>1 DEF Uncounted
  <2>3. loc \in [Procs -> Memory] /\ h \in Header
    BY <1>1, <1>4, MemoryFacts DEF TypeOK
  <2> HIDE DEF h
  <2>4. /\ loc' \in [Procs -> Memory] /\ \A q \in Procs \ {p} : loc'[q] = loc[q]
        /\ loc'[p].pc = "cut" /\ loc'[p].rq = loc[p].rq /\ loc'[p].todo = loc[p].todo
    <3>1. loc'[p] = [loc[p] EXCEPT !.msg = h, !.pc = "cut"]
      BY <2>1, <2>3
    <3>2. [loc[p] EXCEPT !.msg = h, !.pc = "cut"] \in Memory
      BY ZenonT(40), <2>3 DEF Memory, Pc
    <3>3. QED
      BY <2>1, <2>3, <3>1, <3>2 DEF Memory
  <2>5. Moves(p)
    BY <1>1, <2>1, <2>4, HeldMoves
  <2>6. loc'[p].pc \in Deleting /\ loc'[p].pc # "freeheader" /\ loc'[p].pc # "header"
    BY <2>4 DEF Deleting
  <2>7. Fits(loc'[p])
    BY <1>1, <1>2, <2>4, <2>6, Kinds DEF Fits
  <2>8. QED
    BY <1>1, <1>2, <2>2, <2>4, <2>5, <2>6, <2>7, Kinds, PlacesStill, StillUnknown
<1>5. QED
  BY <1>3, <1>4

-----------------------------------------------------------------------------
(* Steps that change headers, numbers, the index and the free list of       *)
(* headers.                                                                *)

\* What a request remembers still fits when headers and numbers are added.
LEMMA FitsGrow ==
    ASSUME NEW q \in Procs, Fits(loc[q]), loc'[q] = loc[q],
           Len(hdr) \in Nat, Len(hdr') \in Nat, Len(hdr) <= Len(hdr'),
           DOMAIN hdr \subseteq DOMAIN hdr', DOMAIN vidx \subseteq DOMAIN vidx',
           loc[q].pc \in Placing => vidx'[loc[q].msg.vi] = vidx[loc[q].msg.vi]
    PROVE  Fits(loc[q])'
<1>1. loc[q].pc \in Placing => vidx'[loc[q].msg.vi] \in 1..(Len(hdr') + 1)
  <2>1. SUFFICES ASSUME loc[q].pc \in Placing
                 PROVE  vidx'[loc[q].msg.vi] \in 1..(Len(hdr') + 1)
    OBVIOUS
  <2>2. /\ vidx[loc[q].msg.vi] \in 1..(Len(hdr) + 1)
        /\ vidx'[loc[q].msg.vi] = vidx[loc[q].msg.vi]
    BY <2>1 DEF Fits
  <2>3. 1..(Len(hdr) + 1) \subseteq 1..(Len(hdr') + 1)
    OBVIOUS
  <2>4. QED
    BY <2>2, <2>3
<1>2. QED
  BY <1>1 DEF Fits

\* Which places the others have in hand.
LEMMA HoldsFacts ==
    ASSUME PlacesInv, NEW q \in Procs
    PROVE  /\ loc[q].pc \in Placing => 
                 /\ Holds(q, vidx[loc[q].msg.vi]) /\ vidx[loc[q].msg.vi] \in Nat
                 /\ loc[q].msg.vi \in DOMAIN vidx
           /\ \A x : Holds(q, x) =>
                 /\ x \in Nat /\ x \in 1..(Len(hdr) + 1)
                 /\ x \notin Shown /\ x \notin FreePlaces
                 /\ \A r \in Procs \ {q} : ~Holds(r, x)
                 /\ x \in DOMAIN hdr \/ loc[q].pc = "header"
<1>1. TypeOK /\ Fits(loc[q])
  BY DEF PlacesInv
<1>2. DOMAIN hdr = 1..Len(hdr) /\ Len(hdr) \in Nat
  BY <1>1 DEF TypeOK
<1>3. ASSUME loc[q].pc \in Placing
      PROVE  /\ Holds(q, vidx[loc[q].msg.vi]) /\ vidx[loc[q].msg.vi] \in Nat
             /\ vidx[loc[q].msg.vi] \in 1..(Len(hdr) + 1)
             /\ loc[q].msg.vi \in DOMAIN vidx
             /\ loc[q].pc # "header" => vidx[loc[q].msg.vi] \in DOMAIN hdr
  BY <1>1, <1>2, <1>3 DEF Fits, Holds
<1>4. ASSUME NEW x, Holds(q, x)
      PROVE  /\ x \in Nat /\ x \in 1..(Len(hdr) + 1)
             /\ x \in DOMAIN hdr \/ loc[q].pc = "header"
  <2>1. CASE loc[q].pc \in Placing /\ x = vidx[loc[q].msg.vi]
    BY <1>3, <2>1
  <2>2. CASE loc[q].pc = "freeheader" /\ x = loc[q].at
    <3>1. x \in DOMAIN hdr
      BY <1>1, <2>2 DEF Fits
    <3>2. QED
      BY <1>2, <3>1
  <2>3. QED
    BY <1>4, <2>1, <2>2 DEF Holds
<1>5. QED
  BY <1>3, <1>4 DEF PlacesInv, PlacesOwned

\* Space for a header: a place that nobody has, shows or may be given.
LEMMA HeaderSpaceFacts ==
    ASSUME PlacesInv, Free("fm"), NEW at, HeaderSpace(at)
    PROVE  /\ hfree' \in Seq(Block) /\ NoneTwice(hfree')
           /\ Units(hfree') \subseteq FreePlaces /\ at \notin Units(hfree')
           /\ at \in 1..(Len(hdr) + 1) /\ at \in Nat
           /\ at \notin Shown /\ \A q \in Procs : ~Holds(q, at)
           /\ at \in FreePlaces \/ at \notin DOMAIN hdr
           /\ FreePlaces \subseteq Units(hfree') \cup {at}
<1>1. /\ TypeOK /\ hfree \in Seq(Block) /\ NoneTwice(hfree)
      /\ DOMAIN hdr = 1..Len(hdr) /\ Len(hdr) \in Nat
      /\ Shown \subseteq 1..Len(hdr) /\ FreePlaces \subseteq 1..Len(hdr)
      /\ Shown \cap FreePlaces = {}
  <2>1. TypeOK /\ NoneTwice(hfree) /\ Shown \cap FreePlaces = {} /\ FreePlaces \subseteq DOMAIN hdr
    BY DEF PlacesInv, PlacesOwned, PlacesNotShared
  <2>2. hdr \in Seq(Header) /\ hfree \in Seq(Block) /\ order \in Seq(1..Len(hdr))
    BY <2>1 DEF TypeOK
  <2>3. Shown \subseteq 1..Len(hdr)
    BY <2>2, SetOfList DEF Shown
  <2>4. QED
    BY <2>1, <2>2, <2>3
<1>2. CASE \E i \in DOMAIN hfree : /\ TakeFrom(hfree, hfree', i, 1, 1)
                                   /\ at = hfree[i].index
  <2>1. PICK i \in DOMAIN hfree : /\ TakeFrom(hfree, hfree', i, 1, 1)
                                  /\ at = hfree[i].index
    BY <1>2
  <2>2. /\ hfree' \in Seq(Block) /\ NoneTwice(hfree')
        /\ hfree[i].index \in Nat
        /\ hfree[i].index..(hfree[i].index + 1 - 1) \subseteq Units(hfree)
        /\ Units(hfree') = Units(hfree) \ (hfree[i].index..(hfree[i].index + 1 - 1))
    BY <1>1, <2>1, TakeFacts
  <2>3. at \in Nat /\ hfree[i].index..(hfree[i].index + 1 - 1) = {at}
    BY <2>1, <2>2
  <2>4. at \in FreePlaces /\ Units(hfree') = FreePlaces \ {at}
    BY <2>2, <2>3 DEF FreePlaces
  <2>5. at \notin Shown /\ at \in 1..(Len(hdr) + 1)
    BY <1>1, <2>4
  <2>6. \A q \in Procs : ~Holds(q, at)
    BY <2>4, HoldsFacts
  <2>7. QED
    BY <2>2, <2>3, <2>4, <2>5, <2>6
<1>3. CASE NoFit(hfree, 1) /\ at = Len(hdr) + 1 /\ UNCHANGED hfree
  <2>1. at \notin DOMAIN hdr /\ at \in 1..(Len(hdr) + 1) /\ at \in Nat
    BY <1>1, <1>3
  <2>2. ASSUME NEW q \in Procs, Holds(q, at) PROVE FALSE
    <3>1. loc[q].pc = "header"
      BY <2>1, <2>2, HoldsFacts
    <3>2. held["fm"] = q
      BY <3>1 DEF PlacesInv, HeldRight
    <3>3. QED
      BY <3>2, MsgStoreAssumption DEF Free
  <2>3. QED
    BY <1>1, <1>3, <2>1, <2>2 DEF FreePlaces
<1>4. QED
  BY <1>2, <1>3 DEF HeaderSpace

LEMMA TakeNumberStep ==
    ASSUME PlacesInv, NEW p \in Procs, TakeNumber(p), UNCHANGED alone
    PROVE  PlacesInv'
<1> DEFINE n == Len(vidx) + 1
<1>1. PICK at \in 1..(Len(hdr) + 1) : HeaderSpace(at) /\ vidx' = Append(vidx, at)
  BY DEF TakeNumber
<1>2. /\ TypeOK /\ loc[p].pc = "number" /\ Free("fm") /\ Take(p, "fm")
      /\ loc' = [loc EXCEPT ![p].msg.vi = n, ![p].pc = "header"]
      /\ UNCHANGED <<hdr, bodyEnd, bfree, threads, order>>
  BY DEF PlacesInv, TakeNumber, At
<1>3. /\ hfree' \in Seq(Block) /\ NoneTwice(hfree')
      /\ Units(hfree') \subseteq FreePlaces /\ at \notin Units(hfree')
      /\ at \in 1..(Len(hdr) + 1) /\ at \in Nat
      /\ at \notin Shown /\ \A q \in Procs : ~Holds(q, at)
  BY <1>1, <1>2, HeaderSpaceFacts
<1>4. /\ hdr \in Seq(Header) /\ Len(hdr) \in Nat
      /\ vidx \in Seq(Nat) /\ Len(vidx) \in Nat /\ DOMAIN vidx = 1..Len(vidx)
      /\ vidx' \in Seq(Nat) /\ DOMAIN vidx' = 1..n /\ vidx'[n] = at
      /\ \A m \in DOMAIN vidx : vidx'[m] = vidx[m]
  <2>1. hdr \in Seq(Header) /\ vidx \in Seq(Nat)
    BY <1>2 DEF TypeOK
  <2>2. Len(hdr) \in Nat /\ Len(vidx) \in Nat /\ DOMAIN vidx = 1..Len(vidx)
    BY <2>1
  <2>3. /\ vidx' \in Seq(Nat) /\ Len(vidx') = n /\ vidx'[n] = at
        /\ \A m \in 1..Len(vidx) : vidx'[m] = vidx[m]
    BY <1>1, <1>3, <2>1
  <2>4. DOMAIN vidx' = 1..n
    BY <2>3
  <2>5. QED
    BY <2>1, <2>2, <2>3, <2>4
<1>5. n \in Nat /\ n \notin DOMAIN vidx /\ n \in DOMAIN vidx' /\ DOMAIN vidx \subseteq DOMAIN vidx'
  BY <1>4
<1> HIDE DEF n
<1>6. /\ loc' \in [Procs -> Memory] /\ \A q \in Procs \ {p} : loc'[q] = loc[q]
      /\ loc'[p].pc = "header" /\ loc'[p].msg.vi = n
  <2>1. loc \in [Procs -> Memory] /\ loc[p].msg \in Header
    BY <1>2, MemoryFacts
  <2> DEFINE msg == [loc[p].msg EXCEPT !.vi = n]
  <2>2. msg \in Header /\ msg.vi = n
    BY <1>5, <2>1 DEF Header
  <2>3. loc'[p] = [loc[p] EXCEPT !.msg = msg, !.pc = "header"]
    BY <1>2, <2>1 DEF Memory, Header
  <2> HIDE DEF msg
  <2>4. [loc[p] EXCEPT !.msg = msg, !.pc = "header"] \in Memory
    BY ZenonT(40), <2>1, <2>2 DEF Memory, Pc
  <2>5. loc' \in [Procs -> Memory] /\ \A q \in Procs \ {p} : loc'[q] = loc[q]
    BY <1>2, <2>1, <2>3, <2>4
  <2>6. QED
    BY <2>1, <2>2, <2>3, <2>5 DEF Memory
<1>7. Moves(p) /\ held'["fm"] = p
  BY <1>2, <1>6, TakeFree DEF Moves
<1>8. TypeOK'
  BY <1>2, <1>3, <1>4, <1>7, TypesStill DEF TypeOK
<1>9. "header" \in Placing /\ "header" \notin Deleting \cup Flagging \cup Selecting \cup Copying
  BY DEF Placing, Deleting, Flagging, Selecting, Copying
<1>10. \A q \in Procs \ {p} : loc[q].pc \in Placing =>
          loc[q].msg.vi \in DOMAIN vidx /\ vidx'[loc[q].msg.vi] = vidx[loc[q].msg.vi]
  BY <1>4 DEF PlacesInv, Fits
<1>11. ASSUME NEW q \in Procs PROVE Fits(loc[q])'
  <2>1. CASE q = p
    BY <1>2, <1>3, <1>4, <1>5, <1>6, <1>9, <2>1 DEF Fits
  <2>2. CASE q # p
    <3>1. Len(hdr') \in Nat /\ Len(hdr) <= Len(hdr') /\ DOMAIN hdr \subseteq DOMAIN hdr'
      BY <1>2, <1>4
    <3>2. Fits(loc[q]) /\ loc'[q] = loc[q]
      BY <1>6, <2>2 DEF PlacesInv
    <3>3. QED
      BY <1>4, <1>5, <1>10, <2>2, <3>1, <3>2, FitsGrow
  <2>3. QED
    BY <2>1, <2>2
<1>12. HeldRight'
  BY <1>6, <1>7 DEF PlacesInv, HeldRight, Moves
<1>13. NumbersKnown'
  BY <1>2, <1>5 DEF PlacesInv, NumbersKnown
<1>14. NumbersFresh'
  <2>1. ASSUME NEW q \in Procs, loc'[q].pc \in Placing
        PROVE  /\ \A x \in DOMAIN hdr : hdr[x].vi = loc'[q].msg.vi => x = vidx'[loc'[q].msg.vi]
               /\ \A r \in Procs : Unknown(loc'[r], loc'[q].msg.vi, vidx'[loc'[q].msg.vi])
    <3>1. CASE q = p
      <4>1. \A x \in DOMAIN hdr : hdr[x].vi # n
        BY <1>5 DEF PlacesInv, NumbersKnown
      <4>2. ASSUME NEW r \in Procs PROVE Unknown(loc'[r], n, at)
        <5>1. CASE r = p
          BY <1>6, <1>9, <5>1 DEF Unknown
        <5>2. CASE r # p
          <6>1. Fits(loc[r]) /\ loc'[r] = loc[r]
            BY <1>6, <5>2 DEF PlacesInv
          <6>2. QED
            BY <1>5, <6>1 DEF Fits, Unknown
        <5>3. QED
          BY <5>1, <5>2
      <4>3. QED
        BY <1>4, <1>6, <3>1, <4>1, <4>2
    <3>2. CASE q # p
      <4> DEFINE m == loc[q].msg.vi
      <4>1. loc'[q] = loc[q] /\ loc[q].pc \in Placing /\ vidx'[m] = vidx[m]
        BY <1>6, <1>10, <2>1, <3>2
      <4>2. /\ \A x \in DOMAIN hdr : hdr[x].vi = m => x = vidx[m]
            /\ \A r \in Procs : Unknown(loc[r], m, vidx[m])
        BY <4>1 DEF PlacesInv, NumbersFresh
      <4> HIDE DEF m
      <4>3. ASSUME NEW r \in Procs PROVE Unknown(loc'[r], m, vidx[m])
        <5>1. CASE r = p
          BY <1>6, <1>9, <5>1 DEF Unknown
        <5>2. CASE r # p
          BY <1>6, <4>2, <5>2
        <5>3. QED
          BY <5>1, <5>2
      <4>4. QED
        BY <4>1, <4>2, <4>3 DEF m
    <3>3. QED
      BY <3>1, <3>2
  <2>2. QED
    BY <1>2, <2>1 DEF NumbersFresh, Unknown
<1>15. \A q \in Procs \ {p} : \A x : Holds(q, x)' <=> Holds(q, x)
  BY <1>6, <1>10 DEF Holds
<1>16. \A x : Holds(p, x)' <=> x = at
  BY <1>4, <1>6, <1>9 DEF Holds
<1>17. PlacesOwned'
  <2>1. Shown' = Shown /\ FreePlaces' = Units(hfree')
    BY <1>2 DEF Shown, FreePlaces
  <2>2. PlacesNotShared'
    BY <1>2, <1>3, <2>1 DEF PlacesInv, PlacesOwned, PlacesNotShared
  <2>3. FreePlaces' \subseteq DOMAIN hdr'
    BY <1>2, <1>3, <2>1 DEF PlacesInv, PlacesOwned
  <2>4. ASSUME NEW q \in Procs, NEW x \in Nat, Holds(q, x)'
        PROVE  /\ x \notin Shown' /\ x \notin FreePlaces'
               /\ \A r \in Procs \ {q} : ~Holds(r, x)'
    <3>1. CASE q = p
      <4>1. x = at
        BY <1>16, <2>4, <3>1
      <4>2. QED
        BY <1>3, <1>15, <2>1, <3>1, <4>1
    <3>2. CASE q # p
      <4>1. Holds(q, x)
        BY <1>15, <2>4, <3>2
      <4>2. /\ x \notin Shown /\ x \notin FreePlaces /\ x # at
            /\ \A r \in Procs \ {q} : ~Holds(r, x)
        BY <1>3, <4>1, HoldsFacts
      <4>3. QED
        BY <1>3, <1>15, <1>16, <2>1, <4>2
    <3>3. QED
      BY <3>1, <3>2
  <2>5. QED
    BY <2>2, <2>3, <2>4 DEF PlacesOwned
<1>18. QED
  BY <1>8, <1>11, <1>12, <1>13, <1>14, <1>17 DEF PlacesInv

\* The header that p has in hand is written to a place.
LEMMA WrittenFacts ==
    ASSUME PlacesInv, NEW p \in Procs, loc[p].msg.vi \in DOMAIN vidx,
           NEW at \in 1..(Len(hdr) + 1), WriteHeader(at, loc[p].msg),
           \A q \in Procs : loc[q].pc \in Placing /\ loc[q].msg.vi = loc[p].msg.vi
                               => at = vidx[loc[q].msg.vi]
    PROVE  /\ hdr' \in Seq(Header) /\ Len(hdr') \in Nat /\ Len(hdr) \in Nat
           /\ Len(hdr) <= Len(hdr') /\ DOMAIN hdr \subseteq DOMAIN hdr'
           /\ at \in DOMAIN hdr' /\ hdr'[at] = loc[p].msg
           /\ DOMAIN hdr' \subseteq DOMAIN hdr \cup {at}
           /\ \A x \in DOMAIN hdr \ {at} : hdr'[x] = hdr[x]
           /\ \A x \in DOMAIN hdr' : hdr'[x].vi \in DOMAIN vidx
           /\ \A q \in Procs : loc[q].pc \in Placing =>
                 \A x \in DOMAIN hdr' :
                    hdr'[x].vi = loc[q].msg.vi => x = vidx[loc[q].msg.vi]
<1>1. TypeOK
  BY DEF PlacesInv
<1>2. hdr \in Seq(Header) /\ loc[p].msg \in Header
  BY <1>1, MemoryFacts DEF TypeOK
<1> DEFINE msg == loc[p].msg
<1>3. /\ hdr' \in Seq(Header) /\ Len(hdr') \in Nat /\ Len(hdr) \in Nat
      /\ Len(hdr) <= Len(hdr') /\ DOMAIN hdr \subseteq DOMAIN hdr'
      /\ at \in DOMAIN hdr' /\ hdr'[at] = msg
      /\ DOMAIN hdr' \subseteq DOMAIN hdr \cup {at}
      /\ \A x \in DOMAIN hdr \ {at} : hdr'[x] = hdr[x]
  <2> HIDE DEF msg
  <2>1. msg \in Header
    BY <1>2 DEF msg
  <2>2. CASE at \in DOMAIN hdr
    <3>1. hdr' = [hdr EXCEPT ![at] = msg]
      BY <2>2 DEF WriteHeader, msg
    <3>2. QED
      BY <1>2, <2>1, <2>2, <3>1
  <2>3. CASE at \notin DOMAIN hdr
    <3>1. hdr' = Append(hdr, msg) /\ at = Len(hdr) + 1
      BY <1>2, <2>3 DEF WriteHeader, msg
    <3>2. QED
      BY <1>2, <2>1, <3>1
  <2>4. QED
    BY <2>2, <2>3
<1>4. \A x \in DOMAIN hdr' : hdr'[x].vi \in DOMAIN vidx
  BY <1>3 DEF PlacesInv, NumbersKnown
<1>5. ASSUME NEW q \in Procs, loc[q].pc \in Placing, NEW x \in DOMAIN hdr',
             hdr'[x].vi = loc[q].msg.vi
      PROVE  x = vidx[loc[q].msg.vi]
  <2>1. CASE x = at
    BY <1>3, <1>5, <2>1
  <2>2. CASE x # at
    <3>1. x \in DOMAIN hdr /\ hdr[x].vi = loc[q].msg.vi
      BY <1>3, <1>5, <2>2
    <3>2. QED
      BY <1>5, <3>1 DEF PlacesInv, NumbersFresh
  <2>3. QED
    BY <2>1, <2>2
<1>6. QED
  BY <1>3, <1>4, <1>5

LEMMA PlacesWritten ==
    ASSUME PlacesInv, NEW p \in Procs, Moves(p),
           UNCHANGED <<hfree, bodyEnd, bfree, vidx, threads, order>>,
           loc[p].msg.vi \in DOMAIN vidx,
           \E at \in 1..(Len(hdr) + 1) :
              /\ WriteHeader(at, loc[p].msg)
              /\ \A q \in Procs : loc[q].pc \in Placing /\ loc[q].msg.vi = loc[p].msg.vi
                                     => at = vidx[loc[q].msg.vi],
           Fits(loc[p])',
           loc'[p].pc # "freeheader", loc'[p].pc # "header",
           loc'[p].pc \in Placing =>
              loc[p].pc \in Placing /\ loc'[p].msg.vi = loc[p].msg.vi,
           \A q \in Procs : loc[q].pc \in Placing =>
              Unknown(loc'[p], loc[q].msg.vi, vidx[loc[q].msg.vi])
    PROVE  PlacesInv'
<1>1. PICK at \in 1..(Len(hdr) + 1) :
         /\ WriteHeader(at, loc[p].msg)
         /\ \A q \in Procs : loc[q].pc \in Placing /\ loc[q].msg.vi = loc[p].msg.vi
                                => at = vidx[loc[q].msg.vi]
  OBVIOUS
<1>2. /\ hdr' \in Seq(Header) /\ Len(hdr') \in Nat /\ Len(hdr) \in Nat
      /\ Len(hdr) <= Len(hdr') /\ DOMAIN hdr \subseteq DOMAIN hdr'
      /\ \A x \in DOMAIN hdr' : hdr'[x].vi \in DOMAIN vidx
      /\ \A q \in Procs : loc[q].pc \in Placing =>
            \A x \in DOMAIN hdr' :
               hdr'[x].vi = loc[q].msg.vi => x = vidx[loc[q].msg.vi]
  BY <1>1, WrittenFacts
<1>3. \A q \in Procs \ {p} : loc'[q] = loc[q]
  BY DEF Moves
<1>4. TypeOK'
  <2>1. order \in Seq(1..Len(hdr)) /\ order' = order
    BY DEF PlacesInv, TypeOK
  <2>2. order' \in Seq(1..Len(hdr'))
    <3>1. 1..Len(hdr) \subseteq 1..Len(hdr')
      BY <1>2
    <3>2. order \in Seq(1..Len(hdr'))
      BY <2>1, <3>1, WiderSeq
    <3>3. QED
      BY <2>1, <3>2
  <2>3. QED
    BY <1>2, <2>2, TypesStill DEF PlacesInv, TypeOK
<1>5. ASSUME NEW q \in Procs PROVE Fits(loc[q])'
  <2>1. CASE q # p
    <3>1. Fits(loc[q]) /\ loc'[q] = loc[q] /\ vidx' = vidx
      BY <1>3, <2>1 DEF PlacesInv
    <3>2. QED
      BY <1>2, <3>1, FitsGrow
  <2>2. QED
    BY <2>1
<1>6. HeldRight'
  BY <1>3 DEF PlacesInv, HeldRight, Moves
<1>7. NumbersKnown'
  BY <1>2 DEF NumbersKnown
<1>8. \A q \in Procs : loc'[q].pc \in Placing =>
         loc[q].pc \in Placing /\ loc'[q].msg.vi = loc[q].msg.vi
  BY <1>3
<1>9. NumbersFresh'
  <2> SUFFICES ASSUME NEW q \in Procs, loc'[q].pc \in Placing
               PROVE  LET n == loc'[q].msg.vi
                      IN  /\ \A x \in DOMAIN hdr' : hdr'[x].vi = n => x = vidx[n]
                          /\ \A r \in Procs : Unknown(loc'[r], n, vidx[n])
    BY DEF NumbersFresh, Unknown
  <2> DEFINE n == loc[q].msg.vi
  <2>1. loc[q].pc \in Placing /\ loc'[q].msg.vi = n
    BY <1>8
  <2>2. /\ \A x \in DOMAIN hdr' : hdr'[x].vi = n => x = vidx[n]
        /\ \A r \in Procs : Unknown(loc[r], n, vidx[n])
    BY <1>2, <2>1 DEF PlacesInv, NumbersFresh
  <2>3. Unknown(loc'[p], n, vidx[n])
    BY <2>1
  <2> HIDE DEF n
  <2>4. \A r \in Procs : Unknown(loc'[r], n, vidx[n])
    BY <1>3, <2>2, <2>3
  <2>5. QED
    BY <2>1, <2>2, <2>4
<1>10. \A q \in Procs : \A x \in Nat : Holds(q, x)' => Holds(q, x)
  BY <1>3, <1>8 DEF Holds
<1>11. PlacesOwned'
  <2>1. PlacesNotShared'
    BY DEF PlacesInv, PlacesOwned, PlacesNotShared, Shown, FreePlaces
  <2>2. FreePlaces' \subseteq DOMAIN hdr'
    BY <1>2 DEF PlacesInv, PlacesOwned, FreePlaces
  <2>3. ASSUME NEW q \in Procs, NEW x \in Nat, Holds(q, x)'
        PROVE  /\ x \notin Shown' /\ x \notin FreePlaces'
               /\ \A r \in Procs \ {q} : ~Holds(r, x)'
    <3>1. Holds(q, x)
      BY <1>10, <2>3
    <3>2. /\ x \notin Shown /\ x \notin FreePlaces
          /\ \A r \in Procs \ {q} : ~Holds(r, x)
      BY <3>1 DEF PlacesInv, PlacesOwned
    <3>3. Shown' = Shown /\ FreePlaces' = FreePlaces
      BY DEF Shown, FreePlaces
    <3>4. QED
      BY <1>10, <3>2, <3>3
  <2>4. QED
    BY <2>1, <2>2, <2>3 DEF PlacesOwned
<1>12. QED
  BY <1>4, <1>5, <1>6, <1>7, <1>9, <1>11 DEF PlacesInv

LEMMA PutHeaderStep ==
    ASSUME PlacesInv, NEW p \in Procs, PutHeader(p), UNCHANGED alone
    PROVE  PlacesInv'
<1> DEFINE at == vidx[loc[p].msg.vi]
<1>1. /\ TypeOK /\ loc[p].pc = "header" /\ Fits(loc[p])
      /\ WriteHeader(at, loc[p].msg) /\ Drop("fm") /\ Goto(p, "index") /\ "index" \in Pc
      /\ UNCHANGED <<hfree, bodyEnd, bfree, vidx, threads, order>>
  BY DEF PlacesInv, PutHeader, At, Pc
<1>2. loc[p].pc \in Placing /\ loc[p].msg.vi \in DOMAIN vidx /\ at \in 1..(Len(hdr) + 1)
  BY <1>1 DEF Placing, Fits
<1>3. /\ loc' \in [Procs -> Memory] /\ loc'[p] = [loc[p] EXCEPT !.pc = "index"]
      /\ \A q \in Procs \ {p} : loc'[q] = loc[q]
  BY <1>1, GotoMoves
<1>4. loc'[p].pc = "index" /\ loc'[p].msg = loc[p].msg
  BY <1>1, <1>3, MemoryFacts DEF Memory
<1>5. Moves(p)
  <2>1. held["fm"] = p /\ None \notin Procs /\ held' = [held EXCEPT !["fm"] = None]
    BY <1>1, MsgStoreAssumption DEF PlacesInv, HeldRight, Drop
  <2>2. held \in [{"fm", "fi"} -> Procs \cup {None}]
    BY <1>1 DEF TypeOK
  <2>3. /\ held' \in [{"fm", "fi"} -> Procs \cup {None}]
        /\ \A q \in Procs \ {p} : \A l \in {"fm", "fi"} : held'[l] = q <=> held[l] = q
    BY <2>1, <2>2
  <2>4. QED
    BY <1>3, <2>3 DEF Moves
<1>6. \A q \in Procs : loc[q].pc \in Placing /\ loc[q].msg.vi = loc[p].msg.vi
                          => at = vidx[loc[q].msg.vi]
  OBVIOUS
<1>7. at \in DOMAIN hdr'
  BY <1>1, <1>2, <1>6, WrittenFacts
<1>8. /\ loc'[p].pc \notin Deleting \cup Flagging \cup Selecting \cup Copying
      /\ loc'[p].pc # "freeheader" /\ loc'[p].pc # "header"
  BY <1>4 DEF Deleting, Flagging, Selecting, Copying
<1>9. Fits(loc[p])'
  <2>1. Len(hdr') \in Nat /\ DOMAIN hdr' = 1..Len(hdr')
    <3>1. hdr' \in Seq(Header)
      BY <1>1, <1>2, <1>6, WrittenFacts
    <3>2. QED
      BY <3>1
  <2>2. at \in 1..(Len(hdr') + 1)
    BY <1>7, <2>1
  <2>3. QED
    BY <1>1, <1>2, <1>4, <1>7, <1>8, <2>2 DEF Fits
<1>10. \A n, x : Unknown(loc'[p], n, x)
  BY <1>8 DEF Unknown
<1>11. QED
  BY <1>1, <1>2, <1>4, <1>5, <1>6, <1>8, <1>9, <1>10, PlacesWritten

\* A header written back goes to the place it was read from.
LEMMA BackFacts ==
    ASSUME PlacesInv, NEW p \in Procs, loc[p].pc \in Copying,
           WriteHeader(loc[p].at, loc[p].msg)
    PROVE  /\ loc[p].msg.vi \in DOMAIN vidx /\ loc[p].at \in DOMAIN hdr
           /\ DOMAIN hdr' = DOMAIN hdr
           /\ \E at \in 1..(Len(hdr) + 1) :
                 /\ WriteHeader(at, loc[p].msg)
                 /\ \A q \in Procs : loc[q].pc \in Placing /\ loc[q].msg.vi = loc[p].msg.vi
                                        => at = vidx[loc[q].msg.vi]
<1>1. /\ TypeOK /\ loc[p].msg.vi \in DOMAIN vidx /\ loc[p].at \in DOMAIN hdr
      /\ hdr \in Seq(Header)
  BY DEF PlacesInv, Fits, TypeOK
<1>2. loc[p].at \in 1..(Len(hdr) + 1)
  BY <1>1
<1>3. ASSUME NEW q \in Procs, loc[q].pc \in Placing, loc[q].msg.vi = loc[p].msg.vi
      PROVE  loc[p].at = vidx[loc[q].msg.vi]
  <2>1. Unknown(loc[p], loc[q].msg.vi, vidx[loc[q].msg.vi])
    BY <1>3 DEF PlacesInv, NumbersFresh
  <2>2. QED
    BY <1>3, <2>1 DEF Unknown
<1>4. DOMAIN hdr' = DOMAIN hdr
  BY <1>1 DEF WriteHeader
<1>5. QED
  BY <1>1, <1>2, <1>3, <1>4

LEMMA RewriteHeaderStep ==
    ASSUME PlacesInv, NEW p \in Procs, RewriteHeader(p), UNCHANGED alone
    PROVE  PlacesInv'
<1>1. /\ TypeOK /\ loc[p].pc \in Copying /\ WriteHeader(loc[p].at, loc[p].msg) /\ Exit(p)
      /\ UNCHANGED <<hfree, bodyEnd, bfree, vidx, threads, order>>
  BY DEF PlacesInv, RewriteHeader, At, Copying
<1>2. Moves(p) /\ loc'[p].pc = "done"
  BY <1>1, ExitMoves
<1>3. /\ loc'[p].pc \notin Deleting \cup Flagging \cup Selecting \cup Copying \cup Placing
      /\ loc'[p].pc # "freeheader" /\ loc'[p].pc # "header"
  BY <1>2, Kinds
<1>4. Fits(loc[p])' /\ \A n, x : Unknown(loc'[p], n, x)
  BY <1>3 DEF Fits, Unknown
<1>5. QED
  BY <1>1, <1>2, <1>3, <1>4, BackFacts, PlacesWritten

LEMMA StoreFlaggedStep ==
    ASSUME PlacesInv, NEW p \in Procs, StoreFlagged(p), UNCHANGED alone
    PROVE  PlacesInv'
<1> DEFINE code == Rolled(loc[p].msg.flags)
<1>1. /\ TypeOK /\ loc[p].pc \in Copying /\ loc[p].pc \in Flagging
      /\ WriteHeader(loc[p].at, loc[p].msg)
      /\ Advance(p, code)
      /\ UNCHANGED <<hfree, bodyEnd, bfree, vidx, threads, order>>
  BY DEF PlacesInv, StoreFlagged, At, Copying, Flagging
<1>2. code \in 0..2
  BY DEF Rolled
<1> HIDE DEF code
<1>3. /\ Moves(p) /\ Fits(loc'[p])
      /\ loc'[p].pc \notin Copying \cup Placing
      /\ loc'[p].pc # "freeheader" /\ loc'[p].pc # "header"
      /\ \A q \in Procs : loc[q].pc \in Placing =>
            Unknown(loc'[p], loc[q].msg.vi, vidx[loc[q].msg.vi])
  BY <1>1, <1>2, AdvanceFits
<1>4. Fits(loc[p])'
  BY <1>1, <1>3 DEF Fits
<1>5. QED
  BY <1>1, <1>3, <1>4, BackFacts, PlacesWritten

\* A place that p has in hand is shown.
LEMMA ShownNow ==
    ASSUME PlacesInv, NEW p \in Procs, Moves(p), loc[p].pc \in {"index", "append"},
           \E i \in 1..(Len(order) + 1) : order' = InsertAt(order, i, PlaceOf(p)),
           UNCHANGED <<hdr, hfree, bodyEnd, bfree, vidx, threads>>,
           loc'[p].pc = "done"
    PROVE  PlacesInv'
<1> DEFINE at == PlaceOf(p)
<1>1. loc[p].pc \in Placing /\ loc[p].pc # "header"
  BY DEF Placing
<1>2. /\ at \in DOMAIN hdr /\ at \in Nat /\ Holds(p, at) /\ at \notin Shown
      /\ at \notin FreePlaces /\ \A r \in Procs \ {p} : ~Holds(r, at)
  BY <1>1, HoldsFacts DEF PlacesInv, Fits, PlaceOf
<1>3. TypeOK /\ order \in Seq(1..Len(hdr)) /\ IsInjective(order) /\ at \in 1..Len(hdr)
  BY <1>2 DEF PlacesInv, PlacesOwned, PlacesNotShared, TypeOK
<1>4. PICK i \in 1..(Len(order) + 1) : order' = InsertAt(order, i, at)
  OBVIOUS
<1> HIDE DEF at
<1>5. /\ order' \in Seq(1..Len(hdr)) /\ IsInjective(order')
      /\ ToSet(order') = ToSet(order) \cup {at}
  BY <1>2, <1>3, <1>4, InsertedOnce DEF Shown
<1>6. /\ loc'[p].pc \notin Deleting \cup Flagging \cup Selecting \cup Copying \cup Placing
      /\ loc'[p].pc # "freeheader" /\ loc'[p].pc # "header"
  BY Kinds
<1>7. Fits(loc'[p]) /\ \A n, x : Unknown(loc'[p], n, x)
  BY <1>6 DEF Fits, Unknown
<1>8. /\ PlacesOwned' => PlacesInv'
      /\ \A q \in Procs \ {p} : \A x : Holds(q, x)' <=> Holds(q, x)
  BY <1>3, <1>5, <1>6, <1>7, PartsStill DEF TypeOK
<1>9. \A x : ~Holds(p, x)'
  BY <1>6 DEF Holds
<1>10. Shown' = Shown \cup {at} /\ FreePlaces' = FreePlaces
  BY <1>5 DEF Shown, FreePlaces
<1>11. PlacesOwned'
  <2>1. PlacesNotShared'
    BY <1>2, <1>5, <1>10 DEF PlacesInv, PlacesOwned, PlacesNotShared
  <2>2. FreePlaces' \subseteq DOMAIN hdr'
    BY <1>10 DEF PlacesInv, PlacesOwned
  <2>3. ASSUME NEW q \in Procs, NEW x \in Nat, Holds(q, x)'
        PROVE  /\ x \notin Shown' /\ x \notin FreePlaces'
               /\ \A r \in Procs \ {q} : ~Holds(r, x)'
    <3>1. q # p /\ Holds(q, x)
      BY <1>8, <1>9, <2>3
    <3>2. /\ x \notin Shown /\ x \notin FreePlaces /\ x # at
          /\ \A r \in Procs \ {q} : ~Holds(r, x)
      BY <1>2, <3>1 DEF PlacesInv, PlacesOwned
    <3>3. QED
      BY <1>8, <1>9, <1>10, <3>2
  <2>4. QED
    BY <2>1, <2>2, <2>3 DEF PlacesOwned
<1>12. QED
  BY <1>8, <1>11

LEMMA IndexReplyStep ==
    ASSUME PlacesInv, NEW p \in Procs, IndexReply(p), UNCHANGED alone
    PROVE  PlacesInv'
<1>1. /\ TypeOK /\ loc[p].pc = "index" /\ Exit(p)
      /\ UNCHANGED <<hdr, hfree, bodyEnd, bfree, vidx, threads>>
  BY DEF PlacesInv, IndexReply, At
<1>2. Moves(p) /\ loc'[p].pc = "done"
  BY <1>1, ExitMoves
<1>3. CASE Indexed(loc[p].at)
  <2>1. order' = InsertAt(order, Pos(order, loc[p].at) + 1, PlaceOf(p))
    BY <1>3 DEF IndexReply, ReplyAfter
  <2>2. order \in Seq(1..Len(hdr)) /\ Len(order) \in Nat
    BY <1>1 DEF TypeOK
  <2>3. Pos(order, loc[p].at) \in 1..Len(order)
    BY <1>3, <2>2, PosFacts DEF Indexed
  <2>4. Pos(order, loc[p].at) + 1 \in 1..(Len(order) + 1)
    BY <2>2, <2>3
  <2>5. QED
    BY <1>1, <1>2, <2>1, <2>4, ShownNow
<1>4. CASE ~Indexed(loc[p].at)
  BY <1>1, <1>4, ExitKeeps DEF IndexReply, TypeOK
<1>5. QED
  BY <1>3, <1>4

LEMMA IndexThreadStep ==
    ASSUME PlacesInv, NEW p \in Procs, IndexThread(p), UNCHANGED alone
    PROVE  PlacesInv'
<1>1. /\ TypeOK /\ loc[p].pc = "append" /\ Exit(p) /\ Fits(loc[p])
      /\ order' = ThreadFirst(order, PlaceOf(p))
      /\ UNCHANGED <<hdr, hfree, bodyEnd, bfree, vidx, threads>>
  BY DEF PlacesInv, IndexThread, At
<1>2. Moves(p) /\ loc'[p].pc = "done"
  BY <1>1, ExitMoves
<1>3. order \in Seq(1..Len(hdr)) /\ Len(order) \in Nat /\ hdr \in Seq(Header)
  BY <1>1 DEF TypeOK
<1>4. PlaceOf(p) \in 1..Len(hdr)
  BY <1>1, <1>3 DEF Fits, Placing, PlaceOf
<1>5. order' = InsertAt(order, 1, PlaceOf(p)) /\ 1 \in 1..(Len(order) + 1)
  BY <1>1, <1>3, <1>4, FirstFacts
<1>6. QED
  BY <1>1, <1>2, <1>5, ShownNow

LEMMA CutMessageStep ==
    ASSUME PlacesInv, NEW p \in Procs, CutMessage(p), UNCHANGED alone
    PROVE  PlacesInv'
<1> DEFINE at == loc[p].at
<1>1. /\ TypeOK /\ loc[p].pc = "cut" /\ Fits(loc[p])
      /\ UNCHANGED <<hdr, hfree, bodyEnd, bfree, vidx, threads>>
  BY DEF PlacesInv, CutMessage, At
<1>2. CASE ~Indexed(at)
  BY <1>1, <1>2, ExitKeeps DEF CutMessage, TypeOK
<1>3. CASE Indexed(at)
  <2>1. order' = WithoutMessage(order, at) /\ Goto(p, "freeheader") /\ UNCHANGED held
    BY <1>3 DEF CutMessage
  <2>2. /\ order \in Seq(1..Len(hdr)) /\ IsInjective(order) /\ at \in ToSet(order)
        /\ hdr \in Seq(Header)
    BY <1>1, <1>3 DEF PlacesInv, PlacesOwned, PlacesNotShared, TypeOK, Indexed
  <2>3. at \in DOMAIN hdr /\ at \in Nat /\ at \in Shown /\ at \notin FreePlaces
    <3>1. at \in 1..Len(hdr)
      BY <2>2, SetOfList
    <3>2. QED
      BY <2>2, <3>1 DEF Shown, PlacesInv, PlacesOwned, PlacesNotShared
  <2>4. /\ loc' \in [Procs -> Memory] /\ loc'[p] = [loc[p] EXCEPT !.pc = "freeheader"]
        /\ \A q \in Procs \ {p} : loc'[q] = loc[q]
    <3>1. "freeheader" \in Pc
      BY DEF Pc
    <3>2. QED
      BY <1>1, <2>1, <3>1, GotoMoves
  <2>5. loc'[p].pc = "freeheader" /\ loc'[p].at = at /\ loc'[p].rq = loc[p].rq /\ loc'[p].todo = loc[p].todo
    BY <1>1, <2>4, MemoryFacts DEF Memory
  <2>6. Moves(p)
    BY <1>1, <2>1, <2>4, HeldMoves
  <2> HIDE DEF at
  <2>7. /\ order' \in Seq(1..Len(hdr)) /\ IsInjective(order')
        /\ ToSet(order') = ToSet(order) \ {at}
    BY <2>1, <2>2, WithoutFacts
  <2>8. /\ loc'[p].pc \notin Flagging \cup Selecting \cup Copying \cup Placing
        /\ loc'[p].pc # "header" /\ loc'[p].pc \in Deleting /\ loc[p].pc \in Deleting
    BY <1>1, <2>5 DEF Flagging, Selecting, Copying, Placing, Deleting
  <2>9. Fits(loc'[p])
    BY <1>1, <2>3, <2>5, <2>8 DEF Fits
  <2>10. \A q \in Procs : loc[q].pc \in Placing =>
              Unknown(loc'[p], loc[q].msg.vi, vidx[loc[q].msg.vi])
    BY <2>5, <2>8, StillUnknown
  <2>11. /\ PlacesOwned' => PlacesInv'
         /\ \A q \in Procs \ {p} : \A x : Holds(q, x)' <=> Holds(q, x)
    BY <1>1, <2>6, <2>7, <2>8, <2>9, <2>10, PartsStill DEF TypeOK
  <2>12. \A x : Holds(p, x)' <=> x = at
    BY <2>5, <2>8 DEF Holds
  <2>13. Shown' = Shown \ {at} /\ FreePlaces' = FreePlaces
    BY <1>1, <2>7 DEF Shown, FreePlaces
  <2>14. PlacesOwned'
    <3>1. PlacesNotShared'
      BY <1>1, <2>7, <2>13 DEF PlacesInv, PlacesOwned, PlacesNotShared
    <3>2. FreePlaces' \subseteq DOMAIN hdr'
      BY <1>1, <2>13 DEF PlacesInv, PlacesOwned
    <3>3. ASSUME NEW q \in Procs, NEW x \in Nat, Holds(q, x)'
          PROVE  /\ x \notin Shown' /\ x \notin FreePlaces'
                 /\ \A r \in Procs \ {q} : ~Holds(r, x)'
      <4>1. \A r \in Procs : ~Holds(r, at)
        BY <2>3, HoldsFacts
      <4>2. CASE q = p
        BY <2>3, <2>11, <2>12, <2>13, <3>3, <4>1, <4>2
      <4>3. CASE q # p
        <5>1. Holds(q, x)
          BY <2>11, <3>3, <4>3
        <5>2. /\ x \notin Shown /\ x \notin FreePlaces /\ x # at
              /\ \A r \in Procs \ {q} : ~Holds(r, x)
          BY <4>1, <5>1 DEF PlacesInv, PlacesOwned
        <5>3. QED
          BY <2>11, <2>12, <2>13, <5>2
      <4>4. QED
        BY <4>2, <4>3
    <3>4. QED
      BY <3>1, <3>2, <3>3 DEF PlacesOwned
  <2>15. QED
    BY <2>11, <2>14
<1>4. QED
  BY <1>2, <1>3

LEMMA FreeDoomedHeaderStep ==
    ASSUME PlacesInv, NEW p \in Procs, FreeDoomedHeader(p), UNCHANGED alone
    PROVE  PlacesInv'
<1> DEFINE at == loc[p].at
           block == [index |-> at, size |-> 1]
<1>1. /\ TypeOK /\ loc[p].pc = "freeheader" /\ Fits(loc[p])
      /\ MarkFreeSpace(hfree, hfree', block, 0) /\ Goto(p, "freebody")
      /\ UNCHANGED <<hdr, bodyEnd, bfree, vidx, threads, order, held>>
  BY DEF PlacesInv, FreeDoomedHeader, FreeHeader, At
<1>2. Holds(p, at) /\ at \in DOMAIN hdr /\ at \in Nat
  BY <1>1, MemoryFacts DEF Holds, Fits
<1>3. at \notin Shown /\ at \notin FreePlaces /\ \A r \in Procs \ {p} : ~Holds(r, at)
  BY <1>2, HoldsFacts
<1>4. hfree \in Seq(Block) /\ NoneTwice(hfree) /\ block \in Block /\ Span(block) = {at}
  <2>1. block \in Block
    BY <1>2 DEF Block
  <2>2. Span(block) = at..(at + 1 - 1)
    BY DEF Span
  <2>3. at..(at + 1 - 1) = {at}
    BY <1>2
  <2>4. QED
    BY <1>1, <2>1, <2>2, <2>3 DEF PlacesInv, PlacesOwned, PlacesNotShared, TypeOK
<1> HIDE DEF block
<1>5. /\ hfree' \in Seq(Block) /\ NoneTwice(hfree')
      /\ Units(hfree') = Units(hfree) \cup Span(block)
  <2>1. Span(block) \cap Units(hfree) = {}
    BY <1>3, <1>4 DEF FreePlaces
  <2>2. QED
    BY <1>1, <1>4, <2>1, MarkFacts
<1>6. /\ loc' \in [Procs -> Memory] /\ loc'[p] = [loc[p] EXCEPT !.pc = "freebody"]
      /\ \A q \in Procs \ {p} : loc'[q] = loc[q]
  <2>1. "freebody" \in Pc
    BY DEF Pc
  <2>2. QED
    BY <1>1, <2>1, GotoMoves
<1>7. loc'[p].pc = "freebody" /\ loc'[p].rq = loc[p].rq /\ loc'[p].todo = loc[p].todo
  BY <1>1, <1>6, MemoryFacts DEF Memory
<1>8. Moves(p)
  BY <1>1, <1>6, HeldMoves
<1>9. /\ loc'[p].pc \notin Flagging \cup Selecting \cup Copying \cup Placing
      /\ loc'[p].pc # "header" /\ loc'[p].pc # "freeheader"
      /\ loc'[p].pc \in Deleting /\ loc[p].pc \in Deleting
  BY <1>1, <1>7 DEF Flagging, Selecting, Copying, Placing, Deleting
<1>10. Fits(loc'[p])
  BY <1>1, <1>7, <1>9 DEF Fits
<1>11. \A q \in Procs : loc[q].pc \in Placing =>
          Unknown(loc'[p], loc[q].msg.vi, vidx[loc[q].msg.vi])
  BY <1>7, <1>9, StillUnknown
<1>12. /\ PlacesOwned' => PlacesInv'
       /\ \A q \in Procs \ {p} : \A x : Holds(q, x)' <=> Holds(q, x)
  BY <1>1, <1>5, <1>8, <1>9, <1>10, <1>11, PartsStill DEF TypeOK
<1>13. \A x : ~Holds(p, x)'
  BY <1>9 DEF Holds
<1>14. Shown' = Shown /\ FreePlaces' = FreePlaces \cup {at}
  BY <1>1, <1>4, <1>5 DEF Shown, FreePlaces
<1>15. PlacesOwned'
  <2>1. PlacesNotShared'
    BY <1>1, <1>3, <1>5, <1>14 DEF PlacesInv, PlacesOwned, PlacesNotShared
  <2>2. FreePlaces' \subseteq DOMAIN hdr'
    BY <1>1, <1>2, <1>14 DEF PlacesInv, PlacesOwned
  <2>3. ASSUME NEW q \in Procs, NEW x \in Nat, Holds(q, x)'
        PROVE  /\ x \notin Shown' /\ x \notin FreePlaces'
               /\ \A r \in Procs \ {q} : ~Holds(r, x)'
    <3>1. q # p /\ Holds(q, x)
      BY <1>12, <1>13, <2>3
    <3>2. /\ x \notin Shown /\ x \notin FreePlaces /\ x # at
          /\ \A r \in Procs \ {q} : ~Holds(r, x)
      BY <1>3, <3>1 DEF PlacesInv, PlacesOwned
    <3>3. QED
      BY <1>12, <1>13, <1>14, <3>2
  <2>4. QED
    BY <2>1, <2>2, <2>3 DEF PlacesOwned
<1>16. QED
  BY <1>12, <1>15

LEMMA OnlyReadStep ==
    ASSUME PlacesInv, NEW p \in Procs, OnlyRead(p), UNCHANGED alone
    PROVE  PlacesInv'
<1>1. TypeOK /\ Exit(p) /\ UNCHANGED store
  BY DEF PlacesInv, OnlyRead
<1>2. QED
  BY <1>1, FilesSame, ExitKeeps

\* A number is taken out: it is not one that a post has been given and not
\* shown yet, for the request to delete has met it.
LEMMA DropNumberStep ==
    ASSUME PlacesInv, NEW p \in Procs, DropNumber(p), UNCHANGED alone
    PROVE  PlacesInv'
<1> DEFINE n == Head(loc[p].todo)
<1>1. /\ TypeOK /\ loc[p].pc = "unindex" /\ Fits(loc[p])
      /\ vidx' = [vidx EXCEPT ![n] = Gone] /\ Goto(p, "read")
      /\ UNCHANGED <<hdr, hfree, bodyEnd, bfree, threads, order, held>>
  BY DEF PlacesInv, DropNumber, At
<1>2. /\ loc[p].pc \in Deleting /\ loc[p].todo \in Seq(Nat) /\ 1 \in DOMAIN loc[p].todo
      /\ n = loc[p].todo[1] /\ n \in DOMAIN vidx /\ vidx \in Seq(Nat)
  <2>1. loc[p].pc \in Deleting /\ loc[p].todo \in Seq(Nat) /\ vidx \in Seq(Nat)
    BY <1>1, MemoryFacts DEF Deleting, TypeOK
  <2>2. Len(loc[p].todo) > 0
    BY <1>1, <2>1 DEF Fits
  <2>3. 1 \in DOMAIN loc[p].todo /\ n = loc[p].todo[1]
    BY <2>1, <2>2
  <2>4. QED
    BY <1>1, <2>1, <2>3 DEF Fits
<1>3. \A q \in Procs : loc[q].pc \in Placing => loc[q].msg.vi # n
  BY <1>2 DEF PlacesInv, NumbersFresh, Unknown
<1> HIDE DEF n
<1>4. vidx' \in Seq(Nat) /\ DOMAIN vidx' = DOMAIN vidx
  BY <1>1, <1>2 DEF Gone
<1>5. \A q \in Procs : loc[q].pc \in Placing =>
         loc[q].msg.vi \in DOMAIN vidx /\ vidx'[loc[q].msg.vi] = vidx[loc[q].msg.vi]
  <2>1. ASSUME NEW q \in Procs, loc[q].pc \in Placing
        PROVE  loc[q].msg.vi \in DOMAIN vidx
    BY <2>1, HoldsFacts
  <2>2. QED
    BY <1>1, <1>2, <1>3, <2>1
<1>6. /\ loc' \in [Procs -> Memory] /\ loc'[p] = [loc[p] EXCEPT !.pc = "read"]
      /\ \A q \in Procs \ {p} : loc'[q] = loc[q]
  <2>1. "read" \in Pc
    BY DEF Pc
  <2>2. QED
    BY <1>1, <2>1, GotoMoves
<1>7. loc'[p].pc = "read" /\ loc'[p].rq = loc[p].rq /\ loc'[p].todo = loc[p].todo
  BY <1>1, <1>6, MemoryFacts DEF Memory
<1>8. Moves(p)
  BY <1>1, <1>6, HeldMoves
<1>9. /\ loc'[p].pc \notin Flagging \cup Selecting \cup Copying \cup Placing
      /\ loc'[p].pc # "header" /\ loc'[p].pc # "freeheader" /\ loc'[p].pc \in Deleting
  BY <1>7 DEF Flagging, Selecting, Copying, Placing, Deleting
<1>10. TypeOK'
  BY <1>1, <1>4, <1>8, TypesStill DEF TypeOK
<1>11. \A q \in Procs : Fits(loc[q])'
  <2>1. Fits(loc[p])'
    BY <1>1, <1>2, <1>4, <1>7, <1>9 DEF Fits
  <2>2. ASSUME NEW q \in Procs \ {p} PROVE Fits(loc[q])'
    <3>1. Fits(loc[q]) /\ loc'[q] = loc[q]
      BY <1>6 DEF PlacesInv
    <3>2. Len(hdr) \in Nat /\ Len(hdr') \in Nat /\ Len(hdr) <= Len(hdr')
          /\ DOMAIN hdr \subseteq DOMAIN hdr' /\ DOMAIN vidx \subseteq DOMAIN vidx'
      BY <1>1, <1>4 DEF TypeOK
    <3>3. QED
      BY <1>5, <3>1, <3>2, FitsGrow
  <2>3. QED
    BY <2>1, <2>2
<1>12. HeldRight'
  BY <1>1, <1>6, <1>9 DEF PlacesInv, HeldRight
<1>13. NumbersKnown'
  BY <1>1, <1>4 DEF PlacesInv, NumbersKnown
<1>14. \A q \in Procs : loc'[q].pc \in Placing =>
          loc[q].pc \in Placing /\ loc'[q].msg.vi = loc[q].msg.vi
  BY <1>6, <1>9
<1>15. NumbersFresh'
  <2> SUFFICES ASSUME NEW q \in Procs, loc'[q].pc \in Placing
               PROVE  /\ \A x \in DOMAIN hdr' :
                           hdr'[x].vi = loc'[q].msg.vi => x = vidx'[loc'[q].msg.vi]
                      /\ \A r \in Procs :
                           Unknown(loc'[r], loc'[q].msg.vi, vidx'[loc'[q].msg.vi])
    BY DEF NumbersFresh, Unknown
  <2>1. loc[q].pc \in Placing /\ loc'[q].msg.vi = loc[q].msg.vi
        /\ vidx'[loc'[q].msg.vi] = vidx[loc[q].msg.vi]
    BY <1>5, <1>14
  <2>2. /\ \A x \in DOMAIN hdr : hdr[x].vi = loc[q].msg.vi => x = vidx[loc[q].msg.vi]
        /\ \A r \in Procs : Unknown(loc[r], loc[q].msg.vi, vidx[loc[q].msg.vi])
    BY <2>1 DEF PlacesInv, NumbersFresh
  <2>3. ASSUME NEW r \in Procs
        PROVE  Unknown(loc'[r], loc[q].msg.vi, vidx[loc[q].msg.vi])
    <3>1. Unknown(loc[r], loc[q].msg.vi, vidx[loc[q].msg.vi])
      BY <2>2
    <3>2. CASE r = p
      BY <1>2, <1>7, <1>9, <3>1, <3>2 DEF Unknown
    <3>3. CASE r # p
      BY <1>6, <3>1, <3>3
    <3>4. QED
      BY <3>2, <3>3
  <2>4. QED
    BY <1>1, <2>1, <2>2, <2>3
<1>16. \A q \in Procs : \A x : Holds(q, x)' <=> Holds(q, x)
  BY ZenonT(40), <1>1, <1>5, <1>6, <1>9 DEF Holds, Placing
<1>17. Shown' = Shown /\ FreePlaces' = FreePlaces
  BY <1>1 DEF Shown, FreePlaces
<1>18. PlacesOwned'
  <2>1. PlacesNotShared' /\ FreePlaces' \subseteq DOMAIN hdr'
    BY <1>1, <1>17 DEF PlacesInv, PlacesOwned, PlacesNotShared
  <2>2. QED
    BY <1>16, <1>17, <2>1 DEF PlacesInv, PlacesOwned
<1>19. QED
  BY <1>10, <1>11, <1>12, <1>13, <1>15, <1>18 DEF PlacesInv

-----------------------------------------------------------------------------
(* Every behaviour. *)

\* The invariant holds of every settled database before its first request.
LEMMA PlacesInit ==
    ASSUME Init PROVE PlacesInv
<1>1. PICK plan \in Plans :
         /\ hdr = plan.seed.hdr /\ hfree = plan.seed.hfree
         /\ bodyEnd = plan.seed.bodyEnd /\ bfree = plan.seed.bfree
         /\ vidx = plan.seed.vidx /\ threads = plan.seed.threads
         /\ order = plan.seed.order
         /\ alone = plan.alone
         /\ loc = [p \in Procs |-> Idle("start", plan.asks[p])]
  BY DEF Init
<1>2. plan.alone \in BOOLEAN /\ plan.asks \in [Procs -> Request] /\ Settled(plan.seed)
  BY MsgStoreAssumption
<1>3. /\ hdr \in Seq(Header) /\ order \in Seq(1..Len(hdr))
      /\ hfree \in Seq(Block) /\ bfree \in Seq(Block)
      /\ bodyEnd \in Nat /\ threads \in Nat /\ vidx \in Seq(Nat)
      /\ IsInjective(order) /\ NoneTwice(hfree) /\ NoneTwice(bfree)
      /\ Shown \cap FreePlaces = {} /\ Shown \cup FreePlaces = DOMAIN hdr
      /\ \A m \in DOMAIN hdr : hdr[m].vi \in DOMAIN vidx
  BY <1>1, <1>2 DEF Settled, Shown, FreePlaces
<1>4. \A p \in Procs : Idle("start", plan.asks[p]) \in Memory
  <2> TAKE p \in Procs
  <2>1. plan.asks[p] \in Request
    BY <1>2
  <2>2. NewHeader \in Header
    BY DEF NewHeader, Header
  <2>3. "start" \in Pc /\ <<>> \in Seq(Nat) /\ 0 \in Nat /\ 0 \in 0..2
    BY DEF Pc
  <2>4. QED
    BY <2>1, <2>2, <2>3 DEF Idle, Memory
<1>5. loc \in [Procs -> Memory] /\ \A p \in Procs : loc[p].pc = "start"
  BY <1>1, <1>4 DEF Idle
<1>6. held \in [{"fm", "fi"} -> Procs \cup {None}]
  BY DEF Init
<1>7. TypeOK
  <2>1. alone \in BOOLEAN
    BY <1>1, <1>2, Zenon
  <2>2. QED
    BY <1>3, <1>5, <1>6, <2>1 DEF TypeOK, Memory
<1>8. "start" \notin Deleting \cup Flagging \cup Selecting \cup Copying \cup Placing
  BY DEF Deleting, Flagging, Selecting, Copying, Placing
<1>9. \A p \in Procs : Fits(loc[p])
  BY <1>5, <1>8 DEF Fits
<1>10. HeldRight /\ NumbersFresh
  BY <1>5, <1>8 DEF HeldRight, NumbersFresh
<1>11. \A p \in Procs : \A x \in Nat : ~Holds(p, x)
  BY <1>5, <1>8 DEF Holds
<1>12. PlacesOwned
  BY <1>3, <1>11 DEF PlacesOwned, PlacesNotShared
<1>13. QED
  BY <1>3, <1>7, <1>9, <1>10, <1>12 DEF PlacesInv, NumbersKnown

LEMMA PlacesStutter ==
    ASSUME PlacesInv, UNCHANGED vars PROVE PlacesInv'
<1>1. UNCHANGED <<hdr, hfree, bodyEnd, bfree, vidx, threads, order, held, alone, loc>>
  BY DEF vars, store
<1>2. TypeOK'
  BY <1>1 DEF PlacesInv, TypeOK
<1>3. (\A p \in Procs : Fits(loc[p])') /\ HeldRight' /\ NumbersKnown' /\ NumbersFresh'
  BY <1>1 DEF PlacesInv, Fits, HeldRight, NumbersKnown, NumbersFresh, Unknown
<1>4. Shown' = Shown /\ FreePlaces' = FreePlaces
      /\ \A p \in Procs : \A x \in Nat : Holds(p, x)' <=> Holds(p, x)
  BY <1>1 DEF Shown, FreePlaces, Holds
<1>5. PlacesOwned'
  BY <1>1, <1>4 DEF PlacesInv, PlacesOwned, PlacesNotShared
<1>6. QED
  BY <1>2, <1>3, <1>5 DEF PlacesInv

LEMMA PlacesServe ==
    ASSUME PlacesInv, NEW p \in Procs, Serve(p)
    PROVE  PlacesInv'
<1>1. UNCHANGED alone
  BY DEF Serve
<1>2. CASE Post(p)
  BY <1>1, <1>2, FindParentStep, ReadParentStep, WriteBodyStep, TakeNumberStep,
     PutHeaderStep, IndexReplyStep, CountThreadStep, IndexThreadStep DEF Post
<1>3. CASE FindRoot(p) \/ SelectThread(p)
  BY <1>1, <1>3, FindRootStep, SelectThreadStep
<1>4. CASE Delete(p)
  BY <1>1, <1>4, FindDoomedStep, DropNumberStep, ReadDoomedStep, CutMessageStep,
     FreeDoomedHeaderStep, FreeDoomedBodyStep DEF Delete
<1>5. CASE Edit(p)
  BY <1>1, <1>5, FindEditedStep, ReadEditedStep, ResizeBodyStep, MoveBodyStep,
     RewriteHeaderStep DEF Edit
<1>6. CASE ChangeFlags(p)
  BY <1>1, <1>6, FindFlaggedStep, OnlyReadStep, ReadFlaggedStep, StoreFlaggedStep
     DEF ChangeFlags
<1>7. QED
  BY <1>2, <1>3, <1>4, <1>5, <1>6 DEF Serve

LEMMA PlacesNext ==
    ASSUME PlacesInv, [Next]_vars PROVE PlacesInv'
<1>1. CASE \E p \in Procs : Begin(p)
  BY <1>1, BeginStep
<1>2. CASE \E p \in Procs : Serve(p)
  BY <1>2, PlacesServe
<1>3. CASE \E p \in Mortal : Die(p)
  BY <1>3, DieStep, MsgStoreAssumption
<1>4. CASE AllServed \/ UNCHANGED vars
  BY <1>4, PlacesStutter DEF AllServed
<1>5. QED
  BY <1>1, <1>2, <1>3, <1>4 DEF Next

THEOREM PlacesInvHolds == Spec => []PlacesInv
<1>1. Init => PlacesInv
  BY PlacesInit
<1>2. PlacesInv /\ [Next]_vars => PlacesInv'
  BY PlacesNext
<1>3. QED
  BY <1>1, <1>2, PTL DEF Spec

\* What the database files and the memory of requests hold is of its type:
\* the display order lists places that the header file has, whatever requests
\* run at once and whichever of them are killed.
THEOREM TypeHolds == Spec => []TypeOK
<1>1. PlacesInv => TypeOK
  BY DEF PlacesInv
<1>2. QED
  BY <1>1, PlacesInvHolds, PTL

\* DB_InsertMessage, DB_DeleteMessage, DB_ChangeMessage and the operations on
\* flags keep the places of headers apart: no place is shown twice, and none
\* is given to a new message while a message is shown at it.  Two requests may
\* delete one thread at once, or edit one message, and any of them may be
\* killed between any two steps.
THEOREM PlacesApart == Spec => []PlacesNotShared
<1>1. PlacesInv => PlacesNotShared
  BY DEF PlacesInv, PlacesOwned
<1>2. QED
  BY <1>1, PlacesInvHolds, PTL
=============================================================================
