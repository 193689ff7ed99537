--------------------------- MODULE MsgOrder_proofs --------------------------
(***************************************************************************)
(* What orderly requests keep right in the message database.  Operations   *)
(* that read a header, or a number's place, and act on it without a lock   *)
(* spoil each other's work; the runs show how.  Requests are orderly if    *)
(* they come one after the other, or if those at once post, read, close    *)
(* and open, and at most one of them deletes or edits.  An edit is not     *)
(* killed: its old body is handed back before its header is written.  It   *)
(* asks for a message that the database started with, or for any number if *)
(* no request before it was killed.                                        *)
(*   OrderInv   numbers lead to their messages, headers in hand are right  *)
(*   BytesInv   a byte of the body file has one owner                      *)
(*   TallyInv   threads are counted right, and no place is lost            *)
(*   ShapeInv   messages are a forest, a reply has its parent's flags      *)
(*   ClosedInv  flags in hand open no closed message                       *)
(***************************************************************************)
EXTENDS MsgStore_proofs

Usual == {"post", "edit", "delete", "close", "open", "view"}
Disturbs(rq) == rq.op \in {"edit", "delete"}

Orderly ==
    \A plan \in Plans :
        /\ \A p \in Procs : plan.asks[p].op = "edit" =>
              /\ p \notin Mortal
              /\ \/ plan.asks[p].vi \in DOMAIN plan.seed.vidx
                 \/ plan.alone /\ Mortal = {}
        /\ ~plan.alone =>
              /\ \A p \in Procs : plan.asks[p].op \in Usual
              /\ \A p, q \in Procs : p # q =>
                    ~(Disturbs(plan.asks[p]) /\ Disturbs(plan.asks[q]))

\* While others are at work, nobody deletes, and replies are to messages that
\* the database started with.  If nobody is killed either, nothing is lost.
Keeping ==
    \A plan \in Plans : ~plan.alone =>
        \A p \in Procs :
            /\ plan.asks[p].op # "delete"
            /\ plan.asks[p].op = "post" /\ plan.asks[p].vi # 0
                  => plan.asks[p].vi \in DOMAIN plan.seed.vidx
KeepsAll == Mortal = {} /\ (alone \/ Keeping)

Resting == {"start"} \cup Over
Posting == {"parent", "inherit", "body", "number", "header", "index", "append"}
Editing == {"translate", "check", "resize", "realloc", "rewrite"}

\* Headers of one message, and such that also share the body.
Kin(g, h) == g.vi = h.vi /\ g.level = h.level /\ g.thread = h.thread
Alike(g, h) == Kin(g, h) /\ g.body = h.body /\ g.size = h.size

\* The message of number n is shown at place x.
Named(x, n) == x \in Shown /\ hdr[x].vi = n

Role(p) ==
    LET m == loc[p]
    IN  /\ m.pc \in Posting => m.rq.op = "post"
        /\ m.pc \in Editing => m.rq.op = "edit"
        /\ m.pc = "dead" => p \in Mortal
        /\ m.rq.op = "edit" => p \notin Mortal
        /\ ~alone => m.rq.op \in Usual
        /\ ~alone /\ Keeping => m.rq.op # "delete"

Apart ==
    \A p, q \in Procs : p # q =>
        /\ alone => loc[p].pc \in Resting \/ loc[q].pc \in Resting
        /\ ~alone => ~(Disturbs(loc[p].rq) /\ Disturbs(loc[q].rq))

Locked(p) ==
    LET m == loc[p]
    IN  /\ m.pc \in {"header", "realloc", "rewrite"} => held["fm"] = p
        /\ m.pc = "store" /\ Locking(m.rq.op) => held["fm"] = p
        /\ m.pc = "append" => held["fi"] = p

\* A header in hand is the one in the file, but for the flags.
Copied(p) ==
    LET m == loc[p]
    IN  /\ m.pc \in {"index", "append"} => Alike(m.msg, hdr[vidx[m.msg.vi]])
        /\ m.pc = "store" =>
              /\ Alike(m.msg, hdr[m.at])
              /\ m.rq.op # "open" /\ "closed" \in hdr[m.at].flags
                    => "closed" \in m.msg.flags

\* What is still to be deleted is shown, once each; the message at hand is
\* shown until it is cut out, and no number leads to its place any more.
Dooms(p) ==
    LET m == loc[p]
    IN  m.pc \in Deleting =>
          /\ \A i, j \in DOMAIN m.todo : m.todo[i] = m.todo[j] => i = j
          /\ \A i \in DOMAIN m.todo :
                i > 1 \/ m.pc = "delete" => \E x \in Nat : Named(x, m.todo[i])
          /\ m.pc \in {"unindex", "read", "cut"} => Named(m.at, m.todo[1])
          /\ m.pc \in {"read", "cut"} => vidx[m.todo[1]] = Gone
          /\ m.pc = "cut" => Alike(m.msg, hdr[m.at])
          /\ m.pc \in {"read", "cut", "freeheader"} /\ NobodyDied
                => \A n \in Live : vidx[n] # m.at

\* Who is to edit, or to reply where nothing gets lost, asks for a message
\* that is shown.
Asks(p) ==
    LET m == loc[p]
        n == m.rq.vi
    IN  /\ m.pc \in {"start", "translate", "parent"}
        /\ m.rq.op = "edit" \/ (m.rq.op = "post" /\ n # 0 /\ KeepsAll)
        => \/ alone /\ Mortal = {}
           \/ n \in DOMAIN vidx /\ (vidx[n] # Gone => Named(vidx[n], n))

\* The message that is edited stays shown.
Edits(p) ==
    LET m == loc[p]
    IN  /\ m.pc \in Editing \ {"translate"} => m.at \in Shown
        /\ m.pc \in {"resize", "realloc", "rewrite"} => Kin(m.msg, hdr[m.at])
        /\ m.pc = "resize" => Alike(m.msg, hdr[m.at])

\* A reply's parent stays shown.
Answers(p) ==
    LET m == loc[p]
    IN  KeepsAll /\ m.rq.vi # 0 /\ m.pc \in Posting \ {"parent"} => m.at \in Shown

Own(p) ==
    /\ Role(p) /\ Locked(p) /\ Copied(p)
    /\ Dooms(p) /\ Asks(p) /\ Edits(p) /\ Answers(p)

\* The number of what is shown leads to it, or nowhere if it is being deleted.
Numbered ==
    \A x \in Shown :
        /\ vidx[hdr[x].vi] \in {x, Gone}
        /\ \A y \in Shown : hdr[x].vi = hdr[y].vi => x = y

\* A number leads to a place of its own, with the header of the message.
KnownNumbers ==
    NobodyDied => \A n \in Live :
        /\ vidx[n] \notin FreePlaces
        /\ n \notin Unwritten => vidx[n] \in DOMAIN hdr /\ hdr[vidx[n]].vi = n
        /\ \A k \in Live : vidx[n] = vidx[k] => n = k

\* What has a number is shown, or about to be.
Tidy ==
    KeepsAll => \A n \in Live :
        \/ vidx[n] \in Shown
        \/ \E p \in Procs : loc[p].pc \in Placing /\ loc[p].msg.vi = n

OrderInv ==
    /\ PlacesInv
    /\ \A p \in Procs : Own(p)
    /\ Apart /\ Numbered /\ KnownNumbers /\ Tidy

\* A step of p, which goes on with what it was asked for or ends, and began it
\* when it could.
Goes(p) ==
    /\ Moves(p)
    /\ loc'[p].rq = loc[p].rq \/ loc'[p].rq.op = "view"
    /\ loc[p].pc # "dead"
    /\ alone => \/ loc'[p].pc \in Resting
                \/ \A q \in Procs \ {p} : loc[q].pc \in Resting

LEMMA GoesOn ==
    ASSUME OrderInv, NEW p \in Procs, Moves(p), loc[p].pc \notin Resting,
           loc'[p].rq = loc[p].rq \/ loc'[p].rq.op = "view"
    PROVE  Goes(p)
<1>1. loc[p].pc # "dead"
  BY DEF Resting, Over
<1>2. alone => \A q \in Procs \ {p} : loc[q].pc \in Resting
  BY DEF OrderInv, Apart
<1>3. QED
  BY <1>1, <1>2 DEF Goes

LEMMA OthersKeep ==
    ASSUME OrderInv, NEW p \in Procs, Goes(p)
    PROVE  /\ Apart'
           /\ \A q \in Procs \ {p} : 
                 loc'[q] = loc[q] /\ Role(q)' /\ Locked(q)'
           /\ NobodyDied' => NobodyDied
           /\ KeepsAll' <=> KeepsAll
<1>1. /\ \A q \in Procs \ {p} : loc'[q] = loc[q]
      /\ alone' = alone
      /\ \A q \in Procs \ {p} : \A lock \in {"fm", "fi"} :
            held'[lock] = q <=> held[lock] = q
  BY DEF Goes, Moves
<1>2. loc'[p].rq.op = "view" => ~Disturbs(loc'[p].rq)
  BY DEF Disturbs
<1>3. Apart'
  <2> SUFFICES ASSUME NEW q \in Procs, NEW r \in Procs, q # r
               PROVE  /\ alone => loc'[q].pc \in Resting \/ loc'[r].pc \in Resting
                      /\ ~alone => ~(Disturbs(loc'[q].rq) /\ Disturbs(loc'[r].rq))
    BY <1>1 DEF Apart
  <2>1. alone => loc'[q].pc \in Resting \/ loc'[r].pc \in Resting
    BY <1>1 DEF OrderInv, Apart, Goes
  <2>2. \A s \in Procs : Disturbs(loc'[s].rq) => Disturbs(loc[s].rq)
    BY <1>1, <1>2 DEF Goes
  <2>3. QED
    BY <2>1, <2>2 DEF OrderInv, Apart
<1>4. \A q \in Procs \ {p} : Role(q)' /\ Locked(q)'
  <2>1. \A q \in Procs \ {p} : Role(q)'
    BY <1>1 DEF OrderInv, Own, Role
  <2>2. \A q \in Procs \ {p} : Locked(q)'
    BY <1>1 DEF OrderInv, Own, Locked
  <2>3. QED
    BY <2>1, <2>2
<1>5. NobodyDied' => NobodyDied
  BY <1>1 DEF NobodyDied, At, Goes
<1>6. KeepsAll' <=> KeepsAll
  BY <1>1 DEF KeepsAll
<1>7. QED
  BY <1>1, <1>3, <1>4, <1>5, <1>6

\* A step that leaves headers, numbers and the index alone: what is left to
\* show is what p knows.
LEMMA OrderStill ==
    ASSUME OrderInv, PlacesInv', NEW p \in Procs, Goes(p),
           UNCHANGED <<hdr, hfree, vidx, order>>, Own(p)',
           loc'[p].pc # "header", 
           loc'[p].pc # "dead" => loc[p].pc # "header",
           KeepsAll /\ loc[p].pc \in Placing =>
              loc'[p].pc \in Placing /\ loc'[p].msg.vi = loc[p].msg.vi
    PROVE  OrderInv'
<1>1. /\ Apart'
      /\ \A q \in Procs \ {p} : loc'[q] = loc[q] /\ Role(q)' /\ Locked(q)'
      /\ NobodyDied' => NobodyDied
      /\ KeepsAll' <=> KeepsAll
  BY OthersKeep
<1>2. /\ Shown' = Shown /\ FreePlaces' = FreePlaces /\ Live' = Live
      /\ \A x, n : Named(x, n)' <=> Named(x, n)
      /\ alone' = alone
  BY DEF Shown, FreePlaces, Live, Named, Goes, Moves
<1>3. \A q \in Procs \ {p} : Own(q)'
  <2> TAKE q \in Procs \ {p}
  <2>1. Role(q)' /\ Locked(q)' /\ loc'[q] = loc[q] /\ Own(q)
    BY <1>1 DEF OrderInv
  <2>2. Copied(q)' /\ Asks(q)' /\ Edits(q)' /\ Answers(q)'
    BY <1>1, <1>2, <2>1 DEF Own, Copied, Asks, Edits, Answers
  <2>3. Dooms(q)'
    BY <1>1, <1>2, <2>1 DEF Own, Dooms
  <2>4. QED
    BY <2>1, <2>2, <2>3 DEF Own
<1>4. Numbered'
  BY <1>2 DEF OrderInv, Numbered
<1>5. KnownNumbers'
  <2> SUFFICES ASSUME NobodyDied' PROVE KnownNumbers'
    BY DEF KnownNumbers
  <2>1. loc'[p].pc # "dead"
    BY DEF NobodyDied, At
  <2>2. Unwritten' = Unwritten
    BY <1>1, <2>1 DEF Unwritten, At
  <2>3. QED
    BY <1>1, <1>2, <2>2 DEF OrderInv, KnownNumbers
<1>6. Tidy'
  <2>1. KeepsAll => \A q \in Procs : loc[q].pc \in Placing =>
                       loc'[q].pc \in Placing /\ loc'[q].msg.vi = loc[q].msg.vi
    BY <1>1
  <2>2. QED
    BY <1>1, <1>2, <2>1 DEF OrderInv, Tidy
<1>7. QED
  BY <1>1, <1>3, <1>4, <1>5, <1>6 DEF OrderInv

\* What a request that has ended must respect.
LEMMA EndedOwn ==
    ASSUME NEW p \in Procs, loc'[p].rq.op = "view",
           loc'[p].pc = "done" \/ (loc'[p].pc = "dead" /\ p \in Mortal)
    PROVE  Own(p)'
<1>1. /\ loc'[p].pc \notin Posting \cup Editing \cup Deleting \cup Placing
      /\ loc'[p].pc \notin {"store", "start"} /\ loc'[p].pc # "header"
      /\ loc'[p].rq.op \in Usual
  BY DEF Posting, Editing, Deleting, Placing, Usual
<1>2. Role(p)'
  BY <1>1 DEF Role
<1>3. Locked(p)' /\ Copied(p)' /\ Asks(p)' /\ Edits(p)'
  BY <1>1 DEF Locked, Copied, Asks, Edits, Editing, Posting, Placing
<1>4. Dooms(p)' /\ Answers(p)'
  BY <1>1 DEF Dooms, Answers
<1>5. QED
  BY <1>2, <1>3, <1>4 DEF Own

LEMMA ExitOwn ==
    ASSUME OrderInv, NEW p \in Procs, Exit(p), UNCHANGED alone,
           loc[p].pc \notin Resting
    PROVE  Goes(p) /\ Own(p)' /\ loc'[p].pc = "done"
<1>1. TypeOK
  BY DEF OrderInv, PlacesInv
<1>2. Moves(p) /\ loc'[p].pc = "done" /\ loc'[p].rq.op = "view"
  <2>1. "done" \in Pc
    BY DEF Pc
  <2>2. QED
    BY <1>1, <2>1, ExitMoves, EndedFacts
<1>3. Goes(p)
  BY <1>2, GoesOn
<1>4. Own(p)'
  BY <1>2, EndedOwn
<1>5. QED
  BY <1>2, <1>3, <1>4

LEMMA ExitOrder ==
    ASSUME OrderInv, PlacesInv', NEW p \in Procs, Exit(p), UNCHANGED alone,
           UNCHANGED <<hdr, hfree, vidx, order>>,
           loc[p].pc \notin Resting \cup Placing
    PROVE  OrderInv'
<1>1. Goes(p) /\ Own(p)' /\ loc'[p].pc = "done"
  BY ExitOwn
<1>2. loc[p].pc # "header"
  BY DEF Placing
<1>3. QED
  BY <1>1, <1>2, OrderStill

LEMMA RoleStays ==
    ASSUME NEW p \in Procs, Role(p), loc'[p].rq = loc[p].rq, alone' = alone,
           loc'[p].pc \in Posting => loc[p].rq.op = "post",
           loc'[p].pc \in Editing => loc[p].rq.op = "edit",
           loc'[p].pc # "dead"
    PROVE  Role(p)'
  BY DEF Role

\* Counters that say nothing about what is in hand.
LEMMA FreeOwn ==
    ASSUME OrderInv, NEW p \in Procs, alone' = alone, loc'[p].rq = loc[p].rq,
           loc'[p].pc \in {"select", "walk", "flags", "update"}
    PROVE  Own(p)'
<1>1. /\ loc'[p].pc \notin Posting \cup Editing \cup Deleting
      /\ loc'[p].pc \notin {"start", "translate", "parent", "index", "append", "header",
                            "realloc", "rewrite", "resize", "store", "dead"}
  BY DEF Posting, Editing, Deleting
<1>2. Role(p)'
  BY <1>1, RoleStays DEF OrderInv, Own
<1>3. /\ Locked(p)' /\ Copied(p)' /\ Dooms(p)' /\ Asks(p)' /\ Edits(p)'
      /\ Answers(p)'
  BY <1>1 DEF Locked, Copied, Dooms, Asks, Edits, Answers
<1>4. QED
  BY <1>2, <1>3 DEF Own

\* Counters of a post or an edit that has no lock and no header in hand.
LEMMA AskedOwn ==
    ASSUME OrderInv, NEW p \in Procs, alone' = alone, loc'[p].rq = loc[p].rq,
           \/ loc'[p].pc \in {"parent", "inherit", "body", "number"} /\ loc[p].rq.op = "post"
           \/ loc'[p].pc \in {"translate", "check"} /\ loc[p].rq.op = "edit",
           Asks(p)', Answers(p)',
           loc'[p].pc = "check" => loc'[p].at \in Shown'
    PROVE  Own(p)'
<1>1. /\ loc'[p].pc \notin Deleting
      /\ loc'[p].pc \notin {"start", "index", "append", "header",
                            "realloc", "rewrite", "resize", "store", "dead"}
      /\ loc'[p].pc \in Posting => loc[p].rq.op = "post"
      /\ loc'[p].pc \in Editing => loc[p].rq.op = "edit"
      /\ loc'[p].pc \in Editing \ {"translate"} => loc'[p].pc = "check"
  BY DEF Posting, Editing, Deleting
<1>2. Role(p)'
  BY <1>1, RoleStays DEF OrderInv, Own
<1>3. Locked(p)' /\ Copied(p)' /\ Dooms(p)' /\ Edits(p)'
  BY <1>1 DEF Locked, Copied, Dooms, Edits
<1>4. QED
  BY <1>2, <1>3 DEF Own

LEMMA BeginOrder ==
    ASSUME OrderInv, PlacesInv', NEW p \in Procs, Begin(p)
    PROVE  OrderInv'
<1>1. /\ TypeOK /\ loc[p].pc = "start" /\ UNCHANGED <<store, held, alone>>
      /\ alone => \A q \in Procs : loc[q].pc \in Resting
      /\ Own(p)
  BY DEF OrderInv, PlacesInv, Begin, At, Resting
<1>2. /\ loc \in [Procs -> Memory] /\ loc' \in [Procs -> Memory]
      /\ hdr' = hdr /\ hfree' = hfree /\ vidx' = vidx /\ order' = order
  BY <1>1, MemoryFacts DEF PlacesInv, TypeOK, Memory, store
<1> DEFINE rq == loc[p].rq
           pc == CASE rq.op = "post" -> IF rq.vi = 0 THEN "body" ELSE "parent"
                   [] rq.op = "edit" -> "translate"
                   [] rq.op \in Single -> "flags"
                   [] OTHER -> "select"
           todo == IF rq.op \in Single THEN <<rq.vi>> ELSE << >>
<1>3. loc' = [loc EXCEPT ![p].pc = pc, ![p].todo = todo]
  BY DEF Begin
<1>4. \/ pc \in {"body", "parent"} /\ rq.op = "post" /\ (pc = "body" => rq.vi = 0)
      \/ pc = "translate" /\ rq.op = "edit"
      \/ pc \in {"flags", "select"}
  BY DEF Single, Reading
<1> HIDE DEF pc, todo, rq
<1>5. /\ loc'[p].pc = pc /\ loc'[p].rq = rq
      /\ \A q \in Procs \ {p} : loc'[q] = loc[q]
  <2>1. loc'[p] = [loc[p] EXCEPT !.pc = pc, !.todo = todo]
    BY <1>2, <1>3
  <2>2. QED
    BY <1>2, <1>3, <2>1 DEF Memory, rq
<1>6. Goes(p)
  <2>1. Moves(p)
    BY <1>1, <1>2, <1>5, HeldMoves
  <2>2. QED
    BY <1>1, <1>5, <2>1 DEF Goes, rq
<1>7. Own(p)'
  <2>1. KeepsAll' <=> KeepsAll
    BY <1>6, OthersKeep
  <2>2. \A x, n : Named(x, n)' <=> Named(x, n)
    BY <1>2 DEF Named, Shown
  <2>3. Asks(p)'
    BY <1>1, <1>2, <1>4, <1>5, <2>1, <2>2 DEF Own, Asks, rq
  <2>4. CASE pc \in {"flags", "select"}
    BY <1>1, <1>5, <2>4, FreeOwn DEF rq
  <2>5. CASE pc \in {"body", "parent"} /\ rq.op = "post"
    <3>1. Answers(p)'
      BY <1>4, <1>5, <2>5 DEF Answers
    <3>2. QED
      BY <1>1, <1>5, <2>3, <2>5, <3>1, AskedOwn DEF rq
  <2>6. CASE pc = "translate" /\ rq.op = "edit"
    <3>1. Answers(p)'
      BY <1>5, <2>6 DEF Answers, Posting
    <3>2. QED
      BY <1>1, <1>5, <2>3, <2>6, <3>1, AskedOwn DEF rq
  <2>7. QED
    BY <1>4, <2>4, <2>5, <2>6
<1>8. loc'[p].pc # "header" /\ loc[p].pc # "header" /\ loc[p].pc \notin Placing
  BY <1>1, <1>4, <1>5 DEF Placing
<1>9. QED
  BY <1>2, <1>6, <1>7, <1>8, OrderStill

LEMMA DieOrder ==
    ASSUME OrderInv, PlacesInv', NEW p \in Procs, p \in Mortal, Die(p)
    PROVE  OrderInv'
<1>1. /\ TypeOK /\ UNCHANGED <<store, alone>> /\ loc[p].pc \notin Resting
      /\ loc' = [loc EXCEPT ![p] = Ended("dead")] /\ held' = Released(p)
  BY DEF OrderInv, PlacesInv, Die, Resting
<1>2. loc'[p] = Ended("dead") /\ \A q \in Procs \ {p} : loc'[q] = loc[q]
  BY <1>1, MemoryFacts
<1>3. loc'[p].pc = "dead" /\ loc'[p].rq.op = "view"
  <2>1. "dead" \in Pc
    BY DEF Pc
  <2>2. QED
    BY <1>2, <2>1, EndedFacts
<1>4. Goes(p)
  <2>1. loc' \in [Procs -> Memory]
    BY DEF PlacesInv, TypeOK, Memory
  <2>2. Moves(p)
    BY <1>1, <1>2, <2>1, ReleasedFacts DEF Moves
  <2>3. QED
    BY <1>1, <1>3, <2>2, GoesOn
<1>5. Own(p)'
  BY <1>3, EndedOwn
<1>6. ~KeepsAll /\ UNCHANGED <<hdr, hfree, vidx, order>>
  BY <1>1 DEF KeepsAll, store
<1>7. QED
  BY <1>3, <1>4, <1>5, <1>6, OrderStill

\* Goes(p) of a step that takes and drops no lock.
LEMMA GoesStill ==
    ASSUME OrderInv, PlacesInv', NEW p \in Procs, loc[p].pc \notin Resting,
           UNCHANGED <<held, alone>>, \A q \in Procs \ {p} : loc'[q] = loc[q],
           loc'[p].rq = loc[p].rq
    PROVE  Goes(p)
<1>1. TypeOK /\ loc' \in [Procs -> Memory]
  BY DEF OrderInv, PlacesInv, TypeOK, Memory
<1>2. Moves(p)
  BY <1>1, HeldMoves
<1>3. QED
  BY <1>2, GoesOn

LEMMA StoreStill ==
    ASSUME UNCHANGED store
    PROVE  /\ UNCHANGED <<hdr, hfree, vidx, order>>
           /\ Shown' = Shown /\ \A x, n : Named(x, n)' <=> Named(x, n)
  BY DEF store, Shown, Named

\* Where nothing gets lost, a number asked for leads to a message that is shown.
LEMMA AskedShown ==
    ASSUME OrderInv, NEW p \in Procs,
           \/ loc[p].pc = "translate"
           \/ loc[p].pc = "parent" /\ KeepsAll /\ loc[p].rq.vi # 0,
           Translate(loc[p].rq.vi) # Gone
    PROVE  Translate(loc[p].rq.vi) \in Shown
<1> DEFINE n == loc[p].rq.vi
<1>1. TypeOK /\ Own(p)
  BY DEF OrderInv, PlacesInv
<1>2. Translate(n) = vidx[n] /\ n \in Live
  BY <1>1, TranslateFacts DEF Live
<1>3. loc[p].pc = "translate" => loc[p].rq.op = "edit"
  BY <1>1 DEF Own, Role, Editing
<1>4. loc[p].pc = "parent" => loc[p].rq.op = "post"
  BY <1>1 DEF Own, Role, Posting
<1>5. \/ alone /\ Mortal = {}
      \/ n \in DOMAIN vidx /\ (vidx[n] # Gone => Named(vidx[n], n))
  BY <1>1, <1>3, <1>4 DEF Own, Asks
<1>6. CASE alone /\ Mortal = {}
  <2>1. vidx[n] \in Shown \/ \E q \in Procs : loc[q].pc \in Placing
    BY <1>2, <1>6 DEF OrderInv, Tidy, KeepsAll
  <2>2. \A q \in Procs : loc[q].pc \notin Placing
    <3> SUFFICES ASSUME NEW q \in Procs, loc[q].pc \in Placing PROVE FALSE
      OBVIOUS
    <3>1. q # p /\ loc[q].pc \notin Resting /\ loc[p].pc \notin Resting
      BY DEF Placing, Resting, Over
    <3>2. QED
      BY <1>6, <3>1 DEF OrderInv, Apart
  <2>3. QED
    BY <1>2, <2>1, <2>2
<1>7. CASE n \in DOMAIN vidx /\ (vidx[n] # Gone => Named(vidx[n], n))
  BY <1>2, <1>7 DEF Named, Live
<1>8. QED
  BY <1>5, <1>6, <1>7

LEMMA FindParentOrder ==
    ASSUME OrderInv, PlacesInv', NEW p \in Procs, FindParent(p), UNCHANGED alone
    PROVE  OrderInv'
<1> DEFINE at == Translate(loc[p].rq.vi)
<1>1. /\ TypeOK /\ loc[p].pc = "parent" /\ UNCHANGED store /\ Own(p)
      /\ loc[p].pc \notin Resting \cup Placing
  BY DEF OrderInv, PlacesInv, FindParent, At, Resting, Over, Placing
<1>2. UNCHANGED <<hdr, hfree, vidx, order>> /\ Shown' = Shown
  BY <1>1, StoreStill
<1>3. CASE at = Gone
  BY <1>1, <1>2, <1>3, ExitOrder DEF FindParent
<1>4. CASE at # Gone
  <2>1. loc' = [loc EXCEPT ![p].at = at, ![p].pc = "inherit"] /\ UNCHANGED held
    BY <1>4 DEF FindParent
  <2>2. KeepsAll /\ loc[p].rq.vi # 0 => at \in Shown
    BY <1>1, <1>4, AskedShown
  <2> HIDE DEF at
  <2>3. loc'[p] = [loc[p] EXCEPT !.at = at, !.pc = "inherit"]
        /\ \A q \in Procs \ {p} : loc'[q] = loc[q]
    BY <1>1, <2>1, MemoryFacts
  <2>4. loc'[p].pc = "inherit" /\ loc'[p].at = at /\ loc'[p].rq = loc[p].rq
    BY <1>1, <2>3, MemoryFacts DEF Memory
  <2>5. Goes(p)
    BY <1>1, <2>1, <2>3, <2>4, GoesStill
  <2>6. Own(p)'
    <3>1. KeepsAll' <=> KeepsAll
      BY <2>5, OthersKeep
    <3>2. Asks(p)' /\ Answers(p)' /\ loc[p].rq.op = "post"
      BY <1>1, <1>2, <2>2, <2>4, <3>1 DEF Asks, Answers, Own, Role, Posting
    <3>3. QED
      BY <2>4, <3>2, AskedOwn
  <2>7. QED
    BY <1>1, <1>2, <2>4, <2>5, <2>6, OrderStill DEF Placing
<1>5. QED
  BY <1>3, <1>4

LEMMA ReadParentOrder ==
    ASSUME OrderInv, PlacesInv', NEW p \in Procs, ReadParent(p), UNCHANGED alone
    PROVE  OrderInv'
<1> DEFINE h == hdr[loc[p].at]
           out == loc[p].at \notin DOMAIN hdr \/ Barred(h, loc[p].rq)
<1>1. /\ TypeOK /\ loc[p].pc = "inherit" /\ UNCHANGED store /\ Own(p)
      /\ loc[p].pc \notin Resting \cup Placing
  BY DEF OrderInv, PlacesInv, ReadParent, At, Resting, Over, Placing
<1>2. UNCHANGED <<hdr, hfree, vidx, order>> /\ Shown' = Shown
  BY <1>1, StoreStill
<1>3. CASE out
  BY <1>1, <1>2, <1>3, ExitOrder DEF ReadParent
<1>4. CASE ~out
  <2>1. /\ loc' = [loc EXCEPT
                      ![p].msg.level = h.level + 1,
                      ![p].msg.thread = HeadOf(h, loc[p].at),
                      ![p].msg.flags = h.flags,
                      ![p].pc = "body"]
        /\ UNCHANGED held
    BY <1>4 DEF ReadParent
  <2> HIDE DEF h
  <2>3. loc'[p] = [loc[p] EXCEPT !.msg.level = h.level + 1,
                                 !.msg.thread = HeadOf(h, loc[p].at),
                                 !.msg.flags = h.flags, !.pc = "body"]
        /\ \A q \in Procs \ {p} : loc'[q] = loc[q]
    BY <1>1, <2>1, MemoryFacts
  <2>4. loc'[p].pc = "body" /\ loc'[p].at = loc[p].at /\ loc'[p].rq = loc[p].rq
    BY <1>1, <2>3, MemoryFacts DEF Memory
  <2>5. Goes(p)
    BY <1>1, <2>1, <2>3, <2>4, GoesStill
  <2>6. Own(p)'
    <3>1. KeepsAll' <=> KeepsAll
      BY <2>5, OthersKeep
    <3>2. Asks(p)' /\ Answers(p)' /\ loc[p].rq.op = "post"
      BY <1>1, <1>2, <2>4, <3>1 DEF Asks, Answers, Own, Role, Posting
    <3>3. QED
      BY <2>4, <3>2, AskedOwn
  <2>7. QED
    BY <1>1, <1>2, <2>4, <2>5, <2>6, OrderStill DEF Placing
<1>5. QED
  BY <1>3, <1>4

\* Finding a body's space: nothing but lists of bytes changes.
LEMMA WriteBodyOrder ==
    ASSUME OrderInv, PlacesInv', NEW p \in Procs, WriteBody(p), UNCHANGED alone
    PROVE  OrderInv'
<1>1. /\ TypeOK /\ loc[p].pc = "body" /\ UNCHANGED <<hdr, hfree, vidx, order, held>>
      /\ loc[p].pc \notin Resting \cup Placing /\ Own(p)
  BY DEF OrderInv, PlacesInv, WriteBody, At, Resting, Over, Placing
<1>2. PICK at \in 0..(bodyEnd + Pad) :
         loc' = [loc EXCEPT ![p].msg.body = at, ![p].msg.size = loc[p].rq.size,
                            ![p].pc = "number"]
  BY DEF WriteBody
<1>3. loc'[p] = [loc[p] EXCEPT !.msg.body = at, !.msg.size = loc[p].rq.size,
                               !.pc = "number"]
      /\ \A q \in Procs \ {p} : loc'[q] = loc[q]
  BY <1>1, <1>2, MemoryFacts
<1>4. loc'[p].pc = "number" /\ loc'[p].at = loc[p].at /\ loc'[p].rq = loc[p].rq
  BY <1>1, <1>3, MemoryFacts DEF Memory
<1>5. Goes(p)
  BY <1>1, <1>3, <1>4, GoesStill
<1>6. Own(p)'
  <2>1. (KeepsAll' <=> KeepsAll) /\ Shown' = Shown
    BY <1>1, <1>5, OthersKeep DEF Shown
  <2>2. Asks(p)' /\ Answers(p)' /\ loc[p].rq.op = "post"
    BY <1>1, <1>4, <2>1 DEF Asks, Answers, Own, Role, Posting
  <2>3. QED
    BY <1>4, <2>2, AskedOwn
<1>7. QED
  BY <1>1, <1>4, <1>5, <1>6, OrderStill DEF Placing

LEMMA DoomedOwn ==
    ASSUME OrderInv, NEW p \in Procs, alone' = alone, loc'[p].rq = loc[p].rq,
           loc'[p].pc \in Deleting, Dooms(p)'
    PROVE  Own(p)'
<1>1. /\ loc'[p].pc \notin Posting \cup Editing
      /\ loc'[p].pc \notin {"start", "translate", "parent", "index", "append", "header",
                            "realloc", "rewrite", "resize", "store", "dead"}
  BY DEF Posting, Editing, Deleting
<1>2. Role(p)'
  BY <1>1, RoleStays DEF OrderInv, Own
<1>3. Locked(p)' /\ Copied(p)' /\ Asks(p)' /\ Edits(p)' /\ Answers(p)'
  BY <1>1 DEF Locked, Copied, Asks, Edits, Answers
<1>4. QED
  BY <1>2, <1>3 DEF Own

\* On to the next message: it is shown, as the others still to be deleted are.
LEMMA AdvanceOwn ==
    ASSUME OrderInv, NEW p \in Procs, loc[p].pc \in Deleting \cup Flagging,
           NEW code, code \in 0..2, Advance(p, code), UNCHANGED alone,
           loc[p].pc \in Deleting => UNCHANGED <<hdr, order>>
    PROVE  /\ Goes(p) /\ Own(p)'
           /\ loc'[p].pc \in {"done", "delete", "flags"}
<1>1. TypeOK /\ Fits(loc[p]) /\ Own(p)
  BY DEF OrderInv, PlacesInv
<1>2. Len(loc[p].todo) > 0 /\ loc[p].todo \in Seq(Nat)
  BY <1>1, MemoryFacts DEF Fits
<1>3. /\ Moves(p)
      /\ \/ loc'[p] = Ended("done") /\ loc'[p].pc = "done"
         \/ /\ loc'[p].pc = IF loc[p].rq.op = "delete" THEN "delete" ELSE "flags"
            /\ loc'[p].rq = loc[p].rq
            /\ Len(loc'[p].todo) > 0
            /\ Len(loc'[p].todo) = Len(loc[p].todo) - 1
            /\ \A i \in 1..(Len(loc[p].todo) - 1) :
                  loc'[p].todo[i] = loc[p].todo[i + 1]
  BY <1>1, <1>2, AdvanceMoves
<1>4. loc[p].pc \notin Resting /\ alone' = alone
  BY <1>3 DEF Deleting, Flagging, Resting, Over, Moves
<1>5. CASE loc'[p] = Ended("done") /\ loc'[p].pc = "done"
  <2>1. loc'[p].rq.op = "view"
    <3>1. "done" \in Pc
      BY DEF Pc
    <3>2. QED
      BY <1>5, <3>1, EndedFacts
  <2>2. QED
    BY <1>3, <1>4, <1>5, <2>1, GoesOn, EndedOwn
<1>6. CASE loc'[p].pc # "done"
  <2>1. Goes(p)
    BY <1>3, <1>4, <1>6, GoesOn
  <2>2. CASE loc[p].rq.op # "delete"
    <3>1. loc'[p].pc = "flags"
      BY <1>3, <1>6, <2>2
    <3>2. QED
      BY <1>3, <1>4, <1>6, <2>1, <3>1, FreeOwn
  <2>3. CASE loc[p].rq.op = "delete"
    <3>1. loc'[p].pc = "delete" /\ loc[p].pc \in Deleting
      BY <1>1, <1>3, <1>6, <2>3, Kinds DEF Fits
    <3>2. loc'[p].todo \in Seq(Nat)
      BY <1>3 DEF Moves, Memory
    <3>3. ASSUME NEW i \in DOMAIN loc'[p].todo
          PROVE  /\ i + 1 \in DOMAIN loc[p].todo /\ loc'[p].todo[i] = loc[p].todo[i + 1]
                 /\ i + 1 > 1 /\ i \in Nat
      <4>1. Len(loc'[p].todo) = Len(loc[p].todo) - 1 /\ i \in 1..Len(loc'[p].todo)
        BY <1>3, <1>6, <3>2
      <4>2. i \in 1..(Len(loc[p].todo) - 1)
        BY <4>1
      <4>3. i + 1 \in 1..Len(loc[p].todo) /\ i + 1 > 1 /\ i \in Nat
        BY <1>2, <4>2
      <4>4. QED
        BY <1>2, <1>3, <1>6, <4>2, <4>3
    <3>4. /\ \A i, j \in DOMAIN loc[p].todo : loc[p].todo[i] = loc[p].todo[j] => i = j
          /\ \A i \in DOMAIN loc[p].todo :
                i > 1 \/ loc[p].pc = "delete" => \E x \in Nat : Named(x, loc[p].todo[i])
      BY <1>1, <3>1 DEF Own, Dooms
    <3>5. \A i, j \in DOMAIN loc'[p].todo : loc'[p].todo[i] = loc'[p].todo[j] => i = j
      <4> TAKE i, j \in DOMAIN loc'[p].todo
      <4> HAVE loc'[p].todo[i] = loc'[p].todo[j]
      <4>1. i + 1 = j + 1 /\ i \in Nat /\ j \in Nat
        BY <3>3, <3>4
      <4>2. QED
        BY <4>1
    <3>6. \A i \in DOMAIN loc'[p].todo : \E x \in Nat : Named(x, loc'[p].todo[i])
      BY <3>3, <3>4
    <3>7. \A x, n : Named(x, n)' <=> Named(x, n)
      BY <3>1 DEF Named, Shown
    <3>8. Dooms(p)'
      BY <3>1, <3>5, <3>6, <3>7 DEF Dooms
    <3>9. loc'[p].pc \in Deleting
      BY <3>1 DEF Deleting
    <3>10. QED
      BY <1>3, <1>4, <1>6, <2>1, <3>1, <3>8, <3>9, DoomedOwn
  <2>4. QED
    BY <2>2, <2>3
<1>7. QED
  BY <1>3, <1>5, <1>6

LEMMA AdvanceOrder ==
    ASSUME OrderInv, PlacesInv', NEW p \in Procs, loc[p].pc \in Deleting \cup Flagging,
           NEW code, code \in 0..2, Advance(p, code), UNCHANGED alone,
           UNCHANGED <<hdr, hfree, vidx, order>>
    PROVE  OrderInv'
<1>1. /\ Goes(p) /\ Own(p)'
      /\ loc'[p].pc \in {"done", "delete", "flags"}
  BY AdvanceOwn
<1>2. loc[p].pc # "header" /\ loc[p].pc \notin Placing
  BY DEF Deleting, Flagging, Placing
<1>3. QED
  BY <1>1, <1>2, OrderStill

LEMMA FindRootOrder ==
    ASSUME OrderInv, PlacesInv', NEW p \in Procs, FindRoot(p), UNCHANGED alone
    PROVE  OrderInv'
<1> DEFINE at == Translate(loc[p].rq.vi)
<1>1. /\ TypeOK /\ loc[p].pc = "select" /\ UNCHANGED store
      /\ loc[p].pc \notin Resting \cup Placing
  BY DEF OrderInv, PlacesInv, FindRoot, At, Resting, Over, Placing
<1>2. UNCHANGED <<hdr, hfree, vidx, order>>
  BY <1>1, StoreStill
<1>3. CASE at = Gone
  BY <1>1, <1>2, <1>3, ExitOrder DEF FindRoot
<1>4. CASE at # Gone
  <2>1. loc' = [loc EXCEPT ![p].at = at, ![p].pc = "walk"] /\ UNCHANGED held
    BY <1>4 DEF FindRoot
  <2> HIDE DEF at
  <2>2. loc'[p] = [loc[p] EXCEPT !.at = at, !.pc = "walk"]
        /\ \A q \in Procs \ {p} : loc'[q] = loc[q]
    BY <1>1, <2>1, MemoryFacts
  <2>3. loc'[p].pc = "walk" /\ loc'[p].rq = loc[p].rq
    BY <1>1, <2>2, MemoryFacts DEF Memory
  <2>4. Goes(p) /\ Own(p)'
    BY <1>1, <2>1, <2>2, <2>3, GoesStill, FreeOwn
  <2>5. QED
    BY <1>1, <1>2, <2>3, <2>4, OrderStill DEF Placing
<1>5. QED
  BY <1>3, <1>4

LEMMA FindFlaggedOrder ==
    ASSUME OrderInv, PlacesInv', NEW p \in Procs, FindFlagged(p), UNCHANGED alone
    PROVE  OrderInv'
<1> DEFINE at == Translate(Head(loc[p].todo))
<1>1. /\ TypeOK /\ loc[p].pc = "flags" /\ UNCHANGED store
      /\ loc[p].pc \notin Resting \cup Placing /\ loc[p].pc \in Flagging
  BY DEF OrderInv, PlacesInv, FindFlagged, At, Resting, Over, Placing, Flagging
<1>2. UNCHANGED <<hdr, hfree, vidx, order>>
  BY <1>1, StoreStill
<1>3. CASE Exit(p)
  BY <1>1, <1>2, <1>3, ExitOrder
<1>4. CASE Advance(p, 0)
  BY <1>1, <1>2, <1>4, AdvanceOrder
<1>5. CASE loc' = [loc EXCEPT ![p].at = at, ![p].pc = "update"] /\ UNCHANGED held
  <2> HIDE DEF at
  <2>2. loc'[p] = [loc[p] EXCEPT !.at = at, !.pc = "update"]
        /\ \A q \in Procs \ {p} : loc'[q] = loc[q]
    BY <1>1, <1>5, MemoryFacts
  <2>3. loc'[p].pc = "update" /\ loc'[p].rq = loc[p].rq
    BY <1>1, <2>2, MemoryFacts DEF Memory
  <2>4. Goes(p) /\ Own(p)'
    BY <1>1, <1>5, <2>2, <2>3, GoesStill, FreeOwn
  <2>5. QED
    BY <1>1, <1>2, <2>3, <2>4, OrderStill DEF Placing
<1>6. QED
  BY <1>3, <1>4, <1>5 DEF FindFlagged

LEMMA OnlyReadOrder ==
    ASSUME OrderInv, PlacesInv', NEW p \in Procs, OnlyRead(p), UNCHANGED alone
    PROVE  OrderInv'
<1>1. Exit(p) /\ UNCHANGED store /\ loc[p].pc \notin Resting \cup Placing
  BY DEF OnlyRead, At, Resting, Over, Placing
<1>2. QED
  BY <1>1, StoreStill, ExitOrder

\* Reading a header to change its flags, and the header in hand.
LEMMA ReadFlaggedOrder ==
    ASSUME OrderInv, PlacesInv', NEW p \in Procs, ReadFlagged(p), UNCHANGED alone
    PROVE  OrderInv'
<1> DEFINE op == loc[p].rq.op
           at == loc[p].at
           flags == NewFlags(hdr[at].flags, op, loc[p].code)
           msg == [hdr[at] EXCEPT !.flags = flags]
<1>1. /\ TypeOK /\ loc[p].pc = "update" /\ UNCHANGED store /\ Fits(loc[p])
      /\ loc[p].pc \notin Resting \cup Placing /\ loc[p].pc \in Flagging
  BY DEF OrderInv, PlacesInv, ReadFlagged, At, Resting, Over, Placing, Flagging
<1>2. UNCHANGED <<hdr, hfree, vidx, order>>
  BY <1>1, StoreStill
<1>3. CASE Exit(p)
  BY <1>1, <1>2, <1>3, ExitOrder
<1>4. CASE Advance(p, 0) \/ (at \in DOMAIN hdr /\ Advance(p, Rolled(flags)))
  <2>1. Rolled(flags) \in 0..2
    BY DEF Rolled
  <2>2. QED
    BY <1>1, <1>2, <1>4, <2>1, AdvanceOrder
<1>5. CASE /\ at \in DOMAIN hdr
           /\ loc' = [loc EXCEPT ![p].msg = msg, ![p].pc = "store"]
           /\ IF Locking(op) THEN Free("fm") /\ Take(p, "fm") ELSE UNCHANGED held
  <2>1. hdr[at] \in Header
    BY <1>1, <1>5 DEF TypeOK
  <2>2. /\ Alike(msg, hdr[at])
        /\ op # "open" /\ "closed" \in hdr[at].flags => "closed" \in msg.flags
    <3>1. Alike(msg, hdr[at]) /\ msg.flags = flags
      <4> HIDE DEF flags
      <4>1. QED
        BY <2>1 DEF Header, Alike, Kin
    <3>2. op \in ReadModifyWrite
      BY <1>1 DEF Fits
    <3>3. op # "open" /\ "closed" \in hdr[at].flags => "closed" \in flags
      BY <3>2 DEF NewFlags, ReadModifyWrite, Single, Reading
    <3>4. QED
      BY <3>1, <3>3
  <2> HIDE DEF msg
  <2>3. loc'[p] = [loc[p] EXCEPT !.msg = msg, !.pc = "store"]
        /\ \A q \in Procs \ {p} : loc'[q] = loc[q]
    BY <1>1, <1>5, MemoryFacts
  <2>4. /\ loc'[p].pc = "store" /\ loc'[p].rq = loc[p].rq
        /\ loc'[p].msg = msg /\ loc'[p].at = at
    BY <1>1, <2>3, MemoryFacts DEF Memory
  <2>5. Moves(p) /\ (Locking(op) => held'["fm"] = p)
    <3>1. loc' \in [Procs -> Memory]
      BY DEF PlacesInv, TypeOK, Memory
    <3>2. CASE Locking(op)
      BY <1>1, <1>5, <2>3, <3>1, <3>2, TakeFree DEF Moves
    <3>3. CASE ~Locking(op)
      BY <1>1, <1>5, <2>3, <3>1, <3>3, HeldMoves
    <3>4. QED
      BY <3>2, <3>3
  <2>6. Goes(p)
    BY <1>1, <2>4, <2>5, GoesOn
  <2>7. Own(p)'
    <3>1. /\ loc'[p].pc \notin Posting \cup Editing \cup Deleting
          /\ loc'[p].pc \notin {"start", "translate", "parent", "index", "append", "header",
                                "realloc", "rewrite", "resize", "dead"}
      BY <2>4 DEF Posting, Editing, Deleting
    <3>2. Role(p)'
      BY <2>4, <3>1, RoleStays DEF OrderInv, Own
    <3>3. Locked(p)'
      BY <2>4, <2>5, <3>1 DEF Locked
    <3>4. Copied(p)'
      BY <1>2, <2>2, <2>4, <3>1 DEF Copied
    <3>5. Dooms(p)' /\ Asks(p)' /\ Edits(p)' /\ Answers(p)'
      BY <3>1 DEF Dooms, Asks, Edits, Answers
    <3>6. QED
      BY <3>2, <3>3, <3>4, <3>5 DEF Own
  <2>8. QED
    BY <1>1, <1>2, <2>4, <2>6, <2>7, OrderStill DEF Placing
<1>6. \/ Exit(p) \/ Advance(p, 0) \/ (at \in DOMAIN hdr /\ Advance(p, Rolled(flags)))
      \/ /\ at \in DOMAIN hdr
         /\ loc' = [loc EXCEPT ![p].msg = msg, ![p].pc = "store"]
         /\ IF Locking(op) THEN Free("fm") /\ Take(p, "fm") ELSE UNCHANGED held
  <2> HIDE DEF msg
  <2>1. CASE at \notin DOMAIN hdr
    BY <2>1 DEF ReadFlagged
  <2>2. CASE at \in DOMAIN hdr
    <3>1. \/ Advance(p, Rolled(flags))
          \/ /\ loc' = [loc EXCEPT ![p].msg = msg, ![p].pc = "store"]
             /\ IF Locking(op) THEN Take(p, "fm") ELSE UNCHANGED held
      BY <2>2 DEF ReadFlagged, msg
    <3>2. Locking(op) => Free("fm")
      BY DEF ReadFlagged
    <3>3. QED
      BY <2>2, <3>1, <3>2
  <2>3. QED
    BY <2>1, <2>2
<1>7. QED
  BY <1>3, <1>4, <1>5, <1>6

\* What is shown is in the header file.
LEMMA ShownFacts ==
    ASSUME TypeOK
    PROVE  /\ Shown \subseteq DOMAIN hdr /\ Shown \subseteq Nat
           /\ DOMAIN hdr = 1..Len(hdr) /\ Len(hdr) \in Nat
<1>1. hdr \in Seq(Header) /\ order \in Seq(1..Len(hdr))
  BY DEF TypeOK
<1>2. Shown \subseteq 1..Len(hdr)
  BY <1>1, SetOfList DEF Shown
<1>3. QED
  BY <1>1, <1>2

\* The messages selected to be deleted are shown, and have numbers of their own.
LEMMA SelectThreadOrder ==
    ASSUME OrderInv, PlacesInv', NEW p \in Procs, SelectThread(p), UNCHANGED alone
    PROVE  OrderInv'
<1> DEFINE at == loc[p].at
           level == [m \in DOMAIN hdr |-> hdr[m].level]
           thread == IF Indexed(at) /\ hdr[at].vi = loc[p].rq.vi
                     THEN Walk(order, level, at) ELSE <<>>
           todo == [i \in DOMAIN thread |-> hdr[thread[i]].vi]
           pc == IF loc[p].rq.op = "delete" THEN "delete" ELSE "flags"
<1>1. /\ TypeOK /\ UNCHANGED store /\ loc[p].pc = "walk" /\ PlacesInv
      /\ loc[p].pc \notin Resting \cup Placing
  BY DEF OrderInv, PlacesInv, SelectThread, At, Resting, Over, Placing
<1>2. /\ UNCHANGED <<hdr, hfree, vidx, order>>
      /\ \A x, n : Named(x, n)' <=> Named(x, n)
  BY <1>1, StoreStill
<1>3. CASE thread = <<>>
  BY <1>1, <1>2, <1>3, ExitOrder DEF SelectThread
<1>4. CASE thread # <<>>
  <2>1. loc' = [loc EXCEPT ![p].todo = todo, ![p].pc = pc] /\ UNCHANGED held
    BY <1>4 DEF SelectThread
  <2>2. at \in ToSet(order) /\ thread = Walk(order, level, at)
    BY <1>4 DEF Indexed
  <2>3. order \in Seq(1..Len(hdr)) /\ IsInjective(order)
    BY <1>1 DEF PlacesInv, PlacesOwned, PlacesNotShared, TypeOK
  <2> HIDE DEF at, level
  <2>4. /\ Walk(order, level, at) \in Seq(1..Len(hdr))
        /\ \A i \in 1..Len(Walk(order, level, at)) : Walk(order, level, at)[i] \in ToSet(order)
        /\ IsInjective(Walk(order, level, at))
    BY <2>2, <2>3, WalkFacts
  <2> HIDE DEF thread
  <2>5. /\ \A i \in DOMAIN thread : thread[i] \in Shown /\ i \in Nat
        /\ \A i, j \in DOMAIN thread : thread[i] = thread[j] => i = j
    <3>1. DOMAIN thread = 1..Len(thread)
      BY <2>2, <2>4
    <3>2. \A i \in 1..Len(thread) : thread[i] \in Shown
      BY <2>2, <2>4, Zenon DEF Shown
    <3>3. \A i, j \in DOMAIN thread : thread[i] = thread[j] => i = j
      BY <2>2, <2>4 DEF IsInjective
    <3>4. QED
      BY <3>1, <3>2, <3>3
  <2>6. /\ DOMAIN todo = DOMAIN thread
        /\ \A i \in DOMAIN todo : Named(thread[i], todo[i]) /\ thread[i] \in Nat
        /\ \A i, j \in DOMAIN todo : todo[i] = todo[j] => i = j
    <3>1. \A i \in DOMAIN thread : todo[i] = hdr[thread[i]].vi
      OBVIOUS
    <3>2. \A x, y \in Shown : hdr[x].vi = hdr[y].vi => x = y
      BY DEF OrderInv, Numbered
    <3>3. DOMAIN todo = DOMAIN thread
      OBVIOUS
    <3> HIDE DEF todo
    <3>4. \A i \in DOMAIN todo : Named(thread[i], todo[i]) /\ thread[i] \in Nat
      BY <1>1, <2>5, <3>1, <3>3, ShownFacts DEF Named
    <3>5. \A i, j \in DOMAIN todo : todo[i] = todo[j] => i = j
      BY <2>5, <3>1, <3>2, <3>3
    <3>6. QED
      BY <3>3, <3>4, <3>5
  <2> HIDE DEF todo
  <2>7. loc'[p] = [loc[p] EXCEPT !.todo = todo, !.pc = pc]
        /\ \A q \in Procs \ {p} : loc'[q] = loc[q]
    BY <1>1, <2>1, MemoryFacts
  <2>8. loc'[p].pc = pc /\ loc'[p].todo = todo /\ loc'[p].rq = loc[p].rq
    BY <1>1, <2>7, MemoryFacts DEF Memory
  <2>9. Goes(p)
    BY <1>1, <2>1, <2>7, <2>8, GoesStill
  <2>10. Own(p)'
    <3>1. CASE pc = "flags"
      BY <2>8, <3>1, FreeOwn
    <3>2. CASE pc = "delete"
      <4>1. Dooms(p)'
        BY <1>2, <2>6, <2>8, <3>2 DEF Dooms
      <4>2. pc \in Deleting
        BY <3>2 DEF Deleting
      <4>3. QED
        BY <2>8, <4>1, <4>2, DoomedOwn
    <3>3. QED
      BY <3>1, <3>2
  <2>11. pc # "header" /\ pc # "dead"
    OBVIOUS
  <2> HIDE DEF pc
  <2>12. QED
    BY <1>1, <1>2, <2>8, <2>9, <2>10, <2>11, OrderStill DEF Placing
<1>5. QED
  BY <1>3, <1>4

LEMMA FindEditedOrder ==
    ASSUME OrderInv, PlacesInv', NEW p \in Procs, FindEdited(p), UNCHANGED alone
    PROVE  OrderInv'
<1> DEFINE at == Translate(loc[p].rq.vi)
<1>1. /\ TypeOK /\ loc[p].pc = "translate" /\ UNCHANGED store /\ Own(p)
      /\ loc[p].pc \notin Resting \cup Placing
  BY DEF OrderInv, PlacesInv, FindEdited, At, Resting, Over, Placing
<1>2. UNCHANGED <<hdr, hfree, vidx, order>> /\ Shown' = Shown
  BY <1>1, StoreStill
<1>3. CASE at = Gone
  BY <1>1, <1>2, <1>3, ExitOrder DEF FindEdited
<1>4. CASE at # Gone
  <2>1. loc' = [loc EXCEPT ![p].at = at, ![p].pc = "check"] /\ UNCHANGED held
    BY <1>4 DEF FindEdited
  <2>2. at \in Shown
    BY <1>1, <1>4, AskedShown
  <2> HIDE DEF at
  <2>3. loc'[p] = [loc[p] EXCEPT !.at = at, !.pc = "check"]
        /\ \A q \in Procs \ {p} : loc'[q] = loc[q]
    BY <1>1, <2>1, MemoryFacts
  <2>4. loc'[p].pc = "check" /\ loc'[p].at = at /\ loc'[p].rq = loc[p].rq
    BY <1>1, <2>3, MemoryFacts DEF Memory
  <2>5. Goes(p)
    BY <1>1, <2>1, <2>3, <2>4, GoesStill
  <2>6. Own(p)'
    <3>1. Asks(p)' /\ Answers(p)' /\ loc[p].rq.op = "edit"
      BY <1>1, <2>4 DEF Asks, Answers, Own, Role, Posting, Editing
    <3>2. QED
      BY <1>2, <2>2, <2>4, <3>1, AskedOwn
  <2>7. QED
    BY <1>1, <1>2, <2>4, <2>5, <2>6, OrderStill DEF Placing
<1>5. QED
  BY <1>3, <1>4

\* Counters of an edit that has a header in hand.
LEMMA EditedOwn ==
    ASSUME OrderInv, NEW p \in Procs, alone' = alone, loc'[p].rq = loc[p].rq,
           loc'[p].pc \in {"resize", "realloc", "rewrite"}, loc[p].rq.op = "edit",
           loc'[p].pc # "resize" => held'["fm"] = p,
           loc'[p].at \in Shown', Kin(loc'[p].msg, hdr'[loc'[p].at]),
           loc'[p].pc = "resize" => Alike(loc'[p].msg, hdr'[loc'[p].at])
    PROVE  Own(p)'
<1>1. /\ loc'[p].pc \notin Deleting \cup Posting
      /\ loc'[p].pc \notin {"start", "translate", "parent", "index", "append", "header",
                            "store", "dead"}
  BY DEF Posting, Deleting
<1>2. Role(p)'
  BY <1>1, RoleStays DEF OrderInv, Own
<1>3. Locked(p)' /\ Copied(p)' /\ Dooms(p)' /\ Asks(p)' /\ Answers(p)'
  BY <1>1 DEF Locked, Copied, Dooms, Asks, Answers
<1>4. Edits(p)'
  BY DEF Edits
<1>5. QED
  BY <1>2, <1>3, <1>4 DEF Own

LEMMA ReadEditedOrder ==
    ASSUME OrderInv, PlacesInv', NEW p \in Procs, ReadEdited(p), UNCHANGED alone
    PROVE  OrderInv'
<1> DEFINE at == loc[p].at
           out == at \notin DOMAIN hdr \/ Barred(hdr[at], loc[p].rq)
<1>1. /\ TypeOK /\ loc[p].pc = "check" /\ UNCHANGED store /\ Own(p)
      /\ loc[p].pc \notin Resting \cup Placing
  BY DEF OrderInv, PlacesInv, ReadEdited, At, Resting, Over, Placing
<1>2. UNCHANGED <<hdr, hfree, vidx, order>> /\ Shown' = Shown
  BY <1>1, StoreStill
<1>3. CASE out
  BY <1>1, <1>2, <1>3, ExitOrder DEF ReadEdited
<1>4. CASE ~out
  <2>1. loc' = [loc EXCEPT ![p].msg = hdr[at], ![p].pc = "resize"] /\ UNCHANGED held
    BY <1>4 DEF ReadEdited
  <2>2. at \in Shown /\ loc[p].rq.op = "edit"
    BY <1>1 DEF Own, Role, Edits, Editing
  <2>3. loc'[p] = [loc[p] EXCEPT !.msg = hdr[at], !.pc = "resize"]
        /\ \A q \in Procs \ {p} : loc'[q] = loc[q]
    BY <1>1, <2>1, MemoryFacts
  <2>4. /\ loc'[p].pc = "resize" /\ loc'[p].at = at /\ loc'[p].rq = loc[p].rq
        /\ loc'[p].msg = hdr[at]
    BY <1>1, <2>3, MemoryFacts DEF Memory
  <2>5. Goes(p)
    BY <1>1, <2>1, <2>3, <2>4, GoesStill
  <2>6. Own(p)'
    BY <1>2, <2>2, <2>4, EditedOwn DEF Alike, Kin
  <2>7. QED
    BY <1>1, <1>2, <2>4, <2>5, <2>6, OrderStill DEF Placing
<1>5. QED
  BY <1>3, <1>4

LEMMA ResizeBodyOrder ==
    ASSUME OrderInv, PlacesInv', NEW p \in Procs, ResizeBody(p), UNCHANGED alone
    PROVE  OrderInv'
<1> DEFINE old == loc[p].msg
           size == loc[p].rq.size
           at == loc[p].at
<1>1. /\ TypeOK /\ loc[p].pc = "resize" /\ Free("fm") /\ Take(p, "fm")
      /\ UNCHANGED <<hdr, hfree, vidx, order>> /\ Own(p)
      /\ loc[p].pc \notin Resting \cup Placing
  BY DEF OrderInv, PlacesInv, ResizeBody, At, Resting, Over, Placing
<1>2. /\ held' \in [{"fm", "fi"} -> Procs \cup {None}] /\ held'["fm"] = p
      /\ \A q \in Procs \ {p} : \A l \in {"fm", "fi"} : held'[l] = q <=> held[l] = q
  BY <1>1, TakeFree
<1>3. /\ loc \in [Procs -> Memory] /\ old \in Header
      /\ loc' \in [Procs -> Memory]
  BY <1>1, MemoryFacts DEF PlacesInv, TypeOK, Memory
<1>4. at \in Shown /\ loc[p].rq.op = "edit" /\ Kin(old, hdr[at]) /\ Shown' = Shown
  BY <1>1 DEF Own, Role, Edits, Editing, Shown
<1>5. /\ \A q \in Procs \ {p} : loc'[q] = loc[q]
      /\ loc'[p].pc \in {"realloc", "rewrite"} /\ loc'[p].at = at
      /\ loc'[p].rq = loc[p].rq
      /\ loc'[p].msg.vi = old.vi /\ loc'[p].msg.level = old.level
      /\ loc'[p].msg.thread = old.thread
  <2>1. CASE \E pc \in {"realloc", "rewrite"} : Goto(p, pc)
    <3>1. PICK pc \in {"realloc", "rewrite"} : Goto(p, pc)
      BY <2>1
    <3>2. loc' = [loc EXCEPT ![p].pc = pc]
      BY <3>1 DEF Goto
    <3>3. loc'[p] = [loc[p] EXCEPT !.pc = pc] /\ \A q \in Procs \ {p} : loc'[q] = loc[q]
      BY <1>3, <3>2
    <3>4. QED
      BY <1>3, <3>3 DEF Memory
  <2>2. CASE loc' = [loc EXCEPT ![p].msg.size = size, ![p].pc = "rewrite"]
    <3> DEFINE msg == [old EXCEPT !.size = size]
    <3>1. msg.vi = old.vi /\ msg.level = old.level /\ msg.thread = old.thread
      BY <1>3 DEF Header
    <3>2. loc'[p] = [loc[p] EXCEPT !.msg = msg, !.pc = "rewrite"]
          /\ \A q \in Procs \ {p} : loc'[q] = loc[q]
      BY <1>3, <2>2 DEF Memory, Header
    <3> HIDE DEF msg
    <3>3. QED
      BY <1>3, <3>1, <3>2 DEF Memory
  <2>3. QED
    BY <2>1, <2>2 DEF ResizeBody
<1>6. Kin(loc'[p].msg, hdr'[at])
  BY <1>1, <1>4, <1>5 DEF Kin
<1>7. Goes(p)
  <2>1. Moves(p)
    BY <1>2, <1>3, <1>5 DEF Moves
  <2>2. QED
    BY <1>1, <1>5, <2>1, GoesOn
<1>8. Own(p)'
  BY <1>2, <1>4, <1>5, <1>6, EditedOwn
<1>9. QED
  BY <1>1, <1>5, <1>7, <1>8, OrderStill DEF Placing

LEMMA MoveBodyOrder ==
    ASSUME OrderInv, PlacesInv', NEW p \in Procs, MoveBody(p), UNCHANGED alone
    PROVE  OrderInv'
<1> DEFINE old == loc[p].msg
           size == loc[p].rq.size
           at == loc[p].at
<1>1. /\ TypeOK /\ loc[p].pc = "realloc" /\ UNCHANGED held
      /\ UNCHANGED <<hdr, hfree, vidx, order>> /\ Own(p)
      /\ loc[p].pc \notin Resting \cup Placing
  BY DEF OrderInv, PlacesInv, MoveBody, At, Resting, Over, Placing
<1>2. /\ loc \in [Procs -> Memory] /\ old \in Header /\ held["fm"] = p
  BY <1>1, MemoryFacts DEF Own, Locked
<1>3. at \in Shown /\ loc[p].rq.op = "edit" /\ Kin(old, hdr[at]) /\ Shown' = Shown
  BY <1>1 DEF Own, Role, Edits, Editing, Shown
<1>4. PICK b \in 0..(bodyEnd + Pad) :
         loc' = [loc EXCEPT ![p].msg.body = b, ![p].msg.size = size,
                            ![p].pc = "rewrite"]
  BY DEF MoveBody
<1> DEFINE msg == [old EXCEPT !.body = b, !.size = size]
<1>5. msg.vi = old.vi /\ msg.level = old.level /\ msg.thread = old.thread
  BY <1>2 DEF Header
<1>6. loc'[p] = [loc[p] EXCEPT !.msg = msg, !.pc = "rewrite"]
      /\ \A q \in Procs \ {p} : loc'[q] = loc[q]
  BY ZenonT(40), <1>2, <1>4 DEF Memory, Header
<1> HIDE DEF msg
<1>7. /\ loc'[p].pc = "rewrite" /\ loc'[p].at = at /\ loc'[p].rq = loc[p].rq
      /\ loc'[p].msg = msg
  BY <1>2, <1>6 DEF Memory
<1>8. Kin(loc'[p].msg, hdr'[at])
  BY <1>1, <1>3, <1>5, <1>7 DEF Kin
<1>9. Goes(p)
  BY <1>1, <1>6, <1>7, GoesStill
<1>10. Own(p)'
  BY <1>1, <1>2, <1>3, <1>7, <1>8, EditedOwn
<1>11. QED
  BY <1>1, <1>7, <1>9, <1>10, OrderStill DEF Placing

LEMMA CountThreadOrder ==
    ASSUME OrderInv, PlacesInv', NEW p \in Procs, CountThread(p), UNCHANGED alone
    PROVE  OrderInv'
<1>1. /\ TypeOK /\ loc[p].pc = "index" /\ Free("fi") /\ Take(p, "fi") /\ Own(p)
      /\ UNCHANGED <<hdr, hfree, vidx, order>> /\ Goto(p, "append")
      /\ loc[p].pc \notin Resting /\ loc[p].rq.vi = 0
  BY DEF OrderInv, PlacesInv, CountThread, At, Resting, Over
<1>2. /\ held' \in [{"fm", "fi"} -> Procs \cup {None}] /\ held'["fi"] = p
      /\ \A q \in Procs \ {p} : \A l \in {"fm", "fi"} : held'[l] = q <=> held[l] = q
  BY <1>1, TakeFree
<1>3. /\ loc' \in [Procs -> Memory] /\ loc'[p] = [loc[p] EXCEPT !.pc = "append"]
      /\ \A q \in Procs \ {p} : loc'[q] = loc[q]
  <2>1. "append" \in Pc
    BY DEF Pc
  <2>2. QED
    BY <1>1, <2>1, GotoMoves
<1>4. /\ loc'[p].pc = "append" /\ loc'[p].msg = loc[p].msg /\ loc'[p].rq = loc[p].rq
  BY <1>1, <1>3, MemoryFacts DEF Memory
<1>5. Goes(p)
  BY <1>1, <1>2, <1>3, <1>4, GoesOn DEF Moves
<1>6. Own(p)'
  <2>1. /\ loc'[p].pc \notin Editing \cup Deleting
        /\ loc'[p].pc \notin {"start", "translate", "parent", "header", "store",
                              "realloc", "rewrite", "resize", "dead"}
        /\ loc[p].rq.op = "post"
    BY <1>1, <1>4 DEF Editing, Deleting, Own, Role, Posting
  <2>2. Role(p)'
    BY <1>1, <1>4, <2>1, RoleStays DEF Own
  <2>3. Locked(p)'
    BY <1>2, <2>1 DEF Locked
  <2>4. Copied(p)'
    BY <1>1, <1>4, <2>1 DEF Own, Copied
  <2>5. Dooms(p)' /\ Asks(p)' /\ Edits(p)' /\ Answers(p)'
    BY <1>1, <1>4, <2>1 DEF Dooms, Asks, Edits, Answers
  <2>6. QED
    BY <2>2, <2>3, <2>4, <2>5 DEF Own
<1>7. QED
  BY <1>1, <1>4, <1>5, <1>6, OrderStill DEF Placing

\* What a request to delete knows.
LEMMA DoomsFacts ==
    ASSUME OrderInv, NEW p \in Procs, loc[p].pc \in Deleting
    PROVE  /\ TypeOK /\ Own(p) /\ Fits(loc[p]) /\ loc[p].pc \notin Resting \cup Placing
           /\ loc[p].rq.op = "delete" /\ loc[p].todo \in Seq(Nat)
           /\ 1 \in DOMAIN loc[p].todo /\ Head(loc[p].todo) = loc[p].todo[1]
           /\ loc[p].todo[1] \in DOMAIN vidx /\ vidx \in Seq(Nat)
           /\ \A i, j \in DOMAIN loc[p].todo : loc[p].todo[i] = loc[p].todo[j] => i = j
           /\ \A i \in DOMAIN loc[p].todo :
                 i > 1 \/ loc[p].pc = "delete" => \E x \in Nat : Named(x, loc[p].todo[i])
<1>1. TypeOK /\ Own(p) /\ Fits(loc[p])
  BY DEF OrderInv, PlacesInv
<1>2. loc[p].todo \in Seq(Nat) /\ Len(loc[p].todo) > 0 /\ vidx \in Seq(Nat)
  BY <1>1, MemoryFacts DEF Fits, TypeOK
<1>3. 1 \in DOMAIN loc[p].todo /\ Head(loc[p].todo) = loc[p].todo[1]
  BY <1>2
<1>4. QED
  BY <1>1, <1>2, <1>3 DEF Fits, Own, Dooms, Deleting, Resting, Over, Placing

LEMMA FindDoomedOrder ==
    ASSUME OrderInv, PlacesInv', NEW p \in Procs, FindDoomed(p), UNCHANGED alone
    PROVE  OrderInv'
<1> DEFINE n == loc[p].todo[1]
           at == Translate(n)
<1>1. loc[p].pc = "delete" /\ UNCHANGED store /\ loc[p].pc \in Deleting
  BY DEF FindDoomed, At, Deleting
<1>2. /\ UNCHANGED <<hdr, hfree, vidx, order>>
      /\ \A x, k : Named(x, k)' <=> Named(x, k)
  BY <1>1, StoreStill
<1>3. Head(loc[p].todo) = n /\ TypeOK /\ loc[p].pc \notin Resting \cup Placing
  BY <1>1, DoomsFacts
<1>4. CASE at = Gone
  <2>1. Advance(p, 0)
    BY <1>3, <1>4 DEF FindDoomed
  <2>2. QED
    BY <1>1, <1>2, <2>1, AdvanceOrder
<1>5. CASE at # Gone
  <2>1. loc' = [loc EXCEPT ![p].at = at, ![p].pc = "unindex"] /\ UNCHANGED held
    BY <1>3, <1>5 DEF FindDoomed
  <2>2. Named(at, n)
    <3>1. PICK x \in Nat : Named(x, n)
      BY <1>1, DoomsFacts
    <3>2. vidx[n] \in {x, Gone}
      BY <3>1 DEF OrderInv, Numbered, Named
    <3>3. at = vidx[n]
      BY <1>3, <1>5, TranslateFacts
    <3>4. QED
      BY <1>5, <3>1, <3>2, <3>3
  <2> HIDE DEF at
  <2>3. loc'[p] = [loc[p] EXCEPT !.at = at, !.pc = "unindex"]
        /\ \A q \in Procs \ {p} : loc'[q] = loc[q]
    BY <1>3, <2>1, MemoryFacts
  <2>4. /\ loc'[p].pc = "unindex" /\ loc'[p].at = at /\ loc'[p].rq = loc[p].rq
        /\ loc'[p].todo = loc[p].todo
    BY <1>3, <2>3, MemoryFacts DEF Memory
  <2>5. Goes(p)
    BY <1>3, <2>1, <2>3, <2>4, GoesStill
  <2>6. Dooms(p)'
    BY <1>1, <1>2, <2>2, <2>4, DoomsFacts DEF Dooms
  <2>7. Own(p)' /\ loc'[p].pc \in Deleting
    BY <2>4, <2>6, DoomedOwn DEF Deleting
  <2>8. QED
    BY <1>1, <1>2, <1>3, <2>4, <2>5, <2>7, OrderStill
<1>6. QED
  BY <1>4, <1>5

LEMMA ReadDoomedOrder ==
    ASSUME OrderInv, PlacesInv', NEW p \in Procs, ReadDoomed(p), UNCHANGED alone
    PROVE  OrderInv'
<1> DEFINE at == loc[p].at
<1>1. /\ loc[p].pc = "read" /\ UNCHANGED <<hdr, hfree, vidx, order>>
      /\ loc[p].pc \in Deleting
  BY DEF ReadDoomed, At, Deleting
<1>2. /\ \A x, k : Named(x, k)' <=> Named(x, k)
      /\ Live' = Live
  BY <1>1 DEF Named, Shown, Live
<1>3. TypeOK /\ Own(p) /\ loc[p].pc \notin Resting \cup Placing
  BY <1>1, DoomsFacts
<1>4. CASE at \notin DOMAIN hdr
  BY <1>1, <1>3, <1>4, ExitOrder DEF ReadDoomed
<1>5. CASE at \in DOMAIN hdr
  <2>1. loc' = [loc EXCEPT ![p].msg = hdr[at], ![p].pc = "cut"] /\ UNCHANGED held
    BY <1>5 DEF ReadDoomed
  <2>3. loc'[p] = [loc[p] EXCEPT !.msg = hdr[at], !.pc = "cut"]
        /\ \A q \in Procs \ {p} : loc'[q] = loc[q]
    BY <1>3, <2>1, MemoryFacts
  <2>4. /\ loc'[p].pc = "cut" /\ loc'[p].at = at /\ loc'[p].rq = loc[p].rq
        /\ loc'[p].todo = loc[p].todo /\ loc'[p].msg = hdr[at]
    BY <1>3, <2>3, MemoryFacts DEF Memory
  <2>5. Goes(p)
    BY <1>3, <2>1, <2>3, <2>4, GoesStill
  <2>6. Dooms(p)'
    <3>1. NobodyDied' => NobodyDied
      BY <2>5, OthersKeep
    <3>2. Alike(loc'[p].msg, hdr'[loc'[p].at])
      BY <1>1, <2>4 DEF Alike, Kin
    <3>3. QED
      BY <1>1, <1>2, <1>3, <2>4, <3>1, <3>2 DEF Own, Dooms
  <2>7. Own(p)' /\ loc'[p].pc \in Deleting
    BY <2>4, <2>6, DoomedOwn DEF Deleting
  <2>8. QED
    BY <1>1, <1>3, <2>4, <2>5, <2>7, OrderStill
<1>6. QED
  BY <1>4, <1>5

LEMMA FreeDoomedBodyOrder ==
    ASSUME OrderInv, PlacesInv', NEW p \in Procs, FreeDoomedBody(p), UNCHANGED alone
    PROVE  OrderInv'
<1>1. loc[p].pc \in Deleting /\ Advance(p, 0) /\ UNCHANGED <<hdr, hfree, vidx, order>>
  BY DEF FreeDoomedBody, At, Deleting
<1>2. QED
  BY <1>1, AdvanceOrder

\* One request at a time is about to write a header.
LEMMA OneWriter ==
    ASSUME OrderInv, NEW p \in Procs, NEW q \in Procs,
           loc[p].pc \in {"header", "realloc", "rewrite", "store"},
           loc[q].pc \in {"header", "realloc", "rewrite", "store"}
    PROVE  p = q
<1>1. ASSUME NEW r \in Procs, ~alone,
             loc[r].pc \in {"header", "realloc", "rewrite", "store"}
      PROVE  held["fm"] = r
  <2>1. Own(r) /\ Fits(loc[r])
    BY DEF OrderInv, PlacesInv
  <2>2. CASE loc[r].pc = "store"
    <3>1. loc[r].rq.op \in ReadModifyWrite /\ loc[r].rq.op \in Usual
      BY <1>1, <2>1, <2>2 DEF Own, Role, Fits, Flagging
    <3>2. Locking(loc[r].rq.op)
      BY <3>1 DEF Usual, ReadModifyWrite, Single, Reading, Locking
    <3>3. QED
      BY <2>1, <2>2, <3>2 DEF Own, Locked
  <2>3. CASE loc[r].pc # "store"
    BY <1>1, <2>1, <2>3 DEF Own, Locked
  <2>4. QED
    BY <2>2, <2>3
<1>2. CASE alone
  <2>1. loc[p].pc \notin Resting /\ loc[q].pc \notin Resting
    BY DEF Resting, Over
  <2>2. QED
    BY <1>2, <2>1 DEF OrderInv, Apart
<1>3. CASE ~alone
  BY <1>1, <1>3
<1>4. QED
  BY <1>2, <1>3

\* A number is given out, for a place that no other number leads to.
LEMMA TakeNumberOrder ==
    ASSUME OrderInv, PlacesInv', NEW p \in Procs, TakeNumber(p), UNCHANGED alone
    PROVE  OrderInv'
<1> DEFINE n == Len(vidx) + 1
<1>1. PICK at \in 1..(Len(hdr) + 1) : HeaderSpace(at) /\ vidx' = Append(vidx, at)
  BY DEF TakeNumber
<1>2. /\ TypeOK /\ PlacesInv /\ loc[p].pc = "number" /\ Free("fm") /\ Take(p, "fm")
      /\ loc' = [loc EXCEPT ![p].msg.vi = n, ![p].pc = "header"]
      /\ UNCHANGED <<hdr, bodyEnd, bfree, threads, order>> /\ Own(p)
      /\ loc[p].pc \notin Resting
  BY DEF OrderInv, PlacesInv, TakeNumber, At, Resting, Over
<1>3. /\ Units(hfree') \subseteq FreePlaces /\ at \notin Units(hfree')
      /\ at \in Nat /\ at \in 1..(Len(hdr) + 1)
      /\ at \notin Shown /\ \A q \in Procs : ~Holds(q, at)
      /\ at \in FreePlaces \/ at \notin DOMAIN hdr
  BY <1>1, <1>2, HeaderSpaceFacts
<1>4. /\ vidx \in Seq(Nat) /\ n \in Nat
      /\ DOMAIN vidx' = DOMAIN vidx \cup {n} /\ n \notin DOMAIN vidx /\ vidx'[n] = at
      /\ \A k \in DOMAIN vidx : vidx'[k] = vidx[k]
  <2>1. vidx \in Seq(Nat)
    BY <1>2 DEF TypeOK
  <2>2. Len(vidx) \in Nat /\ DOMAIN vidx = 1..Len(vidx)
    BY <2>1
  <2>3. /\ vidx' \in Seq(Nat) /\ Len(vidx') = n /\ vidx'[n] = at
        /\ \A k \in 1..Len(vidx) : vidx'[k] = vidx[k]
    BY <1>1, <1>3, <2>1
  <2>4. DOMAIN vidx' = 1..(Len(vidx) + 1)
    BY <2>3
  <2>5. QED
    BY <2>1, <2>2, <2>3, <2>4
<1> HIDE DEF n
<1>5. \A q \in Procs : loc[q].pc # "header"
  <2>1. held["fm"] = None /\ None \notin Procs
    BY <1>2, MsgStoreAssumption DEF Free
  <2>2. QED
    BY <1>2, <2>1 DEF PlacesInv, HeldRight
<1>6. /\ loc' \in [Procs -> Memory] /\ \A q \in Procs \ {p} : loc'[q] = loc[q]
      /\ loc'[p].pc = "header" /\ loc'[p].msg.vi = n
      /\ loc'[p].rq = loc[p].rq /\ loc'[p].at = loc[p].at
  <2>1. loc \in [Procs -> Memory] /\ loc[p].msg \in Header /\ loc' \in [Procs -> Memory]
    BY <1>2, MemoryFacts DEF PlacesInv, TypeOK, Memory
  <2> DEFINE msg == [loc[p].msg EXCEPT !.vi = n]
  <2>2. msg.vi = n
    BY <2>1 DEF Header
  <2>3. loc'[p] = [loc[p] EXCEPT !.msg = msg, !.pc = "header"]
        /\ \A q \in Procs \ {p} : loc'[q] = loc[q]
    BY <1>2, <2>1 DEF Memory, Header
  <2> HIDE DEF msg
  <2>4. QED
    BY <2>1, <2>2, <2>3 DEF Memory
<1>7. Moves(p) /\ held'["fm"] = p
  BY <1>2, <1>6, TakeFree DEF Moves
<1>8. Goes(p)
  BY <1>2, <1>6, <1>7, GoesOn
<1>9. /\ Apart'
      /\ \A q \in Procs \ {p} : Role(q)' /\ Locked(q)'
      /\ NobodyDied' => NobodyDied
      /\ KeepsAll' <=> KeepsAll
  BY <1>8, OthersKeep
<1>10. /\ Shown' = Shown /\ FreePlaces' \subseteq FreePlaces /\ at \notin FreePlaces'
       /\ \A x, k : Named(x, k)' <=> Named(x, k)
       /\ Live' = Live \cup {n} /\ n \notin Live
       /\ Unwritten' = {n} /\ Unwritten = {}
  <2>1. Shown' = Shown /\ FreePlaces' \subseteq FreePlaces /\ at \notin FreePlaces'
    BY <1>2, <1>3 DEF Shown, FreePlaces
  <2>2. \A x, k : Named(x, k)' <=> Named(x, k)
    BY <1>2, <2>1 DEF Named
  <2>3. Live' = Live \cup {n} /\ n \notin Live
    <3>1. at # Gone
      BY <1>3 DEF Gone
    <3>2. QED
      BY <1>4, <3>1 DEF Live
  <2>4. Unwritten' = {n} /\ Unwritten = {}
    BY <1>5, <1>6 DEF Unwritten, At
  <2>5. QED
    BY <2>1, <2>2, <2>3, <2>4
<1>11. Own(p)'
  <2>1. /\ loc'[p].pc \notin Editing \cup Deleting
        /\ loc'[p].pc \notin {"start", "translate", "parent", "index", "append", "store",
                              "realloc", "rewrite", "resize", "dead"}
        /\ loc[p].rq.op = "post"
    BY <1>2, <1>6 DEF Editing, Deleting, Own, Role, Posting
  <2>2. Role(p)'
    BY <1>2, <1>6, <2>1, RoleStays DEF Own
  <2>3. Locked(p)'
    BY <1>7, <2>1 DEF Locked
  <2>4. Copied(p)' /\ Dooms(p)' /\ Asks(p)' /\ Edits(p)'
    BY <2>1 DEF Copied, Dooms, Asks, Edits
  <2>5. Answers(p)'
    BY <1>2, <1>6, <1>9, <1>10 DEF Own, Answers, Posting
  <2>6. QED
    BY <2>2, <2>3, <2>4, <2>5 DEF Own
<1>12. \A q \in Procs \ {p} : Own(q)'
  <2> TAKE q \in Procs \ {p}
  <2>1. Role(q)' /\ Locked(q)' /\ loc'[q] = loc[q] /\ Own(q) /\ Fits(loc[q])
    BY <1>6, <1>9 DEF OrderInv, PlacesInv
  <2>2. Copied(q)'
    <3>1. loc[q].pc \in {"index", "append"} => loc[q].msg.vi \in DOMAIN vidx
      BY <2>1 DEF Fits, Placing
    <3>2. QED
      BY <1>2, <1>4, <2>1, <3>1 DEF Own, Copied
  <2>3. Dooms(q)'
    <3> SUFFICES ASSUME loc[q].pc \in Deleting PROVE Dooms(q)'
      BY <2>1 DEF Dooms
    <3>1. loc[q].todo[1] \in DOMAIN vidx
      BY DoomsFacts
    <3>2. loc[q].pc \in {"read", "cut", "freeheader"} => loc[q].at # at
      <4>1. loc[q].pc \in {"read", "cut"} => loc[q].at \in Shown
        BY <2>1 DEF Own, Dooms, Named
      <4>2. loc[q].pc = "freeheader" => Holds(q, loc[q].at)
        BY DEF Holds
      <4>3. QED
        BY <1>3, <4>1, <4>2
    <3>3. \A k \in Live : k \in DOMAIN vidx
      BY DEF Live
    <3>4. QED
      BY ZenonT(40), <1>2, <1>4, <1>9, <1>10, <2>1, <3>1, <3>2, <3>3 DEF Own, Dooms
  <2>4. Asks(q)' /\ Edits(q)' /\ Answers(q)'
    BY SMTT(40), <1>2, <1>4, <1>7, <1>9, <1>10, <2>1 DEF Own, Asks, Edits, Answers, Moves
  <2>5. QED
    BY <2>1, <2>2, <2>3, <2>4 DEF Own
<1>13. Numbered'
  <2>1. \A x \in Shown : hdr[x].vi \in DOMAIN vidx
    BY <1>2, ShownFacts DEF PlacesInv, NumbersKnown
  <2>2. QED
    BY <1>2, <1>4, <1>10, <2>1 DEF OrderInv, Numbered
<1>14. KnownNumbers'
  <2> SUFFICES ASSUME NobodyDied', NEW k \in Live'
               PROVE  /\ vidx'[k] \notin FreePlaces'
                      /\ k \notin Unwritten' => vidx'[k] \in DOMAIN hdr' /\ hdr'[vidx'[k]].vi = k
                      /\ \A j \in Live' : vidx'[k] = vidx'[j] => k = j
    BY DEF KnownNumbers
  <2>1. NobodyDied
    BY <1>9
  <2>2. \A j \in Live :
          /\ j \in DOMAIN vidx /\ vidx'[j] = vidx[j] /\ vidx'[j] # at
          /\ vidx[j] \notin FreePlaces /\ vidx[j] \in DOMAIN hdr /\ hdr[vidx[j]].vi = j
          /\ \A i \in Live : vidx[j] = vidx[i] => j = i
    <3> TAKE j \in Live
    <3>1. j \in DOMAIN vidx
      BY DEF Live
    <3>2. /\ vidx[j] \notin FreePlaces /\ vidx[j] \in DOMAIN hdr /\ hdr[vidx[j]].vi = j
          /\ \A i \in Live : vidx[j] = vidx[i] => j = i
      BY <1>10, <2>1 DEF OrderInv, KnownNumbers
    <3>3. QED
      BY <1>3, <1>4, <3>1, <3>2
  <2>3. CASE k = n
    BY <1>4, <1>10, <2>2, <2>3
  <2>4. CASE k # n
    <3>1. k \in Live /\ vidx'[k] = vidx[k]
      BY <1>10, <2>2, <2>4
    <3>2. QED
      BY <1>2, <1>4, <1>10, <2>2, <3>1
  <2>5. QED
    BY <2>3, <2>4
<1>15. Tidy'
  <2>1. loc'[p].pc \in Placing /\ loc[p].pc \notin Placing
    BY <1>2, <1>6 DEF Placing
  <2>2. \A q \in Procs : loc[q].pc \in Placing =>
           loc'[q].pc \in Placing /\ loc'[q].msg.vi = loc[q].msg.vi
    BY <1>6, <2>1
  <2>3. \A j \in Live : vidx'[j] = vidx[j]
    BY <1>4 DEF Live
  <2>4. ASSUME KeepsAll, NEW k \in Live'
        PROVE  \/ vidx'[k] \in Shown'
               \/ \E q \in Procs : loc'[q].pc \in Placing /\ loc'[q].msg.vi = k
    <3>1. CASE k = n
      BY <1>6, <2>1, <3>1
    <3>2. CASE k \in Live
      BY <1>10, <2>2, <2>3, <2>4, <3>2 DEF OrderInv, Tidy
    <3>3. QED
      BY <1>10, <2>4, <3>1, <3>2
  <2>5. QED
    BY <1>9, <2>4 DEF Tidy
<1>16. QED
  BY <1>9, <1>11, <1>12, <1>13, <1>14, <1>15 DEF OrderInv

\* A header gets into the file: its place is not shown yet, and no number but
\* its own leads there.
LEMMA PutHeaderOrder ==
    ASSUME OrderInv, PlacesInv', NEW p \in Procs, PutHeader(p), UNCHANGED alone
    PROVE  OrderInv'
<1> DEFINE n == loc[p].msg.vi
           at == vidx[n]
<1>1. /\ TypeOK /\ PlacesInv /\ loc[p].pc = "header" /\ Fits(loc[p]) /\ Own(p)
      /\ WriteHeader(at, loc[p].msg) /\ Drop("fm") /\ Goto(p, "index") /\ "index" \in Pc
      /\ UNCHANGED <<hfree, bodyEnd, bfree, vidx, threads, order>>
      /\ loc[p].pc \notin Resting
  BY DEF OrderInv, PlacesInv, PutHeader, At, Pc, Resting, Over
<1>2. /\ loc[p].pc \in Placing /\ n \in DOMAIN vidx /\ at \in 1..(Len(hdr) + 1)
      /\ Holds(p, at) /\ at \notin Shown /\ at \in Nat
      /\ \A q \in Procs \ {p} : ~Holds(q, at)
  <2>1. loc[p].pc \in Placing
    BY <1>1 DEF Placing
  <2>2. Holds(p, at) /\ n \in DOMAIN vidx
    BY <1>1, <2>1, HoldsFacts
  <2>3. QED
    BY <1>1, <2>1, <2>2, HoldsFacts
<1>3. /\ loc' \in [Procs -> Memory] /\ loc'[p] = [loc[p] EXCEPT !.pc = "index"]
      /\ \A q \in Procs \ {p} : loc'[q] = loc[q]
  BY <1>1, GotoMoves
<1>4. /\ loc'[p].pc = "index" /\ loc'[p].msg = loc[p].msg
      /\ loc'[p].rq = loc[p].rq /\ loc'[p].at = loc[p].at
  BY <1>1, <1>3, MemoryFacts DEF Memory
<1>5. Moves(p)
  <2>1. held["fm"] = p /\ None \notin Procs /\ held' = [held EXCEPT !["fm"] = None]
    BY <1>1, MsgStoreAssumption DEF PlacesInv, HeldRight, Drop
  <2>2. held \in [{"fm", "fi"} -> Procs \cup {None}]
    BY <1>1 DEF TypeOK
  <2>3. /\ held' \in [{"fm", "fi"} -> Procs \cup {None}]
        /\ \A q \in Procs \ {p} : \A l \in {"fm", "fi"} : held'[l] = q <=> held[l] = q
    BY <2>1, <2>2
  <2>4. QED
    BY <1>1, <1>3, <2>3 DEF Moves
<1>6. /\ DOMAIN hdr \subseteq DOMAIN hdr' /\ at \in DOMAIN hdr' /\ hdr'[at] = loc[p].msg
      /\ \A x \in DOMAIN hdr \ {at} : hdr'[x] = hdr[x]
  <2>1. \A q \in Procs : loc[q].pc \in Placing /\ loc[q].msg.vi = loc[p].msg.vi
                            => at = vidx[loc[q].msg.vi]
    OBVIOUS
  <2>2. QED
    BY <1>1, <1>2, <2>1, WrittenFacts
<1> HIDE DEF at
<1>7. Goes(p)
  BY <1>1, <1>4, <1>5, GoesOn
<1>8. /\ Apart'
      /\ \A q \in Procs \ {p} : Role(q)' /\ Locked(q)'
      /\ NobodyDied' => NobodyDied
      /\ KeepsAll' <=> KeepsAll
  BY <1>7, OthersKeep
<1>9. \A q \in Procs \ {p} : loc[q].pc # "store" /\ loc[q].pc # "header"
  BY <1>1, OneWriter
<1>10. /\ Shown' = Shown /\ FreePlaces' = FreePlaces /\ Live' = Live
       /\ \A x \in Shown : x \in DOMAIN hdr /\ hdr'[x] = hdr[x]
       /\ \A x, k : Named(x, k)' <=> Named(x, k)
       /\ Unwritten' = {} /\ Unwritten = {n} /\ n \in Live
  <2>1. Shown' = Shown /\ FreePlaces' = FreePlaces /\ Live' = Live
    BY <1>1 DEF Shown, FreePlaces, Live
  <2>2. \A x \in Shown : x \in DOMAIN hdr /\ hdr'[x] = hdr[x]
    BY <1>1, <1>2, <1>6, ShownFacts
  <2>3. \A x, k : Named(x, k)' <=> Named(x, k)
    BY <2>1, <2>2 DEF Named
  <2>4. Unwritten' = {} /\ Unwritten = {n}
    <3>1. \A q \in Procs : loc[q].pc = "header" <=> q = p
      BY <1>1, <1>9
    <3>2. \A q \in Procs : loc'[q].pc # "header"
      BY <1>3, <1>4, <1>9
    <3>3. Unwritten' = {}
      BY <3>2 DEF Unwritten, At
    <3>4. Unwritten = {n}
      BY <3>1 DEF Unwritten, At
    <3>5. QED
      BY <3>3, <3>4
  <2>5. n \in Live
    BY <1>2 DEF Live, at, Gone
  <2>6. QED
    BY <2>1, <2>2, <2>3, <2>4, <2>5
<1>11. Own(p)'
  <2>1. /\ loc'[p].pc \notin Editing \cup Deleting
        /\ loc'[p].pc \notin {"start", "translate", "parent", "append", "header", "store",
                              "realloc", "rewrite", "resize", "dead"}
        /\ loc[p].rq.op = "post"
    BY <1>1, <1>4 DEF Editing, Deleting, Own, Role, Posting
  <2>2. Role(p)'
    BY <1>1, <1>4, <2>1, RoleStays DEF Own
  <2>3. Locked(p)' /\ Dooms(p)' /\ Asks(p)' /\ Edits(p)'
    BY <2>1 DEF Locked, Dooms, Asks, Edits
  <2>4. Copied(p)'
    BY <1>1, <1>4, <1>6, <2>1 DEF Copied, Alike, Kin, at
  <2>5. Answers(p)'
    BY <1>1, <1>4, <1>8, <1>10 DEF Own, Answers, Posting
  <2>6. QED
    BY <2>2, <2>3, <2>4, <2>5 DEF Own
<1>12. \A q \in Procs \ {p} : Own(q)'
  <2> TAKE q \in Procs \ {p}
  <2>1. Role(q)' /\ Locked(q)' /\ loc'[q] = loc[q] /\ Own(q) /\ Fits(loc[q])
    BY <1>3, <1>8 DEF OrderInv, PlacesInv
  <2>2. Copied(q)'
    <3>1. loc[q].pc \in {"index", "append"} =>
             hdr'[vidx[loc[q].msg.vi]] = hdr[vidx[loc[q].msg.vi]]
      <4> SUFFICES ASSUME loc[q].pc \in {"index", "append"}
                   PROVE  hdr'[vidx[loc[q].msg.vi]] = hdr[vidx[loc[q].msg.vi]]
        OBVIOUS
      <4>1. loc[q].pc \in Placing
        BY DEF Placing
      <4>2. Holds(q, vidx[loc[q].msg.vi]) /\ vidx[loc[q].msg.vi] \in DOMAIN hdr
        BY <1>1, <2>1, <4>1, HoldsFacts DEF Fits
      <4>3. QED
        BY <1>2, <1>6, <4>2
    <3>2. QED
      BY <1>1, <1>9, <2>1, <3>1 DEF Own, Copied
  <2>3. Dooms(q)'
    <3>1. loc[q].pc = "cut" => hdr'[loc[q].at] = hdr[loc[q].at]
      BY <1>10, <2>1 DEF Own, Dooms, Named, Deleting
    <3>2. QED
      BY <1>1, <1>8, <1>10, <2>1, <3>1 DEF Own, Dooms
  <2>4. Asks(q)' /\ Answers(q)'
    BY <1>1, <1>8, <1>10, <2>1 DEF Own, Asks, Answers
  <2>5. Edits(q)'
    <3>1. loc[q].pc \in {"resize", "realloc", "rewrite"} =>
             hdr'[loc[q].at] = hdr[loc[q].at]
      BY <1>10, <2>1 DEF Own, Edits, Editing
    <3>2. QED
      BY <1>10, <2>1, <3>1 DEF Own, Edits
  <2>6. QED
    BY <2>1, <2>2, <2>3, <2>4, <2>5 DEF Own
<1>13. Numbered'
  BY <1>1, <1>10 DEF OrderInv, Numbered
<1>14. KnownNumbers'
  <2> SUFFICES ASSUME NobodyDied', NEW k \in Live
               PROVE  /\ vidx[k] \notin FreePlaces
                      /\ vidx[k] \in DOMAIN hdr' /\ hdr'[vidx[k]].vi = k
                      /\ \A j \in Live : vidx[k] = vidx[j] => k = j
    BY <1>1, <1>10 DEF KnownNumbers
  <2>1. /\ vidx[k] \notin FreePlaces
        /\ k # n => vidx[k] \in DOMAIN hdr /\ hdr[vidx[k]].vi = k
        /\ \A j \in Live : vidx[k] = vidx[j] => k = j
    BY <1>8, <1>10 DEF OrderInv, KnownNumbers
  <2>2. CASE k = n
    BY <1>6, <2>1, <2>2 DEF at
  <2>3. CASE k # n
    <3>1. vidx[k] # at
      BY <1>10, <2>1, <2>3 DEF at
    <3>2. QED
      BY <1>6, <2>1, <2>3, <3>1
  <2>4. QED
    BY <2>2, <2>3
<1>15. Tidy'
  <2>1. \A q \in Procs : loc[q].pc \in Placing =>
           loc'[q].pc \in Placing /\ loc'[q].msg.vi = loc[q].msg.vi
    BY <1>3, <1>4 DEF Placing
  <2>2. QED
    BY <1>1, <1>8, <1>10, <2>1 DEF OrderInv, Tidy
<1>16. QED
  BY <1>8, <1>11, <1>12, <1>13, <1>14, <1>15 DEF OrderInv

\* A header is written back: number, level and thread stay, and nobody who
\* counts on more than that has it in hand.
LEMMA WrittenOrder ==
    ASSUME OrderInv, PlacesInv', NEW p \in Procs, Goes(p), Own(p)',
           UNCHANGED <<hfree, vidx, order>>, DOMAIN hdr' = DOMAIN hdr,
           \A x \in DOMAIN hdr : Kin(hdr'[x], hdr[x]),
           loc[p].pc # "header", loc[p].pc \notin Placing,
           loc'[p].pc \notin {"header", "dead"},
           \A q \in Procs \ {p} :
              /\ loc[q].pc # "store"
              /\ loc[q].pc \in {"cut", "resize"} =>
                    \A x \in DOMAIN hdr : Alike(hdr'[x], hdr[x])
              /\ loc[q].pc \in {"index", "append"} =>
                    Alike(hdr'[vidx[loc[q].msg.vi]], hdr[vidx[loc[q].msg.vi]])
    PROVE  OrderInv'
<1>1. /\ Apart'
      /\ \A q \in Procs \ {p} : loc'[q] = loc[q] /\ Role(q)' /\ Locked(q)'
      /\ NobodyDied' => NobodyDied
      /\ KeepsAll' <=> KeepsAll
  BY OthersKeep
<1>2. TypeOK /\ Shown \subseteq DOMAIN hdr
  BY ShownFacts DEF OrderInv, PlacesInv
<1>3. /\ Shown' = Shown /\ FreePlaces' = FreePlaces /\ Live' = Live
      /\ \A x \in DOMAIN hdr : hdr'[x].vi = hdr[x].vi
      /\ \A x, n : Named(x, n)' <=> Named(x, n)
      /\ Unwritten' = Unwritten
      /\ alone' = alone
  <2>1. Shown' = Shown /\ FreePlaces' = FreePlaces /\ Live' = Live /\ alone' = alone
    BY DEF Shown, FreePlaces, Live, Goes, Moves
  <2>2. \A x \in DOMAIN hdr : hdr'[x].vi = hdr[x].vi
    BY DEF Kin
  <2>3. \A x, n : Named(x, n)' <=> Named(x, n)
    BY <1>2, <2>1, <2>2 DEF Named
  <2>4. Unwritten' = Unwritten
    BY <1>1 DEF Unwritten, At
  <2>5. QED
    BY <2>1, <2>2, <2>3, <2>4
<1>4. \A q \in Procs \ {p} : Own(q)'
  <2> TAKE q \in Procs \ {p}
  <2>1. Role(q)' /\ Locked(q)' /\ loc'[q] = loc[q] /\ Own(q)
    BY <1>1 DEF OrderInv
  <2> DEFINE written(x) == hdr'[x]
             m == loc[q].msg
  <2>7. \A x : Alike(m, hdr[x]) /\ Alike(written(x), hdr[x]) => Alike(m, written(x))
    BY DEF Alike, Kin
  <2>2. Copied(q)'
    <3>1. loc[q].pc \in {"index", "append"} => Alike(m, hdr'[vidx[m.vi]])
      BY <2>1, <2>7 DEF Own, Copied
    <3>2. QED
      BY <2>1, <3>1 DEF Copied
  <2>3. Dooms(q)'
    <3>1. loc[q].pc = "cut" => Alike(m, hdr'[loc[q].at])
      <4>1. loc[q].pc = "cut" => loc[q].at \in Shown /\ Alike(m, hdr[loc[q].at])
        BY <2>1 DEF Own, Dooms, Named, Deleting
      <4>2. QED
        BY <1>2, <2>7, <4>1
    <3>2. QED
      BY <1>1, <1>3, <2>1, <3>1 DEF Own, Dooms
  <2>4. Asks(q)' /\ Answers(q)'
    BY <1>1, <1>3, <2>1 DEF Own, Asks, Answers
  <2>8. \A x : Kin(m, hdr[x]) /\ Kin(written(x), hdr[x]) => Kin(m, written(x))
    BY DEF Kin
  <2>5. Edits(q)'
    <3>1. /\ loc[q].pc \in Editing \ {"translate"} => loc[q].at \in Shown
          /\ loc[q].pc \in {"resize", "realloc", "rewrite"} => Kin(m, hdr[loc[q].at])
          /\ loc[q].pc = "resize" => Alike(m, hdr[loc[q].at])
      BY <2>1 DEF Own, Edits
    <3>2. loc[q].pc \in {"resize", "realloc", "rewrite"} => Kin(m, hdr'[loc[q].at])
      <4>1. loc[q].pc \in {"resize", "realloc", "rewrite"} => loc[q].at \in DOMAIN hdr
        BY <1>2, <3>1 DEF Editing
      <4>2. QED
        BY <2>8, <3>1, <4>1
    <3>3. loc[q].pc = "resize" => Alike(m, hdr'[loc[q].at])
      <4>1. loc[q].pc = "resize" => loc[q].at \in DOMAIN hdr
        BY <1>2, <3>1 DEF Editing
      <4>2. QED
        BY <2>7, <3>1, <4>1
    <3>4. QED
      BY <1>3, <2>1, <3>1, <3>2, <3>3 DEF Edits
  <2>6. QED
    BY <2>1, <2>2, <2>3, <2>4, <2>5 DEF Own
<1>5. Numbered'
  BY <1>2, <1>3 DEF OrderInv, Numbered
<1>6. KnownNumbers'
  BY <1>1, <1>3 DEF OrderInv, KnownNumbers
<1>7. Tidy'
  <2>1. \A q \in Procs : loc[q].pc \in Placing =>
           loc'[q].pc \in Placing /\ loc'[q].msg.vi = loc[q].msg.vi
    BY <1>1
  <2>2. QED
    BY <1>1, <1>3, <2>1 DEF OrderInv, Tidy
<1>8. QED
  BY <1>1, <1>4, <1>5, <1>6, <1>7 DEF OrderInv

LEMMA RewriteHeaderOrder ==
    ASSUME OrderInv, PlacesInv', NEW p \in Procs, RewriteHeader(p), UNCHANGED alone
    PROVE  OrderInv'
<1> DEFINE at == loc[p].at
<1>1. /\ TypeOK /\ PlacesInv /\ loc[p].pc = "rewrite" /\ loc[p].pc \in Copying
      /\ WriteHeader(at, loc[p].msg) /\ Exit(p) /\ Own(p)
      /\ UNCHANGED <<hfree, vidx, order>>
      /\ loc[p].pc \notin Resting \cup Placing
  BY DEF OrderInv, PlacesInv, RewriteHeader, At, Resting, Over, Placing, Copying
<1>2. Goes(p) /\ Own(p)' /\ loc'[p].pc = "done"
  BY <1>1, ExitOwn
<1>3. DOMAIN hdr' = DOMAIN hdr /\ at \in DOMAIN hdr
  BY <1>1, BackFacts
<1>4. hdr' = [hdr EXCEPT ![at] = loc[p].msg] /\ hdr \in Seq(Header)
  BY <1>1, <1>3 DEF WriteHeader, TypeOK
<1>5. hdr'[at] = loc[p].msg /\ \A x \in DOMAIN hdr \ {at} : hdr'[x] = hdr[x]
  BY <1>3, <1>4
<1>6. /\ Kin(loc[p].msg, hdr[at]) /\ at \in Shown /\ loc[p].rq.op = "edit"
  BY <1>1 DEF Own, Edits, Role, Editing
<1>7. \A x \in DOMAIN hdr : Kin(hdr'[x], hdr[x])
  BY <1>5, <1>6 DEF Kin
<1>8. ASSUME NEW q \in Procs \ {p}
      PROVE  /\ loc[q].pc \notin {"store", "cut", "resize"}
             /\ loc[q].pc \in {"index", "append"} =>
                   Alike(hdr'[vidx[loc[q].msg.vi]], hdr[vidx[loc[q].msg.vi]])
  <2>1. loc[q].pc # "store"
    BY <1>1, OneWriter
  <2>2. loc[q].pc \notin {"cut", "resize"}
    <3> SUFFICES ASSUME loc[q].pc \in {"cut", "resize"} PROVE FALSE
      OBVIOUS
    <3>1. loc[q].pc = "cut" => loc[q].rq.op = "delete"
      BY DoomsFacts DEF Deleting
    <3>2. loc[q].pc = "resize" => loc[q].rq.op = "edit"
      BY DEF OrderInv, Own, Role, Editing
    <3>3. Disturbs(loc[q].rq) /\ Disturbs(loc[p].rq)
      BY <1>6, <3>1, <3>2 DEF Disturbs
    <3>4. loc[q].pc \notin Resting
      BY DEF Resting, Over
    <3>5. QED
      BY <1>1, <3>3, <3>4 DEF OrderInv, Apart
  <2>3. ASSUME loc[q].pc \in {"index", "append"}
        PROVE  Alike(hdr'[vidx[loc[q].msg.vi]], hdr[vidx[loc[q].msg.vi]])
    <3>1. loc[q].pc \in Placing /\ loc[q].pc # "header"
      BY <2>3 DEF Placing
    <3>2. Holds(q, vidx[loc[q].msg.vi]) /\ vidx[loc[q].msg.vi] \in DOMAIN hdr
      BY <1>1, <3>1, HoldsFacts DEF PlacesInv, Fits
    <3>3. vidx[loc[q].msg.vi] # at
      BY <1>1, <1>6, <3>2, HoldsFacts
    <3>4. QED
      BY <1>5, <3>2, <3>3 DEF Alike, Kin
  <2>4. QED
    BY <2>1, <2>2, <2>3
<1>9. QED
  BY <1>1, <1>2, <1>3, <1>7, <1>8, WrittenOrder

LEMMA StoreFlaggedOrder ==
    ASSUME OrderInv, PlacesInv', NEW p \in Procs, StoreFlagged(p), UNCHANGED alone
    PROVE  OrderInv'
<1> DEFINE at == loc[p].at
           code == Rolled(loc[p].msg.flags)
<1>1. /\ TypeOK /\ PlacesInv /\ loc[p].pc = "store" /\ loc[p].pc \in Copying
      /\ WriteHeader(at, loc[p].msg) /\ Advance(p, code) /\ Own(p)
      /\ UNCHANGED <<hfree, vidx, order>>
      /\ loc[p].pc \in Flagging /\ loc[p].pc \notin Deleting \cup Placing
  BY DEF OrderInv, PlacesInv, StoreFlagged, At, Flagging, Deleting, Placing, Copying
<1>2. code \in 0..2
  BY DEF Rolled
<1> HIDE DEF code
<1>3. Goes(p) /\ Own(p)' /\ loc'[p].pc \in {"done", "delete", "flags"}
  BY <1>1, <1>2, AdvanceOwn
<1>4. DOMAIN hdr' = DOMAIN hdr /\ at \in DOMAIN hdr
  BY <1>1, BackFacts
<1>5. hdr' = [hdr EXCEPT ![at] = loc[p].msg] /\ hdr \in Seq(Header)
  BY <1>1, <1>4 DEF WriteHeader, TypeOK
<1>6. hdr'[at] = loc[p].msg /\ \A x \in DOMAIN hdr \ {at} : hdr'[x] = hdr[x]
  BY <1>4, <1>5
<1>7. Alike(loc[p].msg, hdr[at])
  BY <1>1 DEF Own, Copied
<1>8. \A x \in DOMAIN hdr : Alike(hdr'[x], hdr[x])
  BY <1>6, <1>7 DEF Alike, Kin
<1>9. \A x \in DOMAIN hdr : Kin(hdr'[x], hdr[x])
  BY <1>8 DEF Alike
<1>10. ASSUME NEW q \in Procs \ {p}
       PROVE  /\ loc[q].pc # "store"
              /\ loc[q].pc \in {"index", "append"} =>
                   Alike(hdr'[vidx[loc[q].msg.vi]], hdr[vidx[loc[q].msg.vi]])
  <2>1. loc[q].pc # "store"
    BY <1>1, OneWriter
  <2>2. ASSUME loc[q].pc \in {"index", "append"}
        PROVE  vidx[loc[q].msg.vi] \in DOMAIN hdr
    <3>1. loc[q].pc \in Placing /\ loc[q].pc # "header"
      BY <2>2 DEF Placing
    <3>2. QED
      BY <1>1, <3>1 DEF PlacesInv, Fits
  <2>3. QED
    BY <1>8, <2>1, <2>2
<1>11. QED
  BY <1>1, <1>3, <1>4, <1>8, <1>9, <1>10, WrittenOrder

\* A place that p has in hand is shown: under the number that leads there.
LEMMA ShowOrder ==
    ASSUME OrderInv, PlacesInv', NEW p \in Procs, loc[p].pc \in {"index", "append"},
           Exit(p), UNCHANGED <<hdr, hfree, vidx, alone>>,
           \E i \in 1..(Len(order) + 1) : order' = InsertAt(order, i, PlaceOf(p))
    PROVE  OrderInv'
<1> DEFINE n == loc[p].msg.vi
           at == PlaceOf(p)
<1>1. /\ TypeOK /\ PlacesInv /\ Own(p) /\ Fits(loc[p])
      /\ loc[p].pc \in Placing /\ loc[p].pc # "header" /\ loc[p].pc \notin Resting
  BY DEF OrderInv, PlacesInv, Placing, Resting, Over
<1>2. /\ at \in DOMAIN hdr /\ at \notin Shown /\ at = vidx[n] /\ n \in DOMAIN vidx
      /\ hdr[at].vi = n
      /\ \A x \in DOMAIN hdr : hdr[x].vi = n => x = at
  <2>1. at \in DOMAIN hdr /\ at \notin Shown /\ at = vidx[n] /\ n \in DOMAIN vidx
    BY <1>1, HoldsFacts DEF Fits, PlaceOf
  <2>2. hdr[at].vi = n
    BY <1>1, <2>1 DEF Own, Copied, Alike, Kin
  <2>3. \A x \in DOMAIN hdr : hdr[x].vi = n => x = at
    BY <1>1, <2>1 DEF PlacesInv, NumbersFresh
  <2>4. QED
    BY <2>1, <2>2, <2>3
<1>3. Goes(p) /\ Own(p)' /\ loc'[p].pc = "done"
  BY <1>1, ExitOwn
<1>4. /\ Apart'
      /\ \A q \in Procs \ {p} : loc'[q] = loc[q] /\ Role(q)' /\ Locked(q)'
      /\ NobodyDied' => NobodyDied
      /\ KeepsAll' <=> KeepsAll
  BY <1>3, OthersKeep
<1>5. Shown' = Shown \cup {at}
  <2>1. order \in Seq(1..Len(hdr)) /\ IsInjective(order) /\ at \in 1..Len(hdr)
    <3>1. order \in Seq(1..Len(hdr)) /\ IsInjective(order)
      BY <1>1 DEF PlacesInv, PlacesOwned, PlacesNotShared, TypeOK
    <3>2. DOMAIN hdr = 1..Len(hdr)
      BY <1>1, ShownFacts
    <3>3. QED
      BY <1>2, <3>1, <3>2
  <2>2. PICK i \in 1..(Len(order) + 1) : order' = InsertAt(order, i, at)
    OBVIOUS
  <2> HIDE DEF at
  <2>3. QED
    BY <1>2, <2>1, <2>2, InsertedOnce DEF Shown
<1> HIDE DEF at, n
<1>6. /\ FreePlaces' = FreePlaces /\ Live' = Live /\ Unwritten' = Unwritten
      /\ alone' = alone
      /\ \A x, k : Named(x, k) => Named(x, k)'
  <2>1. FreePlaces' = FreePlaces /\ Live' = Live
    BY DEF FreePlaces, Live
  <2>2. Unwritten' = Unwritten
    BY <1>1, <1>3, <1>4 DEF Unwritten, At
  <2>3. QED
    BY <1>5, <2>1, <2>2 DEF Named
<1>7. \A q \in Procs \ {p} : Own(q)'
  <2> TAKE q \in Procs \ {p}
  <2>1. Role(q)' /\ Locked(q)' /\ loc'[q] = loc[q] /\ Own(q)
    BY <1>4 DEF OrderInv
  <2>2. Copied(q)'
    BY <2>1 DEF Own, Copied
  <2>3. Dooms(q)'
    BY <1>4, <1>6, <2>1 DEF Own, Dooms
  <2>4. Asks(q)' /\ Answers(q)' /\ Edits(q)'
    BY <1>4, <1>5, <1>6, <2>1 DEF Own, Asks, Answers, Edits
  <2>5. QED
    BY <2>1, <2>2, <2>3, <2>4 DEF Own
<1>8. Numbered'
  <2>1. \A x \in Shown : x \in DOMAIN hdr /\ x # at
    BY <1>1, <1>2, ShownFacts
  <2>2. \A x \in Shown : hdr[x].vi # n
    BY <1>2, <2>1
  <2>3. QED
    BY <1>2, <1>5, <2>1, <2>2 DEF OrderInv, Numbered
<1>9. KnownNumbers'
  BY <1>4, <1>6 DEF OrderInv, KnownNumbers
<1>10. Tidy'
  <2> SUFFICES ASSUME KeepsAll, NEW k \in Live
               PROVE  \/ vidx[k] \in Shown'
                      \/ \E q \in Procs : loc'[q].pc \in Placing /\ loc'[q].msg.vi = k
    BY <1>4, <1>6 DEF Tidy
  <2>1. CASE vidx[k] \in Shown
    BY <1>5, <2>1
  <2>2. CASE \E q \in Procs \ {p} : loc[q].pc \in Placing /\ loc[q].msg.vi = k
    BY <1>4, <2>2
  <2>3. CASE k = n
    BY <1>2, <1>5, <2>3
  <2>4. QED
    BY <2>1, <2>2, <2>3 DEF OrderInv, Tidy, n
<1>11. QED
  BY <1>3, <1>4, <1>7, <1>8, <1>9, <1>10 DEF OrderInv

LEMMA IndexReplyOrder ==
    ASSUME OrderInv, PlacesInv', NEW p \in Procs, IndexReply(p), UNCHANGED alone
    PROVE  OrderInv'
<1>1. /\ TypeOK /\ loc[p].pc = "index" /\ Exit(p) /\ loc[p].rq.vi # 0 /\ Own(p)
      /\ UNCHANGED <<hdr, hfree, vidx>> /\ loc[p].pc \notin Resting
  BY DEF OrderInv, PlacesInv, IndexReply, At, Resting, Over
<1>2. CASE Indexed(loc[p].at)
  <2>1. order' = InsertAt(order, Pos(order, loc[p].at) + 1, PlaceOf(p))
    BY <1>2 DEF IndexReply, ReplyAfter
  <2>2. order \in Seq(1..Len(hdr)) /\ Len(order) \in Nat
    BY <1>1 DEF TypeOK
  <2>3. Pos(order, loc[p].at) \in 1..Len(order)
    BY <1>2, <2>2, PosFacts DEF Indexed
  <2>4. Pos(order, loc[p].at) + 1 \in 1..(Len(order) + 1)
    BY <2>2, <2>3
  <2>5. QED
    BY <1>1, <2>1, <2>4, ShowOrder
<1>3. CASE ~Indexed(loc[p].at)
  <2>1. order' = order
    BY <1>3 DEF IndexReply
  <2>2. ~KeepsAll
    BY <1>1, <1>3 DEF Own, Answers, Posting, Shown, Indexed
  <2>3. Goes(p) /\ Own(p)' /\ loc'[p].pc = "done"
    BY <1>1, ExitOwn
  <2>4. QED
    BY <1>1, <2>1, <2>2, <2>3, OrderStill
<1>4. QED
  BY <1>2, <1>3

LEMMA IndexThreadOrder ==
    ASSUME OrderInv, PlacesInv', NEW p \in Procs, IndexThread(p), UNCHANGED alone
    PROVE  OrderInv'
<1>1. /\ TypeOK /\ loc[p].pc = "append" /\ Exit(p) /\ Fits(loc[p])
      /\ order' = ThreadFirst(order, PlaceOf(p)) /\ UNCHANGED <<hdr, hfree, vidx>>
  BY DEF OrderInv, PlacesInv, IndexThread, At
<1>2. order \in Seq(1..Len(hdr)) /\ Len(order) \in Nat /\ hdr \in Seq(Header)
  BY <1>1 DEF TypeOK
<1>3. PlaceOf(p) \in 1..Len(hdr)
  BY <1>1, <1>2 DEF Fits, Placing, PlaceOf
<1>4. order' = InsertAt(order, 1, PlaceOf(p)) /\ 1 \in 1..(Len(order) + 1)
  BY <1>1, <1>2, <1>3, FirstFacts
<1>5. QED
  BY <1>1, <1>4, ShowOrder

\* While p deletes nobody else deletes or edits, and where nothing gets lost
\* nobody posts.
LEMMA Undisturbed ==
    ASSUME OrderInv, NEW p \in Procs, loc[p].pc \in Deleting, NEW q \in Procs \ {p}
    PROVE  /\ loc[q].pc \notin Deleting \cup Editing
           /\ KeepsAll => loc[q].pc \notin Posting
<1>1. loc[p].rq.op = "delete" /\ Own(p) /\ Own(q)
  BY DoomsFacts DEF OrderInv
<1>2. /\ Disturbs(loc[p].rq)
      /\ loc[q].pc \in Deleting \cup Editing => Disturbs(loc[q].rq)
  BY <1>1, DoomsFacts DEF Disturbs, Own, Role
<1>3. loc[p].pc \notin Resting
  BY DEF Deleting, Resting, Over
<1>4. loc[q].pc \in Deleting \cup Editing \cup Posting => loc[q].pc \notin Resting
  BY DEF Deleting, Editing, Posting, Resting, Over
<1>5. alone => loc[q].pc \in Resting
  BY <1>3 DEF OrderInv, Apart
<1>6. ~alone => loc[q].pc \notin Deleting \cup Editing
  BY <1>2 DEF OrderInv, Apart
<1>7. KeepsAll => alone
  BY <1>1 DEF KeepsAll, Own, Role
<1>8. QED
  BY <1>4, <1>5, <1>6, <1>7

\* A number is taken out: then none leads to the place of the message.
LEMMA DropNumberOrder ==
    ASSUME OrderInv, PlacesInv', NEW p \in Procs, DropNumber(p), UNCHANGED alone
    PROVE  OrderInv'
<1> DEFINE n == loc[p].todo[1]
           at == loc[p].at
<1>1. /\ loc[p].pc = "unindex" /\ loc[p].pc \in Deleting
      /\ vidx' = [vidx EXCEPT ![Head(loc[p].todo)] = Gone] /\ Goto(p, "read")
      /\ UNCHANGED <<hdr, hfree, order, held>> /\ "read" \in Pc
  BY DEF DropNumber, At, Deleting, Pc
<1>2. /\ TypeOK /\ PlacesInv /\ Own(p) /\ loc[p].pc \notin Resting \cup Placing
      /\ n \in DOMAIN vidx /\ vidx \in Seq(Nat) /\ Head(loc[p].todo) = n
  BY <1>1, DoomsFacts DEF OrderInv
<1>3. Named(at, n)
  BY <1>1, <1>2 DEF Own, Dooms
<1>4. \A q \in Procs : loc[q].pc \in Placing =>
         loc[q].msg.vi # n /\ loc[q].msg.vi \in DOMAIN vidx
  <2> SUFFICES ASSUME NEW q \in Procs, loc[q].pc \in Placing
               PROVE  loc[q].msg.vi # n /\ loc[q].msg.vi \in DOMAIN vidx
    OBVIOUS
  <2>1. Unknown(loc[p], loc[q].msg.vi, vidx[loc[q].msg.vi])
    BY <1>2 DEF PlacesInv, NumbersFresh
  <2>2. 1 \in DOMAIN loc[p].todo
    BY <1>1, DoomsFacts
  <2>3. QED
    BY <1>1, <1>2, <2>1, <2>2, HoldsFacts DEF Unknown
<1>5. /\ loc' \in [Procs -> Memory] /\ loc'[p] = [loc[p] EXCEPT !.pc = "read"]
      /\ \A q \in Procs \ {p} : loc'[q] = loc[q]
  BY <1>1, <1>2, GotoMoves
<1>6. /\ loc'[p].pc = "read" /\ loc'[p].rq = loc[p].rq /\ loc'[p].todo = loc[p].todo
      /\ loc'[p].at = at
  BY <1>2, <1>5, MemoryFacts DEF Memory
<1> HIDE DEF n, at
<1>7. /\ DOMAIN vidx' = DOMAIN vidx /\ vidx'[n] = Gone
      /\ \A k \in DOMAIN vidx \ {n} : vidx'[k] = vidx[k]
  BY <1>1, <1>2
<1>8. Goes(p)
  BY <1>1, <1>2, <1>5, <1>6, GoesStill
<1>9. /\ Apart'
      /\ \A q \in Procs \ {p} : Role(q)' /\ Locked(q)'
      /\ NobodyDied' => NobodyDied
      /\ KeepsAll' <=> KeepsAll
  BY <1>8, OthersKeep
<1>10. /\ Shown' = Shown /\ FreePlaces' = FreePlaces /\ Unwritten' = Unwritten
       /\ \A x, k : Named(x, k)' <=> Named(x, k)
       /\ Live' = Live \ {n}
       /\ \A k \in Live' : k \in DOMAIN vidx /\ vidx'[k] = vidx[k]
  <2>1. Shown' = Shown /\ FreePlaces' = FreePlaces
    BY <1>1 DEF Shown, FreePlaces
  <2>2. \A x, k : Named(x, k)' <=> Named(x, k)
    BY <1>1, <2>1 DEF Named
  <2>3. Unwritten' = Unwritten
    <3>1. \A q \in Procs : /\ loc'[q].pc = "header" <=> loc[q].pc = "header"
                           /\ loc[q].pc = "header" => loc'[q] = loc[q]
      BY <1>1, <1>5, <1>6
    <3>2. QED
      BY <3>1 DEF Unwritten, At
  <2>4. Live' = Live \ {n}
    BY <1>7 DEF Live
  <2>5. QED
    BY <1>7, <2>1, <2>2, <2>3, <2>4 DEF Live
<1>11. Own(p)'
  <2>1. ASSUME NobodyDied', NEW k \in Live' PROVE vidx'[k] # at
    <3>1. /\ k \in Live /\ k # n /\ vidx'[k] = vidx[k]
          /\ k \notin Unwritten => hdr[vidx[k]].vi = k
      BY <1>9, <1>10, <2>1 DEF OrderInv, KnownNumbers
    <3>2. k \in Unwritten => vidx[k] \notin Shown
      <4> SUFFICES ASSUME NEW r \in Procs, loc[r].pc = "header", loc[r].msg.vi = k
                   PROVE  vidx[k] \notin Shown
        BY DEF Unwritten, At
      <4>1. loc[r].pc \in Placing
        BY DEF Placing
      <4>2. QED
        BY <1>2, <4>1, HoldsFacts
    <3>3. QED
      BY <1>3, <3>1, <3>2 DEF Named
  <2>2. Dooms(p)'
    BY <1>1, <1>2, <1>3, <1>6, <1>7, <1>10, <2>1 DEF Own, Dooms, n
  <2>3. loc'[p].pc \in Deleting
    BY <1>6 DEF Deleting
  <2>4. QED
    BY <1>6, <2>2, <2>3, DoomedOwn
<1>12. \A q \in Procs \ {p} : Own(q)'
  <2> TAKE q \in Procs \ {p}
  <2>1. Role(q)' /\ Locked(q)' /\ loc'[q] = loc[q] /\ Own(q)
    BY <1>5, <1>9 DEF OrderInv
  <2>2. Copied(q)'
    <3>1. loc[q].pc \in {"index", "append"} => vidx'[loc[q].msg.vi] = vidx[loc[q].msg.vi]
      BY <1>4, <1>7 DEF Placing
    <3>2. QED
      BY <1>1, <2>1, <3>1 DEF Own, Copied
  <2>3. Dooms(q)'
    BY <1>1, <2>1, Undisturbed DEF Dooms
  <2>4. Asks(q)'
    <3>1. \A k \in DOMAIN vidx : vidx'[k] # Gone => vidx'[k] = vidx[k]
      BY <1>7
    <3>2. alone' = alone
      OBVIOUS
    <3>3. QED
      BY <1>7, <1>9, <1>10, <2>1, <3>1, <3>2 DEF Own, Asks
  <2>5. Answers(q)' /\ Edits(q)'
    BY <1>1, <1>9, <1>10, <2>1 DEF Own, Answers, Edits
  <2>6. QED
    BY <2>1, <2>2, <2>3, <2>4, <2>5 DEF Own
<1>13. Numbered'
  <2>1. \A x \in Shown : hdr[x].vi \in DOMAIN vidx
    BY <1>2, ShownFacts DEF PlacesInv, NumbersKnown
  <2>2. QED
    BY <1>1, <1>7, <1>10, <2>1 DEF OrderInv, Numbered
<1>14. KnownNumbers'
  <2>1. Live' \subseteq Live
    BY <1>10
  <2>2. QED
    BY <1>1, <1>9, <1>10, <2>1 DEF OrderInv, KnownNumbers
<1>15. Tidy'
  <2>1. \A q \in Procs : loc[q].pc \in Placing =>
           loc'[q].pc \in Placing /\ loc'[q].msg.vi = loc[q].msg.vi
    BY <1>2, <1>5
  <2>2. QED
    BY <1>9, <1>10, <2>1 DEF OrderInv, Tidy
<1>16. QED
  BY <1>9, <1>11, <1>12, <1>13, <1>14, <1>15 DEF OrderInv

\* The message is cut out of the index: nobody else counts on its being shown.
LEMMA CutMessageOrder ==
    ASSUME OrderInv, PlacesInv', NEW p \in Procs, CutMessage(p), UNCHANGED alone
    PROVE  OrderInv'
<1> DEFINE n == loc[p].todo[1]
           at == loc[p].at
<1>1. /\ loc[p].pc = "cut" /\ loc[p].pc \in Deleting /\ "freeheader" \in Pc
      /\ UNCHANGED <<hdr, hfree, vidx>>
  BY DEF CutMessage, At, Deleting, Pc
<1>2. /\ TypeOK /\ PlacesInv /\ Own(p) /\ loc[p].pc \notin Resting \cup Placing
      /\ 1 \in DOMAIN loc[p].todo /\ loc[p].todo \in Seq(Nat)
  BY <1>1, DoomsFacts DEF OrderInv
<1>3. /\ Named(at, n) /\ vidx[n] = Gone
      /\ NobodyDied => \A k \in Live : vidx[k] # at
  BY <1>1, <1>2 DEF Own, Dooms
<1>4. order' = WithoutMessage(order, at) /\ Goto(p, "freeheader") /\ UNCHANGED held
  BY <1>3 DEF CutMessage, Named, Shown, Indexed
<1>5. /\ loc' \in [Procs -> Memory] /\ loc'[p] = [loc[p] EXCEPT !.pc = "freeheader"]
      /\ \A q \in Procs \ {p} : loc'[q] = loc[q]
  BY <1>1, <1>2, <1>4, GotoMoves
<1>6. /\ loc'[p].pc = "freeheader" /\ loc'[p].rq = loc[p].rq
      /\ loc'[p].todo = loc[p].todo /\ loc'[p].at = at
  BY <1>2, <1>5, MemoryFacts DEF Memory
<1>7. Shown' = Shown \ {at}
  <2>1. order \in Seq(1..Len(hdr)) /\ IsInjective(order)
    BY <1>2 DEF PlacesInv, PlacesOwned, PlacesNotShared, TypeOK
  <2> HIDE DEF at
  <2>2. at \in ToSet(order)
    BY <1>3 DEF Named, Shown
  <2>3. QED
    BY <1>4, <2>1, <2>2, WithoutFacts DEF Shown
<1> HIDE DEF at, n
<1>8. Goes(p)
  BY <1>2, <1>4, <1>5, <1>6, GoesStill
<1>9. /\ Apart'
      /\ \A q \in Procs \ {p} : Role(q)' /\ Locked(q)'
      /\ NobodyDied' => NobodyDied
      /\ KeepsAll' <=> KeepsAll
  BY <1>8, OthersKeep
<1>10. /\ FreePlaces' = FreePlaces /\ Unwritten' = Unwritten /\ Live' = Live
       /\ \A x, k : Named(x, k) /\ k # n => Named(x, k)'
  <2>1. FreePlaces' = FreePlaces /\ Live' = Live
    BY <1>1 DEF FreePlaces, Live
  <2>2. Unwritten' = Unwritten
    <3>1. \A q \in Procs : /\ loc'[q].pc = "header" <=> loc[q].pc = "header"
                           /\ loc[q].pc = "header" => loc'[q] = loc[q]
      BY <1>1, <1>5, <1>6
    <3>2. QED
      BY <3>1 DEF Unwritten, At
  <2>3. QED
    BY <1>1, <1>3, <1>7, <2>1, <2>2 DEF Named
<1>11. Own(p)'
  <2>1. /\ \A i, j \in DOMAIN loc[p].todo : loc[p].todo[i] = loc[p].todo[j] => i = j
        /\ \A i \in DOMAIN loc[p].todo : i > 1 => \E x \in Nat : Named(x, loc[p].todo[i])
    BY <1>1, DoomsFacts
  <2>2. \A i \in DOMAIN loc[p].todo : i > 1 => \E x \in Nat : Named(x, loc[p].todo[i])'
    <3> SUFFICES ASSUME NEW i \in DOMAIN loc[p].todo, i > 1
                 PROVE  \E x \in Nat : Named(x, loc[p].todo[i])'
      OBVIOUS
    <3>1. PICK x \in Nat : Named(x, loc[p].todo[i])
      BY <2>1
    <3>2. i # 1
      BY <1>2
    <3>3. loc[p].todo[i] # n
      BY <1>2, <2>1, <3>2 DEF n
    <3>4. QED
      BY <1>6, <1>10, <3>1, <3>3
  <2>3. Dooms(p)'
    BY <1>1, <1>3, <1>6, <1>9, <1>10, <2>1, <2>2 DEF Dooms, Named
  <2>4. loc'[p].pc \in Deleting
    BY <1>6 DEF Deleting
  <2>5. QED
    BY <1>6, <2>3, <2>4, DoomedOwn
<1>12. \A q \in Procs \ {p} : Own(q)'
  <2> TAKE q \in Procs \ {p}
  <2>1. Role(q)' /\ Locked(q)' /\ loc'[q] = loc[q] /\ Own(q)
    BY <1>5, <1>9 DEF OrderInv
  <2>2. Copied(q)'
    BY <1>1, <2>1 DEF Own, Copied
  <2>3. loc[q].pc \notin Deleting \cup Editing /\ (KeepsAll => loc[q].pc \notin Posting)
    BY <1>1, Undisturbed
  <2>4. Dooms(q)' /\ Edits(q)' /\ Answers(q)'
    BY <1>9, <2>1, <2>3 DEF Dooms, Edits, Answers, Editing
  <2>5. Asks(q)'
    <3>1. \A k : vidx[k] # Gone => k # n
      BY <1>3
    <3>2. alone' = alone
      OBVIOUS
    <3>3. QED
      BY <1>1, <1>9, <1>10, <2>1, <3>1, <3>2 DEF Own, Asks
  <2>6. QED
    BY <2>1, <2>2, <2>4, <2>5 DEF Own
<1>13. Numbered'
  BY <1>1, <1>7 DEF OrderInv, Numbered
<1>14. KnownNumbers'
  BY <1>1, <1>9, <1>10 DEF OrderInv, KnownNumbers
<1>15. Tidy'
  <2>1. \A q \in Procs : loc[q].pc \in Placing =>
           loc'[q].pc \in Placing /\ loc'[q].msg.vi = loc[q].msg.vi
    BY <1>2, <1>5
  <2>2. KeepsAll => NobodyDied
    BY DEF KeepsAll, NobodyDied, At, OrderInv, Own, Role
  <2>3. KeepsAll => \A k \in Live : vidx[k] \in Shown => vidx[k] \in Shown'
    BY <1>3, <1>7, <2>2
  <2>4. QED
    BY <1>1, <1>9, <1>10, <2>1, <2>3 DEF OrderInv, Tidy
<1>16. QED
  BY <1>9, <1>11, <1>12, <1>13, <1>14, <1>15 DEF OrderInv

\* Its place is handed back: no number leads there.
LEMMA FreeDoomedHeaderOrder ==
    ASSUME OrderInv, PlacesInv', NEW p \in Procs, FreeDoomedHeader(p), UNCHANGED alone
    PROVE  OrderInv'
<1> DEFINE at == loc[p].at
           block == [index |-> at, size |-> 1]
<1>1. /\ loc[p].pc = "freeheader" /\ loc[p].pc \in Deleting /\ "freebody" \in Pc
      /\ MarkFreeSpace(hfree, hfree', block, 0) /\ Goto(p, "freebody")
      /\ UNCHANGED <<hdr, vidx, order, held>>
  BY DEF FreeDoomedHeader, FreeHeader, At, Deleting, Pc
<1>2. /\ TypeOK /\ PlacesInv /\ Own(p) /\ loc[p].pc \notin Resting \cup Placing
  BY <1>1, DoomsFacts DEF OrderInv
<1>3. NobodyDied => \A k \in Live : vidx[k] # at
  BY <1>1, <1>2 DEF Own, Dooms
<1>4. /\ loc' \in [Procs -> Memory] /\ loc'[p] = [loc[p] EXCEPT !.pc = "freebody"]
      /\ \A q \in Procs \ {p} : loc'[q] = loc[q]
  BY <1>1, <1>2, GotoMoves
<1>5. /\ loc'[p].pc = "freebody" /\ loc'[p].rq = loc[p].rq
      /\ loc'[p].todo = loc[p].todo
  BY <1>2, <1>4, MemoryFacts DEF Memory
<1>6. FreePlaces' = FreePlaces \cup {at}
  <2>1. Holds(p, at) /\ at \notin FreePlaces /\ at \in Nat
    BY <1>1, <1>2, HoldsFacts DEF Holds
  <2>2. hfree \in Seq(Block) /\ NoneTwice(hfree)
    BY <1>2 DEF PlacesInv, PlacesOwned, PlacesNotShared, TypeOK
  <2>3. block \in Block /\ block.index = at /\ block.size = 1
    BY <2>1 DEF Block
  <2>4. Span(block) = {at}
    <3>1. Span(block) = at..(at + 1 - 1)
      BY <2>3 DEF Span
    <3>2. at..(at + 1 - 1) = {at}
      BY <2>1
    <3>3. QED
      BY <3>1, <3>2
  <2> HIDE DEF block
  <2>5. Span(block) \cap Units(hfree) = {}
    BY <2>1, <2>4 DEF FreePlaces
  <2>6. Units(hfree') = Units(hfree) \cup Span(block)
    BY <1>1, <2>2, <2>3, <2>5, MarkFacts
  <2>7. QED
    BY <2>4, <2>6 DEF FreePlaces
<1> HIDE DEF at, block
<1>7. Goes(p)
  BY <1>1, <1>2, <1>4, <1>5, GoesStill
<1>8. /\ Apart'
      /\ \A q \in Procs \ {p} : Role(q)' /\ Locked(q)'
      /\ NobodyDied' => NobodyDied
      /\ KeepsAll' <=> KeepsAll
  BY <1>7, OthersKeep
<1>9. /\ Shown' = Shown /\ Unwritten' = Unwritten /\ Live' = Live
      /\ \A x, k : Named(x, k)' <=> Named(x, k)
  <2>1. Shown' = Shown /\ Live' = Live /\ \A x, k : Named(x, k)' <=> Named(x, k)
    BY <1>1 DEF Shown, Live, Named
  <2>2. Unwritten' = Unwritten
    <3>1. \A q \in Procs : /\ loc'[q].pc = "header" <=> loc[q].pc = "header"
                           /\ loc[q].pc = "header" => loc'[q] = loc[q]
      BY <1>1, <1>4, <1>5
    <3>2. QED
      BY <3>1 DEF Unwritten, At
  <2>3. QED
    BY <2>1, <2>2
<1>10. Own(p)'
  <2>1. Dooms(p)'
    BY <1>1, <1>2, <1>5, <1>9 DEF Own, Dooms
  <2>2. loc'[p].pc \in Deleting
    BY <1>5 DEF Deleting
  <2>3. QED
    BY <1>5, <2>1, <2>2, DoomedOwn
<1>11. \A q \in Procs \ {p} : Own(q)'
  <2> TAKE q \in Procs \ {p}
  <2>1. Role(q)' /\ Locked(q)' /\ loc'[q] = loc[q] /\ Own(q)
    BY <1>4, <1>8 DEF OrderInv
  <2>2. Copied(q)' /\ Dooms(q)'
    BY <1>1, <1>8, <1>9, <2>1 DEF Own, Copied, Dooms
  <2>3. Asks(q)' /\ Answers(q)' /\ Edits(q)'
    BY <1>1, <1>8, <1>9, <2>1 DEF Own, Asks, Answers, Edits
  <2>4. QED
    BY <2>1, <2>2, <2>3 DEF Own
<1>12. Numbered'
  BY <1>1, <1>9 DEF OrderInv, Numbered
<1>13. KnownNumbers'
  BY <1>1, <1>3, <1>6, <1>8, <1>9 DEF OrderInv, KnownNumbers
<1>14. Tidy'
  <2>1. \A q \in Procs : loc[q].pc \in Placing =>
           loc'[q].pc \in Placing /\ loc'[q].msg.vi = loc[q].msg.vi
    BY <1>2, <1>4
  <2>2. QED
    BY <1>1, <1>8, <1>9, <2>1 DEF OrderInv, Tidy
<1>15. QED
  BY <1>8, <1>10, <1>11, <1>12, <1>13, <1>14 DEF OrderInv

LEMMA OrderInit ==
    ASSUME Orderly, Init PROVE OrderInv
<1>1. PICK plan \in Plans :
         /\ hdr = plan.seed.hdr /\ hfree = plan.seed.hfree
         /\ vidx = plan.seed.vidx /\ order = plan.seed.order
         /\ alone = plan.alone
         /\ loc = [p \in Procs |-> Idle("start", plan.asks[p])]
  BY DEF Init
<1>2. PlacesInv /\ TypeOK
  BY PlacesInit DEF PlacesInv
<1>3. Settled(plan.seed) /\ plan.asks \in [Procs -> Request]
  BY MsgStoreAssumption
<1>4. /\ Shown \cap FreePlaces = {} /\ Shown \subseteq DOMAIN hdr
      /\ \A x \in Shown : vidx[hdr[x].vi] = x
      /\ \A n \in DOMAIN vidx :
            vidx[n] # Gone => vidx[n] \in Shown /\ hdr[vidx[n]].vi = n
  BY <1>1, <1>2, <1>3, ShownFacts DEF Settled, Shown, FreePlaces
<1>5. \A p \in Procs : loc[p].pc = "start" /\ loc[p].rq = plan.asks[p]
  BY <1>1 DEF Idle
<1>6. /\ "start" \notin Posting \cup Editing \cup Deleting \cup Placing
      /\ "start" \in Resting
  BY DEF Posting, Editing, Deleting, Placing, Resting
<1>7. Keeping /\ ~alone =>
         \A p \in Procs :
            /\ plan.asks[p].op # "delete"
            /\ plan.asks[p].op = "post" /\ plan.asks[p].vi # 0
                  => plan.asks[p].vi \in DOMAIN vidx
  BY <1>1 DEF Keeping
<1>8. /\ \A p \in Procs : plan.asks[p].op = "edit" =>
            /\ p \notin Mortal
            /\ plan.asks[p].vi \in DOMAIN vidx \/ (alone /\ Mortal = {})
      /\ ~alone =>
            /\ \A p \in Procs : plan.asks[p].op \in Usual
            /\ \A p, q \in Procs : p # q =>
                  ~(Disturbs(plan.asks[p]) /\ Disturbs(plan.asks[q]))
  BY <1>1 DEF Orderly
<1>9. Apart
  BY <1>5, <1>6, <1>8 DEF Apart
<1>10. \A p \in Procs : Own(p)
  <2> TAKE p \in Procs
  <2>1. Role(p)
    BY <1>5, <1>6, <1>7, <1>8 DEF Role
  <2>2. Locked(p) /\ Copied(p) /\ Dooms(p) /\ Edits(p) /\ Answers(p)
    BY <1>5, <1>6 DEF Locked, Copied, Dooms, Edits, Answers
  <2>3. \A n \in DOMAIN vidx : vidx[n] # Gone => Named(vidx[n], n)
    BY <1>4 DEF Named
  <2>4. Asks(p)
    BY <1>5, <1>7, <1>8, <2>3 DEF Asks, KeepsAll
  <2>5. QED
    BY <2>1, <2>2, <2>4 DEF Own
<1>11. Numbered
  BY <1>4 DEF Numbered
<1>12. \A n \in Live : n \in DOMAIN vidx /\ vidx[n] \in Shown /\ hdr[vidx[n]].vi = n
  BY <1>4 DEF Live
<1>13. KnownNumbers
  <2> SUFFICES ASSUME NEW n \in Live
               PROVE  /\ vidx[n] \notin FreePlaces
                      /\ vidx[n] \in DOMAIN hdr /\ hdr[vidx[n]].vi = n
                      /\ \A k \in Live : vidx[n] = vidx[k] => n = k
    BY DEF KnownNumbers
  <2>1. vidx[n] \in Shown /\ vidx[n] \in DOMAIN hdr /\ hdr[vidx[n]].vi = n
    BY <1>4, <1>12
  <2>2. \A k \in Live : vidx[n] = vidx[k] => n = k
    BY <1>12
  <2>3. QED
    BY <1>4, <2>1, <2>2
<1>14. Tidy
  BY <1>12 DEF Tidy
<1>15. QED
  BY <1>2, <1>9, <1>10, <1>11, <1>13, <1>14 DEF OrderInv

LEMMA OrderStutter ==
    ASSUME OrderInv, UNCHANGED vars PROVE OrderInv'
<1>1. UNCHANGED <<hdr, hfree, bodyEnd, bfree, vidx, threads, order, held, alone, loc>>
  BY DEF vars, store
<1>2. PlacesInv'
  BY PlacesStutter DEF OrderInv
<1>3. /\ Shown' = Shown /\ FreePlaces' = FreePlaces /\ Live' = Live
      /\ Unwritten' = Unwritten /\ (NobodyDied' <=> NobodyDied)
      /\ (KeepsAll' <=> KeepsAll)
      /\ \A x, n : Named(x, n)' <=> Named(x, n)
  BY <1>1 DEF Shown, FreePlaces, Live, Unwritten, NobodyDied, KeepsAll, Named, At
<1>4. ASSUME NEW p \in Procs PROVE Own(p)'
  <2>1. Own(p)
    BY DEF OrderInv
  <2>2. Role(p)' /\ Locked(p)' /\ Copied(p)'
    BY <1>1, <2>1 DEF Own, Role, Locked, Copied
  <2>3. Dooms(p)'
    BY <1>1, <1>3, <2>1 DEF Own, Dooms
  <2>4. Asks(p)' /\ Edits(p)' /\ Answers(p)'
    BY <1>1, <1>3, <2>1 DEF Own, Asks, Edits, Answers
  <2>5. QED
    BY <2>2, <2>3, <2>4 DEF Own
<1>5. Apart' /\ Numbered'
  BY <1>1, <1>3 DEF OrderInv, Apart, Numbered
<1>6. KnownNumbers' /\ Tidy'
  BY <1>1, <1>3 DEF OrderInv, KnownNumbers, Tidy
<1>7. QED
  BY <1>2, <1>4, <1>5, <1>6 DEF OrderInv

LEMMA OrderServe ==
    ASSUME OrderInv, PlacesInv', NEW p \in Procs, Serve(p)
    PROVE  OrderInv'
<1>1. UNCHANGED alone
  BY DEF Serve
<1>2. CASE Post(p)
  BY <1>1, <1>2, FindParentOrder, ReadParentOrder, WriteBodyOrder, TakeNumberOrder,
     PutHeaderOrder, IndexReplyOrder, CountThreadOrder, IndexThreadOrder DEF Post
<1>3. CASE FindRoot(p) \/ SelectThread(p)
  BY <1>1, <1>3, FindRootOrder, SelectThreadOrder
<1>4. CASE Delete(p)
  BY <1>1, <1>4, FindDoomedOrder, DropNumberOrder, ReadDoomedOrder, CutMessageOrder,
     FreeDoomedHeaderOrder, FreeDoomedBodyOrder DEF Delete
<1>5. CASE Edit(p)
  BY <1>1, <1>5, FindEditedOrder, ReadEditedOrder, ResizeBodyOrder, MoveBodyOrder,
     RewriteHeaderOrder DEF Edit
<1>6. CASE ChangeFlags(p)
  BY <1>1, <1>6, FindFlaggedOrder, OnlyReadOrder, ReadFlaggedOrder, StoreFlaggedOrder
     DEF ChangeFlags
<1>7. QED
  BY <1>2, <1>3, <1>4, <1>5, <1>6 DEF Serve

LEMMA OrderNext ==
    ASSUME OrderInv, [Next]_vars PROVE OrderInv'
<1>1. PlacesInv'
  BY PlacesNext DEF OrderInv
<1>2. CASE \E p \in Procs : Begin(p)
  BY <1>1, <1>2, BeginOrder
<1>3. CASE \E p \in Procs : Serve(p)
  BY <1>1, <1>3, OrderServe
<1>4. CASE \E p \in Mortal : Die(p)
  BY <1>1, <1>4, DieOrder, MsgStoreAssumption
<1>5. CASE AllServed \/ UNCHANGED vars
  BY <1>5, OrderStutter DEF AllServed
<1>6. QED
  BY <1>2, <1>3, <1>4, <1>5 DEF Next

THEOREM OrderInvHolds == Orderly /\ Spec => []OrderInv
<1>1. Orderly /\ Init => OrderInv
  BY OrderInit
<1>2. OrderInv /\ [Next]_vars => OrderInv'
  BY OrderNext
<1>3. QED
  BY <1>1, <1>2, PTL DEF Spec

\* What is shown under a number is the message that was given the number:
\* orderly requests may post, read, close and open at once while one of them
\* deletes a thread or edits a message, or do anything one after the other, and
\* write whole headers back; while nobody was killed no number leads to another
\* message's header and no two numbers lead to one place.
THEOREM NumbersLead == Orderly /\ Spec => []NumberNamesItsMessage
<1>1. OrderInv => NumberNamesItsMessage
  BY DEF OrderInv, KnownNumbers, NumberNamesItsMessage
<1>2. QED
  BY <1>1, OrderInvHolds, PTL
-----------------------------------------------------------------------------
(* Who owns the bytes of bodies. *)

\* What the header in a request's memory says of a body counts from when the
\* body is written until the message is shown, and from when the message is
\* cut out until the body is handed back.
InHand == {"number", "header", "index", "append", "freeheader", "freebody", "rewrite"}
Reshaping == {"realloc", "rewrite"}

Stored(x) == IF x \in Shown \ Rewritten THEN Bytes(hdr[x]) ELSE {}
Carried(p) == IF loc[p].pc \in InHand THEN Bytes(loc[p].msg) ELSE {}

Owners == ({"shown"} \X Nat) \cup ({"hand"} \X Procs)
Has == [o \in Owners |-> IF o[1] = "shown" THEN Stored(o[2]) ELSE Carried(o[2])]
Extent == Pad..(bodyEnd - 1)

\* Each byte has one owner at most, and at least one if nothing gets lost.
Owned(has, free, extent) ==
    /\ free \subseteq extent
    /\ \A o \in Owners : has[o] \subseteq extent \ free
    /\ \A o, r \in Owners : o # r => has[o] \cap has[r] = {}
Whole(has, free, extent) ==
    \A b \in extent : b \in free \/ \E o \in Owners : b \in has[o]

BytesOwned == NoneTwice(bfree) /\ Owned(Has, FreeBytes, Extent)
BytesKept == KeepsAll => Whole(Has, FreeBytes, Extent)
BytesInv == BytesOwned /\ BytesKept

KeepsOn == KeepsAll' <=> KeepsAll

\* Owners a and b share what they had, with the bytes of E from the list or
\* from the end of the file, and without those of F, which go to the list.
Passes(has, now, free, left, extent, upto, a, b, E, F) ==
    /\ a \in Owners /\ b \in Owners
    /\ \A o \in Owners \ {a, b} : now[o] = has[o]
    /\ now[a] \cup now[b] = ((has[a] \cup has[b]) \ F) \cup E
    /\ a # b => now[a] \cap now[b] = {}
    /\ F \subseteq has[a] \cup has[b] /\ E \cap extent \subseteq free
    /\ left = (free \cup F) \ E /\ upto = extent \cup E

LEMMA SharesPass ==
    ASSUME NEW has, NEW now, NEW free, NEW left, NEW extent, NEW upto,
           NEW a, NEW b, NEW E, NEW F, Owned(has, free, extent),
           Passes(has, now, free, left, extent, upto, a, b, E, F)
    PROVE  /\ Owned(now, left, upto)
           /\ Whole(has, free, extent) => Whole(now, left, upto)
<1> USE DEF Passes
<1>1. /\ free \subseteq extent
      /\ \A o \in Owners : has[o] \subseteq extent /\ has[o] \cap free = {}
      /\ \A o, r \in Owners : o # r => has[o] \cap has[r] = {}
  BY DEF Owned
<1>2. \A x \in F : x \in extent /\ x \notin free /\ x \notin E
  BY <1>1
<1>3. \A o \in Owners \ {a, b} : now[o] \cap F = {} /\ now[o] \cap E = {}
  BY <1>1
<1>4. /\ now[a] \subseteq has[a] \cup has[b] \cup E
      /\ now[b] \subseteq has[a] \cup has[b] \cup E
      /\ now[a] \cap F = {} /\ now[b] \cap F = {}
  BY <1>2
<1>5. left \subseteq upto
  BY <1>1, <1>2
<1>6. \A o \in Owners : now[o] \subseteq upto \ left
  <2> TAKE o \in Owners
  <2>1. CASE o \in {a, b}
    BY <1>1, <1>4, <2>1
  <2>2. CASE o \notin {a, b}
    BY <1>1, <1>3, <2>2
  <2>3. QED
    BY <2>1, <2>2
<1>7. ASSUME NEW o \in Owners, NEW r \in Owners, o # r PROVE now[o] \cap now[r] = {}
  <2>1. CASE o \in {a, b} /\ r \in {a, b}
    BY <1>7, <2>1
  <2>2. CASE o \in {a, b} /\ r \notin {a, b}
    BY <1>1, <1>3, <1>4, <1>7, <2>2
  <2>3. CASE o \notin {a, b} /\ r \in {a, b}
    BY <1>1, <1>3, <1>4, <1>7, <2>3
  <2>4. CASE o \notin {a, b} /\ r \notin {a, b}
    BY <1>1, <1>7, <2>4
  <2>5. QED
    BY <2>1, <2>2, <2>3, <2>4
<1>8. ASSUME Whole(has, free, extent) PROVE Whole(now, left, upto)
  <2> SUFFICES ASSUME NEW x \in upto, x \notin left
               PROVE  \E o \in Owners : x \in now[o]
    BY DEF Whole
  <2>1. CASE x \in E
    BY <2>1
  <2>2. CASE x \notin E
    <3>1. x \in extent /\ x \notin free /\ x \notin F
      BY <2>2
    <3>2. PICK o \in Owners : x \in has[o]
      BY <1>8, <3>1 DEF Whole
    <3>3. CASE o \in {a, b}
      BY <2>2, <3>1, <3>2, <3>3
    <3>4. CASE o \notin {a, b}
      BY <3>2, <3>4
    <3>5. QED
      BY <3>3, <3>4
  <2>3. QED
    BY <2>1, <2>2
<1>9. QED
  BY <1>5, <1>6, <1>7, <1>8 DEF Owned

LEMMA OwnersFacts ==
           /\ \A o \in Owners : \/ \E x \in Nat : o = <<"shown", x>>
                                \/ \E q \in Procs : o = <<"hand", q>>
           /\ \A x \in Nat : <<"shown", x>> \in Owners
           /\ \A q \in Procs : <<"hand", q>> \in Owners
           /\ \A x \in Nat : \A q \in Procs : <<"shown", x>> # <<"hand", q>>
  BY DEF Owners

LEMMA HasFacts ==
           /\ \A x \in Nat : /\ Has[<<"shown", x>>] = Stored(x)
                             /\ Has'[<<"shown", x>>] = Stored(x)'
           /\ \A q \in Procs : /\ Has[<<"hand", q>>] = Carried(q)
                               /\ Has'[<<"hand", q>>] = Carried(q)'
  BY OwnersFacts DEF Has

\* The message at place x and request p pass bytes to each other, get some
\* or hand some back.
LEMMA Handed ==
    ASSUME BytesInv, KeepsOn, NEW p \in Procs, NEW x \in Nat, NEW E, NEW F,
           \A y \in Nat \ {x} : Stored(y)' = Stored(y),
           \A q \in Procs \ {p} : Carried(q)' = Carried(q),
           Stored(x)' \cup Carried(p)' = ((Stored(x) \cup Carried(p)) \ F) \cup E,
           Stored(x)' \cap Carried(p)' = {},
           F \subseteq Stored(x) \cup Carried(p), E \cap Extent \subseteq FreeBytes,
           NoneTwice(bfree)',
           FreeBytes' = (FreeBytes \cup F) \ E, Extent' = Extent \cup E
    PROVE  BytesInv'
<1> DEFINE a == <<"shown", x>>
           b == <<"hand", p>>
<1>1. /\ a \in Owners /\ b \in Owners /\ a # b
      /\ Has[a] = Stored(x) /\ Has'[a] = Stored(x)'
      /\ Has[b] = Carried(p) /\ Has'[b] = Carried(p)'
  BY OwnersFacts, HasFacts
<1>2. ASSUME NEW o \in Owners \ {a, b} PROVE Has'[o] = Has[o]
  <2>1. CASE \E y \in Nat : o = <<"shown", y>>
    BY <1>2, <2>1, HasFacts
  <2>2. CASE \E q \in Procs : o = <<"hand", q>>
    BY <1>2, <2>2, HasFacts
  <2>3. QED
    BY <2>1, <2>2, OwnersFacts
<1>3. Owned(Has, FreeBytes, Extent)
  BY DEF BytesInv, BytesOwned
<1> HIDE DEF a, b
<1>4. /\ Owned(Has', FreeBytes', Extent')
      /\ Whole(Has, FreeBytes, Extent) => Whole(Has', FreeBytes', Extent')
  <2>1. Passes(Has, Has', FreeBytes, FreeBytes', Extent, Extent', a, b, E, F)
    BY <1>1, <1>2 DEF Passes
  <2>2. QED
    BY <1>3, <2>1, SharesPass, Zenon
<1>5. Owned(Has, FreeBytes, Extent)' <=> Owned(Has', FreeBytes', Extent')
  BY DEF Owned
<1>6. Whole(Has, FreeBytes, Extent)' <=> Whole(Has', FreeBytes', Extent')
  BY DEF Whole
<1>7. QED
  BY <1>4, <1>5, <1>6 DEF BytesInv, BytesOwned, BytesKept, KeepsOn

\* Bytes that get lost are not given out.
LEMMA Forgotten ==
    ASSUME BytesInv, ~KeepsAll',
           \A y \in Nat : Stored(y)' \subseteq Stored(y),
           \A q \in Procs : Carried(q)' \subseteq Carried(q),
           UNCHANGED <<bfree, bodyEnd>>
    PROVE  BytesInv'
<1>1. FreeBytes' = FreeBytes /\ Extent' = Extent /\ NoneTwice(bfree)'
  BY DEF FreeBytes, Extent, BytesInv, BytesOwned
<1>2. Owned(Has, FreeBytes, Extent)
  BY DEF BytesInv, BytesOwned
<1>3. ASSUME NEW o \in Owners PROVE Has'[o] \subseteq Has[o]
  <2>1. CASE \E y \in Nat : o = <<"shown", y>>
    BY <2>1, HasFacts
  <2>2. CASE \E q \in Procs : o = <<"hand", q>>
    BY <2>2, HasFacts
  <2>3. QED
    BY <2>1, <2>2, OwnersFacts
<1>4. Owned(Has', FreeBytes', Extent')
  BY <1>1, <1>2, <1>3 DEF Owned
<1>5. Owned(Has, FreeBytes, Extent)' <=> Owned(Has', FreeBytes', Extent')
  BY DEF Owned
<1>6. QED
  BY <1>1, <1>4, <1>5 DEF BytesInv, BytesOwned, BytesKept

\* No byte changes its owner.
LEMMA BytesSame ==
    ASSUME BytesInv, KeepsOn,
           \A y \in Nat : Stored(y)' = Stored(y),
           \A q \in Procs : Carried(q)' = Carried(q),
           UNCHANGED <<bfree, bodyEnd>>
    PROVE  BytesInv'
<1>1. FreeBytes' = FreeBytes /\ Extent' = Extent /\ NoneTwice(bfree)'
  BY DEF FreeBytes, Extent, BytesInv, BytesOwned
<1>2. ASSUME NEW o \in Owners PROVE Has'[o] = Has[o]
  <2>1. CASE \E y \in Nat : o = <<"shown", y>>
    BY <2>1, HasFacts
  <2>2. CASE \E q \in Procs : o = <<"hand", q>>
    BY <2>2, HasFacts
  <2>3. QED
    BY <2>1, <2>2, OwnersFacts
<1>3. Owned(Has', FreeBytes', Extent')
  BY <1>1, <1>2 DEF Owned, BytesInv, BytesOwned
<1>4. KeepsAll' => Whole(Has', FreeBytes', Extent')
  BY <1>1, <1>2 DEF Whole, BytesInv, BytesKept, KeepsOn
<1>5. /\ Owned(Has, FreeBytes, Extent)' <=> Owned(Has', FreeBytes', Extent')
      /\ Whole(Has, FreeBytes, Extent)' <=> Whole(Has', FreeBytes', Extent')
  BY DEF Owned, Whole
<1>6. QED
  BY <1>1, <1>3, <1>4, <1>5 DEF BytesInv, BytesOwned, BytesKept

\* Who is rewritten, seen from p.
LEMMA RewrittenNow ==
    ASSUME NEW p \in Procs, \A q \in Procs \ {p} : loc'[q] = loc[q]
    PROVE  /\ \A y : y \in Rewritten <=>
                 \/ loc[p].pc \in Reshaping /\ loc[p].at = y
                 \/ \E q \in Procs \ {p} : loc[q].pc \in Reshaping /\ loc[q].at = y
           /\ \A y : y \in Rewritten' <=>
                 \/ loc'[p].pc \in Reshaping /\ loc'[p].at = y
                 \/ \E q \in Procs \ {p} : loc[q].pc \in Reshaping /\ loc[q].at = y
           /\ \A q \in Procs \ {p} : Carried(q)' = Carried(q)
  BY DEF Rewritten, Reshaping, Carried

\* A step of p that leaves the files of bodies, the index and the headers that
\* are shown as they are, and what p carries.
LEMMA BytesStay ==
    ASSUME BytesInv, KeepsOn, NEW p \in Procs,
           \A q \in Procs \ {p} : loc'[q] = loc[q],
           loc[p].pc \notin Reshaping, loc'[p].pc \notin Reshaping,
           Carried(p)' = Carried(p), UNCHANGED <<bfree, bodyEnd, order>>,
           \A y \in Shown : Bytes(hdr'[y]) = Bytes(hdr[y])
    PROVE  BytesInv'
<1>1. Rewritten' = Rewritten /\ \A q \in Procs : Carried(q)' = Carried(q)
  <2>1. \A y : y \in Rewritten' <=> y \in Rewritten
    BY RewrittenNow
  <2>2. \A q \in Procs : Carried(q)' = Carried(q)
    BY RewrittenNow
  <2>3. QED
    BY <2>1, <2>2
<1>2. Shown' = Shown
  BY DEF Shown
<1>3. \A y \in Nat : Stored(y)' = Stored(y)
  <2> TAKE y \in Nat
  <2>1. Bytes(hdr[y])' = Bytes(hdr'[y])
    BY DEF Bytes
  <2>2. QED
    BY <1>1, <1>2, <2>1 DEF Stored
<1>4. QED
  BY <1>1, <1>3, BytesSame

LEMMA BytesIdle ==
    ASSUME BytesInv, KeepsOn, NEW p \in Procs,
           \A q \in Procs \ {p} : loc'[q] = loc[q],
           loc[p].pc \notin InHand \cup Reshaping,
           loc'[p].pc \notin InHand \cup Reshaping,
           UNCHANGED <<hdr, bfree, bodyEnd, order>>
    PROVE  BytesInv'
<1>1. Carried(p)' = Carried(p)
  BY DEF Carried
<1>2. \A y \in Shown : Bytes(hdr'[y]) = Bytes(hdr[y])
  OBVIOUS
<1>3. QED
  BY <1>1, <1>2, BytesStay

\* The memory of a request that ends, or goes on to its next message.
LEMMA EndsIdle ==
    ASSUME TypeOK, NEW p \in Procs, Exit(p)
    PROVE  /\ \A q \in Procs \ {p} : loc'[q] = loc[q]
           /\ loc'[p].pc = "done"
<1>1. loc \in [Procs -> Memory] /\ loc' = [loc EXCEPT ![p] = Ended("done")]
  BY MemoryFacts DEF Exit
<1>2. loc'[p] = Ended("done") /\ \A q \in Procs \ {p} : loc'[q] = loc[q]
  BY <1>1
<1>3. Ended("done").pc = "done"
  BY DEF Ended, Idle
<1>4. QED
  BY <1>2, <1>3

LEMMA AdvancesIdle ==
    ASSUME TypeOK, NEW p \in Procs, NEW code, Advance(p, code)
    PROVE  /\ \A q \in Procs \ {p} : loc'[q] = loc[q]
           /\ loc'[p].pc \in {"done", "delete", "flags"}
<1>1. CASE Len(loc[p].todo) = 1
  BY <1>1, EndsIdle DEF Advance
<1>2. CASE Len(loc[p].todo) # 1
  <2>1. /\ loc \in [Procs -> Memory]
        /\ loc' = [loc EXCEPT ![p].todo = Tail(@), ![p].code = code,
                     ![p].pc = IF loc[p].rq.op = "delete" THEN "delete" ELSE "flags"]
    BY <1>2, MemoryFacts DEF Advance
  <2>2. QED
    BY <2>1 DEF Memory
<1>3. QED
  BY <1>1, <1>2

LEMMA ParentCalm ==
    ASSUME TypeOK, NEW p \in Procs, ReadParent(p)
    PROVE  /\ \A q \in Procs \ {p} : loc'[q] = loc[q]
           /\ loc[p].pc = "inherit" /\ loc'[p].pc \in {"done", "body"}
           /\ UNCHANGED store
<1> DEFINE at == loc[p].at
           h == hdr[at]
<1>1. loc[p].pc = "inherit" /\ UNCHANGED store
  BY DEF ReadParent, At
<1>2. CASE at \notin DOMAIN hdr \/ Barred(h, loc[p].rq)
  <2>1. Exit(p)
    BY <1>2 DEF ReadParent
  <2>2. QED
    BY <1>1, <2>1, EndsIdle
<1>3. CASE ~(at \notin DOMAIN hdr \/ Barred(h, loc[p].rq))
  <2> DEFINE level == h.level + 1
             thread == HeadOf(h, at)
             flags == h.flags
  <2>1. loc' = [loc EXCEPT ![p].msg.level = level, ![p].msg.thread = thread,
                           ![p].msg.flags = flags, ![p].pc = "body"]
    BY <1>3 DEF ReadParent
  <2>2. loc \in [Procs -> Memory] /\ loc[p] \in Memory
    BY MemoryFacts
  <2> HIDE DEF level, thread, flags, at, h
  <2>3. QED
    BY <1>1, <2>1, <2>2 DEF Memory
<1>4. QED
  BY <1>2, <1>3

\* Steps that only read, or write what is no body, header or index.
LEMMA IdleBytes ==
    ASSUME OrderInv, BytesInv, KeepsOn, NEW p \in Procs,
           \/ FindParent(p) \/ ReadParent(p) \/ FindRoot(p) \/ SelectThread(p)
           \/ FindDoomed(p) \/ DropNumber(p) \/ ReadDoomed(p)
           \/ FindEdited(p) \/ ReadEdited(p)
           \/ FindFlagged(p) \/ OnlyRead(p) \/ ReadFlagged(p)
    PROVE  BytesInv'
<1> DEFINE Calm(pc) == pc \notin InHand \cup Reshaping
           Moved == Calm(loc'[p].pc) /\ \A q \in Procs \ {p} : loc'[q] = loc[q]
<1>1. TypeOK /\ loc \in [Procs -> Memory]
  BY MemoryFacts DEF OrderInv, PlacesInv
<1>2. Exit(p) => Moved
  BY <1>1, EndsIdle DEF InHand, Reshaping
<1>3. (\E code : Advance(p, code)) => Moved
  BY <1>1, AdvancesIdle DEF InHand, Reshaping
<1>4. ASSUME Calm(loc[p].pc), Moved, UNCHANGED <<hdr, bfree, bodyEnd, order>>
      PROVE  BytesInv'
  BY <1>4, BytesIdle
<1>5. CASE FindParent(p)
  <2>1. Moved
    BY <1>1, <1>2, <1>3, <1>5 DEF FindParent, Memory, InHand, Reshaping
  <2>2. Calm(loc[p].pc) /\ UNCHANGED <<hdr, bfree, bodyEnd, order>>
    BY <1>5 DEF FindParent, At, store, InHand, Reshaping
  <2>3. QED
    BY <1>4, <2>1, <2>2
<1>6. CASE ReadParent(p)
  <2>1. Moved
    BY <1>1, <1>6, ParentCalm DEF InHand, Reshaping
  <2>2. Calm(loc[p].pc) /\ UNCHANGED <<hdr, bfree, bodyEnd, order>>
    BY <1>1, <1>6, ParentCalm DEF store, InHand, Reshaping
  <2>3. QED
    BY <1>4, <2>1, <2>2
<1>7. CASE FindRoot(p)
  <2>1. Moved
    BY <1>1, <1>2, <1>3, <1>7 DEF FindRoot, Memory, InHand, Reshaping
  <2>2. Calm(loc[p].pc) /\ UNCHANGED <<hdr, bfree, bodyEnd, order>>
    BY <1>7 DEF FindRoot, At, store, InHand, Reshaping
  <2>3. QED
    BY <1>4, <2>1, <2>2
<1>8. CASE SelectThread(p)
  <2>1. Moved
    <3>1. \/ Exit(p)
          \/ \E todo :
                loc' = [loc EXCEPT ![p].todo = todo,
                          ![p].pc = IF loc[p].rq.op = "delete" THEN "delete" ELSE "flags"]
      BY <1>8, Zenon DEF SelectThread
    <3>2. QED
      BY ZenonT(40), <1>1, <1>2, <3>1 DEF Memory, InHand, Reshaping
  <2>2. Calm(loc[p].pc) /\ UNCHANGED <<hdr, bfree, bodyEnd, order>>
    <3>1. loc[p].pc = "walk" /\ UNCHANGED store
      BY <1>8, Zenon DEF SelectThread, At
    <3>2. QED
      BY <3>1 DEF store, InHand, Reshaping
  <2>3. QED
    BY <1>4, <2>1, <2>2
<1>9. CASE FindDoomed(p)
  <2>1. Moved
    BY <1>1, <1>2, <1>3, <1>9 DEF FindDoomed, Memory, InHand, Reshaping
  <2>2. Calm(loc[p].pc) /\ UNCHANGED <<hdr, bfree, bodyEnd, order>>
    BY <1>9 DEF FindDoomed, At, store, InHand, Reshaping
  <2>3. QED
    BY <1>4, <2>1, <2>2
<1>10. CASE DropNumber(p)
  <2>1. Moved
    BY <1>1, <1>2, <1>3, <1>10 DEF DropNumber, Goto, Memory, InHand, Reshaping
  <2>2. Calm(loc[p].pc) /\ UNCHANGED <<hdr, bfree, bodyEnd, order>>
    BY <1>10 DEF DropNumber, At, store, InHand, Reshaping
  <2>3. QED
    BY <1>4, <2>1, <2>2
<1>11. CASE ReadDoomed(p)
  <2>1. Moved
    BY <1>1, <1>2, <1>3, <1>11 DEF ReadDoomed, Memory, InHand, Reshaping
  <2>2. Calm(loc[p].pc) /\ UNCHANGED <<hdr, bfree, bodyEnd, order>>
    BY <1>11 DEF ReadDoomed, At, store, InHand, Reshaping
  <2>3. QED
    BY <1>4, <2>1, <2>2
<1>12. CASE FindEdited(p)
  <2>1. Moved
    BY <1>1, <1>2, <1>3, <1>12 DEF FindEdited, Memory, InHand, Reshaping
  <2>2. Calm(loc[p].pc) /\ UNCHANGED <<hdr, bfree, bodyEnd, order>>
    BY <1>12 DEF FindEdited, At, store, InHand, Reshaping
  <2>3. QED
    BY <1>4, <2>1, <2>2
<1>13. CASE ReadEdited(p)
  <2>1. Moved
    BY <1>1, <1>2, <1>3, <1>13 DEF ReadEdited, Memory, InHand, Reshaping
  <2>2. Calm(loc[p].pc) /\ UNCHANGED <<hdr, bfree, bodyEnd, order>>
    BY <1>13 DEF ReadEdited, At, store, InHand, Reshaping
  <2>3. QED
    BY <1>4, <2>1, <2>2
<1>14. CASE FindFlagged(p)
  <2>1. Moved
    BY <1>1, <1>2, <1>3, <1>14 DEF FindFlagged, Memory, InHand, Reshaping
  <2>2. Calm(loc[p].pc) /\ UNCHANGED <<hdr, bfree, bodyEnd, order>>
    BY <1>14 DEF FindFlagged, At, store, InHand, Reshaping
  <2>3. QED
    BY <1>4, <2>1, <2>2
<1>15. CASE OnlyRead(p)
  <2>1. Moved
    BY <1>1, <1>2, <1>3, <1>15 DEF OnlyRead, Memory, InHand, Reshaping
  <2>2. Calm(loc[p].pc) /\ UNCHANGED <<hdr, bfree, bodyEnd, order>>
    BY <1>15 DEF OnlyRead, At, store, InHand, Reshaping
  <2>3. QED
    BY <1>4, <2>1, <2>2
<1>16. CASE ReadFlagged(p)
  <2>1. Moved
    BY <1>1, <1>2, <1>3, <1>16 DEF ReadFlagged, Memory, InHand, Reshaping
  <2>2. Calm(loc[p].pc) /\ UNCHANGED <<hdr, bfree, bodyEnd, order>>
    BY <1>16 DEF ReadFlagged, At, store, InHand, Reshaping
  <2>3. QED
    BY <1>4, <2>1, <2>2
<1>17. QED
  BY <1>5, <1>6, <1>7, <1>8, <1>9, <1>10, <1>11, <1>12, <1>13, <1>14, <1>15, <1>16

\* Steps of a request that goes on carrying what it carries.
LEMMA CarriedOn ==
    ASSUME TypeOK, NEW p \in Procs,
           \E pc \in Pc : Goto(p, pc) /\ pc \in InHand,
           loc[p].pc \in InHand
    PROVE  /\ \A q \in Procs \ {p} : loc'[q] = loc[q]
           /\ Carried(p)' = Carried(p)
           /\ loc'[p].msg = loc[p].msg
           /\ \A pc : Goto(p, pc) => loc'[p].pc = pc
<1>1. loc \in [Procs -> Memory] /\ loc[p] \in Memory
  BY MemoryFacts
<1>2. PICK pc \in InHand : loc' = [loc EXCEPT ![p].pc = pc]
  BY DEF Goto
<1>3. loc'[p] = [loc[p] EXCEPT !.pc = pc] /\ \A q \in Procs \ {p} : loc'[q] = loc[q]
  BY <1>1, <1>2
<1>4. loc'[p].pc = pc /\ loc'[p].msg = loc[p].msg
  BY <1>1, <1>3 DEF Memory
<1>5. Carried(p)' = Carried(p)
  BY <1>2, <1>4 DEF Carried, Bytes
<1>6. ASSUME NEW to, Goto(p, to) PROVE loc'[p].pc = to
  BY <1>1, <1>6 DEF Goto, Memory
<1>7. QED
  BY <1>3, <1>4, <1>5, <1>6

LEMMA CarryingBytes ==
    ASSUME OrderInv, BytesInv, KeepsOn, NEW p \in Procs,
           CountThread(p) \/ FreeDoomedHeader(p) \/ PutHeader(p)
    PROVE  BytesInv'
<1>1. TypeOK /\ PlacesInv
  BY DEF OrderInv, PlacesInv
<1>2. CASE CountThread(p)
  <2>1. /\ loc[p].pc = "index" /\ Goto(p, "append") /\ "append" \in Pc
        /\ UNCHANGED <<hdr, bfree, bodyEnd, order>>
        /\ loc[p].pc \in InHand /\ "append" \in InHand
    BY <1>2 DEF CountThread, At, Pc, InHand
  <2>2. /\ \A q \in Procs \ {p} : loc'[q] = loc[q]
        /\ Carried(p)' = Carried(p) /\ loc'[p].pc = "append"
    BY <1>1, <2>1, CarriedOn
  <2>3. QED
    BY <2>1, <2>2, BytesStay DEF Reshaping
<1>3. CASE FreeDoomedHeader(p)
  <2>1. /\ loc[p].pc = "freeheader" /\ Goto(p, "freebody") /\ "freebody" \in Pc
        /\ UNCHANGED <<hdr, bfree, bodyEnd, order>>
        /\ loc[p].pc \in InHand /\ "freebody" \in InHand
    BY <1>3 DEF FreeDoomedHeader, At, Pc, InHand
  <2>2. /\ \A q \in Procs \ {p} : loc'[q] = loc[q]
        /\ Carried(p)' = Carried(p) /\ loc'[p].pc = "freebody"
    BY <1>1, <2>1, CarriedOn
  <2>3. QED
    BY <2>1, <2>2, BytesStay DEF Reshaping
<1>4. CASE PutHeader(p)
  <2> DEFINE at == vidx[loc[p].msg.vi]
  <2>1. /\ loc[p].pc = "header" /\ Goto(p, "index") /\ "index" \in Pc
        /\ UNCHANGED <<bfree, bodyEnd, order>> /\ WriteHeader(at, loc[p].msg)
        /\ loc[p].pc \in InHand /\ "index" \in InHand /\ loc[p].pc \in Placing
    BY <1>4 DEF PutHeader, At, Pc, InHand, Placing
  <2>2. /\ \A q \in Procs \ {p} : loc'[q] = loc[q]
        /\ Carried(p)' = Carried(p) /\ loc'[p].pc = "index"
    BY <1>1, <2>1, CarriedOn
  <2>3. at \notin Shown /\ at \in 1..(Len(hdr) + 1) /\ loc[p].msg.vi \in DOMAIN vidx
    BY <1>1, <2>1, HoldsFacts
  <2>4. \A x \in DOMAIN hdr \ {at} : hdr'[x] = hdr[x]
    BY <1>1, <2>1, <2>3, WrittenFacts
  <2>5. \A y \in Shown : Bytes(hdr'[y]) = Bytes(hdr[y])
    BY <1>1, <2>3, <2>4, ShownFacts
  <2>6. QED
    BY <2>1, <2>2, <2>5, BytesStay DEF Reshaping
<1>5. QED
  BY <1>2, <1>3, <1>4

LEMMA TakeNumberBytes ==
    ASSUME OrderInv, BytesInv, KeepsOn, NEW p \in Procs, TakeNumber(p)
    PROVE  BytesInv'
<1>1. /\ loc[p].pc = "number" /\ UNCHANGED <<hdr, bfree, bodyEnd, order>>
      /\ loc' = [loc EXCEPT ![p].msg.vi = Len(vidx) + 1, ![p].pc = "header"]
  BY DEF TakeNumber, At
<1>2. loc \in [Procs -> Memory] /\ loc[p] \in Memory /\ loc[p].msg \in Header
  BY MemoryFacts DEF OrderInv, PlacesInv
<1> DEFINE n == Len(vidx) + 1
           msg == [loc[p].msg EXCEPT !.vi = n]
<1>3. loc'[p] = [loc[p] EXCEPT !.msg = msg, !.pc = "header"]
      /\ \A q \in Procs \ {p} : loc'[q] = loc[q]
  BY <1>1, <1>2 DEF Memory, Header
<1>4. msg.body = loc[p].msg.body /\ msg.size = loc[p].msg.size
  BY <1>2 DEF Header
<1> HIDE DEF msg
<1>5. loc'[p].pc = "header" /\ loc'[p].msg = msg
  BY <1>2, <1>3 DEF Memory
<1>6. Carried(p)' = Carried(p)
  BY <1>1, <1>4, <1>5 DEF Carried, Bytes, InHand
<1>7. QED
  BY <1>1, <1>3, <1>5, <1>6, BytesStay DEF Reshaping

LEMMA StoreFlaggedBytes ==
    ASSUME OrderInv, BytesInv, KeepsOn, NEW p \in Procs, StoreFlagged(p)
    PROVE  BytesInv'
<1> DEFINE at == loc[p].at
<1>1. /\ TypeOK /\ PlacesInv /\ loc[p].pc = "store" /\ loc[p].pc \in Copying
      /\ WriteHeader(at, loc[p].msg) /\ \E code : Advance(p, code)
      /\ UNCHANGED <<bfree, bodyEnd, order>> /\ Own(p)
  BY DEF OrderInv, PlacesInv, StoreFlagged, At, Copying
<1>2. /\ \A q \in Procs \ {p} : loc'[q] = loc[q]
      /\ loc'[p].pc \in {"done", "delete", "flags"}
  BY <1>1, AdvancesIdle
<1>3. DOMAIN hdr' = DOMAIN hdr /\ at \in DOMAIN hdr
  BY <1>1, BackFacts
<1>4. hdr' = [hdr EXCEPT ![at] = loc[p].msg] /\ hdr \in Seq(Header)
  BY <1>1, <1>3 DEF WriteHeader, TypeOK
<1>5. Alike(loc[p].msg, hdr[at])
  BY <1>1 DEF Own, Copied
<1>6. \A y \in DOMAIN hdr : Bytes(hdr'[y]) = Bytes(hdr[y])
  BY <1>3, <1>4, <1>5 DEF Alike, Bytes
<1>7. \A y \in Shown : Bytes(hdr'[y]) = Bytes(hdr[y])
  BY <1>1, <1>6, ShownFacts
<1>8. Carried(p)' = Carried(p)
  BY <1>1, <1>2 DEF Carried, InHand
<1>9. QED
  BY <1>1, <1>2, <1>7, <1>8, BytesStay DEF Reshaping

\* The space found for a body was free, or behind all bodies.
LEMMA BodySpaceFacts ==
    ASSUME TypeOK, BytesInv, NEW n \in {0, 1}, NEW at \in Nat, BodySpace(at, n)
    PROVE  /\ NoneTwice(bfree)'
           /\ (at..(at + n - 1)) \cap Extent \subseteq FreeBytes
           /\ FreeBytes' = FreeBytes \ (at..(at + n - 1))
           /\ Extent' = Extent \cup (at..(at + n - 1))
<1> DEFINE E == at..(at + n - 1)
<1>1. /\ bfree \in Seq(Block) /\ bodyEnd \in Nat /\ n \in Nat /\ NoneTwice(bfree)
      /\ FreeBytes \subseteq Extent
  BY DEF TypeOK, BytesInv, BytesOwned, Owned
<1>2. CASE /\ \E i \in DOMAIN bfree : /\ TakeFrom(bfree, bfree', i, n, 0)
                                      /\ at = bfree[i].index
           /\ UNCHANGED bodyEnd
  <2>1. PICK i \in DOMAIN bfree : TakeFrom(bfree, bfree', i, n, 0) /\ at = bfree[i].index
    BY <1>2
  <2>2. /\ NoneTwice(bfree') /\ E \subseteq Units(bfree)
        /\ Units(bfree') = Units(bfree) \ E
    BY <1>1, <2>1, TakeFacts
  <2>3. NoneTwice(bfree)' /\ E \subseteq FreeBytes /\ FreeBytes' = FreeBytes \ E
    BY <2>2 DEF FreeBytes, NoneTwice
  <2>4. Extent' = Extent
    BY <1>2 DEF Extent
  <2> HIDE DEF E
  <2>5. Extent' = Extent \cup E /\ E \cap Extent \subseteq FreeBytes
    BY <1>1, <2>3, <2>4
  <2>6. QED
    BY <2>3, <2>5 DEF E
<1>3. CASE /\ at = IF bodyEnd = 0 THEN Pad ELSE bodyEnd
           /\ bodyEnd' = at + n /\ UNCHANGED bfree
  <2>1. FreeBytes' = FreeBytes /\ NoneTwice(bfree)'
    BY <1>1, <1>3 DEF FreeBytes, NoneTwice
  <2>2. E \cap Extent = {}
    BY <1>1, <1>3 DEF Extent, Pad
  <2>3. Extent' = Extent \cup E
    BY <1>1, <1>3 DEF Extent, Pad
  <2> HIDE DEF E
  <2>4. FreeBytes' = FreeBytes \ E /\ E \cap Extent \subseteq FreeBytes
    BY <1>1, <2>1, <2>2
  <2>5. QED
    BY <2>1, <2>3, <2>4 DEF E
<1>4. QED
  BY <1>2, <1>3 DEF BodySpace

\* What is handed back was not free, and is.
LEMMA FreeBodyFacts ==
    ASSUME TypeOK, BytesInv, NEW n \in Nat, NEW at \in Nat, FreeBody(at, n),
           (at..(at + n - 1)) \cap FreeBytes = {}
    PROVE  /\ NoneTwice(bfree)'
           /\ FreeBytes' = FreeBytes \cup (at..(at + n - 1))
<1> DEFINE b == [index |-> at, size |-> n]
<1>1. bfree \in Seq(Block) /\ NoneTwice(bfree) /\ b \in Block
  BY DEF TypeOK, BytesInv, BytesOwned, Block
<1>2. Span(b) = at..(at + n - 1)
  BY DEF Span
<1>3. Span(b) \cap Units(bfree) = {} /\ MarkFreeSpace(bfree, bfree', b, 0)
  BY <1>2 DEF FreeBody, FreeBytes
<1> HIDE DEF b
<1>4. NoneTwice(bfree') /\ Units(bfree') = Units(bfree) \cup Span(b)
  BY <1>1, <1>3, MarkFacts
<1>5. QED
  BY <1>2, <1>4 DEF FreeBytes, NoneTwice

\* A body is written, or a longer one in place of the old one, which had been
\* handed back.
LEMMA SpaceTaken ==
    ASSUME OrderInv, BytesInv, KeepsOn, NEW p \in Procs,
           NEW at \in Nat, BodySpace(at, loc[p].rq.size), UNCHANGED <<hdr, order>>,
           NEW to, \/ loc[p].pc = "body" /\ to = "number"
                   \/ loc[p].pc = "realloc" /\ to = "rewrite",
           loc' = [loc EXCEPT ![p].msg.body = at, ![p].msg.size = loc[p].rq.size,
                              ![p].pc = to]
    PROVE  BytesInv'
<1>1. TypeOK
  BY DEF OrderInv, PlacesInv
<1>2. /\ loc \in [Procs -> Memory] /\ loc[p] \in Memory /\ loc[p].msg \in Header
      /\ loc[p].rq.size \in {0, 1}
  BY <1>1, MemoryFacts DEF Request
<1>3. PICK n \in {0, 1} : n = loc[p].rq.size
  BY <1>2
<1> DEFINE E == at..(at + n - 1)
           msg == [loc[p].msg EXCEPT !.body = at, !.size = n]
<1>4. /\ NoneTwice(bfree)' /\ E \cap Extent \subseteq FreeBytes
      /\ FreeBytes' = FreeBytes \ E /\ Extent' = Extent \cup E
  BY <1>1, <1>3, BodySpaceFacts
<1>5. loc'[p] = [loc[p] EXCEPT !.msg = msg, !.pc = to]
      /\ \A q \in Procs \ {p} : loc'[q] = loc[q]
  BY <1>2, <1>3 DEF Memory, Header
<1>6. msg.body = at /\ msg.size = n
  BY <1>2 DEF Header
<1> HIDE DEF msg
<1>7. loc'[p].pc = to /\ loc'[p].msg = msg /\ loc'[p].at = loc[p].at
  BY <1>2, <1>5 DEF Memory
<1>8. Carried(p) = {} /\ Carried(p)' = E
  BY <1>6, <1>7 DEF Carried, InHand, Bytes
<1>9. Rewritten' = Rewritten
  <2>1. loc[p].pc \in Reshaping <=> loc'[p].pc \in Reshaping
    BY <1>7 DEF Reshaping
  <2>2. \A q \in Procs \ {p} : loc'[q] = loc[q]
    BY <1>5
  <2>3. /\ \A y : y \in Rewritten <=>
              \/ loc[p].pc \in Reshaping /\ loc[p].at = y
              \/ \E q \in Procs \ {p} : loc[q].pc \in Reshaping /\ loc[q].at = y
        /\ \A y : y \in Rewritten' <=>
              \/ loc'[p].pc \in Reshaping /\ loc'[p].at = y
              \/ \E q \in Procs \ {p} : loc[q].pc \in Reshaping /\ loc[q].at = y
    BY <2>2, RewrittenNow
  <2>4. QED
    BY <1>7, <2>1, <2>3
<1>10. \A y \in Nat : Stored(y)' = Stored(y)
  BY <1>9 DEF Stored, Shown, Bytes
<1>11. \A q \in Procs \ {p} : Carried(q)' = Carried(q)
  BY <1>5, RewrittenNow
<1>12. 0 \in Nat /\ Stored(0) = {}
  BY <1>1, ShownFacts DEF Stored
<1> HIDE DEF E
<1>13. /\ Stored(0)' \cup Carried(p)' = ((Stored(0) \cup Carried(p)) \ {}) \cup E
       /\ Stored(0)' \cap Carried(p)' = {} /\ {} \subseteq Stored(0) \cup Carried(p)
       /\ FreeBytes' = (FreeBytes \cup {}) \ E
  BY <1>4, <1>8, <1>10, <1>12
<1>14. QED
  BY <1>4, <1>10, <1>11, <1>12, <1>13, Handed

LEMMA WriteBodyBytes ==
    ASSUME OrderInv, BytesInv, KeepsOn, NEW p \in Procs, WriteBody(p)
    PROVE  BytesInv'
<1>1. bodyEnd \in Nat
  BY DEF OrderInv, PlacesInv, TypeOK
<1>2. PICK at \in 0..(bodyEnd + Pad) :
         /\ BodySpace(at, loc[p].rq.size)
         /\ loc' = [loc EXCEPT ![p].msg.body = at, ![p].msg.size = loc[p].rq.size,
                               ![p].pc = "number"]
  BY DEF WriteBody
<1>3. loc[p].pc = "body" /\ UNCHANGED <<hdr, order>> /\ at \in Nat
  BY <1>1 DEF WriteBody, At, Pad
<1>4. QED
  BY <1>2, <1>3, SpaceTaken

LEMMA MoveBodyBytes ==
    ASSUME OrderInv, BytesInv, KeepsOn, NEW p \in Procs, MoveBody(p)
    PROVE  BytesInv'
<1>1. bodyEnd \in Nat
  BY DEF OrderInv, PlacesInv, TypeOK
<1>2. PICK at \in 0..(bodyEnd + Pad) :
         /\ BodySpace(at, loc[p].rq.size)
         /\ loc' = [loc EXCEPT ![p].msg.body = at, ![p].msg.size = loc[p].rq.size,
                               ![p].pc = "rewrite"]
  BY DEF MoveBody
<1>3. loc[p].pc = "realloc" /\ UNCHANGED <<hdr, order>> /\ at \in Nat
  BY <1>1 DEF MoveBody, At, Pad
<1>4. QED
  BY <1>2, <1>3, SpaceTaken

\* A message is shown: a reply unless its parent is gone.
LEMMA ShowFacts ==
    ASSUME OrderInv, NEW p \in Procs, IndexReply(p) \/ IndexThread(p)
    PROVE  /\ \/ loc[p].pc = "index" /\ loc[p].rq.vi # 0
              \/ loc[p].pc = "append"
           /\ loc'[p].pc = "done" /\ \A q \in Procs \ {p} : loc'[q] = loc[q]
           /\ UNCHANGED <<hdr, hfree, bodyEnd, bfree, vidx, threads>>
           /\ PlaceOf(p) \in DOMAIN hdr \ Shown
           /\ Alike(loc[p].msg, hdr[PlaceOf(p)])
           /\ \/ Shown' = Shown \cup {PlaceOf(p)}
              \/ Shown' = Shown /\ ~KeepsAll /\ loc[p].rq.vi # 0
<1> DEFINE at == PlaceOf(p)
<1>1. /\ TypeOK /\ PlacesInv /\ Own(p) /\ Fits(loc[p])
      /\ (loc[p].pc = "index" /\ loc[p].rq.vi # 0) \/ loc[p].pc = "append"
      /\ Exit(p) /\ UNCHANGED <<hdr, hfree, bodyEnd, bfree, vidx, threads>>
  BY DEF OrderInv, PlacesInv, IndexReply, IndexThread, At
<1>2. loc[p].pc \in Placing /\ loc[p].pc # "header"
  BY <1>1 DEF Placing
<1>3. at \in DOMAIN hdr /\ at \notin Shown
  BY <1>1, <1>2, HoldsFacts DEF Fits, PlaceOf
<1>4. Alike(loc[p].msg, hdr[at])
  BY <1>1 DEF Own, Copied, PlaceOf
<1>5. /\ order \in Seq(1..Len(hdr)) /\ Len(order) \in Nat /\ at \in 1..Len(hdr)
      /\ IsInjective(order)
  <2>1. order \in Seq(1..Len(hdr)) /\ IsInjective(order)
    BY <1>1 DEF PlacesInv, PlacesOwned, PlacesNotShared, TypeOK
  <2>2. DOMAIN hdr = 1..Len(hdr)
    BY <1>1, ShownFacts
  <2>3. QED
    BY <1>3, <2>1, <2>2
<1> HIDE DEF at
<1>6. ASSUME \E i \in 1..(Len(order) + 1) : order' = InsertAt(order, i, at)
      PROVE  Shown' = Shown \cup {at}
  BY <1>3, <1>5, <1>6, InsertedOnce DEF Shown
<1>7. Shown' = Shown \cup {at} \/ (Shown' = Shown /\ ~KeepsAll /\ loc[p].rq.vi # 0)
  <2>1. CASE IndexThread(p)
    <3>1. order' = InsertAt(order, 1, at) /\ 1 \in 1..(Len(order) + 1)
      BY <1>5, <2>1, FirstFacts DEF IndexThread, at
    <3>2. QED
      BY <1>6, <3>1
  <2>2. CASE IndexReply(p) /\ Indexed(loc[p].at)
    <3>1. order' = InsertAt(order, Pos(order, loc[p].at) + 1, at)
      BY <2>2 DEF IndexReply, ReplyAfter, at
    <3>2. Pos(order, loc[p].at) \in 1..Len(order)
      BY <1>5, <2>2, PosFacts DEF Indexed
    <3>3. Pos(order, loc[p].at) + 1 \in 1..(Len(order) + 1)
      BY <1>5, <3>2
    <3>4. QED
      BY <1>6, <3>1, <3>3
  <2>3. CASE IndexReply(p) /\ ~Indexed(loc[p].at)
    <3>1. loc[p].pc = "index" /\ loc[p].rq.vi # 0 /\ order' = order
      BY <2>3 DEF IndexReply, At
    <3>2. ~KeepsAll
      BY <1>1, <2>3, <3>1 DEF Own, Answers, Posting, Shown, Indexed
    <3>3. QED
      BY <3>1, <3>2 DEF Shown
  <2>4. QED
    BY <2>1, <2>2, <2>3
<1>8. loc'[p].pc = "done" /\ \A q \in Procs \ {p} : loc'[q] = loc[q]
  BY <1>1, EndsIdle
<1>9. QED
  BY <1>1, <1>3, <1>4, <1>7, <1>8 DEF at

\* A message is cut out of the index.
LEMMA CutFacts ==
    ASSUME OrderInv, NEW p \in Procs, CutMessage(p)
    PROVE  /\ loc[p].pc = "cut" /\ loc'[p].pc = "freeheader"
           /\ loc'[p].msg = loc[p].msg /\ loc'[p].at = loc[p].at
           /\ \A q \in Procs \ {p} : loc'[q] = loc[q]
           /\ UNCHANGED <<hdr, hfree, bodyEnd, bfree, vidx, threads>>
           /\ loc[p].at \in Shown /\ Shown' = Shown \ {loc[p].at}
           /\ Alike(loc[p].msg, hdr[loc[p].at])
<1> DEFINE at == loc[p].at
<1>1. /\ loc[p].pc = "cut" /\ loc[p].pc \in Deleting /\ "freeheader" \in Pc
      /\ UNCHANGED <<hdr, hfree, bodyEnd, bfree, vidx, threads>>
      /\ TypeOK /\ PlacesInv /\ Own(p)
  BY DEF CutMessage, At, Deleting, Pc, OrderInv, PlacesInv
<1>2. at \in Shown /\ Alike(loc[p].msg, hdr[at])
  BY <1>1 DEF Own, Dooms, Named
<1>3. order' = WithoutMessage(order, at) /\ Goto(p, "freeheader")
  BY <1>2 DEF CutMessage, Shown, Indexed
<1>4. /\ loc'[p] = [loc[p] EXCEPT !.pc = "freeheader"]
      /\ \A q \in Procs \ {p} : loc'[q] = loc[q]
  BY <1>1, <1>3, GotoMoves
<1>5. loc'[p].pc = "freeheader" /\ loc'[p].msg = loc[p].msg /\ loc'[p].at = at
  BY <1>1, <1>4, MemoryFacts DEF Memory
<1>6. order \in Seq(1..Len(hdr)) /\ IsInjective(order)
  BY <1>1 DEF PlacesInv, PlacesOwned, PlacesNotShared, TypeOK
<1> HIDE DEF at
<1>7. Shown' = Shown \ {at}
  BY <1>2, <1>3, <1>6, WithoutFacts DEF Shown
<1>8. QED
  BY <1>1, <1>2, <1>4, <1>5, <1>7 DEF at

LEMMA ShowBytes ==
    ASSUME OrderInv, BytesInv, KeepsOn, NEW p \in Procs, IndexReply(p) \/ IndexThread(p)
    PROVE  BytesInv'
<1>1. TypeOK /\ PlacesInv /\ \A q \in Procs : Own(q)
  BY DEF OrderInv, PlacesInv
<1>2. PICK at \in DOMAIN hdr \ Shown : at = PlaceOf(p)
  BY ShowFacts
<1>3. /\ loc[p].pc \in InHand /\ loc[p].pc \notin Reshaping /\ loc'[p].pc = "done"
      /\ \A q \in Procs \ {p} : loc'[q] = loc[q]
      /\ UNCHANGED <<hdr, bodyEnd, bfree>>
      /\ Alike(loc[p].msg, hdr[at])
      /\ \/ Shown' = Shown \cup {at}
         \/ Shown' = Shown /\ ~KeepsAll
  BY <1>2, ShowFacts DEF InHand, Reshaping
<1>4. /\ Carried(p) = Bytes(hdr[at]) /\ Carried(p)' = {}
      /\ \A q \in Procs \ {p} : Carried(q)' = Carried(q)
  BY <1>3 DEF Carried, InHand, Reshaping, Alike, Bytes
<1>5. Rewritten' = Rewritten
  <2>1. \A y : y \in Rewritten' <=> y \in Rewritten
    BY <1>3, RewrittenNow DEF Reshaping
  <2>2. QED
    BY <2>1
<1>6. at \notin Rewritten /\ at \in Nat
  <2>1. \A q \in Procs : loc[q].pc \in Reshaping => loc[q].at \in Shown
    BY <1>1 DEF Own, Edits, Editing, Reshaping
  <2>2. at \in Nat
    BY <1>1, ShownFacts
  <2>3. QED
    BY <2>1, <2>2 DEF Rewritten, Reshaping
<1>7. \A y : Bytes(hdr[y])' = Bytes(hdr[y])
  BY <1>3 DEF Bytes
<1>8. CASE Shown' = Shown \cup {at}
  <2>1. \A y \in Nat \ {at} : Stored(y)' = Stored(y)
    BY <1>5, <1>7, <1>8 DEF Stored
  <2>2. Stored(at) = {} /\ Stored(at)' = Bytes(hdr[at])
    BY <1>2, <1>5, <1>6, <1>7, <1>8 DEF Stored
  <2>3. FreeBytes' = FreeBytes /\ Extent' = Extent /\ NoneTwice(bfree)'
    BY <1>3 DEF FreeBytes, Extent, BytesInv, BytesOwned
  <2>4. /\ Stored(at)' \cup Carried(p)' = ((Stored(at) \cup Carried(p)) \ {}) \cup {}
        /\ Stored(at)' \cap Carried(p)' = {} /\ {} \subseteq Stored(at) \cup Carried(p)
        /\ FreeBytes' = (FreeBytes \cup {}) \ {} /\ Extent' = Extent \cup {}
        /\ {} \cap Extent \subseteq FreeBytes
    BY <1>4, <2>2, <2>3
  <2>5. QED
    BY <1>4, <1>6, <2>1, <2>3, <2>4, Handed
<1>9. CASE Shown' = Shown /\ ~KeepsAll
  <2>1. \A y \in Nat : Stored(y)' = Stored(y)
    BY <1>5, <1>7, <1>9 DEF Stored
  <2>2. \A q \in Procs : Carried(q)' \subseteq Carried(q)
    BY <1>4
  <2>3. ~KeepsAll'
    BY <1>9 DEF KeepsOn
  <2>4. QED
    BY <1>3, <2>1, <2>2, <2>3, Forgotten
<1>10. QED
  BY <1>3, <1>8, <1>9

\* Nobody else edits or deletes while p does.
LEMMA OneDisturbs ==
    ASSUME OrderInv, NEW p \in Procs, loc[p].pc \in Deleting \cup Editing,
           NEW q \in Procs \ {p}
    PROVE  loc[q].pc \notin Deleting \cup Editing
<1>1. \A r \in Procs : loc[r].pc \in Deleting \cup Editing => Disturbs(loc[r].rq)
  BY DEF OrderInv, PlacesInv, Own, Role, Fits, Disturbs
<1>2. \A r \in Procs : loc[r].pc \in Deleting \cup Editing => loc[r].pc \notin Resting
  BY DEF Deleting, Editing, Resting, Over
<1>3. QED
  BY <1>1, <1>2 DEF OrderInv, Apart

LEMMA CutBytes ==
    ASSUME OrderInv, BytesInv, KeepsOn, NEW p \in Procs, CutMessage(p)
    PROVE  BytesInv'
<1>1. TypeOK
  BY DEF OrderInv, PlacesInv
<1>2. PICK at \in Shown : at = loc[p].at
  BY CutFacts
<1>3. /\ loc[p].pc = "cut" /\ loc'[p].pc = "freeheader" /\ loc'[p].msg = loc[p].msg
      /\ \A q \in Procs \ {p} : loc'[q] = loc[q]
      /\ UNCHANGED <<hdr, bodyEnd, bfree>>
      /\ Shown' = Shown \ {at} /\ Alike(loc[p].msg, hdr[at])
  BY <1>2, CutFacts
<1>4. /\ Carried(p) = {} /\ Carried(p)' = Bytes(hdr[at])
      /\ \A q \in Procs \ {p} : Carried(q)' = Carried(q)
  BY <1>3 DEF Carried, InHand, Reshaping, Alike, Bytes
<1>5. Rewritten' = Rewritten /\ Rewritten = {}
  <2>1. \A q \in Procs : loc[q].pc \notin Reshaping
    BY <1>3, OneDisturbs DEF Deleting, Editing, Reshaping
  <2>2. \A y : y \notin Rewritten /\ y \notin Rewritten'
    BY <1>3, <2>1, RewrittenNow DEF Reshaping
  <2>3. QED
    BY <2>2
<1>6. at \in Nat /\ Bytes(hdr[at])' = Bytes(hdr[at])
      /\ \A y : Bytes(hdr[y])' = Bytes(hdr[y])
  BY <1>1, <1>2, <1>3, ShownFacts DEF Bytes
<1>7. \A y \in Nat \ {at} : Stored(y)' = Stored(y)
  BY <1>3, <1>5, <1>6 DEF Stored
<1>8. Stored(at) = Bytes(hdr[at]) /\ Stored(at)' = {}
  BY <1>2, <1>3, <1>5 DEF Stored
<1>9. FreeBytes' = FreeBytes /\ Extent' = Extent /\ NoneTwice(bfree)'
  BY <1>3 DEF FreeBytes, Extent, BytesInv, BytesOwned
<1>10. /\ Stored(at)' \cup Carried(p)' = ((Stored(at) \cup Carried(p)) \ {}) \cup {}
       /\ Stored(at)' \cap Carried(p)' = {} /\ {} \subseteq Stored(at) \cup Carried(p)
       /\ FreeBytes' = (FreeBytes \cup {}) \ {} /\ Extent' = Extent \cup {}
       /\ {} \cap Extent \subseteq FreeBytes
  BY <1>4, <1>8, <1>9
<1>11. QED
  BY <1>4, <1>6, <1>7, <1>9, <1>10, Handed

LEMMA FreeDoomedBodyBytes ==
    ASSUME OrderInv, BytesInv, KeepsOn, NEW p \in Procs, FreeDoomedBody(p)
    PROVE  BytesInv'
<1>1. /\ TypeOK /\ loc[p].pc = "freebody" /\ FreeBody(loc[p].msg.body, loc[p].msg.size)
      /\ Advance(p, 0) /\ UNCHANGED <<hdr, bodyEnd, order>>
  BY DEF OrderInv, PlacesInv, FreeDoomedBody, At
<1>2. loc[p].msg \in Header
  BY <1>1, MemoryFacts
<1>3. PICK b \in Nat, n \in Nat : b = loc[p].msg.body /\ n = loc[p].msg.size
  BY <1>2 DEF Header
<1> DEFINE F == b..(b + n - 1)
<1>4. /\ \A q \in Procs \ {p} : loc'[q] = loc[q]
      /\ loc'[p].pc \in {"done", "delete", "flags"}
  BY <1>1, AdvancesIdle
<1>5. /\ Carried(p) = F /\ Carried(p)' = {}
      /\ \A q \in Procs \ {p} : Carried(q)' = Carried(q)
  BY <1>1, <1>3, <1>4 DEF Carried, InHand, Bytes
<1>6. F \cap FreeBytes = {}
  <2>1. Has[<<"hand", p>>] = F /\ <<"hand", p>> \in Owners
    BY <1>5, HasFacts, OwnersFacts
  <2> HIDE DEF F
  <2>2. QED
    BY <2>1 DEF BytesInv, BytesOwned, Owned
<1>7. NoneTwice(bfree)' /\ FreeBytes' = FreeBytes \cup F
  BY <1>1, <1>3, <1>6, FreeBodyFacts
<1> HIDE DEF F
<1>8. Rewritten' = Rewritten
  <2>1. \A y : y \in Rewritten' <=> y \in Rewritten
    BY <1>1, <1>4, RewrittenNow DEF Reshaping
  <2>2. QED
    BY <2>1
<1>9. \A y \in Nat : Stored(y)' = Stored(y)
  BY <1>1, <1>8 DEF Stored, Shown, Bytes
<1>10. 0 \in Nat /\ Stored(0) = {}
  BY <1>1, ShownFacts DEF Stored
<1>11. /\ Stored(0)' \cup Carried(p)' = ((Stored(0) \cup Carried(p)) \ F) \cup {}
       /\ Stored(0)' \cap Carried(p)' = {} /\ F \subseteq Stored(0) \cup Carried(p)
       /\ FreeBytes' = (FreeBytes \cup F) \ {} /\ Extent' = Extent \cup {}
       /\ {} \cap Extent \subseteq FreeBytes
  BY <1>1, <1>5, <1>7, <1>9, <1>10 DEF Extent
<1>12. QED
  BY <1>5, <1>7, <1>9, <1>10, <1>11, Handed

\* While p edits, only its message is rewritten.
LEMMA EditorRewrites ==
    ASSUME OrderInv, NEW p \in Procs, loc[p].pc \in Editing,
           \A q \in Procs \ {p} : loc'[q] = loc[q]
    PROVE  /\ \A y : y \in Rewritten <=> loc[p].pc \in Reshaping /\ loc[p].at = y
           /\ \A y : y \in Rewritten' <=> loc'[p].pc \in Reshaping /\ loc'[p].at = y
<1>1. \A q \in Procs \ {p} : loc[q].pc \notin Reshaping
  BY OneDisturbs DEF Editing, Reshaping
<1>2. /\ \A y : y \in Rewritten <=>
              \/ loc[p].pc \in Reshaping /\ loc[p].at = y
              \/ \E q \in Procs \ {p} : loc[q].pc \in Reshaping /\ loc[q].at = y
      /\ \A y : y \in Rewritten' <=>
              \/ loc'[p].pc \in Reshaping /\ loc'[p].at = y
              \/ \E q \in Procs \ {p} : loc[q].pc \in Reshaping /\ loc[q].at = y
  BY RewrittenNow
<1>3. QED
  BY <1>1, <1>2

LEMMA ResizeMoves ==
    ASSUME TypeOK, NEW p \in Procs, ResizeBody(p)
    PROVE  /\ \A q \in Procs \ {p} : loc'[q] = loc[q]
           /\ loc[p].pc = "resize" /\ loc'[p].at = loc[p].at
           /\ UNCHANGED <<hdr, bodyEnd, order>>
           /\ LET old == loc[p].msg
                  size == loc[p].rq.size
              IN  \/ /\ size > old.size /\ FreeBody(old.body, old.size)
                     /\ loc'[p].pc = "realloc"
                  \/ /\ size = old.size /\ UNCHANGED bfree
                     /\ loc'[p].pc = "rewrite" /\ loc'[p].msg = old
                  \/ /\ size < old.size /\ FreeBody(old.body + size, old.size - size)
                     /\ loc'[p].pc = "rewrite"
                     /\ loc'[p].msg.body = old.body /\ loc'[p].msg.size = size
<1> DEFINE old == loc[p].msg
           size == loc[p].rq.size
<1>1. loc[p].pc = "resize" /\ UNCHANGED <<hdr, bodyEnd, order>>
  BY DEF ResizeBody, At
<1>2. loc \in [Procs -> Memory] /\ loc[p] \in Memory /\ old \in Header
  BY MemoryFacts
<1>3. ASSUME NEW pc, Goto(p, pc)
      PROVE  /\ \A q \in Procs \ {p} : loc'[q] = loc[q]
             /\ loc'[p].pc = pc /\ loc'[p].at = loc[p].at /\ loc'[p].msg = old
  <2>1. loc'[p] = [loc[p] EXCEPT !.pc = pc] /\ \A q \in Procs \ {p} : loc'[q] = loc[q]
    BY <1>2, <1>3 DEF Goto
  <2>2. QED
    BY <1>2, <2>1 DEF Memory
<1>4. CASE size > old.size /\ FreeBody(old.body, old.size) /\ Goto(p, "realloc")
  BY <1>1, <1>3, <1>4
<1>5. CASE size = old.size /\ UNCHANGED bfree /\ Goto(p, "rewrite")
  BY <1>1, <1>3, <1>5
<1>6. CASE /\ size < old.size
           /\ FreeBody(old.body + size, old.size - size)
           /\ loc' = [loc EXCEPT ![p].msg.size = size, ![p].pc = "rewrite"]
  <2> DEFINE msg == [old EXCEPT !.size = size]
  <2>1. msg.body = old.body /\ msg.size = size
    BY <1>2 DEF Header
  <2>2. loc'[p] = [loc[p] EXCEPT !.msg = msg, !.pc = "rewrite"]
        /\ \A q \in Procs \ {p} : loc'[q] = loc[q]
    BY <1>2, <1>6 DEF Memory, Header
  <2> HIDE DEF msg
  <2>3. loc'[p].pc = "rewrite" /\ loc'[p].msg = msg /\ loc'[p].at = loc[p].at
    BY <1>2, <2>2 DEF Memory
  <2>4. QED
    BY <1>1, <1>6, <2>1, <2>2, <2>3
<1>7. QED
  BY <1>4, <1>5, <1>6 DEF ResizeBody

LEMMA ResizeBodyBytes ==
    ASSUME OrderInv, BytesInv, KeepsOn, NEW p \in Procs, ResizeBody(p)
    PROVE  BytesInv'
<1>1. /\ TypeOK /\ loc[p].pc = "resize" /\ Own(p)
      /\ \A q \in Procs \ {p} : loc'[q] = loc[q]
      /\ loc'[p].at = loc[p].at /\ UNCHANGED <<hdr, bodyEnd, order>>
      /\ loc'[p].pc \in Reshaping
  BY ResizeMoves DEF OrderInv, PlacesInv, Reshaping
<1>2. PICK at \in Shown : at = loc[p].at
  BY <1>1 DEF Own, Edits, Editing
<1>3. loc[p].msg \in Header /\ loc[p].rq.size \in Nat
  BY <1>1, MemoryFacts DEF Request
<1>4. PICK b \in Nat, n \in Nat, size \in Nat :
         b = loc[p].msg.body /\ n = loc[p].msg.size /\ size = loc[p].rq.size
  BY <1>3 DEF Header
<1> DEFINE Old == b..(b + n - 1)
<1>5. /\ \A y : y \notin Rewritten
      /\ \A y : y \in Rewritten' <=> y = at
  BY <1>1, <1>2, EditorRewrites DEF Editing, Reshaping
<1>6. Shown' = Shown /\ \A y : Bytes(hdr[y])' = Bytes(hdr[y])
  BY <1>1 DEF Shown, Bytes
<1>7. Stored(at) = Old /\ Stored(at)' = {} /\ at \in Nat
  <2>1. Bytes(hdr[at]) = Old
    BY <1>1, <1>2, <1>4 DEF Own, Edits, Alike, Bytes
  <2>2. QED
    BY <1>1, <1>2, <1>5, <1>6, <2>1, ShownFacts DEF Stored
<1>8. \A y \in Nat \ {at} : Stored(y)' = Stored(y)
  BY <1>5, <1>6 DEF Stored
<1>9. Carried(p) = {} /\ \A q \in Procs \ {p} : Carried(q)' = Carried(q)
  BY <1>1, RewrittenNow DEF Carried, InHand
<1>10. Old \cap FreeBytes = {}
  <2>1. Has[<<"shown", at>>] = Old /\ <<"shown", at>> \in Owners
    BY <1>7, HasFacts, OwnersFacts
  <2> HIDE DEF Old
  <2>2. QED
    BY <2>1 DEF BytesInv, BytesOwned, Owned
<1>11. ASSUME NEW F, F \subseteq Old, FreeBytes' = FreeBytes \cup F, NoneTwice(bfree)',
              Carried(p)' = Old \ F
       PROVE  BytesInv'
  <2> HIDE DEF Old
  <2>1. /\ Stored(at)' \cup Carried(p)' = ((Stored(at) \cup Carried(p)) \ F) \cup {}
        /\ Stored(at)' \cap Carried(p)' = {} /\ F \subseteq Stored(at) \cup Carried(p)
        /\ FreeBytes' = (FreeBytes \cup F) \ {} /\ Extent' = Extent \cup {}
        /\ {} \cap Extent \subseteq FreeBytes
    BY <1>1, <1>7, <1>9, <1>11 DEF Extent
  <2>2. QED
    BY <1>7, <1>8, <1>9, <1>11, <2>1, Handed
<1>12. CASE size > n /\ FreeBody(b, n) /\ loc'[p].pc = "realloc"
  <2>1. NoneTwice(bfree)' /\ FreeBytes' = FreeBytes \cup Old
    BY <1>1, <1>10, <1>12, FreeBodyFacts
  <2>2. Carried(p)' = Old \ Old
    BY <1>12 DEF Carried, InHand
  <2> HIDE DEF Old
  <2>3. QED
    BY <1>11, <2>1, <2>2
<1>13. CASE /\ size = n /\ UNCHANGED bfree
            /\ loc'[p].pc = "rewrite" /\ loc'[p].msg = loc[p].msg
  <2>1. NoneTwice(bfree)' /\ FreeBytes' = FreeBytes \cup {}
    BY <1>13 DEF BytesInv, BytesOwned, FreeBytes
  <2>2. Carried(p)' = Old \ {}
    BY <1>4, <1>13 DEF Carried, InHand, Bytes
  <2> HIDE DEF Old
  <2>3. PICK F : F = {}
    OBVIOUS
  <2>4. F \subseteq Old /\ FreeBytes' = FreeBytes \cup F /\ Carried(p)' = Old \ F
    BY <2>1, <2>2, <2>3
  <2>5. QED
    BY <1>11, <2>1, <2>4
<1>14. CASE /\ size < n /\ FreeBody(b + size, n - size)
            /\ loc'[p].pc = "rewrite"
            /\ loc'[p].msg.body = b /\ loc'[p].msg.size = size
  <2> DEFINE F == (b + size)..(b + size + (n - size) - 1)
  <2>1. F \subseteq Old /\ b + size \in Nat /\ n - size \in Nat
    BY <1>14
  <2>2. Carried(p)' = Old \ F
    <3>1. Carried(p)' = b..(b + size - 1)
      BY <1>14 DEF Carried, InHand, Bytes
    <3>2. b..(b + size - 1) = Old \ F
      BY <1>14
    <3>3. QED
      BY <3>1, <3>2
  <2>3. F \cap FreeBytes = {}
    BY <1>10, <2>1
  <2>4. NoneTwice(bfree)' /\ FreeBytes' = FreeBytes \cup F
    BY <1>1, <1>14, <2>1, <2>3, FreeBodyFacts
  <2> HIDE DEF Old, F
  <2>5. QED
    BY <1>11, <2>1, <2>2, <2>4
<1>15. QED
  BY <1>1, <1>4, <1>12, <1>13, <1>14, ResizeMoves

LEMMA RewriteHeaderBytes ==
    ASSUME OrderInv, BytesInv, KeepsOn, NEW p \in Procs, RewriteHeader(p)
    PROVE  BytesInv'
<1>1. /\ TypeOK /\ PlacesInv /\ loc[p].pc = "rewrite" /\ loc[p].pc \in Copying
      /\ WriteHeader(loc[p].at, loc[p].msg) /\ Exit(p) /\ Own(p)
      /\ UNCHANGED <<bfree, bodyEnd, order>>
  BY DEF OrderInv, PlacesInv, RewriteHeader, At, Copying
<1>2. loc'[p].pc = "done" /\ \A q \in Procs \ {p} : loc'[q] = loc[q]
  BY <1>1, EndsIdle
<1>3. PICK at \in Shown : at = loc[p].at
  BY <1>1 DEF Own, Edits, Editing
<1>4. DOMAIN hdr' = DOMAIN hdr /\ at \in DOMAIN hdr
  BY <1>1, <1>3, BackFacts
<1>5. hdr' = [hdr EXCEPT ![at] = loc[p].msg] /\ hdr \in Seq(Header)
  BY <1>1, <1>3, <1>4 DEF WriteHeader, TypeOK
<1>6. /\ \A y : y \in Rewritten <=> y = at
      /\ \A y : y \notin Rewritten'
  BY <1>1, <1>2, <1>3, EditorRewrites DEF Editing, Reshaping
<1>7. Shown' = Shown /\ at \in Nat /\ Shown \subseteq DOMAIN hdr
  BY <1>1, <1>3, ShownFacts DEF Shown
<1>8. hdr'[at] = loc[p].msg /\ \A y \in Shown \ {at} : hdr'[y] = hdr[y]
  BY <1>4, <1>5, <1>7
<1>9. /\ Carried(p) = Bytes(loc[p].msg) /\ Carried(p)' = {}
      /\ \A q \in Procs \ {p} : Carried(q)' = Carried(q)
  BY <1>1, <1>2, RewrittenNow DEF Carried, InHand
<1>10. Stored(at) = {} /\ Stored(at)' = Bytes(loc[p].msg)
  <2>1. Bytes(hdr[at])' = Bytes(loc[p].msg)
    BY <1>8 DEF Bytes
  <2>2. QED
    BY <1>6, <1>7, <2>1 DEF Stored
<1>11. \A y \in Nat \ {at} : Stored(y)' = Stored(y)
  <2> TAKE y \in Nat \ {at}
  <2>1. y \in Shown => Bytes(hdr[y])' = Bytes(hdr[y])
    BY <1>8 DEF Bytes
  <2>2. QED
    BY <1>6, <1>7, <2>1 DEF Stored
<1>12. FreeBytes' = FreeBytes /\ Extent' = Extent /\ NoneTwice(bfree)'
  BY <1>1 DEF FreeBytes, Extent, BytesInv, BytesOwned
<1>13. /\ Stored(at)' \cup Carried(p)' = ((Stored(at) \cup Carried(p)) \ {}) \cup {}
       /\ Stored(at)' \cap Carried(p)' = {} /\ {} \subseteq Stored(at) \cup Carried(p)
       /\ FreeBytes' = (FreeBytes \cup {}) \ {} /\ Extent' = Extent \cup {}
       /\ {} \cap Extent \subseteq FreeBytes
  BY <1>9, <1>10, <1>12
<1>14. QED
  BY <1>7, <1>9, <1>11, <1>12, <1>13, Handed

LEMMA BeginBytes ==
    ASSUME OrderInv, BytesInv, KeepsOn, NEW p \in Procs, Begin(p)
    PROVE  BytesInv'
<1> DEFINE rq == loc[p].rq
           pc == CASE rq.op = "post" -> IF rq.vi = 0 THEN "body" ELSE "parent"
                   [] rq.op = "edit" -> "translate"
                   [] rq.op \in Single -> "flags"
                   [] OTHER -> "select"
           todo == IF rq.op \in Single THEN <<rq.vi>> ELSE << >>
<1>1. /\ loc[p].pc = "start" /\ loc' = [loc EXCEPT ![p].pc = pc, ![p].todo = todo]
      /\ UNCHANGED <<hdr, bfree, bodyEnd, order>>
  BY DEF Begin, At, store
<1>2. pc \in {"body", "parent", "translate", "flags", "select"}
  OBVIOUS
<1>3. loc \in [Procs -> Memory] /\ loc[p] \in Memory
  BY MemoryFacts DEF OrderInv, PlacesInv
<1> HIDE DEF pc, todo, rq
<1>4. loc'[p].pc = pc /\ \A q \in Procs \ {p} : loc'[q] = loc[q]
  <2>1. loc'[p] = [loc[p] EXCEPT !.pc = pc, !.todo = todo]
    BY <1>1, <1>3
  <2>2. QED
    BY <1>1, <1>3, <2>1 DEF Memory
<1>5. QED
  BY <1>1, <1>2, <1>4, BytesIdle DEF InHand, Reshaping

\* What the killed request carried is lost; an edit is not killed.
LEMMA DieBytes ==
    ASSUME OrderInv, BytesInv, NEW p \in Procs, p \in Mortal, Die(p)
    PROVE  BytesInv'
<1>1. /\ loc' = [loc EXCEPT ![p] = Ended("dead")] /\ TypeOK /\ Own(p)
      /\ UNCHANGED <<hdr, bfree, bodyEnd, order>>
  BY DEF Die, store, OrderInv, PlacesInv
<1>2. loc'[p].pc = "dead" /\ \A q \in Procs \ {p} : loc'[q] = loc[q]
  <2>1. loc'[p] = Ended("dead") /\ \A q \in Procs \ {p} : loc'[q] = loc[q]
    BY <1>1, MemoryFacts
  <2>2. Ended("dead").pc = "dead"
    BY DEF Ended, Idle
  <2>3. QED
    BY <2>1, <2>2
<1>3. loc[p].pc \notin Reshaping
  BY <1>1 DEF Own, Role, Editing, Reshaping
<1>4. Rewritten' = Rewritten /\ \A q \in Procs \ {p} : Carried(q)' = Carried(q)
  <2>1. \A y : y \in Rewritten' <=> y \in Rewritten
    BY <1>2, <1>3, RewrittenNow DEF Reshaping
  <2>2. QED
    BY <1>2, <2>1, RewrittenNow
<1>5. Carried(p)' = {}
  BY <1>2 DEF Carried, InHand
<1>6. Shown' = Shown /\ \A y : Bytes(hdr[y])' = Bytes(hdr[y])
  BY <1>1 DEF Shown, Bytes
<1>7. \A y \in Nat : Stored(y)' \subseteq Stored(y)
  BY <1>4, <1>6 DEF Stored
<1>8. \A q \in Procs : Carried(q)' \subseteq Carried(q)
  BY <1>4, <1>5
<1>9. ~KeepsAll'
  BY DEF KeepsAll
<1>10. QED
  BY <1>1, <1>7, <1>8, <1>9, Forgotten

LEMMA BytesInit ==
    ASSUME Init PROVE BytesInv
<1>1. PICK plan \in Plans :
         /\ hdr = plan.seed.hdr /\ order = plan.seed.order
         /\ bodyEnd = plan.seed.bodyEnd /\ bfree = plan.seed.bfree
         /\ loc = [p \in Procs |-> Idle("start", plan.asks[p])]
  BY DEF Init
<1>2. Settled(plan.seed)
  BY MsgStoreAssumption
<1>3. /\ NoneTwice(bfree)
      /\ \A x \in Shown :
            /\ Bytes(hdr[x]) \cap FreeBytes = {}
            /\ \A y \in Shown \ {x} : Bytes(hdr[x]) \cap Bytes(hdr[y]) = {}
      /\ Extent = FreeBytes \cup UNION {Bytes(hdr[x]) : x \in Shown}
  <2>1. Pad..(plan.seed.bodyEnd - 1)
           = Units(plan.seed.bfree)
             \cup UNION {Bytes(plan.seed.hdr[m]) : m \in ToSet(plan.seed.order)}
    BY <1>2, Zenon DEF Settled
  <2>2. Extent = FreeBytes \cup UNION {Bytes(hdr[x]) : x \in Shown}
    BY <1>1, <2>1, Zenon DEF Shown, FreeBytes, Extent
  <2>3. /\ NoneTwice(plan.seed.bfree)
        /\ \A m \in ToSet(plan.seed.order) :
              /\ Bytes(plan.seed.hdr[m]) \cap Units(plan.seed.bfree) = {}
              /\ \A other \in ToSet(plan.seed.order) \ {m} :
                    Bytes(plan.seed.hdr[m]) \cap Bytes(plan.seed.hdr[other]) = {}
    BY <1>2, Zenon DEF Settled
  <2>4. QED
    BY <1>1, <2>2, <2>3 DEF Shown, FreeBytes
<1>4. \A p \in Procs : loc[p].pc = "start"
  BY <1>1 DEF Idle
<1>5. \A p \in Procs : Carried(p) = {}
  BY <1>4 DEF Carried, InHand
<1>6. \A x : Stored(x) = IF x \in Shown THEN Bytes(hdr[x]) ELSE {}
  BY <1>4 DEF Stored, Rewritten
<1>7. Shown \subseteq Nat
  BY PlacesInit, ShownFacts DEF PlacesInv
<1>8. Owned(Has, FreeBytes, Extent)
  <2>1. ASSUME NEW o \in Owners PROVE Has[o] \subseteq Extent \ FreeBytes
    <3>1. CASE \E x \in Nat : o = <<"shown", x>>
      BY <1>3, <1>6, <3>1, HasFacts
    <3>2. CASE \E p \in Procs : o = <<"hand", p>>
      BY <1>5, <3>2, HasFacts
    <3>3. QED
      BY <3>1, <3>2, OwnersFacts
  <2>2. ASSUME NEW o \in Owners, NEW r \in Owners, o # r
        PROVE  Has[o] \cap Has[r] = {}
    <3>1. CASE \E p \in Procs : o = <<"hand", p>> \/ r = <<"hand", p>>
      BY <1>5, <3>1, HasFacts
    <3>2. CASE \E x, y \in Nat : o = <<"shown", x>> /\ r = <<"shown", y>>
      BY <1>3, <1>6, <2>2, <3>2, HasFacts
    <3>3. QED
      BY <3>1, <3>2, OwnersFacts
  <2>3. QED
    BY <1>3, <2>1, <2>2 DEF Owned
<1>9. Whole(Has, FreeBytes, Extent)
  <2> SUFFICES ASSUME NEW b \in Extent, b \notin FreeBytes
               PROVE  \E o \in Owners : b \in Has[o]
    BY DEF Whole
  <2>1. PICK x \in Shown : b \in Bytes(hdr[x])
    BY <1>3
  <2>2. QED
    BY <1>6, <1>7, <2>1, HasFacts, OwnersFacts
<1>10. QED
  BY <1>3, <1>8, <1>9 DEF BytesInv, BytesOwned, BytesKept

LEMMA BytesStutter ==
    ASSUME BytesInv, UNCHANGED vars PROVE BytesInv'
<1>1. UNCHANGED <<hdr, bodyEnd, bfree, order, alone, loc>>
  BY DEF vars, store
<1>2. KeepsOn
  <2>1. KeepsAll' <=> KeepsAll
    BY <1>1 DEF KeepsAll
  <2>2. QED
    BY <2>1 DEF KeepsOn
<1>3. Shown' = Shown /\ Rewritten' = Rewritten /\ \A y : Bytes(hdr[y])' = Bytes(hdr[y])
  BY <1>1 DEF Shown, Rewritten, Bytes
<1>4. /\ \A y \in Nat : Stored(y)' = Stored(y)
      /\ \A q \in Procs : Carried(q)' = Carried(q)
  BY <1>1, <1>3 DEF Stored, Carried, Bytes
<1>5. QED
  BY <1>1, <1>2, <1>4, BytesSame

LEMMA BytesServe ==
    ASSUME OrderInv, BytesInv, KeepsOn, NEW p \in Procs, Serve(p)
    PROVE  BytesInv'
<1>1. CASE Post(p)
  BY <1>1, IdleBytes, WriteBodyBytes, TakeNumberBytes, CarryingBytes, ShowBytes DEF Post
<1>2. CASE FindRoot(p) \/ SelectThread(p)
  BY <1>2, IdleBytes
<1>3. CASE Delete(p)
  BY <1>3, IdleBytes, CutBytes, CarryingBytes, FreeDoomedBodyBytes DEF Delete
<1>4. CASE Edit(p)
  BY <1>4, IdleBytes, ResizeBodyBytes, MoveBodyBytes, RewriteHeaderBytes DEF Edit
<1>5. CASE ChangeFlags(p)
  BY <1>5, IdleBytes, StoreFlaggedBytes DEF ChangeFlags
<1>6. QED
  BY <1>1, <1>2, <1>3, <1>4, <1>5 DEF Serve

LEMMA KeepsOnNext ==
    ASSUME UNCHANGED alone PROVE KeepsOn
<1>1. KeepsAll' <=> KeepsAll
  BY DEF KeepsAll
<1>2. QED
  BY <1>1 DEF KeepsOn

LEMMA BytesNext ==
    ASSUME OrderInv, BytesInv, [Next]_vars PROVE BytesInv'
<1>1. CASE \E p \in Procs : Begin(p)
  <2>1. PICK p \in Procs : Begin(p)
    BY <1>1
  <2>2. KeepsOn
    BY <2>1, KeepsOnNext DEF Begin
  <2>3. QED
    BY <2>1, <2>2, BeginBytes
<1>2. CASE \E p \in Procs : Serve(p)
  <2>1. PICK p \in Procs : Serve(p)
    BY <1>2
  <2>2. KeepsOn
    BY <2>1, KeepsOnNext DEF Serve
  <2>3. QED
    BY <2>1, <2>2, BytesServe
<1>3. CASE \E p \in Mortal : Die(p)
  BY <1>3, DieBytes, MsgStoreAssumption
<1>4. CASE AllServed \/ UNCHANGED vars
  BY <1>4, BytesStutter DEF AllServed
<1>5. QED
  BY <1>1, <1>2, <1>3, <1>4 DEF Next

\* Of orderly requests, while any of them may be killed but an edit, each byte
\* of the body file belongs to one shown message, or to one request that
\* carries it, or to the free list once; where nobody is killed, and nobody
\* deletes while others are at work, no byte is lost.
THEOREM BytesInvHolds == Orderly /\ Spec => [](OrderInv /\ BytesInv)
<1>1. Orderly /\ Init => OrderInv /\ BytesInv
  BY OrderInit, BytesInit
<1>2. OrderInv /\ BytesInv /\ [Next]_vars => OrderInv' /\ BytesInv'
  BY OrderNext, BytesNext
<1>3. QED
  BY <1>1, <1>2, PTL DEF Spec

\* Neither places nor bodies are given out twice (DB_InsertMessage and
\* DB_ChangeMessage take what the free lists give them, DB_DeleteMessage and
\* DB_ChangeMessage hand it back): for orderly requests, killed or not.
THEOREM BodiesApart == Orderly /\ Spec => []NothingShared
<1>1. OrderInv /\ BytesInv => NothingShared
  <2> SUFFICES ASSUME OrderInv, BytesInv PROVE NothingShared
    OBVIOUS
  <2>1. TypeOK /\ PlacesNotShared
    BY DEF OrderInv, PlacesInv, PlacesOwned
  <2>2. Owned(Has, FreeBytes, Extent) /\ NoneTwice(bfree)
    BY DEF BytesInv, BytesOwned
  <2>3. ASSUME NEW x \in Shown \ Rewritten
        PROVE  <<"shown", x>> \in Owners /\ Has[<<"shown", x>>] = Bytes(hdr[x])
    <3>1. x \in Nat
      BY <2>1, ShownFacts
    <3>2. Stored(x) = Bytes(hdr[x])
      BY DEF Stored
    <3>3. QED
      BY <3>1, <3>2, HasFacts, OwnersFacts
  <2>4. ASSUME NEW x \in Shown \ Rewritten
        PROVE  /\ Bytes(hdr[x]) \cap FreeBytes = {}
               /\ \A y \in Shown \ (Rewritten \cup {x}) :
                     Bytes(hdr[x]) \cap Bytes(hdr[y]) = {}
    <3>1. <<"shown", x>> \in Owners /\ Has[<<"shown", x>>] = Bytes(hdr[x])
      BY <2>3
    <3>2. Bytes(hdr[x]) \cap FreeBytes = {}
      BY <2>2, <3>1 DEF Owned
    <3>3. ASSUME NEW y \in Shown \ (Rewritten \cup {x})
          PROVE  Bytes(hdr[x]) \cap Bytes(hdr[y]) = {}
      <4>1. <<"shown", y>> \in Owners /\ Has[<<"shown", y>>] = Bytes(hdr[y])
        BY <2>3
      <4>2. <<"shown", x>> # <<"shown", y>>
        OBVIOUS
      <4>3. QED
        BY <2>2, <3>1, <4>1, <4>2 DEF Owned
    <3>4. QED
      BY <3>2, <3>3
  <2>5. QED
    BY <2>1, <2>2, <2>4 DEF NothingShared, BodiesNotShared
<1>2. QED
  BY <1>1, BytesInvHolds, PTL
-----------------------------------------------------------------------------
(* The count of threads, and what no request is to lose. *)

\* The steps at which a place changes its owner, or a thread is counted.
Touching == {"header", "index", "append", "read", "cut", "freeheader"}

\* What is shown has its number, unless it is about to be cut out.
NumbersStay ==
    KeepsAll => \A x \in Shown :
        \/ vidx[hdr[x].vi] = x
        \/ \E p \in Procs : loc[p].pc \in {"read", "cut"} /\ loc[p].at = x

\* No place is lost.
PlacesKept ==
    KeepsAll => \A x \in DOMAIN hdr :
        x \in Shown \/ x \in FreePlaces \/ \E p \in Procs : Holds(p, x)

\* A post of level 0 is a new thread.
Ranked(p) ==
    LET m == loc[p]
    IN  /\ m.pc = "start" => m.msg.level = 0
        /\ m.pc \in {"parent", "inherit"} => m.rq.vi # 0
        /\ m.pc \in Posting \ {"parent", "inherit"} => (m.msg.level = 0 <=> m.rq.vi = 0)
        /\ m.pc = "append" => m.rq.vi = 0

\* A thread is counted before it is shown and no more before it is cut out.
Heads == {m \in Shown : hdr[m].level = 0}
Going(p) == loc[p].pc = "cut" /\ loc[p].msg.level = 0
Coming(p) == loc[p].pc = "append"
Leaving == IF \E p \in Procs : Going(p) THEN 1 ELSE 0
Arriving == IF \E p \in Procs : Coming(p) THEN 1 ELSE 0
Tally == NobodyDied => threads + Leaving = Cardinality(Heads) + Arriving

TallyInv ==
    /\ NumbersStay /\ PlacesKept /\ Tally
    /\ \A p \in Procs : Ranked(p)

LEMMA HeadsFinite ==
    ASSUME TypeOK
    PROVE  /\ IsFiniteSet(Shown) /\ IsFiniteSet(Heads)
           /\ Cardinality(Heads) \in Nat /\ threads \in Nat
<1>1. Shown \subseteq 1..Len(hdr) /\ 1 \in Nat /\ Len(hdr) \in Nat
  BY ShownFacts
<1>2. IsFiniteSet(Shown)
  <2>1. IsFiniteSet(1..Len(hdr))
    BY <1>1, FS_Interval
  <2>2. QED
    BY <1>1, <2>1, FS_Subset
<1>3. IsFiniteSet(Heads)
  BY <1>2, FS_Subset DEF Heads
<1>4. QED
  BY <1>2, <1>3, FS_CardinalityType DEF TypeOK

\* Who comes and who goes, seen from p.
LEMMA OneGoes ==
    ASSUME OrderInv, NEW p \in Procs, loc[p].pc \in Deleting,
           \A q \in Procs \ {p} : loc'[q] = loc[q]
    PROVE  /\ Leaving = IF Going(p) THEN 1 ELSE 0
           /\ Leaving' = IF Going(p)' THEN 1 ELSE 0
<1>1. \A q \in Procs \ {p} : loc[q].pc # "cut"
  BY OneDisturbs DEF Deleting
<1>2. \A q \in Procs \ {p} : ~Going(q) /\ ~Going(q)'
  BY <1>1 DEF Going
<1>3. QED
  BY <1>2 DEF Leaving

LEMMA OneComes ==
    ASSUME OrderInv, NEW p \in Procs, \A q \in Procs \ {p} : loc'[q] = loc[q],
           loc[p].pc = "append" \/ Free("fi")
    PROVE  /\ Arriving = IF Coming(p) THEN 1 ELSE 0
           /\ Arriving' = IF Coming(p)' THEN 1 ELSE 0
<1>1. \A q \in Procs : loc[q].pc = "append" => held["fi"] = q
  BY DEF OrderInv, Own, Locked
<1>2. held["fi"] = p \/ held["fi"] = None
  BY <1>1 DEF Free
<1>3. \A q \in Procs \ {p} : ~Coming(q) /\ ~Coming(q)'
  BY <1>1, <1>2, MsgStoreAssumption DEF Coming
<1>4. QED
  BY <1>3 DEF Arriving

LEMMA NoneGoes ==
    ASSUME NEW p \in Procs, \A q \in Procs \ {p} : loc'[q] = loc[q],
           ~Going(p), ~Going(p)'
    PROVE  Leaving' = Leaving
<1>1. \A q \in Procs : Going(q)' <=> Going(q)
  BY DEF Going
<1>2. QED
  BY <1>1, Zenon DEF Leaving

LEMMA NoneComes ==
    ASSUME NEW p \in Procs, \A q \in Procs \ {p} : loc'[q] = loc[q],
           ~Coming(p), ~Coming(p)'
    PROVE  Arriving' = Arriving
<1>1. \A q \in Procs : Coming(q)' <=> Coming(q)
  BY DEF Coming
<1>2. QED
  BY <1>1, Zenon DEF Arriving

\* A step of p, who is not dead.
LEMMA StillAlive ==
    ASSUME NEW p \in Procs, \A q \in Procs \ {p} : loc'[q] = loc[q], loc[p].pc # "dead"
    PROVE  NobodyDied' => NobodyDied
  BY DEF NobodyDied, At

LEMMA StillRanked ==
    ASSUME TallyInv, NEW p \in Procs, \A q \in Procs \ {p} : loc'[q] = loc[q], Ranked(p)'
    PROVE  \A q \in Procs : Ranked(q)'
  BY DEF TallyInv, Ranked

\* Who no longer posts need not be ranked.
LEMMA NotPosting ==
    ASSUME NEW p \in Procs, loc'[p].pc \notin Posting, loc'[p].pc # "start"
    PROVE  Ranked(p)'
  BY DEF Ranked, Posting

\* What q # p holds is what it held, if the numbers stay.
LEMMA HoldsStill ==
    ASSUME NEW q \in Procs, loc'[q] = loc[q], NEW x, Holds(q, x),
           loc[q].pc \in Placing => vidx'[loc[q].msg.vi] = vidx[loc[q].msg.vi]
    PROVE  Holds(q, x)'
  BY DEF Holds

\* A step of p that touches no place, number or count.
LEMMA TallyCalm ==
    ASSUME OrderInv, TallyInv, KeepsOn, NEW p \in Procs,
           \A q \in Procs \ {p} : loc'[q] = loc[q],
           UNCHANGED <<hfree, vidx, order, threads>>, DOMAIN hdr' = DOMAIN hdr,
           \A x \in DOMAIN hdr : Kin(hdr'[x], hdr[x]),
           loc[p].pc \notin Touching \cup {"dead"}, loc'[p].pc \notin Touching,
           Ranked(p)'
    PROVE  TallyInv'
<1>1. /\ Shown' = Shown /\ FreePlaces' = FreePlaces /\ Shown \subseteq DOMAIN hdr
      /\ \A x \in DOMAIN hdr : hdr'[x].vi = hdr[x].vi /\ hdr'[x].level = hdr[x].level
  BY ShownFacts DEF Shown, FreePlaces, Kin, OrderInv, PlacesInv
<1>2. NumbersStay'
  <2> SUFFICES ASSUME KeepsAll', NEW x \in Shown
               PROVE  \/ vidx[hdr'[x].vi] = x
                      \/ \E q \in Procs : loc'[q].pc \in {"read", "cut"} /\ loc'[q].at = x
    BY <1>1 DEF NumbersStay
  <2>1. \/ vidx[hdr[x].vi] = x
        \/ \E q \in Procs : loc[q].pc \in {"read", "cut"} /\ loc[q].at = x
    BY DEF TallyInv, NumbersStay, KeepsOn
  <2>2. ASSUME NEW q \in Procs, loc[q].pc \in {"read", "cut"} PROVE loc'[q] = loc[q]
    BY <2>2 DEF Touching
  <2>3. QED
    BY <1>1, <2>1, <2>2
<1>3. PlacesKept'
  <2> SUFFICES ASSUME KeepsAll', NEW x \in DOMAIN hdr
               PROVE  x \in Shown \/ x \in FreePlaces \/ \E q \in Procs : Holds(q, x)'
    BY <1>1 DEF PlacesKept
  <2>1. x \in Shown \/ x \in FreePlaces \/ \E q \in Procs : Holds(q, x)
    BY DEF TallyInv, PlacesKept, KeepsOn
  <2>2. ASSUME NEW q \in Procs, Holds(q, x) PROVE Holds(q, x)'
    <3>1. loc'[q] = loc[q]
      BY <2>2 DEF Holds, Placing, Touching
    <3>2. QED
      BY <2>2, <3>1, HoldsStill
  <2>3. QED
    BY <2>1, <2>2
<1>4. Tally'
  <2>1. Heads' = Heads
    <3>1. \A x : x \in Heads' <=> x \in Heads
      BY <1>1 DEF Heads
    <3>2. QED
      BY <3>1
  <2>2. ~Going(p) /\ ~Going(p)' /\ ~Coming(p) /\ ~Coming(p)'
    BY DEF Going, Coming, Touching
  <2>3. Leaving' = Leaving /\ Arriving' = Arriving
    BY <2>2, NoneGoes, NoneComes
  <2>4. NobodyDied' => NobodyDied
    BY StillAlive
  <2>5. QED
    BY <2>1, <2>3, <2>4 DEF TallyInv, Tally
<1>5. QED
  BY <1>2, <1>3, <1>4, StillRanked DEF TallyInv

LEMMA TallyIdle ==
    ASSUME OrderInv, TallyInv, KeepsOn, NEW p \in Procs,
           \A q \in Procs \ {p} : loc'[q] = loc[q],
           UNCHANGED <<hdr, hfree, vidx, order, threads>>,
           loc[p].pc \notin Touching \cup {"dead"}, loc'[p].pc \notin Touching,
           Ranked(p)'
    PROVE  TallyInv'
<1>1. \A x \in DOMAIN hdr : Kin(hdr'[x], hdr[x])
  BY DEF Kin
<1>2. QED
  BY <1>1, TallyCalm

\* p ends, or goes on with what is no post.
LEMMA TallyOther ==
    ASSUME OrderInv, TallyInv, KeepsOn, NEW p \in Procs,
           \A q \in Procs \ {p} : loc'[q] = loc[q],
           UNCHANGED <<hdr, hfree, vidx, order, threads>>,
           loc[p].pc \notin Touching \cup {"dead"},
           loc'[p].pc \notin Touching \cup Posting \cup {"start"}
    PROVE  TallyInv'
<1>1. Ranked(p)'
  BY NotPosting
<1>2. QED
  BY <1>1, TallyIdle

\* Steps of requests other than posts that write no header and no list of places.
LEMMA OtherTally ==
    ASSUME OrderInv, TallyInv, KeepsOn, NEW p \in Procs,
           \/ FindRoot(p) \/ SelectThread(p) \/ FindDoomed(p) \/ FreeDoomedBody(p)
           \/ FindEdited(p) \/ ReadEdited(p) \/ ResizeBody(p) \/ MoveBody(p)
           \/ FindFlagged(p) \/ OnlyRead(p) \/ ReadFlagged(p)
    PROVE  TallyInv'
<1> DEFINE Off(pc) == pc \notin Touching \cup Posting \cup {"start"}
           Moved == Off(loc'[p].pc) /\ \A q \in Procs \ {p} : loc'[q] = loc[q]
           Same == /\ loc[p].pc \notin Touching \cup {"dead"}
                   /\ UNCHANGED <<hdr, hfree, vidx, order, threads>>
<1>1. TypeOK /\ loc \in [Procs -> Memory] /\ loc[p] \in Memory
  BY MemoryFacts DEF OrderInv, PlacesInv
<1>2. Exit(p) => Moved
  BY <1>1, EndsIdle DEF Touching, Posting
<1>3. (\E code : Advance(p, code)) => Moved
  BY <1>1, AdvancesIdle DEF Touching, Posting
<1>4. ASSUME Same, Moved PROVE TallyInv'
  BY <1>4, TallyOther
<1>5. CASE FindRoot(p)
  <2>1. Moved
    BY <1>1, <1>2, <1>3, <1>5 DEF FindRoot, Memory, Touching, Posting
  <2>2. Same
    BY <1>5 DEF FindRoot, At, store, Touching
  <2>3. QED
    BY <1>4, <2>1, <2>2
<1>6. CASE FindDoomed(p)
  <2>1. Moved
    BY <1>1, <1>2, <1>3, <1>6 DEF FindDoomed, Memory, Touching, Posting
  <2>2. Same
    BY <1>6 DEF FindDoomed, At, store, Touching
  <2>3. QED
    BY <1>4, <2>1, <2>2
<1>7. CASE FreeDoomedBody(p)
  <2>1. Moved
    BY <1>1, <1>2, <1>3, <1>7 DEF FreeDoomedBody, Memory, Touching, Posting
  <2>2. Same
    BY <1>7 DEF FreeDoomedBody, At, store, Touching
  <2>3. QED
    BY <1>4, <2>1, <2>2
<1>8. CASE FindEdited(p)
  <2>1. Moved
    BY <1>1, <1>2, <1>3, <1>8 DEF FindEdited, Memory, Touching, Posting
  <2>2. Same
    BY <1>8 DEF FindEdited, At, store, Touching
  <2>3. QED
    BY <1>4, <2>1, <2>2
<1>9. CASE ReadEdited(p)
  <2>1. Moved
    BY <1>1, <1>2, <1>3, <1>9 DEF ReadEdited, Memory, Touching, Posting
  <2>2. Same
    BY <1>9 DEF ReadEdited, At, store, Touching
  <2>3. QED
    BY <1>4, <2>1, <2>2
<1>10. CASE FindFlagged(p)
  <2>1. Moved
    BY <1>1, <1>2, <1>3, <1>10 DEF FindFlagged, Memory, Touching, Posting
  <2>2. Same
    BY <1>10 DEF FindFlagged, At, store, Touching
  <2>3. QED
    BY <1>4, <2>1, <2>2
<1>11. CASE OnlyRead(p)
  <2>1. Moved
    BY <1>1, <1>2, <1>3, <1>11 DEF OnlyRead, Memory, Touching, Posting
  <2>2. Same
    BY <1>11 DEF OnlyRead, At, store, Touching
  <2>3. QED
    BY <1>4, <2>1, <2>2
<1>12. CASE ReadFlagged(p)
  <2>1. Moved
    BY SMTT(40), <1>1, <1>2, <1>3, <1>12 DEF ReadFlagged, Memory, Touching, Posting
  <2>2. Same
    BY <1>12 DEF ReadFlagged, At, store, Touching
  <2>3. QED
    BY <1>4, <2>1, <2>2
<1>13. CASE SelectThread(p)
  <2>1. Moved
    <3>1. \/ Exit(p)
          \/ \E todo :
                loc' = [loc EXCEPT ![p].todo = todo,
                          ![p].pc = IF loc[p].rq.op = "delete" THEN "delete" ELSE "flags"]
      BY <1>13, Zenon DEF SelectThread
    <3>2. ASSUME NEW todo, NEW pc, pc \in {"delete", "flags"},
                 loc' = [loc EXCEPT ![p].todo = todo, ![p].pc = pc]
          PROVE  Moved
      <4>1. loc'[p].pc = pc /\ \A q \in Procs \ {p} : loc'[q] = loc[q]
        BY <1>1, <3>2 DEF Memory
      <4>2. QED
        BY <3>2, <4>1 DEF Touching, Posting
    <3>3. QED
      BY <1>2, <3>1, <3>2
  <2>2. Same
    <3>1. loc[p].pc = "walk" /\ UNCHANGED store
      BY <1>13, Zenon DEF SelectThread, At
    <3>2. QED
      BY <3>1 DEF store, Touching
  <2>3. QED
    BY <1>4, <2>1, <2>2
<1>14. CASE ResizeBody(p)
  <2>1. Moved
    BY <1>1, <1>14, ResizeMoves DEF Touching, Posting
  <2>2. Same
    BY <1>14 DEF ResizeBody, At, Touching
  <2>3. QED
    BY <1>4, <2>1, <2>2
<1>15. CASE MoveBody(p)
  <2>1. Moved
    <3>1. PICK at : loc' = [loc EXCEPT ![p].msg.body = at, ![p].msg.size = loc[p].rq.size,
                                      ![p].pc = "rewrite"]
      BY <1>15 DEF MoveBody
    <3>2. QED
      BY <1>1, <3>1 DEF Memory, Touching, Posting
  <2>2. Same
    BY <1>15 DEF MoveBody, At, Touching
  <2>3. QED
    BY <1>4, <2>1, <2>2
<1>16. QED
  BY <1>5, <1>6, <1>7, <1>8, <1>9, <1>10, <1>11, <1>12, <1>13, <1>14, <1>15

\* What is written back is of the same message and level.
LEMMA WritebackTally ==
    ASSUME OrderInv, TallyInv, KeepsOn, NEW p \in Procs,
           RewriteHeader(p) \/ StoreFlagged(p)
    PROVE  TallyInv'
<1> DEFINE at == loc[p].at
<1>1. /\ TypeOK /\ PlacesInv /\ Own(p) /\ hdr \in Seq(Header)
      /\ loc[p].pc \in {"rewrite", "store"} /\ loc[p].pc \in Copying
      /\ WriteHeader(at, loc[p].msg)
      /\ UNCHANGED <<hfree, vidx, order, threads>>
  BY DEF OrderInv, PlacesInv, TypeOK, RewriteHeader, StoreFlagged, At, Copying
<1>2. /\ \A q \in Procs \ {p} : loc'[q] = loc[q]
      /\ loc'[p].pc \in {"done", "delete", "flags"}
  BY <1>1, EndsIdle, AdvancesIdle DEF RewriteHeader, StoreFlagged
<1>3. DOMAIN hdr' = DOMAIN hdr /\ at \in DOMAIN hdr
  BY <1>1, BackFacts
<1>4. hdr' = [hdr EXCEPT ![at] = loc[p].msg]
  BY <1>1, <1>3 DEF WriteHeader
<1>5. hdr'[at] = loc[p].msg /\ \A x \in DOMAIN hdr \ {at} : hdr'[x] = hdr[x]
  BY <1>1, <1>3, <1>4
<1>6. Kin(loc[p].msg, hdr[at])
  BY <1>1 DEF Own, Copied, Edits, Alike
<1> HIDE DEF at
<1>7. \A x \in DOMAIN hdr : Kin(hdr'[x], hdr[x])
  BY <1>5, <1>6 DEF Kin
<1>8. loc[p].pc \notin Touching \cup {"dead"} /\ loc'[p].pc \notin Touching
  BY <1>1, <1>2 DEF Touching
<1>9. Ranked(p)'
  BY <1>2 DEF Ranked, Posting
<1>10. QED
  BY <1>1, <1>2, <1>3, <1>7, <1>8, <1>9, TallyCalm

LEMMA BeginTally ==
    ASSUME OrderInv, TallyInv, KeepsOn, NEW p \in Procs, Begin(p)
    PROVE  TallyInv'
<1> DEFINE rq == loc[p].rq
           pc == CASE rq.op = "post" -> IF rq.vi = 0 THEN "body" ELSE "parent"
                   [] rq.op = "edit" -> "translate"
                   [] rq.op \in Single -> "flags"
                   [] OTHER -> "select"
           todo == IF rq.op \in Single THEN <<rq.vi>> ELSE << >>
<1>1. /\ loc[p].pc = "start" /\ loc' = [loc EXCEPT ![p].pc = pc, ![p].todo = todo]
      /\ UNCHANGED <<hdr, hfree, vidx, order, threads>>
  BY DEF Begin, At, store
<1>2. \/ pc = "body" /\ rq.vi = 0
      \/ pc = "parent" /\ rq.vi # 0
      \/ pc \in {"translate", "flags", "select"}
  OBVIOUS
<1>3. loc \in [Procs -> Memory] /\ loc[p] \in Memory
  BY MemoryFacts DEF OrderInv, PlacesInv
<1> HIDE DEF pc, todo
<1>4. /\ loc'[p].pc = pc /\ loc'[p].rq = rq /\ loc'[p].msg = loc[p].msg
      /\ \A q \in Procs \ {p} : loc'[q] = loc[q]
  <2>1. loc'[p] = [loc[p] EXCEPT !.pc = pc, !.todo = todo]
    BY <1>1, <1>3
  <2>2. QED
    BY <1>1, <1>3, <2>1 DEF Memory
<1>5. loc[p].msg.level = 0
  BY <1>1 DEF TallyInv, Ranked
<1>6. Ranked(p)'
  BY <1>2, <1>4, <1>5 DEF Ranked, Posting
<1>7. loc[p].pc \notin Touching \cup {"dead"} /\ loc'[p].pc \notin Touching
  BY <1>1, <1>2, <1>4 DEF Touching
<1>8. QED
  BY <1>1, <1>4, <1>6, <1>7, TallyIdle

LEMMA FindParentTally ==
    ASSUME OrderInv, TallyInv, KeepsOn, NEW p \in Procs, FindParent(p)
    PROVE  TallyInv'
<1> DEFINE at == Translate(loc[p].rq.vi)
<1>1. /\ TypeOK /\ loc \in [Procs -> Memory] /\ loc[p] \in Memory
      /\ loc[p].pc = "parent" /\ UNCHANGED <<hdr, hfree, vidx, order, threads>>
  BY MemoryFacts DEF OrderInv, PlacesInv, FindParent, At, store
<1>2. loc[p].pc \notin Touching \cup {"dead"}
  BY <1>1 DEF Touching
<1>3. CASE Exit(p)
  BY <1>1, <1>2, <1>3, EndsIdle, TallyOther DEF Touching, Posting
<1>4. CASE loc' = [loc EXCEPT ![p].at = at, ![p].pc = "inherit"]
  <2> HIDE DEF at
  <2>1. /\ loc'[p].pc = "inherit" /\ loc'[p].rq = loc[p].rq
        /\ \A q \in Procs \ {p} : loc'[q] = loc[q]
    BY <1>1, <1>4 DEF Memory
  <2>2. Ranked(p)'
    BY <1>1, <2>1 DEF TallyInv, Ranked, Posting
  <2>3. loc'[p].pc \notin Touching
    BY <2>1 DEF Touching
  <2>4. QED
    BY <1>1, <1>2, <2>1, <2>2, <2>3, TallyIdle
<1>5. QED
  BY <1>3, <1>4 DEF FindParent

LEMMA ReadParentTally ==
    ASSUME OrderInv, TallyInv, KeepsOn, NEW p \in Procs, ReadParent(p)
    PROVE  TallyInv'
<1> DEFINE at == loc[p].at
           h == hdr[at]
<1>1. /\ TypeOK /\ loc \in [Procs -> Memory] /\ loc[p] \in Memory /\ hdr \in Seq(Header)
      /\ loc[p].pc = "inherit" /\ UNCHANGED <<hdr, hfree, vidx, order, threads>>
  BY MemoryFacts DEF OrderInv, PlacesInv, ReadParent, At, store, TypeOK
<1>2. loc[p].pc \notin Touching \cup {"dead"}
  BY <1>1 DEF Touching
<1>3. CASE at \notin DOMAIN hdr \/ Barred(h, loc[p].rq)
  <2>1. Exit(p)
    BY <1>3 DEF ReadParent
  <2>2. QED
    BY <1>1, <1>2, <2>1, EndsIdle, TallyOther DEF Touching, Posting
<1>4. CASE ~(at \notin DOMAIN hdr \/ Barred(h, loc[p].rq))
  <2> DEFINE level == h.level + 1
             thread == HeadOf(h, at)
             flags == h.flags
  <2>1. loc' = [loc EXCEPT ![p].msg.level = level, ![p].msg.thread = thread,
                           ![p].msg.flags = flags, ![p].pc = "body"]
    BY <1>4 DEF ReadParent
  <2>2. level # 0
    <3>1. h.level \in Nat
      BY <1>1, <1>4, HeaderFacts
    <3>2. \A k \in Nat : k + 1 # 0
      OBVIOUS
    <3>3. QED
      BY <3>1, <3>2
  <2> HIDE DEF level, thread, flags, at, h
  <2>3. /\ loc'[p].pc = "body" /\ loc'[p].rq = loc[p].rq /\ loc'[p].msg.level = level
        /\ \A q \in Procs \ {p} : loc'[q] = loc[q]
    BY <1>1, <2>1 DEF Memory, Header
  <2>4. Ranked(p)'
    BY <1>1, <2>2, <2>3 DEF TallyInv, Ranked, Posting
  <2>5. loc'[p].pc \notin Touching
    BY <2>3 DEF Touching
  <2>6. QED
    BY <1>1, <1>2, <2>3, <2>4, <2>5, TallyIdle
<1>5. QED
  BY <1>3, <1>4

LEMMA WriteBodyTally ==
    ASSUME OrderInv, TallyInv, KeepsOn, NEW p \in Procs, WriteBody(p)
    PROVE  TallyInv'
<1>1. /\ TypeOK /\ loc \in [Procs -> Memory] /\ loc[p] \in Memory
      /\ loc[p].pc = "body" /\ UNCHANGED <<hdr, hfree, vidx, order, threads>>
  BY MemoryFacts DEF OrderInv, PlacesInv, WriteBody, At
<1>2. PICK at : loc' = [loc EXCEPT ![p].msg.body = at, ![p].msg.size = loc[p].rq.size,
                                  ![p].pc = "number"]
  BY DEF WriteBody
<1>3. /\ loc'[p].pc = "number" /\ loc'[p].rq = loc[p].rq
      /\ loc'[p].msg.level = loc[p].msg.level
      /\ \A q \in Procs \ {p} : loc'[q] = loc[q]
  BY <1>1, <1>2 DEF Memory, Header
<1>4. Ranked(p)'
  BY <1>1, <1>3 DEF TallyInv, Ranked, Posting
<1>5. loc[p].pc \notin Touching \cup {"dead"} /\ loc'[p].pc \notin Touching
  BY <1>1, <1>3 DEF Touching
<1>6. QED
  BY <1>1, <1>3, <1>4, <1>5, TallyIdle

\* The count where nothing that is counted is touched.
LEMMA TallyStill ==
    ASSUME TallyInv, NEW p \in Procs, \A q \in Procs \ {p} : loc'[q] = loc[q],
           loc[p].pc \notin {"cut", "append", "dead"},
           loc'[p].pc \notin {"cut", "append"},
           Heads' = Heads, UNCHANGED threads
    PROVE  Tally'
<1>1. ~Going(p) /\ ~Going(p)' /\ ~Coming(p) /\ ~Coming(p)'
  BY DEF Going, Coming
<1>2. Leaving' = Leaving /\ Arriving' = Arriving
  BY <1>1, NoneGoes, NoneComes
<1>3. NobodyDied' => NobodyDied
  BY StillAlive
<1>4. QED
  BY <1>2, <1>3 DEF TallyInv, Tally

LEMMA HeadsStill ==
    ASSUME Shown' = Shown, \A x \in Shown : hdr'[x].level = hdr[x].level
    PROVE  Heads' = Heads
<1>1. \A x : x \in Heads' <=> x \in Heads
  BY DEF Heads
<1>2. QED
  BY <1>1

LEMMA TakeNumberTally ==
    ASSUME OrderInv, TallyInv, KeepsOn, NEW p \in Procs, TakeNumber(p)
    PROVE  TallyInv'
<1> DEFINE n == Len(vidx) + 1
<1>1. PICK at \in 1..(Len(hdr) + 1) : HeaderSpace(at) /\ vidx' = Append(vidx, at)
  BY DEF TakeNumber
<1>2. /\ TypeOK /\ PlacesInv /\ loc[p].pc = "number" /\ Free("fm")
      /\ loc' = [loc EXCEPT ![p].msg.vi = n, ![p].pc = "header"]
      /\ UNCHANGED <<hdr, threads, order>>
      /\ loc \in [Procs -> Memory] /\ loc[p] \in Memory /\ vidx \in Seq(Nat)
  BY MemoryFacts DEF OrderInv, PlacesInv, TakeNumber, At, TypeOK
<1>3. FreePlaces \subseteq FreePlaces' \cup {at} /\ at \in Nat
  BY <1>1, <1>2, HeaderSpaceFacts DEF FreePlaces
<1>4. vidx'[n] = at /\ \A k \in DOMAIN vidx : vidx'[k] = vidx[k]
  BY <1>1, <1>2, <1>3
<1> HIDE DEF n
<1>5. /\ loc'[p].pc = "header" /\ loc'[p].rq = loc[p].rq /\ loc'[p].msg.vi = n
      /\ loc'[p].msg.level = loc[p].msg.level
      /\ \A q \in Procs \ {p} : loc'[q] = loc[q]
  BY <1>2 DEF Memory, Header
<1>6. Shown' = Shown /\ Shown \subseteq DOMAIN hdr
  BY <1>2, ShownFacts DEF Shown
<1>7. NumbersStay'
  <2> SUFFICES ASSUME KeepsAll', NEW x \in Shown
               PROVE  \/ vidx'[hdr[x].vi] = x
                      \/ \E q \in Procs : loc'[q].pc \in {"read", "cut"} /\ loc'[q].at = x
    BY <1>2, <1>6 DEF NumbersStay
  <2>1. \/ vidx[hdr[x].vi] = x
        \/ \E q \in Procs : loc[q].pc \in {"read", "cut"} /\ loc[q].at = x
    BY DEF TallyInv, NumbersStay, KeepsOn
  <2>2. vidx'[hdr[x].vi] = vidx[hdr[x].vi]
    BY <1>2, <1>4, <1>6 DEF PlacesInv, NumbersKnown
  <2>3. QED
    BY <1>2, <1>5, <2>1, <2>2
<1>8. PlacesKept'
  <2> SUFFICES ASSUME KeepsAll', NEW x \in DOMAIN hdr
               PROVE  x \in Shown \/ x \in FreePlaces' \/ \E q \in Procs : Holds(q, x)'
    BY <1>2, <1>6 DEF PlacesKept
  <2>1. x \in Shown \/ x \in FreePlaces \/ \E q \in Procs : Holds(q, x)
    BY DEF TallyInv, PlacesKept, KeepsOn
  <2>2. ASSUME NEW q \in Procs, Holds(q, x) PROVE Holds(q, x)'
    <3>1. q # p
      BY <1>2, <2>2 DEF Holds, Placing
    <3>2. loc[q].pc \in Placing => vidx'[loc[q].msg.vi] = vidx[loc[q].msg.vi]
      BY <1>2, <1>4, HoldsFacts
    <3>3. QED
      BY <1>5, <2>2, <3>1, <3>2, HoldsStill
  <2>3. Holds(p, at)'
    BY <1>4, <1>5 DEF Holds, Placing
  <2>4. QED
    BY <1>3, <2>1, <2>2, <2>3
<1>9. Tally'
  <2>1. Heads' = Heads
    BY <1>2, <1>6, HeadsStill
  <2>2. QED
    BY <1>2, <1>5, <2>1, TallyStill
<1>10. Ranked(p)'
  BY <1>2, <1>5 DEF TallyInv, Ranked, Posting
<1>11. QED
  BY <1>5, <1>7, <1>8, <1>9, <1>10, StillRanked DEF TallyInv

LEMMA PutHeaderTally ==
    ASSUME OrderInv, TallyInv, KeepsOn, NEW p \in Procs, PutHeader(p)
    PROVE  TallyInv'
<1> DEFINE n == loc[p].msg.vi
<1>1. /\ TypeOK /\ PlacesInv /\ loc[p].pc = "header" /\ Fits(loc[p])
      /\ loc[p].pc \in Placing
      /\ WriteHeader(vidx[n], loc[p].msg) /\ Goto(p, "index") /\ "index" \in Pc
      /\ UNCHANGED <<hfree, vidx, threads, order>>
  BY DEF OrderInv, PlacesInv, PutHeader, At, Pc, Placing
<1>2. PICK at \in 1..(Len(hdr) + 1) : at = vidx[n] /\ at \notin Shown /\ n \in DOMAIN vidx
  <2>1. n \in DOMAIN vidx /\ Holds(p, vidx[n])
    BY <1>1, HoldsFacts
  <2>2. vidx[n] \in 1..(Len(hdr) + 1) /\ vidx[n] \notin Shown
    BY <1>1, <2>1, HoldsFacts
  <2>3. QED
    BY <2>1, <2>2
<1>3. /\ loc'[p] = [loc[p] EXCEPT !.pc = "index"]
      /\ \A q \in Procs \ {p} : loc'[q] = loc[q]
  BY <1>1, GotoMoves
<1>4. /\ loc'[p].pc = "index" /\ loc'[p].msg = loc[p].msg /\ loc'[p].rq = loc[p].rq
  BY <1>1, <1>3, MemoryFacts DEF Memory
<1>5. /\ DOMAIN hdr' \subseteq DOMAIN hdr \cup {at}
      /\ \A x \in DOMAIN hdr \ {at} : hdr'[x] = hdr[x]
  <2>1. \A q \in Procs : loc[q].pc \in Placing /\ loc[q].msg.vi = loc[p].msg.vi
                            => at = vidx[loc[q].msg.vi]
    BY <1>2
  <2>2. QED
    BY <1>1, <1>2, <2>1, WrittenFacts
<1>6. Holds(p, at)'
  BY <1>1, <1>2, <1>4 DEF Holds, Placing
<1>7. /\ Shown' = Shown /\ FreePlaces' = FreePlaces
      /\ \A x \in Shown : x \in DOMAIN hdr /\ hdr'[x] = hdr[x]
  BY <1>1, <1>2, <1>5, ShownFacts DEF Shown, FreePlaces
<1>8. NumbersStay'
  <2> SUFFICES ASSUME KeepsAll', NEW x \in Shown
               PROVE  \/ vidx[hdr[x].vi] = x
                      \/ \E q \in Procs : loc'[q].pc \in {"read", "cut"} /\ loc'[q].at = x
    BY <1>1, <1>7 DEF NumbersStay
  <2>1. \/ vidx[hdr[x].vi] = x
        \/ \E q \in Procs : loc[q].pc \in {"read", "cut"} /\ loc[q].at = x
    BY DEF TallyInv, NumbersStay, KeepsOn
  <2>2. QED
    BY <1>1, <1>3, <2>1
<1>9. PlacesKept'
  <2> SUFFICES ASSUME KeepsAll', NEW x \in DOMAIN hdr \ {at}
               PROVE  x \in Shown \/ x \in FreePlaces \/ \E q \in Procs : Holds(q, x)'
    BY <1>5, <1>6, <1>7 DEF PlacesKept
  <2>1. x \in Shown \/ x \in FreePlaces \/ \E q \in Procs : Holds(q, x)
    BY DEF TallyInv, PlacesKept, KeepsOn
  <2>2. ASSUME NEW q \in Procs, Holds(q, x) PROVE Holds(q, x)'
    <3>1. q # p
      BY <1>1, <1>2, <2>2 DEF Holds
    <3>2. QED
      BY <1>1, <1>3, <2>2, <3>1, HoldsStill
  <2>3. QED
    BY <2>1, <2>2
<1>10. Tally'
  <2>1. Heads' = Heads
    BY <1>7, HeadsStill
  <2>2. QED
    BY <1>1, <1>3, <1>4, <2>1, TallyStill
<1>11. Ranked(p)'
  BY <1>1, <1>4 DEF TallyInv, Ranked, Posting
<1>12. QED
  BY <1>3, <1>8, <1>9, <1>10, <1>11, StillRanked DEF TallyInv

\* A new thread is counted before it is shown.
LEMMA CountThreadTally ==
    ASSUME OrderInv, TallyInv, KeepsOn, NEW p \in Procs, CountThread(p)
    PROVE  TallyInv'
<1>1. /\ TypeOK /\ loc[p].pc = "index" /\ Free("fi") /\ Goto(p, "append") /\ "append" \in Pc
      /\ UNCHANGED <<hdr, hfree, vidx, order>> /\ loc[p].rq.vi = 0
      /\ threads' = threads + 1
  BY DEF OrderInv, PlacesInv, CountThread, At, Pc
<1>2. /\ loc'[p] = [loc[p] EXCEPT !.pc = "append"]
      /\ \A q \in Procs \ {p} : loc'[q] = loc[q]
  BY <1>1, GotoMoves
<1>3. /\ loc'[p].pc = "append" /\ loc'[p].msg = loc[p].msg /\ loc'[p].rq = loc[p].rq
  BY <1>1, <1>2, MemoryFacts DEF Memory
<1>4. Shown' = Shown /\ FreePlaces' = FreePlaces
  BY <1>1 DEF Shown, FreePlaces
<1>5. NumbersStay'
  <2>1. \A q \in Procs : loc[q].pc \in {"read", "cut"} => loc'[q] = loc[q]
    BY <1>1, <1>2
  <2>2. QED
    BY <1>1, <1>4, <2>1 DEF TallyInv, NumbersStay, KeepsOn
<1>6. PlacesKept'
  <2>1. ASSUME NEW q \in Procs, NEW x, Holds(q, x) PROVE Holds(q, x)'
    BY <1>1, <1>2, <1>3, <2>1 DEF Holds, Placing
  <2>2. QED
    BY <1>1, <1>4, <2>1 DEF TallyInv, PlacesKept, KeepsOn
<1>7. Tally'
  <2>1. Heads' = Heads
    BY <1>1, <1>4, HeadsStill
  <2>2. Leaving' = Leaving
    BY <1>1, <1>2, <1>3, NoneGoes DEF Going
  <2>3. Arriving = 0 /\ Arriving' = 1
    BY <1>1, <1>2, <1>3, OneComes DEF Coming
  <2>4. NobodyDied' => NobodyDied
    BY <1>1, <1>2, StillAlive
  <2>5. threads \in Nat /\ Cardinality(Heads) \in Nat /\ Leaving \in {0, 1}
    BY <1>1, HeadsFinite DEF Leaving
  <2>6. QED
    BY <1>1, <2>1, <2>2, <2>3, <2>4, <2>5 DEF TallyInv, Tally
<1>8. Ranked(p)'
  BY <1>1, <1>3 DEF TallyInv, Ranked, Posting
<1>9. QED
  BY <1>2, <1>5, <1>6, <1>7, <1>8, StillRanked DEF TallyInv

\* A message is shown: its number leads to it.
LEMMA ShowTally ==
    ASSUME OrderInv, TallyInv, KeepsOn, NEW p \in Procs, IndexReply(p) \/ IndexThread(p)
    PROVE  TallyInv'
<1>1. TypeOK /\ PlacesInv /\ Own(p) /\ Ranked(p)
  BY DEF OrderInv, PlacesInv, TallyInv
<1>2. PICK at \in DOMAIN hdr \ Shown : at = PlaceOf(p)
  BY ShowFacts
<1>3. /\ \/ loc[p].pc = "index" /\ loc[p].rq.vi # 0
         \/ loc[p].pc = "append"
      /\ loc'[p].pc = "done" /\ \A q \in Procs \ {p} : loc'[q] = loc[q]
      /\ UNCHANGED <<hdr, hfree, vidx, threads>>
      /\ Alike(loc[p].msg, hdr[at])
      /\ \/ Shown' = Shown \cup {at}
         \/ Shown' = Shown /\ ~KeepsAll /\ loc[p].rq.vi # 0
  BY <1>2, ShowFacts
<1>4. /\ vidx[hdr[at].vi] = at /\ hdr[at].level = loc[p].msg.level
      /\ loc[p].pc = "append" => hdr[at].level = 0
      /\ loc[p].pc = "index" => hdr[at].level # 0
  <2>1. hdr[at].vi = loc[p].msg.vi /\ hdr[at].level = loc[p].msg.level
    BY <1>3 DEF Alike, Kin
  <2>2. /\ loc[p].msg.level = 0 <=> loc[p].rq.vi = 0
        /\ loc[p].pc = "append" => loc[p].rq.vi = 0
        /\ loc[p].pc = "index" => loc[p].rq.vi # 0
    BY <1>1, <1>3 DEF Ranked, Posting
  <2>3. QED
    BY <1>2, <2>1, <2>2 DEF PlaceOf
<1>5. FreePlaces' = FreePlaces /\ Shown \subseteq Shown'
      /\ (KeepsAll => Shown' = Shown \cup {at})
  BY <1>3 DEF FreePlaces
<1>6. NumbersStay'
  <2> SUFFICES ASSUME KeepsAll', NEW x \in Shown'
               PROVE  \/ vidx[hdr[x].vi] = x
                      \/ \E q \in Procs : loc'[q].pc \in {"read", "cut"} /\ loc'[q].at = x
    BY <1>3 DEF NumbersStay
  <2>1. x \in Shown => \/ vidx[hdr[x].vi] = x
                       \/ \E q \in Procs : loc[q].pc \in {"read", "cut"} /\ loc[q].at = x
    BY DEF TallyInv, NumbersStay, KeepsOn
  <2>2. \A q \in Procs : loc[q].pc \in {"read", "cut"} => loc'[q] = loc[q]
    BY <1>3
  <2>3. QED
    BY <1>3, <1>4, <2>1, <2>2
<1>7. PlacesKept'
  <2> SUFFICES ASSUME KeepsAll', NEW x \in DOMAIN hdr
               PROVE  x \in Shown' \/ x \in FreePlaces \/ \E q \in Procs : Holds(q, x)'
    BY <1>3, <1>5 DEF PlacesKept
  <2>1. x \in Shown \/ x \in FreePlaces \/ \E q \in Procs : Holds(q, x)
    BY DEF TallyInv, PlacesKept, KeepsOn
  <2>2. at \in Shown'
    BY <1>5 DEF KeepsOn
  <2>3. Holds(p, x) => x = at
    BY <1>2, <1>3 DEF Holds, PlaceOf
  <2>4. ASSUME NEW q \in Procs \ {p}, Holds(q, x) PROVE Holds(q, x)'
    BY <1>3, <2>4, HoldsStill
  <2>5. QED
    BY <1>5, <2>1, <2>2, <2>3, <2>4
<1>8. Tally'
  <2>1. Leaving' = Leaving /\ Leaving \in {0, 1} /\ (NobodyDied' => NobodyDied)
    <3>1. Leaving' = Leaving
      BY <1>3, NoneGoes DEF Going
    <3>2. NobodyDied' => NobodyDied
      BY <1>3, StillAlive
    <3>3. QED
      BY <3>1, <3>2 DEF Leaving
  <2>2. CASE loc[p].pc = "index"
    <3>1. Heads' = Heads
      <4>1. \A x : x \in Heads' <=> x \in Heads
        BY <1>3, <1>4, <2>2 DEF Heads
      <4>2. QED
        BY <4>1
    <3>2. Arriving' = Arriving
      BY <1>3, <2>2, NoneComes DEF Coming
    <3>3. QED
      BY <1>3, <2>1, <3>1, <3>2 DEF TallyInv, Tally
  <2>3. CASE loc[p].pc = "append"
    <3>1. Shown' = Shown \cup {at}
      BY <1>1, <1>3, <2>3 DEF Ranked
    <3>2. Heads' = Heads \cup {at} /\ at \notin Heads
      <4>1. \A x : x \in Heads' <=> x \in Heads \/ x = at
        BY <1>3, <1>4, <2>3, <3>1 DEF Heads
      <4>2. QED
        BY <1>2, <4>1 DEF Heads
    <3>3. IsFiniteSet(Heads) /\ Cardinality(Heads) \in Nat /\ threads \in Nat
      BY <1>1, HeadsFinite
    <3>4. Cardinality(Heads') = Cardinality(Heads) + 1
      BY <3>2, <3>3, FS_AddElement
    <3>5. Arriving = 1 /\ Arriving' = 0
      BY <1>3, <2>3, OneComes DEF Coming
    <3>6. Cardinality(Heads)' = Cardinality(Heads')
      OBVIOUS
    <3>7. QED
      BY <1>3, <2>1, <3>3, <3>4, <3>5, <3>6 DEF TallyInv, Tally
  <2>4. QED
    BY <1>3, <2>2, <2>3
<1>9. Ranked(p)'
  BY <1>3, NotPosting DEF Posting
<1>10. QED
  BY <1>3, <1>6, <1>7, <1>8, <1>9, StillRanked DEF TallyInv

LEMMA DropNumberTally ==
    ASSUME OrderInv, TallyInv, KeepsOn, NEW p \in Procs, DropNumber(p)
    PROVE  TallyInv'
<1>1. /\ loc[p].pc = "unindex" /\ loc[p].pc \in Deleting /\ "read" \in Pc
      /\ vidx' = [vidx EXCEPT ![Head(loc[p].todo)] = Gone] /\ Goto(p, "read")
      /\ UNCHANGED <<hdr, hfree, order, threads>>
  BY DEF DropNumber, At, Deleting, Pc
<1>2. PICK n \in DOMAIN vidx : n = loc[p].todo[1] /\ n = Head(loc[p].todo)
  BY <1>1, DoomsFacts
<1>3. TypeOK /\ PlacesInv /\ Own(p) /\ vidx \in Seq(Nat) /\ loc[p].pc \notin Placing
  BY <1>1, DoomsFacts DEF OrderInv
<1>4. PICK at \in Shown : at = loc[p].at /\ hdr[at].vi = n
  BY <1>1, <1>2, <1>3 DEF Own, Dooms, Named
<1>5. \A k \in DOMAIN vidx \ {n} : vidx'[k] = vidx[k]
  BY <1>1, <1>2, <1>3
<1>6. /\ loc'[p] = [loc[p] EXCEPT !.pc = "read"]
      /\ \A q \in Procs \ {p} : loc'[q] = loc[q]
  BY <1>1, <1>3, GotoMoves
<1>7. loc'[p].pc = "read" /\ loc'[p].at = at
  BY <1>3, <1>4, <1>6, MemoryFacts DEF Memory
<1>8. Shown' = Shown /\ FreePlaces' = FreePlaces /\ Shown \subseteq DOMAIN hdr
  BY <1>1, <1>3, ShownFacts DEF Shown, FreePlaces
<1>9. NumbersStay'
  <2> SUFFICES ASSUME KeepsAll', NEW x \in Shown, x # at
               PROVE  \/ vidx'[hdr[x].vi] = x
                      \/ \E q \in Procs : loc'[q].pc \in {"read", "cut"} /\ loc'[q].at = x
    BY <1>1, <1>7, <1>8 DEF NumbersStay
  <2>1. \/ vidx[hdr[x].vi] = x
        \/ \E q \in Procs : loc[q].pc \in {"read", "cut"} /\ loc[q].at = x
    BY DEF TallyInv, NumbersStay, KeepsOn
  <2>2. hdr[x].vi # n
    BY <1>4 DEF OrderInv, Numbered
  <2>3. vidx'[hdr[x].vi] = vidx[hdr[x].vi]
    BY <1>3, <1>5, <1>8, <2>2 DEF PlacesInv, NumbersKnown
  <2>4. QED
    BY <1>1, <1>6, <2>1, <2>3
<1>10. PlacesKept'
  <2> SUFFICES ASSUME KeepsAll', NEW x \in DOMAIN hdr
               PROVE  x \in Shown \/ x \in FreePlaces
    BY <1>1, <1>8 DEF PlacesKept
  <2>1. x \in Shown \/ x \in FreePlaces \/ \E q \in Procs : Holds(q, x)
    BY DEF TallyInv, PlacesKept, KeepsOn
  <2>2. \A q \in Procs \ {p} : loc[q].pc \notin Deleting \cup Posting
    BY <1>1, Undisturbed DEF KeepsOn
  <2>3. \A q \in Procs : ~Holds(q, x)
    BY <1>1, <2>2 DEF Holds, Placing, Posting, Deleting
  <2>4. QED
    BY <2>1, <2>3
<1>11. Tally'
  <2>1. Heads' = Heads
    BY <1>1, <1>8, HeadsStill
  <2>2. QED
    BY <1>1, <1>6, <1>7, <2>1, TallyStill
<1>12. Ranked(p)'
  BY <1>7, NotPosting DEF Posting
<1>13. QED
  BY <1>6, <1>9, <1>10, <1>11, <1>12, StillRanked DEF TallyInv

\* A thread that is deleted was counted, so the count is not zero.
LEMMA ReadDoomedTally ==
    ASSUME OrderInv, TallyInv, KeepsOn, NEW p \in Procs, ReadDoomed(p)
    PROVE  TallyInv'
<1>1. /\ loc[p].pc = "read" /\ loc[p].pc \in Deleting
      /\ UNCHANGED <<hdr, hfree, vidx, order>>
  BY DEF ReadDoomed, At, Deleting
<1>2. TypeOK /\ Own(p) /\ loc \in [Procs -> Memory] /\ loc[p] \in Memory
  BY MemoryFacts DEF OrderInv, PlacesInv
<1>3. PICK at \in Shown : at = loc[p].at
  BY <1>1, <1>2 DEF Own, Dooms, Named
<1>4. at \in DOMAIN hdr
  BY <1>2, ShownFacts
<1>5. /\ loc' = [loc EXCEPT ![p].msg = hdr[at], ![p].pc = "cut"]
      /\ threads' = Uncounted(hdr[at])
  BY <1>3, <1>4 DEF ReadDoomed
<1>6. /\ loc'[p].pc = "cut" /\ loc'[p].at = at /\ loc'[p].msg = hdr[at]
      /\ \A q \in Procs \ {p} : loc'[q] = loc[q]
  BY <1>2, <1>3, <1>5 DEF Memory
<1>7. Shown' = Shown /\ FreePlaces' = FreePlaces
  BY <1>1 DEF Shown, FreePlaces
<1>8. NumbersStay'
  <2> SUFFICES ASSUME KeepsAll', NEW x \in Shown
               PROVE  \/ vidx[hdr[x].vi] = x
                      \/ \E q \in Procs : loc'[q].pc \in {"read", "cut"} /\ loc'[q].at = x
    BY <1>1, <1>7 DEF NumbersStay
  <2>1. \/ vidx[hdr[x].vi] = x
        \/ \E q \in Procs : loc[q].pc \in {"read", "cut"} /\ loc[q].at = x
    BY DEF TallyInv, NumbersStay, KeepsOn
  <2>2. \A q \in Procs : loc[q].pc \in {"read", "cut"} =>
           loc'[q].pc \in {"read", "cut"} /\ loc'[q].at = loc[q].at
    BY <1>3, <1>6
  <2>3. QED
    BY <2>1, <2>2
<1>9. PlacesKept'
  <2>1. ASSUME NEW q \in Procs, NEW x, Holds(q, x) PROVE Holds(q, x)'
    BY <1>1, <1>6, <2>1 DEF Holds, Placing
  <2>2. QED
    BY <1>1, <1>7, <2>1 DEF TallyInv, PlacesKept, KeepsOn
<1>10. Tally'
  <2>1. Heads' = Heads
    BY <1>1, <1>7, HeadsStill
  <2>2. /\ Leaving = 0
        /\ Leaving' = IF hdr[at].level = 0 THEN 1 ELSE 0
    BY <1>1, <1>6, OneGoes DEF Going
  <2>3. Arriving' = Arriving /\ Arriving \in {0, 1}
    <3>1. Arriving' = Arriving
      BY <1>1, <1>6, NoneComes DEF Coming
    <3>2. QED
      BY <3>1 DEF Arriving
  <2>4. NobodyDied' => NobodyDied
    BY <1>1, <1>6, StillAlive
  <2>5. IsFiniteSet(Heads) /\ Cardinality(Heads) \in Nat /\ threads \in Nat
    BY <1>2, HeadsFinite
  <2>6. hdr[at].level = 0 => Cardinality(Heads) # 0
    <3>1. hdr[at].level = 0 => at \in Heads
      BY DEF Heads
    <3>2. QED
      BY <2>5, <3>1, FS_EmptySet
  <2>7. NobodyDied => threads = Cardinality(Heads) + Arriving
    BY <2>2, <2>5 DEF TallyInv, Tally
  <2>8. NobodyDied => threads' + Leaving' = Cardinality(Heads) + Arriving
    BY <1>5, <2>2, <2>3, <2>5, <2>6, <2>7 DEF Uncounted
  <2>9. QED
    BY <2>1, <2>3, <2>4, <2>8 DEF Tally
<1>11. Ranked(p)'
  BY <1>6, NotPosting DEF Posting
<1>12. QED
  BY <1>6, <1>8, <1>9, <1>10, <1>11, StillRanked DEF TallyInv

LEMMA CutTally ==
    ASSUME OrderInv, TallyInv, KeepsOn, NEW p \in Procs, CutMessage(p)
    PROVE  TallyInv'
<1>1. PICK at \in Shown : at = loc[p].at
  BY CutFacts
<1>2. /\ loc[p].pc = "cut" /\ loc'[p].pc = "freeheader" /\ loc'[p].at = at
      /\ \A q \in Procs \ {p} : loc'[q] = loc[q]
      /\ UNCHANGED <<hdr, hfree, vidx, threads>>
      /\ Shown' = Shown \ {at} /\ Alike(loc[p].msg, hdr[at]) /\ TypeOK
  BY <1>1, CutFacts DEF OrderInv, PlacesInv
<1>3. FreePlaces' = FreePlaces
  BY <1>2 DEF FreePlaces
<1>4. NumbersStay'
  <2> SUFFICES ASSUME KeepsAll', NEW x \in Shown, x # at
               PROVE  \/ vidx[hdr[x].vi] = x
                      \/ \E q \in Procs : loc'[q].pc \in {"read", "cut"} /\ loc'[q].at = x
    BY <1>2 DEF NumbersStay
  <2>1. \/ vidx[hdr[x].vi] = x
        \/ \E q \in Procs : loc[q].pc \in {"read", "cut"} /\ loc[q].at = x
    BY DEF TallyInv, NumbersStay, KeepsOn
  <2>2. QED
    BY <1>1, <1>2, <2>1
<1>5. PlacesKept'
  <2> SUFFICES ASSUME KeepsAll', NEW x \in DOMAIN hdr
               PROVE  x \in Shown' \/ x \in FreePlaces \/ \E q \in Procs : Holds(q, x)'
    BY <1>2, <1>3 DEF PlacesKept
  <2>1. x \in Shown \/ x \in FreePlaces \/ \E q \in Procs : Holds(q, x)
    BY DEF TallyInv, PlacesKept, KeepsOn
  <2>2. Holds(p, at)'
    BY <1>2 DEF Holds
  <2>3. ASSUME NEW q \in Procs, Holds(q, x) PROVE Holds(q, x)'
    BY <1>2, <2>3 DEF Holds, Placing
  <2>4. QED
    BY <1>2, <2>1, <2>2, <2>3
<1>6. Tally'
  <2>1. loc[p].msg.level = hdr[at].level
    BY <1>2 DEF Alike, Kin
  <2>2. Leaving = (IF hdr[at].level = 0 THEN 1 ELSE 0) /\ Leaving' = 0
    BY <1>2, <2>1, OneGoes DEF Going, Deleting
  <2>3. Arriving' = Arriving /\ Arriving \in {0, 1}
    <3>1. Arriving' = Arriving
      BY <1>2, NoneComes DEF Coming
    <3>2. QED
      BY <3>1 DEF Arriving
  <2>4. NobodyDied' => NobodyDied
    BY <1>2, StillAlive
  <2>5. IsFiniteSet(Heads) /\ Cardinality(Heads) \in Nat /\ threads \in Nat
    BY <1>2, HeadsFinite
  <2>6. Heads' = Heads \ {at} /\ (at \in Heads <=> hdr[at].level = 0)
    <3>1. \A x : x \in Heads' <=> x \in Heads /\ x # at
      BY <1>2 DEF Heads
    <3>2. QED
      BY <3>1 DEF Heads
  <2>7. Cardinality(Heads \ {at}) =
           IF at \in Heads THEN Cardinality(Heads) - 1 ELSE Cardinality(Heads)
    BY <2>5, FS_RemoveElement
  <2>8. Cardinality(Heads)' = Cardinality(Heads \ {at})
    BY <2>6
  <2>9. NobodyDied => threads + Leaving = Cardinality(Heads) + Arriving
    BY DEF TallyInv, Tally
  <2>10. NobodyDied => threads + Leaving' = Cardinality(Heads)' + Arriving
    BY <2>2, <2>3, <2>5, <2>6, <2>7, <2>8, <2>9
  <2>11. QED
    BY <1>2, <2>3, <2>4, <2>10 DEF Tally
<1>7. Ranked(p)'
  BY <1>2, NotPosting DEF Posting
<1>8. QED
  BY <1>2, <1>4, <1>5, <1>6, <1>7, StillRanked DEF TallyInv

LEMMA FreeDoomedHeaderTally ==
    ASSUME OrderInv, TallyInv, KeepsOn, NEW p \in Procs, FreeDoomedHeader(p)
    PROVE  TallyInv'
<1>1. /\ loc[p].pc = "freeheader" /\ "freebody" \in Pc
      /\ FreeHeader(loc[p].at) /\ Goto(p, "freebody")
      /\ UNCHANGED <<hdr, vidx, order, threads>> /\ TypeOK /\ PlacesInv
  BY DEF FreeDoomedHeader, At, Pc, OrderInv, PlacesInv
<1>2. PICK at \in Nat : at = loc[p].at
  BY <1>1, MemoryFacts
<1>3. /\ loc'[p].pc = "freebody" /\ \A q \in Procs \ {p} : loc'[q] = loc[q]
  <2>1. /\ loc'[p] = [loc[p] EXCEPT !.pc = "freebody"]
        /\ \A q \in Procs \ {p} : loc'[q] = loc[q]
    BY <1>1, GotoMoves
  <2>2. QED
    BY <1>1, <2>1, MemoryFacts DEF Memory
<1>4. FreePlaces' = FreePlaces \cup {at}
  <2> DEFINE block == [index |-> at, size |-> 1]
  <2>1. Holds(p, at) /\ at \notin FreePlaces
    BY <1>1, <1>2, HoldsFacts DEF Holds
  <2>2. hfree \in Seq(Block) /\ NoneTwice(hfree)
    BY <1>1 DEF PlacesInv, PlacesOwned, PlacesNotShared, TypeOK
  <2>3. block \in Block /\ block.index = at /\ block.size = 1
    BY DEF Block
  <2>4. Span(block) = {at}
    <3>1. Span(block) = at..(at + 1 - 1)
      BY <2>3 DEF Span
    <3>2. at..(at + 1 - 1) = {at}
      OBVIOUS
    <3>3. QED
      BY <3>1, <3>2
  <2>5. MarkFreeSpace(hfree, hfree', block, 0)
    BY <1>1, <1>2 DEF FreeHeader
  <2> HIDE DEF block
  <2>6. Span(block) \cap Units(hfree) = {}
    BY <2>1, <2>4 DEF FreePlaces
  <2>7. Units(hfree') = Units(hfree) \cup Span(block)
    BY <2>2, <2>3, <2>5, <2>6, MarkFacts
  <2>8. QED
    BY <2>4, <2>7 DEF FreePlaces
<1>5. Shown' = Shown
  BY <1>1 DEF Shown
<1>6. NumbersStay'
  <2>1. \A q \in Procs : loc[q].pc \in {"read", "cut"} => loc'[q] = loc[q]
    BY <1>1, <1>3
  <2>2. QED
    BY <1>1, <1>5, <2>1 DEF TallyInv, NumbersStay, KeepsOn
<1>7. PlacesKept'
  <2> SUFFICES ASSUME KeepsAll', NEW x \in DOMAIN hdr
               PROVE  x \in Shown \/ x \in FreePlaces' \/ \E q \in Procs : Holds(q, x)'
    BY <1>1, <1>5 DEF PlacesKept
  <2>1. x \in Shown \/ x \in FreePlaces \/ \E q \in Procs : Holds(q, x)
    BY DEF TallyInv, PlacesKept, KeepsOn
  <2>2. Holds(p, x) => x = at
    BY <1>1, <1>2 DEF Holds, Placing
  <2>3. ASSUME NEW q \in Procs \ {p}, Holds(q, x) PROVE Holds(q, x)'
    BY <1>1, <1>3, <2>3, HoldsStill
  <2>4. QED
    BY <1>4, <2>1, <2>2, <2>3
<1>8. Tally'
  <2>1. Heads' = Heads
    BY <1>1, <1>5, HeadsStill
  <2>2. QED
    BY <1>1, <1>3, <2>1, TallyStill
<1>9. Ranked(p)'
  BY <1>3, NotPosting DEF Posting
<1>10. QED
  BY <1>3, <1>6, <1>7, <1>8, <1>9, StillRanked DEF TallyInv

\* Once a request has died nothing more is promised.
LEMMA DieTally ==
    ASSUME OrderInv, TallyInv, NEW p \in Procs, p \in Mortal, Die(p)
    PROVE  TallyInv'
<1>1. loc'[p].pc = "dead" /\ \A q \in Procs \ {p} : loc'[q] = loc[q]
  <2>1. loc' = [loc EXCEPT ![p] = Ended("dead")] /\ loc \in [Procs -> Memory]
    BY MemoryFacts DEF Die, OrderInv, PlacesInv
  <2>2. Ended("dead").pc = "dead"
    BY DEF Ended, Idle
  <2>3. QED
    BY <2>1, <2>2
<1>2. ~KeepsAll' /\ ~NobodyDied'
  BY <1>1 DEF KeepsAll, NobodyDied, At
<1>3. Ranked(p)'
  BY <1>1, NotPosting DEF Posting
<1>4. QED
  BY <1>1, <1>2, <1>3, StillRanked DEF TallyInv, NumbersStay, PlacesKept, Tally

LEMMA TallyInit ==
    ASSUME Init PROVE TallyInv
<1>1. PICK plan \in Plans :
         /\ hdr = plan.seed.hdr /\ hfree = plan.seed.hfree
         /\ vidx = plan.seed.vidx /\ threads = plan.seed.threads
         /\ order = plan.seed.order
         /\ loc = [p \in Procs |-> Idle("start", plan.asks[p])]
  BY DEF Init
<1>2. Settled(plan.seed)
  BY MsgStoreAssumption
<1>3. /\ Shown \cup FreePlaces = DOMAIN hdr
      /\ \A x \in Shown : vidx[hdr[x].vi] = x
  <2>1. /\ ToSet(plan.seed.order) \cup Units(plan.seed.hfree) = DOMAIN plan.seed.hdr
        /\ \A m \in ToSet(plan.seed.order) : plan.seed.vidx[plan.seed.hdr[m].vi] = m
    BY <1>2 DEF Settled
  <2>2. QED
    BY <1>1, <2>1 DEF Shown, FreePlaces
<1>4. threads = Cardinality(Heads)
  <2>1. plan.seed.threads = Cardinality({m \in ToSet(plan.seed.order) :
                                            plan.seed.hdr[m].level = 0})
    BY <1>2, Zenon DEF Settled
  <2>2. QED
    BY <1>1, <2>1, Zenon DEF Shown, Heads
<1>5. \A p \in Procs : loc[p].pc = "start" /\ loc[p].msg.level = 0
  BY <1>1 DEF Idle, NewHeader
<1>6. Leaving = 0 /\ Arriving = 0
  BY <1>5 DEF Leaving, Arriving, Going, Coming
<1>7. threads \in Nat /\ Cardinality(Heads) \in Nat
  BY PlacesInit, HeadsFinite DEF PlacesInv
<1>8. NumbersStay /\ PlacesKept
  BY <1>3 DEF NumbersStay, PlacesKept
<1>9. Tally
  BY <1>4, <1>6, <1>7 DEF Tally
<1>10. \A p \in Procs : Ranked(p)
  BY <1>5 DEF Ranked, Posting
<1>11. QED
  BY <1>8, <1>9, <1>10 DEF TallyInv

LEMMA TallyStutter ==
    ASSUME TallyInv, UNCHANGED vars PROVE TallyInv'
<1>1. UNCHANGED <<hdr, hfree, vidx, threads, order, alone, loc>>
  BY DEF vars, store
<1>2. Shown' = Shown /\ FreePlaces' = FreePlaces
  BY <1>1 DEF Shown, FreePlaces
<1>3. KeepsAll' => KeepsAll
  BY <1>1 DEF KeepsAll
<1>4. NumbersStay'
  BY <1>1, <1>2, <1>3 DEF TallyInv, NumbersStay
<1>5. PlacesKept'
  <2>1. ASSUME NEW q \in Procs, NEW x, Holds(q, x) PROVE Holds(q, x)'
    BY <1>1, <2>1 DEF Holds
  <2>2. QED
    BY <1>1, <1>2, <1>3, <2>1 DEF TallyInv, PlacesKept
<1>6. Tally'
  <2>1. Heads' = Heads
    BY <1>1, <1>2, HeadsStill
  <2>2. Leaving' = Leaving /\ Arriving' = Arriving
    BY <1>1 DEF Leaving, Arriving, Going, Coming
  <2>3. NobodyDied' => NobodyDied
    BY <1>1 DEF NobodyDied, At
  <2>4. QED
    BY <1>1, <2>1, <2>2, <2>3 DEF TallyInv, Tally
<1>7. \A p \in Procs : Ranked(p)'
  BY <1>1 DEF TallyInv, Ranked
<1>8. QED
  BY <1>4, <1>5, <1>6, <1>7 DEF TallyInv

LEMMA TallyServe ==
    ASSUME OrderInv, TallyInv, KeepsOn, NEW p \in Procs, Serve(p)
    PROVE  TallyInv'
<1>1. CASE Post(p)
  BY <1>1, FindParentTally, ReadParentTally, WriteBodyTally, TakeNumberTally,
     PutHeaderTally, CountThreadTally, ShowTally DEF Post
<1>2. CASE FindRoot(p) \/ SelectThread(p)
  BY <1>2, OtherTally
<1>3. CASE Delete(p)
  BY <1>3, OtherTally, DropNumberTally, ReadDoomedTally, CutTally,
     FreeDoomedHeaderTally DEF Delete
<1>4. CASE Edit(p)
  BY <1>4, OtherTally, WritebackTally DEF Edit
<1>5. CASE ChangeFlags(p)
  BY <1>5, OtherTally, WritebackTally DEF ChangeFlags
<1>6. QED
  BY <1>1, <1>2, <1>3, <1>4, <1>5 DEF Serve

LEMMA TallyNext ==
    ASSUME OrderInv, TallyInv, [Next]_vars PROVE TallyInv'
<1>1. CASE \E p \in Procs : Begin(p)
  <2>1. PICK p \in Procs : Begin(p)
    BY <1>1
  <2>2. KeepsOn
    BY <2>1, KeepsOnNext DEF Begin
  <2>3. QED
    BY <2>1, <2>2, BeginTally
<1>2. CASE \E p \in Procs : Serve(p)
  <2>1. PICK p \in Procs : Serve(p)
    BY <1>2
  <2>2. KeepsOn
    BY <2>1, KeepsOnNext DEF Serve
  <2>3. QED
    BY <2>1, <2>2, TallyServe
<1>3. CASE \E p \in Mortal : Die(p)
  BY <1>3, DieTally, MsgStoreAssumption
<1>4. CASE AllServed \/ UNCHANGED vars
  BY <1>4, TallyStutter DEF AllServed
<1>5. QED
  BY <1>1, <1>2, <1>3, <1>4 DEF Next

THEOREM TallyInvHolds == Orderly /\ Spec => [](OrderInv /\ BytesInv /\ TallyInv)
<1>1. Orderly /\ Init => OrderInv /\ BytesInv /\ TallyInv
  BY OrderInit, BytesInit, TallyInit
<1>2. OrderInv /\ BytesInv /\ TallyInv /\ [Next]_vars
         => OrderInv' /\ BytesInv' /\ TallyInv'
  BY OrderNext, BytesNext, TallyNext
<1>3. QED
  BY <1>1, <1>2, PTL DEF Spec

LEMMA QuietFacts ==
    ASSUME Quiet
    PROVE  /\ NobodyDied /\ Leaving = 0 /\ Arriving = 0 /\ Rewritten = {}
           /\ \A p \in Procs : /\ loc[p].pc \notin Placing \cup {"read", "cut"}
                               /\ Carried(p) = {} /\ \A x : ~Holds(p, x)
<1>1. \A p \in Procs : loc[p].pc \in {"start", "done"}
  BY DEF Quiet
<1>2. NobodyDied /\ Leaving = 0 /\ Arriving = 0 /\ Rewritten = {}
  BY <1>1 DEF NobodyDied, At, Leaving, Arriving, Going, Coming, Rewritten
<1>3. QED
  BY <1>1, <1>2 DEF Carried, InHand, Holds, Placing

\* The number of threads kept in the virtual index is right whenever no request
\* is at work: of orderly requests, one of which may delete or edit while the
\* others post, and each of which raises or lowers the number by itself
\* (DB_InsertMessage under fi, DB_DeleteMessage under no lock).
THEOREM ThreadsCounted == Orderly /\ Spec => []ThreadCount
<1>1. OrderInv /\ TallyInv => ThreadCount
  <2> SUFFICES ASSUME OrderInv, TallyInv, Quiet
               PROVE  threads = Cardinality({m \in Shown : hdr[m].level = 0})
    BY DEF ThreadCount
  <2>1. threads \in Nat /\ Cardinality(Heads) \in Nat
    BY HeadsFinite DEF OrderInv, PlacesInv
  <2>2. threads = Cardinality(Heads)
    BY <2>1, QuietFacts DEF TallyInv, Tally
  <2>3. QED
    BY <2>2 DEF Heads
<1>2. QED
  BY <1>1, TallyInvHolds, PTL

\* Where no request is killed, and none deletes while others are at work or
\* replies to what it cannot know yet, index and numbers agree whenever no
\* request is at work.
THEOREM AgreesBetweenRequests ==
    Orderly /\ Mortal = {} /\ Keeping /\ Spec => []IndexAgrees
<1> SUFFICES ASSUME Mortal = {}, Keeping PROVE Orderly /\ Spec => []IndexAgrees
  OBVIOUS
<1>1. KeepsAll
  BY DEF KeepsAll
<1>2. ASSUME OrderInv, TallyInv, KeepsAll, Quiet
      PROVE  {vidx[n] : n \in Live} = Shown
  <2>1. TypeOK /\ PlacesInv
    BY <1>2 DEF OrderInv, PlacesInv
  <2>2. ASSUME NEW n \in Live PROVE vidx[n] \in Shown
    BY <1>2, QuietFacts DEF OrderInv, Tidy
  <2>3. ASSUME NEW x \in Shown PROVE \E n \in Live : vidx[n] = x
    <3>1. x \in DOMAIN hdr /\ x # Gone
      BY <2>1, ShownFacts DEF Gone
    <3>2. hdr[x].vi \in DOMAIN vidx
      BY <2>1, <3>1 DEF PlacesInv, NumbersKnown
    <3>3. vidx[hdr[x].vi] = x
      BY <1>2, QuietFacts DEF TallyInv, NumbersStay
    <3>4. QED
      BY <3>1, <3>2, <3>3 DEF Live
  <2>4. \A x : x \in {vidx[n] : n \in Live} <=> x \in Shown
    BY <2>2, <2>3
  <2>5. QED
    BY <2>4
<1>3. OrderInv /\ TallyInv => IndexAgrees
  BY <1>1, <1>2 DEF IndexAgrees
<1>4. QED
  BY <1>3, TallyInvHolds, PTL

\* ... and nothing has leaked: each place of the header file is shown or free,
\* each byte of the body file is a shown message's or free.
THEOREM NothingGetsLost ==
    Orderly /\ Mortal = {} /\ Keeping /\ Spec => []NothingLeaks
<1> SUFFICES ASSUME Mortal = {}, Keeping PROVE Orderly /\ Spec => []NothingLeaks
  OBVIOUS
<1>1. KeepsAll
  BY DEF KeepsAll
<1>2. ASSUME OrderInv, BytesInv, TallyInv, KeepsAll, Quiet
      PROVE  /\ DOMAIN hdr = Shown \cup FreePlaces
             /\ Extent = FreeBytes \cup UNION {Bytes(hdr[m]) : m \in Shown}
  <2>1. TypeOK /\ PlacesInv /\ Shown \subseteq DOMAIN hdr /\ Shown \subseteq Nat
    BY <1>2, ShownFacts DEF OrderInv, PlacesInv
  <2>2. \A x \in DOMAIN hdr : x \in Shown \/ x \in FreePlaces
    BY <1>2, QuietFacts DEF TallyInv, PlacesKept
  <2>3. DOMAIN hdr = Shown \cup FreePlaces
    BY <2>1, <2>2 DEF PlacesInv, PlacesOwned
  <2>4. \A x \in Nat : /\ <<"shown", x>> \in Owners
                       /\ Has[<<"shown", x>>] = IF x \in Shown THEN Bytes(hdr[x]) ELSE {}
    <3>1. \A x : Stored(x) = IF x \in Shown THEN Bytes(hdr[x]) ELSE {}
      BY <1>2, QuietFacts DEF Stored
    <3>2. \A x \in Nat : <<"shown", x>> \in Owners /\ Has[<<"shown", x>>] = Stored(x)
      BY HasFacts, OwnersFacts, Zenon
    <3>3. QED
      BY <3>1, <3>2, Zenon
  <2>5. \A p \in Procs : Has[<<"hand", p>>] = {}
    <3>1. \A p \in Procs : Carried(p) = {}
      BY <1>2, QuietFacts
    <3>2. \A p \in Procs : Has[<<"hand", p>>] = Carried(p)
      BY HasFacts, Zenon
    <3>3. QED
      BY <3>1, <3>2, Zenon
  <2>6. ASSUME NEW b \in Extent, b \notin FreeBytes
        PROVE  \E m \in Shown : b \in Bytes(hdr[m])
    <3>1. PICK o \in Owners : b \in Has[o]
      BY <1>2, <2>6 DEF BytesInv, BytesKept, Whole
    <3>2. PICK x \in Nat : o = <<"shown", x>>
      BY <2>5, <3>1, OwnersFacts
    <3>3. QED
      BY <2>4, <3>1, <3>2
  <2>7. ASSUME NEW m \in Shown, NEW b \in Bytes(hdr[m]) PROVE b \in Extent
    BY <1>2, <2>1, <2>4 DEF BytesInv, BytesOwned, Owned
  <2>8. FreeBytes \subseteq Extent
    BY <1>2 DEF BytesInv, BytesOwned, Owned
  <2>9. \A b : b \in Extent <=> b \in FreeBytes \cup UNION {Bytes(hdr[m]) : m \in Shown}
    BY <2>6, <2>7, <2>8
  <2>10. Extent = FreeBytes \cup UNION {Bytes(hdr[m]) : m \in Shown}
    BY <2>9
  <2>11. QED
    BY <2>3, <2>10
<1>3. OrderInv /\ BytesInv /\ TallyInv => NothingLeaks
  BY <1>1, <1>2 DEF NothingLeaks, Extent
<1>4. QED
  BY <1>3, TallyInvHolds, PTL
-----------------------------------------------------------------------------
\* Nobody closes a message while another request edits: an edit writes back the
\* flags that it read before it waited for the file.
Spared ==
    \A plan \in Plans : ~plan.alone =>
        \A p, q \in Procs : ~(plan.asks[p].op = "edit" /\ plan.asks[q].op = "close")

\* What an edit has in hand is closed if the header in the file is; what a
\* reader, or who opens it, has in hand is closed only if that in the file is.
FlagsKept(p) ==
    LET m == loc[p]
    IN  /\ m.pc = "store" /\ m.rq.op = "view" => m.msg.flags = hdr[m.at].flags
        /\ m.pc = "store" /\ m.rq.op = "open" => "closed" \notin m.msg.flags
        /\ m.pc \in {"resize", "realloc", "rewrite"} /\ "closed" \in hdr[m.at].flags
              => "closed" \in m.msg.flags

ClosedInv ==
    /\ ~alone => \A p, q \in Procs : ~(loc[p].rq.op = "edit" /\ loc[q].rq.op = "close")
    /\ \A p \in Procs : FlagsKept(p)

\* A step of p: it goes on with what it was asked for, or ends.
Proceeds(p) ==
    /\ \A q \in Procs \ {p} : loc'[q] = loc[q]
    /\ loc'[p].rq = loc[p].rq \/ loc'[p].rq.op = "view"

LEMMA ExitProceeds ==
    ASSUME TypeOK, NEW p \in Procs, Exit(p)
    PROVE  Proceeds(p) /\ loc'[p].pc = "done"
<1>1. loc \in [Procs -> Memory] /\ loc' = [loc EXCEPT ![p] = Ended("done")]
  BY MemoryFacts DEF Exit
<1>2. loc'[p] = Ended("done") /\ \A q \in Procs \ {p} : loc'[q] = loc[q]
  BY <1>1
<1>3. Ended("done").pc = "done" /\ Ended("done").rq.op = "view"
  BY DEF Ended, Idle
<1>4. QED
  BY <1>2, <1>3 DEF Proceeds

LEMMA AdvanceProceeds ==
    ASSUME TypeOK, NEW p \in Procs, NEW code, Advance(p, code)
    PROVE  Proceeds(p) /\ loc'[p].pc \notin Copying
<1>1. CASE Len(loc[p].todo) = 1
  BY <1>1, ExitProceeds DEF Advance, Copying
<1>2. CASE Len(loc[p].todo) # 1
  <2>1. /\ loc \in [Procs -> Memory]
        /\ loc' = [loc EXCEPT ![p].todo = Tail(@), ![p].code = code,
                     ![p].pc = IF loc[p].rq.op = "delete" THEN "delete" ELSE "flags"]
    BY <1>2, MemoryFacts DEF Advance
  <2>2. QED
    BY <2>1 DEF Memory, Proceeds, Copying
<1>3. QED
  BY <1>1, <1>2

LEMMA GotoProceeds ==
    ASSUME TypeOK, NEW p \in Procs, NEW pc \in Pc, Goto(p, pc)
    PROVE  Proceeds(p) /\ loc'[p].pc = pc
<1>1. /\ loc'[p] = [loc[p] EXCEPT !.pc = pc]
      /\ \A q \in Procs \ {p} : loc'[q] = loc[q]
  BY GotoMoves
<1>2. loc[p] \in Memory
  BY MemoryFacts
<1>3. QED
  BY <1>1, <1>2 DEF Memory, Proceeds

LEMMA BodyProceeds ==
    ASSUME TypeOK, NEW p \in Procs, NEW at, NEW pc,
           loc' = [loc EXCEPT ![p].msg.body = at, ![p].msg.size = loc[p].rq.size, ![p].pc = pc]
    PROVE  /\ Proceeds(p) /\ loc'[p].pc = pc
           /\ loc'[p].at = loc[p].at /\ loc'[p].msg.flags = loc[p].msg.flags
<1>1. loc \in [Procs -> Memory] /\ loc[p] \in Memory /\ loc[p].msg \in Header
  BY MemoryFacts
<1> DEFINE size == loc[p].rq.size
           msg == [loc[p].msg EXCEPT !.body = at, !.size = size]
<1>2. msg.flags = loc[p].msg.flags
  BY <1>1 DEF Header
<1> HIDE DEF size
<1>3. /\ loc'[p] = [loc[p] EXCEPT !.msg = msg, !.pc = pc]
      /\ \A q \in Procs \ {p} : loc'[q] = loc[q]
  BY <1>1 DEF Memory, Header, size
<1> HIDE DEF msg
<1>4. /\ loc'[p].msg = msg /\ loc'[p].pc = pc /\ loc'[p].at = loc[p].at
      /\ loc'[p].rq = loc[p].rq
  BY <1>1, <1>3 DEF Memory
<1>5. QED
  BY <1>2, <1>3, <1>4 DEF Proceeds

LEMMA WriteBodyProceeds ==
    ASSUME TypeOK, NEW p \in Procs, WriteBody(p)
    PROVE  Proceeds(p) /\ loc'[p].pc = "number" /\ hdr' = hdr
<1>1. PICK at \in 0..(bodyEnd + Pad) :
         /\ BodySpace(at, loc[p].rq.size)
         /\ loc' = [loc EXCEPT ![p].msg.body = at, ![p].msg.size = loc[p].rq.size,
                               ![p].pc = "number"]
  BY Zenon DEF WriteBody
<1>2. hdr' = hdr
  BY Zenon DEF WriteBody
<1>3. /\ Proceeds(p) /\ loc'[p].pc = "number"
      /\ loc'[p].at = loc[p].at /\ loc'[p].msg.flags = loc[p].msg.flags
  BY <1>1, BodyProceeds, Zenon
<1>4. QED
  BY <1>2, <1>3, Zenon

LEMMA MoveBodyProceeds ==
    ASSUME TypeOK, NEW p \in Procs, MoveBody(p)
    PROVE  /\ Proceeds(p) /\ hdr' = hdr
           /\ loc[p].pc = "realloc" /\ loc'[p].pc = "rewrite"
           /\ loc'[p].at = loc[p].at /\ loc'[p].msg.flags = loc[p].msg.flags
<1>1. PICK at \in 0..(bodyEnd + Pad) :
         /\ BodySpace(at, loc[p].rq.size)
         /\ loc' = [loc EXCEPT ![p].msg.body = at, ![p].msg.size = loc[p].rq.size,
                               ![p].pc = "rewrite"]
  BY Zenon DEF MoveBody
<1>2. hdr' = hdr /\ loc[p].pc = "realloc"
  BY Zenon DEF MoveBody, At
<1>3. /\ Proceeds(p) /\ loc'[p].pc = "rewrite"
      /\ loc'[p].at = loc[p].at /\ loc'[p].msg.flags = loc[p].msg.flags
  BY <1>1, BodyProceeds, Zenon
<1>4. QED
  BY <1>2, <1>3, Zenon

LEMMA ResizeProceeds ==
    ASSUME TypeOK, NEW p \in Procs, ResizeBody(p)
    PROVE  /\ Proceeds(p) /\ hdr' = hdr
           /\ loc[p].pc = "resize" /\ loc'[p].pc \in {"realloc", "rewrite"}
           /\ loc'[p].at = loc[p].at /\ loc'[p].msg.flags = loc[p].msg.flags
<1> DEFINE size == loc[p].rq.size
           msg == [loc[p].msg EXCEPT !.size = size]
<1>1. /\ hdr' = hdr /\ loc[p].pc = "resize"
      /\ \/ \E pc \in {"realloc", "rewrite"} : Goto(p, pc)
         \/ loc' = [loc EXCEPT ![p].msg.size = size, ![p].pc = "rewrite"]
  BY DEF ResizeBody, At
<1>2. loc \in [Procs -> Memory] /\ loc[p] \in Memory /\ loc[p].msg \in Header
  BY MemoryFacts
<1>3. ASSUME NEW pc \in {"realloc", "rewrite"}, Goto(p, pc)
      PROVE  /\ Proceeds(p) /\ loc'[p].pc = pc
             /\ loc'[p].at = loc[p].at /\ loc'[p].msg = loc[p].msg
  <2>1. pc \in Pc
    BY DEF Pc
  <2>2. loc'[p] = [loc[p] EXCEPT !.pc = pc]
    BY <1>3, <2>1, GotoMoves
  <2>3. QED
    BY <1>2, <1>3, <2>1, <2>2, GotoProceeds DEF Memory
<1>4. ASSUME loc' = [loc EXCEPT ![p].msg.size = size, ![p].pc = "rewrite"]
      PROVE  /\ Proceeds(p) /\ loc'[p].pc = "rewrite"
             /\ loc'[p].at = loc[p].at /\ loc'[p].msg = msg
  <2> HIDE DEF size
  <2>1. /\ loc'[p] = [loc[p] EXCEPT !.msg = msg, !.pc = "rewrite"]
        /\ \A q \in Procs \ {p} : loc'[q] = loc[q]
    BY <1>2, <1>4 DEF Memory, Header
  <2> HIDE DEF msg
  <2>2. QED
    BY <1>2, <2>1 DEF Memory, Proceeds
<1>5. msg.flags = loc[p].msg.flags
  BY <1>2 DEF Header
<1> HIDE DEF msg, size
<1>6. QED
  BY <1>1, <1>3, <1>4, <1>5

\* Requests that post leave the flags of others alone, and have none to keep.
LEMMA PostProceeds ==
    ASSUME TypeOK, NEW p \in Procs,
           \/ FindParent(p) \/ ReadParent(p) \/ WriteBody(p) \/ TakeNumber(p)
           \/ IndexReply(p) \/ CountThread(p) \/ IndexThread(p)
    PROVE  Proceeds(p) /\ loc'[p].pc \notin Copying /\ hdr' = hdr
<1> DEFINE Moved == Proceeds(p) /\ loc'[p].pc \notin Copying
<1>1. loc \in [Procs -> Memory] /\ loc[p] \in Memory
  BY MemoryFacts
<1>2. Exit(p) => Moved
  BY ExitProceeds DEF Copying
<1>3. CASE FindParent(p)
  <2>1. Exit(p) \/ \E at : loc' = [loc EXCEPT ![p].at = at, ![p].pc = "inherit"]
    BY <1>3 DEF FindParent
  <2>2. ASSUME NEW at, loc' = [loc EXCEPT ![p].at = at, ![p].pc = "inherit"] PROVE Moved
    BY <1>1, <2>2 DEF Memory, Proceeds, Copying
  <2>3. QED
    BY <1>2, <1>3, <2>1, <2>2 DEF FindParent, store
<1>4. CASE ReadParent(p)
  <2> DEFINE level == hdr[loc[p].at].level + 1
             thread == HeadOf(hdr[loc[p].at], loc[p].at)
             flags == hdr[loc[p].at].flags
  <2>1. \/ Exit(p)
        \/ loc' = [loc EXCEPT ![p].msg.level = level, ![p].msg.thread = thread,
                              ![p].msg.flags = flags, ![p].pc = "body"]
    BY <1>4, Zenon DEF ReadParent
  <2>2. hdr' = hdr
    BY <1>4, ParentCalm DEF store
  <2> HIDE DEF level, thread, flags
  <2>3. loc' = [loc EXCEPT ![p].msg.level = level, ![p].msg.thread = thread,
                           ![p].msg.flags = flags, ![p].pc = "body"] => Moved
    BY <1>1 DEF Memory, Proceeds, Copying
  <2>4. QED
    BY <1>2, <2>1, <2>2, <2>3
<1>5. CASE WriteBody(p)
  BY <1>5, WriteBodyProceeds DEF Copying
<1>6. CASE TakeNumber(p)
  <2> DEFINE n == Len(vidx) + 1
  <2>1. loc' = [loc EXCEPT ![p].msg.vi = n, ![p].pc = "header"]
    BY <1>6 DEF TakeNumber
  <2> HIDE DEF n
  <2>2. Moved
    BY <1>1, <2>1 DEF Memory, Proceeds, Copying
  <2>3. QED
    BY <1>6, <2>2 DEF TakeNumber
<1>7. CASE IndexReply(p) \/ IndexThread(p)
  BY <1>2, <1>7 DEF IndexReply, IndexThread
<1>8. CASE CountThread(p)
  <2>1. Goto(p, "append") /\ "append" \in Pc /\ hdr' = hdr
    BY <1>8 DEF CountThread, Pc
  <2>2. QED
    BY <2>1, GotoProceeds DEF Copying
<1>9. QED
  BY <1>3, <1>4, <1>5, <1>6, <1>7, <1>8

\* So do requests that look a thread up or delete one, and those that look up
\* what they are to change.
LEMMA OtherProceeds ==
    ASSUME TypeOK, NEW p \in Procs,
           \/ FindRoot(p) \/ SelectThread(p)
           \/ FindDoomed(p) \/ DropNumber(p) \/ ReadDoomed(p) \/ CutMessage(p)
           \/ FreeDoomedHeader(p) \/ FreeDoomedBody(p)
           \/ FindEdited(p) \/ FindFlagged(p) \/ OnlyRead(p)
    PROVE  Proceeds(p) /\ loc'[p].pc \notin Copying /\ hdr' = hdr
<1> DEFINE Moved == Proceeds(p) /\ loc'[p].pc \notin Copying
<1>1. loc \in [Procs -> Memory] /\ loc[p] \in Memory
  BY MemoryFacts
<1>2. Exit(p) => Moved
  BY ExitProceeds DEF Copying
<1>3. (\E code : Advance(p, code)) => Moved
  BY AdvanceProceeds
<1>4. ASSUME NEW pc \in Pc, Goto(p, pc), pc \notin Copying PROVE Moved
  BY <1>4, GotoProceeds
<1>5. ASSUME NEW at, NEW pc, loc' = [loc EXCEPT ![p].at = at, ![p].pc = pc],
             pc \notin Copying
      PROVE  Moved
  BY <1>1, <1>5 DEF Memory, Proceeds
<1>6. CASE FindRoot(p)
  <2>1. Exit(p) \/ \E at : loc' = [loc EXCEPT ![p].at = at, ![p].pc = "walk"]
    BY <1>6 DEF FindRoot
  <2>2. QED
    BY <1>2, <1>5, <1>6, <2>1 DEF FindRoot, store, Copying
<1>7. CASE SelectThread(p)
  <2>1. \/ Exit(p)
        \/ \E todo :
              loc' = [loc EXCEPT ![p].todo = todo,
                        ![p].pc = IF loc[p].rq.op = "delete" THEN "delete" ELSE "flags"]
    BY <1>7, Zenon DEF SelectThread
  <2>2. ASSUME NEW todo, NEW pc, pc \in {"delete", "flags"},
               loc' = [loc EXCEPT ![p].todo = todo, ![p].pc = pc]
        PROVE  Moved
    BY <1>1, <2>2 DEF Memory, Proceeds, Copying
  <2>3. Moved
    BY <1>2, <2>1, <2>2
  <2>4. UNCHANGED store
    BY <1>7, Zenon DEF SelectThread
  <2>5. QED
    BY <2>3, <2>4 DEF store
<1>8. CASE FindDoomed(p)
  <2>1. Advance(p, 0) \/ \E at : loc' = [loc EXCEPT ![p].at = at, ![p].pc = "unindex"]
    BY <1>8 DEF FindDoomed
  <2>2. QED
    BY <1>3, <1>5, <1>8, <2>1 DEF FindDoomed, store, Copying
<1>9. CASE DropNumber(p)
  <2>1. Goto(p, "read") /\ "read" \in Pc /\ "read" \notin Copying /\ hdr' = hdr
    BY <1>9 DEF DropNumber, Pc, Copying
  <2>2. QED
    BY <1>4, <2>1
<1>10. CASE ReadDoomed(p)
  <2>1. Exit(p) \/ \E h : loc' = [loc EXCEPT ![p].msg = h, ![p].pc = "cut"]
    BY <1>10 DEF ReadDoomed
  <2>2. ASSUME NEW h, loc' = [loc EXCEPT ![p].msg = h, ![p].pc = "cut"] PROVE Moved
    BY <1>1, <2>2 DEF Memory, Proceeds, Copying
  <2>3. QED
    BY <1>2, <1>10, <2>1, <2>2 DEF ReadDoomed
<1>11. CASE CutMessage(p)
  <2>1. Exit(p) \/ Goto(p, "freeheader")
    BY <1>11 DEF CutMessage
  <2>2. "freeheader" \in Pc /\ "freeheader" \notin Copying
    BY DEF Pc, Copying
  <2>3. QED
    BY <1>2, <1>4, <1>11, <2>1, <2>2 DEF CutMessage
<1>12. CASE FreeDoomedHeader(p)
  <2>1. Goto(p, "freebody") /\ "freebody" \in Pc /\ "freebody" \notin Copying /\ hdr' = hdr
    BY <1>12 DEF FreeDoomedHeader, Pc, Copying
  <2>2. QED
    BY <1>4, <2>1
<1>13. CASE FreeDoomedBody(p)
  BY <1>3, <1>13 DEF FreeDoomedBody
<1>14. CASE FindEdited(p)
  <2>1. Exit(p) \/ \E at : loc' = [loc EXCEPT ![p].at = at, ![p].pc = "check"]
    BY <1>14 DEF FindEdited
  <2>2. QED
    BY <1>2, <1>5, <1>14, <2>1 DEF FindEdited, store, Copying
<1>15. CASE FindFlagged(p)
  <2>1. \/ Exit(p) \/ Advance(p, 0)
        \/ \E at : loc' = [loc EXCEPT ![p].at = at, ![p].pc = "update"]
    BY <1>15 DEF FindFlagged
  <2>2. QED
    BY <1>2, <1>3, <1>5, <1>15, <2>1 DEF FindFlagged, store, Copying
<1>16. CASE OnlyRead(p)
  BY <1>2, <1>16 DEF OnlyRead, store
<1>17. QED
  BY <1>6, <1>7, <1>8, <1>9, <1>10, <1>11, <1>12, <1>13, <1>14, <1>15, <1>16

\* Nobody is disturbed where no header changes.
LEMMA ClosedCalm ==
    ASSUME ClosedInv, NEW p \in Procs, Proceeds(p), FlagsKept(p)',
           UNCHANGED <<hdr, alone>>
    PROVE  ClosedInv'
<1>1. \A q \in Procs \ {p} : FlagsKept(q)'
  BY DEF ClosedInv, FlagsKept, Proceeds
<1>2. ~alone => \A r, q \in Procs : ~(loc'[r].rq.op = "edit" /\ loc'[q].rq.op = "close")
  BY DEF ClosedInv, Proceeds
<1>3. QED
  BY <1>1, <1>2 DEF ClosedInv

LEMMA CalmKept ==
    ASSUME ClosedInv, NEW p \in Procs, Proceeds(p), loc'[p].pc \notin Copying,
           UNCHANGED <<hdr, alone>>
    PROVE  ClosedInv'
<1>1. FlagsKept(p)'
  BY DEF FlagsKept, Copying
<1>2. QED
  BY <1>1, ClosedCalm

\* Headers come into hand with their flags ...
LEMMA ReadEditedClosed ==
    ASSUME TypeOK, ClosedInv, NEW p \in Procs, ReadEdited(p), UNCHANGED alone
    PROVE  ClosedInv'
<1>1. loc \in [Procs -> Memory] /\ loc[p] \in Memory /\ hdr' = hdr
  BY MemoryFacts DEF ReadEdited, store
<1>2. CASE Exit(p)
  BY <1>1, <1>2, ExitProceeds, CalmKept DEF Copying
<1>3. CASE ~Exit(p)
  <2> DEFINE h == hdr[loc[p].at]
  <2>1. loc' = [loc EXCEPT ![p].msg = h, ![p].pc = "resize"]
    BY <1>3 DEF ReadEdited
  <2> HIDE DEF h
  <2>2. /\ loc'[p].msg = h /\ loc'[p].pc = "resize" /\ loc'[p].at = loc[p].at
        /\ Proceeds(p)
    BY <1>1, <2>1 DEF Memory, Proceeds
  <2>3. FlagsKept(p)'
    BY <1>1, <2>2 DEF FlagsKept, h
  <2>4. QED
    BY <1>1, <2>2, <2>3, ClosedCalm
<1>4. QED
  BY <1>2, <1>3

LEMMA EditGoesOn ==
    ASSUME TypeOK, ClosedInv, NEW p \in Procs, ResizeBody(p) \/ MoveBody(p), UNCHANGED alone
    PROVE  ClosedInv'
<1>1. /\ Proceeds(p) /\ hdr' = hdr
      /\ loc[p].pc \in {"resize", "realloc"} /\ loc'[p].pc \in {"realloc", "rewrite"}
      /\ loc'[p].at = loc[p].at /\ loc'[p].msg.flags = loc[p].msg.flags
  <2>1. CASE ResizeBody(p)
    BY <2>1, ResizeProceeds
  <2>2. CASE MoveBody(p)
    BY <2>2, MoveBodyProceeds
  <2>3. QED
    BY <2>1, <2>2
<1>2. FlagsKept(p)'
  BY <1>1 DEF ClosedInv, FlagsKept
<1>3. QED
  BY <1>1, <1>2, ClosedCalm

LEMMA ReadFlaggedClosed ==
    ASSUME TypeOK, ClosedInv, NEW p \in Procs, ReadFlagged(p), UNCHANGED alone
    PROVE  ClosedInv'
<1> DEFINE at == loc[p].at
           op == loc[p].rq.op
           flags == NewFlags(hdr[at].flags, op, loc[p].code)
<1>1. loc \in [Procs -> Memory] /\ loc[p] \in Memory /\ hdr' = hdr
  BY MemoryFacts DEF ReadFlagged, store
<1>2. CASE Exit(p) \/ \E code : Advance(p, code)
  BY <1>1, <1>2, ExitProceeds, AdvanceProceeds, CalmKept DEF Copying
<1>3. CASE ~(Exit(p) \/ \E code : Advance(p, code))
  <2>1. /\ at \in DOMAIN hdr
        /\ loc' = [loc EXCEPT ![p].msg = [hdr[at] EXCEPT !.flags = flags], ![p].pc = "store"]
    BY <1>3, Zenon DEF ReadFlagged
  <2>2. /\ op = "view" => flags = hdr[at].flags
        /\ op = "open" => "closed" \notin flags
    BY DEF NewFlags, Single, Reading
  <2>3. hdr[at] \in Header
    BY <2>1 DEF TypeOK
  <2> DEFINE h == [hdr[at] EXCEPT !.flags = flags]
  <2>4. h.flags = flags
    BY <2>3 DEF Header
  <2> HIDE DEF h, flags
  <2>5. /\ loc'[p].msg = h /\ loc'[p].pc = "store" /\ loc'[p].at = at
        /\ loc'[p].rq = loc[p].rq /\ Proceeds(p)
    BY <1>1, <2>1 DEF Memory, Proceeds, h
  <2>6. FlagsKept(p)'
    BY <1>1, <2>2, <2>4, <2>5 DEF FlagsKept
  <2>7. QED
    BY <1>1, <2>5, <2>6, ClosedCalm
<1>4. QED
  BY <1>2, <1>3

\* ... and whoever writes one back closes no message that another has in hand.
LEMMA WritebackClosed ==
    ASSUME OrderInv, ClosedInv, NEW p \in Procs, PutHeader(p) \/ RewriteHeader(p) \/ StoreFlagged(p),
           UNCHANGED alone
    PROVE  ClosedInv'
<1> DEFINE at == IF loc[p].pc = "header" THEN PlaceOf(p) ELSE loc[p].at
<1>1. /\ TypeOK /\ PlacesInv /\ loc[p].pc \in {"header", "rewrite", "store"}
      /\ WriteHeader(at, loc[p].msg)
  BY DEF OrderInv, PlacesInv, PutHeader, RewriteHeader, StoreFlagged, At, PlaceOf
<1>2. Proceeds(p) /\ loc'[p].pc \notin Copying
  <2>1. CASE PutHeader(p)
    <3>1. Goto(p, "index") /\ "index" \in Pc
      BY <2>1 DEF PutHeader, Pc
    <3>2. QED
      BY <1>1, <3>1, GotoProceeds DEF Copying
  <2>2. CASE RewriteHeader(p)
    BY <1>1, <2>2, ExitProceeds DEF RewriteHeader, Copying
  <2>3. CASE StoreFlagged(p)
    BY <1>1, <2>3, AdvanceProceeds DEF StoreFlagged
  <2>4. QED
    BY <2>1, <2>2, <2>3
<1>3. at \in 1..(Len(hdr) + 1) /\ \A x \in DOMAIN hdr \ {at} : hdr'[x] = hdr[x]
  <2>1. CASE loc[p].pc = "header"
    <3>1. loc[p].pc \in Placing
      BY <2>1 DEF Placing
    <3>2. /\ loc[p].msg.vi \in DOMAIN vidx
          /\ Holds(p, PlaceOf(p)) /\ PlaceOf(p) \in 1..(Len(hdr) + 1)
      BY <1>1, <3>1, HoldsFacts DEF PlaceOf
    <3>3. at = PlaceOf(p) /\ WriteHeader(PlaceOf(p), loc[p].msg)
      BY <1>1, <2>1
    <3>4. \A x \in DOMAIN hdr \ {at} : hdr'[x] = hdr[x]
      BY <1>1, <3>2, <3>3, WrittenFacts DEF PlaceOf
    <3>5. QED
      BY <3>2, <3>3, <3>4
  <2>2. CASE loc[p].pc # "header"
    <3>1. loc[p].pc \in Copying /\ at = loc[p].at /\ hdr \in Seq(Header)
      BY <1>1, <2>2 DEF Copying, TypeOK
    <3>2. at \in DOMAIN hdr
      BY <1>1, <3>1, BackFacts
    <3>3. hdr' = [hdr EXCEPT ![at] = loc[p].msg]
      BY <1>1, <3>2 DEF WriteHeader
    <3>4. QED
      BY <3>1, <3>2, <3>3
  <2>3. QED
    BY <2>1, <2>2
<1>4. at \in DOMAIN hdr => hdr'[at] = loc[p].msg
  <2>1. ASSUME at \in DOMAIN hdr PROVE hdr'[at] = loc[p].msg
    BY <1>1, <2>1 DEF WriteHeader, TypeOK
  <2>2. QED
    BY <2>1
<1> HIDE DEF at
<1>5. ASSUME NEW q \in Procs \ {p} PROVE FlagsKept(q)'
  <2>1. loc'[q] = loc[q] /\ loc[q].pc \notin {"realloc", "rewrite", "store"}
    BY <1>1, <1>2, OneWriter DEF Proceeds
  <2>2. SUFFICES ASSUME loc[q].pc = "resize", "closed" \in hdr'[loc[q].at].flags
                 PROVE  "closed" \in loc[q].msg.flags
    BY <2>1 DEF FlagsKept
  <2>3. loc[q].at \in Shown /\ loc[q].at \in DOMAIN hdr
    <3>1. loc[q].at \in Shown
      BY <2>2 DEF OrderInv, Own, Edits, Editing
    <3>2. QED
      BY <1>1, <3>1, ShownFacts
  <2>4. "closed" \in hdr[loc[q].at].flags => "closed" \in loc[q].msg.flags
    BY <2>2 DEF ClosedInv, FlagsKept
  <2>5. ~alone /\ loc[q].rq.op = "edit"
    <3>1. loc[p].pc \notin Resting /\ loc[q].pc \notin Resting
      BY <1>1, <2>2 DEF Resting, Over
    <3>2. loc[q].rq.op = "edit"
      BY <2>2 DEF OrderInv, Own, Role, Editing
    <3>3. QED
      BY <3>1, <3>2 DEF OrderInv, Apart
  <2>6. CASE loc[q].at # at
    BY <1>3, <2>2, <2>3, <2>4, <2>6
  <2>7. CASE loc[q].at = at
    <3>1. at \in DOMAIN hdr /\ hdr'[at] = loc[p].msg
      BY <1>4, <2>3, <2>7
    <3>2. loc[p].pc # "header"
      <4>1. loc[p].pc = "header" => at \notin Shown
        BY <1>1, HoldsFacts DEF Placing, PlaceOf, at
      <4>2. QED
        BY <2>3, <2>7, <4>1
    <3>3. loc[p].pc # "rewrite"
      <4>1. loc[p].pc = "rewrite" => loc[p].rq.op = "edit"
        BY DEF OrderInv, Own, Role, Editing
      <4>2. QED
        BY <2>5, <4>1 DEF OrderInv, Apart, Disturbs
    <3>4. loc[p].pc = "store" /\ at = loc[p].at
      BY <1>1, <3>2, <3>3 DEF at
    <3>5. loc[p].rq.op \in {"open", "view"}
      <4>1. loc[p].rq.op \in ReadModifyWrite /\ loc[p].rq.op \in Usual
        BY <2>5, <3>4 DEF OrderInv, PlacesInv, Own, Role, Fits, Flagging
      <4>2. loc[p].rq.op # "close"
        BY <2>5 DEF ClosedInv
      <4>3. QED
        BY <4>1, <4>2 DEF Usual, ReadModifyWrite, Single, Reading
    <3>6. "closed" \in loc[p].msg.flags => "closed" \in hdr[at].flags
      BY <3>4, <3>5 DEF ClosedInv, FlagsKept
    <3>7. QED
      BY <2>2, <2>4, <2>7, <3>1, <3>6
  <2>8. QED
    BY <2>6, <2>7
<1>6. FlagsKept(p)'
  BY <1>2 DEF FlagsKept, Copying
<1>7. ~alone => \A r, q \in Procs : ~(loc'[r].rq.op = "edit" /\ loc'[q].rq.op = "close")
  BY <1>2 DEF ClosedInv, Proceeds
<1>8. QED
  BY <1>5, <1>6, <1>7 DEF ClosedInv

LEMMA ClosedServe ==
    ASSUME OrderInv, ClosedInv, NEW p \in Procs, Serve(p)
    PROVE  ClosedInv'
<1>1. TypeOK /\ UNCHANGED alone
  BY DEF OrderInv, PlacesInv, Serve
<1>2. CASE Post(p)
  BY <1>1, <1>2, PostProceeds, CalmKept, WritebackClosed DEF Post
<1>3. CASE FindRoot(p) \/ SelectThread(p) \/ Delete(p)
  BY <1>1, <1>3, OtherProceeds, CalmKept DEF Delete
<1>4. CASE Edit(p)
  BY <1>1, <1>4, OtherProceeds, CalmKept, ReadEditedClosed, EditGoesOn, WritebackClosed
     DEF Edit
<1>5. CASE ChangeFlags(p)
  BY <1>1, <1>5, OtherProceeds, CalmKept, ReadFlaggedClosed, WritebackClosed
     DEF ChangeFlags
<1>6. QED
  BY <1>2, <1>3, <1>4, <1>5 DEF Serve

LEMMA ClosedNext ==
    ASSUME OrderInv, ClosedInv, [Next]_vars PROVE ClosedInv'
<1>1. TypeOK /\ loc \in [Procs -> Memory]
  BY DEF OrderInv, PlacesInv, TypeOK, Memory
<1>2. ASSUME NEW p \in Procs, Begin(p) PROVE ClosedInv'
  <2> DEFINE rq == loc[p].rq
             pc == CASE rq.op = "post" -> IF rq.vi = 0 THEN "body" ELSE "parent"
                     [] rq.op = "edit" -> "translate"
                     [] rq.op \in Single -> "flags"
                     [] OTHER -> "select"
             todo == IF rq.op \in Single THEN <<rq.vi>> ELSE << >>
  <2>1. /\ loc' = [loc EXCEPT ![p].pc = pc, ![p].todo = todo]
        /\ UNCHANGED <<hdr, alone>>
    BY <1>2 DEF Begin, store
  <2>2. pc \in {"body", "parent", "translate", "flags", "select"}
    OBVIOUS
  <2> HIDE DEF pc, todo
  <2>3. loc'[p].pc = pc /\ Proceeds(p)
    BY <1>1, <2>1 DEF Memory, Proceeds
  <2>4. QED
    BY <2>1, <2>2, <2>3, CalmKept DEF Copying
<1>3. ASSUME NEW p \in Procs, Die(p) PROVE ClosedInv'
  <2>1. loc' = [loc EXCEPT ![p] = Ended("dead")] /\ UNCHANGED <<hdr, alone>>
    BY <1>3 DEF Die, store
  <2>2. Ended("dead").pc = "dead" /\ Ended("dead").rq.op = "view"
    BY DEF Ended, Idle
  <2>3. loc'[p].pc = "dead" /\ Proceeds(p)
    BY <1>1, <2>1, <2>2 DEF Proceeds
  <2>4. QED
    BY <2>1, <2>3, CalmKept DEF Copying
<1>4. CASE UNCHANGED vars
  BY <1>4 DEF vars, store, ClosedInv, FlagsKept
<1>5. QED
  BY <1>2, <1>3, <1>4, ClosedServe, MsgStoreAssumption DEF Next, AllServed

LEMMA ClosedInit ==
    ASSUME Spared, Init PROVE ClosedInv
<1>1. PICK plan \in Plans :
         alone = plan.alone /\ loc = [p \in Procs |-> Idle("start", plan.asks[p])]
  BY DEF Init
<1>2. \A p \in Procs : loc[p].pc = "start" /\ loc[p].rq = plan.asks[p]
  BY <1>1 DEF Idle
<1>3. ~alone => \A p, q \in Procs : ~(loc[p].rq.op = "edit" /\ loc[q].rq.op = "close")
  BY <1>1, <1>2 DEF Spared
<1>4. QED
  BY <1>2, <1>3 DEF ClosedInv, FlagsKept

\* A step opens no message, but that of who was asked to.
LEMMA NoneOpened ==
    ASSUME OrderInv, ClosedInv, [Next]_vars, NEW n \in (Live \cap Live') \ Unwritten,
           NobodyDied, vidx[n] \in DOMAIN hdr, "closed" \in hdr[vidx[n]].flags,
           \A p \in Procs : ~(At(p, "store") /\ loc[p].rq.op = "open")
    PROVE  "closed" \in hdr'[vidx[n]].flags
<1> DEFINE x == vidx[n]
<1>1. TypeOK /\ PlacesInv
  BY DEF OrderInv, PlacesInv
<1>2. CASE UNCHANGED hdr
  BY <1>2
<1>3. CASE \E p \in Procs : PutHeader(p) \/ RewriteHeader(p) \/ StoreFlagged(p)
  <2>1. PICK p \in Procs : PutHeader(p) \/ RewriteHeader(p) \/ StoreFlagged(p)
    BY <1>3
  <2>2. CASE PutHeader(p)
    <3> DEFINE k == loc[p].msg.vi
    <3>1. /\ loc[p].pc \in Placing /\ loc[p].pc = "header"
          /\ WriteHeader(vidx[k], loc[p].msg)
      BY <2>2 DEF PutHeader, At, Placing
    <3>2. /\ k \in DOMAIN vidx /\ Holds(p, vidx[k])
          /\ vidx[k] \in 1..(Len(hdr) + 1)
      BY <1>1, <3>1, HoldsFacts
    <3>3. vidx[k] # Gone /\ k \in Live
      BY <3>2 DEF Gone, Live
    <3>4. k \in Unwritten
      BY <3>1 DEF Unwritten, At
    <3>5. vidx[k] # x
      BY <3>3, <3>4 DEF OrderInv, KnownNumbers
    <3>6. \A y \in DOMAIN hdr \ {vidx[k]} : hdr'[y] = hdr[y]
      BY <1>1, <3>1, <3>2, WrittenFacts
    <3>7. QED
      BY <3>5, <3>6
  <2>3. CASE RewriteHeader(p) \/ StoreFlagged(p)
    <3> DEFINE at == loc[p].at
    <3>1. /\ loc[p].pc \in {"rewrite", "store"} /\ loc[p].pc \in Copying
          /\ WriteHeader(at, loc[p].msg) /\ hdr \in Seq(Header)
      BY <1>1, <2>3 DEF RewriteHeader, StoreFlagged, At, Copying, TypeOK
    <3>2. at \in DOMAIN hdr
      BY <1>1, <3>1, BackFacts
    <3>3. hdr' = [hdr EXCEPT ![at] = loc[p].msg]
      BY <3>1, <3>2 DEF WriteHeader
    <3>4. "closed" \in hdr[at].flags => "closed" \in loc[p].msg.flags
      <4>1. CASE loc[p].pc = "rewrite"
        BY <4>1 DEF ClosedInv, FlagsKept
      <4>2. CASE loc[p].pc = "store"
        <5>1. loc[p].rq.op # "open"
          BY <4>2 DEF At
        <5>2. QED
          BY <4>2, <5>1 DEF OrderInv, Own, Copied
      <4>3. QED
        BY <3>1, <4>1, <4>2
    <3>5. QED
      BY <3>2, <3>3, <3>4
  <2>4. QED
    BY <2>1, <2>2, <2>3
<1>4. UNCHANGED hdr \/ \E p \in Procs : PutHeader(p) \/ RewriteHeader(p) \/ StoreFlagged(p)
  <2>1. ASSUME NEW p \in Procs, Serve(p)
        PROVE  UNCHANGED hdr \/ PutHeader(p) \/ RewriteHeader(p) \/ StoreFlagged(p)
    <3>1. Post(p) => PutHeader(p) \/ UNCHANGED hdr
      BY <1>1, PostProceeds DEF Post
    <3>2. FindRoot(p) \/ SelectThread(p) \/ Delete(p) => UNCHANGED hdr
      BY <1>1, OtherProceeds DEF Delete
    <3>3. Edit(p) => RewriteHeader(p) \/ UNCHANGED hdr
      <4>1. FindEdited(p) \/ OnlyRead(p) => UNCHANGED hdr
        BY <1>1, OtherProceeds
      <4>2. ReadEdited(p) => UNCHANGED hdr
        BY DEF ReadEdited, store
      <4>3. ResizeBody(p) => UNCHANGED hdr
        BY <1>1, ResizeProceeds
      <4>4. MoveBody(p) => UNCHANGED hdr
        BY <1>1, MoveBodyProceeds
      <4>5. QED
        BY <4>1, <4>2, <4>3, <4>4 DEF Edit
    <3>4. ChangeFlags(p) => StoreFlagged(p) \/ UNCHANGED hdr
      BY <1>1, OtherProceeds DEF ChangeFlags, ReadFlagged, store
    <3>5. QED
      BY <2>1, <3>1, <3>2, <3>3, <3>4 DEF Serve
  <2>2. ASSUME NEW p, Begin(p) \/ Die(p) PROVE UNCHANGED hdr
    BY <2>2 DEF Begin, Die, store
  <2>3. AllServed \/ UNCHANGED vars => UNCHANGED hdr
    BY DEF AllServed, vars, store
  <2>4. QED
    BY <2>1, <2>2, <2>3 DEF Next
<1>5. QED
  BY <1>2, <1>3, <1>4

\* A closed message is opened by who is asked to open it and by nothing else
\* (DB_ChangeCloseMessage and DB_PrintMessageBody hold the lock of the headers
\* while they read and write one), of orderly requests where nobody edits while
\* another closes.
THEOREM ClosedUntilOpened == Orderly /\ Spared /\ Spec => ClosedStaysClosed
<1> SUFFICES ASSUME Orderly, Spared PROVE Spec => ClosedStaysClosed
  OBVIOUS
<1>1. Init => OrderInv /\ ClosedInv
  BY OrderInit, ClosedInit
<1>2. OrderInv /\ ClosedInv /\ [Next]_vars => OrderInv' /\ ClosedInv'
  BY OrderNext, ClosedNext
<1> DEFINE StaysShut == \A n \in (Live \cap Live') \ Unwritten :
                      /\ NobodyDied /\ vidx[n] \in DOMAIN hdr
                      /\ "closed" \in hdr[vidx[n]].flags
                      /\ \A p \in Procs : ~(At(p, "store") /\ loc[p].rq.op = "open")
                      => "closed" \in hdr'[vidx[n]].flags
<1>3. OrderInv /\ ClosedInv /\ [Next]_vars => StaysShut
  BY NoneOpened
<1>4. OrderInv /\ ClosedInv /\ [Next]_vars => [StaysShut]_vars
  BY <1>3
<1>5. QED
  BY <1>1, <1>2, <1>4, PTL DEF Spec, ClosedStaysClosed

-----------------------------------------------------------------------------
(* The forest: what stands above what in display order.                    *)

\* A list is threaded if what is on it stands in a forest.
LEMMA ThreadedForest ==
    ASSUME NEW S, NEW o \in Seq(S), IsInjective(o), NEW h,
           \A a \in ToSet(o) : h[a].level \in Nat
    PROVE  Threaded(o, h) <=> Forest(o, h, ToSet(o))
<1>1. /\ DOMAIN o = 1..Len(o) /\ Len(o) \in Nat
      /\ \A i \in 1..Len(o) : o[i] \in ToSet(o) /\ h[o[i]].level \in Nat
      /\ \A a \in ToSet(o) : \E i \in 1..Len(o) : o[i] = a
      /\ \A i, j \in 1..Len(o) : o[i] = o[j] => i = j
  BY SetOfList DEF IsInjective
<1>2. /\ \A i, j \in 1..Len(o) : Before(o, o[i], o[j]) <=> i < j
      /\ \A a, b : Before(o, a, b) => a \in ToSet(o) /\ b \in ToSet(o)
  BY BeforeFacts
<1>3. \A a \in ToSet(o) : Pos(o, a) \in 1..Len(o) /\ o[Pos(o, a)] = a
  BY PosFacts
<1>4. ASSUME Forest(o, h, ToSet(o)), NEW i \in 1..Len(o), h[o[i]].level > 0
      PROVE  /\ i > 1 /\ h[o[i]].level <= h[o[i - 1]].level + 1
             /\ h[o[i]].thread \in ToSet(o) /\ Pos(o, h[o[i]].thread) < i
             /\ \A j \in Pos(o, h[o[i]].thread)..i :
                   h[o[j]].level = 0 <=> o[j] = h[o[i]].thread
  <2> DEFINE a == o[i]
             head == h[o[i]].thread
  <2>1. RightBelow(o, h, ToSet(o), a) /\ Rooted(o, h, ToSet(o), a) /\ a \in ToSet(o)
    BY <1>1, <1>4 DEF Forest
  <2>2. PICK b \in ToSet(o) : /\ Before(o, b, a) /\ h[a].level <= h[b].level + 1
                              /\ \A c \in ToSet(o) : ~(Before(o, b, c) /\ Before(o, c, a))
    BY <2>1 DEF RightBelow
  <2>3. PICK k \in 1..Len(o) : o[k] = b
    BY <1>1
  <2>4. k < i
    BY <1>2, <2>2, <2>3
  <2>5. k = i - 1
    <3>1. CASE k + 1 < i
      <4>1. k + 1 \in 1..Len(o) /\ k < k + 1
        BY <1>1, <3>1
      <4>2. Before(o, b, o[k + 1]) /\ Before(o, o[k + 1], a)
        BY <1>2, <2>3, <3>1, <4>1
      <4>3. QED
        BY <1>1, <2>2, <4>1, <4>2
    <3>2. QED
      BY <2>4, <3>1
  <2>6. i > 1 /\ h[a].level <= h[o[i - 1]].level + 1
    BY <2>2, <2>3, <2>5
  <2>7. /\ head \in ToSet(o) /\ Before(o, head, a) /\ h[head].level = 0
        /\ \A c \in ToSet(o) : Before(o, head, c) /\ Before(o, c, a) => h[c].level > 0
    BY <2>1 DEF Rooted
  <2> HIDE DEF head
  <2>8. PICK t \in 1..Len(o) : t = Pos(o, head) /\ o[t] = head
    BY <1>3, <2>7
  <2>11. t < i
    BY <1>2, <2>7, <2>8
  <2>9. ASSUME NEW j \in t..i PROVE h[o[j]].level = 0 <=> o[j] = head
    <3>1. j \in 1..Len(o) /\ (j = t \/ t < j) /\ (j = i \/ j < i)
      BY <1>1
    <3>2. CASE j = t
      BY <2>7, <2>8, <3>2
    <3>3. CASE t < j /\ j = i
      BY <1>1, <1>4, <2>7, <3>3
    <3>4. CASE t < j /\ j < i
      <4>1. Before(o, head, o[j]) /\ Before(o, o[j], a)
        BY <1>2, <2>8, <3>1, <3>4
      <4>2. h[o[j]].level > 0
        BY <1>1, <2>7, <3>1, <4>1
      <4>3. QED
        BY <2>7, <4>2
    <3>5. QED
      BY <3>1, <3>2, <3>3, <3>4
  <2>10. QED
    BY <2>6, <2>7, <2>8, <2>9, <2>11 DEF head
<1>5. ASSUME Forest(o, h, ToSet(o)) PROVE Threaded(o, h)
  <2>1. \A i \in 1..Len(o) : h[o[i]].level = 0 => h[o[i]].thread = 0
    BY <1>1, <1>5 DEF Forest
  <2>2. QED
    BY <1>1, <1>4, <1>5, <2>1 DEF Threaded
<1>6. ASSUME Threaded(o, h), NEW i \in 1..Len(o), h[o[i]].level > 0
      PROVE  RightBelow(o, h, ToSet(o), o[i]) /\ Rooted(o, h, ToSet(o), o[i])
  <2> DEFINE head == h[o[i]].thread
  <2>1. /\ i > 1 /\ h[o[i]].level <= h[o[i - 1]].level + 1
        /\ head \in ToSet(o) /\ Pos(o, head) < i
        /\ \A j \in Pos(o, head)..i : h[o[j]].level = 0 <=> o[j] = head
    BY <1>1, <1>6 DEF Threaded
  <2>2. i - 1 \in 1..Len(o) /\ i - 1 < i /\ \A j \in 1..Len(o) : ~(i - 1 < j /\ j < i)
    BY <1>1, <2>1
  <2>3. RightBelow(o, h, ToSet(o), o[i])
    <3>1. \A c \in ToSet(o) : ~(Before(o, o[i - 1], c) /\ Before(o, c, o[i]))
      BY <1>1, <1>2, <2>2
    <3>2. QED
      BY <1>1, <1>2, <2>1, <2>2, <3>1 DEF RightBelow
  <2> HIDE DEF head
  <2>4. PICK t \in 1..Len(o) : t = Pos(o, head) /\ o[t] = head
    BY <1>3, <2>1
  <2>5. t < i /\ Before(o, head, o[i])
    BY <1>2, <2>1, <2>4
  <2>6. h[head].level = 0
    <3>1. t \in t..i
      BY <1>1, <2>5
    <3>2. QED
      BY <2>1, <2>4, <3>1
  <2>7. ASSUME NEW c \in ToSet(o), Before(o, head, c), Before(o, c, o[i])
        PROVE  h[c].level > 0
    <3>1. PICK j \in 1..Len(o) : o[j] = c
      BY <1>1
    <3>2. t < j /\ j < i
      BY <1>2, <2>4, <2>7, <3>1
    <3>3. j \in t..i /\ o[j] # head
      BY <1>1, <2>4, <3>2
    <3>4. h[c].level # 0
      BY <2>1, <2>4, <3>1, <3>3
    <3>5. QED
      BY <1>1, <3>1, <3>4
  <2>8. \A c \in ToSet(o) : Before(o, head, c) /\ Before(o, c, o[i]) => h[c].level > 0
    BY <2>7
  <2>9. Rooted(o, h, ToSet(o), o[i])
    BY <2>1, <2>5, <2>6, <2>8, Zenon DEF Rooted, head
  <2>10. QED
    BY <2>3, <2>9
<1>7. ASSUME Threaded(o, h) PROVE Forest(o, h, ToSet(o))
  <2>1. \A i \in 1..Len(o) : h[o[i]].level = 0 => h[o[i]].thread = 0
    BY <1>1, <1>7 DEF Threaded
  <2>2. \A a \in ToSet(o) : \E i \in 1..Len(o) : o[i] = a
    BY <1>1
  <2>3. QED
    BY <1>6, <1>7, <2>1, <2>2 DEF Forest
<1>8. QED
  BY <1>5, <1>7

-----------------------------------------------------------------------------
(* The shape of the forum.                                                 *)

\* A deletion that has not cut out yet the message of number n.
Owes(m, n) ==
    \E i \in DOMAIN m.todo :
        /\ m.todo[i] = n
        /\ \/ m.pc \in {"delete", "unindex", "read", "cut"}
           \/ m.pc \in {"freeheader", "freebody"} /\ i > 1

\* What no deletion is about to cut out.
Staying == {x \in Shown : \A p \in Procs : ~Owes(loc[p], hdr[x].vi)}

Answering == {"body", "number", "header", "index", "append"}

\* A new message in hand has the level and the thread of its place, and a reply
\* its parent's flags.
Inherits(p) ==
    LET m == loc[p]
    IN  /\ m.pc = "start" => m.msg.thread = 0
        /\ m.pc \in Answering /\ m.rq.vi = 0 => m.msg.level = 0 /\ m.msg.thread = 0
        /\ m.pc \in Answering /\ m.rq.vi # 0 =>
              /\ m.msg.level = hdr[m.at].level + 1
              /\ m.msg.thread = HeadOf(hdr[m.at], m.at)
              /\ alone => m.msg.flags = hdr[m.at].flags
        /\ m.pc = "index" /\ m.rq.vi # 0 /\ alone => hdr[vidx[m.msg.vi]].flags = m.msg.flags

ShapeInv ==
    KeepsAll => Forest(order, hdr, Staying) /\ \A p \in Procs : Inherits(p)

LEMMA OwesNothing ==
    ASSUME NEW m, m.pc \notin Deleting
    PROVE  \A n : ~Owes(m, n)
  BY DEF Owes, Deleting

\* Where p is at work on a database of its own, nobody else has a reply in hand.
LEMMA OthersInherit ==
    ASSUME OrderInv, KeepsAll, ShapeInv, UNCHANGED alone, NEW p \in Procs,
           NEW q \in Procs \ {p}, loc'[q] = loc[q],
           \A x \in Shown : Kin(hdr'[x], hdr[x]),
           loc[p].pc \in Resting => UNCHANGED <<hdr, vidx>>
    PROVE  Inherits(q)'
<1>1. Inherits(q) /\ Own(q)
  BY DEF ShapeInv, OrderInv
<1>2. CASE loc[q].pc \notin Answering
  BY <1>1, <1>2 DEF Inherits, Answering
<1>3. CASE loc[q].pc \in Answering /\ loc[q].rq.vi = 0
  BY <1>1, <1>3 DEF Inherits, Answering
<1>4. CASE loc[q].pc \in Answering /\ loc[q].rq.vi # 0
  <2>1. loc[q].at \in Shown
    BY <1>1, <1>4 DEF Own, Answers, Answering, Posting
  <2>2. hdr'[loc[q].at].level = hdr[loc[q].at].level /\ hdr'[loc[q].at].thread = hdr[loc[q].at].thread
    BY <2>1 DEF Kin
  <2>3. HeadOf(hdr'[loc[q].at], loc[q].at) = HeadOf(hdr[loc[q].at], loc[q].at)
    BY <2>2 DEF HeadOf
  <2>4. alone => UNCHANGED <<hdr, vidx>>
    BY <1>4 DEF OrderInv, Apart, Resting, Over, Answering
  <2>5. QED
    BY <1>1, <1>4, <2>2, <2>3, <2>4 DEF Inherits, Answering
<1>5. QED
  BY <1>2, <1>3, <1>4

\* A step of p that neither shows a message nor cuts one out.
LEMMA ShapeCalm ==
    ASSUME OrderInv, ShapeInv, UNCHANGED <<alone, order>>, NEW p \in Procs,
           \A q \in Procs \ {p} : loc'[q] = loc[q],
           \A x \in Shown : Kin(hdr'[x], hdr[x]),
           loc[p].pc \in Resting => UNCHANGED <<hdr, vidx>>,
           KeepsAll => /\ \A n : Owes(loc'[p], n) <=> Owes(loc[p], n)
                       /\ Inherits(p)'
    PROVE  ShapeInv'
<1>1. KeepsAll' <=> KeepsAll
  BY KeepsOnNext DEF KeepsOn
<1> SUFFICES ASSUME KeepsAll
             PROVE  Forest(order, hdr, Staying)' /\ \A q \in Procs : Inherits(q)'
  BY <1>1 DEF ShapeInv
<1>2. \A q \in Procs : Inherits(q)'
  BY OthersInherit
<1>3. Staying' = Staying
  <2>1. Shown' = Shown
    BY DEF Shown
  <2>2. \A x \in Shown : hdr'[x].vi = hdr[x].vi
    BY DEF Kin
  <2>3. \A q \in Procs : \A n : Owes(loc'[q], n) <=> Owes(loc[q], n)
    OBVIOUS
  <2>4. \A x : x \in Staying' <=> x \in Staying
    BY <2>1, <2>2, <2>3 DEF Staying
  <2>5. QED
    BY <2>4
<1>4. Forest(order, hdr', Staying)
  <2>1. Forest(order, hdr, Staying)
    BY DEF ShapeInv
  <2>2. \A a \in Staying : hdr'[a].level = hdr[a].level /\ hdr'[a].thread = hdr[a].thread
    BY DEF Staying, Kin
  <2>3. QED
    BY <2>1, <2>2, SameForest
<1>5. Forest(order, hdr, Staying)'
  BY <1>3, <1>4
<1>6. QED
  BY <1>2, <1>5

\* Nor is anything to be cut out, or a new message in hand.
LEMMA ShapeIdle ==
    ASSUME OrderInv, ShapeInv, UNCHANGED <<alone, order>>, NEW p \in Procs,
           \A q \in Procs \ {p} : loc'[q] = loc[q],
           \A x \in Shown : Kin(hdr'[x], hdr[x]),
           loc[p].pc \notin Resting \cup Deleting,
           loc'[p].pc \notin Deleting \cup Answering \cup {"start"}
    PROVE  ShapeInv'
<1>1. \A n : Owes(loc'[p], n) <=> Owes(loc[p], n)
  BY OwesNothing
<1>2. Inherits(p)'
  BY DEF Inherits, Answering
<1>3. QED
  BY <1>1, <1>2, ShapeCalm

LEMMA SameKin ==
    ASSUME UNCHANGED hdr PROVE \A x \in Shown : Kin(hdr'[x], hdr[x])
  BY DEF Kin

LEMMA OtherShape ==
    ASSUME OrderInv, ShapeInv, UNCHANGED alone, NEW p \in Procs,
           \/ FindParent(p) \/ FindRoot(p) \/ FindEdited(p) \/ ReadEdited(p)
           \/ ResizeBody(p) \/ MoveBody(p)
           \/ FindFlagged(p) \/ OnlyRead(p) \/ ReadFlagged(p)
    PROVE  ShapeInv'
<1> DEFINE Off(pc) == pc \notin Deleting \cup Answering \cup {"start"}
           Moved == Off(loc'[p].pc) /\ \A q \in Procs \ {p} : loc'[q] = loc[q]
           Same == loc[p].pc \notin Resting \cup Deleting /\ UNCHANGED <<hdr, order>>
<1>1. TypeOK /\ loc \in [Procs -> Memory] /\ loc[p] \in Memory /\ Fits(loc[p])
  BY MemoryFacts DEF OrderInv, PlacesInv
<1>2. Exit(p) => Moved
  BY <1>1, EndsIdle DEF Deleting, Answering
<1>3. (\E code \in 0..2 : Advance(p, code)) /\ loc[p].pc \in Flagging => Moved
  <2>1. SUFFICES ASSUME NEW code \in 0..2, Advance(p, code), loc[p].pc \in Flagging PROVE Moved
    OBVIOUS
  <2>2. Len(loc[p].todo) > 0 /\ loc[p].rq.op # "delete"
    BY <1>1, <2>1, Kinds DEF Fits
  <2>3. loc'[p].pc \in {"done", "flags"} /\ \A q \in Procs \ {p} : loc'[q] = loc[q]
    BY <1>1, <2>1, <2>2, AdvanceMoves DEF Moves
  <2>4. QED
    BY <2>3 DEF Deleting, Answering
<1>4. ASSUME Same, Moved PROVE ShapeInv'
  BY <1>4, SameKin, ShapeIdle
<1>5. CASE FindParent(p)
  <2>1. Moved
    BY <1>1, <1>2, <1>5 DEF FindParent, Memory, Deleting, Answering
  <2>2. Same
    BY <1>5 DEF FindParent, At, store, Resting, Over, Deleting
  <2>3. QED
    BY <1>4, <2>1, <2>2
<1>6. CASE FindRoot(p)
  <2>1. Moved
    BY <1>1, <1>2, <1>6 DEF FindRoot, Memory, Deleting, Answering
  <2>2. Same
    BY <1>6 DEF FindRoot, At, store, Resting, Over, Deleting
  <2>3. QED
    BY <1>4, <2>1, <2>2
<1>7. CASE FindEdited(p)
  <2>1. Moved
    BY <1>1, <1>2, <1>7 DEF FindEdited, Memory, Deleting, Answering
  <2>2. Same
    BY <1>7 DEF FindEdited, At, store, Resting, Over, Deleting
  <2>3. QED
    BY <1>4, <2>1, <2>2
<1>8. CASE ReadEdited(p)
  <2>1. Moved
    BY <1>1, <1>2, <1>8 DEF ReadEdited, Memory, Deleting, Answering
  <2>2. Same
    BY <1>8 DEF ReadEdited, At, store, Resting, Over, Deleting
  <2>3. QED
    BY <1>4, <2>1, <2>2
<1>9. CASE ResizeBody(p)
  <2>1. Moved
    BY <1>1, <1>9, ResizeMoves DEF Deleting, Answering
  <2>2. Same
    BY <1>9 DEF ResizeBody, At, Resting, Over, Deleting
  <2>3. QED
    BY <1>4, <2>1, <2>2
<1>10. CASE MoveBody(p)
  <2>1. Moved
    BY <1>1, <1>10, MoveBodyProceeds DEF Proceeds, Deleting, Answering
  <2>2. Same
    <3>1. loc[p].pc = "realloc" /\ UNCHANGED <<hdr, order>>
      BY <1>10 DEF MoveBody, At
    <3>2. QED
      BY <3>1 DEF Resting, Over, Deleting
  <2>3. QED
    BY <1>4, <2>1, <2>2
<1>11. CASE FindFlagged(p)
  <2>1. Same /\ loc[p].pc \in Flagging
    BY <1>11 DEF FindFlagged, At, store, Resting, Over, Deleting, Flagging
  <2>2. Moved
    <3>1. CASE Exit(p)
      BY <1>2, <3>1
    <3>2. CASE Advance(p, 0)
      BY <1>3, <2>1, <3>2
    <3>3. CASE \E at : loc' = [loc EXCEPT ![p].at = at, ![p].pc = "update"]
      BY <1>1, <3>3 DEF Memory, Deleting, Answering
    <3>4. QED
      BY <1>11, <3>1, <3>2, <3>3 DEF FindFlagged
  <2>3. QED
    BY <1>4, <2>1, <2>2
<1>12. CASE OnlyRead(p)
  <2>1. Moved
    BY <1>2, <1>12 DEF OnlyRead
  <2>2. Same
    BY <1>12 DEF OnlyRead, At, store, Resting, Over, Deleting
  <2>3. QED
    BY <1>4, <2>1, <2>2
<1>13. CASE ReadFlagged(p)
  <2>1. Same /\ loc[p].pc \in Flagging
    BY <1>13 DEF ReadFlagged, At, store, Resting, Over, Deleting, Flagging
  <2> DEFINE flags == NewFlags(hdr[loc[p].at].flags, loc[p].rq.op, loc[p].code)
  <2>2. Moved
    <3>1. CASE Exit(p)
      BY <1>2, <3>1
    <3>2. CASE Advance(p, 0)
      BY <1>3, <2>1, <3>2
    <3>3. CASE Advance(p, Rolled(flags))
      <4>1. Rolled(flags) \in 0..2
        BY DEF Rolled
      <4>2. QED
        BY <1>3, <2>1, <3>3, <4>1
    <3>4. CASE \E msg : loc' = [loc EXCEPT ![p].msg = msg, ![p].pc = "store"]
      BY <1>1, <3>4 DEF Memory, Deleting, Answering
    <3>5. QED
      BY <1>13, <3>1, <3>2, <3>3, <3>4, Zenon DEF ReadFlagged
  <2>3. QED
    BY <1>4, <2>1, <2>2
<1>14. QED
  BY <1>5, <1>6, <1>7, <1>8, <1>9, <1>10, <1>11, <1>12, <1>13

\* A header is written back with the level and the thread it was read with.
LEMMA WritebackShape ==
    ASSUME OrderInv, ShapeInv, UNCHANGED alone, NEW p \in Procs,
           RewriteHeader(p) \/ StoreFlagged(p)
    PROVE  ShapeInv'
<1> DEFINE at == loc[p].at
<1>1. /\ TypeOK /\ PlacesInv /\ Own(p) /\ Fits(loc[p]) /\ hdr \in Seq(Header)
      /\ loc[p].pc \in {"rewrite", "store"} /\ loc[p].pc \in Copying
      /\ WriteHeader(at, loc[p].msg) /\ order' = order
  BY DEF OrderInv, PlacesInv, TypeOK, RewriteHeader, StoreFlagged, At, Copying
<1>2. /\ \A q \in Procs \ {p} : loc'[q] = loc[q]
      /\ loc'[p].pc \in {"done", "flags"}
  <2>1. CASE RewriteHeader(p)
    BY <1>1, <2>1, EndsIdle DEF RewriteHeader
  <2>2. CASE StoreFlagged(p)
    <3>1. loc[p].pc = "store" /\ Advance(p, Rolled(loc[p].msg.flags)) /\ loc[p].pc \in Flagging
      BY <2>2 DEF StoreFlagged, At, Flagging
    <3>2. Len(loc[p].todo) > 0 /\ loc[p].rq.op # "delete"
      BY <1>1, <3>1, Kinds DEF Fits
    <3>3. Rolled(loc[p].msg.flags) \in 0..2
      BY DEF Rolled
    <3>4. QED
      BY <1>1, <3>1, <3>2, <3>3, AdvanceMoves DEF Moves
  <2>3. QED
    BY <2>1, <2>2
<1>3. DOMAIN hdr' = DOMAIN hdr /\ at \in DOMAIN hdr
  BY <1>1, BackFacts
<1>4. hdr' = [hdr EXCEPT ![at] = loc[p].msg]
  BY <1>1, <1>3 DEF WriteHeader
<1>5. hdr'[at] = loc[p].msg /\ \A x \in DOMAIN hdr \ {at} : hdr'[x] = hdr[x]
  BY <1>1, <1>3, <1>4
<1>6. Kin(loc[p].msg, hdr[at])
  BY <1>1 DEF Own, Copied, Edits, Alike
<1> HIDE DEF at
<1>7. \A x \in Shown : Kin(hdr'[x], hdr[x])
  <2>1. Shown \subseteq DOMAIN hdr
    BY <1>1, ShownFacts
  <2>2. QED
    BY <1>5, <1>6, <2>1 DEF Kin
<1>8. QED
  BY <1>1, <1>2, <1>7, ShapeIdle DEF Resting, Over, Deleting, Answering

\* Steps of a post before the message is shown.
LEMMA BeginShape ==
    ASSUME OrderInv, TallyInv, ShapeInv, UNCHANGED alone, NEW p \in Procs, Begin(p)
    PROVE  ShapeInv'
<1> DEFINE rq == loc[p].rq
           pc == CASE rq.op = "post" -> IF rq.vi = 0 THEN "body" ELSE "parent"
                   [] rq.op = "edit" -> "translate"
                   [] rq.op \in Single -> "flags"
                   [] OTHER -> "select"
           todo == IF rq.op \in Single THEN <<rq.vi>> ELSE << >>
<1>1. /\ loc[p].pc = "start" /\ loc' = [loc EXCEPT ![p].pc = pc, ![p].todo = todo]
      /\ UNCHANGED <<hdr, vidx, order>>
  BY DEF Begin, At, store
<1>2. \/ pc = "body" /\ rq.vi = 0
      \/ pc \in {"parent", "translate", "flags", "select"}
  OBVIOUS
<1>3. loc \in [Procs -> Memory] /\ loc[p] \in Memory
  BY MemoryFacts DEF OrderInv, PlacesInv
<1> HIDE DEF pc, todo
<1>4. /\ loc'[p].pc = pc /\ loc'[p].rq = rq /\ loc'[p].msg = loc[p].msg
      /\ \A q \in Procs \ {p} : loc'[q] = loc[q]
  <2>1. loc'[p] = [loc[p] EXCEPT !.pc = pc, !.todo = todo]
    BY <1>1, <1>3
  <2>2. QED
    BY <1>1, <1>3, <2>1 DEF Memory
<1>5. \A n : Owes(loc'[p], n) <=> Owes(loc[p], n)
  BY <1>1, <1>2, <1>4, OwesNothing DEF Deleting
<1>6. KeepsAll => Inherits(p)'
  <2>1. SUFFICES ASSUME KeepsAll PROVE Inherits(p)'
    OBVIOUS
  <2>2. loc[p].msg.level = 0 /\ loc[p].msg.thread = 0
    BY <1>1, <2>1 DEF TallyInv, Ranked, ShapeInv, Inherits
  <2>3. QED
    BY <1>2, <1>4, <2>2 DEF Inherits, Answering
<1>7. QED
  BY <1>1, <1>4, <1>5, <1>6, SameKin, ShapeCalm

LEMMA ReadParentShape ==
    ASSUME OrderInv, TallyInv, ShapeInv, UNCHANGED alone, NEW p \in Procs, ReadParent(p)
    PROVE  ShapeInv'
<1> DEFINE at == loc[p].at
           h == hdr[at]
<1>1. /\ TypeOK /\ loc \in [Procs -> Memory] /\ loc[p] \in Memory
      /\ loc[p].pc = "inherit" /\ UNCHANGED <<hdr, order>> /\ loc[p].rq.vi # 0
  BY MemoryFacts DEF OrderInv, PlacesInv, TallyInv, Ranked, ReadParent, At, store
<1>2. CASE Exit(p)
  BY <1>1, <1>2, EndsIdle, SameKin, ShapeIdle DEF Resting, Over, Deleting, Answering
<1>3. CASE loc' = [loc EXCEPT ![p].msg.level = h.level + 1,
                              ![p].msg.thread = HeadOf(h, at),
                              ![p].msg.flags = h.flags, ![p].pc = "body"]
  <2> DEFINE level == h.level + 1
             thread == HeadOf(h, at)
             flags == h.flags
  <2>1. loc' = [loc EXCEPT ![p].msg.level = level, ![p].msg.thread = thread,
                           ![p].msg.flags = flags, ![p].pc = "body"]
    BY <1>3
  <2> HIDE DEF level, thread, flags
  <2>2. /\ loc'[p].pc = "body" /\ loc'[p].rq = loc[p].rq /\ loc'[p].at = at
        /\ loc'[p].msg.level = level /\ loc'[p].msg.thread = thread
        /\ loc'[p].msg.flags = flags
        /\ \A q \in Procs \ {p} : loc'[q] = loc[q]
    BY <1>1, <2>1 DEF Memory, Header
  <2>3. Inherits(p)'
    BY <1>1, <2>2 DEF Inherits, Answering, level, thread, flags
  <2>4. \A n : Owes(loc'[p], n) <=> Owes(loc[p], n)
    BY <1>1, <2>2, OwesNothing DEF Deleting
  <2>5. QED
    BY <1>1, <2>2, <2>3, <2>4, SameKin, ShapeCalm DEF Resting, Over
<1>4. QED
  BY <1>2, <1>3 DEF ReadParent

\* A step that leaves what is in hand as it is, but for body and number.
LEMMA StillInherits ==
    ASSUME NEW p \in Procs, Inherits(p), UNCHANGED alone,
           loc'[p].rq = loc[p].rq, loc'[p].at = loc[p].at,
           loc'[p].msg.level = loc[p].msg.level, loc'[p].msg.thread = loc[p].msg.thread,
           loc'[p].msg.flags = loc[p].msg.flags,
           loc[p].pc \in Answering, loc'[p].pc \in Answering,
           loc[p].rq.vi # 0 => /\ Kin(hdr'[loc[p].at], hdr[loc[p].at])
                               /\ hdr'[loc[p].at].flags = hdr[loc[p].at].flags,
           loc'[p].pc = "index" /\ alone => hdr'[vidx'[loc'[p].msg.vi]].flags = loc'[p].msg.flags
    PROVE  Inherits(p)'
<1>1. loc'[p].pc # "start"
  BY DEF Answering
<1>2. loc[p].rq.vi # 0 => HeadOf(hdr'[loc[p].at], loc[p].at) = HeadOf(hdr[loc[p].at], loc[p].at)
  BY DEF Kin, HeadOf
<1>3. QED
  BY <1>1, <1>2 DEF Inherits, Kin

LEMMA WriteBodyShape ==
    ASSUME OrderInv, ShapeInv, UNCHANGED alone, NEW p \in Procs, WriteBody(p)
    PROVE  ShapeInv'
<1>1. /\ TypeOK /\ loc \in [Procs -> Memory] /\ loc[p] \in Memory
      /\ loc[p].pc = "body" /\ UNCHANGED <<hdr, order>>
  BY MemoryFacts DEF OrderInv, PlacesInv, WriteBody, At
<1>2. PICK at \in 0..(bodyEnd + Pad) :
              loc' = [loc EXCEPT ![p].msg.body = at, ![p].msg.size = loc[p].rq.size,
                                 ![p].pc = "number"]
  BY Zenon DEF WriteBody
<1>3. /\ loc'[p].pc = "number" /\ loc'[p].rq = loc[p].rq /\ loc'[p].at = loc[p].at
      /\ loc'[p].msg.level = loc[p].msg.level /\ loc'[p].msg.thread = loc[p].msg.thread
      /\ loc'[p].msg.flags = loc[p].msg.flags
      /\ \A q \in Procs \ {p} : loc'[q] = loc[q]
  <2> DEFINE size == loc[p].rq.size
  <2>1. /\ loc'[p] = [loc[p] EXCEPT !.msg.body = at, !.msg.size = size, !.pc = "number"]
        /\ \A q \in Procs \ {p} : loc'[q] = loc[q]
    BY <1>1, <1>2
  <2> HIDE DEF size
  <2>2. /\ loc'[p].pc = "number" /\ loc'[p].rq = loc[p].rq /\ loc'[p].at = loc[p].at
        /\ loc'[p].msg = [loc[p].msg EXCEPT !.body = at, !.size = size]
    BY <1>1, <2>1 DEF Memory
  <2>3. loc[p].msg \in Header
    BY <1>1 DEF Memory
  <2>4. QED
    BY <2>1, <2>2, <2>3 DEF Header
<1>4. KeepsAll => Inherits(p)'
  BY <1>1, <1>3, StillInherits DEF ShapeInv, Answering, Kin
<1>5. \A n : Owes(loc'[p], n) <=> Owes(loc[p], n)
  BY <1>1, <1>3, OwesNothing DEF Deleting
<1>6. QED
  BY <1>1, <1>3, <1>4, <1>5, SameKin, ShapeCalm DEF Resting, Over

LEMMA TakeNumberShape ==
    ASSUME OrderInv, ShapeInv, UNCHANGED alone, NEW p \in Procs, TakeNumber(p)
    PROVE  ShapeInv'
<1> DEFINE n == Len(vidx) + 1
<1>1. /\ TypeOK /\ loc \in [Procs -> Memory] /\ loc[p] \in Memory
      /\ loc[p].pc = "number" /\ UNCHANGED <<hdr, order>>
      /\ loc' = [loc EXCEPT ![p].msg.vi = n, ![p].pc = "header"]
  BY MemoryFacts DEF OrderInv, PlacesInv, TakeNumber, At
<1> HIDE DEF n
<1>2. /\ loc'[p].pc = "header" /\ loc'[p].rq = loc[p].rq /\ loc'[p].at = loc[p].at
      /\ loc'[p].msg.level = loc[p].msg.level /\ loc'[p].msg.thread = loc[p].msg.thread
      /\ loc'[p].msg.flags = loc[p].msg.flags
      /\ \A q \in Procs \ {p} : loc'[q] = loc[q]
  BY <1>1 DEF Memory, Header
<1>3. KeepsAll => Inherits(p)'
  BY <1>1, <1>2, StillInherits DEF ShapeInv, Answering, Kin
<1>4. \A k : Owes(loc'[p], k) <=> Owes(loc[p], k)
  BY <1>1, <1>2, OwesNothing DEF Deleting
<1>5. QED
  BY <1>1, <1>2, <1>3, <1>4, SameKin, ShapeCalm DEF Resting, Over

\* The header is written where nothing is shown.
LEMMA PutHeaderShape ==
    ASSUME OrderInv, ShapeInv, UNCHANGED alone, NEW p \in Procs, PutHeader(p)
    PROVE  ShapeInv'
<1> DEFINE n == loc[p].msg.vi
<1>1. /\ TypeOK /\ PlacesInv /\ loc[p].pc = "header" /\ Own(p)
      /\ loc[p].pc \in Placing
      /\ WriteHeader(vidx[n], loc[p].msg) /\ Goto(p, "index") /\ "index" \in Pc
      /\ UNCHANGED <<vidx, order>>
  BY DEF OrderInv, PlacesInv, PutHeader, At, Pc, Placing
<1>2. PICK at \in 1..(Len(hdr) + 1) : at = vidx[n] /\ at \notin Shown /\ n \in DOMAIN vidx
  <2>1. n \in DOMAIN vidx /\ Holds(p, vidx[n])
    BY <1>1, HoldsFacts
  <2>2. vidx[n] \in 1..(Len(hdr) + 1) /\ vidx[n] \notin Shown
    BY <1>1, <2>1, HoldsFacts
  <2>3. QED
    BY <2>1, <2>2
<1>3. /\ loc'[p] = [loc[p] EXCEPT !.pc = "index"]
      /\ \A q \in Procs \ {p} : loc'[q] = loc[q]
  BY <1>1, GotoMoves
<1>4. /\ loc'[p].pc = "index" /\ loc'[p].msg = loc[p].msg /\ loc'[p].rq = loc[p].rq
      /\ loc'[p].at = loc[p].at
  BY <1>1, <1>3, MemoryFacts DEF Memory
<1>5. hdr'[at] = loc[p].msg /\ \A x \in DOMAIN hdr \ {at} : hdr'[x] = hdr[x]
  <2>1. \A q \in Procs : loc[q].pc \in Placing /\ loc[q].msg.vi = loc[p].msg.vi
                            => at = vidx[loc[q].msg.vi]
    BY <1>2
  <2>2. QED
    BY <1>1, <1>2, <2>1, WrittenFacts
<1>6. \A x \in Shown : hdr'[x] = hdr[x]
  BY <1>1, <1>2, <1>5, ShownFacts
<1>7. KeepsAll => Inherits(p)'
  <2>1. SUFFICES ASSUME KeepsAll PROVE Inherits(p)'
    OBVIOUS
  <2>2. loc[p].rq.vi # 0 => loc[p].at \in Shown
    BY <1>1, <2>1 DEF Own, Answers, Posting
  <2>3. hdr'[vidx'[loc'[p].msg.vi]].flags = loc'[p].msg.flags
    BY <1>1, <1>2, <1>4, <1>5
  <2>4. Inherits(p)
    BY <2>1 DEF ShapeInv
  <2>5. loc[p].pc \in Answering /\ loc'[p].pc \in Answering
    BY <1>1, <1>4 DEF Answering
  <2>6. QED
    BY <1>4, <1>6, <2>2, <2>3, <2>4, <2>5, StillInherits DEF Kin
<1>8. \A k : Owes(loc'[p], k) <=> Owes(loc[p], k)
  BY <1>1, <1>4, OwesNothing DEF Deleting
<1>9. \A x \in Shown : Kin(hdr'[x], hdr[x])
  BY <1>6 DEF Kin
<1>10. QED
  BY <1>1, <1>3, <1>7, <1>8, <1>9, ShapeCalm DEF Resting, Over

LEMMA CountThreadShape ==
    ASSUME OrderInv, ShapeInv, UNCHANGED alone, NEW p \in Procs, CountThread(p)
    PROVE  ShapeInv'
<1>1. /\ TypeOK /\ loc[p].pc = "index" /\ Goto(p, "append") /\ "append" \in Pc
      /\ UNCHANGED <<hdr, vidx, order>> /\ loc[p].rq.vi = 0
  BY DEF OrderInv, PlacesInv, CountThread, At, Pc
<1>2. /\ loc'[p] = [loc[p] EXCEPT !.pc = "append"]
      /\ \A q \in Procs \ {p} : loc'[q] = loc[q]
  BY <1>1, GotoMoves
<1>3. /\ loc'[p].pc = "append" /\ loc'[p].msg = loc[p].msg /\ loc'[p].rq = loc[p].rq
      /\ loc'[p].at = loc[p].at
  BY <1>1, <1>2, MemoryFacts DEF Memory
<1>4. KeepsAll => Inherits(p)'
  BY <1>1, <1>3, StillInherits DEF ShapeInv, Answering, Kin
<1>5. \A n : Owes(loc'[p], n) <=> Owes(loc[p], n)
  BY <1>1, <1>3, OwesNothing DEF Deleting
<1>6. QED
  BY <1>1, <1>2, <1>4, <1>5, SameKin, ShapeCalm

\* Where nobody deletes, all that is shown stays.
LEMMA AllStay ==
    ASSUME \A q \in Procs : loc[q].pc \notin Deleting
    PROVE  Staying = Shown
<1>1. \A q \in Procs : \A n : ~Owes(loc[q], n)
  BY OwesNothing
<1>2. QED
  BY <1>1 DEF Staying

LEMMA OrderFacts ==
    ASSUME OrderInv
    PROVE  /\ order \in Seq(1..Len(hdr)) /\ IsInjective(order)
           /\ Shown \subseteq 1..Len(hdr) /\ \A x \in 1..Len(hdr) : hdr[x].level \in Nat
<1>1. TypeOK /\ order \in Seq(1..Len(hdr)) /\ IsInjective(order) /\ hdr \in Seq(Header)
  BY DEF OrderInv, PlacesInv, PlacesOwned, PlacesNotShared, TypeOK
<1>2. \A x \in 1..Len(hdr) : hdr[x].level \in Nat
  <2>1. \A x \in 1..Len(hdr) : hdr[x] \in Header
    BY <1>1
  <2>2. \A h \in Header : h.level \in Nat
    BY DEF Header
  <2>3. QED
    BY <2>1, <2>2
<1>3. QED
  BY <1>1, <1>2, ShownFacts

\* Nobody deletes while a message is about to be shown.
LEMMA ShowsAlone ==
    ASSUME OrderInv, KeepsAll, NEW p \in Procs, loc[p].pc \in Posting
    PROVE  \A q \in Procs : loc[q].pc \notin Deleting
  BY Undisturbed DEF Deleting, Posting

\* A new message is shown as a leaf of its parent, or as a thread above all others.
LEMMA ShowShape ==
    ASSUME OrderInv, PlacesInv', TallyInv, ShapeInv, UNCHANGED alone, NEW p \in Procs,
           IndexReply(p) \/ IndexThread(p)
    PROVE  ShapeInv'
<1>1. KeepsAll' <=> KeepsAll
  BY KeepsOnNext DEF KeepsOn
<1> SUFFICES ASSUME KeepsAll
             PROVE  Forest(order, hdr, Staying)' /\ \A q \in Procs : Inherits(q)'
  BY <1>1 DEF ShapeInv
<1>2. PICK m \in DOMAIN hdr \ Shown : m = PlaceOf(p)
  BY ShowFacts
<1>3. /\ \/ loc[p].pc = "index" /\ loc[p].rq.vi # 0
         \/ loc[p].pc = "append"
      /\ loc'[p].pc = "done" /\ \A q \in Procs \ {p} : loc'[q] = loc[q]
      /\ UNCHANGED <<hdr, vidx>> /\ Alike(loc[p].msg, hdr[m])
      /\ Shown' = Shown \cup {m}
  BY <1>2, ShowFacts
<1>4. \A q \in Procs : loc[q].pc \notin Deleting /\ loc'[q].pc \notin Deleting
  <2>1. \A q \in Procs : loc[q].pc \notin Deleting
    BY <1>3, ShowsAlone DEF Posting
  <2>2. QED
    BY <1>3, <2>1 DEF Deleting
<1>5. Staying = Shown /\ Staying' = Shown \cup {m}
  <2>1. Staying = Shown
    BY <1>4, AllStay
  <2>2. \A q \in Procs : \A n : ~Owes(loc'[q], n)
    BY <1>4, OwesNothing
  <2>3. Staying' = Shown'
    BY <2>2 DEF Staying
  <2>4. QED
    BY <1>3, <2>1, <2>3
<1>6. /\ order \in Seq(1..Len(hdr)) /\ IsInjective(order) /\ m \in 1..Len(hdr)
      /\ Shown = ToSet(order) /\ m \notin ToSet(order)
      /\ \A x \in Shown \cup {m} : hdr[x].level \in Nat
  BY <1>2, OrderFacts, ShownFacts DEF Shown, OrderInv, PlacesInv
<1>7. /\ \A a : ~Before(order, a, a) /\ ~Before(order', a, a)
      /\ \A a, b, c : Before(order, a, b) /\ Before(order, b, c) => Before(order, a, c)
  <2>1. order' \in Seq(1..Len(hdr')) /\ IsInjective(order')
    BY DEF PlacesInv, PlacesOwned, PlacesNotShared, TypeOK
  <2>2. \A a : ~Before(order', a, a)
    BY <2>1, BeforeFacts
  <2>3. QED
    BY <1>6, <2>2, BeforeFacts
<1>8. Forest(order, hdr, Shown) /\ Inherits(p)
  BY <1>5 DEF ShapeInv
<1>9. ASSUME loc[p].pc = "index" PROVE Forest(order', hdr, Shown \cup {m})
  <2>1. PICK at \in Shown : at = loc[p].at
    BY <1>3, <1>9 DEF OrderInv, Own, Answers, Posting
  <2>2. order' = ReplyAfter(order, at, m)
    BY <1>2, <1>6, <1>9, <2>1 DEF IndexReply, IndexThread, Indexed, At
  <2>3. hdr[m].level = hdr[at].level + 1 /\ hdr[m].thread = HeadOf(hdr[at], at)
    BY <1>3, <1>8, <1>9, <2>1 DEF Inherits, Answering, Alike, Kin
  <2>4. /\ \A a, b \in Shown : Before(order', a, b) <=> Before(order, a, b)
        /\ \A a \in Shown : /\ Before(order', a, m) <=> a = at \/ Before(order, a, at)
                            /\ Before(order', m, a) <=> Before(order, at, a)
    BY <1>6, <2>1, <2>2, BeforeReply
  <2>5. m \notin Shown /\ ~Before(order', m, m) /\ Forest(order, hdr, Shown)
    BY <1>2, <1>7, <1>8
  <2>6. /\ \A a : ~Before(order, a, a)
        /\ \A a, b, c : Before(order, a, b) /\ Before(order, b, c) => Before(order, a, c)
        /\ \A x \in Shown \cup {m} : hdr[x].level \in Nat
    BY <1>6, <1>7
  <2>7. hdr[m].thread = IF hdr[at].level > 0 THEN hdr[at].thread ELSE at
    BY <2>3 DEF HeadOf
  <2>8. QED
    BY ONLY <2>1, <2>3, <2>4, <2>5, <2>6, <2>7, ForestReply
<1>10. ASSUME loc[p].pc = "append" PROVE Forest(order', hdr, Shown \cup {m})
  <2>1. order' = ThreadFirst(order, m)
    BY <1>2, <1>10 DEF IndexReply, IndexThread, At
  <2>2. hdr[m].level = 0 /\ hdr[m].thread = 0
    <3>1. loc[p].rq.vi = 0
      BY <1>10 DEF TallyInv, Ranked
    <3>2. QED
      BY <1>3, <1>8, <1>10, <3>1 DEF Inherits, Answering, Alike, Kin
  <2>3. /\ \A a, b \in Shown : Before(order', a, b) <=> Before(order, a, b)
        /\ \A a \in Shown : Before(order', m, a) /\ ~Before(order', a, m)
    BY <1>6, <2>1, BeforeThread
  <2>4. QED
    BY <1>2, <1>7, <1>8, <2>2, <2>3, ForestThread
<1>11. Forest(order', hdr, Shown \cup {m})
  BY <1>3, <1>9, <1>10
<1>12. Forest(order, hdr, Staying)'
  BY <1>3, <1>5, <1>11
<1>13. loc[p].pc \notin Resting
  BY <1>3 DEF Resting, Over
<1>14. \A q \in Procs : Inherits(q)'
  <2>1. Inherits(p)'
    BY <1>3 DEF Inherits, Answering
  <2>2. ASSUME NEW q \in Procs \ {p} PROVE Inherits(q)'
    <3>1. \A x \in Shown : Kin(hdr'[x], hdr[x])
      BY <1>3, SameKin
    <3>2. QED
      BY <1>3, <1>13, <3>1, OthersInherit
  <2>3. QED
    BY <2>1, <2>2
<1>15. QED
  BY <1>12, <1>14

\* Who deletes a thread is the only one who deletes.
LEMMA NoneOwes ==
    ASSUME OrderInv, NEW p \in Procs, loc[p].pc \in Deleting
    PROVE  \A q \in Procs \ {p} : \A n : ~Owes(loc[q], n)
  BY Undisturbed, OwesNothing

LEMMA SelectsAlone ==
    ASSUME OrderInv, KeepsAll, NEW p \in Procs, loc[p].pc = "walk", loc[p].rq.op = "delete"
    PROVE  \A q \in Procs : loc[q].pc \notin Deleting
<1>1. alone
  BY DEF KeepsAll, OrderInv, Own, Role
<1>2. \A q \in Procs \ {p} : loc[q].pc \in Resting
  BY <1>1 DEF OrderInv, Apart, Resting, Over
<1>3. QED
  BY <1>2 DEF Resting, Over, Deleting

\* What is selected to be deleted is a whole branch of the forest.
LEMMA SelectThreadShape ==
    ASSUME OrderInv, ShapeInv, UNCHANGED alone, NEW p \in Procs, SelectThread(p)
    PROVE  ShapeInv'
<1> DEFINE at == loc[p].at
           level == [m \in DOMAIN hdr |-> hdr[m].level]
           thread == IF Indexed(at) /\ hdr[at].vi = loc[p].rq.vi
                     THEN Walk(order, level, at) ELSE <<>>
           todo == [i \in DOMAIN thread |-> hdr[thread[i]].vi]
           pc == IF loc[p].rq.op = "delete" THEN "delete" ELSE "flags"
           W == ToSet(Walk(order, level, at))
<1>1. /\ TypeOK /\ UNCHANGED <<hdr, order, vidx>> /\ loc[p].pc = "walk"
      /\ loc[p].pc \notin Resting \cup Deleting
  BY DEF OrderInv, PlacesInv, SelectThread, At, Resting, Over, Deleting, store
<1>2. \A x \in Shown : Kin(hdr'[x], hdr[x])
  BY <1>1, SameKin
<1>3. CASE Exit(p)
  <2>1. loc'[p].pc = "done" /\ \A q \in Procs \ {p} : loc'[q] = loc[q]
    BY <1>1, <1>3, EndsIdle
  <2>2. QED
    BY <1>1, <1>2, <2>1, ShapeIdle DEF Deleting, Answering
<1>4. CASE thread # <<>>
  <2>1. loc' = [loc EXCEPT ![p].todo = todo, ![p].pc = pc]
    BY <1>4 DEF SelectThread
  <2>2. at \in ToSet(order) /\ thread = Walk(order, level, at)
    BY <1>4 DEF Indexed
  <2>3. /\ order \in Seq(1..Len(hdr)) /\ IsInjective(order)
        /\ Shown = ToSet(order) /\ \A x \in Shown : hdr[x].level \in Nat
        /\ \A x \in Shown : level[x] = hdr[x].level
    <3>1. Shown \subseteq DOMAIN hdr
      BY <1>1, ShownFacts
    <3>2. \A x \in Shown : level[x] = hdr[x].level
      BY <3>1
    <3>3. QED
      BY <3>2, OrderFacts DEF Shown
  <2> HIDE DEF at, level
  <2>4. \A x : x \in W <=> \E i \in DOMAIN thread : thread[i] = x
    BY <2>2 DEF ToSet
  <2>5. /\ at \in W /\ W \subseteq Shown
        /\ \A a \in W \ {at} : Before(order, at, a) /\ level[a] > level[at]
        /\ \A a \in W : \A b : Before(order, at, b) /\ Before(order, b, a) => b \in W
        /\ \A a \in Shown \ W : Before(order, at, a) =>
              \E b \in Shown \ W : /\ Before(order, at, b) /\ level[b] <= level[at]
                                   /\ b = a \/ Before(order, b, a)
    BY <2>2, <2>3, WalkShape
  <2> HIDE DEF W, thread
  <2>6. \A n : (\E i \in DOMAIN todo : todo[i] = n) <=> \E x \in W : hdr[x].vi = n
    BY <2>4
  <2> HIDE DEF todo
  <2>7. loc'[p] = [loc[p] EXCEPT !.todo = todo, !.pc = pc]
        /\ \A q \in Procs \ {p} : loc'[q] = loc[q]
    BY <1>1, <2>1, MemoryFacts
  <2>8. loc'[p].pc = pc /\ loc'[p].todo = todo
    BY <1>1, <2>7, MemoryFacts DEF Memory
  <2>9. CASE pc = "flags"
    BY <1>1, <1>2, <2>7, <2>8, <2>9, ShapeIdle DEF Deleting, Answering
  <2>10. CASE pc = "delete"
    <3>1. KeepsAll' <=> KeepsAll
      BY KeepsOnNext DEF KeepsOn
    <3> SUFFICES ASSUME KeepsAll
                 PROVE  Forest(order, hdr, Staying)' /\ \A q \in Procs : Inherits(q)'
      BY <3>1 DEF ShapeInv
    <3>2. \A q \in Procs : loc[q].pc \notin Deleting
      BY <1>1, <2>10, SelectsAlone
    <3>3. Staying = Shown
      BY <3>2, AllStay
    <3>4. \A n : Owes(loc'[p], n) <=> \E x \in W : hdr[x].vi = n
      BY <2>6, <2>8, <2>10 DEF Owes
    <3>5. \A q \in Procs \ {p} : \A n : ~Owes(loc'[q], n)
      BY <2>7, <3>2, OwesNothing
    <3>6. Staying' = Shown \ W
      <4>1. \A x, y \in Shown : hdr[x].vi = hdr[y].vi => x = y
        BY DEF OrderInv, Numbered
      <4>2. Shown' = Shown
        BY <1>1 DEF Shown
      <4>3. \A x : x \in Staying' <=> x \in Shown /\ \A q \in Procs : ~Owes(loc'[q], hdr[x].vi)
        BY <1>1, <4>2 DEF Staying
      <4>4. \A x : x \in Staying' <=> x \in Shown \ W
        BY <2>5, <3>4, <3>5, <4>1, <4>3
      <4>5. QED
        BY <4>4
    <3>7. Forest(order, hdr, Shown \ W)
      <4>1. /\ \A a : ~Before(order, a, a)
            /\ \A a, b, c : Before(order, a, b) /\ Before(order, b, c) => Before(order, a, c)
            /\ \A a, b \in Shown : a = b \/ Before(order, a, b) \/ Before(order, b, a)
        BY <2>3, BeforeFacts
      <4>2. /\ \A a \in W \ {at} : Before(order, at, a) /\ hdr[a].level > hdr[at].level
            /\ \A a \in Shown \ W : Before(order, at, a) =>
                  \E b \in Shown \ W : /\ Before(order, at, b) /\ hdr[b].level <= hdr[at].level
                                       /\ b = a \/ Before(order, b, a)
        BY <2>3, <2>5
      <4>3. Forest(order, hdr, Shown)
        BY <3>3 DEF ShapeInv
      <4>4. QED
        BY <2>3, <2>5, <4>1, <4>2, <4>3, ForestWithout
    <3>8. Forest(order, hdr, Staying)'
      BY <1>1, <3>6, <3>7
    <3>9. Inherits(p)'
      BY <2>8, <2>10 DEF Inherits, Answering
    <3>10. ASSUME NEW q \in Procs \ {p} PROVE Inherits(q)'
      BY <1>1, <1>2, <2>7, OthersInherit
    <3>11. QED
      BY <3>8, <3>9, <3>10
  <2>11. QED
    BY <2>9, <2>10
<1>5. QED
  BY <1>3, <1>4 DEF SelectThread

\* A deletion goes through its list and cuts the messages out, one after another.
LEMMA DoomCalm ==
    ASSUME OrderInv, ShapeInv, UNCHANGED <<alone, hdr, order>>, NEW p \in Procs,
           loc[p].pc \in Deleting, loc'[p].pc \in Deleting \cup {"done"},
           \A q \in Procs \ {p} : loc'[q] = loc[q],
           KeepsAll => \A n : Owes(loc'[p], n) <=> Owes(loc[p], n)
    PROVE  ShapeInv'
<1>1. loc[p].pc \notin Resting
  BY DEF Deleting, Resting, Over
<1>2. Inherits(p)'
  BY DEF Inherits, Answering, Deleting
<1>3. QED
  BY <1>1, <1>2, SameKin, ShapeCalm

LEMMA FindDoomedShape ==
    ASSUME OrderInv, TallyInv, ShapeInv, UNCHANGED alone, NEW p \in Procs, FindDoomed(p)
    PROVE  ShapeInv'
<1> DEFINE n == loc[p].todo[1]
           at == Translate(n)
<1>1. loc[p].pc = "delete" /\ UNCHANGED <<hdr, vidx, order>> /\ loc[p].pc \in Deleting
  BY DEF FindDoomed, At, Deleting, store
<1>2. Head(loc[p].todo) = n /\ TypeOK /\ n \in DOMAIN vidx
  BY <1>1, DoomsFacts
<1>3. CASE at = Gone
  <2>1. Advance(p, 0)
    BY <1>2, <1>3 DEF FindDoomed
  <2>2. /\ \A q \in Procs \ {p} : loc'[q] = loc[q]
        /\ loc'[p].pc \in {"done", "delete", "flags"}
    BY <1>2, <2>1, AdvancesIdle
  <2>3. ~KeepsAll
    <3>1. SUFFICES ASSUME KeepsAll PROVE FALSE
      OBVIOUS
    <3>2. PICK x \in Nat : Named(x, n)
      BY <1>1, DoomsFacts
    <3>3. \A q \in Procs : loc[q].pc \notin {"read", "cut"}
      BY <1>1, Undisturbed DEF Deleting
    <3>4. vidx[n] = x
      BY <3>1, <3>2, <3>3 DEF TallyInv, NumbersStay, Named
    <3>5. x # Gone
      BY <1>2, <3>2, ShownFacts DEF Named, Gone
    <3>6. QED
      BY <1>2, <1>3, <3>4, <3>5 DEF Translate
  <2>4. QED
    BY <2>3, KeepsOnNext DEF KeepsOn, ShapeInv
<1>4. CASE at # Gone
  <2>1. loc' = [loc EXCEPT ![p].at = at, ![p].pc = "unindex"]
    BY <1>2, <1>4 DEF FindDoomed
  <2> HIDE DEF at
  <2>2. /\ loc'[p].pc = "unindex" /\ loc'[p].todo = loc[p].todo
        /\ \A q \in Procs \ {p} : loc'[q] = loc[q]
    BY <1>2, <2>1, MemoryFacts DEF Memory
  <2>3. \A k : Owes(loc'[p], k) <=> Owes(loc[p], k)
    BY <1>1, <2>2 DEF Owes
  <2>4. QED
    BY <1>1, <2>2, <2>3, DoomCalm DEF Deleting
<1>5. QED
  BY <1>3, <1>4

LEMMA DropNumberShape ==
    ASSUME OrderInv, ShapeInv, UNCHANGED alone, NEW p \in Procs, DropNumber(p)
    PROVE  ShapeInv'
<1>1. /\ TypeOK /\ loc[p].pc = "unindex" /\ Goto(p, "read") /\ "read" \in Pc
      /\ UNCHANGED <<hdr, order>>
  BY DEF OrderInv, PlacesInv, DropNumber, At, Pc
<1>2. /\ loc'[p] = [loc[p] EXCEPT !.pc = "read"]
      /\ \A q \in Procs \ {p} : loc'[q] = loc[q]
  BY <1>1, GotoMoves
<1>3. loc'[p].pc = "read" /\ loc'[p].todo = loc[p].todo
  BY <1>1, <1>2, MemoryFacts DEF Memory
<1>4. \A n : Owes(loc'[p], n) <=> Owes(loc[p], n)
  BY <1>1, <1>3 DEF Owes
<1>5. QED
  BY <1>1, <1>2, <1>3, <1>4, DoomCalm DEF Deleting

LEMMA ReadDoomedShape ==
    ASSUME OrderInv, ShapeInv, UNCHANGED alone, NEW p \in Procs, ReadDoomed(p)
    PROVE  ShapeInv'
<1>1. TypeOK /\ loc[p].pc = "read" /\ UNCHANGED <<hdr, order>>
  BY DEF OrderInv, PlacesInv, ReadDoomed, At
<1>2. PICK at \in DOMAIN hdr : at = loc[p].at
  BY <1>1, ShownFacts DEF OrderInv, Own, Dooms, Named, Deleting
<1>3. loc' = [loc EXCEPT ![p].msg = hdr[at], ![p].pc = "cut"]
  BY <1>2 DEF ReadDoomed
<1>4. /\ loc'[p].pc = "cut" /\ loc'[p].todo = loc[p].todo
      /\ \A q \in Procs \ {p} : loc'[q] = loc[q]
  BY <1>1, <1>3, MemoryFacts DEF Memory
<1>5. \A n : Owes(loc'[p], n) <=> Owes(loc[p], n)
  BY <1>1, <1>4 DEF Owes
<1>6. QED
  BY <1>1, <1>4, <1>5, DoomCalm DEF Deleting

\* What is cut out was not to stay.
LEMMA CutMessageShape ==
    ASSUME OrderInv, ShapeInv, UNCHANGED alone, NEW p \in Procs, CutMessage(p)
    PROVE  ShapeInv'
<1> DEFINE n == loc[p].todo[1]
<1>1. KeepsAll' <=> KeepsAll
  BY KeepsOnNext DEF KeepsOn
<1> SUFFICES ASSUME KeepsAll
             PROVE  Forest(order, hdr, Staying)' /\ \A q \in Procs : Inherits(q)'
  BY <1>1 DEF ShapeInv
<1>2. PICK at \in Shown : at = loc[p].at
  BY CutFacts
<1>3. /\ loc[p].pc = "cut" /\ loc'[p].pc = "freeheader"
      /\ \A q \in Procs \ {p} : loc'[q] = loc[q]
      /\ UNCHANGED <<hdr, vidx>> /\ Shown' = Shown \ {at}
      /\ loc[p].pc \in Deleting /\ loc[p].pc \notin Resting
  BY <1>2, CutFacts DEF Deleting, Resting, Over
<1>4. order' = WithoutMessage(order, at) /\ Goto(p, "freeheader") /\ "freeheader" \in Pc
  BY <1>2 DEF CutMessage, Shown, Indexed, Pc
<1>5. /\ hdr[at].vi = n /\ 1 \in DOMAIN loc[p].todo
      /\ \A i, j \in DOMAIN loc[p].todo : loc[p].todo[i] = loc[p].todo[j] => i = j
      /\ TypeOK /\ loc[p].todo \in Seq(Nat)
  BY <1>2, <1>3, DoomsFacts DEF Own, Dooms, Named
<1>6. loc'[p].todo = loc[p].todo
  <2>1. loc'[p] = [loc[p] EXCEPT !.pc = "freeheader"]
    BY <1>4, <1>5, GotoMoves
  <2>2. QED
    BY <1>5, <2>1, MemoryFacts DEF Memory
<1>7. \A k : /\ Owes(loc'[p], k) <=> Owes(loc[p], k) /\ k # n
             /\ k = n => Owes(loc[p], k)
  BY <1>3, <1>5, <1>6 DEF Owes
<1>8. \A q \in Procs \ {p} : \A k : ~Owes(loc[q], k) /\ ~Owes(loc'[q], k)
  BY <1>3, NoneOwes
<1>9. Staying' = Staying /\ at \notin Staying /\ Staying \subseteq Shown
  <2>1. \A x \in Shown : hdr[x].vi = n => x = at
    BY <1>5 DEF OrderInv, Numbered
  <2>2. \A x : /\ x \in Staying <=> x \in Shown /\ ~Owes(loc[p], hdr[x].vi)
               /\ x \in Staying' <=> x \in Shown /\ x # at /\ ~Owes(loc'[p], hdr[x].vi)
    BY <1>3, <1>8 DEF Staying
  <2>3. \A x : x \in Staying' <=> x \in Staying
    BY <1>5, <1>7, <2>1, <2>2
  <2>4. QED
    BY <1>5, <1>7, <2>2, <2>3
<1>10. Forest(order, hdr, Staying)'
  <2>1. order \in Seq(1..Len(hdr)) /\ IsInjective(order)
    BY OrderFacts
  <2>2. \A a, b \in Shown \ {at} : Before(order', a, b) <=> Before(order, a, b)
    BY <1>4, <2>1, BeforeCut DEF Shown
  <2>3. Forest(order, hdr, Staying)
    BY DEF ShapeInv
  <2>4. Forest(order', hdr, Staying)
    BY <1>9, <2>2, <2>3, SameForest
  <2>5. QED
    BY <1>3, <1>9, <2>4
<1>11. Inherits(p)'
  BY <1>3 DEF Inherits, Answering
<1>12. ASSUME NEW q \in Procs \ {p} PROVE Inherits(q)'
  <2>1. \A x \in Shown : Kin(hdr'[x], hdr[x])
    BY <1>3, SameKin
  <2>2. QED
    BY <1>3, <2>1, OthersInherit
<1>13. QED
  BY <1>10, <1>11, <1>12

LEMMA FreeDoomedHeaderShape ==
    ASSUME OrderInv, ShapeInv, UNCHANGED alone, NEW p \in Procs, FreeDoomedHeader(p)
    PROVE  ShapeInv'
<1>1. /\ TypeOK /\ loc[p].pc = "freeheader" /\ Goto(p, "freebody") /\ "freebody" \in Pc
      /\ UNCHANGED <<hdr, order>>
  BY DEF OrderInv, PlacesInv, FreeDoomedHeader, At, Pc
<1>2. /\ loc'[p] = [loc[p] EXCEPT !.pc = "freebody"]
      /\ \A q \in Procs \ {p} : loc'[q] = loc[q]
  BY <1>1, GotoMoves
<1>3. loc'[p].pc = "freebody" /\ loc'[p].todo = loc[p].todo
  BY <1>1, <1>2, MemoryFacts DEF Memory
<1>4. \A n : Owes(loc'[p], n) <=> Owes(loc[p], n)
  BY <1>1, <1>3 DEF Owes
<1>5. QED
  BY <1>1, <1>2, <1>3, <1>4, DoomCalm DEF Deleting

LEMMA FreeDoomedBodyShape ==
    ASSUME OrderInv, ShapeInv, UNCHANGED alone, NEW p \in Procs, FreeDoomedBody(p)
    PROVE  ShapeInv'
<1> DEFINE old == loc[p].todo
           now == loc'[p].todo
<1>1. /\ loc[p].pc = "freebody" /\ loc[p].pc \in Deleting /\ Advance(p, 0)
      /\ UNCHANGED <<hdr, order>>
  BY DEF FreeDoomedBody, At, Deleting
<1>2. /\ TypeOK /\ loc[p].rq.op = "delete" /\ old \in Seq(Nat) /\ Len(old) > 0
  BY <1>1, DoomsFacts
<1>3. /\ \A q \in Procs \ {p} : loc'[q] = loc[q]
      /\ \/ loc'[p].pc = "done" /\ Len(old) = 1
         \/ /\ loc'[p].pc = "delete" /\ Len(now) = Len(old) - 1 /\ now \in Seq(Nat)
            /\ \A i \in 1..(Len(old) - 1) : now[i] = old[i + 1]
  <2>1. loc \in [Procs -> Memory] /\ loc[p] \in Memory
    BY <1>2, MemoryFacts
  <2>2. CASE Len(old) = 1
    BY <1>1, <1>2, <2>2, EndsIdle DEF Advance
  <2>3. CASE Len(old) # 1
    <3>1. loc' = [loc EXCEPT ![p].todo = Tail(@), ![p].code = 0, ![p].pc = "delete"]
      BY <1>1, <1>2, <2>3 DEF Advance
    <3>2. /\ loc'[p].pc = "delete" /\ now = Tail(old)
          /\ \A q \in Procs \ {p} : loc'[q] = loc[q]
      BY <2>1, <3>1 DEF Memory
    <3>3. /\ Len(Tail(old)) = Len(old) - 1 /\ Tail(old) \in Seq(Nat)
          /\ \A i \in 1..(Len(old) - 1) : Tail(old)[i] = old[i + 1]
      BY <1>2
    <3>4. QED
      BY <3>2, <3>3
  <2>4. QED
    BY <2>2, <2>3
<1> HIDE DEF old, now
<1>4. \A n : Owes(loc'[p], n) <=> Owes(loc[p], n)
  <2>1. \A n : Owes(loc[p], n) <=> \E i \in 1..Len(old) : i > 1 /\ old[i] = n
    <3>1. \A n : Owes(loc[p], n) <=> \E i \in DOMAIN old : old[i] = n /\ i > 1
      BY <1>1 DEF Owes, old
    <3>2. DOMAIN old = 1..Len(old)
      BY <1>2
    <3>3. QED
      BY <3>1, <3>2
  <2>2. CASE loc'[p].pc = "done" /\ Len(old) = 1
    BY <2>1, <2>2 DEF Owes
  <2>3. CASE /\ loc'[p].pc = "delete" /\ Len(now) = Len(old) - 1 /\ now \in Seq(Nat)
             /\ \A i \in 1..(Len(old) - 1) : now[i] = old[i + 1]
    <3>1. \A n : Owes(loc'[p], n) <=> \E i \in 1..(Len(old) - 1) : now[i] = n
      BY <2>3 DEF Owes, now
    <3>2. \A n : Owes(loc'[p], n) <=> \E i \in 1..(Len(old) - 1) : old[i + 1] = n
      BY <2>3, <3>1
    <3>3. Len(old) \in Nat
      BY <1>2
    <3>4. ASSUME NEW n
          PROVE  (\E i \in 1..(Len(old) - 1) : old[i + 1] = n) <=>
                 (\E i \in 1..Len(old) : i > 1 /\ old[i] = n)
      <4>1. ASSUME NEW i \in 1..Len(old), i > 1, old[i] = n
            PROVE  \E j \in 1..(Len(old) - 1) : old[j + 1] = n
        <5>1. i - 1 \in 1..(Len(old) - 1) /\ (i - 1) + 1 = i
          BY <3>3, <4>1
        <5>2. QED
          BY <4>1, <5>1
      <4>2. ASSUME NEW i \in 1..(Len(old) - 1), old[i + 1] = n
            PROVE  \E j \in 1..Len(old) : j > 1 /\ old[j] = n
        <5>1. i + 1 \in 1..Len(old) /\ i + 1 > 1
          BY <3>3
        <5>2. QED
          BY <4>2, <5>1
      <4>3. QED
        BY <4>1, <4>2
    <3>5. QED
      BY <2>1, <3>2, <3>4
  <2>4. QED
    BY <1>3, <2>2, <2>3
<1>5. loc'[p].pc \in Deleting \cup {"done"}
  BY <1>3 DEF Deleting
<1>6. QED
  BY <1>1, <1>3, <1>4, <1>5, DoomCalm

\* Once a request has died nothing more is promised.
LEMMA DieShape ==
    ASSUME OrderInv, NEW p \in Procs, p \in Mortal, Die(p)
    PROVE  ShapeInv'
  BY DEF KeepsAll, ShapeInv

LEMMA ShapeInit ==
    ASSUME Init PROVE ShapeInv
<1>1. PICK plan \in Plans :
         /\ hdr = plan.seed.hdr /\ order = plan.seed.order
         /\ loc = [p \in Procs |-> Idle("start", plan.asks[p])]
  BY DEF Init
<1>2. Settled(plan.seed)
  BY MsgStoreAssumption
<1>3. Threaded(order, hdr)
  BY <1>1, <1>2 DEF Settled
<1>4. PlacesInv
  BY PlacesInit
<1>5. /\ order \in Seq(1..Len(hdr)) /\ IsInjective(order)
      /\ \A x \in ToSet(order) : hdr[x].level \in Nat
  <2>1. TypeOK /\ order \in Seq(1..Len(hdr)) /\ IsInjective(order) /\ hdr \in Seq(Header)
    BY <1>4 DEF PlacesInv, PlacesOwned, PlacesNotShared, TypeOK
  <2>2. ToSet(order) \subseteq 1..Len(hdr)
    BY <2>1, SetOfList
  <2>3. \A x \in 1..Len(hdr) : hdr[x] \in Header
    BY <2>1
  <2>4. \A h \in Header : h.level \in Nat
    BY DEF Header
  <2>5. QED
    BY <2>1, <2>2, <2>3, <2>4
<1>6. Forest(order, hdr, Shown)
  BY <1>3, <1>5, ThreadedForest DEF Shown
<1>7. \A p \in Procs : loc[p].pc = "start" /\ loc[p].msg.thread = 0
  BY <1>1 DEF Idle, NewHeader
<1>8. Staying = Shown
  BY <1>7, AllStay DEF Deleting
<1>9. \A p \in Procs : Inherits(p)
  BY <1>7 DEF Inherits, Answering
<1>10. QED
  BY <1>6, <1>8, <1>9 DEF ShapeInv

LEMMA ShapeStutter ==
    ASSUME ShapeInv, UNCHANGED vars PROVE ShapeInv'
<1>1. UNCHANGED <<hdr, vidx, order, alone, loc>>
  BY DEF vars, store
<1>2. Staying' = Staying
  BY <1>1 DEF Staying, Shown
<1>3. \A p \in Procs : Inherits(p) => Inherits(p)'
  BY <1>1 DEF Inherits
<1>4. KeepsAll' <=> KeepsAll
  BY <1>1, KeepsOnNext DEF KeepsOn
<1>5. Forest(order, hdr, Staying) => Forest(order, hdr, Staying)'
  BY <1>1, <1>2
<1>6. QED
  BY <1>3, <1>4, <1>5 DEF ShapeInv

LEMMA ShapeServe ==
    ASSUME OrderInv, PlacesInv', TallyInv, ShapeInv, NEW p \in Procs, Serve(p)
    PROVE  ShapeInv'
<1>1. UNCHANGED alone
  BY DEF Serve
<1>2. CASE Post(p)
  BY <1>1, <1>2, OtherShape, ReadParentShape, WriteBodyShape, TakeNumberShape,
     PutHeaderShape, CountThreadShape, ShowShape DEF Post
<1>3. CASE FindRoot(p) \/ SelectThread(p)
  BY <1>1, <1>3, OtherShape, SelectThreadShape
<1>4. CASE Delete(p)
  BY <1>1, <1>4, FindDoomedShape, DropNumberShape, ReadDoomedShape, CutMessageShape,
     FreeDoomedHeaderShape, FreeDoomedBodyShape DEF Delete
<1>5. CASE Edit(p)
  BY <1>1, <1>5, OtherShape, WritebackShape DEF Edit
<1>6. CASE ChangeFlags(p)
  BY <1>1, <1>6, OtherShape, WritebackShape DEF ChangeFlags
<1>7. QED
  BY <1>2, <1>3, <1>4, <1>5, <1>6 DEF Serve

LEMMA ShapeNext ==
    ASSUME OrderInv, TallyInv, ShapeInv, [Next]_vars PROVE ShapeInv'
<1>1. PlacesInv'
  BY PlacesNext DEF OrderInv
<1>2. CASE \E p \in Procs : Begin(p)
  BY <1>2, BeginShape DEF Begin
<1>3. CASE \E p \in Procs : Serve(p)
  BY <1>1, <1>3, ShapeServe
<1>4. CASE \E p \in Mortal : Die(p)
  BY <1>4, DieShape, MsgStoreAssumption
<1>5. CASE AllServed \/ UNCHANGED vars
  BY <1>5, ShapeStutter DEF AllServed
<1>6. QED
  BY <1>2, <1>3, <1>4, <1>5 DEF Next

\* Whatever orderly requests do, and wherever one is killed, messages stand in the
\* index below the messages they answer, parents before replies, and a reply
\* that DB_Base_InsertMessage puts there has what it takes from its parent.
THEOREM ShapeInvHolds ==
    Orderly /\ Spec => [](OrderInv /\ TallyInv /\ ShapeInv)
<1>1. Orderly /\ Init => OrderInv /\ TallyInv /\ ShapeInv
  BY OrderInit, TallyInit, ShapeInit
<1>2. OrderInv /\ TallyInv /\ ShapeInv /\ [Next]_vars
         => OrderInv' /\ TallyInv' /\ ShapeInv'
  BY OrderNext, TallyNext, ShapeNext
<1>3. QED
  BY <1>1, <1>2, PTL DEF Spec

\* Where requests keep what they have begun, between requests the index is a
\* forest: each message is at most one level below the one above it and each
\* reply names the head of its thread, whatever was posted, and whatever whole
\* thread or branch deleted, at once (DB_InsertMessage, DB_DeleteMessage).
THEOREM ThreadsStayTrees ==
    Orderly /\ Mortal = {} /\ Keeping /\ Spec => []ForestShape
<1> SUFFICES ASSUME Mortal = {}, Keeping PROVE Orderly /\ Spec => []ForestShape
  OBVIOUS
<1>1. ASSUME OrderInv, ShapeInv, Quiet PROVE Threaded(order, hdr)
  <2>1. \A p \in Procs : loc[p].pc \notin Deleting
    BY <1>1 DEF Quiet, Deleting
  <2>2. Forest(order, hdr, Shown)
    BY <1>1, <2>1, AllStay DEF ShapeInv, KeepsAll
  <2>3. /\ order \in Seq(1..Len(hdr)) /\ IsInjective(order)
        /\ \A x \in ToSet(order) : hdr[x].level \in Nat
    BY <1>1, OrderFacts DEF Shown
  <2>4. QED
    BY <2>2, <2>3, ThreadedForest DEF Shown
<1>2. OrderInv /\ ShapeInv => ForestShape
  BY <1>1 DEF ForestShape
<1>3. QED
  BY <1>2, ShapeInvHolds, PTL

\* What a step puts into the index is a message of its own.
LEMMA ShowsOnly ==
    ASSUME OrderInv, [Next]_vars
    PROVE  \/ Shown' \subseteq Shown
           \/ \E p \in Procs : (IndexReply(p) \/ IndexThread(p)) /\ UNCHANGED alone
<1>1. UNCHANGED order => Shown' \subseteq Shown
  BY DEF Shown
<1>2. ASSUME NEW p \in Procs, Serve(p)
      PROVE  UNCHANGED order \/ CutMessage(p) \/ IndexReply(p) \/ IndexThread(p)
  <2>1. Post(p) => UNCHANGED order \/ IndexReply(p) \/ IndexThread(p)
    <3>1. FindParent(p) \/ ReadParent(p) => UNCHANGED order
      BY DEF FindParent, ReadParent, store
    <3>2. WriteBody(p) => UNCHANGED order
      BY DEF WriteBody
    <3>3. TakeNumber(p) \/ PutHeader(p) \/ CountThread(p) => UNCHANGED order
      BY DEF TakeNumber, PutHeader, CountThread
    <3>4. QED
      BY <3>1, <3>2, <3>3 DEF Post
  <2>2. FindRoot(p) \/ SelectThread(p) => UNCHANGED order
    <3>1. FindRoot(p) => UNCHANGED order
      BY DEF FindRoot, store
    <3>2. SelectThread(p) => UNCHANGED order
      BY DEF SelectThread, store
    <3>3. QED
      BY <3>1, <3>2
  <2>3. Delete(p) => UNCHANGED order \/ CutMessage(p)
    BY DEF Delete, FindDoomed, DropNumber, ReadDoomed, FreeDoomedHeader, FreeDoomedBody, store
  <2>4. Edit(p) => UNCHANGED order
    <3>1. FindEdited(p) => UNCHANGED order
      BY DEF FindEdited, store
    <3>2. ReadEdited(p) => UNCHANGED order
      BY DEF ReadEdited, store
    <3>3. ResizeBody(p) => UNCHANGED order
      BY DEF ResizeBody
    <3>4. MoveBody(p) => UNCHANGED order
      BY DEF MoveBody
    <3>5. RewriteHeader(p) => UNCHANGED order
      BY DEF RewriteHeader
    <3>6. QED
      BY <3>1, <3>2, <3>3, <3>4, <3>5 DEF Edit
  <2>5. ChangeFlags(p) => UNCHANGED order
    BY DEF ChangeFlags, FindFlagged, OnlyRead, ReadFlagged, StoreFlagged, store
  <2>6. QED
    BY <1>2, <2>1, <2>2, <2>3, <2>4, <2>5 DEF Serve
<1>3. ASSUME NEW p \in Procs, CutMessage(p) PROVE Shown' \subseteq Shown
  BY <1>3, CutFacts
<1>4. ASSUME NEW p, Begin(p) \/ Die(p) PROVE UNCHANGED order
  BY <1>4 DEF Begin, Die, store
<1>5. AllServed \/ UNCHANGED vars => UNCHANGED order
  BY DEF AllServed, vars, store
<1>6. \A p \in Procs : Serve(p) => UNCHANGED alone
  BY DEF Serve
<1>7. QED
  BY <1>1, <1>2, <1>3, <1>4, <1>5, <1>6 DEF Next

\* Where requests come one after the other, a reply has the flags of the
\* message above it that is one level up.
LEMMA NewInherits ==
    ASSUME OrderInv, TallyInv, ShapeInv, [Next]_vars, KeepsAll, alone,
           NEW m \in Shown' \ Shown, hdr'[m].level > 0
    PROVE  hdr'[m].flags = hdr'[ParentOf(order',
                 [n \in Shown' |-> hdr'[n].level],
                 [n \in Shown' |-> hdr'[n].thread], m)].flags
<1> DEFINE level == [n \in Shown' |-> hdr'[n].level]
           thread == [n \in Shown' |-> hdr'[n].thread]
<1>1. PICK p \in Procs : (IndexReply(p) \/ IndexThread(p)) /\ UNCHANGED alone
  BY ShowsOnly
<1>2. /\ \/ loc[p].pc = "index" /\ loc[p].rq.vi # 0
         \/ loc[p].pc = "append"
      /\ UNCHANGED <<hdr, vidx>> /\ Alike(loc[p].msg, hdr[m])
      /\ m = PlaceOf(p) /\ m \in DOMAIN hdr \ Shown /\ Shown' = Shown \cup {m}
  BY <1>1, ShowFacts
<1>3. loc[p].pc = "index" /\ loc[p].rq.vi # 0
  <2>1. loc[p].pc # "append"
    BY <1>2 DEF TallyInv, Ranked, ShapeInv, Inherits, Answering, Alike, Kin
  <2>2. QED
    BY <1>2, <2>1
<1>4. PICK at \in Shown : at = loc[p].at
  BY <1>3 DEF OrderInv, Own, Answers, Posting
<1>5. /\ hdr[m].level = hdr[at].level + 1 /\ hdr[m].thread = HeadOf(hdr[at], at)
      /\ hdr[m].flags = hdr[at].flags
  <2>1. Inherits(p)
    BY DEF ShapeInv
  <2>2. vidx[loc[p].msg.vi] = m
    BY <1>2 DEF PlaceOf
  <2>3. QED
    BY <1>2, <1>3, <1>4, <2>1, <2>2 DEF Inherits, Answering, Alike, Kin
<1>6. order' = ReplyAfter(order, at, m)
  BY <1>1, <1>2, <1>3, <1>4 DEF IndexReply, IndexThread, Indexed, At, Shown
<1>7. /\ order \in Seq(1..Len(hdr)) /\ IsInjective(order) /\ Shown = ToSet(order)
      /\ order' \in Seq(1..Len(hdr)) /\ IsInjective(order') /\ Shown' = ToSet(order')
      /\ m \in 1..Len(hdr) /\ \A x \in Shown : hdr[x].level \in Nat
  <2>1. PlacesInv'
    BY PlacesNext DEF OrderInv
  <2>2. order' \in Seq(1..Len(hdr')) /\ IsInjective(order')
    BY <2>1 DEF PlacesInv, PlacesOwned, PlacesNotShared, TypeOK
  <2>3. m \in 1..Len(hdr)
    BY <1>2, ShownFacts DEF OrderInv, PlacesInv
  <2>4. QED
    BY <1>2, <2>2, <2>3, OrderFacts DEF Shown
<1>8. /\ \A a, b \in Shown : Before(order', a, b) <=> Before(order, a, b)
      /\ \A a \in Shown : Before(order', a, m) <=> a = at \/ Before(order, a, at)
  BY <1>2, <1>4, <1>6, <1>7, BeforeReply
<1>9. /\ \A a : ~Before(order, a, a) /\ ~Before(order', a, a)
      /\ \A a, b, c : Before(order, a, b) /\ Before(order, b, c) => Before(order, a, c)
  BY <1>7, BeforeFacts
<1>10. Before(order', at, m) /\ \A c \in Shown' : ~(Before(order', at, c) /\ Before(order', c, m))
  BY <1>2, <1>4, <1>8, <1>9
<1>11. HeadOf(hdr[at], at) \in Shown
       /\ (HeadOf(hdr[at], at) = at \/ Before(order', HeadOf(hdr[at], at), at))
  <2>1. Forest(order, hdr, Shown)
    <3>1. Staying = Shown
      BY <1>3, ShowsAlone, AllStay DEF Posting
    <3>2. QED
      BY <3>1 DEF ShapeInv
  <2>2. CASE hdr[at].level > 0
    <3>1. Rooted(order, hdr, Shown, at)
      BY <1>4, <2>1, <2>2 DEF Forest
    <3>2. QED
      BY <1>4, <1>8, <2>2, <3>1 DEF Rooted, HeadOf
  <2>3. CASE ~(hdr[at].level > 0)
    BY <1>4, <2>3 DEF HeadOf
  <2>4. QED
    BY <2>2, <2>3
<1>12. /\ level[m] = hdr[m].level /\ level[at] = hdr[at].level
       /\ thread[m] = hdr[m].thread
  BY <1>2, <1>4
<1> HIDE DEF level, thread
<1>13. ParentOf(order', level, thread, m) = at
  <2>1. /\ at \in ToSet(order') /\ m \in ToSet(order')
        /\ level[at] + 1 = level[m] /\ thread[m] \in ToSet(order')
        /\ thread[m] = at \/ Before(order', thread[m], at)
    BY <1>2, <1>4, <1>5, <1>7, <1>11, <1>12
  <2>2. \A c \in ToSet(order') : ~(Before(order', at, c) /\ Before(order', c, m))
    BY <1>7, <1>10
  <2>3. QED
    BY <1>7, <1>10, <2>1, <2>2, ParentFound
<1>14. QED
  BY <1>2, <1>5, <1>13 DEF level, thread

\* A reply arrives with the flags of the message it stands under, so none is
\* open in a closed thread or shown in a hidden one (DB_InsertMessage), where
\* requests come one after the other and none is killed.
THEOREM RepliesTakeAfter == Orderly /\ Mortal = {} /\ Spec => RepliesInherit
<1> SUFFICES ASSUME Orderly, Mortal = {} PROVE Spec => RepliesInherit
  OBVIOUS
<1> DEFINE Alikes == alone => \A m \in (Shown' \ Shown) :
          hdr'[m].level > 0 =>
              hdr'[m].flags = hdr'[ParentOf(order',
                    [n \in Shown' |-> hdr'[n].level],
                    [n \in Shown' |-> hdr'[n].thread], m)].flags
<1>1. OrderInv /\ TallyInv /\ ShapeInv /\ [Next]_vars => Alikes
  BY NewInherits DEF KeepsAll
<1>2. OrderInv /\ TallyInv /\ ShapeInv /\ [Next]_vars => [Alikes]_vars
  BY <1>1
<1>3. Spec => [](OrderInv /\ TallyInv /\ ShapeInv)
  BY ShapeInvHolds
<1>4. QED
  BY <1>2, <1>3, PTL DEF Spec, RepliesInherit
=============================================================================
