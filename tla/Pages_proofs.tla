----------------------------- MODULE Pages_proofs ---------------------------
(***************************************************************************)
(* What is shown of the index: the index page by threads, and the thread   *)
(* below a message, for any depth of replies and any number of messages.   *)
(* On both a level is enough to remember what was hidden or rolled: a few  *)
(* facts say what it tells of the messages above the next one, whatever    *)
(* came before.  And the index itself: its file of runs implements the     *)
(* plain list of messages, whose levels describe trees.                    *)
(***************************************************************************)
EXTENDS IndexPage, ThreadPage, MsgIndex, ListLemmas, FiniteSetTheorems

-----------------------------------------------------------------------------
\* A message below the one shown last, and not right below it, comes under one
\* left out: that level or a smaller one is remembered, and all under it is
\* left out.
LeftOutAbove ==
    view.kind # "xml" /\ ll + 1 < Len(path) =>
        invflag \in 0..(ll + 1) /\ (collapsed \/ ~view.super)

\* Under a hidden message its level or a smaller one is remembered, for all but
\* superusers.
HiddenAbove ==
    ~view.super =>
        \A i \in 1..Len(path) : path[i].hidden => invflag \in 0..(i - 1)

\* In a thread that is rolled as a whole, or of a topic not asked for, the root's
\* level is remembered.
FoldedAbove ==
    path # <<>> /\ (path[1].off \/ path[1].rolled) => invflag = 0 /\ collapsed

\* A message printed or held back.
Allowed(e) == ~e.off /\ ~e.folded /\ (e.secret => view.super)

\* The one held back knows how many messages were left out since.
HeldCounted ==
    \A i \in DOMAIN pending : skipped = pending[i].below /\ muted = pending[i].over

ReadingInv == state = "reading" => LeftOutAbove /\ HiddenAbove /\ FoldedAbove

PageInv ==
    /\ TypeOK /\ ListsBalanced /\ ReadingInv /\ HeldCounted /\ skipped <= read
    /\ \A e \in HeldOrPrinted : Allowed(e)

-----------------------------------------------------------------------------
(* What is decided of a message. *)
IsFate(fate) == fate.inv \in -1..MaxLevel /\ fate.col \in BOOLEAN /\ fate.show \in BOOLEAN

\* What is left out is remembered, and what is hidden is left out for all but
\* superusers.
Remembered(m, fate) ==
    /\ ~fate.show => fate.inv \in 0..m.level /\ (fate.col \/ ~view.super)
    /\ m.hidden /\ ~view.super => ~fate.show

\* Under what is remembered nothing changes.
LEMMA TurnFacts ==
    ASSUME IndexPageConstants, view \in View, NEW m \in Message,
           NEW inv \in -1..MaxLevel, NEW col \in BOOLEAN
    PROVE  /\ IsFate(Turn(m, inv, col))
           /\ Remembered(m, Turn(m, inv, col))
           /\ inv # -1 /\ inv < m.level => Turn(m, inv, col) = Fate(inv, col, view.super /\ ~col)
           /\ m.level = 0 /\ m.rolled /\ (inv = -1 \/ (inv = 0 /\ col)) =>
                 Turn(m, inv, col).inv = 0 /\ Turn(m, inv, col).col
<1> DEFINE fate == Turn(m, inv, col)
<1>1. /\ m.level \in 0..MaxLevel /\ MaxLevel \in Nat
      /\ m.hidden \in BOOLEAN /\ m.rolled \in BOOLEAN /\ view.super \in BOOLEAN
  BY DEF Message, View, IndexPageConstants
<1>2. CASE inv = -1 /\ m.rolled
  <2>1. fate = Fate(m.level, TRUE, ~m.hidden \/ view.super)
    BY <1>2 DEF Turn
  <2>2. fate.inv = m.level /\ fate.col = TRUE
    BY <2>1 DEF Fate
  <2>3. fate.show = (~m.hidden \/ view.super)
    BY <2>1 DEF Fate
  <2>4. IsFate(fate)
    <3>1. fate.show \in BOOLEAN
      BY <2>3, Zenon
    <3>2. fate.col \in BOOLEAN
      BY <2>2, Zenon
    <3>3. fate.inv \in -1..MaxLevel
      BY <1>1, <2>2
    <3>4. QED
      BY <3>1, <3>2, <3>3 DEF IsFate
  <2>5. ~fate.show => m.hidden /\ ~view.super
    BY <1>1, <2>3, Zenon
  <2>6. m.hidden /\ ~view.super => ~fate.show
    BY <2>3, Zenon
  <2>7. Remembered(m, fate)
    BY <1>1, <2>2, <2>5, <2>6 DEF Remembered
  <2>8. QED
    BY <1>2, <2>2, <2>4, <2>7
<1>3. CASE inv = -1 /\ m.hidden /\ ~m.rolled
  <2>1. fate = Fate(m.level, col, view.super /\ ~col)
    BY <1>3 DEF Turn
  <2>2. QED
    BY <1>1, <1>3, <2>1 DEF Fate, IsFate, Remembered
<1>4. CASE inv = -1 /\ ~m.hidden /\ ~m.rolled
  <2>1. fate = Fate(-1, col, TRUE)
    BY <1>4 DEF Turn
  <2>2. fate.inv = -1 /\ fate.col = col /\ fate.show = TRUE
    BY <2>1 DEF Fate
  <2>3. IsFate(fate) /\ Remembered(m, fate)
    BY <1>1, <1>4, <2>2 DEF IsFate, Remembered
  <2>4. QED
    BY <1>4, <2>2, <2>3
<1>5. CASE inv # -1 /\ inv >= m.level /\ m.hidden
  <2>0. ~(inv < m.level)
    BY <1>1, <1>5
  <2>1. fate = Fate(m.level, IF view.super THEN m.rolled ELSE col, view.super)
    BY <1>5, <2>0 DEF Turn
  <2>2. QED
    BY <1>1, <1>5, <2>1 DEF Fate, IsFate, Remembered
<1>6. CASE inv # -1 /\ inv >= m.level /\ ~m.hidden
  <2>0. ~(inv < m.level)
    BY <1>1, <1>6
  <2>1. fate = Fate(IF m.rolled THEN inv ELSE -1, m.rolled, TRUE)
    BY <1>6, <2>0 DEF Turn
  <2>2. QED
    BY <1>1, <1>6, <2>1 DEF Fate, IsFate, Remembered
<1>7. CASE inv # -1 /\ inv < m.level
  <2>0. ~(inv >= m.level)
    BY <1>1, <1>7
  <2>1. fate = Fate(inv, col, view.super /\ ~col)
    BY <1>7, <2>0 DEF Turn
  <2>2. QED
    BY <1>1, <1>7, <2>1 DEF Fate, IsFate, Remembered
<1>8. QED
  BY <1>1, <1>2, <1>3, <1>4, <1>5, <1>6, <1>7

LEMMA FateFacts ==
    ASSUME IndexPageConstants, TypeOK, NEW m \in Message
    PROVE  /\ IsFate(FateOf(m)) /\ Remembered(m, FateOf(m))
           /\ m.level > 0 /\ invflag \in 0..(m.level - 1) =>
                 FateOf(m) = Fate(invflag, collapsed, view.super /\ ~collapsed)
           /\ m.level = 0 /\ m.rolled => FateOf(m).inv = 0 /\ FateOf(m).col
<1>1. /\ m.level \in 0..MaxLevel /\ MaxLevel \in Nat /\ view \in View
      /\ m.hidden \in BOOLEAN /\ m.rolled \in BOOLEAN /\ view.super \in BOOLEAN
      /\ invflag \in -1..MaxLevel /\ collapsed \in BOOLEAN
  BY DEF Message, View, IndexPageConstants, TypeOK
<1>2. m.level = 0 => ~(m.level > 0)
  BY <1>1
<1>3. CASE m.level > 0
  <2>1. FateOf(m) = Turn(m, invflag, collapsed)
    <3>1. m.level # 0
      BY <1>1, <1>3
    <3>2. QED
      BY <1>3, <3>1 DEF FateOf
  <2>2. QED
    BY <1>1, <1>3, <2>1, TurnFacts
<1>4. CASE m.level = 0 /\ view.kind = "threads"
  <2>1. FateOf(m) = Turn(m, -1, FALSE)
    BY <1>4 DEF FateOf
  <2>2. -1 \in -1..MaxLevel
    BY <1>1
  <2>3. \A inv \in -1..MaxLevel, col \in BOOLEAN :
           IsFate(Turn(m, inv, col)) /\ Remembered(m, Turn(m, inv, col))
    <3>1. TAKE inv \in -1..MaxLevel, col \in BOOLEAN
    <3>2. QED
      BY <1>1, TurnFacts
  <2>4. FALSE \in BOOLEAN
    OBVIOUS
  <2>5. IsFate(FateOf(m)) /\ Remembered(m, FateOf(m))
    BY <2>1, <2>2, <2>3, <2>4, Zenon
  <2>6. ASSUME m.rolled
        PROVE  FateOf(m) = Fate(m.level, TRUE, ~m.hidden \/ view.super)
    BY <2>1, <2>6 DEF Turn
  <2>7. m.rolled => FateOf(m).inv = m.level /\ FateOf(m).col = TRUE
    BY <2>6 DEF Fate
  <2>8. QED
    BY <1>2, <1>4, <2>5, <2>7, Zenon
<1>5. CASE m.level = 0 /\ view.kind # "threads" /\ m.hidden
  <2>1. FateOf(m) = Turn(m, 0, TRUE)
    BY <1>5 DEF FateOf
  <2>2. 0 \in -1..MaxLevel
    BY <1>1
  <2>3. /\ IsFate(Turn(m, 0, TRUE)) /\ Remembered(m, Turn(m, 0, TRUE))
        /\ m.rolled => Turn(m, 0, TRUE).inv = 0 /\ Turn(m, 0, TRUE).col
    BY <1>1, <1>5, <2>2, TurnFacts, Zenon
  <2>4. QED
    BY <1>2, <1>5, <2>1, <2>3, Zenon
<1>6. CASE m.level = 0 /\ view.kind # "threads" /\ ~m.hidden
  <2>1. FateOf(m) = Fate(0, TRUE, TRUE)
    BY <1>2, <1>6 DEF FateOf
  <2>2. FateOf(m).inv = 0 /\ FateOf(m).col = TRUE /\ FateOf(m).show = TRUE
    BY <2>1 DEF Fate
  <2>3. FateOf(m).col \in BOOLEAN /\ FateOf(m).show \in BOOLEAN
    BY <2>2, Zenon
  <2>4. IsFate(FateOf(m))
    BY <1>1, <2>2, <2>3 DEF IsFate
  <2>5. Remembered(m, FateOf(m))
    BY <1>6, <2>2, Zenon DEF Remembered
  <2>6. QED
    BY <1>2, <1>6, <2>2, <2>4, <2>5, Zenon
<1>7. QED
  BY <1>1, <1>3, <1>4, <1>5, <1>6

-----------------------------------------------------------------------------
(* A message as it is read. *)
LEMMA PathFacts ==
    ASSUME IndexPageConstants, TypeOK, NEW m \in Message, Comes(m)
    PROVE  /\ state = "reading" /\ m.level \in 0..MaxLevel /\ m.level <= Len(path)
           /\ view' = view /\ read' = read + 1 /\ read' \in 0..MaxMessages
           /\ path' \in Seq(Line) /\ Len(path') = m.level + 1
           /\ \A i \in 1..m.level : path'[i] = path[i]
           /\ path'[m.level + 1] = [hidden |-> m.hidden, rolled |-> m.rolled, off |-> m.off]
           /\ m.level > 0 => ~m.off
<1> DEFINE line == [hidden |-> m.hidden, rolled |-> m.rolled, off |-> m.off]
<1>1. m.level \in 0..MaxLevel /\ MaxLevel \in Nat /\ MaxMessages \in Nat /\ line \in Line
  BY DEF Message, Line, IndexPageConstants
<1>2. state = "reading" /\ read < MaxMessages /\ m.level <= Len(path)
      /\ (m.level > 0 => ~m.off) /\ read' = read + 1 /\ view' = view
      /\ path' = Append(Above(m), line)
  BY DEF Comes
<1>3. path \in Seq(Line) /\ Len(path) \in Nat /\ read \in 0..MaxMessages
  BY DEF TypeOK
<1>4. /\ Above(m) \in Seq(Line) /\ Len(Above(m)) = m.level
      /\ \A i \in 1..m.level : Above(m)[i] = path[i]
  BY <1>1, <1>2, <1>3 DEF Above
<1>5. /\ path' \in Seq(Line) /\ Len(path') = m.level + 1
      /\ \A i \in 1..m.level : path'[i] = Above(m)[i]
      /\ path'[m.level + 1] = line
  BY <1>1, <1>2, <1>4
<1>6. QED
  BY <1>1, <1>2, <1>3, <1>4, <1>5

(* The one held back, as it is counted for. *)
LEMMA PassedFacts ==
    ASSUME TypeOK, NEW m \in Message
    PROVE  /\ Passed(m) \in Seq(Told) /\ Len(Passed(m)) = Len(pending)
           /\ \A i \in DOMAIN pending :
                /\ Passed(m)[i].off = pending[i].off
                /\ Passed(m)[i].folded = pending[i].folded
                /\ Passed(m)[i].secret = pending[i].secret
                /\ m.level = 0 => Passed(m)[i].over /\ Passed(m)[i].below = pending[i].below
                /\ m.level # 0 /\ pending[i].over => Passed(m)[i] = pending[i]
                /\ m.level # 0 /\ ~pending[i].over =>
                      Passed(m)[i].below = pending[i].below + 1 /\ ~Passed(m)[i].over
<1>1. /\ pending \in Seq(Told) /\ Len(pending) \in Nat
      /\ DOMAIN pending = 1..Len(pending)
  BY DEF TypeOK
<1>2. ASSUME NEW i \in DOMAIN pending
      PROVE  /\ Passed(m)[i] \in Told
             /\ Passed(m)[i].off = pending[i].off
             /\ Passed(m)[i].folded = pending[i].folded
             /\ Passed(m)[i].secret = pending[i].secret
             /\ m.level = 0 => Passed(m)[i].over /\ Passed(m)[i].below = pending[i].below
             /\ m.level # 0 /\ pending[i].over => Passed(m)[i] = pending[i]
             /\ m.level # 0 /\ ~pending[i].over =>
                   Passed(m)[i].below = pending[i].below + 1 /\ ~Passed(m)[i].over
  <2>1. pending[i] \in Told
    BY <1>1
  <2>2. Passed(m)[i] = IF m.level = 0 THEN [pending[i] EXCEPT !.over = TRUE]
                       ELSE IF pending[i].over THEN pending[i]
                       ELSE [pending[i] EXCEPT !.below = @ + 1]
    BY DEF Passed
  <2>3. CASE m.level = 0
    <3>1. Passed(m)[i] = [pending[i] EXCEPT !.over = TRUE]
      BY <2>2, <2>3
    <3>2. QED
      BY <2>1, <2>3, <3>1 DEF Told
  <2>4. CASE m.level # 0 /\ pending[i].over
    <3>1. Passed(m)[i] = pending[i]
      BY <2>2, <2>4
    <3>2. QED
      BY <2>1, <2>4, <3>1
  <2>5. CASE m.level # 0 /\ ~pending[i].over
    <3>1. Passed(m)[i] = [pending[i] EXCEPT !.below = @ + 1]
      BY <2>2, <2>5
    <3>2. QED
      BY <2>1, <2>5, <3>1 DEF Told
  <2>6. QED
    BY <2>3, <2>4, <2>5
<1>3. Passed(m) \in [1..Len(pending) -> Told]
  BY <1>1, <1>2 DEF Passed
<1>4. Passed(m) \in Seq(Told) /\ Len(Passed(m)) = Len(pending)
  BY <1>1, <1>3, SeqDef, LenProperties
<1>5. QED
  BY <1>2, <1>4

(* A message under what is remembered, that is not right below it, is left out
   or shown to superusers; where it is shown, what is above it was shown. *)
LEMMA ShownAt ==
    ASSUME IndexPageConstants, TypeOK, ReadingInv,
           NEW m \in Message, Comes(m), ~m.off, FateOf(m).show
    PROVE  /\ view.kind # "xml" => m.level <= ll + 1
           /\ Allowed(Entry(path'))
<1>1. /\ state = "reading" /\ m.level \in 0..MaxLevel /\ m.level <= Len(path)
      /\ path' \in Seq(Line) /\ Len(path') = m.level + 1
      /\ \A i \in 1..m.level : path'[i] = path[i]
      /\ path'[m.level + 1] = [hidden |-> m.hidden, rolled |-> m.rolled, off |-> m.off]
  BY PathFacts
<1>2. ll \in 0..MaxLevel /\ Len(path) \in Nat /\ MaxLevel \in Nat
      /\ invflag \in -1..MaxLevel /\ collapsed \in BOOLEAN /\ view.super \in BOOLEAN
      /\ m.hidden \in BOOLEAN
  BY DEF TypeOK, IndexPageConstants, View, Message
<1>3. LeftOutAbove /\ HiddenAbove /\ FoldedAbove
  BY <1>1 DEF ReadingInv
<1>4. ASSUME m.level > 0, invflag \in 0..(m.level - 1)
      PROVE  view.super /\ ~collapsed
  <2>1. FateOf(m) = Fate(invflag, collapsed, view.super /\ ~collapsed)
    BY <1>4, FateFacts
  <2>2. Fate(invflag, collapsed, view.super /\ ~collapsed).show = (view.super /\ ~collapsed)
    BY DEF Fate
  <2>3. Fate(invflag, collapsed, view.super /\ ~collapsed).show
    BY <2>1, Zenon
  <2>4. QED
    BY <2>2, <2>3, Zenon
<1>5. ASSUME view.kind # "xml", m.level > ll + 1
      PROVE  FALSE
  <2>1. invflag \in 0..(ll + 1) /\ (collapsed \/ ~view.super)
    BY <1>1, <1>2, <1>3, <1>5 DEF LeftOutAbove
  <2>2. m.level > 0 /\ invflag \in 0..(m.level - 1)
    BY <1>1, <1>2, <1>5, <2>1
  <2>3. QED
    BY <1>4, <2>1, <2>2
<1>6. ASSUME view.super = FALSE, NEW i \in 1..Len(path'), path'[i].hidden
      PROVE  FALSE
  <2>1. CASE i = m.level + 1
    <3>1. m.hidden
      BY <1>1, <1>6, <2>1
    <3>2. ~FateOf(m).show
      BY <1>6, <3>1, FateFacts DEF Remembered
    <3>3. QED
      BY <3>2
  <2>2. CASE i \in 1..m.level
    <3>1. path[i].hidden /\ i \in 1..Len(path)
      BY <1>1, <1>2, <1>6, <2>2
    <3>2. invflag \in 0..(i - 1)
      BY <1>3, <1>6, <3>1 DEF HiddenAbove
    <3>3. m.level > 0 /\ invflag \in 0..(m.level - 1)
      BY <1>1, <2>2, <3>2
    <3>4. QED
      BY <1>4, <1>6, <3>3
  <2>3. QED
    BY <1>1, <2>1, <2>2
<1>7. ASSUME m.level > 0, path'[1].off \/ path'[1].rolled
      PROVE  FALSE
  <2>1. path[1].off \/ path[1].rolled
    BY <1>1, <1>7
  <2>2. path # <<>>
    BY <1>1, <1>2, <1>7
  <2>3. invflag = 0 /\ collapsed
    BY <1>3, <2>1, <2>2 DEF FoldedAbove
  <2>4. QED
    BY <1>1, <1>4, <1>7, <2>3
<1>8. ~path'[1].off
  BY <1>1, <1>7
<1>9. ~(path'[1].rolled /\ Len(path') > 1)
  BY <1>1, <1>7
<1>10. (\E i \in 1..Len(path') : path'[i].hidden) => view.super
  BY <1>2, <1>6
<1>11. Allowed(Entry(path'))
  BY <1>8, <1>9, <1>10 DEF Allowed, Entry
<1>12. QED
  BY <1>1, <1>2, <1>5, <1>11

(* Whether it is shown or left out, what is above the next message stays
   remembered. *)
LEMMA StaysRemembered ==
    ASSUME IndexPageConstants, TypeOK, ReadingInv,
           NEW m \in Message, Comes(m), ~m.off,
           invflag' = FateOf(m).inv, collapsed' = FateOf(m).col
    PROVE  HiddenAbove' /\ FoldedAbove'
<1>1. /\ state = "reading" /\ m.level \in 0..MaxLevel /\ m.level <= Len(path)
      /\ view' = view
      /\ path' \in Seq(Line) /\ Len(path') = m.level + 1
      /\ \A i \in 1..m.level : path'[i] = path[i]
      /\ path'[m.level + 1] = [hidden |-> m.hidden, rolled |-> m.rolled, off |-> m.off]
  BY PathFacts
<1>2. Len(path) \in Nat /\ invflag \in -1..MaxLevel /\ collapsed \in BOOLEAN
      /\ MaxLevel \in Nat
  BY DEF TypeOK, IndexPageConstants
<1>3. HiddenAbove /\ FoldedAbove
  BY <1>1 DEF ReadingInv
<1>4. ASSUME m.level > 0, invflag \in 0..(m.level - 1)
      PROVE  invflag' = invflag /\ collapsed' = collapsed
  <2>1. FateOf(m) = Fate(invflag, collapsed, view.super /\ ~collapsed)
    BY <1>4, FateFacts
  <2>2. FateOf(m).inv = invflag /\ FateOf(m).col = collapsed
    BY <2>1 DEF Fate
  <2>3. QED
    BY <2>2
<1>5. ASSUME ~view.super, NEW i \in 1..Len(path'), path'[i].hidden
      PROVE  invflag' \in 0..(i - 1)
  <2>1. CASE i = m.level + 1
    <3>1. m.hidden
      BY <1>1, <1>5, <2>1
    <3>2. ~FateOf(m).show
      BY <1>5, <3>1, FateFacts DEF Remembered
    <3>3. FateOf(m).inv \in 0..m.level
      BY <3>2, FateFacts DEF Remembered
    <3>4. QED
      BY <1>1, <2>1, <3>3
  <2>2. CASE i \in 1..m.level
    <3>1. path[i].hidden /\ i \in 1..Len(path)
      BY <1>1, <1>2, <1>5, <2>2
    <3>2. invflag \in 0..(i - 1)
      BY <1>3, <1>5, <3>1 DEF HiddenAbove
    <3>3. m.level > 0 /\ invflag \in 0..(m.level - 1)
      BY <1>1, <2>2, <3>2
    <3>4. QED
      BY <1>4, <3>2, <3>3
  <2>3. QED
    BY <1>1, <2>1, <2>2
<1>6. ASSUME path'[1].off \/ path'[1].rolled
      PROVE  invflag' = 0 /\ collapsed'
  <2>1. CASE m.level = 0
    <3>1. m.rolled
      BY <1>1, <1>6, <2>1
    <3>2. FateOf(m).inv = 0 /\ FateOf(m).col
      BY <2>1, <3>1, FateFacts
    <3>3. invflag' = 0
      BY <3>2
    <3>4. collapsed'
      BY <3>2, Zenon
    <3>5. QED
      BY <3>3, <3>4
  <2>2. CASE m.level > 0
    <3>1. (path[1].off \/ path[1].rolled) /\ path # <<>>
      BY <1>1, <1>2, <1>6, <2>2
    <3>2. invflag = 0 /\ collapsed
      BY <1>3, <3>1 DEF FoldedAbove
    <3>3. invflag \in 0..(m.level - 1)
      BY <1>1, <2>2, <3>2
    <3>4. invflag' = invflag /\ collapsed' = collapsed
      BY <1>4, <2>2, <3>3
    <3>5. collapsed'
      BY <1>2, <3>2, <3>4
    <3>6. invflag' = 0
      BY <3>2, <3>4
    <3>7. QED
      BY <3>5, <3>6
  <2>3. QED
    BY <1>1, <2>1, <2>2
<1>7. QED
  BY <1>1, <1>5, <1>6 DEF HiddenAbove, FoldedAbove

-----------------------------------------------------------------------------
(* The first page. *)
LEMMA InitHolds == ASSUME IndexPageConstants, Init PROVE PageInv
<1>1. /\ view \in View /\ path = <<>> /\ read = 0 /\ invflag = -1 /\ collapsed = FALSE
      /\ pending = <<>> /\ skipped = 0 /\ muted = FALSE /\ alrprn = 0 /\ ll = 0
      /\ opened = (IF view.kind = "xml" THEN 0 ELSE 1)
      /\ printed = {} /\ state = "reading"
  BY DEF Init
<1>2. MaxLevel \in Nat /\ MaxMessages \in Nat
  BY DEF IndexPageConstants
<1>3. /\ path \in Seq(Line) /\ Len(path) = 0 /\ pending \in Seq(Told) /\ Len(pending) = 0
      /\ DOMAIN pending = {}
  BY <1>1
<1>4. TypeOK
  <2>1. /\ read \in 0..MaxMessages /\ invflag \in -1..MaxLevel /\ skipped \in 0..MaxMessages
        /\ alrprn \in Nat /\ ll \in 0..MaxLevel /\ opened \in Nat
        /\ Len(path) <= MaxLevel + 1 /\ Len(pending) <= 1
    BY <1>1, <1>2, <1>3
  <2>2. collapsed \in BOOLEAN /\ muted \in BOOLEAN
    BY <1>1
  <2>3. QED
    BY <1>1, <1>3, <2>1, <2>2 DEF TypeOK
<1>5. ListsBalanced
  BY <1>1 DEF ListsBalanced
<1>6. ReadingInv
  BY <1>1, <1>3 DEF ReadingInv, LeftOutAbove, HiddenAbove, FoldedAbove
<1>7. HeldCounted
  BY <1>3 DEF HeldCounted
<1>8. \A e \in HeldOrPrinted : Allowed(e)
  BY <1>1, <1>3 DEF HeldOrPrinted
<1>9. QED
  BY <1>1, <1>4, <1>5, <1>6, <1>7, <1>8 DEF PageInv

(* The one held back, counted for, is still allowed. *)
LEMMA PassedAllowed ==
    ASSUME TypeOK, NEW m \in Message, pending' = Passed(m), printed' = {},
           view' = view, \A e \in HeldOrPrinted : Allowed(e)
    PROVE  \A e \in HeldOrPrinted' : Allowed(e)'
<1>1. DOMAIN pending = 1..Len(pending) /\ DOMAIN pending' = 1..Len(pending)
  BY PassedFacts, LenProperties DEF TypeOK
<1>2. ASSUME NEW i \in DOMAIN pending
      PROVE  Allowed(Passed(m)[i])
  <2>1. pending[i] \in HeldOrPrinted
    BY <1>2 DEF HeldOrPrinted
  <2>2. Allowed(pending[i])
    BY <2>1
  <2>3. /\ Passed(m)[i].off = pending[i].off
        /\ Passed(m)[i].folded = pending[i].folded
        /\ Passed(m)[i].secret = pending[i].secret
    BY <1>2, PassedFacts
  <2>4. QED
    BY <2>2, <2>3, Zenon DEF Allowed
<1>3. SUFFICES ASSUME NEW e \in HeldOrPrinted'
               PROVE  Allowed(e)'
  OBVIOUS
<1>4. PICK i \in DOMAIN pending' : e = pending'[i]
  BY <1>3 DEF HeldOrPrinted
<1>5. Allowed(Passed(m)[i]) /\ e = Passed(m)[i]
  BY <1>1, <1>2, <1>4
<1>6. QED
  BY <1>5 DEF Allowed

(* Reading a message that is left out. *)
LEMMA LeaveOutHolds ==
    ASSUME IndexPageConstants, PageInv, NEW m \in Message, LeaveOut(m)
    PROVE  PageInv'
<1>1. /\ Comes(m) /\ ~m.off /\ ~FateOf(m).show
      /\ invflag' = FateOf(m).inv /\ collapsed' = FateOf(m).col
      /\ muted' = Muted(m)
      /\ skipped' = (IF muted' THEN skipped ELSE skipped + 1)
      /\ printed' = {} /\ pending' = Passed(m)
      /\ alrprn' = alrprn /\ ll' = ll /\ opened' = opened /\ state' = state
  BY DEF LeaveOut
<1>2. /\ TypeOK /\ ListsBalanced /\ ReadingInv /\ HeldCounted /\ skipped <= read
      /\ \A e \in HeldOrPrinted : Allowed(e)
  BY DEF PageInv
<1>3. /\ state = "reading" /\ m.level \in 0..MaxLevel /\ m.level <= Len(path)
      /\ view' = view /\ read' = read + 1 /\ read' \in 0..MaxMessages
      /\ path' \in Seq(Line) /\ Len(path') = m.level + 1
  BY <1>1, <1>2, PathFacts
<1>4. IsFate(FateOf(m)) /\ Remembered(m, FateOf(m))
  BY <1>2, FateFacts
<1>5. /\ pending' \in Seq(Told) /\ Len(pending') = Len(pending)
      /\ DOMAIN pending' = DOMAIN pending
  BY <1>1, <1>2, PassedFacts, LenProperties DEF TypeOK
<1>6. MaxLevel \in Nat /\ MaxMessages \in Nat /\ skipped \in Nat /\ read \in Nat
      /\ muted \in BOOLEAN /\ ll \in 0..MaxLevel
  BY <1>2 DEF TypeOK, IndexPageConstants
<1>7. muted' = (muted \/ m.level = 0) /\ muted' \in BOOLEAN
  BY <1>1 DEF Muted
<1>8. skipped' \in Nat /\ skipped' <= read'
  BY <1>1, <1>2, <1>3, <1>6
<1>9. TypeOK'
  <2>1. path' \in Seq(Line) /\ Len(path') <= MaxLevel + 1 /\ skipped' \in 0..MaxMessages
    BY <1>3, <1>6, <1>8
  <2>2. invflag' \in -1..MaxLevel /\ collapsed' \in BOOLEAN
    BY <1>1, <1>4, Zenon DEF IsFate
  <2>3. QED
    BY <1>1, <1>2, <1>3, <1>5, <1>7, <2>1, <2>2 DEF TypeOK
<1>10. ListsBalanced'
  BY <1>1, <1>2, <1>3 DEF ListsBalanced
<1>11. LeftOutAbove'
  <2>1. SUFFICES ASSUME view.kind # "xml", ll < m.level
                 PROVE  invflag' \in 0..(ll + 1) /\ (collapsed' \/ ~view.super)
    BY <1>1, <1>3, <1>6 DEF LeftOutAbove
  <2>2. CASE m.level = ll + 1
    <3>1. FateOf(m).inv \in 0..m.level
      BY <1>1, <1>4, Zenon DEF Remembered
    <3>2. FateOf(m).col \/ ~view.super
      BY <1>1, <1>4, Zenon DEF Remembered
    <3>3. collapsed' \/ ~view.super
      BY <1>1, <3>2, Zenon
    <3>4. QED
      BY <1>1, <2>2, <3>1, <3>3
  <2>3. CASE m.level > ll + 1
    <3>1. invflag \in 0..(ll + 1) /\ (collapsed \/ ~view.super)
      BY <1>2, <1>3, <1>6, <2>1, <2>3 DEF ReadingInv, LeftOutAbove, TypeOK
    <3>2. m.level > 0 /\ invflag \in 0..(m.level - 1)
      BY <1>3, <1>6, <2>3, <3>1
    <3>3. FateOf(m) = Fate(invflag, collapsed, view.super /\ ~collapsed)
      BY <1>2, <3>2, FateFacts
    <3>4. FateOf(m).inv = invflag /\ FateOf(m).col = collapsed
      BY <3>3 DEF Fate
    <3>5. invflag' = invflag /\ collapsed' = collapsed /\ collapsed \in BOOLEAN
      BY <1>1, <1>2, <3>4 DEF TypeOK
    <3>6. QED
      BY <3>1, <3>5
  <2>4. QED
    BY <1>3, <1>6, <2>1, <2>2, <2>3
<1>12. ReadingInv'
  BY <1>1, <1>2, <1>11, StaysRemembered DEF ReadingInv
<1>13. HeldCounted'
  <2>1. SUFFICES ASSUME NEW i \in DOMAIN pending
                 PROVE  skipped' = Passed(m)[i].below /\ muted' = Passed(m)[i].over
    BY <1>1, <1>5 DEF HeldCounted
  <2>2. skipped = pending[i].below /\ muted = pending[i].over
        /\ pending[i].below \in Nat /\ pending[i].over \in BOOLEAN /\ Passed(m)[i] \in Told
    <3>1. pending[i] \in Told /\ Passed(m)[i] \in Told
      BY <1>1, <1>2, <1>5, <2>1, ElementOfSeq, LenProperties DEF TypeOK
    <3>2. QED
      BY <1>2, <2>1, <3>1 DEF HeldCounted, Told
  <2>3. Passed(m)[i].over \in BOOLEAN
    BY <2>2 DEF Told
  <2>4. CASE m.level = 0
    BY <1>1, <1>2, <1>7, <2>1, <2>2, <2>3, <2>4, PassedFacts
  <2>5. CASE m.level # 0 /\ pending[i].over
    BY <1>1, <1>2, <1>7, <2>1, <2>2, <2>3, <2>5, PassedFacts
  <2>6. CASE m.level # 0 /\ ~pending[i].over
    BY <1>1, <1>2, <1>7, <2>1, <2>2, <2>3, <2>6, PassedFacts
  <2>7. QED
    BY <2>4, <2>5, <2>6
<1>14. \A e \in HeldOrPrinted' : Allowed(e)'
  BY <1>1, <1>2, <1>3, PassedAllowed
<1>15. QED
  BY <1>8, <1>9, <1>10, <1>12, <1>13, <1>14 DEF PageInv

(* Reading the root of a thread of another topic. *)
LEMMA OffTopicHolds ==
    ASSUME IndexPageConstants, PageInv, NEW m \in Message, OffTopic(m)
    PROVE  PageInv'
<1>1. /\ Comes(m) /\ m.level = 0 /\ m.off
      /\ invflag' = 0 /\ collapsed' = TRUE /\ muted' = TRUE
      /\ printed' = {} /\ pending' = Passed(m)
      /\ skipped' = skipped /\ alrprn' = alrprn /\ ll' = ll /\ opened' = opened
      /\ state' = state
  BY DEF OffTopic
<1>2. /\ TypeOK /\ ListsBalanced /\ HeldCounted /\ skipped <= read
      /\ \A e \in HeldOrPrinted : Allowed(e)
  BY DEF PageInv
<1>3. /\ state = "reading" /\ view' = view
      /\ read' = read + 1 /\ read' \in 0..MaxMessages
      /\ path' \in Seq(Line) /\ Len(path') = 1
  <2>1. /\ state = "reading" /\ view' = view
        /\ read' = read + 1 /\ read' \in 0..MaxMessages
        /\ path' \in Seq(Line) /\ Len(path') = m.level + 1
    BY <1>1, <1>2, PathFacts
  <2>2. QED
    BY <1>1, <2>1
<1>4. /\ pending' \in Seq(Told) /\ Len(pending') = Len(pending)
      /\ DOMAIN pending' = DOMAIN pending
  BY <1>1, <1>2, PassedFacts, LenProperties DEF TypeOK
<1>5. MaxLevel \in Nat /\ MaxMessages \in Nat /\ skipped \in Nat /\ read \in Nat
      /\ ll \in 0..MaxLevel
  BY <1>2 DEF TypeOK, IndexPageConstants
<1>6. skipped' <= read' /\ skipped' \in 0..MaxMessages
  BY <1>1, <1>2, <1>3, <1>5
<1>7. TypeOK'
  <2>1. Len(path') <= MaxLevel + 1 /\ invflag' \in -1..MaxLevel
    BY <1>1, <1>3, <1>5
  <2>2. collapsed' \in BOOLEAN /\ muted' \in BOOLEAN
    BY <1>1
  <2>3. QED
    BY <1>1, <1>2, <1>3, <1>4, <1>6, <2>1, <2>2 DEF TypeOK
<1>8. ListsBalanced'
  BY <1>1, <1>2, <1>3 DEF ListsBalanced
<1>9. ReadingInv'
  <2>1. LeftOutAbove'
    BY <1>1, <1>3, <1>5 DEF LeftOutAbove
  <2>2. HiddenAbove'
    BY <1>1, <1>3 DEF HiddenAbove
  <2>3. FoldedAbove'
    BY <1>1 DEF FoldedAbove
  <2>4. QED
    BY <2>1, <2>2, <2>3 DEF ReadingInv
<1>10. HeldCounted'
  <2>1. SUFFICES ASSUME NEW i \in DOMAIN pending
                 PROVE  skipped' = Passed(m)[i].below /\ muted' = Passed(m)[i].over
    BY <1>1, <1>4 DEF HeldCounted
  <2>2. skipped = pending[i].below
    BY <1>2, <2>1 DEF HeldCounted
  <2>3. Passed(m)[i].over /\ Passed(m)[i].below = pending[i].below
    BY <1>1, <1>2, <2>1, PassedFacts
  <2>4. Passed(m)[i].over \in BOOLEAN
    <3>1. Passed(m)[i] \in Told
      BY <1>1, <1>2, <1>4, <2>1, ElementOfSeq, LenProperties DEF TypeOK
    <3>2. QED
      BY <3>1 DEF Told
  <2>5. QED
    BY <1>1, <2>2, <2>3, <2>4
<1>11. \A e \in HeldOrPrinted' : Allowed(e)'
  BY <1>1, <1>2, <1>3, PassedAllowed
<1>12. QED
  BY <1>6, <1>7, <1>8, <1>9, <1>10, <1>11 DEF PageInv

(* Reading a message that is shown. *)
LEMMA ShowHolds ==
    ASSUME IndexPageConstants, PageInv, NEW m \in Message, Show(m)
    PROVE  PageInv'
<1> DEFINE held == {pending[i] : i \in DOMAIN pending}
           mine == Entry(path')
<1>1. /\ Comes(m) /\ ~m.off /\ FateOf(m).show
      /\ invflag' = FateOf(m).inv /\ collapsed' = FateOf(m).col
      /\ alrprn' = (IF m.level = 0 THEN alrprn + 1 ELSE alrprn)
      /\ Nested(m)
      /\ pending' = (IF FateOf(m).col THEN <<mine>> ELSE <<>>)
      /\ printed' = (IF FateOf(m).col THEN held ELSE held \cup {mine})
      /\ state' = state
  BY DEF Show
<1>2. IF pending # <<>> \/ FateOf(m).col
        THEN skipped' = 0 /\ muted' = FALSE
        ELSE skipped' = skipped /\ muted' = muted
  BY DEF Show
<1>3. /\ TypeOK /\ ListsBalanced /\ ReadingInv /\ HeldCounted /\ skipped <= read
      /\ \A e \in HeldOrPrinted : Allowed(e)
  BY DEF PageInv
<1>4. /\ state = "reading" /\ m.level \in 0..MaxLevel /\ m.level <= Len(path)
      /\ view' = view /\ read' = read + 1 /\ read' \in 0..MaxMessages
      /\ path' \in Seq(Line) /\ Len(path') = m.level + 1
  BY <1>1, <1>3, PathFacts
<1>5. IsFate(FateOf(m))
  BY <1>3, FateFacts
<1>6. /\ view.kind # "xml" => m.level <= ll + 1
      /\ Allowed(mine)
  BY <1>1, <1>3, ShownAt
<1>7. MaxLevel \in Nat /\ MaxMessages \in Nat /\ skipped \in Nat /\ read \in Nat
      /\ ll \in 0..MaxLevel /\ opened \in Nat /\ alrprn \in Nat /\ muted \in BOOLEAN
  BY <1>3 DEF TypeOK, IndexPageConstants
<1>8. skipped' \in Nat /\ skipped' <= read' /\ muted' \in BOOLEAN
  <2>1. CASE pending # <<>> \/ FateOf(m).col
    <3>1. skipped' = 0 /\ muted' = FALSE
      BY <1>2, <2>1
    <3>2. skipped' \in Nat /\ skipped' <= read'
      BY <1>4, <1>7, <3>1
    <3>3. muted' \in BOOLEAN
      BY <3>1
    <3>4. QED
      BY <3>2, <3>3
  <2>2. CASE ~(pending # <<>> \/ FateOf(m).col)
    <3>1. skipped' = skipped /\ muted' = muted
      BY <1>2, <2>2
    <3>2. skipped' \in Nat /\ skipped' <= read'
      BY <1>3, <1>4, <1>7, <3>1
    <3>3. muted' \in BOOLEAN
      BY <1>7, <3>1, Zenon
    <3>4. QED
      BY <3>2, <3>3
  <2>3. QED
    BY <2>1, <2>2
<1>9. /\ ll' \in 0..MaxLevel /\ opened' \in Nat
      /\ opened' = IF view.kind = "xml" THEN 0 ELSE ll' + 1
      /\ view.kind # "xml" => ll' = m.level
  <2>1. CASE view.kind = "xml"
    BY <1>1, <1>3, <1>4, <1>7, <2>1 DEF Nested, ListsBalanced
  <2>2. CASE view.kind # "xml"
    <3>1. opened = ll + 1
      BY <1>3, <1>4, <2>2 DEF ListsBalanced
    <3>2. /\ ll' = m.level
          /\ opened' = IF m.level <= ll THEN opened - (ll - m.level) ELSE opened + 1
      BY <1>1, <2>2 DEF Nested
    <3>3. opened' = m.level + 1
      BY <1>4, <1>6, <1>7, <2>2, <3>1, <3>2
    <3>4. QED
      BY <1>4, <2>2, <3>2, <3>3
  <2>3. QED
    BY <2>1, <2>2
<1>10. mine \in Told
  <2>1. path'[1] \in Line
    BY <1>4, ElementOfSeq
  <2>2. /\ mine.level = Len(path') - 1
        /\ mine.off = path'[1].off /\ mine.below = 0 /\ mine.over = FALSE
    BY DEF Entry
  <2>3. /\ Len(path') - 1 \in Nat /\ path'[1].off \in BOOLEAN
    BY <1>4, <2>1 DEF Line
  <2>4. (\E i \in 1..Len(path') : path'[i].hidden) \in BOOLEAN
        /\ (path'[1].rolled /\ Len(path') > 1) \in BOOLEAN
    BY Zenon
  <2>5. FALSE \in BOOLEAN /\ 0 \in Nat
    OBVIOUS
  <2>6. QED
    BY <2>3, <2>4, <2>5 DEF Entry, Told
<1>11. /\ pending' \in Seq(Told) /\ Len(pending') <= 1
       /\ \A i \in DOMAIN pending' : FateOf(m).col /\ pending'[i] = mine
  <2>1. CASE FateOf(m).col
    <3>1. pending' = <<mine>>
      BY <1>1, <2>1
    <3>2. QED
      BY <1>10, <2>1, <3>1
  <2>2. CASE ~FateOf(m).col
    <3>1. pending' = <<>>
      BY <1>1, <2>2
    <3>2. QED
      BY <3>1
  <2>3. QED
    BY <2>1, <2>2
<1>12. TypeOK'
  <2>1. Len(path') <= MaxLevel + 1 /\ skipped' \in 0..MaxMessages /\ alrprn' \in Nat
    BY <1>1, <1>4, <1>7, <1>8
  <2>2. invflag' \in -1..MaxLevel /\ collapsed' \in BOOLEAN
    BY <1>1, <1>5, Zenon DEF IsFate
  <2>3. QED
    BY <1>1, <1>3, <1>4, <1>8, <1>9, <1>11, <2>1, <2>2 DEF TypeOK
<1>13. ListsBalanced'
  BY <1>1, <1>4, <1>9 DEF ListsBalanced
<1>14. ReadingInv'
  <2>1. LeftOutAbove'
    BY <1>4, <1>7, <1>9 DEF LeftOutAbove
  <2>2. QED
    BY <1>1, <1>3, <2>1, StaysRemembered DEF ReadingInv
<1>15. HeldCounted'
  <2>1. mine.below = 0 /\ mine.over = FALSE
    BY DEF Entry
  <2>2. ASSUME NEW i \in DOMAIN pending'
        PROVE  skipped' = pending'[i].below /\ muted' = pending'[i].over
    <3>1. FateOf(m).col /\ pending'[i] = mine
      BY <1>11, <2>2
    <3>2. skipped' = 0 /\ muted' = FALSE
      BY <1>2, <3>1
    <3>3. QED
      BY <2>1, <3>1, <3>2
  <2>3. QED
    BY <2>2 DEF HeldCounted
<1>16. \A e \in HeldOrPrinted' : Allowed(e)'
  <2>1. SUFFICES ASSUME NEW e \in HeldOrPrinted'
                 PROVE  Allowed(e)
    BY <1>4 DEF Allowed
  <2>2. e \in held \/ e = mine
    BY <1>1, <1>11, <2>1 DEF HeldOrPrinted
  <2>3. e \in held => e \in HeldOrPrinted
    BY DEF HeldOrPrinted
  <2>4. QED
    BY <1>3, <1>6, <2>2, <2>3
<1>17. QED
  BY <1>8, <1>12, <1>13, <1>14, <1>15, <1>16 DEF PageInv

(* The page ends before a root, at a date or at a number of threads. *)
LEMMA StopHolds ==
    ASSUME IndexPageConstants, PageInv, NEW m \in Message,
           StopByDate(m) \/ StopByCount(m)
    PROVE  PageInv'
<1>1. /\ Comes(m) /\ state' \in {"old", "enough"}
      /\ printed' = {} /\ pending' = pending /\ skipped' = skipped /\ muted' = muted
      /\ ll' = ll /\ opened' = opened
  BY DEF StopByDate, StopByCount
<1>2. /\ TypeOK /\ ListsBalanced /\ HeldCounted /\ skipped <= read
      /\ \A e \in HeldOrPrinted : Allowed(e)
  BY DEF PageInv
<1>3. /\ state = "reading" /\ view' = view /\ m.level \in 0..MaxLevel
      /\ read' = read + 1 /\ read' \in 0..MaxMessages
      /\ path' \in Seq(Line) /\ Len(path') = m.level + 1
  BY <1>1, <1>2, PathFacts
<1>4. MaxLevel \in Nat /\ MaxMessages \in Nat /\ skipped \in Nat /\ read \in Nat
      /\ alrprn \in Nat
  BY <1>2 DEF TypeOK, IndexPageConstants
<1>5. skipped' <= read'
  BY <1>1, <1>2, <1>3, <1>4
<1>6. invflag' \in -1..MaxLevel /\ collapsed' \in BOOLEAN /\ alrprn' \in Nat
  <2>1. CASE StopByDate(m)
    <3>1. invflag' = -1 /\ collapsed' = FALSE /\ alrprn' = alrprn
      BY <2>1 DEF StopByDate
    <3>2. invflag' \in -1..MaxLevel /\ alrprn' \in Nat
      BY <1>4, <3>1
    <3>3. collapsed' \in BOOLEAN
      BY <3>1
    <3>4. QED
      BY <3>2, <3>3
  <2>2. CASE StopByCount(m)
    <3>1. invflag' = FateOf(m).inv /\ collapsed' = FateOf(m).col /\ alrprn' = alrprn + 1
      BY <2>2 DEF StopByCount
    <3>2. IsFate(FateOf(m))
      BY <1>2, FateFacts
    <3>3. invflag' \in -1..MaxLevel /\ collapsed' \in BOOLEAN
      BY <3>1, <3>2, Zenon DEF IsFate
    <3>4. QED
      BY <1>4, <3>1, <3>3
  <2>3. QED
    BY <2>1, <2>2
<1>7. TypeOK'
  <2>1. Len(path') <= MaxLevel + 1
    BY <1>3, <1>4
  <2>2. QED
    BY <1>1, <1>2, <1>3, <1>6, <2>1 DEF TypeOK
<1>8. ListsBalanced'
  BY <1>1, <1>2, <1>3 DEF ListsBalanced
<1>9. ReadingInv'
  BY <1>1 DEF ReadingInv
<1>10. HeldCounted'
  BY <1>1, <1>2 DEF HeldCounted
<1>11. \A e \in HeldOrPrinted' : Allowed(e)'
  BY <1>1, <1>2, <1>3 DEF HeldOrPrinted, Allowed
<1>12. QED
  BY <1>5, <1>7, <1>8, <1>9, <1>10, <1>11 DEF PageInv

(* The end of the page. *)
LEMMA CloseHolds ==
    ASSUME IndexPageConstants, PageInv, Close
    PROVE  PageInv'
<1>1. /\ state # "closed" /\ state' = "closed" /\ printed' = {} /\ view' = view
      /\ opened' = (IF view.kind = "xml" THEN opened ELSE opened - (ll + 1))
      /\ path' = path /\ read' = read /\ invflag' = invflag /\ collapsed' = collapsed
      /\ pending' = pending /\ skipped' = skipped /\ muted' = muted
      /\ alrprn' = alrprn /\ ll' = ll
  BY DEF Close, flags
<1>2. /\ TypeOK /\ ListsBalanced /\ HeldCounted /\ skipped <= read
      /\ \A e \in HeldOrPrinted : Allowed(e)
  BY DEF PageInv
<1>3. opened' = 0
  BY <1>1, <1>2 DEF TypeOK, ListsBalanced
<1>4. TypeOK'
  BY <1>1, <1>2, <1>3 DEF TypeOK
<1>5. ListsBalanced'
  BY <1>1, <1>3 DEF ListsBalanced
<1>6. ReadingInv'
  BY <1>1 DEF ReadingInv
<1>7. HeldCounted'
  BY <1>1, <1>2 DEF HeldCounted
<1>8. \A e \in HeldOrPrinted' : Allowed(e)'
  BY <1>1, <1>2 DEF HeldOrPrinted, Allowed
<1>9. QED
  BY <1>1, <1>2, <1>4, <1>5, <1>6, <1>7, <1>8 DEF PageInv

LEMMA StepHolds ==
    ASSUME IndexPageConstants, PageInv, [Next]_vars
    PROVE  PageInv'
<1>1. CASE \E m \in Message : StopByDate(m) \/ StopByCount(m)
  BY <1>1, StopHolds
<1>2. CASE \E m \in Message : OffTopic(m)
  BY <1>2, OffTopicHolds
<1>3. CASE \E m \in Message : LeaveOut(m)
  BY <1>3, LeaveOutHolds
<1>4. CASE \E m \in Message : Show(m)
  BY <1>4, ShowHolds
<1>5. CASE Close
  BY <1>5, CloseHolds
<1>6. CASE UNCHANGED vars
  <2>1. /\ view' = view /\ path' = path /\ read' = read /\ invflag' = invflag
        /\ collapsed' = collapsed /\ pending' = pending /\ skipped' = skipped
        /\ muted' = muted /\ alrprn' = alrprn /\ ll' = ll /\ opened' = opened
        /\ printed' = printed /\ state' = state
    BY <1>6 DEF vars, flags, output
  <2>2. TypeOK' /\ ListsBalanced' /\ HeldCounted' /\ (skipped <= read)'
    BY <2>1 DEF PageInv, TypeOK, ListsBalanced, HeldCounted
  <2>3. ReadingInv'
    BY <2>1 DEF PageInv, ReadingInv, LeftOutAbove, HiddenAbove, FoldedAbove
  <2>4. \A e \in HeldOrPrinted' : Allowed(e)'
    BY <2>1 DEF PageInv, HeldOrPrinted, Allowed
  <2>5. QED
    BY <2>2, <2>3, <2>4 DEF PageInv
<1>7. QED
  BY <1>1, <1>2, <1>3, <1>4, <1>5, <1>6 DEF Next

-----------------------------------------------------------------------------
LEMMA PageInvHolds == ASSUME IndexPageConstants PROVE Spec => []PageInv
<1>1. Init => PageInv
  BY InitHolds
<1>2. PageInv /\ [Next]_vars => PageInv'
  BY StepHolds
<1>3. QED
  BY <1>1, <1>2, PTL DEF Spec

\* Nobody but a superuser is shown a message that is hidden or below a hidden
\* one, and nobody a message of a topic not asked for, however deep the replies
\* are (printhtmlbuffer).
THEOREM HiddenStaysHidden == ASSUME IndexPageConstants PROVE Spec => []ShownToReader
<1>1. PageInv => ShownToReader
  BY DEF PageInv, ShownToReader, Allowed
<1>2. QED
  BY <1>1, PageInvHolds, PTL

\* No reply of a thread rolled as a whole is shown (printhtmlbuffer).
THEOREM RepliesStayFolded == ASSUME IndexPageConstants PROVE Spec => []ThreadsFolded
<1>1. PageInv => ThreadsFolded
  BY DEF PageInv, ThreadsFolded, Allowed
<1>2. QED
  BY <1>1, PageInvHolds, PTL

\* The lists open are as many as the level of the message shown last, and none
\* is left open at the end (printhtmlbuffer, printhtmlindexhron_bythreads).
THEOREM ListsStayBalanced == ASSUME IndexPageConstants PROVE Spec => []ListsBalanced
<1>1. PageInv => ListsBalanced
  BY DEF PageInv
<1>2. QED
  BY <1>1, PageInvHolds, PTL

\* The number beside a rolled thread is the number of its replies left out
\* (printhtmlbuffer with shouldprint).
THEOREM RepliesCounted == ASSUME IndexPageConstants PROVE Spec => []SkippedRight
<1>1. PageInv => SkippedRight
  BY DEF PageInv, SkippedRight, HeldCounted
<1>2. QED
  BY <1>1, PageInvHolds, PTL

\* The variables of the page keep their types and bounds.
THEOREM PageTypes == ASSUME IndexPageConstants PROVE Spec => []TypeOK
<1>1. PageInv => TypeOK
  BY DEF PageInv
<1>2. QED
  BY <1>1, PageInvHolds, PTL

-----------------------------------------------------------------------------
(***************************************************************************)
(* The threads counted: those printed and the one held back, and one more  *)
(* when the page ends before it.                                           *)
(***************************************************************************)
Held == {pending[i] : i \in DOMAIN pending}

CountInv ==
    /\ roots \in Nat
    /\ alrprn = roots + RootsIn(Held) + (IF view.limit = "count" /\ alrprn > view.tc THEN 1 ELSE 0)
    /\ view.limit = "count" =>
          roots <= view.tc /\ (state = "reading" => alrprn <= view.tc)

LEMMA RootsHeld ==
    ASSUME NEW q \in Seq(Told), Len(q) <= 1, NEW es, es = {q[i] : i \in DOMAIN q}
    PROVE  RootsIn(es) = IF Len(q) = 1 /\ q[1].level = 0 THEN 1 ELSE 0
<1>1. DOMAIN q = 1..Len(q) /\ Len(q) \in {0, 1}
  <2>1. Len(q) \in Nat /\ DOMAIN q = 1..Len(q)
    BY LenProperties
  <2> QED
    BY <2>1
<1>2. CASE Len(q) = 1 /\ q[1].level = 0
  <2>1. es = {q[1]}
    BY <1>1, <1>2
  <2>2. {e \in es : e.level = 0} = {q[1]}
    BY <1>2, <2>1
  <2> QED
    BY <1>2, <2>2, FS_Singleton DEF RootsIn
<1>3. CASE ~(Len(q) = 1 /\ q[1].level = 0)
  <2>1. {e \in es : e.level = 0} = {}
    BY <1>1, <1>3
  <2> QED
    BY <1>3, <2>1, FS_EmptySet DEF RootsIn
<1> QED
  BY <1>2, <1>3

LEMMA CountStarts ==
    ASSUME IndexPageConstants, Init
    PROVE  CountInv
<1>1. pending = <<>> /\ roots = 0 /\ alrprn = 0 /\ view.tc \in Nat \ {0}
  BY DEF Init, View, IndexPageConstants
<1>2. RootsIn(Held) = 0
  <2>1. PICK q, es : q = pending /\ es = Held
    OBVIOUS
  <2>2. q \in Seq(Told) /\ Len(q) = 0 /\ Len(q) <= 1
    BY <1>1, <2>1
  <2>3. es = {q[i] : i \in DOMAIN q}
    BY <2>1 DEF Held
  <2>4. RootsIn(es) = 0
    BY <2>2, <2>3, RootsHeld
  <2> QED
    BY <2>1, <2>4
<1> QED
  BY <1>1, <1>2 DEF CountInv

LEMMA CountKept ==
    ASSUME IndexPageConstants, PageInv, PageInv', CountInv, [Next]_vars
    PROVE  CountInv'
<1>1. /\ view.tc \in Nat \ {0} /\ alrprn \in Nat /\ pending \in Seq(Told) /\ Len(pending) <= 1
      /\ pending' \in Seq(Told) /\ Len(pending') <= 1 /\ Len(pending) \in Nat
      /\ Len(pending') \in Nat /\ alrprn' \in Nat
  <2>1. TypeOK
    BY DEF PageInv
  <2>2. TypeOK'
    BY DEF PageInv
  <2>3. view.tc \in Counts
    BY <2>1 DEF TypeOK, View
  <2>4. /\ alrprn \in Nat /\ alrprn' \in Nat /\ pending \in Seq(Told) /\ Len(pending) <= 1
        /\ pending' \in Seq(Told) /\ Len(pending') <= 1
    BY <2>1, <2>2 DEF TypeOK
  <2>5. Len(pending) \in Nat /\ Len(pending') \in Nat
    BY <2>4, LenProperties
  <2> QED
    BY <2>3, <2>4, <2>5 DEF IndexPageConstants
<1>0. TypeOK
  BY DEF PageInv
<1>2. PICK was, is : was = RootsIn(Held) /\ is = RootsIn(Held)'
  OBVIOUS
<1>3. /\ was = IF Len(pending) = 1 /\ pending[1].level = 0 THEN 1 ELSE 0
      /\ is = IF Len(pending') = 1 /\ pending'[1].level = 0 THEN 1 ELSE 0
  <2>1. was = IF Len(pending) = 1 /\ pending[1].level = 0 THEN 1 ELSE 0
    BY <1>1, <1>2, RootsHeld DEF Held
  <2>2. PICK now, es : now = pending' /\ es = Held'
    OBVIOUS
  <2>3. now \in Seq(Told) /\ Len(now) <= 1 /\ es = {now[i] : i \in DOMAIN now} /\ is = RootsIn(es)
    BY <1>1, <1>2, <2>2 DEF Held, RootsIn
  <2>4. is = IF Len(now) = 1 /\ now[1].level = 0 THEN 1 ELSE 0
    BY <2>3, RootsHeld
  <2> QED
    BY <2>1, <2>2, <2>4
<1>4. /\ roots \in Nat
      /\ alrprn = roots + was + (IF view.limit = "count" /\ alrprn > view.tc THEN 1 ELSE 0)
      /\ view.limit = "count" => roots <= view.tc /\ (state = "reading" => alrprn <= view.tc)
  BY <1>2 DEF CountInv
<1>5. SUFFICES
        /\ view' = view /\ roots' \in Nat
        /\ alrprn' = roots' + is + (IF view.limit = "count" /\ alrprn' > view.tc THEN 1 ELSE 0)
        /\ view.limit = "count" => roots' <= view.tc /\ (state' = "reading" => alrprn' <= view.tc)
  BY <1>2 DEF CountInv
\* The message held back stays, whatever is left out after it.
<1>6. ASSUME NEW m \in Message, pending' = Passed(m) PROVE is = was
  <2>1. Len(pending') = Len(pending)
    BY <1>0, <1>6, PassedFacts
  <2>2. DOMAIN pending = 1..Len(pending)
    BY <1>1, LenProperties
  <2>3. ASSUME Len(pending) = 1 PROVE pending'[1].level = pending[1].level
    <3>1. 1 \in DOMAIN pending
      BY <2>2, <2>3
    <3>2. pending[1] \in Told
      BY <1>1, <3>1, ElementOfSeq
    <3>3. pending'[1] = IF m.level = 0 THEN [pending[1] EXCEPT !.over = TRUE]
                        ELSE IF pending[1].over THEN pending[1]
                        ELSE [pending[1] EXCEPT !.below = @ + 1]
      BY <1>6, <3>1 DEF Passed
    <3> QED
      BY <3>2, <3>3 DEF Told
  <2> QED
    BY <1>3, <2>1, <2>3
<1>7. ASSUME NEW m \in Message, StopByDate(m) \/ OffTopic(m) \/ LeaveOut(m)
      PROVE  /\ view' = view /\ roots' = roots /\ alrprn' = alrprn /\ is = was
             /\ (state' = "reading" => state = "reading")
  <2>1. CASE StopByDate(m)
    <3>1. view' = view /\ roots' = roots /\ alrprn' = alrprn /\ pending' = pending /\ state' = "old"
      BY <2>1 DEF StopByDate, Comes
    <3> QED
      BY <1>3, <3>1
  <2>2. CASE OffTopic(m) \/ LeaveOut(m)
    <3>1. /\ view' = view /\ roots' = roots /\ alrprn' = alrprn /\ pending' = Passed(m)
          /\ state' = state
      BY <2>2 DEF OffTopic, LeaveOut, Comes
    <3> QED
      BY <1>6, <3>1
  <2> QED
    BY <1>7, <2>1, <2>2
<1>8. CASE \E m \in Message : StopByDate(m) \/ OffTopic(m) \/ LeaveOut(m)
  BY <1>4, <1>7, <1>8
<1>9. ASSUME NEW m \in Message, StopByCount(m)
      PROVE  /\ view' = view /\ roots' = roots /\ alrprn' = alrprn + 1 /\ is = was
             /\ state' = "enough" /\ state = "reading"
             /\ view.limit = "count" /\ alrprn = view.tc
  <2>1. /\ view' = view /\ roots' = roots /\ alrprn' = alrprn + 1 /\ pending' = pending
        /\ state' = "enough" /\ state = "reading"
        /\ view.limit = "count" /\ alrprn + 1 = view.tc + 1
    BY <1>9 DEF StopByCount, Comes, Enough
  <2>2. alrprn = view.tc
    BY <1>1, <2>1
  <2>3. is = was
    BY <1>3, <2>1
  <2> QED
    BY <2>1, <2>2, <2>3
<1>10. CASE \E m \in Message : StopByCount(m)
  <2>1. /\ view' = view /\ roots' = roots /\ alrprn' = alrprn + 1 /\ is = was
        /\ state' = "enough" /\ state = "reading"
        /\ view.limit = "count" /\ alrprn = view.tc
    BY <1>9, <1>10
  <2>2. was \in Nat /\ ~(alrprn > view.tc)
    BY <1>1, <1>3, <2>1
  <2>3. alrprn = roots + was /\ roots <= view.tc
    <3>1. alrprn = roots + was + 0
      BY <1>4, <2>2
    <3>2. roots \in Nat /\ roots <= view.tc
      BY <1>4, <2>1
    <3> QED
      BY <2>2, <3>1, <3>2
  <2>4. alrprn' > view'.tc /\ alrprn' = roots' + is + 1
    BY <1>1, <1>4, <2>1, <2>2, <2>3
  <2> QED
    BY <1>4, <2>1, <2>3, <2>4
<1>11. ASSUME NEW m \in Message, Show(m)
       PROVE  /\ view' = view /\ roots' \in Nat
              /\ alrprn' = roots' + is
                            + (IF view.limit = "count" /\ alrprn' > view.tc THEN 1 ELSE 0)
              /\ view.limit = "count" =>
                    roots' <= view.tc /\ (state' = "reading" => alrprn' <= view.tc)
  <2> DEFINE mine == Entry(path')
             col == FateOf(m).col
  <2>1. /\ view' = view /\ state = "reading" /\ state' = state
        /\ alrprn' = (IF m.level = 0 THEN alrprn + 1 ELSE alrprn)
        /\ pending' = (IF col THEN <<mine>> ELSE <<>>)
        /\ roots' = roots + was + (IF ~col /\ m.level = 0 THEN 1 ELSE 0)
        /\ m.level = 0 /\ view.limit = "count" => alrprn + 1 # view.tc + 1
    BY <1>2, <1>11 DEF Show, Comes, Enough, Held
  <2>2. mine.level = m.level
    <3>1. Comes(m)
      BY <1>11 DEF Show
    <3>2. Len(path') = m.level + 1 /\ m.level \in 0..MaxLevel
      BY <1>0, <3>1, PathFacts
    <3> QED
      BY <3>2 DEF Entry
  <2>3. is = IF col /\ m.level = 0 THEN 1 ELSE 0
    <3>1. CASE col
      <4>1. Len(pending') = 1 /\ pending'[1] = mine
        BY <2>1, <3>1
      <4> QED
        BY <1>3, <2>2, <3>1, <4>1
    <3>2. CASE ~col
      <4>1. Len(pending') = 0
        BY <2>1, <3>2
      <4> QED
        BY <1>3, <3>2, <4>1
    <3> QED
      BY <3>1, <3>2
  <2>4. was \in {0, 1} /\ is \in {0, 1}
    BY <1>3
  <2>5. view.limit = "count" => alrprn' <= view.tc
    BY <1>1, <1>4, <2>1
  <2>6. alrprn = roots + was
    <3>1. ~(view.limit = "count" /\ alrprn > view.tc)
      BY <1>1, <1>4, <2>1
    <3> QED
      BY <1>3, <1>4, <3>1
  <2> HIDE DEF mine, col
  <2>7. roots' \in Nat /\ alrprn' = roots' + is
    <3>1. CASE col
      BY <1>1, <1>4, <2>1, <2>3, <2>4, <2>6, <3>1
    <3>2. CASE ~col
      BY <1>1, <1>4, <2>1, <2>3, <2>4, <2>6, <3>2
    <3> QED
      BY <3>1, <3>2
  <2>8. view.limit = "count" => roots' <= view.tc /\ ~(alrprn' > view.tc)
    <3>1. SUFFICES ASSUME view.limit = "count" PROVE roots' <= view.tc /\ ~(alrprn' > view.tc)
      OBVIOUS
    <3>2. is \in Nat /\ alrprn' \in Nat /\ alrprn' <= view.tc /\ view.tc \in Nat
      <4>1. is \in Nat
        BY <2>4
      <4>2. alrprn' <= view.tc
        BY <2>5, <3>1
      <4> QED
        BY <1>1, <4>1, <4>2
    <3>3. \A a, b \in Nat : a <= a + b
      OBVIOUS
    <3>4. roots' \in Nat /\ roots' <= alrprn'
      BY <2>7, <3>2, <3>3, Zenon
    <3>5. \A a, b, c \in Nat : a <= b /\ b <= c => a <= c /\ ~(b > c)
      OBVIOUS
    <3> QED
      BY <3>2, <3>4, <3>5, Zenon
  <2> QED
    BY <2>1, <2>5, <2>7, <2>8
<1>12. CASE Close
  <2>1. /\ view' = view /\ roots' = roots /\ alrprn' = alrprn /\ pending' = pending
        /\ state' = "closed"
    BY <1>12 DEF Close
  <2> QED
    BY <1>3, <1>4, <2>1
<1>13. CASE UNCHANGED vars
  <2>1. /\ view' = view /\ roots' = roots /\ alrprn' = alrprn /\ pending' = pending
        /\ state' = state
    BY <1>13 DEF vars, output
  <2> QED
    BY <1>3, <1>4, <2>1
<1>14. CASE \E m \in Message : Show(m)
  BY <1>11, <1>14
<1> QED
  BY <1>8, <1>10, <1>12, <1>13, <1>14 DEF Next

LEMMA CountInvHolds == ASSUME IndexPageConstants PROVE Spec => [](PageInv /\ CountInv)
<1>1. Init => PageInv /\ CountInv
  BY InitHolds, CountStarts
<1>2. PageInv /\ CountInv /\ [Next]_vars => PageInv' /\ CountInv'
  BY StepHolds, CountKept
<1> QED
  BY <1>1, <1>2, PTL DEF Spec

\* No more threads are counted than the reader has asked for, and every thread
\* counted was printed or is held back, but for the one the page ends before
\* (printhtmlbuffer with alrprn).
THEOREM CountedArePrinted == ASSUME IndexPageConstants PROVE Spec => []ThreadsCounted
<1>1. CountInv => ThreadsCounted
  BY DEF CountInv, ThreadsCounted, Held
<1> QED
  BY <1>1, CountInvHolds, PTL

\* The number beside a rolled thread is that of the replies left out for it, none
\* of which is shown, and every thread counted was printed or is the one held
\* back, for any number of messages and depth of replies (printhtmlbuffer with
\* shouldprint, skipped and alrprn).
THEOREM ThreadsCountedRight == ASSUME IndexPageConstants PROVE Spec => []CountsRight
<1>1. PageInv /\ CountInv => CountsRight
  <2>1. ASSUME PageInv, CountInv PROVE TypeOK /\ SkippedRight
    BY <2>1 DEF PageInv, SkippedRight, HeldCounted
  <2>2. ASSUME PageInv, CountInv PROVE ThreadsFolded
    BY <2>2 DEF PageInv, ThreadsFolded, Allowed
  <2>3. ASSUME PageInv, CountInv PROVE ThreadsCounted
    BY <2>3 DEF CountInv, ThreadsCounted, Held
  <2> QED
    BY <2>1, <2>2, <2>3 DEF CountsRight
<1> QED
  BY <1>1, CountInvHolds, PTL

-----------------------------------------------------------------------------
(***************************************************************************)
(* The list of a message's thread.  Beyond the thread everything is left   *)
(* out, because the page ends at the next root that is shown and what      *)
(* follows a hidden one is under it; that fails only where the page went   *)
(* astray.                                                                 *)
(***************************************************************************)
OnCourse == ownState \in {"reading", "beyond"}

\* A message below the one shown last, and not right below it, comes under one
\* left out, whose level or a smaller one is remembered.
ThreadLeftOutAbove == ownLl + 1 < Len(ownPath) => ownInvflag \in 0..(ownLl + 1) /\ ~super

\* Under a hidden message its level or a smaller one is remembered, for all but
\* superusers.
ThreadHiddenAbove == ~super => \A i \in 1..Len(ownPath) : ownPath[i] => ownInvflag \in 0..(i - 1)

\* Beyond the thread the last root was hidden, and the thread's own was not.
AllHiddenBeyond == ownState = "beyond" => czero = 1 /\ ~super /\ ownInvflag = 0

ThreadFields ==
    /\ super \in BOOLEAN
    /\ ownPath \in Seq(BOOLEAN) /\ ownRead \in 0..MaxThreadMessages
    /\ ownInvflag \in -1..MaxThreadLevel /\ ownLl \in 0..MaxThreadLevel /\ czero \in 0..1
    /\ ownOpened \in Int
    /\ ownState \in {"reading", "beyond", "astray", "closed", "lost"}

CourseInv == OnCourse => ThreadLeftOutAbove /\ ThreadHiddenAbove /\ AllHiddenBeyond

ThreadInv ==
    /\ ThreadFields /\ ThreadListsBalanced /\ CourseInv
    /\ ownPrinted \in Seq([own : BOOLEAN, hidden : BOOLEAN]) /\ Len(ownPrinted) <= 1
    /\ HiddenNotListed /\ OnlyOwnListed

-----------------------------------------------------------------------------
(* What is decided of a message. *)
LEMMA ThreadFateFacts ==
    ASSUME ThreadPageConstants, ThreadFields, NEW m \in ThreadMessage
    PROVE  /\ ThreadFateOf(m).inv \in -1..MaxThreadLevel
           /\ ~ThreadFateOf(m).show => ThreadFateOf(m).inv \in 0..m.level /\ ~super
           /\ m.hidden /\ ~super => ~ThreadFateOf(m).show
           /\ ownInvflag # -1 /\ ownInvflag < m.level =>
                 ThreadFateOf(m).inv = ownInvflag /\ ThreadFateOf(m).show = super
<1>1. /\ m.level \in 0..MaxThreadLevel /\ MaxThreadLevel \in Nat /\ m.hidden \in BOOLEAN
      /\ super \in BOOLEAN /\ ownInvflag \in -1..MaxThreadLevel
  BY DEF ThreadMessage, ThreadPageConstants, ThreadFields
<1>2. CASE ownInvflag = -1 /\ m.hidden
  <2>1. ThreadFateOf(m) = ThreadFate(m.level, super)
    BY <1>2 DEF ThreadFateOf
  <2>2. QED
    BY <1>1, <1>2, <2>1 DEF ThreadFate
<1>3. CASE ownInvflag = -1 /\ ~m.hidden
  <2>1. ThreadFateOf(m) = ThreadFate(-1, TRUE)
    BY <1>3 DEF ThreadFateOf
  <2>2. ThreadFateOf(m).inv = -1 /\ ThreadFateOf(m).show = TRUE
    BY <2>1 DEF ThreadFate
  <2>3. QED
    BY <1>1, <1>3, <2>2
<1>4. CASE ownInvflag # -1 /\ ownInvflag >= m.level /\ m.hidden
  <2>1. ~(ownInvflag < m.level)
    BY <1>1, <1>4
  <2>2. ThreadFateOf(m) = ThreadFate(m.level, super)
    BY <1>4, <2>1 DEF ThreadFateOf
  <2>3. QED
    BY <1>1, <1>4, <2>1, <2>2 DEF ThreadFate
<1>5. CASE ownInvflag # -1 /\ ownInvflag >= m.level /\ ~m.hidden
  <2>1. ~(ownInvflag < m.level)
    BY <1>1, <1>5
  <2>2. ThreadFateOf(m) = ThreadFate(-1, TRUE)
    BY <1>5, <2>1 DEF ThreadFateOf
  <2>3. ThreadFateOf(m).inv = -1 /\ ThreadFateOf(m).show = TRUE
    BY <2>2 DEF ThreadFate
  <2>4. QED
    BY <1>1, <1>5, <2>1, <2>3
<1>6. CASE ownInvflag # -1 /\ ownInvflag < m.level
  <2>1. ~(ownInvflag >= m.level)
    BY <1>1, <1>6
  <2>2. ThreadFateOf(m) = ThreadFate(ownInvflag, super)
    BY <1>6, <2>1 DEF ThreadFateOf
  <2>3. QED
    BY <1>1, <1>6, <2>2 DEF ThreadFate
<1>7. QED
  BY <1>1, <1>2, <1>3, <1>4, <1>5, <1>6

(* A message as it is read.  Off course nothing is known of those above it. *)
LEMMA ThreadPathFacts ==
    ASSUME ThreadPageConstants, ThreadFields, NEW m \in ThreadMessage, ThreadComes(m)
    PROVE  /\ m.level \in 0..MaxThreadLevel /\ m.hidden \in BOOLEAN
           /\ super' = super /\ ownRead' \in 0..MaxThreadMessages
           /\ ownState \in {"reading", "beyond", "astray"}
           /\ ownPath' \in Seq(BOOLEAN)
           /\ ownState = "astray" => ownPath' = <<m.hidden>>
           /\ OnCourse =>
                /\ m.level <= Len(ownPath) /\ Len(ownPath') = m.level + 1
                /\ \A i \in 1..m.level : ownPath'[i] = ownPath[i]
                /\ ownPath'[m.level + 1] = m.hidden
<1>1. /\ m.level \in 0..MaxThreadLevel /\ m.hidden \in BOOLEAN
      /\ MaxThreadLevel \in Nat /\ MaxThreadMessages \in Nat
  BY DEF ThreadMessage, ThreadPageConstants
<1>2. /\ ownState \in {"reading", "beyond", "astray"} /\ ownRead < MaxThreadMessages
      /\ ownState # "astray" => m.level <= Len(ownPath)
      /\ ownRead' = ownRead + 1 /\ super' = super
      /\ ownPath' = Append(IF ownState = "astray" THEN <<>> ELSE SubSeq(ownPath, 1, m.level),
                          m.hidden)
  BY DEF ThreadComes
<1>3. ownPath \in Seq(BOOLEAN) /\ Len(ownPath) \in Nat /\ ownRead \in 0..MaxThreadMessages
  BY DEF ThreadFields
<1>4. ownRead' \in 0..MaxThreadMessages
  BY <1>1, <1>2, <1>3
<1>5. CASE ownState = "astray"
  <2>1. ownPath' = <<m.hidden>>
    BY <1>2, <1>5
  <2>2. QED
    BY <1>1, <1>2, <1>4, <1>5, <2>1 DEF OnCourse
<1>6. CASE ownState # "astray"
  <2> DEFINE above == SubSeq(ownPath, 1, m.level)
  <2>1. /\ above \in Seq(BOOLEAN) /\ Len(above) = m.level
        /\ \A i \in 1..m.level : above[i] = ownPath[i]
    BY <1>1, <1>2, <1>3, <1>6
  <2>2. ownPath' = Append(above, m.hidden)
    BY <1>2, <1>6
  <2> HIDE DEF above
  <2>3. /\ ownPath' \in Seq(BOOLEAN) /\ Len(ownPath') = m.level + 1
        /\ \A i \in 1..m.level : ownPath'[i] = above[i]
        /\ ownPath'[m.level + 1] = m.hidden
    BY <1>1, <2>1, <2>2
  <2>4. QED
    BY <1>1, <1>2, <1>4, <1>6, <2>1, <2>3
<1>7. QED
  BY <1>5, <1>6

(* Whether it is shown or left out, what is above the next message stays
   remembered. *)
LEMMA ThreadStaysRemembered ==
    ASSUME ThreadPageConstants, ThreadFields, ThreadHiddenAbove, OnCourse,
           NEW m \in ThreadMessage, ThreadComes(m), ownInvflag' = ThreadFateOf(m).inv
    PROVE  /\ ThreadHiddenAbove'
           /\ ~super /\ ThreadFateOf(m).show => \A i \in 1..Len(ownPath') : ~ownPath'[i]
<1>1. /\ m.level \in 0..MaxThreadLevel /\ super' = super /\ ownPath' \in Seq(BOOLEAN)
      /\ m.level <= Len(ownPath) /\ Len(ownPath') = m.level + 1
      /\ \A i \in 1..m.level : ownPath'[i] = ownPath[i]
      /\ ownPath'[m.level + 1] = m.hidden
  BY ThreadPathFacts
<1>2. ownPath \in Seq(BOOLEAN) /\ Len(ownPath) \in Nat /\ MaxThreadLevel \in Nat /\ super \in BOOLEAN
      /\ ownInvflag \in -1..MaxThreadLevel
  BY DEF ThreadFields, ThreadPageConstants
<1>3. ASSUME ~super, NEW i \in 1..Len(ownPath'), ownPath'[i]
      PROVE  ownInvflag' \in 0..(i - 1) /\ ~ThreadFateOf(m).show
  <2>1. CASE i = m.level + 1
    <3>1. m.hidden
      BY <1>1, <1>3, <2>1
    <3>2. ~ThreadFateOf(m).show
      BY <1>3, <3>1, ThreadFateFacts
    <3>3. ThreadFateOf(m).inv \in 0..m.level
      BY <3>2, ThreadFateFacts
    <3>4. QED
      BY <1>1, <2>1, <3>2, <3>3
  <2>2. CASE i \in 1..m.level
    <3>1. ownPath[i] /\ i \in 1..Len(ownPath)
      BY <1>1, <1>2, <1>3, <2>2
    <3>2. ownInvflag \in 0..(i - 1)
      BY <1>3, <3>1 DEF ThreadHiddenAbove
    <3>3. ownInvflag # -1 /\ ownInvflag < m.level
      BY <1>1, <1>2, <2>2, <3>2
    <3>4. ThreadFateOf(m).inv = ownInvflag /\ ThreadFateOf(m).show = super
      BY <3>3, ThreadFateFacts
    <3>5. QED
      BY <1>3, <3>2, <3>4
  <2>3. QED
    BY <1>1, <2>1, <2>2
<1>4. ThreadHiddenAbove'
  BY <1>1, <1>3 DEF ThreadHiddenAbove
<1>5. ~super /\ ThreadFateOf(m).show => \A i \in 1..Len(ownPath') : ~ownPath'[i]
  BY <1>3
<1>6. QED
  BY <1>4, <1>5

(* A message that is shown is of the thread, unless the page is astray. *)
LEMMA ThreadShowHolds ==
    ASSUME ThreadPageConstants, ThreadInv, NEW m \in ThreadMessage, ThreadShow(m)
    PROVE  ThreadInv'
<1> DEFINE hidden == \E i \in DOMAIN ownPath' : ownPath'[i]
           entry == [own |-> Own(m), hidden |-> hidden]
<1>1. /\ ThreadComes(m) /\ ThreadFateOf(m).show /\ ~LastRoot(m)
      /\ ownInvflag' = ThreadFateOf(m).inv /\ ThreadNested(m)
      /\ czero' = (IF m.level = 0 THEN czero + 1 ELSE czero)
      /\ ownPrinted' = <<entry>>
      /\ ownState' = Where(m)
  BY DEF ThreadShow
<1>2. ThreadFields /\ ThreadListsBalanced /\ CourseInv
  BY DEF ThreadInv
<1>3. /\ m.level \in 0..MaxThreadLevel /\ m.hidden \in BOOLEAN
      /\ super' = super /\ ownRead' \in 0..MaxThreadMessages
      /\ ownState \in {"reading", "beyond", "astray"}
      /\ ownPath' \in Seq(BOOLEAN) /\ (ownState = "astray" => ownPath' = <<m.hidden>>)
      /\ (OnCourse => m.level <= Len(ownPath) /\ Len(ownPath') = m.level + 1)
  BY <1>1, <1>2, ThreadPathFacts
<1>4. /\ ThreadFateOf(m).inv \in -1..MaxThreadLevel
      /\ m.hidden => super
      /\ ownInvflag # -1 /\ ownInvflag < m.level => super
  BY <1>1, <1>2, ThreadFateFacts
<1>5. /\ MaxThreadLevel \in Nat /\ ownLl \in 0..MaxThreadLevel /\ czero \in 0..1 /\ ownOpened \in Int
      /\ Len(ownPath) \in Nat /\ super \in BOOLEAN /\ ownInvflag \in -1..MaxThreadLevel
  BY <1>2 DEF ThreadFields, ThreadPageConstants
<1>6. Where(m) = IF Own(m) THEN "reading"
                 ELSE IF ownState = "reading" THEN IF czero = 0 THEN "astray" ELSE "beyond"
                 ELSE ownState
  BY DEF Where
<1>7. Own(m) \/ ownState' = "astray"
  <2>1. CASE ownState = "beyond"
    <3>1. czero = 1 /\ ~super /\ ownInvflag = 0
      BY <1>2, <2>1 DEF CourseInv, OnCourse, AllHiddenBeyond
    <3>2. m.level # 0
      BY <1>1, <3>1 DEF LastRoot
    <3>3. ownInvflag # -1 /\ ownInvflag < m.level
      BY <1>3, <3>1, <3>2
    <3>4. QED
      BY <1>4, <3>1, <3>3
  <2>2. CASE ownState = "reading" /\ ~Own(m)
    <3>1. m.level = 0
      BY <1>3, <2>2 DEF Own
    <3>2. czero = 0
      BY <1>1, <1>5, <3>1 DEF LastRoot
    <3>3. QED
      BY <1>1, <1>6, <2>2, <3>2
  <2>3. CASE ownState = "astray"
    BY <1>1, <1>6, <2>3 DEF Own
  <2>4. QED
    BY <1>3, <2>1, <2>2, <2>3
<1>8. ownState' \in {"reading", "astray"} /\ (ownState' = "reading" => ownState = "reading")
  BY <1>1, <1>6, <1>7 DEF Own
<1>9. ThreadFields'
  <2>1. ownLl' = m.level /\ ownOpened' \in Int
    BY <1>1, <1>3, <1>5 DEF ThreadNested
  <2>2. czero' \in 0..1
    BY <1>1, <1>5 DEF LastRoot
  <2>3. QED
    BY <1>1, <1>3, <1>4, <1>5, <1>8, <2>1, <2>2 DEF ThreadFields
<1>10. ThreadListsBalanced'
  <2>1. SUFFICES ASSUME ownState' = "reading"
                 PROVE  ownOpened' = ownLl' + 1
    BY <1>8 DEF ThreadListsBalanced
  <2>2. ownState = "reading"
    BY <1>8, <2>1
  <2>3. ownOpened = ownLl + 1
    BY <1>2, <2>2 DEF ThreadListsBalanced
  <2>4. m.level <= ownLl + 1
    <3>1. SUFFICES ASSUME m.level > ownLl + 1
                   PROVE  FALSE
      BY <1>3, <1>5
    <3>2. m.level <= Len(ownPath)
      BY <1>3, <2>2 DEF OnCourse
    <3>3. ownLl + 1 < Len(ownPath)
      BY <1>3, <1>5, <3>1, <3>2
    <3>4. ownInvflag \in 0..(ownLl + 1) /\ ~super
      BY <1>2, <2>2, <3>3 DEF CourseInv, OnCourse, ThreadLeftOutAbove
    <3>5. ownInvflag # -1 /\ ownInvflag < m.level
      BY <1>3, <1>5, <3>1, <3>4
    <3>6. QED
      BY <1>4, <3>4, <3>5
  <2>5. ownLl' = m.level
        /\ ownOpened' = IF m.level <= ownLl THEN ownOpened - (ownLl - m.level) ELSE ownOpened + 1
    BY <1>1 DEF ThreadNested
  <2>6. QED
    BY <1>3, <1>5, <2>3, <2>4, <2>5
<1>11. ownState = "reading" => ThreadHiddenAbove'
       /\ (~super => \A i \in 1..Len(ownPath') : ~ownPath'[i])
  BY <1>1, <1>2, ThreadStaysRemembered DEF CourseInv, OnCourse
<1>12. CourseInv'
  <2>1. SUFFICES ASSUME ownState' = "reading"
                 PROVE  ThreadLeftOutAbove' /\ ThreadHiddenAbove' /\ AllHiddenBeyond'
    BY <1>8 DEF CourseInv, OnCourse
  <2>2. ownState = "reading"
    BY <1>8, <2>1
  <2>3. Len(ownPath') = m.level + 1 /\ ownLl' = m.level
    BY <1>1, <1>3, <2>2 DEF OnCourse, ThreadNested
  <2>4. ThreadLeftOutAbove'
    BY <1>3, <2>3 DEF ThreadLeftOutAbove
  <2>5. AllHiddenBeyond'
    BY <2>1 DEF AllHiddenBeyond
  <2>6. QED
    BY <1>11, <2>2, <2>4, <2>5
<1>13. hidden => super
  <2>1. DOMAIN ownPath' = 1..Len(ownPath')
    BY <1>3, LenProperties
  <2>2. CASE ownState = "reading"
    BY <1>11, <2>1, <2>2
  <2>3. CASE ownState = "astray"
    <3>1. ownPath' = <<m.hidden>>
      BY <1>3, <2>3
    <3>2. \A i \in DOMAIN ownPath' : ownPath'[i] = m.hidden
      BY <3>1
    <3>3. QED
      BY <1>4, <3>2
  <2>4. CASE ownState = "beyond"
    BY <1>1, <1>6, <1>7, <2>4 DEF Own
  <2>5. QED
    BY <1>3, <2>2, <2>3, <2>4
<1>14. entry \in [own : BOOLEAN, hidden : BOOLEAN]
  <2>1. Own(m) \in BOOLEAN
    BY Zenon DEF Own
  <2>2. hidden \in BOOLEAN
    BY Zenon
  <2> HIDE DEF hidden
  <2>3. QED
    BY <2>1, <2>2
<1>15. /\ ownPrinted' \in Seq([own : BOOLEAN, hidden : BOOLEAN]) /\ Len(ownPrinted') <= 1
       /\ \A i \in DOMAIN ownPrinted' : ownPrinted'[i] = entry
  <2> HIDE DEF entry
  <2>1. QED
    BY <1>1, <1>14
<1>16. entry.own = Own(m) /\ entry.hidden = hidden
  <2> HIDE DEF hidden
  <2>1. QED
    OBVIOUS
<1> HIDE DEF entry, hidden
<1>17. HiddenNotListed'
  BY <1>3, <1>13, <1>15, <1>16 DEF HiddenNotListed
<1>18. OnlyOwnListed'
  BY <1>7, <1>15, <1>16 DEF OnlyOwnListed
<1>19. QED
  BY <1>9, <1>10, <1>12, <1>15, <1>17, <1>18 DEF ThreadInv

(* A message that is left out. *)
LEMMA ThreadLeaveOutHolds ==
    ASSUME ThreadPageConstants, ThreadInv, NEW m \in ThreadMessage, ThreadLeaveOut(m)
    PROVE  ThreadInv'
<1>1. /\ ThreadComes(m) /\ ~ThreadFateOf(m).show
      /\ ownInvflag' = ThreadFateOf(m).inv /\ ownPrinted' = <<>>
      /\ ownState' = Where(m) /\ ownLl' = ownLl /\ czero' = czero /\ ownOpened' = ownOpened
  BY DEF ThreadLeaveOut
<1>2. ThreadFields /\ ThreadListsBalanced /\ CourseInv
  BY DEF ThreadInv
<1>3. /\ m.level \in 0..MaxThreadLevel
      /\ super' = super /\ ownRead' \in 0..MaxThreadMessages
      /\ ownState \in {"reading", "beyond", "astray"} /\ ownPath' \in Seq(BOOLEAN)
      /\ (OnCourse => m.level <= Len(ownPath) /\ Len(ownPath') = m.level + 1)
  BY <1>1, <1>2, ThreadPathFacts
<1>4. /\ ThreadFateOf(m).inv \in 0..m.level /\ ThreadFateOf(m).inv \in -1..MaxThreadLevel /\ ~super
      /\ (ownInvflag # -1 /\ ownInvflag < m.level => ThreadFateOf(m).inv = ownInvflag)
  BY <1>1, <1>2, ThreadFateFacts
<1>5. /\ MaxThreadLevel \in Nat /\ ownLl \in 0..MaxThreadLevel /\ czero \in 0..1 /\ Len(ownPath) \in Nat
      /\ ownInvflag \in -1..MaxThreadLevel
  BY <1>2 DEF ThreadFields, ThreadPageConstants
<1>6. Where(m) = IF Own(m) THEN "reading"
                 ELSE IF ownState = "reading" THEN IF czero = 0 THEN "astray" ELSE "beyond"
                 ELSE ownState
  BY DEF Where
<1>7. /\ ownState' \in {"reading", "beyond", "astray"}
      /\ ownState' # "astray" => OnCourse
      /\ ownState' = "reading" => ownState = "reading"
  BY <1>1, <1>3, <1>6 DEF Own, OnCourse
<1>8. ThreadFields'
  BY <1>1, <1>2, <1>3, <1>4, <1>7 DEF ThreadFields
<1>9. ThreadListsBalanced'
  BY <1>1, <1>2, <1>7 DEF ThreadListsBalanced, OnCourse
<1>10. ASSUME OnCourse
       PROVE  ThreadLeftOutAbove'
  <2>1. SUFFICES ASSUME ownLl < m.level
                 PROVE  ownInvflag' \in 0..(ownLl + 1)
    BY <1>1, <1>3, <1>4, <1>5, <1>10 DEF ThreadLeftOutAbove
  <2>2. CASE m.level = ownLl + 1
    BY <1>1, <1>4, <2>2
  <2>3. CASE m.level > ownLl + 1
    <3>1. ownLl + 1 < Len(ownPath)
      BY <1>3, <1>5, <1>10, <2>3
    <3>2. ownInvflag \in 0..(ownLl + 1)
      BY <1>2, <1>10, <3>1 DEF CourseInv, ThreadLeftOutAbove
    <3>3. ownInvflag # -1 /\ ownInvflag < m.level
      BY <1>3, <1>5, <2>3, <3>2
    <3>4. QED
      BY <1>1, <1>4, <3>2, <3>3
  <2>4. QED
    BY <1>3, <1>5, <2>1, <2>2, <2>3
<1>11. OnCourse => ThreadHiddenAbove'
  BY <1>1, <1>2, ThreadStaysRemembered DEF CourseInv
<1>12. AllHiddenBeyond'
  <2>1. SUFFICES ASSUME ownState' = "beyond"
                 PROVE  czero = 1 /\ ThreadFateOf(m).inv = 0
    BY <1>1, <1>3, <1>4 DEF AllHiddenBeyond
  <2>2. CASE ownState = "reading"
    <3>1. ~Own(m) /\ czero # 0
      BY <1>1, <1>6, <2>1, <2>2
    <3>2. m.level = 0
      BY <1>3, <2>2, <3>1 DEF Own
    <3>3. QED
      BY <1>4, <1>5, <3>1, <3>2
  <2>3. CASE ownState = "beyond"
    <3>1. czero = 1 /\ ownInvflag = 0
      BY <1>2, <2>3 DEF CourseInv, OnCourse, AllHiddenBeyond
    <3>2. CASE m.level = 0
      BY <1>4, <3>1, <3>2
    <3>3. CASE m.level # 0
      BY <1>3, <1>4, <3>1, <3>3
    <3>4. QED
      BY <3>1, <3>2, <3>3
  <2>4. ownState # "astray"
    BY <1>7, <2>1 DEF OnCourse
  <2>5. QED
    BY <1>3, <2>2, <2>3, <2>4
<1>13. CourseInv'
  BY <1>7, <1>10, <1>11, <1>12 DEF CourseInv, OnCourse
<1>14. /\ ownPrinted' \in Seq([own : BOOLEAN, hidden : BOOLEAN]) /\ Len(ownPrinted') <= 1
       /\ DOMAIN ownPrinted' = {}
  BY <1>1
<1>15. HiddenNotListed' /\ OnlyOwnListed'
  BY <1>14 DEF HiddenNotListed, OnlyOwnListed
<1>16. QED
  BY <1>8, <1>9, <1>13, <1>14, <1>15 DEF ThreadInv

LEMMA ThreadInitHolds == ASSUME ThreadPageConstants, ThreadInit PROVE ThreadInv
<1>1. /\ super \in BOOLEAN /\ ownPath = <<>> /\ ownRead = 0 /\ ownInvflag = -1 /\ ownLl = 0
      /\ czero = 0 /\ ownOpened = 1 /\ ownPrinted = <<>> /\ ownState = "reading"
  BY DEF ThreadInit
<1>2. MaxThreadLevel \in Nat /\ MaxThreadMessages \in Nat
  BY DEF ThreadPageConstants
<1>3. ThreadFields
  BY <1>1, <1>2 DEF ThreadFields
<1>4. ThreadListsBalanced
  BY <1>1 DEF ThreadListsBalanced
<1>5. CourseInv
  BY <1>1 DEF CourseInv, ThreadLeftOutAbove, ThreadHiddenAbove, AllHiddenBeyond
<1>6. /\ ownPrinted \in Seq([own : BOOLEAN, hidden : BOOLEAN]) /\ Len(ownPrinted) <= 1
      /\ HiddenNotListed /\ OnlyOwnListed
  BY <1>1 DEF HiddenNotListed, OnlyOwnListed
<1>7. QED
  BY <1>3, <1>4, <1>5, <1>6 DEF ThreadInv

LEMMA ThreadStepHolds ==
    ASSUME ThreadPageConstants, ThreadInv, [ThreadNext]_threadVars
    PROVE  ThreadInv'
<1>1. CASE \E m \in ThreadMessage : ThreadShow(m)
  BY <1>1, ThreadShowHolds
<1>2. CASE \E m \in ThreadMessage : ThreadLeaveOut(m)
  BY <1>2, ThreadLeaveOutHolds
<1>3. CASE ThreadClose
  <2>1. /\ ownState \in {"reading", "beyond", "astray"}
        /\ ownState' = (IF ownState = "astray" THEN "lost" ELSE "closed")
        /\ ownOpened' = ownOpened - (ownLl + 1) /\ ownPrinted' = <<>>
        /\ super' = super /\ ownPath' = ownPath /\ ownRead' = ownRead /\ ownInvflag' = ownInvflag
        /\ ownLl' = ownLl /\ czero' = czero
    BY <1>3 DEF ThreadClose
  <2>2. ThreadFields /\ ThreadListsBalanced
    BY DEF ThreadInv
  <2>3. ThreadFields'
    BY <2>1, <2>2 DEF ThreadFields
  <2>4. ThreadListsBalanced'
    BY <2>1, <2>2 DEF ThreadFields, ThreadListsBalanced
  <2>5. CourseInv'
    BY <2>1 DEF CourseInv, OnCourse
  <2>6. /\ ownPrinted' \in Seq([own : BOOLEAN, hidden : BOOLEAN]) /\ Len(ownPrinted') <= 1
        /\ HiddenNotListed' /\ OnlyOwnListed'
    BY <2>1 DEF HiddenNotListed, OnlyOwnListed
  <2>7. QED
    BY <2>3, <2>4, <2>5, <2>6 DEF ThreadInv
<1>4. CASE UNCHANGED threadVars
  <2>1. /\ super' = super /\ ownPath' = ownPath /\ ownRead' = ownRead /\ ownInvflag' = ownInvflag
        /\ ownLl' = ownLl /\ czero' = czero /\ ownOpened' = ownOpened /\ ownPrinted' = ownPrinted
        /\ ownState' = ownState
    BY <1>4 DEF threadVars
  <2>2. ThreadFields' /\ ThreadListsBalanced'
    BY <2>1 DEF ThreadInv, ThreadFields, ThreadListsBalanced
  <2>3. CourseInv'
    BY <2>1 DEF ThreadInv, CourseInv, OnCourse, ThreadLeftOutAbove, ThreadHiddenAbove,
                AllHiddenBeyond
  <2>4. /\ ownPrinted' \in Seq([own : BOOLEAN, hidden : BOOLEAN]) /\ Len(ownPrinted') <= 1
        /\ HiddenNotListed' /\ OnlyOwnListed'
    BY <2>1 DEF ThreadInv, HiddenNotListed, OnlyOwnListed
  <2>5. QED
    BY <2>2, <2>3, <2>4 DEF ThreadInv
<1>5. QED
  BY <1>1, <1>2, <1>3, <1>4 DEF ThreadNext

-----------------------------------------------------------------------------
LEMMA ThreadInvHolds == ASSUME ThreadPageConstants PROVE ThreadSpec => []ThreadInv
<1>1. ThreadInit => ThreadInv
  BY ThreadInitHolds
<1>2. ThreadInv /\ [ThreadNext]_threadVars => ThreadInv'
  BY ThreadStepHolds
<1>3. QED
  BY <1>1, <1>2, PTL DEF ThreadSpec

\* Below a message nothing is listed but its thread, unless the thread's own root
\* is left out; none that is hidden, or below one that is, but to a superuser; and
\* the lists are closed as they were opened, for any depth of replies
\* (printThreadbuffer with czero and invflag, DB_PrintMessageThread).
THEOREM OnlyTheThread == ASSUME ThreadPageConstants PROVE ThreadSpec => []OthersNotListed
<1>1. ThreadInv => OthersNotListed
  BY DEF ThreadInv, ThreadFields, ThreadTypeOK, OthersNotListed
<1>2. QED
  BY <1>1, ThreadInvHolds, PTL

-----------------------------------------------------------------------------
(***************************************************************************)
(* The index file: the runs of neighbouring headers it is made of, in the  *)
(* order of the file and against it.                                       *)
(***************************************************************************)

\* Headers stand side by side, in the order of their addresses.
LEMMA AddrFacts ==
    ASSUME MsgIndexConstants
    PROVE  /\ \A k \in Nat : Addr(k) \in Nat /\ Addr(k) > 0 /\ Addr(k + 1) = Addr(k) + S
           /\ \A j, k \in Nat : j < k => Addr(j) + S <= Addr(k)
           /\ \A j, k \in Nat : Addr(j) = Addr(k) <=> j = k
           /\ S \in Nat /\ S > 1
<1>1. S \in Nat /\ S > 1 /\ Pad \in Nat /\ Pad > 0
  BY DEF MsgIndexConstants
<1>2. \A k \in Nat : k * S \in Nat /\ (k + 1) * S = k * S + S
  BY <1>1
<1>3. \A k \in Nat : Addr(k) \in Nat /\ Addr(k) > 0 /\ Addr(k + 1) = Addr(k) + S
  BY <1>1, <1>2 DEF Addr
<1>4. ASSUME NEW j \in Nat, NEW k \in Nat, j < k PROVE Addr(j) + S <= Addr(k)
  <2>1. PICK d \in Nat : k = j + 1 + d
    <3>1. k - j - 1 \in Nat /\ k = j + 1 + (k - j - 1)
      BY <1>4
    <3> QED
      BY <3>1
  <2>2. k * S = j * S + S + d * S
    BY <1>1, <2>1
  <2>3. k * S \in Nat /\ j * S \in Nat /\ d * S \in Nat
    BY <1>2
  <2> QED
    BY <1>1, <2>2, <2>3 DEF Addr
<1>5. ASSUME NEW j \in Nat, NEW k \in Nat, Addr(j) = Addr(k) PROVE j = k
  <2>1. Addr(j) \in Nat /\ Addr(k) \in Nat
    BY <1>3
  <2>2. ~(j < k)
    BY <1>1, <1>4, <1>5, <2>1
  <2>3. ~(k < j)
    BY <1>1, <1>4, <1>5, <2>1
  <2> QED
    BY <2>2, <2>3
<1> QED
  BY <1>1, <1>3, <1>4, <1>5

\* n headers from the one of number k on, in the file's order and against it.
Up(k, n) == [i \in 1..n |-> Addr(k + i - 1)]
Down(k, n) == [i \in 1..n |-> Addr(k + n - i)]
UpRun(k, n) == Run(Addr(k), Addr(k + n) - 1)
DownRun(k, n) == Run(Addr(k + n) - 1, Addr(k))

\* n headers take n times the size of one.
LEMMA ManyHeaders ==
    ASSUME MsgIndexConstants, NEW k \in Nat, NEW n \in Nat
    PROVE  (Addr(k + n) - Addr(k)) \div S = n
<1>1. S \in Nat /\ S > 0 /\ Pad \in Nat
  BY DEF MsgIndexConstants
<1>2. Addr(k + n) - Addr(k) = n * S
  <2>1. (k + n) * S = k * S + n * S /\ k * S \in Nat /\ n * S \in Nat
    BY <1>1
  <2> QED
    BY <1>1, <2>1 DEF Addr
<1>3. (n * S) \div S = n
  BY <1>1
<1> QED
  BY <1>2, <1>3

\* The messages of a run.
LEMMA UpMessages ==
    ASSUME MsgIndexConstants, NEW k \in Nat, NEW n \in Nat \ {0}
    PROVE  /\ UpRun(k, n).begin < UpRun(k, n).end
           /\ Messages(UpRun(k, n)) = Up(k, n)
<1>1. Addr(k) \in Nat /\ Addr(k + n) \in Nat /\ Addr(k) + S <= Addr(k + n) /\ S \in Nat /\ S > 1
  <2>1. k + n \in Nat /\ k < k + n
    OBVIOUS
  <2> QED
    BY <2>1, AddrFacts
<1>2. UpRun(k, n).begin = Addr(k) /\ UpRun(k, n).end = Addr(k + n) - 1
  BY DEF UpRun, Run
<1>3. UpRun(k, n).begin < UpRun(k, n).end
  BY <1>1, <1>2
<1>4. UpRun(k, n).end + 1 - UpRun(k, n).begin = Addr(k + n) - Addr(k)
  BY <1>1, <1>2
<1>5. Messages(UpRun(k, n)) = [i \in 1..n |-> Addr(k) + (i - 1) * S]
  BY <1>2, <1>3, <1>4, ManyHeaders DEF Messages
<1>6. ASSUME NEW i \in 1..n PROVE Addr(k) + (i - 1) * S = Addr(k + i - 1)
  <2>1. (k + i - 1) * S = k * S + (i - 1) * S
    BY <1>1
  <2>2. Pad \in Nat /\ k * S \in Nat /\ (i - 1) * S \in Nat
    BY <1>1 DEF MsgIndexConstants
  <2> QED
    BY <2>1, <2>2 DEF Addr
<1> QED
  BY <1>3, <1>5, <1>6 DEF Up

\* The messages of a run shown against the file.
LEMMA DownMessages ==
    ASSUME MsgIndexConstants, NEW k \in Nat, NEW n \in Nat \ {0}
    PROVE  /\ DownRun(k, n).end < DownRun(k, n).begin
           /\ Messages(DownRun(k, n)) = Down(k, n)
<1>1. Addr(k) \in Nat /\ Addr(k + n) \in Nat /\ Addr(k) + S <= Addr(k + n) /\ S \in Nat /\ S > 1
  <2>1. k + n \in Nat /\ k < k + n
    OBVIOUS
  <2> QED
    BY <2>1, AddrFacts
<1>2. DownRun(k, n).begin = Addr(k + n) - 1 /\ DownRun(k, n).end = Addr(k)
  BY DEF DownRun, Run
<1>3. DownRun(k, n).end < DownRun(k, n).begin
  BY <1>1, <1>2
<1>4. DownRun(k, n).begin + 1 - DownRun(k, n).end = Addr(k + n) - Addr(k)
  BY <1>1, <1>2
<1>5. Messages(DownRun(k, n)) = [i \in 1..n |-> DownRun(k, n).begin + 1 - i * S]
  <2>1. ~(DownRun(k, n).begin < DownRun(k, n).end)
    BY <1>1, <1>2
  <2> QED
    BY <1>4, <2>1, ManyHeaders DEF Messages
<1>6. ASSUME NEW i \in 1..n PROVE DownRun(k, n).begin + 1 - i * S = Addr(k + n - i)
  <2>1. (k + n) * S = (k + n - i) * S + i * S
    BY <1>1
  <2>2. Pad \in Nat /\ (k + n) * S \in Nat /\ (k + n - i) * S \in Nat /\ i * S \in Nat
    BY <1>1 DEF MsgIndexConstants
  <2> QED
    BY <1>2, <2>1, <2>2 DEF Addr
<1> QED
  BY <1>3, <1>5, <1>6 DEF Down

\* A list in two parts.
LEMMA InTwo ==
    ASSUME NEW V, NEW whole \in Seq(V), NEW p \in Seq(V), NEW q \in Seq(V),
           Len(whole) = Len(p) + Len(q),
           \A i \in 1..Len(p) : p[i] = whole[i],
           \A i \in 1..Len(q) : q[i] = whole[Len(p) + i]
    PROVE  whole = p \o q
<1>1. Len(p) \in Nat /\ Len(q) \in Nat
  OBVIOUS
<1>2. PICK both : both = p \o q
  OBVIOUS
<1>3. /\ both \in Seq(V) /\ Len(both) = Len(p) + Len(q)
      /\ \A i \in 1..(Len(p) + Len(q)) :
            both[i] = IF i <= Len(p) THEN p[i] ELSE q[i - Len(p)]
  BY <1>2, ConcatProperties
<1>4. ASSUME NEW i \in 1..(Len(p) + Len(q)) PROVE both[i] = whole[i]
  <2>1. CASE i <= Len(p)
    BY <1>1, <1>3, <2>1
  <2>2. CASE ~(i <= Len(p))
    <3>1. i - Len(p) \in 1..Len(q) /\ Len(p) + (i - Len(p)) = i
      BY <1>1, <2>2
    <3> QED
      BY <1>3, <2>2, <3>1
  <2> QED
    BY <2>1, <2>2
<1>5. both = whole
  BY <1>3, <1>4, SeqEqual
<1> QED
  BY <1>2, <1>5

Associates(p, q, r) == p \o (q \o r) = (p \o q) \o r

LEMMA ConcatAssoc ==
    ASSUME NEW V, NEW p \in Seq(V), NEW q \in Seq(V), NEW r \in Seq(V)
    PROVE  Associates(p, q, r)
  BY DEF Associates

\* Joined lists have the members of both.
LEMMA SetOfConcat ==
    ASSUME NEW V, NEW p \in Seq(V), NEW q \in Seq(V)
    PROVE  /\ p \o q \in Seq(V) /\ Len(p \o q) = Len(p) + Len(q)
           /\ \A i \in 1..Len(p) : (p \o q)[i] = p[i]
           /\ \A i \in 1..Len(q) : (p \o q)[Len(p) + i] = q[i]
           /\ ToSet(p \o q) = ToSet(p) \cup ToSet(q)
<1>1. Len(p) \in Nat /\ Len(q) \in Nat
  OBVIOUS
<1>2. PICK both : both = p \o q
  OBVIOUS
<1>3. /\ both \in Seq(V) /\ Len(both) = Len(p) + Len(q)
      /\ \A i \in 1..(Len(p) + Len(q)) :
            both[i] = IF i <= Len(p) THEN p[i] ELSE q[i - Len(p)]
  BY <1>2, ConcatProperties
<1>4. \A i \in 1..Len(p) : i \in 1..(Len(p) + Len(q)) /\ both[i] = p[i]
  BY <1>1, <1>3
<1>5. ASSUME NEW i \in 1..Len(q)
      PROVE  Len(p) + i \in 1..(Len(p) + Len(q)) /\ both[Len(p) + i] = q[i]
  <2>1. /\ Len(p) + i \in 1..(Len(p) + Len(q)) /\ ~(Len(p) + i <= Len(p))
        /\ (Len(p) + i) - Len(p) = i
    BY <1>1
  <2> QED
    BY <1>3, <2>1
<1>6. ASSUME NEW x \in ToSet(both) PROVE x \in ToSet(p) \cup ToSet(q)
  <2>1. PICK i \in 1..(Len(p) + Len(q)) : both[i] = x
    BY <1>3, SetOfList
  <2>2. CASE i <= Len(p)
    <3>1. i \in 1..Len(p) /\ p[i] = x
      BY <1>1, <1>3, <2>1, <2>2
    <3> QED
      BY <3>1, SetOfList
  <2>3. CASE ~(i <= Len(p))
    <3>1. i - Len(p) \in 1..Len(q) /\ q[i - Len(p)] = x
      BY <1>1, <1>3, <2>1, <2>3
    <3> QED
      BY <3>1, SetOfList
  <2> QED
    BY <2>2, <2>3
<1>7. ASSUME NEW x \in ToSet(p) \cup ToSet(q) PROVE x \in ToSet(both)
  <2>1. \A i \in 1..(Len(p) + Len(q)) : both[i] \in ToSet(both)
    BY <1>3, SetOfList
  <2>2. CASE x \in ToSet(p)
    <3>1. PICK i \in 1..Len(p) : p[i] = x
      BY <2>2, SetOfList
    <3> QED
      BY <1>4, <2>1, <3>1
  <2>3. CASE x \in ToSet(q)
    <3>1. PICK i \in 1..Len(q) : q[i] = x
      BY <2>3, SetOfList
    <3> QED
      BY <1>5, <2>1, <3>1
  <2> QED
    BY <1>7, <2>2, <2>3
<1> QED
  BY <1>2, <1>3, <1>4, <1>5, <1>6, <1>7

\* Where a run is parted.
LEMMA UpFacts ==
    ASSUME MsgIndexConstants, NEW k \in Nat, NEW n \in Nat
    PROVE  /\ Up(k, n) \in Seq(Nat) /\ Len(Up(k, n)) = n
           /\ \A i \in 1..n : Up(k, n)[i] = Addr(k + i - 1)
<1>1. \A i \in 1..n : k + i - 1 \in Nat
  OBVIOUS
<1>2. \A i \in Nat : Addr(i) \in Nat
  BY AddrFacts
<1> QED
  BY <1>1, <1>2 DEF Up

\* The same against the file.
LEMMA DownFacts ==
    ASSUME MsgIndexConstants, NEW k \in Nat, NEW n \in Nat
    PROVE  /\ Down(k, n) \in Seq(Nat) /\ Len(Down(k, n)) = n
           /\ \A i \in 1..n : Down(k, n)[i] = Addr(k + n - i)
<1>1. \A i \in 1..n : k + n - i \in Nat
  OBVIOUS
<1>2. \A i \in Nat : Addr(i) \in Nat
  BY AddrFacts
<1> QED
  BY <1>1, <1>2 DEF Down

\* A run of n headers is one of its first c and one of the others.
LEMMA RunsPart ==
    ASSUME MsgIndexConstants, NEW k \in Nat, NEW n \in Nat, NEW j \in 0..n
    PROVE  /\ Up(k, n) = Up(k, j) \o Up(k + j, n - j)
           /\ Down(k, n) = Down(k + n - j, j) \o Down(k, n - j)
<1>1. j \in Nat /\ n - j \in Nat /\ k + j \in Nat /\ k + n - j \in Nat /\ n = j + (n - j)
  OBVIOUS
<1>2. Up(k, n) = Up(k, j) \o Up(k + j, n - j)
  <2>1. \A i \in 1..j : i \in 1..n
    OBVIOUS
  <2>2. \A i \in 1..(n - j) : j + i \in 1..n /\ k + (j + i) - 1 = (k + j) + i - 1
    OBVIOUS
  <2>3. /\ Up(k, n) \in Seq(Nat) /\ Len(Up(k, n)) = n
        /\ \A i \in 1..n : Up(k, n)[i] = Addr(k + i - 1)
    BY UpFacts
  <2>4. /\ Up(k, j) \in Seq(Nat) /\ Len(Up(k, j)) = j
        /\ \A i \in 1..j : Up(k, j)[i] = Addr(k + i - 1)
    BY <1>1, UpFacts
  <2>5. /\ Up(k + j, n - j) \in Seq(Nat) /\ Len(Up(k + j, n - j)) = n - j
        /\ \A i \in 1..(n - j) : Up(k + j, n - j)[i] = Addr((k + j) + i - 1)
    BY <1>1, UpFacts
  <2>6. \A i \in 1..(n - j) : Up(k + j, n - j)[i] = Up(k, n)[j + i]
    BY <2>2, <2>3, <2>5
  <2>7. \A i \in 1..j : Up(k, j)[i] = Up(k, n)[i]
    BY <2>1, <2>3, <2>4
  <2> QED
    <3>1. /\ Up(k, n) \in Seq(Nat) /\ Up(k, j) \in Seq(Nat) /\ Up(k + j, n - j) \in Seq(Nat)
          /\ Len(Up(k, n)) = Len(Up(k, j)) + Len(Up(k + j, n - j))
      BY ONLY <1>1, <2>3, <2>4, <2>5
    <3>2. /\ \A i \in 1..Len(Up(k, j)) : Up(k, j)[i] = Up(k, n)[i]
          /\ \A i \in 1..Len(Up(k + j, n - j)) : Up(k + j, n - j)[i] = Up(k, n)[Len(Up(k, j)) + i]
      BY ONLY <2>4, <2>5, <2>6, <2>7
    <3> QED
      BY ONLY <3>1, <3>2, InTwo, Zenon
<1>3. Down(k, n) = Down(k + n - j, j) \o Down(k, n - j)
  <2>1. \A i \in 1..j : i \in 1..n /\ (k + n - j) + j - i = k + n - i
    OBVIOUS
  <2>2. \A i \in 1..(n - j) : j + i \in 1..n /\ k + n - (j + i) = k + (n - j) - i
    OBVIOUS
  <2>3. /\ Down(k, n) \in Seq(Nat) /\ Len(Down(k, n)) = n
        /\ \A i \in 1..n : Down(k, n)[i] = Addr(k + n - i)
    BY DownFacts
  <2>4. /\ Down(k + n - j, j) \in Seq(Nat) /\ Len(Down(k + n - j, j)) = j
        /\ \A i \in 1..j : Down(k + n - j, j)[i] = Addr((k + n - j) + j - i)
    BY <1>1, DownFacts
  <2>5. /\ Down(k, n - j) \in Seq(Nat) /\ Len(Down(k, n - j)) = n - j
        /\ \A i \in 1..(n - j) : Down(k, n - j)[i] = Addr(k + (n - j) - i)
    BY <1>1, DownFacts
  <2>6. \A i \in 1..(n - j) : Down(k, n - j)[i] = Down(k, n)[j + i]
    BY <2>2, <2>3, <2>5
  <2>7. \A i \in 1..j : Down(k + n - j, j)[i] = Down(k, n)[i]
    BY <2>1, <2>3, <2>4
  <2> QED
    <3>1. /\ Down(k, n) \in Seq(Nat) /\ Down(k + n - j, j) \in Seq(Nat) /\ Down(k, n - j) \in Seq(Nat)
          /\ Len(Down(k, n)) = Len(Down(k + n - j, j)) + Len(Down(k, n - j))
      BY ONLY <1>1, <2>3, <2>4, <2>5
    <3>2. /\ \A i \in 1..Len(Down(k + n - j, j)) : Down(k + n - j, j)[i] = Down(k, n)[i]
          /\ \A i \in 1..Len(Down(k, n - j)) : Down(k, n - j)[i] = Down(k, n)[Len(Down(k + n - j, j)) + i]
      BY ONLY <2>4, <2>5, <2>6, <2>7
    <3> QED
      BY ONLY <3>1, <3>2, InTwo, Zenon
<1> QED
  BY <1>2, <1>3

-----------------------------------------------------------------------------
(***************************************************************************)
(* Lists joined one after the other (FlattenSeq).                          *)
(***************************************************************************)

Joins(f, s, m) ==
    \A i \in 1..m : f[i] = IF i = 1 THEN s[1] ELSE f[i - 1] \o s[i]

\* f joins, up to each place m, the lists of s one after the other.
LEMMA JoinsThere ==
    ASSUME NEW V, NEW s \in Seq(Seq(V))
    PROVE  \E f \in [1..Len(s) -> Seq(V)] : Joins(f, s, Len(s))
<1> DEFINE n == Len(s)
           T == {m \in 0..n : ~ \E f \in [1..m -> Seq(V)] : Joins(f, s, m)}
<1>1. n \in Nat /\ \A i \in 1..n : s[i] \in Seq(V)
  OBVIOUS
<1>2. SUFFICES ASSUME T # {} PROVE FALSE
  <2>1. n \in 0..n
    BY <1>1
  <2> QED
    BY <2>1
<1>3. PICK m \in T : \A y \in T : m <= y
  <2>1. T \in SUBSET Nat
    BY <1>1
  <2> HIDE DEF T
  <2> QED
    BY <1>2, <2>1, HasLeast
<1>4. m \in 0..n /\ ~ \E f \in [1..m -> Seq(V)] : Joins(f, s, m)
  BY <1>3
<1>5. m # 0
  <2>1. [i \in 1..0 |-> <<>>] \in [1..0 -> Seq(V)] /\ Joins([i \in 1..0 |-> <<>>], s, 0)
    BY DEF Joins
  <2> QED
    BY <1>4, <2>1
<1>6. m \in 1..n /\ m - 1 \in 0..n /\ ~(m <= m - 1)
  BY ONLY <1>1, <1>4, <1>5
<1>7. PICK f \in [1..(m - 1) -> Seq(V)] : Joins(f, s, m - 1)
  BY <1>3, <1>6
<1> DEFINE g == [i \in 1..m |-> IF i < m THEN f[i] ELSE IF m = 1 THEN s[1] ELSE f[m - 1] \o s[m]]
<1> HIDE DEF T, n
<1>8. g \in [1..m -> Seq(V)]
  <2>1. ASSUME NEW i \in 1..m PROVE g[i] \in Seq(V)
    <3>1. CASE i < m
      <4>1. i \in 1..(m - 1)
        BY <1>1, <1>6, <3>1
      <4> QED
        BY <3>1, <4>1
    <3>2. CASE i = m /\ m = 1
      BY <1>1, <1>6, <3>2
    <3>3. CASE i = m /\ m # 1
      <4>1. m - 1 \in 1..(m - 1) /\ s[m] \in Seq(V) /\ ~(m < m)
        BY <1>1, <1>6, <3>3
      <4>2. f[m - 1] \in Seq(V)
        BY <4>1
      <4> QED
        BY <3>3, <4>1, <4>2
    <3> QED
      BY <1>1, <1>6, <3>1, <3>2, <3>3
  <2> QED
    BY <2>1
<1>9. Joins(g, s, m)
  <2>1. ASSUME NEW i \in 1..m PROVE g[i] = IF i = 1 THEN s[1] ELSE g[i - 1] \o s[i]
    <3>1. i # 1 => i - 1 \in 1..(m - 1) /\ i - 1 \in 1..m /\ i - 1 < m
      BY <1>1, <1>6
    <3>2. i # 1 => g[i - 1] = f[i - 1]
      BY <3>1
    <3>3. CASE i < m
      <4>1. i \in 1..(m - 1) /\ g[i] = f[i]
        BY <1>1, <1>6, <3>3
      <4> HIDE DEF g
      <4> QED
        BY <1>7, <3>2, <4>1 DEF Joins
    <3>4. CASE i = m
      <4>1. g[i] = IF m = 1 THEN s[1] ELSE f[m - 1] \o s[m]
        BY <1>1, <1>6, <3>4
      <4> HIDE DEF g
      <4> QED
        BY <3>2, <3>4, <4>1
    <3> QED
      BY <1>1, <1>6, <3>3, <3>4
  <2> HIDE DEF g
  <2> QED
    BY <2>1 DEF Joins
<1> QED
  BY <1>4, <1>8, <1>9

\* There is one way only.
LEMMA JoinsOnce ==
    ASSUME NEW s, NEW n \in Nat, NEW f, Joins(f, s, n), NEW g, Joins(g, s, n)
    PROVE  \A i \in 1..n : f[i] = g[i]
<1> DEFINE T == {m \in 1..n : f[m] # g[m]}
<1>1. SUFFICES ASSUME T # {} PROVE FALSE
  OBVIOUS
<1>2. PICK m \in T : \A y \in T : m <= y
  <2>1. T \in SUBSET Nat
    OBVIOUS
  <2> HIDE DEF T
  <2> QED
    BY <1>1, <2>1, HasLeast
<1>3. m \in 1..n /\ f[m] # g[m]
  BY <1>2
<1>4. m # 1 => m - 1 \in 1..n /\ f[m - 1] = g[m - 1]
  <2>1. m # 1 => m - 1 \in 1..n /\ ~(m <= m - 1)
    BY <1>3
  <2> QED
    BY <1>2, <2>1
<1> HIDE DEF T
<1>5. /\ f[m] = IF m = 1 THEN s[1] ELSE f[m - 1] \o s[m]
      /\ g[m] = IF m = 1 THEN s[1] ELSE g[m - 1] \o s[m]
  BY <1>3 DEF Joins
<1> QED
  BY <1>3, <1>4, <1>5

\* What FlattenSeq returns.
LEMMA FlattenIs ==
    ASSUME NEW V, NEW s \in Seq(Seq(V)), s # <<>>
    PROVE  \E f \in [1..Len(s) -> Seq(V)] : Joins(f, s, Len(s)) /\ FlattenSeq(s) = f[Len(s)]
<1> DEFINE n == Len(s)
           step(f) == [i \in 1..n |-> IF i = 1 THEN s[i] ELSE f[i - 1] \o s[i]]
           all == CHOOSE f : f = step(f)
<1>1. n \in Nat /\ n # 0
  OBVIOUS
<1>2. PICK f \in [1..n -> Seq(V)] : Joins(f, s, n)
  BY JoinsThere
<1>3. f = step(f)
  BY <1>2 DEF Joins
<1>4. all = step(all)
  <2> HIDE DEF step
  <2> QED
    BY <1>3
<1>5. FlattenSeq(s) = all[n]
  BY <1>1 DEF FlattenSeq
<1> HIDE DEF all
<1>6. Joins(all, s, n)
  <2>1. ASSUME NEW i \in 1..n PROVE all[i] = IF i = 1 THEN s[1] ELSE all[i - 1] \o s[i]
    <3>1. step(all)[i] = IF i = 1 THEN s[i] ELSE all[i - 1] \o s[i]
      OBVIOUS
    <3> HIDE DEF step
    <3> QED
      BY <1>4, <3>1
  <2> QED
    BY <2>1 DEF Joins
<1>7. all[n] = f[n]
  <2>1. n \in 1..n
    BY <1>1
  <2> HIDE DEF n
  <2>2. \A i \in 1..n : all[i] = f[i]
    BY ONLY <1>1, <1>2, <1>6, JoinsOnce
  <2> QED
    BY <2>1, <2>2
<1> QED
  BY <1>2, <1>5, <1>7

\* One list more.
LEMMA FlattenAppend ==
    ASSUME NEW V, NEW s \in Seq(Seq(V)), NEW x \in Seq(V)
    PROVE  /\ FlattenSeq(s) \in Seq(V)
           /\ FlattenSeq(Append(s, x)) = FlattenSeq(s) \o x
<1> DEFINE n == Len(s)
           t == Append(s, x)
<1>1. n \in Nat /\ t \in Seq(Seq(V)) /\ Len(t) = n + 1 /\ t # <<>> /\ t[n + 1] = x
  <2>1. /\ t \in Seq(Seq(V)) /\ Len(t) = Len(s) + 1 /\ t # <<>> /\ t[Len(s) + 1] = x
    BY AppendProperties
  <2> QED
    BY <2>1
<1>2. \A i \in 1..n : t[i] = s[i]
  BY AppendProperties
<1>3. PICK g \in [1..(n + 1) -> Seq(V)] : Joins(g, t, n + 1) /\ FlattenSeq(t) = g[n + 1]
  <2> HIDE DEF t, n
  <2> QED
    BY <1>1, FlattenIs
<1>4. g[n + 1] = IF n + 1 = 1 THEN t[1] ELSE g[n] \o t[n + 1]
  <2>1. n + 1 \in 1..(n + 1) /\ (n + 1) - 1 = n
    BY <1>1
  <2> HIDE DEF t, n
  <2> QED
    BY <1>3, <2>1 DEF Joins
<1>5. CASE s = <<>>
  <2>1. n = 0 /\ FlattenSeq(s) = <<>> /\ <<>> \o x = x /\ <<>> \in Seq(V)
    BY <1>5 DEF FlattenSeq
  <2> QED
    BY <1>1, <1>3, <1>4, <2>1
<1>6. CASE s # <<>>
  <2>1. PICK f \in [1..n -> Seq(V)] : Joins(f, s, n) /\ FlattenSeq(s) = f[n]
    BY <1>6, FlattenIs
  <2>2. n # 0 /\ n \in 1..n
    BY <1>1, <1>6
  <2>3. Joins(g, t, n)
    <3>1. \A i \in 1..n : i \in 1..(n + 1)
      BY <1>1
    <3> HIDE DEF t, n
    <3> QED
      BY <1>3, <3>1 DEF Joins
  <2> HIDE DEF t, n
  <2>6. Joins(f, t, n)
    <3>1. \A i \in 1..n : 1 \in 1..n
      BY <1>1
    <3> QED
      BY ONLY <1>2, <2>1, <3>1 DEF Joins
  <2>4. \A i \in 1..n : g[i] = f[i]
    <3>1. n \in Nat
      BY <1>1
    <3> QED
      BY ONLY <2>3, <2>6, <3>1, JoinsOnce, SMTT(40)
  <2>7. n + 1 # 1 /\ g[n] = f[n]
    BY <1>1, <2>2, <2>4
  <2>5. FlattenSeq(t) = f[n] \o x
    BY ONLY <1>1, <1>3, <1>4, <2>7
  <2>8. FlattenSeq(s) \in Seq(V)
    BY <2>1, <2>2
  <2> QED
    BY <2>1, <2>5, <2>8 DEF t
<1> QED
  BY <1>5, <1>6

\* Many lists more.
LEMMA FlattenConcat ==
    ASSUME NEW V, NEW p \in Seq(Seq(V)), NEW q \in Seq(Seq(V))
    PROVE  FlattenSeq(p \o q) = FlattenSeq(p) \o FlattenSeq(q)
<1> DEFINE n == Len(q)
           T == {k \in 0..n : FlattenSeq(p \o SubSeq(q, 1, k)) #
                                  FlattenSeq(p) \o FlattenSeq(SubSeq(q, 1, k))}
<1>1. n \in Nat /\ \A k \in 1..n : q[k] \in Seq(V)
  OBVIOUS
<1>2. ASSUME T # {} PROVE FALSE
  <2>1. PICK k \in T : \A y \in T : k <= y
    <3>1. T \in SUBSET Nat
      BY <1>1
    <3> HIDE DEF T
    <3> QED
      BY <1>2, <3>1, HasLeast
  <2>2. /\ k \in 0..n
        /\ FlattenSeq(p \o SubSeq(q, 1, k)) # FlattenSeq(p) \o FlattenSeq(SubSeq(q, 1, k))
    BY <2>1
  <2>3. k # 0
    <3>1. SubSeq(q, 1, 0) = <<>> /\ FlattenSeq(<<>>) = <<>>
      <4>1. Len(<<>>) = 0 /\ SubSeq(q, 1, 0) = <<>>
        OBVIOUS
      <4> QED
        BY <4>1, Zenon DEF FlattenSeq
    <3>3. p \o <<>> = p
      OBVIOUS
    <3>2. FlattenSeq(p) \o <<>> = FlattenSeq(p)
      <4>1. FlattenSeq(p) \in Seq(V)
        BY EmptySeq, FlattenAppend
      <4> QED
        BY <4>1
    <3> QED
      BY <2>2, <3>1, <3>2, <3>3
  <2>4. k \in 1..n /\ k - 1 \in 0..n /\ ~(k <= k - 1)
    BY <1>1, <2>2, <2>3
  <2>5. FlattenSeq(p \o SubSeq(q, 1, k - 1)) = FlattenSeq(p) \o FlattenSeq(SubSeq(q, 1, k - 1))
    BY <2>1, <2>4
  <2> HIDE DEF T, n
  <2>12. SubSeq(q, 1, k - 1) \in Seq(Seq(V)) /\ Len(SubSeq(q, 1, k - 1)) = k - 1
    <3>1. \A i \in 1..(k - 1) : q[i] \in Seq(V)
      BY <1>1, <2>4
    <3>2. k - 1 \in Int
      BY <1>1, <2>4
    <3> QED
      BY ONLY <2>4, <3>1, <3>2, <1>1, SubSeqProperties
  <2>6. PICK a \in Seq(Seq(V)) : a = SubSeq(q, 1, k - 1)
    BY <2>12, Zenon
  <2>7. SubSeq(q, 1, k) = Append(a, q[k])
    <3>1. Len(a) = k - 1 /\ \A i \in 1..(k - 1) : a[i] = q[i]
      BY <1>1, <2>4, <2>6, <2>12
    <3>2. /\ Append(a, q[k]) \in Seq(Seq(V)) /\ Len(Append(a, q[k])) = k
          /\ \A i \in 1..k : Append(a, q[k])[i] = q[i]
      <4>1. q[k] \in Seq(V)
        BY <1>1, <2>4
      <4> QED
        BY <1>1, <2>4, <3>1, <4>1, AppendProperties
    <3>3. /\ SubSeq(q, 1, k) \in Seq(Seq(V)) /\ Len(SubSeq(q, 1, k)) = k
          /\ \A i \in 1..k : SubSeq(q, 1, k)[i] = q[i]
      <4>1. \A i \in 1..k : q[i] \in Seq(V)
        BY <1>1, <2>4
      <4> QED
        BY <1>1, <2>4, <4>1
    <3> QED
      BY <3>2, <3>3, SeqEqual
  <2>8. PICK x \in Seq(V) : x = q[k]
    BY <1>1, <2>4
  <2>9. p \o Append(a, x) = Append(p \o a, x) /\ p \o a \in Seq(Seq(V))
    OBVIOUS
  <2>10. /\ FlattenSeq(Append(p \o a, x)) = FlattenSeq(p \o a) \o x
         /\ FlattenSeq(Append(a, x)) = FlattenSeq(a) \o x
         /\ FlattenSeq(a) \in Seq(V) /\ FlattenSeq(p) \in Seq(V)
    BY <2>9, FlattenAppend
  <2>11. (FlattenSeq(p) \o FlattenSeq(a)) \o x = FlattenSeq(p) \o (FlattenSeq(a) \o x)
    BY <2>10, SMTT(40)
  <2> QED
    BY <2>2, <2>5, <2>6, <2>7, <2>8, <2>9, <2>10, <2>11
<1>3. SubSeq(q, 1, n) = q
  OBVIOUS
<1>4. n \in 0..n
  BY <1>1
<1> QED
  BY <1>2, <1>3, <1>4

-----------------------------------------------------------------------------
(***************************************************************************)
(* The display order that a file of runs stands for, read from its last    *)
(* entry back.                                                             *)
(***************************************************************************)

Used(n) == {Addr(k) : k \in 0..(n - 1)}
Runs(n) == {e \in [begin : Nat, end : Nat] :
               \E k \in Nat, c \in Nat \ {0} :
                  k + c <= n /\ (e = UpRun(k, c) \/ e = DownRun(k, c))}
Walked(t) == FlattenSeq([i \in DOMAIN t |-> Messages(Reverse(t)[i])])

\* Every run shows headers of the file.
LEMMA RunMessages ==
    ASSUME MsgIndexConstants, NEW n \in Nat, NEW e \in Runs(n)
    PROVE  Messages(e) \in Seq(Used(n))
<1>1. PICK k \in Nat, c \in Nat \ {0} :
         k + c <= n /\ (e = UpRun(k, c) \/ e = DownRun(k, c))
  BY DEF Runs
<1>2. \A i \in 1..c : k + i - 1 \in 0..(n - 1) /\ k + c - i \in 0..(n - 1)
  BY <1>1
<1>3. Up(k, c) \in Seq(Used(n)) /\ Down(k, c) \in Seq(Used(n))
  <2>1. Up(k, c) \in [1..c -> Used(n)] /\ Down(k, c) \in [1..c -> Used(n)]
    BY <1>2 DEF Up, Down, Used
  <2> QED
    BY <2>1
<1> QED
  BY <1>1, <1>3, UpMessages, DownMessages

\* The entries are walked from the last one back.
LEMMA WalkedParts ==
    ASSUME MsgIndexConstants, NEW n \in Nat, NEW a \in Seq(Runs(n)), NEW b \in Seq(Runs(n))
    PROVE  Walked(a \o b) = Walked(b) \o Walked(a)
<1> DEFINE back(t) == [i \in DOMAIN t |-> Messages(Reverse(t)[i])]
<1>1. ASSUME NEW t \in Seq(Runs(n))
      PROVE  /\ back(t) \in Seq(Seq(Used(n))) /\ Len(back(t)) = Len(t)
             /\ \A i \in 1..Len(t) : back(t)[i] = Messages(t[Len(t) - i + 1])
  <2>1. DOMAIN t = 1..Len(t) /\ Len(t) \in Nat
    OBVIOUS
  <2>2. \A i \in 1..Len(t) : Reverse(t)[i] = t[Len(t) - i + 1] /\ t[Len(t) - i + 1] \in Runs(n)
    BY <2>1 DEF Reverse
  <2>3. \A i \in 1..Len(t) : Messages(t[Len(t) - i + 1]) \in Seq(Used(n))
    BY <2>2, RunMessages
  <2>4. back(t) = [i \in 1..Len(t) |-> Messages(t[Len(t) - i + 1])]
    BY <2>1, <2>2
  <2> HIDE DEF back
  <2> QED
    BY <2>1, <2>3, <2>4
<1>2. PICK ab \in Seq(Runs(n)) : ab = a \o b
  BY ConcatProperties
<1>3. /\ Len(ab) = Len(a) + Len(b) /\ Len(a) \in Nat /\ Len(b) \in Nat
      /\ \A i \in 1..(Len(a) + Len(b)) : ab[i] = IF i <= Len(a) THEN a[i] ELSE b[i - Len(a)]
  BY <1>2, ConcatProperties
<1> HIDE DEF back
<1>4. \A i \in 1..Len(b) : back(b)[i] = back(ab)[i]
  <2>1. SUFFICES ASSUME NEW i \in 1..Len(b) PROVE back(b)[i] = back(ab)[i]
    OBVIOUS
  <2>2. /\ i \in 1..Len(ab) /\ Len(ab) - i + 1 \in 1..(Len(a) + Len(b))
        /\ ~(Len(ab) - i + 1 <= Len(a))
        /\ (Len(ab) - i + 1) - Len(a) = Len(b) - i + 1
    BY <1>3
  <2> QED
    BY <1>1, <1>3, <2>2, ZenonT(60)
<1>5. \A i \in 1..Len(a) : back(a)[i] = back(ab)[Len(b) + i]
  <2>1. SUFFICES ASSUME NEW i \in 1..Len(a) PROVE back(a)[i] = back(ab)[Len(b) + i]
    OBVIOUS
  <2>2. /\ Len(b) + i \in 1..Len(ab) /\ Len(ab) - (Len(b) + i) + 1 = Len(a) - i + 1
        /\ Len(a) - i + 1 \in 1..(Len(a) + Len(b)) /\ Len(a) - i + 1 <= Len(a)
    BY <1>3
  <2> QED
    BY <1>1, <1>3, <2>2, ZenonT(60)
<1>6. back(ab) = back(b) \o back(a)
  <2>1. /\ back(ab) \in Seq(Seq(Used(n))) /\ back(b) \in Seq(Seq(Used(n)))
        /\ back(a) \in Seq(Seq(Used(n)))
        /\ Len(back(ab)) = Len(back(b)) + Len(back(a))
        /\ Len(back(b)) = Len(b) /\ Len(back(a)) = Len(a)
    BY <1>1, <1>3, SMTT(40)
  <2>2. /\ \A i \in 1..Len(back(b)) : back(b)[i] = back(ab)[i]
        /\ \A i \in 1..Len(back(a)) : back(a)[i] = back(ab)[Len(back(b)) + i]
    BY <1>4, <1>5, <2>1
  <2>3. PICK x, y, z, W : x = back(ab) /\ y = back(b) /\ z = back(a) /\ W = Seq(Used(n))
    OBVIOUS
  <2>4. /\ x \in Seq(W) /\ y \in Seq(W) /\ z \in Seq(W)
        /\ Len(x) = Len(y) + Len(z)
        /\ \A i \in 1..Len(y) : y[i] = x[i]
        /\ \A i \in 1..Len(z) : z[i] = x[Len(y) + i]
    BY ONLY <2>1, <2>2, <2>3
  <2>5. x = y \o z
    BY ONLY <2>4, InTwo
  <2> QED
    BY <2>3, <2>5
<1>7. \A t : Walked(t) = FlattenSeq(back(t))
  BY DEF Walked, back
<1> QED
  BY <1>1, <1>2, <1>6, <1>7, FlattenConcat

\* No entry shows nothing, one shows its run, and all show headers of the file.
LEMMA WalkedFacts ==
    ASSUME MsgIndexConstants, NEW n \in Nat
    PROVE  /\ Walked(<<>>) = <<>>
           /\ \A e \in Runs(n) : Walked(<<e>>) = Messages(e)
           /\ \A t \in Seq(Runs(n)) : Walked(t) \in Seq(Used(n))
<1>1. Walked(<<>>) = <<>>
  <2>1. [i \in DOMAIN <<>> |-> Messages(Reverse(<<>>)[i])] = <<>>
    OBVIOUS
  <2> QED
    BY <2>1 DEF Walked, FlattenSeq
<1>2. ASSUME NEW e \in Runs(n) PROVE Walked(<<e>>) = Messages(e)
  <2>1. Messages(e) \in Seq(Used(n))
    BY RunMessages
  <2>2. Reverse(<<e>>)[1] = e
    BY DEF Reverse
  <2>3. [i \in DOMAIN <<e>> |-> Messages(Reverse(<<e>>)[i])] = <<Messages(e)>>
    <3>1. DOMAIN <<e>> = {1}
      OBVIOUS
    <3> QED
      BY <2>1, <2>2, <3>1
  <2>4. FlattenSeq(Append(<<>>, Messages(e))) = FlattenSeq(<<>>) \o Messages(e)
    BY <2>1, EmptySeq, FlattenAppend
  <2>5. Append(<<>>, Messages(e)) = <<Messages(e)>> /\ FlattenSeq(<<>>) = <<>>
        /\ <<>> \o Messages(e) = Messages(e)
    BY <2>1 DEF FlattenSeq
  <2> QED
    BY <2>3, <2>4, <2>5 DEF Walked
<1>3. ASSUME NEW t \in Seq(Runs(n)) PROVE Walked(t) \in Seq(Used(n))
  <2>1. DOMAIN t = 1..Len(t) /\ Len(t) \in Nat
    OBVIOUS
  <2>2. \A i \in 1..Len(t) : Reverse(t)[i] \in Runs(n)
    <3>1. \A i \in 1..Len(t) : Reverse(t)[i] = t[Len(t) - i + 1] /\ t[Len(t) - i + 1] \in Runs(n)
      BY <2>1 DEF Reverse
    <3> QED
      BY <3>1
  <2>3. \A i \in 1..Len(t) : Messages(Reverse(t)[i]) \in Seq(Used(n))
    BY <2>2, RunMessages
  <2>4. [i \in DOMAIN t |-> Messages(Reverse(t)[i])] \in Seq(Seq(Used(n)))
    BY <2>1, <2>3
  <2> QED
    BY <2>4, EmptySeq, FlattenAppend DEF Walked
<1> QED
  BY <1>1, <1>2, <1>3

\* Entry i of the file, and what gives way to it.
LEMMA Rewritten ==
    ASSUME MsgIndexConstants, NEW n \in Nat, table \in Seq(Runs(n)),
           NEW i \in 1..Len(table), NEW es \in Seq(Runs(n))
    PROVE  /\ Rewrite(i, es) \in Seq(Runs(n)) /\ table[i] \in Runs(n)
           /\ \E a, b \in Seq(Used(n)) :
                 /\ Walked(table) = (a \o Messages(table[i])) \o b
                 /\ Walked(Rewrite(i, es)) = (a \o Walked(es)) \o b
                 /\ i = Len(table) => a = <<>>
<1>1. Len(table) \in Nat /\ \A j \in 1..Len(table) : table[j] \in Runs(n)
  OBVIOUS
<1>2. PICK e \in Runs(n) : e = table[i]
  BY <1>1
<1>3. PICK before \in Seq(Runs(n)) :
         /\ before = SubSeq(table, 1, i - 1) /\ Len(before) = i - 1
         /\ \A j \in 1..(i - 1) : before[j] = table[j]
  <2>1. \A j \in 1..(i - 1) : table[j] \in Runs(n)
    BY <1>1
  <2>2. /\ SubSeq(table, 1, i - 1) \in Seq(Runs(n)) /\ Len(SubSeq(table, 1, i - 1)) = i - 1
        /\ \A j \in 1..(i - 1) : SubSeq(table, 1, i - 1)[j] = table[j]
    BY <1>1, <2>1
  <2> QED
    BY <2>2, Zenon
<1>4. PICK behind \in Seq(Runs(n)) :
         /\ behind = SubSeq(table, i + 1, Len(table)) /\ Len(behind) = Len(table) - i
         /\ \A j \in 1..(Len(table) - i) : behind[j] = table[i + j]
  <2>1. \A j \in (i + 1)..Len(table) : table[j] \in Runs(n)
    BY <1>1
  <2>2. /\ SubSeq(table, i + 1, Len(table)) \in Seq(Runs(n))
        /\ Len(SubSeq(table, i + 1, Len(table))) = Len(table) - i
        /\ \A j \in 1..(Len(table) - i) : SubSeq(table, i + 1, Len(table))[j] = table[i + j]
    BY <1>1, <2>1
  <2> QED
    BY <2>2, Zenon
<1>5. table = (before \o <<e>>) \o behind
  <2>1. PICK front \in Seq(Runs(n)) : front = before \o <<e>>
    <3>1. <<e>> \in Seq(Runs(n))
      OBVIOUS
    <3> QED
      BY <3>1, SetOfConcat
  <2>2. Len(front) = i /\ \A j \in 1..i : front[j] = table[j]
    <3>1. Len(front) = Len(before) + 1
      BY <2>1
    <3>2. ASSUME NEW j \in 1..i PROVE front[j] = table[j]
      <4>1. CASE j <= i - 1
        <5>1. j \in 1..Len(before) /\ front[j] = before[j]
          BY <1>3, <2>1, <4>1
        <5> QED
          BY <1>3, <5>1
      <4>2. CASE j = i
        <5>1. front[Len(before) + 1] = e
          BY <2>1
        <5> QED
          BY <1>2, <1>3, <4>2, <5>1
      <4> QED
        BY <4>1, <4>2
    <3> QED
      BY <1>3, <3>1, <3>2
  <2>3. Len(table) = Len(front) + Len(behind)
    BY <1>1, <1>4, <2>2
  <2>4. table = front \o behind
    <3>1. \A j \in 1..Len(front) : front[j] = table[j]
      BY <2>2
    <3>2. \A j \in 1..Len(behind) : behind[j] = table[Len(front) + j]
      BY <1>4, <2>2
    <3> QED
      BY <2>3, <3>1, <3>2, InTwo
  <2> QED
    BY <2>1, <2>4
<1>6. Rewrite(i, es) = (before \o es) \o behind
  BY <1>3, <1>4 DEF Rewrite
<1>7. /\ before \o <<e>> \in Seq(Runs(n)) /\ before \o es \in Seq(Runs(n))
      /\ (before \o es) \o behind \in Seq(Runs(n)) /\ <<e>> \in Seq(Runs(n))
  BY ConcatProperties
<1>8. /\ Walked((before \o <<e>>) \o behind) = Walked(behind) \o (Walked(<<e>>) \o Walked(before))
      /\ Walked((before \o es) \o behind) = Walked(behind) \o (Walked(es) \o Walked(before))
  BY <1>7, WalkedParts
<1>9. /\ Walked(<<e>>) = Messages(e) /\ Messages(e) \in Seq(Used(n))
      /\ Walked(before) \in Seq(Used(n)) /\ Walked(behind) \in Seq(Used(n))
      /\ Walked(es) \in Seq(Used(n))
  BY WalkedFacts, RunMessages
<1>10. PICK x, y, z, w \in Seq(Used(n)) :
          /\ x = Walked(behind) /\ y = Messages(e) /\ z = Walked(before) /\ w = Walked(es)
  BY ONLY <1>9, Zenon
<1>11. Associates(x, y, z) /\ Associates(x, w, z)
  BY ConcatAssoc
<1>12. x \o (y \o z) = (x \o y) \o z /\ x \o (w \o z) = (x \o w) \o z
  BY ONLY <1>11 DEF Associates
<1>13. Walked(table) = x \o (y \o z) /\ Walked(Rewrite(i, es)) = x \o (w \o z)
  BY ONLY <1>5, <1>6, <1>8, <1>9, <1>10, Zenon
<1>14. /\ Walked(table) = (x \o Messages(table[i])) \o z
       /\ Walked(Rewrite(i, es)) = (x \o Walked(es)) \o z
  BY ONLY <1>2, <1>10, <1>11, <1>12, <1>13, Zenon
<1>15. i = Len(table) => x = <<>>
  <2>1. i = Len(table) => behind = <<>>
    BY <1>1, <1>4
  <2> QED
    BY <1>10, <2>1, WalkedFacts
<1> QED
  BY <1>2, <1>6, <1>7, <1>14, <1>15

\* Every message walked over is in a run.
LEMMA InARun ==
    ASSUME MsgIndexConstants, NEW n \in Nat, NEW t \in Seq(Runs(n)), NEW m \in ToSet(Walked(t))
    PROVE  \E i \in 1..Len(t) : m \in ToSet(Messages(t[i]))
<1> DEFINE part(k) == SubSeq(t, 1, k)
           T == {k \in 0..Len(t) : m \in ToSet(Walked(part(k)))}
<1>1. Len(t) \in Nat /\ part(Len(t)) = t /\ \A k \in 1..Len(t) : t[k] \in Runs(n)
  OBVIOUS
<1>2. Len(t) \in T
  <2> HIDE DEF part
  <2> QED
    BY <1>1
<1>3. PICK k \in T : \A y \in T : k <= y
  <2>1. T \in SUBSET Nat
    BY <1>1
  <2> HIDE DEF T
  <2> QED
    BY <1>2, <2>1, HasLeast
<1>4. k \in 0..Len(t) /\ m \in ToSet(Walked(part(k)))
  BY <1>3
<1>5. k # 0
  <2>1. part(0) = <<>>
    OBVIOUS
  <2>2. ToSet(Walked(<<>>)) = {}
    <3>1. Walked(<<>>) = <<>>
      BY WalkedFacts
    <3> QED
      BY <3>1 DEF ToSet
  <2> HIDE DEF part
  <2> QED
    BY <1>4, <2>1, <2>2
<1>6. k \in 1..Len(t) /\ k - 1 \in 0..Len(t) /\ k - 1 \in Int /\ ~(k <= k - 1)
  BY ONLY <1>1, <1>4, <1>5
<1>7. m \notin ToSet(Walked(part(k - 1)))
  BY <1>3, <1>6
<1> HIDE DEF T
<1>8. \A j \in 1..k : t[j] \in Runs(n)
  BY <1>1, <1>6
<1>9. /\ part(k) \in Seq(Runs(n)) /\ Len(part(k)) = k /\ \A j \in 1..k : part(k)[j] = t[j]
      /\ part(k - 1) \in Seq(Runs(n)) /\ Len(part(k - 1)) = k - 1
      /\ \A j \in 1..(k - 1) : part(k - 1)[j] = t[j]
  BY <1>1, <1>6, <1>8
<1> HIDE DEF part
<1>10. PICK e \in Runs(n) : e = t[k]
  BY <1>8, <1>6
<1>11. <<e>> \in Seq(Runs(n)) /\ Len(<<e>>) = 1 /\ <<e>>[1] = e
  OBVIOUS
<1>12. part(k) = part(k - 1) \o <<e>>
  <2>1. \A j \in 1..Len(part(k - 1)) : part(k - 1)[j] = part(k)[j]
    BY <1>6, <1>9
  <2>2. \A j \in 1..Len(<<e>>) : <<e>>[j] = part(k)[Len(part(k - 1)) + j]
    BY <1>6, <1>9, <1>10, <1>11
  <2>3. Len(part(k)) = Len(part(k - 1)) + Len(<<e>>)
    BY <1>6, <1>9, <1>11
  <2>4. PICK x, y, z : x = part(k) /\ y = part(k - 1) /\ z = <<e>>
    OBVIOUS
  <2>5. /\ x \in Seq(Runs(n)) /\ y \in Seq(Runs(n)) /\ z \in Seq(Runs(n))
        /\ Len(x) = Len(y) + Len(z)
        /\ \A j \in 1..Len(y) : y[j] = x[j]
        /\ \A j \in 1..Len(z) : z[j] = x[Len(y) + j]
    BY ONLY <1>9, <1>11, <2>1, <2>2, <2>3, <2>4
  <2>6. x = y \o z
    BY ONLY <2>5, InTwo
  <2> QED
    BY <2>4, <2>6
<1>13. Walked(part(k)) = Messages(e) \o Walked(part(k - 1))
  BY <1>9, <1>11, <1>12, WalkedParts, WalkedFacts
<1>14. Messages(e) \in Seq(Used(n)) /\ Walked(part(k - 1)) \in Seq(Used(n))
  BY <1>9, RunMessages, WalkedFacts
<1>15. m \in ToSet(Messages(e))
  <2>1. PICK x, y \in Seq(Used(n)) : x = Messages(e) /\ y = Walked(part(k - 1))
    BY <1>14
  <2>2. m \in ToSet(x \o y) /\ m \notin ToSet(y)
    BY <1>4, <1>7, <1>13, <2>1
  <2>3. m \in ToSet(x)
    BY <2>2, SetOfConcat
  <2> QED
    BY <2>1, <2>3
<1> QED
  BY <1>6, <1>10, <1>15

\* Runs of headers of the file.
LEMMA RunIn ==
    ASSUME MsgIndexConstants, NEW n \in Nat, NEW k \in Nat, NEW c \in Nat \ {0}, k + c <= n
    PROVE  UpRun(k, c) \in Runs(n) /\ DownRun(k, c) \in Runs(n)
<1>1. Addr(k) \in Nat /\ Addr(k + c) \in Nat /\ Addr(k + c) - 1 \in Nat
  <2>1. k + c \in Nat
    OBVIOUS
  <2>2. Addr(k) \in Nat /\ Addr(k + c) \in Nat /\ Addr(k + c) > 0
    BY <2>1, AddrFacts
  <2> QED
    BY <2>2
<1>2. UpRun(k, c) \in [begin : Nat, end : Nat] /\ DownRun(k, c) \in [begin : Nat, end : Nat]
  BY <1>1 DEF UpRun, DownRun, Run
<1> QED
  BY <1>2 DEF Runs

\* One message is a run, too.
LEMMA SingleIs ==
    ASSUME MsgIndexConstants, NEW k \in Nat
    PROVE  /\ Single(Addr(k)) = UpRun(k, 1)
           /\ Up(k, 1) = <<Addr(k)>> /\ Down(k, 1) = <<Addr(k)>>
           /\ Up(k, 0) = <<>> /\ Down(k, 0) = <<>>
<1>1. Addr(k) \in Nat /\ Addr(k + 1) = Addr(k) + S /\ S \in Nat
  BY AddrFacts
<1>2. Single(Addr(k)) = UpRun(k, 1)
  BY <1>1 DEF Single, UpRun
<1>3. Up(k, 1) = <<Addr(k)>>
  <2>1. Up(k, 1) = [i \in 1..1 |-> Addr(k)]
    <3>1. \A i \in 1..1 : k + i - 1 = k
      OBVIOUS
    <3> QED
      BY <3>1 DEF Up
  <2> QED
    BY <1>1, <2>1
<1>4. Down(k, 1) = <<Addr(k)>>
  <2>1. Down(k, 1) = [i \in 1..1 |-> Addr(k)]
    <3>1. \A i \in 1..1 : k + 1 - i = k
      OBVIOUS
    <3> QED
      BY <3>1 DEF Down
  <2> QED
    BY <1>1, <2>1
<1>5. Up(k, 0) = <<>> /\ Down(k, 0) = <<>>
  BY DEF Up, Down
<1> QED
  BY <1>2, <1>3, <1>4, <1>5

\* What is left of a run, if anything.
LEMMA LeftOver ==
    ASSUME MsgIndexConstants, NEW n \in Nat, NEW k \in Nat, NEW c \in Nat, k + c <= n
    PROVE  /\ If(c # 0, UpRun(k, c)) \in Seq(Runs(n))
           /\ Walked(If(c # 0, UpRun(k, c))) = Up(k, c)
           /\ If(c # 0, DownRun(k, c)) \in Seq(Runs(n))
           /\ Walked(If(c # 0, DownRun(k, c))) = Down(k, c)
           /\ Up(k, c) \in Seq(Used(n)) /\ Down(k, c) \in Seq(Used(n))
<1>1. CASE c = 0
  <2>1. /\ If(c # 0, UpRun(k, c)) = <<>> /\ If(c # 0, DownRun(k, c)) = <<>>
        /\ Up(k, c) = <<>> /\ Down(k, c) = <<>>
    BY <1>1, SingleIs DEF If
  <2>2. Walked(<<>>) = <<>> /\ <<>> \in Seq(Runs(n)) /\ <<>> \in Seq(Used(n))
    BY WalkedFacts
  <2> QED
    BY <2>1, <2>2
<1>2. CASE c # 0
  <2>1. If(c # 0, UpRun(k, c)) = <<UpRun(k, c)>> /\ If(c # 0, DownRun(k, c)) = <<DownRun(k, c)>>
    BY <1>2 DEF If
  <2>2. PICK u \in Runs(n), d \in Runs(n) : u = UpRun(k, c) /\ d = DownRun(k, c)
    BY <1>2, RunIn
  <2>3. <<u>> \in Seq(Runs(n)) /\ <<d>> \in Seq(Runs(n))
    OBVIOUS
  <2>4. Walked(<<u>>) = Messages(u) /\ Walked(<<d>>) = Messages(d)
    BY WalkedFacts
  <2>5. Messages(u) = Up(k, c) /\ Messages(d) = Down(k, c)
    BY <1>2, <2>2, UpMessages, DownMessages
  <2>6. Messages(u) \in Seq(Used(n)) /\ Messages(d) \in Seq(Used(n))
    BY RunMessages
  <2> QED
    BY <2>1, <2>2, <2>3, <2>4, <2>5, <2>6, Zenon
<1> QED
  BY <1>1, <1>2

\* A run covers its messages, and of the headers no others.
LEMMA CoversItsOwn ==
    ASSUME MsgIndexConstants, NEW n \in Nat, NEW e \in Runs(n), NEW x \in Nat
    PROVE  Covers(e, Addr(x)) <=> Addr(x) \in ToSet(Messages(e))
<1>1. PICK k \in Nat, c \in Nat \ {0} : e = UpRun(k, c) \/ e = DownRun(k, c)
  BY DEF Runs
<1>2. /\ Addr(k) \in Nat /\ Addr(k + c) \in Nat /\ Addr(x) \in Nat
      /\ Addr(k) + S <= Addr(k + c) /\ S \in Nat /\ S > 1
      /\ Addr(k) <= Addr(x) <=> k <= x
      /\ Addr(x) <= Addr(k + c) - 1 <=> x < k + c
  <2>1. k + c \in Nat /\ k < k + c
    OBVIOUS
  <2>2. /\ \A i \in Nat : Addr(i) \in Nat
        /\ \A i, j \in Nat : i < j => Addr(i) + S <= Addr(j)
        /\ S \in Nat /\ S > 1
    BY AddrFacts
  <2>3. Addr(k) \in Nat /\ Addr(k + c) \in Nat /\ Addr(x) \in Nat
    BY <2>1, <2>2
  <2>4. Addr(k) <= Addr(x) <=> k <= x
    <3>1. k < x \/ k = x \/ x < k
      OBVIOUS
    <3>2. (k < x => Addr(k) + S <= Addr(x)) /\ (x < k => Addr(x) + S <= Addr(k))
      BY <2>2
    <3> QED
      BY <2>2, <2>3, <3>1, <3>2
  <2>5. Addr(x) <= Addr(k + c) - 1 <=> x < k + c
    <3>1. k + c < x \/ k + c = x \/ x < k + c
      BY <2>1
    <3>2. CASE k + c < x
      <4>1. Addr(k + c) + S <= Addr(x) /\ ~(x < k + c)
        BY <2>1, <2>2, <3>2
      <4> QED
        BY <2>2, <2>3, <4>1
    <3>3. CASE k + c = x
      <4>1. Addr(k + c) = Addr(x) /\ ~(x < k + c)
        BY <2>1, <3>3
      <4> QED
        BY <2>3, <4>1
    <3>4. CASE x < k + c
      <4>1. Addr(x) + S <= Addr(k + c)
        BY <2>1, <2>2, <3>4
      <4> QED
        BY <2>2, <2>3, <3>4, <4>1
    <3> QED
      BY <3>1, <3>2, <3>3, <3>4
  <2> QED
    BY <2>1, <2>2, <2>3, <2>4, <2>5
<1>3. Covers(e, Addr(x)) <=> k <= x /\ x < k + c
  <2>1. \/ e.begin = Addr(k) /\ e.end = Addr(k + c) - 1
        \/ e.begin = Addr(k + c) - 1 /\ e.end = Addr(k)
    BY <1>1 DEF UpRun, DownRun, Run
  <2> QED
    BY <1>2, <2>1 DEF Covers
<1>4. \A i, j \in Nat : Addr(i) = Addr(j) <=> i = j
  BY AddrFacts
<1>5. Addr(x) \in ToSet(Up(k, c)) <=> k <= x /\ x < k + c
  <2>1. Addr(x) \in ToSet(Up(k, c)) <=> \E i \in 1..c : Addr(k + i - 1) = Addr(x)
    <3>1. PICK list \in Seq(Nat) : /\ list = Up(k, c) /\ Len(list) = c
                                  /\ \A i \in 1..c : list[i] = Addr(k + i - 1)
      BY UpFacts
    <3>2. Addr(x) \in ToSet(list) <=> \E i \in 1..Len(list) : list[i] = Addr(x)
      BY SetOfList
    <3> QED
      BY <3>1, <3>2
  <2>2. \A i \in 1..c : k + i - 1 \in Nat
    OBVIOUS
  <2>3. Addr(x) \in ToSet(Up(k, c)) <=> \E i \in 1..c : k + i - 1 = x
    BY <1>4, <2>1, <2>2
  <2>4. k <= x /\ x < k + c => x - k + 1 \in 1..c /\ k + (x - k + 1) - 1 = x
    OBVIOUS
  <2> QED
    BY <2>3, <2>4
<1>6. Addr(x) \in ToSet(Down(k, c)) <=> k <= x /\ x < k + c
  <2>1. Addr(x) \in ToSet(Down(k, c)) <=> \E i \in 1..c : Addr(k + c - i) = Addr(x)
    <3>1. PICK list \in Seq(Nat) : /\ list = Down(k, c) /\ Len(list) = c
                                  /\ \A i \in 1..c : list[i] = Addr(k + c - i)
      BY DownFacts
    <3>2. Addr(x) \in ToSet(list) <=> \E i \in 1..Len(list) : list[i] = Addr(x)
      BY SetOfList
    <3> QED
      BY <3>1, <3>2
  <2>2. \A i \in 1..c : k + c - i \in Nat
    OBVIOUS
  <2>3. Addr(x) \in ToSet(Down(k, c)) <=> \E i \in 1..c : k + c - i = x
    BY <1>4, <2>1, <2>2
  <2>4. k <= x /\ x < k + c => k + c - x \in 1..c /\ k + c - (k + c - x) = x
    OBVIOUS
  <2> QED
    BY <2>3, <2>4
<1> QED
  BY <1>1, <1>3, <1>5, <1>6, UpMessages, DownMessages

\* A list of two is one and one.
LEMMA OneAndOne ==
    ASSUME NEW V, NEW a \in V, NEW b \in V
    PROVE  <<a, b>> = <<a>> \o <<b>>
<1>1. <<a>> \in Seq(V) /\ <<b>> \in Seq(V) /\ <<a, b>> \in Seq(V)
  OBVIOUS
<1>2. PICK x, y, z \in Seq(V) : x = <<a, b>> /\ y = <<a>> /\ z = <<b>>
  BY <1>1
<1>3. /\ Len(x) = 2 /\ Len(y) = 1 /\ Len(z) = 1
      /\ x[1] = a /\ x[2] = b /\ y[1] = a /\ z[1] = b
  BY <1>2
<1>4. x = y \o z
  <2>1. \A i \in 1..Len(y) : y[i] = x[i]
    BY <1>3
  <2>2. \A i \in 1..Len(z) : z[i] = x[Len(y) + i]
    BY <1>3
  <2>3. Len(x) = Len(y) + Len(z)
    BY <1>3
  <2> QED
    BY <2>1, <2>2, <2>3, InTwo
<1> QED
  BY <1>2, <1>4

\* Two runs behind others.
LEMMA PairWalk ==
    ASSUME MsgIndexConstants, NEW n \in Nat, NEW rest \in Seq(Runs(n)),
           NEW s \in Runs(n), NEW u \in Runs(n)
    PROVE  /\ rest \o <<s, u>> \in Seq(Runs(n))
           /\ Walked(rest \o <<s, u>>) = (Messages(u) \o Messages(s)) \o Walked(rest)
<1>1. <<s>> \in Seq(Runs(n)) /\ <<u>> \in Seq(Runs(n)) /\ <<s, u>> \in Seq(Runs(n))
  OBVIOUS
<1>2. <<s, u>> = <<s>> \o <<u>>
  BY OneAndOne
<1>3. Walked(<<s, u>>) = Messages(u) \o Messages(s)
  BY <1>1, <1>2, WalkedParts, WalkedFacts
<1>4. PICK pair \in Seq(Runs(n)) : pair = <<s, u>>
  BY <1>1
<1>5. rest \o pair \in Seq(Runs(n)) /\ Walked(rest \o pair) = Walked(pair) \o Walked(rest)
  BY WalkedParts
<1> QED
  BY <1>3, <1>4, <1>5

\* The entries es show the messages `list' with m right after `parent'.
Answered(n, es, list, parent, m) ==
    /\ es \in Seq(Runs(n))
    /\ \E F, R \in Seq(Used(n)) :
          /\ Len(F) > 0 /\ F[Len(F)] = parent /\ list = F \o R
          /\ Walked(es) = (F \o <<m>>) \o R

\* A forward run is cut below the parent, or grows at its end.
LEMMA UpSplit ==
    ASSUME MsgIndexConstants, NEW n \in Nat, NEW k \in Nat, NEW c \in Nat \ {0}, k + c <= n,
           NEW parent \in ToSet(Up(k, c)), NEW m \in Used(n)
    PROVE  Answered(n, SplitForReply(UpRun(k, c), parent, m), Up(k, c), parent, m)
<1> SUFFICES /\ SplitForReply(UpRun(k, c), parent, m) \in Seq(Runs(n))
             /\ \E F, R \in Seq(Used(n)) :
                   /\ Len(F) > 0 /\ F[Len(F)] = parent /\ Up(k, c) = F \o R
                   /\ Walked(SplitForReply(UpRun(k, c), parent, m)) = (F \o <<m>>) \o R
  BY DEF Answered
<1>1. PICK j \in 1..c : parent = Addr(k + j - 1)
  <2>1. PICK list \in Seq(Nat) : /\ list = Up(k, c) /\ Len(list) = c
                                 /\ \A i \in 1..c : list[i] = Addr(k + i - 1)
    BY UpFacts
  <2>2. PICK i \in 1..Len(list) : list[i] = parent
    BY <2>1, SetOfList
  <2> QED
    BY <2>1, <2>2
<1>2. /\ j \in Nat /\ j # 0 /\ c - j \in Nat /\ k + j \in Nat /\ k + j - 1 \in Nat /\ k + c \in Nat
      /\ (k + j - 1) + 1 = k + j /\ (k + j) + (c - j) = k + c /\ k + c + 1 \in Nat /\ j \in 0..c
      /\ k + j <= n /\ (k + j) + (c - j) <= n
  OBVIOUS
<1>3. PICK x \in Nat : x < n /\ m = Addr(x)
  BY DEF Used
<1>4. /\ \A i \in Nat : Addr(i) \in Nat /\ Addr(i + 1) = Addr(i) + S
      /\ \A i, l \in Nat : Addr(i) = Addr(l) <=> i = l
      /\ S \in Nat /\ S > 1
  BY AddrFacts
<1>5. parent + S = Addr(k + j) /\ parent \in Nat /\ Addr(k + j) \in Nat
      /\ Addr(k + c) \in Nat /\ Addr(k) \in Nat /\ Addr(k) < Addr(k + c)
  <2>1. Addr(k) + S <= Addr(k + c)
    BY <1>2, AddrFacts
  <2> QED
    BY <1>1, <1>2, <1>4, <2>1
<1>6. /\ UpRun(k, c).begin = Addr(k) /\ UpRun(k, c).end = Addr(k + c) - 1
      /\ ~(UpRun(k, c).end < UpRun(k, c).begin) /\ UpRun(k, c).end + 1 = Addr(k + c)
  <2>1. UpRun(k, c).begin = Addr(k) /\ UpRun(k, c).end = Addr(k + c) - 1
    BY DEF UpRun, Run
  <2> QED
    BY <1>5, <2>1
<1>7. /\ Up(k, j) \in Seq(Used(n)) /\ Up(k + j, c - j) \in Seq(Used(n))
      /\ If(c - j # 0, UpRun(k + j, c - j)) \in Seq(Runs(n))
      /\ Walked(If(c - j # 0, UpRun(k + j, c - j))) = Up(k + j, c - j)
  BY <1>2, LeftOver
<1>8. Up(k, c) = Up(k, j) \o Up(k + j, c - j)
  BY <1>2, RunsPart, ZenonT(60)
<1>9. Len(Up(k, j)) = j /\ Up(k, j)[j] = parent
  <2>1. Len(Up(k, j)) = j /\ \A i \in 1..j : Up(k, j)[i] = Addr(k + i - 1)
    BY <1>2, UpFacts
  <2>2. j \in 1..j
    BY <1>2
  <2> QED
    BY <1>1, <2>1, <2>2
<1>10. CASE Addr(k + c) = m /\ Addr(k + j) = m
  <2>1. j = c /\ x = k + c /\ c - j = 0
    <3>1. Addr(k + c) = Addr(k + j) <=> k + c = k + j
      BY <1>2, <1>4
    <3>2. Addr(x) = Addr(k + c) <=> x = k + c
      BY <1>2, <1>4
    <3> QED
      BY <1>2, <1>3, <1>10, <3>1, <3>2
  <2>2. m + S - 1 = Addr(k + (c + 1)) - 1
    BY <1>2, <1>4, <1>10
  <2>3. SplitForReply(UpRun(k, c), parent, m) = <<UpRun(k, c + 1)>>
    <3>1. SplitForReply(UpRun(k, c), parent, m) = <<Run(UpRun(k, c).begin, m + S - 1)>>
      BY <1>5, <1>6, <1>10 DEF SplitForReply
    <3> QED
      BY <1>6, <2>2, <3>1 DEF UpRun
  <2>4. k + (c + 1) <= n /\ c + 1 \in Nat \ {0} /\ c \in 0..(c + 1) /\ (c + 1) - c = 1
    BY <1>2, <1>3, <2>1
  <2>5. PICK u \in Runs(n) : u = UpRun(k, c + 1)
    BY <2>4, RunIn
  <2>6. Walked(<<u>>) = Up(k, c + 1) /\ <<u>> \in Seq(Runs(n))
    BY <2>4, <2>5, UpMessages, WalkedFacts
  <2>7. Up(k, c + 1) = Up(k, c) \o Up(k + c, 1)
    <3>1. Up(k, c + 1) = Up(k, c) \o Up(k + c, (c + 1) - c)
      BY <2>4, RunsPart
    <3> QED
      BY <2>4, <3>1
  <2>8. Up(k + c, 1) = <<m>> /\ Up(k + c, 0) = <<>>
    BY <1>2, <1>10, SingleIs
  <2>9. PICK f, one \in Seq(Used(n)) : f = Up(k, c) /\ one = <<m>>
    <3>1. <<m>> \in Seq(Used(n))
      OBVIOUS
    <3> QED
      BY <1>7, <2>1, <3>1
  <2>10. (f \o one) \o <<>> = f \o one /\ <<>> \in Seq(Used(n)) /\ f \o <<>> = f
    OBVIOUS
  <2>11. Walked(<<u>>) = (f \o <<m>>) \o <<>> /\ Up(k, c) = f \o <<>>
    BY <2>6, <2>7, <2>8, <2>9, <2>10
  <2>12. Len(f) > 0 /\ f[Len(f)] = parent
    BY <1>2, <1>9, <2>1, <2>9
  <2> QED
    BY <2>3, <2>5, <2>6, <2>10, <2>11, <2>12
<1>11. CASE ~(Addr(k + c) = m /\ Addr(k + j) = m)
  <2>1. PICK s, u \in Runs(n) : s = UpRun(x, 1) /\ u = UpRun(k, j)
    <3>1. x + 1 <= n /\ 1 \in Nat \ {0} /\ j \in Nat \ {0}
      BY <1>2, <1>3
    <3> QED
      BY <1>2, <3>1, RunIn
  <2>2. PICK rest \in Seq(Runs(n)) : rest = If(c - j # 0, UpRun(k + j, c - j))
    BY <1>7
  <2>3. SplitForReply(UpRun(k, c), parent, m) = rest \o <<s, u>>
    <3>1. SplitForReply(UpRun(k, c), parent, m) =
              If(Addr(k + c) # parent + S, Run(parent + S, UpRun(k, c).end)) \o
                  <<Single(m), Run(UpRun(k, c).begin, parent + S - 1)>>
      BY <1>5, <1>6, <1>11 DEF SplitForReply
    <3>2. Run(UpRun(k, c).begin, parent + S - 1) = u /\ Single(m) = s
      <4>1. Run(UpRun(k, c).begin, parent + S - 1) = u
        <5>1. parent + S - 1 = Addr(k + j) - 1
          BY <1>4, <1>5
        <5> QED
          BY <1>6, <2>1, <5>1 DEF UpRun
      <4>2. Single(m) = s
        BY <1>3, <2>1, SingleIs
      <4> QED
        BY <4>1, <4>2
    <3>3. Run(parent + S, UpRun(k, c).end) = UpRun(k + j, c - j)
      BY <1>2, <1>5, <1>6 DEF UpRun
    <3>4. Addr(k + c) # parent + S <=> c - j # 0
      <4>1. Addr(k + c) = Addr(k + j) <=> k + c = k + j
        BY <1>2, <1>4
      <4> QED
        BY <1>2, <1>5, <4>1
    <3> QED
      BY <2>2, <3>1, <3>2, <3>3, <3>4 DEF If
  <2>4. Messages(u) = Up(k, j) /\ Messages(s) = <<m>>
    <3>1. Messages(u) = Up(k, j) /\ Messages(s) = Up(x, 1)
      BY <1>2, <2>1, UpMessages
    <3> QED
      BY <1>3, <3>1, SingleIs
  <2>5. rest \o <<s, u>> \in Seq(Runs(n))
        /\ Walked(rest \o <<s, u>>) = (Messages(u) \o Messages(s)) \o Walked(rest)
    BY PairWalk
  <2>6. Walked(rest) = Up(k + j, c - j)
    BY <1>7, <2>2
  <2>7. PICK f, r \in Seq(Used(n)) : f = Up(k, j) /\ r = Up(k + j, c - j)
    BY <1>7
  <2>8. Len(f) > 0 /\ f[Len(f)] = parent /\ Up(k, c) = f \o r
    BY <1>2, <1>8, <1>9, <2>7
  <2>9. Walked(rest \o <<s, u>>) = (f \o <<m>>) \o r
    BY <2>4, <2>5, <2>6, <2>7
  <2> QED
    BY <2>3, <2>5, <2>8, <2>9
<1> QED
  BY <1>10, <1>11

\* A backward run is cut below the parent; if m directly follows the parent's
\* header the parent was the first shown, and the two make a forward run.
LEMMA DownSplit ==
    ASSUME MsgIndexConstants, NEW n \in Nat, NEW k \in Nat, NEW c \in Nat \ {0}, k + c <= n,
           NEW parent \in ToSet(Down(k, c)), NEW m \in Used(n), m \notin ToSet(Down(k, c))
    PROVE  Answered(n, SplitForReply(DownRun(k, c), parent, m), Down(k, c), parent, m)
<1> SUFFICES /\ SplitForReply(DownRun(k, c), parent, m) \in Seq(Runs(n))
             /\ \E F, R \in Seq(Used(n)) :
                   /\ Len(F) > 0 /\ F[Len(F)] = parent /\ Down(k, c) = F \o R
                   /\ Walked(SplitForReply(DownRun(k, c), parent, m)) = (F \o <<m>>) \o R
  BY DEF Answered
<1>1. PICK j \in 1..c : /\ parent = Addr(k + c - j)
                        /\ \A i \in 1..c : m # Addr(k + c - i)
  <2>1. PICK list \in Seq(Nat) : /\ list = Down(k, c) /\ Len(list) = c
                                 /\ \A i \in 1..c : list[i] = Addr(k + c - i)
    BY DownFacts
  <2>2. PICK i \in 1..Len(list) : list[i] = parent
    BY <2>1, SetOfList
  <2>3. \A l \in 1..Len(list) : list[l] # m
    BY <2>1, SetOfList
  <2> QED
    BY <2>1, <2>2, <2>3
<1>2. /\ j \in Nat /\ j # 0 /\ c - j \in Nat /\ k + c - j \in Nat /\ k + c \in Nat
      /\ (k + c - j) + j = k + c /\ j \in 0..c /\ k + (c - j) <= n /\ (k + c - j) + j <= n
      /\ k + (c - j) = k + c - j
  OBVIOUS
<1>3. PICK x \in Nat : x < n /\ m = Addr(x)
  BY DEF Used
<1>4. /\ \A i \in Nat : Addr(i) \in Nat /\ Addr(i + 1) = Addr(i) + S
      /\ \A i, l \in Nat : Addr(i) = Addr(l) <=> i = l
      /\ \A i, l \in Nat : i < l => Addr(i) + S <= Addr(l)
      /\ S \in Nat /\ S > 1
  BY AddrFacts
<1>5. /\ parent \in Nat /\ Addr(k + c) \in Nat /\ Addr(k) \in Nat /\ Addr(k) < Addr(k + c)
      /\ Addr(k) < parent <=> c - j # 0
  <2>1. Addr(k) + S <= Addr(k + c)
    BY <1>2, <1>4
  <2>2. CASE c - j = 0
    <3>1. parent = Addr(k)
      BY <1>1, <1>2, <2>2
    <3>2. Addr(k) \in Nat /\ Addr(k + c) \in Nat /\ S \in Nat /\ S > 1
      BY <1>2, <1>4
    <3> QED
      BY ONLY <2>1, <2>2, <3>1, <3>2
  <2>3. CASE c - j # 0
    <3>1. k < k + c - j
      BY <1>2, <2>3
    <3>2. Addr(k) + S <= parent
      BY <1>1, <1>2, <1>4, <3>1
    <3>3. /\ Addr(k) \in Nat /\ Addr(k + c) \in Nat /\ parent \in Nat
          /\ S \in Nat /\ S > 1
      BY <1>1, <1>2, <1>4
    <3> QED
      BY ONLY <2>1, <2>3, <3>2, <3>3
  <2> QED
    BY <2>2, <2>3
<1>6. /\ DownRun(k, c).begin = Addr(k + c) - 1 /\ DownRun(k, c).end = Addr(k)
      /\ DownRun(k, c).end < DownRun(k, c).begin
  <2>1. DownRun(k, c).begin = Addr(k + c) - 1 /\ DownRun(k, c).end = Addr(k)
    BY DEF DownRun, Run
  <2> QED
    BY <1>2, <1>4, <2>1, AddrFacts, DownMessages
<1>7. /\ Down(k + c - j, j) \in Seq(Used(n)) /\ Down(k, c - j) \in Seq(Used(n))
      /\ If(c - j # 0, DownRun(k, c - j)) \in Seq(Runs(n))
      /\ Walked(If(c - j # 0, DownRun(k, c - j))) = Down(k, c - j)
  BY <1>2, LeftOver
<1>8. Down(k, c) = Down(k + c - j, j) \o Down(k, c - j)
  BY <1>2, RunsPart, ZenonT(60)
<1>9. Len(Down(k + c - j, j)) = j /\ Down(k + c - j, j)[j] = parent
  <2>1. (k + c - j) + j - j = k + c - j /\ j \in 1..j
    BY <1>2
  <2>2. /\ Len(Down(k + c - j, j)) = j
        /\ \A i \in 1..j : Down(k + c - j, j)[i] = Addr((k + c - j) + j - i)
    BY <1>2, DownFacts
  <2> QED
    BY <1>1, <2>1, <2>2
<1>10. PICK rest \in Seq(Runs(n)) : rest = If(c - j # 0, DownRun(k, c - j))
  BY <1>7
<1>11. If(DownRun(k, c).end < parent, Run(parent - 1, DownRun(k, c).end)) = rest
  <2>1. Run(parent - 1, DownRun(k, c).end) = DownRun(k, c - j)
    BY <1>1, <1>2, <1>6 DEF DownRun
  <2> QED
    BY <1>5, <1>6, <1>10, <2>1 DEF If
<1>12. PICK f, r \in Seq(Used(n)) : f = Down(k + c - j, j) /\ r = Down(k, c - j)
  BY <1>7
<1>13. Len(f) > 0 /\ f[Len(f)] = parent /\ Down(k, c) = f \o r /\ Walked(rest) = r
  BY <1>2, <1>7, <1>8, <1>9, <1>10, <1>12
<1>14. CASE parent + S = m
  <2>1. j = 1 /\ m = Addr(k + c)
    <3>1. (k + c - j) + 1 \in Nat /\ m = Addr((k + c - j) + 1)
      BY <1>1, <1>2, <1>4, <1>14
    <3>2. CASE j # 1
      <4>1. j - 1 \in 1..c /\ (k + c - j) + 1 = k + c - (j - 1)
        BY <3>2
      <4> QED
        BY <1>1, <3>1, <4>1
    <3> QED
      BY <3>1, <3>2
  <2>2. x = k + c /\ k + c - 1 \in Nat /\ (k + c - 1) + 2 = (k + c) + 1 /\ (k + c - 1) + 1 = k + c
        /\ (k + c - 1) + 2 <= n
    <3>1. x = k + c
      <4>1. Addr(x) = Addr(k + c) <=> x = k + c
        BY <1>2, <1>4
      <4> QED
        BY <1>3, <2>1, <4>1
    <3> QED
      BY <1>2, <1>3, <2>1, <3>1
  <2>3. Run(parent, m + S - 1) = UpRun(k + c - 1, 2)
    <3>1. Addr(k + c) + S = Addr((k + c - 1) + 2)
      BY <1>2, <1>4, <2>2
    <3>2. parent = Addr(k + c - 1)
      BY <1>1, <2>1
    <3>3. m + S - 1 = Addr((k + c - 1) + 2) - 1
      <4>1. Addr(k + c) \in Nat /\ S \in Nat
        BY <1>2, <1>4
      <4> QED
        BY ONLY <2>1, <3>1, <4>1
    <3> QED
      BY <3>2, <3>3 DEF UpRun
  <2>4. PICK u \in Runs(n) : u = UpRun(k + c - 1, 2)
    BY <2>2, RunIn
  <2>5. Walked(<<u>>) = Up(k + c - 1, 2) /\ <<u>> \in Seq(Runs(n))
    BY <2>2, <2>4, UpMessages, WalkedFacts
  <2>6. Up(k + c - 1, 2) = <<parent>> \o <<m>>
    <3>1. Up(k + c - 1, 2) = Up(k + c - 1, 1) \o Up((k + c - 1) + 1, 2 - 1)
      <4>1. k + c - 1 \in Nat /\ 2 \in Nat /\ 1 \in 0..2
        BY <2>2
      <4> QED
        BY <4>1, RunsPart, ZenonT(60)
    <3>2. 2 - 1 = 1
      OBVIOUS
    <3>3. Up(k + c - 1, 1) = <<parent>> /\ Up(k + c, 1) = <<m>>
      BY <1>1, <1>2, <2>1, <2>2, SingleIs
    <3> QED
      BY <2>2, <3>1, <3>2, <3>3
  <2>7. f = <<parent>>
    BY <1>1, <1>12, <2>1, <2>2, SingleIs
  <2>8. SplitForReply(DownRun(k, c), parent, m) = rest \o <<u>>
    BY <1>6, <1>11, <1>14, <2>3, <2>4 DEF SplitForReply
  <2>9. PICK one \in Seq(Runs(n)) : one = <<u>>
    BY <2>5
  <2>10. rest \o one \in Seq(Runs(n)) /\ Walked(rest \o one) = Walked(one) \o Walked(rest)
    BY WalkedParts
  <2>11. Walked(rest \o one) = (f \o <<m>>) \o r
    BY <1>13, <2>5, <2>6, <2>7, <2>9, <2>10
  <2> QED
    BY <1>13, <2>8, <2>9, <2>10, <2>11
<1>15. CASE parent + S # m
  <2>1. PICK s, u \in Runs(n) : s = UpRun(x, 1) /\ u = DownRun(k + c - j, j)
    <3>1. x + 1 <= n /\ 1 \in Nat \ {0} /\ j \in Nat \ {0}
      BY <1>2, <1>3
    <3> QED
      BY <1>2, <3>1, RunIn
  <2>2. SplitForReply(DownRun(k, c), parent, m) = rest \o <<s, u>>
    <3>1. SplitForReply(DownRun(k, c), parent, m) =
              rest \o <<Single(m), Run(DownRun(k, c).begin, parent)>>
      BY <1>6, <1>11, <1>15 DEF SplitForReply
    <3>2. Run(DownRun(k, c).begin, parent) = u /\ Single(m) = s
      BY <1>1, <1>2, <1>3, <1>6, <2>1, SingleIs DEF DownRun
    <3> QED
      BY <3>1, <3>2
  <2>3. Messages(u) = f /\ Messages(s) = <<m>>
    <3>1. Messages(u) = Down(k + c - j, j) /\ Messages(s) = Up(x, 1)
      BY <1>2, <2>1, UpMessages, DownMessages
    <3> QED
      BY <1>3, <1>12, <3>1, SingleIs
  <2>4. rest \o <<s, u>> \in Seq(Runs(n))
        /\ Walked(rest \o <<s, u>>) = (Messages(u) \o Messages(s)) \o Walked(rest)
    BY PairWalk
  <2>5. Walked(rest \o <<s, u>>) = (f \o <<m>>) \o r
    BY <1>13, <2>3, <2>4
  <2> QED
    BY <1>13, <2>2, <2>4, <2>5
<1> QED
  BY <1>14, <1>15

\* So SplitForReply puts the reply right after the message it answers.
LEMMA ReplySplits ==
    ASSUME MsgIndexConstants, NEW n \in Nat, NEW e \in Runs(n), NEW parent \in ToSet(Messages(e)),
           NEW m \in Used(n), m \notin ToSet(Messages(e))
    PROVE  Answered(n, SplitForReply(e, parent, m), Messages(e), parent, m)
<1>1. PICK k \in Nat, c \in Nat \ {0} :
         k + c <= n /\ (e = UpRun(k, c) \/ e = DownRun(k, c))
  BY DEF Runs
<1>2. CASE e = UpRun(k, c)
  <2>1. Messages(e) = Up(k, c)
    BY <1>2, UpMessages
  <2>2. parent \in ToSet(Up(k, c)) /\ m \notin ToSet(Up(k, c))
    BY <2>1
  <2>3. k + c <= n
    BY <1>1
  <2>4. Answered(n, SplitForReply(UpRun(k, c), parent, m), Up(k, c), parent, m)
    BY <2>2, <2>3, UpSplit
  <2> QED
    BY ONLY <1>2, <2>1, <2>4, Zenon
<1>3. CASE e = DownRun(k, c)
  <2>1. Messages(e) = Down(k, c)
    BY <1>3, DownMessages
  <2>2. parent \in ToSet(Down(k, c)) /\ m \notin ToSet(Down(k, c))
    BY <2>1
  <2>3. k + c <= n
    BY <1>1
  <2>4. Answered(n, SplitForReply(DownRun(k, c), parent, m), Down(k, c), parent, m)
    BY <2>2, <2>3, DownSplit
  <2> QED
    BY ONLY <1>3, <2>1, <2>4, Zenon
<1> QED
  BY <1>1, <1>2, <1>3

\* The entries es show m and then the messages `list'.
Headed(n, es, list, m) == es \in Seq(Runs(n)) /\ Walked(es) = <<m>> \o list

\* So JoinThread puts a new thread before all the last entry shows.
LEMMA ThreadJoins ==
    ASSUME MsgIndexConstants, NEW n \in Nat, NEW e \in Runs(n), NEW m \in Used(n)
    PROVE  Headed(n, JoinThread(e, m), Messages(e), m)
<1>1. PICK k \in Nat, c \in Nat \ {0} :
         k + c <= n /\ (e = UpRun(k, c) \/ e = DownRun(k, c))
  BY DEF Runs
<1>2. PICK x \in Nat : x < n /\ m = Addr(x)
  BY DEF Used
<1>3. /\ \A i \in Nat : Addr(i) \in Nat /\ Addr(i + 1) = Addr(i) + S
      /\ \A i, l \in Nat : Addr(i) = Addr(l) <=> i = l
      /\ S \in Nat /\ S > 1
  BY AddrFacts
<1>4. /\ Addr(k) \in Nat /\ Addr(k + c) \in Nat /\ k + c \in Nat /\ k + 1 \in Nat
      /\ Addr(k) + S <= Addr(k + c)
  <2>1. k + c \in Nat /\ k < k + c
    OBVIOUS
  <2>2. \A i, l \in Nat : i < l => Addr(i) + S <= Addr(l)
    BY AddrFacts
  <2>3. Addr(k) \in Nat /\ Addr(k + c) \in Nat
    BY <1>3, <2>1
  <2>4. Addr(k) + S <= Addr(k + c)
    BY <2>1, <2>2
  <2> QED
    BY <2>1, <2>3, <2>4
<1>8. S \in Nat /\ S > 1
  BY <1>3
<1>9. (Addr(k + c) - Addr(k)) \div S = c
  BY ManyHeaders
<1>5. CASE e = DownRun(k, c) /\ m = Addr(k + c)
  <2>1. e.begin = Addr(k + c) - 1 /\ e.end = Addr(k)
    BY <1>5 DEF DownRun, Run
  <2>2. e.begin > e.end /\ e.begin + 1 = m
    BY ONLY <1>4, <1>5, <1>8, <2>1
  <2>3. JoinThread(e, m) = <<Run(e.begin + S, e.end)>>
    BY <2>2 DEF JoinThread
  <2>4. x = k + c
    <3>1. Addr(x) = Addr(k + c) <=> x = k + c
      BY <1>3, <1>4
    <3> QED
      BY <1>2, <1>5, <3>1
  <2>5. k + (c + 1) = (k + c) + 1 /\ k + (c + 1) <= n /\ c + 1 \in Nat \ {0}
        /\ 1 \in 0..(c + 1) /\ (c + 1) - 1 = c /\ k + (c + 1) - 1 = k + c
    BY <1>2, <2>4
  <2>6. Run(e.begin + S, e.end) = DownRun(k, c + 1)
    <3>1. Addr(k + (c + 1)) = Addr(k + c) + S
      BY <1>3, <1>4, <2>5
    <3>2. e.begin + S = Addr(k + (c + 1)) - 1
      BY ONLY <1>4, <1>8, <2>1, <3>1
    <3> QED
      BY <2>1, <3>2 DEF DownRun
  <2>7. PICK d \in Runs(n) : d = DownRun(k, c + 1)
    BY <2>5, RunIn
  <2>8. <<d>> \in Seq(Runs(n)) /\ Walked(<<d>>) = Down(k, c + 1)
    BY <2>5, <2>7, DownMessages, WalkedFacts
  <2>9. Down(k, c + 1) = <<m>> \o Down(k, c)
    <3>1. Down(k, c + 1) = Down(k + (c + 1) - 1, 1) \o Down(k, (c + 1) - 1)
      BY <2>5, RunsPart
    <3>2. Down(k + c, 1) = <<m>>
      BY <1>4, <1>5, SingleIs
    <3> QED
      BY <2>5, <3>1, <3>2
  <2>10. Messages(e) = Down(k, c)
    BY <1>5, DownMessages
  <2> QED
    BY <2>3, <2>6, <2>7, <2>8, <2>9, <2>10 DEF Headed
<1>6. CASE e = UpRun(k, c) /\ c = 1 /\ m = Addr(k + c)
  <2>1. e.begin = Addr(k) /\ e.end = Addr(k + c) - 1
    BY <1>6 DEF UpRun, Run
  <2>2. /\ e.begin < e.end /\ e.end + 1 = m /\ ~(e.begin > e.end)
        /\ e.end - e.begin + 1 = Addr(k + c) - Addr(k)
    BY ONLY <1>4, <1>6, <1>8, <2>1
  <2>3. (e.end - e.begin + 1) \div S = 1
    BY <1>6, <1>9, <2>2
  <2>4. JoinThread(e, m) = <<Run(m - 1 + S, e.begin)>>
    BY <2>2, <2>3 DEF JoinThread
  <2>5. x = k + 1
    <3>1. Addr(x) = Addr(k + 1) <=> x = k + 1
      BY <1>3, <1>4
    <3> QED
      BY <1>2, <1>6, <3>1
  <2>6. k + 2 = (k + 1) + 1 /\ k + 2 <= n /\ 2 \in Nat \ {0} /\ 1 \in 0..2 /\ k + 2 - 1 = k + 1
        /\ 2 - 1 = 1
    BY <1>2, <2>5
  <2>7. Run(m - 1 + S, e.begin) = DownRun(k, 2)
    <3>1. Addr(k + 2) = Addr(k + 1) + S
      BY <1>3, <1>4, <2>6
    <3>2. m - 1 + S = Addr(k + 2) - 1
      BY ONLY <1>4, <1>6, <1>8, <3>1
    <3> QED
      BY <2>1, <3>2 DEF DownRun
  <2>8. PICK d \in Runs(n) : d = DownRun(k, 2)
    BY <2>6, RunIn
  <2>9. <<d>> \in Seq(Runs(n)) /\ Walked(<<d>>) = Down(k, 2)
    BY <2>6, <2>8, DownMessages, WalkedFacts
  <2>10. Down(k, 2) = <<m>> \o <<Addr(k)>>
    <3>1. Down(k, 2) = Down(k + 2 - 1, 1) \o Down(k, 2 - 1)
      BY <2>6, RunsPart
    <3>2. Down(k + 1, 1) = <<m>> /\ Down(k, 1) = <<Addr(k)>>
      BY <1>4, <1>6, SingleIs
    <3> QED
      BY <2>6, <3>1, <3>2
  <2>11. Messages(e) = <<Addr(k)>>
    BY <1>6, UpMessages, SingleIs
  <2> QED
    BY <2>4, <2>7, <2>8, <2>9, <2>10, <2>11 DEF Headed
<1>7. CASE /\ ~(e = DownRun(k, c) /\ m = Addr(k + c))
           /\ ~(e = UpRun(k, c) /\ c = 1 /\ m = Addr(k + c))
  <2>1. JoinThread(e, m) = <<e, Single(m)>>
    <3>1. CASE e = DownRun(k, c)
      <4>1. e.begin = Addr(k + c) - 1 /\ e.end = Addr(k)
        BY <3>1 DEF DownRun, Run
      <4>2. m # Addr(k + c)
        BY <1>7, <3>1
      <4>3. e.begin + 1 # m /\ ~(e.begin < e.end)
        BY ONLY <1>4, <1>8, <4>1, <4>2
      <4> QED
        BY <4>3 DEF JoinThread
    <3>2. CASE e = UpRun(k, c)
      <4>1. e.begin = Addr(k) /\ e.end = Addr(k + c) - 1
        BY <3>2 DEF UpRun, Run
      <4>2. /\ e.end - e.begin + 1 = Addr(k + c) - Addr(k) /\ ~(e.begin > e.end)
            /\ e.end + 1 = Addr(k + c)
        BY ONLY <1>4, <1>8, <4>1
      <4>3. ~((e.end - e.begin + 1) \div S = 1 /\ e.end + 1 = m)
        BY <1>7, <1>9, <3>2, <4>2
      <4> QED
        BY <4>2, <4>3 DEF JoinThread
    <3> QED
      BY <1>1, <3>1, <3>2
  <2>2. PICK s \in Runs(n) : s = Single(m)
    <3>1. x + 1 <= n /\ 1 \in Nat \ {0}
      BY <1>2
    <3>2. UpRun(x, 1) \in Runs(n)
      BY <3>1, RunIn
    <3> QED
      BY <1>2, <3>2, SingleIs
  <2>3. Messages(s) = <<m>>
    <3>1. s = UpRun(x, 1)
      BY <1>2, <2>2, SingleIs
    <3> QED
      BY <1>2, <3>1, UpMessages, SingleIs
  <2>4. <<e>> \in Seq(Runs(n)) /\ <<s>> \in Seq(Runs(n)) /\ <<e, s>> \in Seq(Runs(n))
    OBVIOUS
  <2>5. Walked(<<e>> \o <<s>>) = Messages(s) \o Messages(e)
    BY <2>4, WalkedParts, WalkedFacts, ZenonT(60)
  <2>6. <<e, s>> = <<e>> \o <<s>>
    BY OneAndOne
  <2> QED
    BY <2>1, <2>2, <2>3, <2>4, <2>5, <2>6 DEF Headed
<1> QED
  BY <1>1, <1>5, <1>6, <1>7

\* The entries es show the messages `list' without m.
Missing(n, es, list, m) ==
    /\ es \in Seq(Runs(n))
    /\ \E F, R \in Seq(Used(n)) : list = (F \o <<m>>) \o R /\ Walked(es) = F \o R

\* A message leaves a run shown in file order, ...
LEMMA UpCut ==
    ASSUME MsgIndexConstants, NEW n \in Nat, NEW k \in Nat, NEW c \in Nat \ {0}, k + c <= n,
           NEW m \in ToSet(Up(k, c))
    PROVE  Missing(n, CutOut(UpRun(k, c), m), Up(k, c), m)
<1>1. PICK j \in 1..c : m = Addr(k + j - 1)
  <2>1. PICK list \in Seq(Nat) : /\ list = Up(k, c) /\ Len(list) = c
                                 /\ \A i \in 1..c : list[i] = Addr(k + i - 1)
    BY UpFacts
  <2>2. PICK i \in 1..Len(list) : list[i] = m
    BY <2>1, SetOfList
  <2> QED
    BY <2>1, <2>2
<1>2. PICK i \in Nat : i = j - 1
  OBVIOUS
<1>3. /\ j \in Nat /\ j # 0 /\ c - j \in Nat /\ k + j \in Nat /\ k + i \in Nat /\ k + c \in Nat
      /\ k + j - 1 = k + i /\ (k + i) + 1 = k + j /\ (k + j) + (c - j) = k + c
      /\ j \in 0..c /\ k + i <= n /\ (k + j) + (c - j) <= n /\ i \in 0..j /\ j - i = 1
  BY <1>2
<1>4. /\ \A l \in Nat : Addr(l) \in Nat /\ Addr(l + 1) = Addr(l) + S
      /\ \A l, r \in Nat : Addr(l) = Addr(r) <=> l = r
      /\ \A l, r \in Nat : l < r => Addr(l) + S <= Addr(r)
      /\ S \in Nat /\ S > 1
  BY AddrFacts
<1>5. /\ m \in Nat /\ m = Addr(k + i) /\ m + S = Addr(k + j) /\ Addr(k) \in Nat
      /\ Addr(k + c) \in Nat /\ Addr(k + j) \in Nat /\ Addr(k) + S <= Addr(k + c)
  <2>1. k < k + c
    OBVIOUS
  <2> QED
    BY <1>1, <1>3, <1>4, <2>1
<1>6. /\ UpRun(k, c).begin = Addr(k) /\ UpRun(k, c).end = Addr(k + c) - 1
      /\ ~(UpRun(k, c).end < UpRun(k, c).begin) /\ UpRun(k, c).end + 1 = Addr(k + c)
  <2>1. UpRun(k, c).begin = Addr(k) /\ UpRun(k, c).end = Addr(k + c) - 1
    BY DEF UpRun, Run
  <2>2. S \in Nat /\ S > 1
    BY <1>4
  <2> QED
    BY ONLY <1>5, <2>1, <2>2
<1>7. Addr(k) < m - 1 <=> i # 0
  <2>1. CASE i = 0
    <3>1. m = Addr(k)
      BY <1>3, <1>5, <2>1
    <3> QED
      BY ONLY <1>5, <2>1, <3>1
  <2>2. CASE i # 0
    <3>1. k < k + i
      BY <2>2
    <3>2. Addr(k) + S <= m
      BY <1>3, <1>4, <1>5, <3>1
    <3>3. S \in Nat /\ S > 1
      BY <1>4
    <3> QED
      BY ONLY <1>5, <2>2, <3>2, <3>3
  <2> QED
    BY <2>1, <2>2
<1>8. PICK after, before \in Seq(Runs(n)) :
         /\ after = If(c - j # 0, UpRun(k + j, c - j)) /\ before = If(i # 0, UpRun(k, i))
         /\ Walked(after) = Up(k + j, c - j) /\ Walked(before) = Up(k, i)
  <2>1. PICK after \in Seq(Runs(n)) :
           after = If(c - j # 0, UpRun(k + j, c - j)) /\ Walked(after) = Up(k + j, c - j)
    BY <1>3, LeftOver
  <2>2. PICK before \in Seq(Runs(n)) :
           before = If(i # 0, UpRun(k, i)) /\ Walked(before) = Up(k, i)
    <3>1. k + i <= n
      BY <1>3
    <3>2. /\ If(i # 0, UpRun(k, i)) \in Seq(Runs(n))
          /\ Walked(If(i # 0, UpRun(k, i))) = Up(k, i)
      BY <3>1, LeftOver
    <3> QED
      BY <3>2
  <2> QED
    BY <2>1, <2>2
<1>9. CutOut(UpRun(k, c), m) = after \o before
  <2>1. Run(m + S, UpRun(k, c).end) = UpRun(k + j, c - j)
    BY <1>3, <1>5, <1>6 DEF UpRun
  <2>2. Addr(k + c) # m + S <=> c - j # 0
    <3>1. Addr(k + c) = Addr(k + j) <=> k + c = k + j
      BY <1>3, <1>4
    <3> QED
      BY <1>3, <1>5, <3>1
  <2>3. Run(UpRun(k, c).begin, m - 1) = UpRun(k, i)
    BY <1>5, <1>6 DEF UpRun
  <2>4. CutOut(UpRun(k, c), m) =
            If(Addr(k + c) # m + S, Run(m + S, UpRun(k, c).end)) \o
                If(Addr(k) < m - 1, Run(UpRun(k, c).begin, m - 1))
    BY <1>6 DEF CutOut
  <2> QED
    BY <1>7, <1>8, <2>1, <2>2, <2>3, <2>4 DEF If
<1>10. PICK f, r \in Seq(Used(n)) : f = Up(k, i) /\ r = Up(k + j, c - j)
  BY <1>3, LeftOver
<1>11. Up(k, c) = (f \o <<m>>) \o r
  <2>1. Up(k, c) = Up(k, j) \o Up(k + j, c - j)
    BY <1>3, RunsPart, ZenonT(60)
  <2>2. Up(k, j) = Up(k, i) \o Up(k + i, j - i)
    BY <1>3, RunsPart, ZenonT(60)
  <2>3. Up(k + i, 1) = <<m>>
    BY <1>3, <1>5, SingleIs
  <2> QED
    BY <1>3, <1>10, <2>1, <2>2, <2>3
<1>12. after \o before \in Seq(Runs(n)) /\ Walked(after \o before) = f \o r
  <2>1. after \o before \in Seq(Runs(n))
    BY ConcatProperties
  <2>2. Walked(after \o before) = Walked(before) \o Walked(after)
    BY WalkedParts
  <2> QED
    BY <1>8, <1>10, <2>1, <2>2
<1> QED
  BY <1>9, <1>11, <1>12 DEF Missing

\* ... or against it, ...
LEMMA DownCut ==
    ASSUME MsgIndexConstants, NEW n \in Nat, NEW k \in Nat, NEW c \in Nat \ {0}, k + c <= n,
           NEW m \in ToSet(Down(k, c))
    PROVE  Missing(n, CutOut(DownRun(k, c), m), Down(k, c), m)
<1>1. PICK j \in 1..c : m = Addr(k + c - j)
  <2>1. PICK list \in Seq(Nat) : /\ list = Down(k, c) /\ Len(list) = c
                                 /\ \A i \in 1..c : list[i] = Addr(k + c - i)
    BY DownFacts
  <2>2. PICK i \in 1..Len(list) : list[i] = m
    BY <2>1, SetOfList
  <2> QED
    BY <2>1, <2>2
<1>2. PICK i \in Nat : i = j - 1
  OBVIOUS
<1>3. /\ j \in Nat /\ j # 0 /\ c - j \in Nat /\ k + c - j \in Nat /\ k + c - i \in Nat
      /\ k + c \in Nat /\ (k + c - j) + 1 = k + c - i /\ (k + c - i) + i = k + c
      /\ (k + c - j) + j = k + c /\ (k + c - j) + j - i = k + c - i /\ k + (c - j) = k + c - j
      /\ j \in 0..c /\ k + (c - j) <= n /\ (k + c - i) + i <= n /\ i \in 0..j /\ j - i = 1
  BY <1>2
<1>4. /\ \A l \in Nat : Addr(l) \in Nat /\ Addr(l + 1) = Addr(l) + S
      /\ \A l, r \in Nat : Addr(l) = Addr(r) <=> l = r
      /\ \A l, r \in Nat : l < r => Addr(l) + S <= Addr(r)
      /\ S \in Nat /\ S > 1
  BY AddrFacts
<1>5. /\ m \in Nat /\ m + S = Addr(k + c - i) /\ Addr(k) \in Nat
      /\ Addr(k + c) \in Nat /\ Addr(k + c - i) \in Nat /\ Addr(k) + S <= Addr(k + c)
  <2>1. k < k + c
    OBVIOUS
  <2>2. Addr((k + c - j) + 1) = m + S
    BY <1>1, <1>3, <1>4
  <2>3. m \in Nat /\ Addr(k) \in Nat /\ Addr(k + c) \in Nat /\ Addr(k + c - i) \in Nat
    BY <1>1, <1>3, <1>4
  <2>4. Addr(k) + S <= Addr(k + c)
    BY <1>3, <1>4, <2>1
  <2> QED
    BY <1>3, <2>2, <2>3, <2>4
<1>6. /\ DownRun(k, c).begin = Addr(k + c) - 1 /\ DownRun(k, c).end = Addr(k)
      /\ DownRun(k, c).end < DownRun(k, c).begin /\ DownRun(k, c).begin + 1 = Addr(k + c)
  <2>1. DownRun(k, c).begin = Addr(k + c) - 1 /\ DownRun(k, c).end = Addr(k)
    BY DEF DownRun, Run
  <2>2. S \in Nat /\ S > 1
    BY <1>4
  <2> QED
    BY ONLY <1>5, <2>1, <2>2
<1>7. Addr(k) < m <=> c - j # 0
  <2>1. CASE c - j = 0
    <3>1. m = Addr(k)
      BY <1>1, <1>3, <2>1
    <3> QED
      BY ONLY <1>5, <2>1, <3>1
  <2>2. CASE c - j # 0
    <3>1. k < k + c - j
      BY <1>3, <2>2
    <3>2. Addr(k) + S <= m
      BY <1>1, <1>3, <1>4, <3>1
    <3>3. S \in Nat /\ S > 1
      BY <1>4
    <3> QED
      BY ONLY <1>5, <2>2, <3>2, <3>3
  <2> QED
    BY <2>1, <2>2
<1>8. PICK after, before \in Seq(Runs(n)) :
         /\ after = If(c - j # 0, DownRun(k, c - j)) /\ before = If(i # 0, DownRun(k + c - i, i))
         /\ Walked(after) = Down(k, c - j) /\ Walked(before) = Down(k + c - i, i)
  <2>1. PICK after \in Seq(Runs(n)) :
           after = If(c - j # 0, DownRun(k, c - j)) /\ Walked(after) = Down(k, c - j)
    BY <1>3, LeftOver
  <2>2. PICK before \in Seq(Runs(n)) :
           before = If(i # 0, DownRun(k + c - i, i)) /\ Walked(before) = Down(k + c - i, i)
    <3>1. k + c - i \in Nat /\ (k + c - i) + i <= n
      BY <1>3
    <3>2. /\ If(i # 0, DownRun(k + c - i, i)) \in Seq(Runs(n))
          /\ Walked(If(i # 0, DownRun(k + c - i, i))) = Down(k + c - i, i)
      BY <3>1, LeftOver
    <3> QED
      BY <3>2
  <2> QED
    BY <2>1, <2>2
<1>9. CutOut(DownRun(k, c), m) = after \o before
  <2>1. Run(m - 1, DownRun(k, c).end) = DownRun(k, c - j)
    BY <1>1, <1>3, <1>6 DEF DownRun
  <2>2. Addr(k + c) # m + S <=> i # 0
    <3>1. Addr(k + c) = Addr(k + c - i) <=> k + c = k + c - i
      BY <1>3, <1>4
    <3>2. k + c = k + c - i <=> i = 0
      OBVIOUS
    <3> QED
      BY <1>5, <3>1, <3>2
  <2>3. Run(DownRun(k, c).begin, m + S) = DownRun(k + c - i, i)
    BY <1>3, <1>5, <1>6 DEF DownRun
  <2>4. CutOut(DownRun(k, c), m) =
            If(Addr(k) < m, Run(m - 1, DownRun(k, c).end)) \o
                If(Addr(k + c) # m + S, Run(DownRun(k, c).begin, m + S))
    BY <1>6 DEF CutOut
  <2> QED
    BY <1>7, <1>8, <2>1, <2>2, <2>3, <2>4 DEF If
<1>10. PICK f, r \in Seq(Used(n)) : f = Down(k + c - i, i) /\ r = Down(k, c - j)
  BY <1>3, LeftOver
<1>11. Down(k, c) = (f \o <<m>>) \o r
  <2>1. Down(k, c) = Down(k + c - j, j) \o Down(k, c - j)
    BY <1>3, RunsPart, ZenonT(60)
  <2>2. Down(k + c - j, j) = Down(k + c - i, i) \o Down(k + c - j, 1)
    <3>1. Down(k + c - j, j) = Down((k + c - j) + j - i, i) \o Down(k + c - j, j - i)
      BY <1>3, RunsPart, ZenonT(60)
    <3> QED
      BY <1>3, <3>1
  <2>3. Down(k + c - j, 1) = <<m>>
    BY <1>1, <1>3, SingleIs
  <2> QED
    BY <1>10, <2>1, <2>2, <2>3
<1>12. after \o before \in Seq(Runs(n)) /\ Walked(after \o before) = f \o r
  <2>1. after \o before \in Seq(Runs(n))
    BY ConcatProperties
  <2>2. Walked(after \o before) = Walked(before) \o Walked(after)
    BY WalkedParts
  <2> QED
    BY <1>8, <1>10, <2>1, <2>2
<1> QED
  BY <1>9, <1>11, <1>12 DEF Missing

\* ... and CutOut shows the others as before.
LEMMA CutLeaves ==
    ASSUME MsgIndexConstants, NEW n \in Nat, NEW e \in Runs(n), NEW m \in ToSet(Messages(e))
    PROVE  Missing(n, CutOut(e, m), Messages(e), m)
<1>1. PICK k \in Nat, c \in Nat \ {0} :
         k + c <= n /\ (e = UpRun(k, c) \/ e = DownRun(k, c))
  BY DEF Runs
<1>2. CASE e = UpRun(k, c)
  <2>1. Messages(e) = Up(k, c)
    BY <1>2, UpMessages
  <2>2. m \in ToSet(Up(k, c)) /\ k + c <= n
    BY <1>1, <2>1
  <2>3. Missing(n, CutOut(UpRun(k, c), m), Up(k, c), m)
    BY <2>2, UpCut
  <2> QED
    BY ONLY <1>2, <2>1, <2>3, Zenon
<1>3. CASE e = DownRun(k, c)
  <2>1. Messages(e) = Down(k, c)
    BY <1>3, DownMessages
  <2>2. m \in ToSet(Down(k, c)) /\ k + c <= n
    BY <1>1, <2>1
  <2>3. Missing(n, CutOut(DownRun(k, c), m), Down(k, c), m)
    BY <2>2, DownCut
  <2> QED
    BY ONLY <1>3, <2>1, <2>3, Zenon
<1> QED
  BY <1>1, <1>2, <1>3

-----------------------------------------------------------------------------
(***************************************************************************)
(* A list with something in its middle.                                    *)
(***************************************************************************)

Middle(V, w, p, x, q) ==
    /\ w \in Seq(V) /\ Len(w) = Len(p) + 1 + Len(q) /\ x \in ToSet(w)
    /\ \A i \in 1..Len(p) : w[i] = p[i]
    /\ w[Len(p) + 1] = x
    /\ \A i \in 1..Len(q) : w[Len(p) + 1 + i] = q[i]

\* The members of a list with x in its middle.
LEMMA MidFacts ==
    ASSUME NEW V, NEW p \in Seq(V), NEW x \in V, NEW q \in Seq(V)
    PROVE  Middle(V, (p \o <<x>>) \o q, p, x, q)
<1> PICK w : w = (p \o <<x>>) \o q
  OBVIOUS
<1>1. <<x>> \in Seq(V) /\ Len(<<x>>) = 1 /\ <<x>>[1] = x /\ Len(p) \in Nat /\ Len(q) \in Nat
  OBVIOUS
<1>2. PICK one \in Seq(V) : one = <<x>>
  BY <1>1
<1>3. PICK front \in Seq(V) : front = p \o one
  BY SetOfConcat
<1>4. /\ Len(front) = Len(p) + 1 /\ \A i \in 1..Len(p) : front[i] = p[i]
      /\ front[Len(p) + 1] = x
  <2>1. /\ Len(front) = Len(p) + Len(one) /\ \A i \in 1..Len(p) : front[i] = p[i]
        /\ \A i \in 1..Len(one) : front[Len(p) + i] = one[i]
    BY <1>3, SetOfConcat
  <2>2. 1 \in 1..Len(one)
    BY <1>1, <1>2
  <2> QED
    BY <1>1, <1>2, <2>1, <2>2
<1>5. /\ w \in Seq(V) /\ Len(w) = Len(front) + Len(q) /\ \A i \in 1..Len(front) : w[i] = front[i]
      /\ \A i \in 1..Len(q) : w[Len(front) + i] = q[i]
  <2>1. w = front \o q
    BY <1>2, <1>3
  <2> QED
    BY <2>1, SetOfConcat
<1>6. \A i \in 1..Len(p) : i \in 1..Len(front)
  BY <1>1, <1>4
<1>7. Len(p) + 1 \in 1..Len(front) /\ Len(p) + 1 \in 1..Len(w)
  BY <1>1, <1>4, <1>5
<1>8. x \in ToSet(w)
  <2>1. w[Len(p) + 1] = x
    BY <1>4, <1>5, <1>7
  <2> QED
    BY <1>5, <1>7, <2>1, SetOfList
<1>9. Middle(V, w, p, x, q)
  BY <1>1, <1>4, <1>5, <1>6, <1>7, <1>8 DEF Middle
<1> QED
  BY <1>9

InsertedAt(V, now, o, i, m) ==
    /\ now \in Seq(V) /\ Len(now) = Len(o) + 1
    /\ \A j \in 1..(Len(o) + 1) :
          now[j] = IF j < i THEN o[j] ELSE IF j = i THEN m ELSE o[j - 1]

\* InsertAt is one list only.
LEMMA InsertedThere ==
    ASSUME NEW V, NEW seq \in Seq(V), NEW i \in 1..(Len(seq) + 1), NEW m \in V
    PROVE  InsertedAt(V, InsertAt(seq, i, m), seq, i, m)
<1>1. /\ InsertAt(seq, i, m) \in Seq(V)
      /\ Len(InsertAt(seq, i, m)) = Len(seq) + 1
      /\ \A j \in 1..(Len(seq) + 1) :
            InsertAt(seq, i, m)[j] = IF j < i THEN seq[j]
                                     ELSE IF j = i THEN m ELSE seq[j - 1]
  BY InsertAtFacts
<1> QED
  BY <1>1 DEF InsertedAt

\* Right after the last of p.
ReplyParts(o, p, q, m) == ReplyAfter(o, p[Len(p)], m) = (p \o <<m>>) \o q

LEMMA ReplyInParts ==
    ASSUME NEW V, NEW p \in Seq(V), NEW q \in Seq(V), NEW m \in V, NEW o \in Seq(V), o = p \o q,
           IsInjective(o), Len(p) > 0
    PROVE  ReplyParts(o, p, q, m)
<1>1. /\ Len(p) \in Nat /\ Len(q) \in Nat /\ Len(o) = Len(p) + Len(q)
      /\ \A i \in 1..Len(p) : o[i] = p[i]
      /\ \A i \in 1..Len(q) : o[Len(p) + i] = q[i]
  BY SetOfConcat
<1>2. PICK n \in Nat : n = Len(p) /\ n \in 1..Len(o) /\ n + 1 \in 1..(Len(o) + 1)
  BY <1>1
<1>3. Pos(o, p[Len(p)]) = n
  <2>1. p[Len(p)] = o[n] /\ o[n] \in ToSet(o)
    <3>1. n \in 1..Len(p)
      BY <1>2
    <3> QED
      BY <1>1, <1>2, <3>1, SetOfList
  <2>2. Pos(o, o[n]) \in 1..Len(o) /\ o[Pos(o, o[n])] = o[n]
    BY <2>1, PosFacts
  <2>3. \A i, j \in 1..Len(o) : o[i] = o[j] => i = j
    <3>1. o \in Seq(V) /\ IsInjective(o)
      OBVIOUS
    <3> QED
      BY ONLY <3>1 DEF IsInjective
  <2> QED
    BY <1>2, <2>1, <2>2, <2>3
<1>4. PICK now : now = InsertAt(o, n + 1, m)
  OBVIOUS
<1>5. /\ now \in Seq(V) /\ Len(now) = Len(o) + 1
      /\ \A j \in 1..(Len(o) + 1) :
            now[j] = IF j < n + 1 THEN o[j] ELSE IF j = n + 1 THEN m ELSE o[j - 1]
  <2>1. PICK k \in 1..(Len(o) + 1) : k = n + 1
    BY <1>2
  <2>2. now = InsertAt(o, k, m)
    BY <1>4, <2>1
  <2>3. /\ now \in Seq(V) /\ Len(now) = Len(o) + 1
        /\ \A j \in 1..(Len(o) + 1) :
              now[j] = IF j < k THEN o[j] ELSE IF j = k THEN m ELSE o[j - 1]
    <3>1. InsertedAt(V, now, o, k, m)
      BY <2>2, InsertedThere
    <3> QED
      BY <3>1 DEF InsertedAt
  <2> QED
    BY ONLY <2>1, <2>3
<1>6. PICK w : w = (p \o <<m>>) \o q
  OBVIOUS
<1>7. /\ w \in Seq(V) /\ Len(w) = Len(p) + 1 + Len(q)
      /\ \A i \in 1..Len(p) : w[i] = p[i]
      /\ w[Len(p) + 1] = m
      /\ \A i \in 1..Len(q) : w[Len(p) + 1 + i] = q[i]
  <2>1. Middle(V, w, p, m, q)
    BY <1>6, MidFacts
  <2> QED
    BY <2>1 DEF Middle
<1>8. ASSUME NEW j \in 1..(Len(o) + 1) PROVE now[j] = w[j]
  <2>1. CASE j <= n
    <3>1. j \in 1..Len(p) /\ j < n + 1
      BY <1>2, <2>1
    <3> QED
      BY <1>1, <1>5, <1>7, <3>1
  <2>2. CASE j = n + 1
    <3>1. ~(j < n + 1) /\ n + 1 = Len(p) + 1
      BY <1>2, <2>2
    <3>2. now[j] = m
      BY <1>5, <2>2, <3>1
    <3>3. w[j] = m
      BY <1>7, <2>2, <3>1
    <3> QED
      BY <3>2, <3>3
  <2>3. CASE j > n + 1
    <3>1. /\ j - (n + 1) \in 1..Len(q) /\ ~(j < n + 1) /\ j # n + 1
          /\ Len(p) + 1 + (j - (n + 1)) = j /\ Len(p) + (j - (n + 1)) = j - 1
      BY <1>1, <1>2, <2>3
    <3>2. now[j] = o[j - 1]
      BY <1>5, <3>1
    <3>3. o[j - 1] = q[j - (n + 1)] /\ w[j] = q[j - (n + 1)]
      BY <1>1, <1>7, <3>1
    <3> QED
      BY <3>2, <3>3
  <2> QED
    BY <1>2, <2>1, <2>2, <2>3
<1>9. now = w
  <2>1. Len(now) = Len(w)
    BY <1>1, <1>5, <1>7
  <2> QED
    BY <1>5, <1>7, <1>8, <2>1, SeqEqual
<1> QED
  BY <1>3, <1>4, <1>6, <1>9 DEF ReplyAfter, ReplyParts

\* What is in the middle goes.
LEMMA WithoutInParts ==
    ASSUME NEW V, NEW p \in Seq(V), NEW q \in Seq(V), NEW m \in V, NEW o, o = (p \o <<m>>) \o q,
           IsInjective(o)
    PROVE  WithoutMessage(o, m) = p \o q
<1>1. /\ o \in Seq(V) /\ Len(o) = Len(p) + 1 + Len(q) /\ m \in ToSet(o)
      /\ \A i \in 1..Len(p) : o[i] = p[i]
      /\ o[Len(p) + 1] = m
      /\ \A i \in 1..Len(q) : o[Len(p) + 1 + i] = q[i]
  <2>1. Middle(V, (p \o <<m>>) \o q, p, m, q)
    BY MidFacts
  <2>2. Middle(V, o, p, m, q)
    BY <2>1
  <2> QED
    BY ONLY <2>2 DEF Middle
<1>2. Len(p) \in Nat /\ Len(q) \in Nat
  OBVIOUS
<1>3. PICK n \in 1..Len(o) : n = Len(p) + 1
  BY <1>1, <1>2
<1>4. Pos(o, m) = n
  <2>1. Pos(o, m) \in 1..Len(o) /\ o[Pos(o, m)] = m
    BY <1>1, PosFacts
  <2>2. \A i, j \in 1..Len(o) : o[i] = o[j] => i = j
    <3>1. o \in Seq(V) /\ IsInjective(o)
      BY <1>1
    <3> QED
      BY ONLY <3>1 DEF IsInjective
  <2> QED
    BY <1>1, <1>3, <2>1, <2>2
<1>5. PICK now : now = RemoveAt(o, n)
  OBVIOUS
<1>6. /\ now \in Seq(V) /\ Len(now) = Len(o) - 1
      /\ \A j \in 1..(Len(o) - 1) : now[j] = IF j < n THEN o[j] ELSE o[j + 1]
  BY <1>1, <1>5, RemoveAtFacts
<1>7. now = p \o q
  <2>1. \A j \in 1..Len(p) : p[j] = now[j]
    <3>1. SUFFICES ASSUME NEW j \in 1..Len(p) PROVE p[j] = now[j]
      OBVIOUS
    <3>2. j \in 1..(Len(o) - 1) /\ j < n
      BY <1>1, <1>2, <1>3
    <3> QED
      BY <1>1, <1>6, <3>2
  <2>2. \A j \in 1..Len(q) : q[j] = now[Len(p) + j]
    <3>1. SUFFICES ASSUME NEW j \in 1..Len(q) PROVE q[j] = now[Len(p) + j]
      OBVIOUS
    <3>2. /\ Len(p) + j \in 1..(Len(o) - 1) /\ ~(Len(p) + j < n)
          /\ (Len(p) + j) + 1 = Len(p) + 1 + j
      BY <1>1, <1>2, <1>3
    <3> QED
      BY <1>1, <1>6, <3>2
  <2>3. Len(now) = Len(p) + Len(q)
    BY <1>1, <1>2, <1>6
  <2> QED
    BY <1>6, <2>1, <2>2, <2>3, InTwo
<1> QED
  BY <1>4, <1>5, <1>7 DEF WithoutMessage

\* What is in the middle is put between, or taken from between, longer lists.
Regroups(a, f, r, b) == (a \o (f \o r)) \o b = (a \o f) \o (r \o b)

LEMMA Regroup ==
    ASSUME NEW V, NEW a \in Seq(V), NEW f \in Seq(V), NEW r \in Seq(V), NEW b \in Seq(V)
    PROVE  Regroups(a, f, r, b)
<1>1. Associates(a, f, r) /\ a \o f \in Seq(V)
  BY ConcatAssoc
<1>2. PICK af \in Seq(V) : af = a \o f
  BY <1>1
<1>3. Associates(af, r, b)
  BY ConcatAssoc
<1>4. a \o (f \o r) = af \o r
  BY <1>1, <1>2 DEF Associates
<1>5. af \o (r \o b) = (af \o r) \o b
  BY <1>3 DEF Associates
<1> QED
  BY ONLY <1>2, <1>4, <1>5 DEF Regroups

RegroupsMid(a, f, m, r, b) ==
    (a \o ((f \o <<m>>) \o r)) \o b = ((a \o f) \o <<m>>) \o (r \o b)

LEMMA RegroupMid ==
    ASSUME NEW V, NEW a \in Seq(V), NEW f \in Seq(V), NEW m \in V, NEW r \in Seq(V), NEW b \in Seq(V)
    PROVE  RegroupsMid(a, f, m, r, b)
<1>1. PICK one \in Seq(V) : one = <<m>>
  <2>1. <<m>> \in Seq(V)
    OBVIOUS
  <2> QED
    BY <2>1
<1>2. PICK fm \in Seq(V) : fm = f \o one
  BY SetOfConcat
<1>3. (a \o (fm \o r)) \o b = (a \o fm) \o (r \o b)
  <2>1. Regroups(a, fm, r, b)
    BY Regroup
  <2> QED
    BY <2>1 DEF Regroups
<1>4. Associates(a, f, one)
  BY ConcatAssoc
<1>5. a \o fm = (a \o f) \o one
  BY <1>2, <1>4 DEF Associates
<1> QED
  BY ONLY <1>1, <1>2, <1>3, <1>5 DEF RegroupsMid

-----------------------------------------------------------------------------
(***************************************************************************)
(* What becomes of the display order when an entry gives way to others.    *)
(***************************************************************************)

LEMMA FileGrows ==
    ASSUME MsgIndexConstants, NEW n \in Nat
    PROVE  /\ Runs(n) \subseteq Runs(n + 1) /\ Used(n) \subseteq Used(n + 1)
           /\ Seq(Runs(n)) \subseteq Seq(Runs(n + 1))
           /\ Addr(n) \in Used(n + 1) /\ Addr(n) \notin Used(n)
<1>1. Runs(n) \subseteq Runs(n + 1)
  BY DEF Runs
<1>2. Used(n) \subseteq Used(n + 1) /\ Addr(n) \in Used(n + 1)
  BY DEF Used
<1>3. Addr(n) \notin Used(n)
  <2>1. \A k \in Nat : Addr(n) = Addr(k) <=> n = k
    BY AddrFacts
  <2>2. \A k \in 0..(n - 1) : k \in Nat /\ k # n
    OBVIOUS
  <2> QED
    BY <2>1, <2>2 DEF Used
<1>4. \A s \in Seq(Runs(n)) : s \in Seq(Runs(n + 1))
  BY <1>1, WiderSeq
<1> QED
  BY <1>1, <1>2, <1>3, <1>4

\* The entry that a message is looked up in shows it.
LEMMA EntryFound ==
    ASSUME MsgIndexConstants, NEW n \in Nat, table \in Seq(Runs(n)), NEW m \in ToSet(order)
    PROVE  EntryOf(m) \in 1..Len(table) /\ m \in ToSet(Messages(table[EntryOf(m)]))
<1>1. order = Walked(table)
  BY DEF order, Walked
<1>2. PICK i \in 1..Len(table) : m \in ToSet(Messages(table[i]))
  BY <1>1, InARun
<1>3. Len(table) \in Nat /\ DOMAIN table = 1..Len(table) /\ \A j \in 1..Len(table) : table[j] \in Runs(n)
  OBVIOUS
<1>4. PICK x \in Nat : m = Addr(x)
  <2>1. PICK list : list = Messages(table[i])
    OBVIOUS
  <2>2. list \in Seq(Used(n))
    BY <1>3, <2>1, RunMessages
  <2>3. m \in Used(n)
    BY <1>2, <2>1, <2>2, SetOfList
  <2> QED
    BY <2>3 DEF Used
<1>5. \A j \in 1..Len(table) : Covers(table[j], m) <=> m \in ToSet(Messages(table[j]))
  BY <1>3, <1>4, CoversItsOwn
<1>6. PICK I : I = {j \in DOMAIN table : Covers(table[j], m)}
  OBVIOUS
<1>7. I \in SUBSET (1..Len(table)) /\ I # {}
  BY <1>2, <1>3, <1>5, <1>6
<1>8. Max(I) \in I
  BY <1>3, <1>7, LastFacts
<1>9. EntryOf(m) = Max(I)
  BY <1>6 DEF EntryOf
<1> QED
  BY <1>3, <1>5, <1>6, <1>8, <1>9

\* The entries t show the messages o.
Shows(n, t, o) == t \in Seq(Runs(n)) /\ Walked(t) = o

\* A new thread is put first in what the file shows, ...
LEMMA ThreadShown ==
    ASSUME MsgIndexConstants, NEW n \in Nat, table \in Seq(Runs(n)), NEW m \in Used(n), NEW t,
           t = IF table = <<>>
               THEN <<Single(m)>>
               ELSE Rewrite(Len(table), JoinThread(table[Len(table)], m))
    PROVE  Shows(n, t, ThreadFirst(order, m))
<1>1. order = Walked(table)
  BY DEF order, Walked
<1>2. CASE table = <<>>
  <2>1. PICK x \in Nat : x < n /\ m = Addr(x)
    BY DEF Used
  <2>2. PICK u \in Runs(n) : u = UpRun(x, 1)
    <3>1. x + 1 <= n /\ 1 \in Nat \ {0}
      BY <2>1
    <3> QED
      BY <3>1, RunIn
  <2>3. Messages(u) = <<m>> /\ u = Single(m)
    BY <2>1, <2>2, UpMessages, SingleIs
  <2>4. Walked(<<u>>) = <<m>> /\ <<u>> \in Seq(Runs(n))
    BY <2>3, WalkedFacts
  <2>5. order = <<>>
    BY <1>1, <1>2, WalkedFacts
  <2>6. <<m>> \o <<>> = <<m>>
    OBVIOUS
  <2>7. t = <<u>>
    BY <1>2, <2>3
  <2> QED
    BY <2>4, <2>5, <2>6, <2>7 DEF Shows, ThreadFirst
<1>3. CASE table # <<>>
  <2>1. PICK i \in 1..Len(table) : i = Len(table)
    <3>1. Len(table) \in Nat /\ Len(table) # 0
      BY <1>3
    <3> QED
      BY <3>1
  <2>2. PICK e \in Runs(n) : e = table[i]
    OBVIOUS
  <2>3. Headed(n, JoinThread(e, m), Messages(e), m)
    BY ThreadJoins
  <2>4. PICK es \in Seq(Runs(n)) : es = JoinThread(e, m) /\ Walked(es) = <<m>> \o Messages(e)
    BY <2>3 DEF Headed
  <2>5. PICK a, b \in Seq(Used(n)) :
           /\ Walked(table) = (a \o Messages(table[i])) \o b
           /\ Walked(Rewrite(i, es)) = (a \o Walked(es)) \o b
           /\ i = Len(table) => a = <<>>
    BY Rewritten
  <2>6. PICK msgs \in Seq(Used(n)) : msgs = Messages(e)
    BY RunMessages
  <2>7. PICK one \in Seq(Used(n)) : one = <<m>>
    <3>1. <<m>> \in Seq(Used(n))
      OBVIOUS
    <3> QED
      BY <3>1
  <2>8. order = (<<>> \o msgs) \o b /\ Walked(Rewrite(i, es)) = (<<>> \o (one \o msgs)) \o b
    BY ONLY <1>1, <2>1, <2>2, <2>4, <2>5, <2>6, <2>7
  <2>9. <<>> \o msgs = msgs /\ <<>> \o (one \o msgs) = one \o msgs
    OBVIOUS
  <2>10. Associates(one, msgs, b)
    BY ConcatAssoc
  <2>11. Walked(Rewrite(i, es)) = one \o order
    BY ONLY <2>8, <2>9, <2>10 DEF Associates
  <2>12. Rewrite(i, es) \in Seq(Runs(n))
    BY Rewritten
  <2>13. t = Rewrite(i, es)
    BY <1>3, <2>1, <2>2, <2>4
  <2> QED
    BY <2>7, <2>11, <2>12, <2>13 DEF Shows, ThreadFirst
<1> QED
  BY <1>2, <1>3

\* ... a reply right after the message it answers, ...
LEMMA ReplyShown ==
    ASSUME MsgIndexConstants, NEW n \in Nat, table \in Seq(Runs(n)), IsInjective(order),
           NEW parent \in ToSet(order), NEW m \in Used(n), m \notin ToSet(order), NEW t,
           t = Rewrite(EntryOf(parent), SplitForReply(table[EntryOf(parent)], parent, m))
    PROVE  Shows(n, t, ReplyAfter(order, parent, m))
<1>1. order = Walked(table)
  BY DEF order, Walked
<1>2. PICK i \in 1..Len(table) : i = EntryOf(parent) /\ parent \in ToSet(Messages(table[i]))
  BY EntryFound
<1>3. PICK e \in Runs(n) : e = table[i]
  OBVIOUS
<1>4. PICK msgs \in Seq(Used(n)) : msgs = Messages(e)
  BY RunMessages
<1>5. \A es \in Seq(Runs(n)) : \E a, b \in Seq(Used(n)) :
         /\ order = (a \o msgs) \o b
         /\ Walked(Rewrite(i, es)) = (a \o Walked(es)) \o b
  <2>1. TAKE es \in Seq(Runs(n))
  <2>2. PICK a, b \in Seq(Used(n)) :
           /\ Walked(table) = (a \o Messages(table[i])) \o b
           /\ Walked(Rewrite(i, es)) = (a \o Walked(es)) \o b
    BY Rewritten, ZenonT(60)
  <2> QED
    BY ONLY <1>1, <1>3, <1>4, <2>2
<1>6. m \notin ToSet(msgs)
  <2>1. PICK a, b \in Seq(Used(n)) : order = (a \o msgs) \o b
    <3>1. <<>> \in Seq(Runs(n))
      OBVIOUS
    <3> QED
      BY <1>5, <3>1
  <2>2. PICK am \in Seq(Used(n)) : am = a \o msgs /\ ToSet(am) = ToSet(a) \cup ToSet(msgs)
    <3>1. a \o msgs \in Seq(Used(n)) /\ ToSet(a \o msgs) = ToSet(a) \cup ToSet(msgs)
      BY SetOfConcat
    <3> QED
      BY <3>1
  <2>3. ToSet(am \o b) = ToSet(am) \cup ToSet(b)
    BY SetOfConcat
  <2> QED
    BY <2>1, <2>2, <2>3
<1>7. Answered(n, SplitForReply(e, parent, m), msgs, parent, m)
  <2>1. parent \in ToSet(Messages(e)) /\ m \notin ToSet(Messages(e))
    BY <1>2, <1>3, <1>4, <1>6
  <2>2. Answered(n, SplitForReply(e, parent, m), Messages(e), parent, m)
    BY <2>1, ReplySplits
  <2> QED
    BY <1>4, <2>2
<1>8. PICK es \in Seq(Runs(n)) : es = SplitForReply(e, parent, m)
  BY <1>7 DEF Answered
<1>9. PICK f, r \in Seq(Used(n)) : /\ Len(f) > 0 /\ f[Len(f)] = parent /\ msgs = f \o r
                                   /\ Walked(es) = (f \o <<m>>) \o r
  BY <1>7, <1>8 DEF Answered
<1>10. PICK a, b \in Seq(Used(n)) : /\ order = (a \o msgs) \o b
                                    /\ Walked(Rewrite(i, es)) = (a \o Walked(es)) \o b
  BY <1>5
<1>11. PICK p, q \in Seq(Used(n)) : p = a \o f /\ q = r \o b
  BY SetOfConcat
<1>12. order = p \o q
  <2>1. Regroups(a, f, r, b)
    BY Regroup
  <2> QED
    BY ONLY <1>9, <1>10, <1>11, <2>1 DEF Regroups
<1>13. Walked(Rewrite(i, es)) = (p \o <<m>>) \o q
  <2>1. RegroupsMid(a, f, m, r, b)
    BY RegroupMid
  <2> QED
    BY ONLY <1>9, <1>10, <1>11, <2>1 DEF RegroupsMid
<1>14. Len(p) > 0 /\ p[Len(p)] = parent
  <2>1. /\ Len(p) = Len(a) + Len(f) /\ \A j \in 1..Len(f) : p[Len(a) + j] = f[j]
    BY <1>11, SetOfConcat
  <2>2. Len(f) \in 1..Len(f) /\ Len(a) \in Nat
    BY <1>9
  <2>3. Len(p) > 0
    BY <1>9, <2>1, <2>2
  <2>4. p[Len(a) + Len(f)] = f[Len(f)]
    BY <2>1, <2>2
  <2> QED
    BY <1>9, <2>1, <2>3, <2>4
<1>15. PICK o \in Seq(Used(n)) : o = order
  BY <1>12, SetOfConcat
<1>16. o = p \o q /\ IsInjective(o)
  BY <1>12, <1>15
<1>17. ReplyAfter(o, p[Len(p)], m) = (p \o <<m>>) \o q
  <2>1. ReplyParts(o, p, q, m)
    BY <1>14, <1>16, ReplyInParts
  <2> QED
    BY <2>1 DEF ReplyParts
<1>18. t = Rewrite(i, es)
  BY <1>2, <1>3, <1>8
<1>19. t \in Seq(Runs(n))
  BY <1>18, Rewritten
<1> QED
  BY ONLY <1>13, <1>14, <1>15, <1>17, <1>18, <1>19 DEF Shows

\* ... and a message that is cut out leaves the others as they were.
LEMMA CutShown ==
    ASSUME MsgIndexConstants, NEW n \in Nat, table \in Seq(Runs(n)), IsInjective(order),
           NEW m \in ToSet(order), NEW t, t = Rewrite(EntryOf(m), CutOut(table[EntryOf(m)], m))
    PROVE  Shows(n, t, WithoutMessage(order, m))
<1>1. order = Walked(table)
  BY DEF order, Walked
<1>2. PICK i \in 1..Len(table) : i = EntryOf(m) /\ m \in ToSet(Messages(table[i]))
  BY EntryFound
<1>3. PICK e \in Runs(n) : e = table[i]
  OBVIOUS
<1>4. Missing(n, CutOut(e, m), Messages(e), m)
  BY <1>2, <1>3, CutLeaves
<1>5. PICK es \in Seq(Runs(n)) : es = CutOut(e, m)
  BY <1>4 DEF Missing
<1>6. PICK f, r \in Seq(Used(n)) : Messages(e) = (f \o <<m>>) \o r /\ Walked(es) = f \o r
  BY <1>4, <1>5 DEF Missing
<1>7. PICK a, b \in Seq(Used(n)) :
         /\ Walked(table) = (a \o Messages(table[i])) \o b
         /\ Walked(Rewrite(i, es)) = (a \o Walked(es)) \o b
  BY Rewritten
<1>8. m \in Used(n)
  <2>1. PICK msgs \in Seq(Used(n)) : msgs = Messages(e)
    BY RunMessages
  <2> QED
    BY <1>2, <1>3, <2>1, SetOfList
<1>9. PICK p, q \in Seq(Used(n)) : p = a \o f /\ q = r \o b
  BY SetOfConcat
<1>10. order = (p \o <<m>>) \o q
  <2>1. RegroupsMid(a, f, m, r, b)
    BY <1>8, RegroupMid
  <2> QED
    BY ONLY <1>1, <1>3, <1>6, <1>7, <1>9, <2>1 DEF RegroupsMid
<1>11. Walked(Rewrite(i, es)) = p \o q
  <2>1. Regroups(a, f, r, b)
    BY Regroup
  <2> QED
    BY ONLY <1>6, <1>7, <1>9, <2>1 DEF Regroups
<1>12. PICK o : o = order
  OBVIOUS
<1>13. o = (p \o <<m>>) \o q /\ IsInjective(o)
  BY <1>10, <1>12
<1>14. WithoutMessage(o, m) = p \o q
  BY <1>8, <1>13, WithoutInParts
<1>15. t = Rewrite(i, es)
  BY <1>2, <1>3, <1>5
<1>16. t \in Seq(Runs(n))
  BY <1>15, Rewritten
<1> QED
  BY ONLY <1>11, <1>12, <1>14, <1>15, <1>16 DEF Shows

-----------------------------------------------------------------------------
(***************************************************************************)
(* The steps on the file are steps on the display order.                   *)
(***************************************************************************)

TableShape == slots \in 0..MaxSlots /\ table \in Seq(Runs(slots)) /\ IsInjective(order)
DoomedShown == doomed \in Seq(Slot) /\ IsInjective(doomed) /\ ToSet(doomed) \subseteq ToSet(order)

\* What is shown are headers of the file.
LEMMA OrderFacts ==
    ASSUME MsgIndexConstants, TableShape
    PROVE  /\ order = Walked(table) /\ order \in Seq(Used(slots)) /\ order \in Seq(Slot)
           /\ ToSet(order) \subseteq Used(slots) /\ Used(slots) \subseteq Slot
           /\ slots \in Nat /\ MaxSlots \in Nat
<1>1. order = Walked(table)
  BY DEF order, Walked
<1>2. MaxSlots \in Nat /\ slots \in 0..MaxSlots /\ slots \in Nat
  BY DEF MsgIndexConstants, TableShape
<1>3. order \in Seq(Used(slots))
  BY <1>1, <1>2, WalkedFacts DEF TableShape
<1>4. Used(slots) \subseteq Slot
  BY <1>2 DEF Used, Slot
<1>5. PICK o \in Seq(Used(slots)) : o = order
  BY <1>3
<1>6. o \in Seq(Slot) /\ ToSet(o) \subseteq Used(slots)
  BY <1>4, WiderSeq, SetOfList
<1> QED
  BY <1>1, <1>2, <1>3, <1>4, <1>5, <1>6

\* A new header is one that is not shown.
LEMMA NewHeaderFacts ==
    ASSUME MsgIndexConstants, TableShape, NEW m, NewHeader(m)
    PROVE  /\ slots' \in 0..MaxSlots /\ slots' \in Nat /\ slots' >= slots
           /\ m \in Slot /\ m \in Used(slots') /\ m \notin ToSet(order)
           /\ table \in Seq(Runs(slots')) /\ Used(slots) \subseteq Used(slots')
<1>1. /\ order \in Seq(Used(slots)) /\ ToSet(order) \subseteq Used(slots) /\ slots \in 0..MaxSlots
      /\ slots \in Nat /\ MaxSlots \in Nat /\ table \in Seq(Runs(slots))
  BY OrderFacts DEF TableShape
<1> DEFINE free == Used(slots) \ ToSet(order)
<1>2. m \in Slot /\ IF free # {} THEN m \in free /\ slots' = slots
                                 ELSE m = Addr(slots) /\ slots' = slots + 1
  BY DEF NewHeader, Used
<1>3. CASE free # {}
  BY <1>1, <1>2, <1>3
<1>4. CASE free = {}
  <2>1. m = Addr(slots) /\ slots' = slots + 1
    BY <1>2, <1>4
  <2>2. PICK k \in 0..(MaxSlots - 1) : Addr(slots) = Addr(k)
    BY <1>2, <2>1 DEF Slot
  <2>3. slots = k
    BY <1>1, <2>2, AddrFacts
  <2>4. slots + 1 \in 0..MaxSlots /\ slots + 1 \in Nat /\ slots + 1 >= slots
    BY <1>1, <2>2, <2>3
  <2>5. /\ table \in Seq(Runs(slots + 1)) /\ Addr(slots) \in Used(slots + 1)
        /\ Addr(slots) \notin Used(slots) /\ Used(slots) \subseteq Used(slots + 1)
    BY <1>1, FileGrows
  <2> QED
    BY <1>1, <1>2, <2>1, <2>4, <2>5
<1> QED
  BY <1>3, <1>4

\* DB_InsertMessage of a thread, ...
LEMMA AfterThread ==
    ASSUME MsgIndexConstants, TableShape, NEW m, PostThread(m)
    PROVE  /\ TableShape' /\ order' = ThreadFirst(order, m) /\ m \in Slot /\ m \notin ToSet(order)
           /\ ToSet(order)' = ToSet(order) \cup {m}
           /\ order' \in Seq(Slot) /\ IsInjective(order')
<1>1. /\ order \in Seq(Slot) /\ IsInjective(order)
  BY OrderFacts DEF TableShape
<1>2. /\ slots' \in 0..MaxSlots /\ slots' \in Nat /\ m \in Slot /\ m \in Used(slots')
      /\ m \notin ToSet(order) /\ table \in Seq(Runs(slots'))
  BY NewHeaderFacts DEF PostThread
<1>3. PICK n \in Nat : n = slots' /\ table \in Seq(Runs(n)) /\ m \in Used(n)
  BY <1>2
<1>4. PICK t : t = table'
  OBVIOUS
<1>5. t = IF table = <<>>
          THEN <<Single(m)>>
          ELSE Rewrite(Len(table), JoinThread(table[Len(table)], m))
  BY <1>4 DEF PostThread
<1>6. Shows(n, t, ThreadFirst(order, m))
  BY <1>3, <1>5, ThreadShown
<1>7. t \in Seq(Runs(n)) /\ Walked(t) = ThreadFirst(order, m)
  BY <1>6 DEF Shows
<1>8. order' = Walked(t)
  BY <1>4 DEF order, Walked
<1>9. PICK o \in Seq(Slot) : o = order
  BY <1>1
<1>10. m \notin ToSet(o) /\ IsInjective(o)
  BY <1>1, <1>2, <1>9
<1>11. PICK one : one \in 1..(Len(o) + 1) /\ one = 1
  OBVIOUS
<1>12. /\ ToSet(InsertAt(o, one, m)) = ToSet(o) \cup {m} /\ IsInjective(InsertAt(o, one, m))
       /\ InsertAt(o, one, m) \in Seq(Slot)
  BY <1>2, <1>10, <1>11, InsertedOnce
<1>13. ThreadFirst(o, m) = InsertAt(o, one, m)
  BY <1>2, <1>11, FirstFacts
<1>14. /\ ToSet(ThreadFirst(order, m)) = ToSet(order) \cup {m} /\ IsInjective(ThreadFirst(order, m))
       /\ ThreadFirst(order, m) \in Seq(Slot)
  BY ONLY <1>9, <1>12, <1>13
<1>15. TableShape'
  <2>1. slots' \in 0..MaxSlots /\ table' \in Seq(Runs(slots')) /\ IsInjective(order')
    BY <1>2, <1>3, <1>4, <1>7, <1>8, <1>14
  <2> QED
    BY <2>1 DEF TableShape
<1> QED
  BY <1>2, <1>7, <1>8, <1>14, <1>15

\* ... of a reply, ...
LEMMA AfterReply ==
    ASSUME MsgIndexConstants, TableShape, NEW parent \in ToSet(order), NEW m, PostReply(parent, m)
    PROVE  /\ TableShape' /\ order' = ReplyAfter(order, parent, m) /\ m \in Slot
           /\ m \notin ToSet(order) /\ ToSet(order)' = ToSet(order) \cup {m}
           /\ order' \in Seq(Slot) /\ IsInjective(order')
<1>1. /\ order \in Seq(Slot) /\ IsInjective(order)
  BY OrderFacts DEF TableShape
<1>2. /\ slots' \in 0..MaxSlots /\ slots' \in Nat /\ m \in Slot /\ m \in Used(slots')
      /\ m \notin ToSet(order) /\ table \in Seq(Runs(slots'))
  BY NewHeaderFacts DEF PostReply
<1>3. PICK n \in Nat : n = slots' /\ table \in Seq(Runs(n)) /\ m \in Used(n)
  BY <1>2
<1>4. PICK t : t = table'
  OBVIOUS
<1>5. t = Rewrite(EntryOf(parent), SplitForReply(table[EntryOf(parent)], parent, m))
  BY <1>4 DEF PostReply
<1>6. Shows(n, t, ReplyAfter(order, parent, m))
  BY <1>1, <1>2, <1>3, <1>5, ReplyShown
<1>7. t \in Seq(Runs(n)) /\ Walked(t) = ReplyAfter(order, parent, m)
  BY <1>6 DEF Shows
<1>8. order' = Walked(t)
  BY <1>4 DEF order, Walked
<1>9. PICK o \in Seq(Slot) : o = order
  BY <1>1
<1>10. m \notin ToSet(o) /\ IsInjective(o) /\ parent \in ToSet(o)
  BY <1>1, <1>2, <1>9
<1>11. PICK i \in 1..(Len(o) + 1) : i = Pos(o, parent) + 1
  <2>1. Pos(o, parent) \in 1..Len(o) /\ Len(o) \in Nat
    BY <1>10, PosFacts
  <2>2. Pos(o, parent) + 1 \in 1..(Len(o) + 1)
    BY <2>1
  <2> QED
    BY <2>2
<1>12. /\ ToSet(InsertAt(o, i, m)) = ToSet(o) \cup {m} /\ IsInjective(InsertAt(o, i, m))
       /\ InsertAt(o, i, m) \in Seq(Slot)
  BY <1>2, <1>10, <1>11, InsertedOnce
<1>13. ReplyAfter(o, parent, m) = InsertAt(o, i, m)
  BY <1>11 DEF ReplyAfter
<1>14. /\ ToSet(ReplyAfter(order, parent, m)) = ToSet(order) \cup {m}
       /\ IsInjective(ReplyAfter(order, parent, m)) /\ ReplyAfter(order, parent, m) \in Seq(Slot)
  BY ONLY <1>9, <1>12, <1>13
<1>15. TableShape'
  <2>1. slots' \in 0..MaxSlots /\ table' \in Seq(Runs(slots')) /\ IsInjective(order')
    BY <1>2, <1>3, <1>4, <1>7, <1>8, <1>14
  <2> QED
    BY <2>1 DEF TableShape
<1> QED
  BY <1>2, <1>7, <1>8, <1>14, <1>15

\* ... and DB_DeleteMessage, as changes of the list shown.
LEMMA AfterCut ==
    ASSUME MsgIndexConstants, TableShape, NEW m \in ToSet(order), m = Head(doomed), DeleteMessage
    PROVE  /\ TableShape' /\ order' = WithoutMessage(order, m)
           /\ ToSet(order)' = ToSet(order) \ {m}
           /\ order' \in Seq(Slot) /\ IsInjective(order')
<1>1. /\ order \in Seq(Slot) /\ IsInjective(order) /\ slots \in Nat /\ slots \in 0..MaxSlots
      /\ table \in Seq(Runs(slots))
  BY OrderFacts DEF TableShape
<1>2. PICK t : t = table'
  OBVIOUS
<1>3. t = Rewrite(EntryOf(m), CutOut(table[EntryOf(m)], m)) /\ slots' = slots
  BY <1>2 DEF DeleteMessage
<1>4. Shows(slots, t, WithoutMessage(order, m))
  BY <1>1, <1>3, CutShown
<1>5. t \in Seq(Runs(slots)) /\ Walked(t) = WithoutMessage(order, m)
  BY <1>4 DEF Shows
<1>6. order' = Walked(t)
  BY <1>2 DEF order, Walked
<1>7. PICK o \in Seq(Slot) : o = order
  BY <1>1
<1>8. /\ ToSet(WithoutMessage(o, m)) = ToSet(o) \ {m} /\ IsInjective(WithoutMessage(o, m))
      /\ WithoutMessage(o, m) \in Seq(Slot)
  <2>1. IsInjective(o) /\ m \in ToSet(o)
    BY <1>1, <1>7
  <2> QED
    BY <2>1, WithoutFacts
<1>9. ToSet(order') = ToSet(order) \ {m} /\ IsInjective(order') /\ order' \in Seq(Slot)
  BY ONLY <1>5, <1>6, <1>7, <1>8
<1>10. TableShape'
  <2>1. slots' \in 0..MaxSlots /\ table' \in Seq(Runs(slots'))
    BY <1>1, <1>2, <1>3, <1>5
  <2> QED
    BY <1>9, <2>1 DEF TableShape
<1> QED
  BY <1>5, <1>6, <1>9, <1>10

-----------------------------------------------------------------------------
(***************************************************************************)
(* The invariant of the index file: whatever DB_DeleteMessages has still to *)
(* remove, the messages that stay form trees, and below a message that goes *)
(* what stays starts a branch of its own, so nobody who stays answers it.  *)
(***************************************************************************)

Hdr == [m \in Slot |-> [level |-> level[m], thread |-> thread[m]]]
Kept == ToSet(order) \ ToSet(doomed)

HeadersTyped == level \in [Slot -> Nat] /\ thread \in [Slot -> {0} \cup Slot]
KeptForest == Forest(order, Hdr, Kept)
\* What stays below a message that goes starts a branch of its own.
OwnBranch(d, x) ==
    \E b \in Kept : /\ level[b] <= level[d] /\ Before(order, d, b)
                    /\ b = x \/ Before(order, b, x)
KeptBranches == \A d \in ToSet(doomed), x \in Kept : Before(order, d, x) => OwnBranch(d, x)

TableInv == TableShape /\ HeadersTyped /\ DoomedShown /\ KeptForest /\ KeptBranches

\* Orders on the list shown.
LEMMA ShownOrder ==
    ASSUME MsgIndexConstants, TableShape
    PROVE  /\ \A a, b : Before(order, a, b) => a \in ToSet(order) /\ b \in ToSet(order)
           /\ \A a : ~Before(order, a, a)
           /\ \A a, b, c : Before(order, a, b) /\ Before(order, b, c) => Before(order, a, c)
           /\ \A a, b \in ToSet(order) : a = b \/ Before(order, a, b) \/ Before(order, b, a)
           /\ ToSet(order) \subseteq Slot
<1>1. PICK o \in Seq(Slot) : o = order
  BY OrderFacts
<1>2. IsInjective(o)
  BY <1>1 DEF TableShape
<1>3. /\ \A a, b : Before(o, a, b) => a \in ToSet(o) /\ b \in ToSet(o)
      /\ \A a : ~Before(o, a, a)
      /\ \A a, b, c : Before(o, a, b) /\ Before(o, b, c) => Before(o, a, c)
      /\ \A a, b \in ToSet(o) : a = b \/ Before(o, a, b) \/ Before(o, b, a)
  BY <1>2, BeforeFacts
<1>4. ToSet(o) \subseteq Slot
  BY SetOfList
<1> QED
  BY ONLY <1>1, <1>3, <1>4

\* A header as it is written.
LEMMA HdrFacts ==
    ASSUME NEW a \in Slot
    PROVE  Hdr[a].level = level[a] /\ Hdr[a].thread = thread[a]
BY DEF Hdr

\* A thread posted, where nothing is going.
LEMMA InvThread ==
    ASSUME MsgIndexConstants, TableInv, NEW m \in Slot, PostThread(m)
    PROVE  TableInv'
<1>1. /\ TableShape' /\ order' = ThreadFirst(order, m) /\ m \notin ToSet(order)
      /\ ToSet(order)' = ToSet(order) \cup {m}
      /\ order' \in Seq(Slot) /\ IsInjective(order')
  BY AfterThread DEF TableInv
<1>2. /\ doomed = <<>> /\ doomed' = <<>> /\ level' = [level EXCEPT ![m] = 0]
      /\ thread' = [thread EXCEPT ![m] = 0] /\ ToSet(doomed) = {} /\ ToSet(doomed') = {}
  BY DEF PostThread, ToSet
<1>3. HeadersTyped'
  BY <1>2 DEF TableInv, HeadersTyped
<1>4. DoomedShown'
  BY <1>2 DEF DoomedShown, IsInjective
<1>5. KeptBranches'
  BY <1>2 DEF KeptBranches
<1>6. Kept = ToSet(order) /\ Kept' = ToSet(order) \cup {m}
  BY <1>1, <1>2 DEF Kept
<1>7. ToSet(order) \subseteq Slot
  BY ShownOrder DEF TableInv
<1>8. PICK o, X, now, then : /\ o \in Seq(Slot) /\ o = order /\ X = ToSet(order)
                             /\ now = order' /\ then = Hdr'
  BY OrderFacts DEF TableInv
<1>9. /\ \A a \in X : then[a].level = Hdr[a].level /\ then[a].thread = Hdr[a].thread
      /\ then[m].level = 0 /\ then[m].thread = 0
  <2>1. \A a \in Slot : then[a].level = level'[a] /\ then[a].thread = thread'[a]
    BY <1>8 DEF Hdr
  <2>2. /\ \A a \in X : level'[a] = level[a] /\ thread'[a] = thread[a]
        /\ level'[m] = 0 /\ thread'[m] = 0
    BY <1>1, <1>2, <1>7, <1>8 DEF TableInv, HeadersTyped
  <2> QED
    BY <1>7, <1>8, <2>1, <2>2, HdrFacts
<1>10. IsInjective(o) /\ m \notin ToSet(o) /\ X = ToSet(o) /\ now = ThreadFirst(o, m)
  BY <1>1, <1>8 DEF TableInv, TableShape
<1>11. /\ \A a, b \in X : Before(now, a, b) <=> Before(o, a, b)
       /\ \A a \in X : Before(now, m, a) /\ ~Before(now, a, m)
  <2>1. /\ \A a, b \in ToSet(o) : Before(now, a, b) <=> Before(o, a, b)
        /\ \A a \in ToSet(o) : Before(now, m, a) /\ ~Before(now, a, m)
    BY ONLY <1>8, <1>10, BeforeThread
  <2> QED
    BY <1>10, <2>1
<1>12. \A a, b \in X : Before(o, a, b) <=> Before(o, a, b)
  OBVIOUS
<1>13. Forest(o, Hdr, X)
  BY <1>6, <1>8 DEF TableInv, KeptForest
<1>14. Forest(o, then, X)
  BY <1>9, <1>12, <1>13, SameForest
<1>15. ~Before(now, m, m)
  <2>1. now \in Seq(Slot) /\ IsInjective(now)
    BY <1>1, <1>8
  <2> QED
    BY <2>1, BeforeFacts
<1>16. Forest(now, then, X \cup {m})
  BY <1>9, <1>10, <1>11, <1>14, <1>15, ForestThread
<1>17. KeptForest'
  BY <1>6, <1>8, <1>16 DEF KeptForest
<1> QED
  BY <1>1, <1>3, <1>4, <1>5, <1>17 DEF TableInv

\* A reply posted.
LEMMA InvReply ==
    ASSUME MsgIndexConstants, TableInv, NEW at \in ToSet(order), NEW m \in Slot, PostReply(at, m)
    PROVE  TableInv'
<1>1. /\ TableShape' /\ order' = ReplyAfter(order, at, m) /\ m \notin ToSet(order)
      /\ ToSet(order)' = ToSet(order) \cup {m}
      /\ order' \in Seq(Slot) /\ IsInjective(order')
  BY AfterReply DEF TableInv
<1>2. /\ doomed = <<>> /\ doomed' = <<>> /\ level' = [level EXCEPT ![m] = level[at] + 1]
      /\ thread' = [thread EXCEPT ![m] = HeadOf(at)] /\ ToSet(doomed) = {} /\ ToSet(doomed') = {}
  BY DEF PostReply, ToSet
<1>3. ToSet(order) \subseteq Slot
  BY ShownOrder DEF TableInv
<1>4. at \in Slot /\ at # m /\ level[at] \in Nat /\ HeadOf(at) \in {0} \cup Slot
  BY <1>1, <1>3 DEF TableInv, HeadersTyped, HeadOf
<1>5. HeadersTyped'
  BY <1>2, <1>4 DEF TableInv, HeadersTyped
<1>6. DoomedShown'
  BY <1>2 DEF DoomedShown, IsInjective
<1>7. KeptBranches'
  BY <1>2 DEF KeptBranches
<1>8. Kept = ToSet(order) /\ Kept' = ToSet(order) \cup {m}
  BY <1>1, <1>2 DEF Kept
<1>9. PICK o, X, now, then : /\ o \in Seq(Slot) /\ o = order /\ X = ToSet(order)
                             /\ now = order' /\ then = Hdr'
  BY OrderFacts DEF TableInv
<1>10. /\ \A a \in X : /\ then[a].level = Hdr[a].level /\ then[a].thread = Hdr[a].thread
                       /\ Hdr[a].level = level[a] /\ Hdr[a].thread = thread[a]
       /\ then[m].level = level[at] + 1 /\ then[m].thread = HeadOf(at)
  <2>1. \A a \in Slot : then[a].level = level'[a] /\ then[a].thread = thread'[a]
    BY <1>9 DEF Hdr
  <2>2. /\ \A a \in X : level'[a] = level[a] /\ thread'[a] = thread[a]
        /\ level'[m] = level[at] + 1 /\ thread'[m] = HeadOf(at)
    BY <1>1, <1>2, <1>3, <1>9 DEF TableInv, HeadersTyped
  <2> QED
    BY <1>3, <1>9, <2>1, <2>2, HdrFacts
<1>11. IsInjective(o) /\ m \notin ToSet(o) /\ X = ToSet(o) /\ now = ReplyAfter(o, at, m)
       /\ at \in ToSet(o)
  BY <1>1, <1>9 DEF TableInv, TableShape
<1>12. /\ \A a, b \in X : Before(now, a, b) <=> Before(o, a, b)
       /\ \A a \in X : /\ Before(now, a, m) <=> a = at \/ Before(o, a, at)
                       /\ Before(now, m, a) <=> Before(o, at, a)
  <2>1. /\ \A a, b \in ToSet(o) : Before(now, a, b) <=> Before(o, a, b)
        /\ \A a \in ToSet(o) : /\ Before(now, a, m) <=> a = at \/ Before(o, a, at)
                               /\ Before(now, m, a) <=> Before(o, at, a)
    BY ONLY <1>9, <1>11, BeforeReply
  <2> QED
    BY <1>11, <2>1
<1>13. \A a, b \in X : Before(o, a, b) <=> Before(o, a, b)
  OBVIOUS
<1>14. Forest(o, Hdr, X)
  BY <1>8, <1>9 DEF TableInv, KeptForest
<1>15. Forest(o, then, X)
  BY <1>10, <1>13, <1>14, SameForest
<1>16. ~Before(now, m, m)
  <2>1. now \in Seq(Slot) /\ IsInjective(now)
    BY <1>1, <1>9
  <2> QED
    BY <2>1, BeforeFacts
<1>17. /\ \A a \in X \cup {m} : then[a].level \in Nat
       /\ then[m].level = then[at].level + 1
       /\ then[m].thread = IF then[at].level > 0 THEN then[at].thread ELSE at
  <2>1. \A a \in X : level[a] \in Nat
    BY <1>3, <1>9 DEF TableInv, HeadersTyped
  <2> QED
    BY <1>4, <1>9, <1>10, <2>1 DEF HeadOf
<1>18. /\ \A a : ~Before(o, a, a)
       /\ \A a, b, c : Before(o, a, b) /\ Before(o, b, c) => Before(o, a, c)
  BY <1>9, ShownOrder DEF TableInv
<1>19. at \in X /\ m \notin X
  BY <1>11
<1>20. Forest(now, then, X \cup {m})
  BY ONLY <1>12, <1>15, <1>16, <1>17, <1>18, <1>19, ForestReply
<1>21. KeptForest'
  BY <1>8, <1>9, <1>20 DEF KeptForest
<1> QED
  BY <1>1, <1>5, <1>6, <1>7, <1>21 DEF TableInv

\* A thread is about to go.
LEMMA InvThreadGoes ==
    ASSUME MsgIndexConstants, TableInv, NEW root \in ToSet(order), DeleteMessages(root)
    PROVE  TableInv'
<1>1. /\ doomed = <<>> /\ doomed' = Walk(order, level, root) /\ ToSet(doomed) = {}
      /\ UNCHANGED <<table, slots, level, thread>>
  BY DEF DeleteMessages, ToSet
<1>2. order' = order /\ Hdr' = Hdr
  BY <1>1 DEF order, Hdr
<1>3. TableShape' /\ HeadersTyped'
  BY <1>1, <1>2 DEF TableInv, TableShape, HeadersTyped
<1>4. PICK o, W : o \in Seq(Slot) /\ o = order /\ W = ToSet(Walk(order, level, root))
  BY OrderFacts DEF TableInv
<1>5. IsInjective(o) /\ root \in ToSet(o) /\ W = ToSet(Walk(o, level, root))
  BY <1>4 DEF TableInv, TableShape
<1>6. DoomedShown'
  <2>1. /\ Walk(o, level, root) \in Seq(Slot) /\ IsInjective(Walk(o, level, root))
    BY <1>4, <1>5, WalkFacts
  <2>2. W \subseteq ToSet(o)
    <3>1. PICK w \in Seq(Slot) : w = Walk(o, level, root)
      BY <2>1
    <3>2. \A i \in 1..Len(w) : w[i] \in ToSet(o)
      BY <1>4, <1>5, <3>1, WalkFacts
    <3>3. \A x : x \in ToSet(w) <=> \E i \in 1..Len(w) : w[i] = x
      BY SetOfList
    <3> QED
      BY <1>5, <3>1, <3>2, <3>3
  <2> QED
    BY <1>1, <1>2, <1>4, <2>1, <2>2 DEF DoomedShown
<1>7. \A a \in ToSet(o) : level[a] \in Nat /\ a \in Slot
  BY <1>4, ShownOrder DEF TableInv, HeadersTyped
<1>8. /\ root \in W /\ W \subseteq ToSet(o)
      /\ \A a \in W \ {root} : Before(o, root, a) /\ level[a] > level[root]
      /\ \A a \in W : \A b : Before(o, root, b) /\ Before(o, b, a) => b \in W
      /\ \A a \in ToSet(o) \ W : Before(o, root, a) =>
            \E b \in ToSet(o) \ W : /\ Before(o, root, b) /\ level[b] <= level[root]
                                    /\ b = a \/ Before(o, b, a)
  BY <1>4, <1>5, <1>7, WalkShape
<1>9. /\ \A a, b : Before(o, a, b) => a \in ToSet(o) /\ b \in ToSet(o)
      /\ \A a : ~Before(o, a, a)
      /\ \A a, b, c : Before(o, a, b) /\ Before(o, b, c) => Before(o, a, c)
      /\ \A a, b \in ToSet(o) : a = b \/ Before(o, a, b) \/ Before(o, b, a)
  BY <1>4, ShownOrder DEF TableInv
<1>10. Kept = ToSet(o) /\ Kept' = ToSet(o) \ W /\ ToSet(doomed)' = W
  BY <1>1, <1>2, <1>4 DEF Kept
<1>11. \A a \in ToSet(o) : Hdr[a].level = level[a]
  BY <1>7, HdrFacts
<1>12. Forest(o, Hdr, ToSet(o) \ W)
  <2>1. PICK X, h : X = ToSet(o) /\ h = Hdr
    OBVIOUS
  <2>2. Forest(o, h, X)
    BY <1>4, <1>10, <2>1 DEF TableInv, KeptForest
  <2>3. /\ W \subseteq X /\ root \in W
        /\ \A a \in X : h[a].level \in Nat
        /\ \A a \in W \ {root} : Before(o, root, a) /\ h[a].level > h[root].level
        /\ \A a \in W : \A b : Before(o, root, b) /\ Before(o, b, a) => b \in W
        /\ \A a \in X \ W : Before(o, root, a) =>
              \E b \in X \ W : /\ Before(o, root, b) /\ h[b].level <= h[root].level
                               /\ b = a \/ Before(o, b, a)
        /\ \A a, b \in X : a = b \/ Before(o, a, b) \/ Before(o, b, a)
    BY ONLY <1>7, <1>8, <1>9, <1>11, <2>1
  <2>4. /\ \A a : ~Before(o, a, a)
        /\ \A a, b, c : Before(o, a, b) /\ Before(o, b, c) => Before(o, a, c)
    BY <1>9
  <2>5. Forest(o, h, X \ W)
    BY ONLY <2>2, <2>3, <2>4, ForestWithout
  <2> QED
    BY <2>1, <2>5
<1>13. KeptForest'
  BY <1>2, <1>4, <1>10, <1>12 DEF KeptForest
<1>14. ASSUME NEW d \in W, NEW x \in ToSet(o) \ W, Before(o, d, x)
       PROVE  \E b \in ToSet(o) \ W : /\ level[b] <= level[d] /\ Before(o, d, b)
                                      /\ b = x \/ Before(o, b, x)
  <2>1. Before(o, root, x) /\ level[root] <= level[d]
    BY <1>7, <1>8, <1>9, <1>14
  <2>2. PICK b \in ToSet(o) \ W : /\ Before(o, root, b) /\ level[b] <= level[root]
                                  /\ b = x \/ Before(o, b, x)
    BY <1>8, <2>1
  <2>3. Before(o, d, b)
    BY <1>8, <1>9, <2>2
  <2>4. level[b] <= level[d]
    BY <1>7, <1>8, <2>1, <2>2
  <2> QED
    BY <2>2, <2>3, <2>4
<1>15. KeptBranches'
  <2>1. \A d \in ToSet(doomed)', x \in Kept' : Before(order', d, x) =>
           \E b \in Kept' : /\ level'[b] <= level'[d] /\ Before(order', d, b)
                            /\ b = x \/ Before(order', b, x)
    BY <1>1, <1>2, <1>4, <1>10, <1>14
  <2> QED
    BY <2>1 DEF KeptBranches, OwnBranch
<1> QED
  BY <1>3, <1>6, <1>13, <1>15 DEF TableInv

\* What is left of a list.
LEMMA RestFacts ==
    ASSUME NEW V, NEW s \in Seq(V), s # <<>>, IsInjective(s)
    PROVE  /\ Head(s) \in ToSet(s) /\ Tail(s) \in Seq(V) /\ IsInjective(Tail(s))
           /\ ToSet(Tail(s)) = ToSet(s) \ {Head(s)}
<1>1. /\ Len(s) \in Nat /\ Len(s) > 0 /\ Head(s) = s[1] /\ Tail(s) \in Seq(V)
      /\ Len(Tail(s)) = Len(s) - 1
      /\ \A i \in 1..(Len(s) - 1) : Tail(s)[i] = s[i + 1]
  OBVIOUS
<1>2. PICK r \in Seq(V) : r = Tail(s)
  BY <1>1
<1>3. \A i, j \in 1..Len(s) : s[i] = s[j] => i = j
  BY DEF IsInjective
<1>4. /\ \A x : x \in ToSet(s) <=> \E i \in 1..Len(s) : s[i] = x
      /\ \A x : x \in ToSet(r) <=> \E i \in 1..Len(r) : r[i] = x
  BY SetOfList
<1>5. Len(r) = Len(s) - 1 /\ \A i \in 1..Len(r) : r[i] = s[i + 1] /\ i + 1 \in 1..Len(s)
  BY <1>1, <1>2
<1>6. \A i, j \in 1..Len(r) : r[i] = r[j] => i = j
  BY <1>3, <1>5
<1>7. IsInjective(r)
  BY <1>6 DEF IsInjective
<1>8. Head(s) \in ToSet(s)
  BY <1>1, <1>4
<1>9. ASSUME NEW x \in ToSet(r) PROVE x \in ToSet(s) /\ x # s[1]
  <2>1. PICK i \in 1..Len(r) : r[i] = x
    BY <1>4
  <2>2. i + 1 \in 1..Len(s) /\ s[i + 1] = x /\ i + 1 # 1 /\ 1 \in 1..Len(s)
    BY <1>1, <1>5, <2>1
  <2> QED
    BY <1>3, <1>4, <2>2
<1>10. ASSUME NEW x \in ToSet(s), x # s[1] PROVE x \in ToSet(r)
  <2>1. PICK i \in 1..Len(s) : s[i] = x
    BY <1>4
  <2>2. i - 1 \in 1..Len(r) /\ (i - 1) + 1 = i
    BY <1>1, <1>5, <1>10, <2>1
  <2> QED
    BY <1>4, <1>5, <2>1, <2>2
<1> QED
  BY <1>1, <1>2, <1>7, <1>8, <1>9, <1>10

\* One of its messages goes.
LEMMA InvCut ==
    ASSUME MsgIndexConstants, TableInv, DeleteMessage
    PROVE  TableInv'
<1>1. /\ doomed # <<>> /\ doomed' = Tail(doomed) /\ level' = level /\ thread' = thread
  BY DEF DeleteMessage
<1>2. PICK m : m = Head(doomed)
  OBVIOUS
<1>3. /\ m \in ToSet(doomed) /\ doomed' \in Seq(Slot) /\ IsInjective(doomed')
      /\ ToSet(doomed') = ToSet(doomed) \ {m}
  BY <1>1, <1>2, RestFacts DEF TableInv, DoomedShown
<1>4. m \in ToSet(order) /\ ToSet(doomed) \subseteq ToSet(order)
  BY <1>3 DEF TableInv, DoomedShown
<1>5. /\ TableShape' /\ order' = WithoutMessage(order, m) /\ ToSet(order') = ToSet(order) \ {m}
      /\ order' \in Seq(Slot) /\ IsInjective(order')
  BY <1>2, <1>4, AfterCut DEF TableInv
<1>6. HeadersTyped' /\ Hdr' = Hdr
  BY <1>1 DEF TableInv, HeadersTyped, Hdr
<1>7. DoomedShown'
  BY <1>3, <1>4, <1>5 DEF DoomedShown
<1>8. Kept' = Kept /\ Kept \subseteq ToSet(order) \ {m}
  BY <1>3, <1>5 DEF Kept
<1>9. PICK o, now : o \in Seq(Slot) /\ o = order /\ now = order'
  BY OrderFacts DEF TableInv
<1>10. \A a, b \in ToSet(o) \ {m} : Before(now, a, b) <=> Before(o, a, b)
  <2>1. IsInjective(o) /\ m \in ToSet(o) /\ now = WithoutMessage(o, m)
    BY <1>4, <1>5, <1>9 DEF TableInv, TableShape
  <2> QED
    BY <1>9, <2>1, BeforeCut
<1>11. KeptForest'
  <2>1. PICK X, h : X = Kept /\ h = Hdr
    OBVIOUS
  <2>2. Forest(o, h, X)
    BY <1>9, <2>1 DEF TableInv, KeptForest
  <2>3. \A a, b \in X : Before(now, a, b) <=> Before(o, a, b)
    BY <1>8, <1>9, <1>10, <2>1
  <2>4. Forest(now, h, X)
    BY <2>2, <2>3, SameForest
  <2> QED
    BY <1>6, <1>8, <1>9, <2>1, <2>4 DEF KeptForest
<1>12. ASSUME NEW d \in ToSet(doomed'), NEW x \in Kept, Before(now, d, x)
       PROVE  \E b \in Kept : /\ level[b] <= level[d] /\ Before(now, d, b)
                              /\ b = x \/ Before(now, b, x)
  <2>1. d \in ToSet(o) \ {m} /\ d \in ToSet(doomed) /\ \A y \in Kept : y \in ToSet(o) \ {m}
    BY <1>3, <1>4, <1>8, <1>9
  <2>2. Before(order, d, x)
    BY <1>9, <1>10, <1>12, <2>1
  <2>3. OwnBranch(d, x)
    BY <2>1, <2>2 DEF TableInv, KeptBranches
  <2>4. PICK b \in Kept : /\ level[b] <= level[d] /\ Before(order, d, b)
                          /\ b = x \/ Before(order, b, x)
    BY <2>3 DEF OwnBranch
  <2> QED
    BY <1>9, <1>10, <2>1, <2>4
<1>13. KeptBranches'
  <2>1. \A d \in ToSet(doomed)', x \in Kept' : Before(order', d, x) =>
           \E b \in Kept' : /\ level'[b] <= level'[d] /\ Before(order', d, b)
                            /\ b = x \/ Before(order', b, x)
    BY <1>1, <1>8, <1>9, <1>12
  <2> QED
    BY <2>1 DEF KeptBranches, OwnBranch
<1> QED
  BY <1>5, <1>6, <1>7, <1>11, <1>13 DEF TableInv

\* An empty file shows nothing.
LEMMA EmptyShown ==
    ASSUME MsgIndexConstants, table = <<>>
    PROVE  order = <<>>
<1>1. 0 \in Nat /\ table \in Seq(Runs(0))
  OBVIOUS
<1>2. order = Walked(table)
  BY DEF order, Walked
<1> QED
  BY <1>1, <1>2, WalkedFacts

\* At the start nothing is posted.
LEMMA InvInit ==
    ASSUME MsgIndexConstants, TableInit
    PROVE  TableInv
<1>1. table = <<>> /\ slots = 0 /\ doomed = <<>>
      /\ level = [m \in Slot |-> 0] /\ thread = [m \in Slot |-> 0]
  BY DEF TableInit
<1>2. order = <<>>
  BY <1>1, EmptyShown
<1>3. ToSet(order) = {} /\ ToSet(doomed) = {}
  BY <1>1, <1>2 DEF ToSet
<1>4. TableShape
  <2>1. 0 \in 0..MaxSlots
    BY DEF MsgIndexConstants
  <2> QED
    BY <1>1, <1>2, <2>1 DEF TableShape, IsInjective
<1>5. HeadersTyped
  BY <1>1 DEF HeadersTyped
<1>6. DoomedShown
  BY <1>1, <1>3 DEF DoomedShown, IsInjective
<1>7. KeptForest /\ KeptBranches
  BY <1>3 DEF KeptForest, KeptBranches, Kept, Forest
<1> QED
  BY <1>4, <1>5, <1>6, <1>7 DEF TableInv

\* No step of the file breaks the invariant.
LEMMA InvNext ==
    ASSUME MsgIndexConstants, TableInv, [TableNext]_tableVars
    PROVE  TableInv'
<1>1. CASE \E m \in Slot : PostThread(m)
  BY <1>1, InvThread
<1>2. CASE \E parent \in ToSet(order), m \in Slot : PostReply(parent, m)
  BY <1>2, InvReply
<1>3. CASE \E root \in ToSet(order) : DeleteMessages(root)
  BY <1>3, InvThreadGoes
<1>4. CASE DeleteMessage
  BY <1>4, InvCut
<1>5. CASE UNCHANGED tableVars
  <2>1. /\ table' = table /\ slots' = slots /\ level' = level /\ thread' = thread
        /\ doomed' = doomed
    BY <1>5 DEF tableVars
  <2>2. order' = order /\ Hdr' = Hdr /\ Kept' = Kept
    BY <2>1 DEF order, Hdr, Kept
  <2>3. TableShape' /\ HeadersTyped' /\ DoomedShown'
    BY <2>1, <2>2 DEF TableInv, TableShape, HeadersTyped, DoomedShown
  <2>4. KeptForest' /\ KeptBranches'
    BY <2>1, <2>2 DEF TableInv, KeptForest, KeptBranches, OwnBranch
  <2> QED
    BY <2>3, <2>4 DEF TableInv
<1> QED
  BY <1>1, <1>2, <1>3, <1>4, <1>5 DEF TableNext

-----------------------------------------------------------------------------
(***************************************************************************)
(* Every step on the file is a step on the plain list of ThreadOrder, or none. *)
(***************************************************************************)

\* What the list's operators are, seen from the file.
LEMMA OrderOperators ==
    /\ \A s : Order!ToSet(s) = ToSet(s)
    /\ \A s, m : Order!ThreadFirst(s, m) = ThreadFirst(s, m)
    /\ \A s, at, m : Order!ReplyAfter(s, at, m) = ReplyAfter(s, at, m)
    /\ \A s, m : Order!WithoutMessage(s, m) = WithoutMessage(s, m)
    /\ \A s, h, r : Order!Walk(s, h, r) = Walk(s, h, r)
<1>1. \A s : Order!ToSet(s) = ToSet(s)
  BY DEF ToSet, Order!ToSet
<1>2. \A s, m : Order!Pos(s, m) = Pos(s, m)
  BY DEF Pos, Order!Pos
<1>3. \A s, m : Order!ThreadFirst(s, m) = ThreadFirst(s, m)
  BY DEF ThreadFirst, Order!ThreadFirst
<1>4. \A s, at, m : Order!ReplyAfter(s, at, m) = ReplyAfter(s, at, m)
  BY <1>2 DEF ReplyAfter, Order!ReplyAfter, InsertAt, Order!InsertAt
<1>5. \A s, m : Order!WithoutMessage(s, m) = WithoutMessage(s, m)
  BY <1>2 DEF WithoutMessage, Order!WithoutMessage, RemoveAt, Order!RemoveAt
<1>6. \A s, h, r : Order!Walk(s, h, r) = Walk(s, h, r)
  <2>1. \A T : Order!Min(T) = Min(T)
    BY DEF Min, Order!Min
  <2> QED
    BY <1>2, <2>1 DEF Walk, Order!Walk
<1> QED
  BY <1>1, <1>3, <1>4, <1>5, <1>6

\* Both start empty.
LEMMA StartsInOrder ==
    ASSUME MsgIndexConstants, TableInit
    PROVE  Order!OrderInit
<1>1. table = <<>>
  BY DEF TableInit
<1>2. order = <<>>
  BY <1>1, EmptyShown
<1> QED
  BY <1>2 DEF TableInit, Order!OrderInit

LEMMA StepsInOrder ==
    ASSUME MsgIndexConstants, TableInv, [TableNext]_tableVars
    PROVE  [Order!OrderNext]_(Order!orderVars)
<1>1. CASE \E m \in Slot : PostThread(m)
  <2>1. PICK m \in Slot : PostThread(m)
    BY <1>1
  <2>2. order' = ThreadFirst(order, m) /\ m \notin ToSet(order)
    BY <2>1, AfterThread DEF TableInv
  <2>3. Order!PostThread(m)
    BY <2>1, <2>2, OrderOperators DEF PostThread, Order!PostThread
  <2> QED
    BY <2>3 DEF Order!OrderNext
<1>2. CASE \E parent \in ToSet(order), m \in Slot : PostReply(parent, m)
  <2>1. PICK parent \in ToSet(order), m \in Slot : PostReply(parent, m)
    BY <1>2
  <2>2. order' = ReplyAfter(order, parent, m) /\ m \notin ToSet(order)
    BY <2>1, AfterReply DEF TableInv
  <2>3. Order!PostReply(parent, m)
    BY <2>1, <2>2, OrderOperators DEF PostReply, Order!PostReply, HeadOf
  <2> QED
    BY <2>3, OrderOperators DEF Order!OrderNext
<1>3. CASE \E root \in ToSet(order) : DeleteMessages(root)
  <2>1. PICK root \in ToSet(order) : DeleteMessages(root)
    BY <1>3
  <2>2. order' = order
    BY <2>1 DEF DeleteMessages, order
  <2>3. Order!DeleteMessages(root)
    BY <2>1, <2>2, OrderOperators DEF DeleteMessages, Order!DeleteMessages
  <2> QED
    BY <2>3, OrderOperators DEF Order!OrderNext
<1>4. CASE DeleteMessage
  <2>1. Head(doomed) \in ToSet(order)
    <3>1. doomed \in Seq(Slot) /\ doomed # <<>> /\ IsInjective(doomed)
      BY <1>4 DEF DeleteMessage, TableInv, DoomedShown
    <3>2. Head(doomed) \in ToSet(doomed)
      BY <3>1, RestFacts
    <3> QED
      BY <3>2 DEF TableInv, DoomedShown
  <2>2. order' = WithoutMessage(order, Head(doomed))
    BY <1>4, <2>1, AfterCut DEF TableInv
  <2>3. Order!DeleteMessage
    BY <1>4, <2>2, OrderOperators DEF DeleteMessage, Order!DeleteMessage
  <2> QED
    BY <2>3 DEF Order!OrderNext
<1>5. CASE UNCHANGED tableVars
  <2>1. order' = order
    BY <1>5 DEF tableVars, order
  <2> QED
    BY <1>5, <2>1 DEF tableVars, Order!orderVars
<1> QED
  BY <1>1, <1>2, <1>3, <1>4, <1>5 DEF TableNext

\* The invariant holds for ever.
LEMMA TableInvHolds == ASSUME MsgIndexConstants PROVE TableSpec => []TableInv
<1>1. TableInit => TableInv
  BY InvInit
<1>2. TableInv /\ [TableNext]_tableVars => TableInv'
  BY InvNext
<1> QED
  BY <1>1, <1>2, PTL DEF TableSpec

\* However DB_InsertMessage and DB_DeleteMessage join, split and cut the runs of
\* the index file, it shows the plain list of messages with the new one in its
\* place, or without the one that went: for any size of a header and of the file.
THEOREM RunsShowTheOrder == ASSUME MsgIndexConstants PROVE TableSpec => Order!OrderSpec
<1>1. TableInit => Order!OrderInit
  BY StartsInOrder
<1>2. TableInv /\ [TableNext]_tableVars => [Order!OrderNext]_(Order!orderVars)
  BY StepsInOrder
<1> QED
  BY <1>1, <1>2, TableInvHolds, PTL DEF TableSpec, Order!OrderSpec

-----------------------------------------------------------------------------
(***************************************************************************)
(* No more messages are shown than the file has headers, so the levels stay *)
(* within the bound on these.                                              *)
(***************************************************************************)

LEMMA FewMessages ==
    ASSUME MsgIndexConstants, TableShape
    PROVE  Len(order) \in Nat /\ Len(order) <= slots
<1>1. slots \in Nat
  BY OrderFacts
<1>2. PICK o \in Seq(Used(slots)) : o = order
  BY OrderFacts
<1>3. \A i, j \in 1..Len(o) : o[i] = o[j] => i = j
  BY <1>2 DEF TableShape, IsInjective
<1>4. \A i \in 1..Len(o) : \E k \in 0..(slots - 1) : o[i] = Addr(k)
  BY DEF Used
<1>5. PICK f : f = [i \in 1..Len(o) |-> CHOOSE k \in 0..(slots - 1) : o[i] = Addr(k)]
  OBVIOUS
<1>6. \A i \in 1..Len(o) : f[i] \in 0..(slots - 1) /\ o[i] = Addr(f[i])
  BY <1>4, <1>5
<1>7. f \in Injection(1..Len(o), 0..(slots - 1))
  <2>1. f \in [1..Len(o) -> 0..(slots - 1)]
    BY <1>5, <1>6
  <2>2. \A i, j \in 1..Len(o) : f[i] = f[j] => i = j
    BY <1>3, <1>6
  <2> QED
    BY <2>1, <2>2 DEF Injection, IsInjective
<1>8. /\ IsFiniteSet(0..(slots - 1)) /\ Cardinality(0..(slots - 1)) = slots
      /\ Len(o) \in Nat /\ Cardinality(1..Len(o)) = Len(o)
  <2>1. 0 \in Int /\ 1 \in Int /\ slots - 1 \in Int /\ Len(o) \in Int /\ Len(o) \in Nat
    BY <1>1
  <2>2. /\ IsFiniteSet(0..(slots - 1))
        /\ Cardinality(0..(slots - 1)) = IF 0 > slots - 1 THEN 0 ELSE slots - 1 - 0 + 1
    BY <2>1, FS_Interval
  <2>3. Cardinality(1..Len(o)) = IF 1 > Len(o) THEN 0 ELSE Len(o) - 1 + 1
    BY <2>1, FS_Interval
  <2> QED
    BY <1>1, <2>1, <2>2, <2>3
<1>9. Cardinality(1..Len(o)) <= Cardinality(0..(slots - 1))
  BY <1>7, <1>8, FS_Injection
<1> QED
  BY <1>2, <1>8, <1>9

LevelsBounded == level \in [Slot -> 0..MaxSlots]
BoundedInv == TableInv /\ LevelsBounded

\* While nothing is going, all that is shown is a forest.
LEMMA ShownForest ==
    ASSUME MsgIndexConstants, TableInv, doomed = <<>>
    PROVE  /\ Forest(order, Hdr, ToSet(order)) /\ Kept = ToSet(order)
           /\ \A a \in ToSet(order) : /\ a \in Slot /\ Hdr[a].level = level[a]
                                      /\ Hdr[a].thread = thread[a] /\ level[a] \in Nat
<1>1. Kept = ToSet(order)
  BY DEF Kept, ToSet
<1>2. \A a \in ToSet(order) : a \in Slot
  BY ShownOrder DEF TableInv
<1>3. \A a \in ToSet(order) : /\ Hdr[a].level = level[a] /\ Hdr[a].thread = thread[a]
                              /\ level[a] \in Nat
  BY <1>2, HdrFacts DEF TableInv, HeadersTyped
<1> QED
  BY <1>1, <1>2, <1>3 DEF TableInv, KeptForest

\* A reply is less deep than there are messages above it, and these are few.
LEMMA BoundedNext ==
    ASSUME MsgIndexConstants, BoundedInv, [TableNext]_tableVars
    PROVE  BoundedInv'
<1>1. TableInv'
  BY InvNext DEF BoundedInv
<1>2. MaxSlots \in Nat
  BY DEF MsgIndexConstants
<1>3. CASE \E m \in Slot : PostThread(m)
  <2>1. LevelsBounded'
    BY <1>2, <1>3 DEF PostThread, BoundedInv, LevelsBounded
  <2> QED
    BY <1>1, <2>1 DEF BoundedInv
<1>4. CASE \E parent \in ToSet(order), m \in Slot : PostReply(parent, m)
  <2>1. PICK at \in ToSet(order), m \in Slot : PostReply(at, m)
    BY <1>4
  <2>2. doomed = <<>> /\ level' = [level EXCEPT ![m] = level[at] + 1]
    BY <2>1 DEF PostReply
  <2>3. PICK o, h : o \in Seq(Slot) /\ o = order /\ h = Hdr
    BY OrderFacts DEF BoundedInv, TableInv
  <2>4. IsInjective(o) /\ at \in ToSet(o)
    BY <2>3 DEF BoundedInv, TableInv, TableShape
  <2>5. /\ Forest(o, h, ToSet(o)) /\ \A a \in ToSet(o) : h[a].level \in Nat
        /\ h[at].level = level[at]
    BY <2>2, <2>3, ShownForest DEF BoundedInv
  <2>6. h[at].level < Len(o)
    BY <2>3, <2>4, <2>5, ForestDepth
  <2>7. Len(o) \in Nat /\ Len(o) <= slots /\ slots \in 0..MaxSlots
    BY <2>3, FewMessages DEF BoundedInv, TableInv, TableShape
  <2>8. level[at] \in Nat
    BY <2>4, <2>5
  <2>9. level[at] + 1 \in 0..MaxSlots
    BY <1>2, <2>5, <2>6, <2>7, <2>8
  <2>10. LevelsBounded'
    BY <2>2, <2>9 DEF BoundedInv, LevelsBounded
  <2> QED
    BY <1>1, <2>10 DEF BoundedInv
<1>5. CASE (\E root \in ToSet(order) : DeleteMessages(root)) \/ DeleteMessage
           \/ UNCHANGED tableVars
  <2>1. level' = level
    BY <1>5 DEF DeleteMessages, DeleteMessage, tableVars
  <2> QED
    BY <1>1, <2>1 DEF BoundedInv, LevelsBounded
<1> QED
  BY <1>3, <1>4, <1>5 DEF TableNext

\* The invariant is strong enough.
LEMMA BoundedShape ==
    ASSUME MsgIndexConstants, BoundedInv
    PROVE  ShapeIsForest
<1>1. TableTypeOK
  <2>1. table \in Seq([begin : Nat, end : Nat])
    <3>1. Runs(slots) \subseteq [begin : Nat, end : Nat]
      BY DEF Runs
    <3> QED
      BY <3>1, WiderSeq DEF BoundedInv, TableInv, TableShape
  <2> QED
    BY <2>1 DEF BoundedInv, TableInv, TableShape, HeadersTyped, DoomedShown, LevelsBounded,
                TableTypeOK
<1>2. ASSUME doomed = <<>>, NEW i \in DOMAIN order PROVE Levels(i) /\ ThreadHeadKnown(i)
  <2>1. PICK o, h : o \in Seq(Slot) /\ o = order /\ h = Hdr
    BY OrderFacts DEF BoundedInv, TableInv
  <2>2. /\ IsInjective(o) /\ Forest(o, h, ToSet(o))
        /\ \A a \in ToSet(o) : /\ h[a].level = level[a] /\ h[a].thread = thread[a]
                               /\ h[a].level \in Nat
    BY <1>2, <2>1, ShownForest DEF BoundedInv, TableInv, TableShape
  <2>3. /\ i \in 1..Len(o) /\ Len(o) \in Nat
        /\ \A j \in 1..Len(o) : o[j] \in ToSet(o)
    BY <1>2, <2>1, SetOfList
  <2>4. /\ i = 1 => h[o[i]].level = 0
        /\ i # 1 => h[o[i]].level <= h[o[i - 1]].level + 1
    BY <2>1, <2>2, <2>3, ForestLevels
  <2>5. Levels(i)
    <3>1. i # 1 => i - 1 \in 1..Len(o)
      BY <2>3
    <3>2. IF i = 1 THEN level[o[i]] <= 0 ELSE level[o[i]] <= level[o[i - 1]] + 1
      BY <2>2, <2>3, <2>4, <3>1
    <3> QED
      BY <2>1, <3>2 DEF Levels
  <2>6. ThreadHeadKnown(i)
    <3>1. SUFFICES ASSUME level[order[i]] > 0
                   PROVE  LET heads == {j \in 1..i : level[order[j]] = 0}
                          IN  heads # {} /\ thread[order[i]] = order[Max(heads)]
      BY DEF ThreadHeadKnown
    <3>2. PICK heads : heads = {j \in 1..i : level[order[j]] = 0}
      OBVIOUS
    <3>3. heads = {j \in 1..i : h[o[j]].level = 0}
      BY <2>1, <2>2, <2>3, <3>2
    <3>4. h[o[i]].level > 0
      BY <2>1, <2>2, <2>3, <3>1
    <3>5. heads # {} /\ h[o[i]].thread = o[Max(heads)]
      BY <2>1, <2>2, <2>3, <3>3, <3>4, ForestHeads
    <3> QED
      BY <2>1, <2>2, <2>3, <3>2, <3>5
  <2> QED
    BY <2>5, <2>6
<1> QED
  BY <1>1, <1>2 DEF ShapeIsForest

\* Between requests the levels and the ParentThreads of what the index file shows
\* describe trees, for any number of messages (DB_InsertMessage, DB_DeleteMessages).
THEOREM RunsShowTrees == ASSUME MsgIndexConstants PROVE TableSpec => []ShapeIsForest
<1>1. TableInit => BoundedInv
  <2>1. ASSUME TableInit PROVE BoundedInv
    <3>1. TableInv
      BY <2>1, InvInit
    <3>2. LevelsBounded
      BY <2>1 DEF TableInit, LevelsBounded, MsgIndexConstants
    <3> QED
      BY <3>1, <3>2 DEF BoundedInv
  <2> QED
    BY <2>1
<1>2. BoundedInv /\ [TableNext]_tableVars => BoundedInv'
  BY BoundedNext
<1>3. BoundedInv => ShapeIsForest
  BY BoundedShape
<1> QED
  BY <1>1, <1>2, <1>3, PTL DEF TableSpec

-----------------------------------------------------------------------------
(***************************************************************************)
(* Who answers whom, by getparent.                                         *)
(***************************************************************************)

\* Every reply that stays answers a message that stays, the one getparent finds.
LEMMA KeptReplies ==
    ASSUME MsgIndexConstants, TableInv, NEW m \in Kept, level[m] > 0
    PROVE  \E a \in Kept : RepliesTo(order, Hdr, Kept, a, m) /\ Parent(m) = a
<1>1. PICK o, X, h : o \in Seq(Slot) /\ o = order /\ X = Kept /\ h = Hdr
  BY OrderFacts DEF TableInv
<1>2. IsInjective(o) /\ X \in SUBSET ToSet(o) /\ m \in X /\ Forest(o, h, X)
  BY <1>1 DEF TableInv, TableShape, Kept, KeptForest
<1>3. \A c \in ToSet(o) : /\ h[c].level = level[c] /\ h[c].thread = thread[c]
                          /\ level[c] \in Nat
  <2>1. \A c \in ToSet(o) : c \in Slot
    BY <1>1, SetOfList
  <2>2. \A c \in Slot : level[c] \in Nat
    BY DEF TableInv, HeadersTyped
  <2> QED
    BY <1>1, <2>1, <2>2, HdrFacts
<1>4. PICK a \in X : RepliesTo(o, h, X, a, m)
  <2>1. (\A c \in X : h[c].level \in Nat) /\ h[m].level > 0
    BY <1>2, <1>3
  <2> QED
    BY <1>1, <1>2, <2>1, ParentThere
<1>5. \A d \in ToSet(o) \ X, x \in X : Before(o, d, x) =>
         \E b \in X : /\ level[b] <= level[d] /\ Before(o, d, b)
                      /\ b = x \/ Before(o, b, x)
  BY <1>1 DEF TableInv, KeptBranches, OwnBranch, Kept
<1>6. ParentOf(o, level, thread, m) = a
  BY <1>1, <1>2, <1>3, <1>4, <1>5, ParentStands
<1> QED
  BY <1>1, <1>4, <1>6 DEF Parent

\* The same after a step.
LEMMA RepliesNext ==
    ASSUME MsgIndexConstants, TableInv', order' \in Seq(Slot),
           NEW m \in Kept', NEW a \in Kept', RepliesTo(order', Hdr', Kept', a, m)
    PROVE  Parent(m)' = a
<1>1. PICK o, X, h, l, t, d : /\ o = order' /\ X = Kept' /\ h = Hdr' /\ l = level' /\ t = thread'
                              /\ d = doomed'
  OBVIOUS
<1>2. /\ o \in Seq(Slot) /\ IsInjective(o) /\ l \in [Slot -> Nat] /\ t \in [Slot -> {0} \cup Slot]
      /\ h = [c \in Slot |-> [level |-> l[c], thread |-> t[c]]] /\ X = ToSet(o) \ ToSet(d)
  <2>1. TableShape' /\ HeadersTyped'
    BY DEF TableInv
  <2>2. l \in [Slot -> Nat] /\ t \in [Slot -> {0} \cup Slot] /\ IsInjective(o)
    BY <1>1, <2>1 DEF TableShape, HeadersTyped
  <2>3. h = [c \in Slot |-> [level |-> l[c], thread |-> t[c]]] /\ X = ToSet(o) \ ToSet(d)
    BY <1>1 DEF Hdr, Kept
  <2>4. o \in Seq(Slot)
    BY <1>1
  <2> QED
    BY <2>2, <2>3, <2>4
<1>3. \A c \in ToSet(o) : /\ h[c].level = l[c] /\ h[c].thread = t[c] /\ l[c] \in Nat
  <2>1. \A c \in ToSet(o) : c \in Slot
    BY <1>2, SetOfList
  <2> QED
    BY <1>2, <2>1
<1>4. \A e \in ToSet(o) \ X, x \in X : Before(o, e, x) =>
         \E b \in X : /\ l[b] <= l[e] /\ Before(o, e, b)
                      /\ b = x \/ Before(o, b, x)
  <2>1. KeptBranches'
    BY DEF TableInv
  <2>2. \A e \in ToSet(d), x \in X : Before(o, e, x) =>
           \E b \in X : /\ l[b] <= l[e] /\ Before(o, e, b)
                        /\ b = x \/ Before(o, b, x)
    BY <1>1, <2>1 DEF KeptBranches, OwnBranch
  <2> QED
    BY <1>2, <2>2
<1>5. RepliesTo(o, h, X, a, m) /\ a \in X /\ m \in X /\ X \in SUBSET ToSet(o)
  BY <1>1, <1>2
<1>6. ParentOf(o, l, t, m) = a
  <2>1. o \in Seq(Slot) /\ IsInjective(o)
    BY <1>2
  <2> QED
    BY <1>3, <1>4, <1>5, <2>1, ParentStands
<1> QED
  BY <1>1, <1>6 DEF Parent

SameParents == \A m \in Survivors : level'[m] = level[m] /\ Parent(m)' = Parent(m)

\* A thread posted is above all that answer each other, ...
LEMMA ParentsAfterThread ==
    ASSUME MsgIndexConstants, TableInv, NEW n \in Slot, PostThread(n)
    PROVE  SameParents
<1>1. TableInv'
  BY InvThread
<1>2. /\ order' = ThreadFirst(order, n) /\ n \notin ToSet(order)
      /\ ToSet(order)' = ToSet(order) \cup {n} /\ order' \in Seq(Slot)
  BY AfterThread DEF TableInv
<1>3. /\ doomed = <<>> /\ ToSet(doomed') = {} /\ level' = [level EXCEPT ![n] = 0]
      /\ thread' = [thread EXCEPT ![n] = 0]
  BY DEF PostThread, ToSet
<1>4. PICK o, X, now, h, then : /\ o \in Seq(Slot) /\ o = order /\ X = ToSet(order)
                                /\ now = order' /\ h = Hdr /\ then = Hdr'
  BY OrderFacts DEF TableInv
<1>5. Kept = X /\ Kept' = X \cup {n} /\ X = ToSet(o) /\ n \notin X /\ X \subseteq Slot
  <2>1. Kept' = X \cup {n}
    BY <1>2, <1>3, <1>4 DEF Kept
  <2> QED
    BY <1>2, <1>3, <1>4, <2>1, ShownForest, ShownOrder DEF TableInv
<1>6. \A a \in X : /\ then[a].level = h[a].level /\ then[a].thread = h[a].thread
                   /\ level'[a] = level[a]
  <2>1. \A a \in Slot : then[a].level = level'[a] /\ then[a].thread = thread'[a]
    BY <1>4 DEF Hdr
  <2>2. \A a \in X : level'[a] = level[a] /\ thread'[a] = thread[a]
    BY <1>3, <1>5 DEF TableInv, HeadersTyped
  <2> QED
    BY <1>4, <1>5, <2>1, <2>2, HdrFacts
<1>7. /\ \A a, b \in X : Before(now, a, b) <=> Before(o, a, b)
      /\ \A a \in X : Before(now, n, a) /\ ~Before(now, a, n)
  <2>1. IsInjective(o) /\ now = ThreadFirst(o, n)
    BY <1>2, <1>4 DEF TableInv, TableShape
  <2> QED
    BY <1>4, <1>5, <2>1, BeforeThread
<1>8. ASSUME NEW m \in Survivors PROVE level'[m] = level[m] /\ Parent(m)' = Parent(m)
  <2>1. m \in X /\ level[m] > 0
    BY <1>4, <1>8 DEF Survivors
  <2>2. PICK a \in X : RepliesTo(o, h, X, a, m) /\ Parent(m) = a
    BY <1>4, <1>5, <2>1, KeptReplies
  <2>3. RepliesTo(now, then, X \cup {n}, a, m)
    BY <1>6, <1>7, <2>1, <2>2, RepliesBelowThread, ZenonT(60)
  <2>4. Parent(m)' = a
    BY <1>1, <1>2, <1>4, <1>5, <2>1, <2>3, RepliesNext
  <2> QED
    BY <1>6, <2>1, <2>2, <2>4
<1> QED
  BY <1>8 DEF SameParents

\* ... a reply comes no nearer to any of them than what it answers itself, ...
LEMMA ParentsAfterReply ==
    ASSUME MsgIndexConstants, TableInv, NEW at \in ToSet(order), NEW n \in Slot, PostReply(at, n)
    PROVE  SameParents
<1>1. TableInv'
  BY InvReply
<1>2. /\ order' = ReplyAfter(order, at, n) /\ n \notin ToSet(order)
      /\ ToSet(order)' = ToSet(order) \cup {n} /\ order' \in Seq(Slot)
  BY AfterReply DEF TableInv
<1>3. /\ doomed = <<>> /\ ToSet(doomed') = {} /\ level' = [level EXCEPT ![n] = level[at] + 1]
      /\ thread' = [thread EXCEPT ![n] = HeadOf(at)]
  BY DEF PostReply, ToSet
<1>4. PICK o, X, now, h, then : /\ o \in Seq(Slot) /\ o = order /\ X = ToSet(order)
                                /\ now = order' /\ h = Hdr /\ then = Hdr'
  BY OrderFacts DEF TableInv
<1>5. Kept = X /\ Kept' = X \cup {n} /\ X = ToSet(o) /\ n \notin X /\ X \subseteq Slot /\ at \in X
  <2>1. Kept' = X \cup {n}
    BY <1>2, <1>3, <1>4 DEF Kept
  <2> QED
    BY <1>2, <1>3, <1>4, <2>1, ShownForest, ShownOrder DEF TableInv
<1>6. /\ \A a \in X : /\ then[a].level = h[a].level /\ then[a].thread = h[a].thread
                      /\ level'[a] = level[a] /\ h[a].level \in Nat
      /\ then[n].level = h[at].level + 1
  <2>1. \A a \in Slot : then[a].level = level'[a] /\ then[a].thread = thread'[a]
    BY <1>4 DEF Hdr
  <2>2. /\ \A a \in X : level'[a] = level[a] /\ thread'[a] = thread[a] /\ level[a] \in Nat
        /\ level'[n] = level[at] + 1
    BY <1>3, <1>5 DEF TableInv, HeadersTyped
  <2> QED
    BY <1>4, <1>5, <2>1, <2>2, HdrFacts
<1>7. /\ \A a, b \in X : Before(now, a, b) <=> Before(o, a, b)
      /\ \A a \in X : /\ Before(now, a, n) <=> a = at \/ Before(o, a, at)
                      /\ Before(now, n, a) <=> Before(o, at, a)
  <2>1. IsInjective(o) /\ now = ReplyAfter(o, at, n)
    BY <1>2, <1>4 DEF TableInv, TableShape
  <2> QED
    BY <1>4, <1>5, <2>1, BeforeReply
<1>8. ASSUME NEW m \in Survivors PROVE level'[m] = level[m] /\ Parent(m)' = Parent(m)
  <2>1. m \in X /\ level[m] > 0
    BY <1>4, <1>8 DEF Survivors
  <2>2. PICK a \in X : RepliesTo(o, h, X, a, m) /\ Parent(m) = a
    BY <1>4, <1>5, <2>1, KeptReplies
  <2>3. RepliesTo(now, then, X \cup {n}, a, m)
    <3>1. /\ \A b \in X : then[b].level = h[b].level /\ then[b].thread = h[b].thread
          /\ then[n].level = h[at].level + 1
      BY <1>6
    <3>2. \A b \in X : h[b].level \in Nat
      BY <1>6
    <3>3. at \in X
      BY <1>5
    <3> QED
      BY <1>7, <2>1, <2>2, <3>1, <3>2, <3>3, RepliesBesideReply
  <2>4. Parent(m)' = a
    BY <1>1, <1>2, <1>4, <1>5, <2>1, <2>3, RepliesNext
  <2> QED
    BY <1>6, <2>1, <2>2, <2>4
<1> QED
  BY <1>8 DEF SameParents

\* ... and what is cut out is not answered by anyone who stays.
LEMMA ParentsAfterCut ==
    ASSUME MsgIndexConstants, TableInv, DeleteMessage
    PROVE  SameParents
<1>1. TableInv'
  BY InvCut
<1>2. PICK gone : gone = Head(doomed)
  OBVIOUS
<1>3. /\ doomed # <<>> /\ doomed' = Tail(doomed) /\ level' = level /\ Hdr' = Hdr
  BY DEF DeleteMessage, Hdr
<1>4. /\ gone \in ToSet(doomed) /\ ToSet(doomed') = ToSet(doomed) \ {gone}
      /\ ToSet(doomed) \subseteq ToSet(order) /\ gone \in ToSet(order)
  <2>1. gone \in ToSet(doomed) /\ ToSet(doomed') = ToSet(doomed) \ {gone}
    BY <1>2, <1>3, RestFacts DEF TableInv, DoomedShown
  <2> QED
    BY <2>1 DEF TableInv, DoomedShown
<1>5. order' = WithoutMessage(order, gone) /\ ToSet(order') = ToSet(order) \ {gone}
      /\ order' \in Seq(Slot)
  BY <1>2, <1>4, AfterCut DEF TableInv
<1>6. Kept' = Kept /\ Kept \subseteq ToSet(order) \ {gone}
  BY <1>4, <1>5 DEF Kept
<1>7. PICK o, X, now, h : o \in Seq(Slot) /\ o = order /\ X = Kept /\ now = order' /\ h = Hdr
  BY OrderFacts DEF TableInv
<1>8. \A a, b \in X : Before(now, a, b) <=> Before(o, a, b)
  <2>1. IsInjective(o) /\ gone \in ToSet(o) /\ now = WithoutMessage(o, gone)
    BY <1>4, <1>5, <1>7 DEF TableInv, TableShape
  <2> QED
    BY <1>6, <1>7, <2>1, BeforeCut
<1>9. ASSUME NEW m \in Survivors PROVE level'[m] = level[m] /\ Parent(m)' = Parent(m)
  <2>1. m \in X /\ level[m] > 0
    BY <1>4, <1>5, <1>7, <1>9 DEF Survivors, Kept
  <2>2. PICK a \in X : RepliesTo(o, h, X, a, m) /\ Parent(m) = a
    BY <1>7, <2>1, KeptReplies
  <2>3. RepliesTo(now, h, X, a, m)
    BY <1>8, <2>1, <2>2, SameReplies
  <2>4. Parent(m)' = a
    BY <1>1, <1>3, <1>5, <1>6, <1>7, <2>1, <2>3, RepliesNext
  <2> QED
    BY <1>3, <2>2, <2>4
<1> QED
  BY <1>9 DEF SameParents

\* No step changes who answers whom.
LEMMA ParentsNext ==
    ASSUME MsgIndexConstants, TableInv, [TableNext]_tableVars
    PROVE  SameParents
<1>1. CASE \E m \in Slot : PostThread(m)
  BY <1>1, ParentsAfterThread
<1>2. CASE \E parent \in ToSet(order), m \in Slot : PostReply(parent, m)
  BY <1>2, ParentsAfterReply
<1>3. CASE DeleteMessage
  BY <1>3, ParentsAfterCut
<1>4. CASE (\E root \in ToSet(order) : DeleteMessages(root)) \/ UNCHANGED tableVars
  <2>1. table' = table /\ level' = level /\ thread' = thread
    BY <1>4 DEF DeleteMessages, tableVars
  <2>2. order' = order
    BY <2>1 DEF order
  <2>3. \A m : Parent(m)' = Parent(m)
    BY <2>1, <2>2 DEF Parent
  <2> QED
    BY <2>1, <2>3 DEF SameParents
<1> QED
  BY <1>1, <1>2, <1>3, <1>4 DEF TableNext

\* The index file implements the plain list of messages, and whoever posts or is
\* deleted elsewhere, a reply that stays goes on answering the same message, the
\* one getparent finds: also while the messages of a thread go one by one.
THEOREM RunsKeepParents == ASSUME MsgIndexConstants PROVE TableSpec => OrderSpec
<1>1. TableSpec => Order!OrderSpec
  BY RunsShowTheOrder
<1>2. TableInv /\ [TableNext]_tableVars => SameParents
  BY ParentsNext
<1>3. SameParents <=> \A m \in Survivors : level'[m] = level[m] /\ Parent(m)' = Parent(m)
  BY DEF SameParents
<1>4. TableSpec => ParentsKept
  BY <1>2, <1>3, TableInvHolds, PTL DEF TableSpec, ParentsKept
<1> QED
  BY <1>1, <1>4 DEF OrderSpec
=============================================================================
