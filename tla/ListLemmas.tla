----------------------------- MODULE ListLemmas -----------------------------
(***************************************************************************)
(* Lemmas about lists.  Those kept in files: a record is looked for from   *)
(* the beginning on, and taken out by moving up what is behind it.  The    *)
(* display order of messages, and the forest it is: what a new thread, a   *)
(* reply, and a thread that goes, leave of it, and where getparent looks.  *)
(***************************************************************************)
EXTENDS Integers, ThreadWalk, SequenceTheorems, WellFoundedInduction, TLAPS

\* A set of places has a first one.
LEMMA HasLeast ==
    ASSUME NEW T \in SUBSET Nat, T # {}
    PROVE  \E x \in T : \A y \in T : x <= y
<1>1. IsWellFoundedOn(OpToRel(<, Nat), Nat)
  BY NatLessThanWellFounded
<1>2. PICK x \in T : \A y \in T : ~(<<y, x>> \in OpToRel(<, Nat))
  BY <1>1, WFMin
<1>3. \A y \in T : ~(y < x)
  BY <1>2 DEF OpToRel
<1>4. QED
  BY <1>3

\* A sequence without its element at place i.
LEMMA RemoveAtFacts ==
    ASSUME NEW S, NEW seq \in Seq(S), NEW i \in 1..Len(seq)
    PROVE  /\ RemoveAt(seq, i) \in Seq(S) /\ Len(RemoveAt(seq, i)) = Len(seq) - 1
           /\ \A j \in 1..(Len(seq) - 1) :
                 RemoveAt(seq, i)[j] = IF j < i THEN seq[j] ELSE seq[j + 1]
<1> DEFINE before == SubSeq(seq, 1, i - 1)
           behind == SubSeq(seq, i + 1, Len(seq))
<1>1. /\ before \in Seq(S) /\ Len(before) = i - 1
      /\ \A j \in 1..(i - 1) : before[j] = seq[j]
  OBVIOUS
<1>2. behind \in Seq(S) /\ Len(behind) = Len(seq) - i
  OBVIOUS
<1>3. \A j \in 1..(Len(seq) - i) : behind[j] = seq[i + j]
  OBVIOUS
<1>4. RemoveAt(seq, i) = before \o behind
  BY DEF RemoveAt
<1> HIDE DEF before, behind
<1>5. RemoveAt(seq, i) \in Seq(S) /\ Len(RemoveAt(seq, i)) = Len(seq) - 1
  <2>1. before \o behind \in Seq(S) /\ Len(before \o behind) = (i - 1) + (Len(seq) - i)
    BY ONLY <1>1, <1>2, SMTT(60)
  <2>2. (i - 1) + (Len(seq) - i) = Len(seq) - 1
    OBVIOUS
  <2>3. QED
    BY ONLY <1>4, <2>1, <2>2
<1>6. ASSUME NEW j \in 1..(Len(seq) - 1)
      PROVE  RemoveAt(seq, i)[j] = IF j < i THEN seq[j] ELSE seq[j + 1]
  <2>1. (before \o behind)[j] = IF j <= i - 1 THEN before[j] ELSE behind[j - (i - 1)]
    BY <1>1, <1>2
  <2>2. CASE j < i
    BY <1>1, <1>4, <2>1, <2>2
  <2>3. CASE ~(j < i)
    <3>1. RemoveAt(seq, i)[j] = behind[j - (i - 1)]
      BY <1>4, <2>1, <2>3
    <3>2. j - (i - 1) \in 1..(Len(seq) - i) /\ i + (j - (i - 1)) = j + 1
      BY <2>3
    <3>3. QED
      BY <1>3, <2>3, <3>1, <3>2
  <2>4. QED
    BY <2>2, <2>3
<1>7. QED
  BY <1>5, <1>6

\* The part of a sequence from its last element on.
LEMMA LastAlone ==
    ASSUME NEW S, NEW seq \in Seq(S), Len(seq) > 0
    PROVE  SubSeq(seq, Len(seq), Len(seq)) = <<seq[Len(seq)]>>
<1> DEFINE n == Len(seq)
<1>1. n \in Nat \ {0} /\ seq[n] \in S
  OBVIOUS
<1>2. /\ SubSeq(seq, n, n) \in Seq(S) /\ Len(SubSeq(seq, n, n)) = 1
      /\ SubSeq(seq, n, n)[1] = seq[n]
  BY <1>1
<1>3. <<seq[n]>> \in Seq(S) /\ Len(<<seq[n]>>) = 1 /\ <<seq[n]>>[1] = seq[n]
  BY <1>1
<1> HIDE DEF n
<1>4. \A i \in 1..1 : SubSeq(seq, n, n)[i] = <<seq[n]>>[i]
  BY <1>2, <1>3
<1>5. SubSeq(seq, n, n) = <<seq[n]>>
  BY <1>2, <1>3, <1>4, SeqEqual
<1>6. QED
  BY <1>5 DEF n

\* A sequence without its last element.
LEMMA WithoutLast ==
    ASSUME NEW S, NEW seq \in Seq(S), Len(seq) > 0
    PROVE  /\ SubSeq(seq, 1, Len(seq) - 1) \in Seq(S)
           /\ Len(SubSeq(seq, 1, Len(seq) - 1)) = Len(seq) - 1
           /\ \A i \in 1..(Len(seq) - 1) : SubSeq(seq, 1, Len(seq) - 1)[i] = seq[i]
<1> DEFINE n == Len(seq)
<1>1. n \in Nat \ {0} /\ n - 1 \in Int
  OBVIOUS
<1>2. \A i \in 1..(n - 1) : i \in 1..n /\ seq[i] \in S
  OBVIOUS
<1>3. /\ SubSeq(seq, 1, n - 1) \in Seq(S)
      /\ Len(SubSeq(seq, 1, n - 1)) = IF 1 <= n - 1 THEN (n - 1) - 1 + 1 ELSE 0
      /\ \A i \in 1..((n - 1) - 1 + 1) : SubSeq(seq, 1, n - 1)[i] = seq[1 + i - 1]
  <2> HIDE DEF n
  <2>1. QED
    BY <1>1, <1>2, SubSeqProperties
<1> HIDE DEF n
<1>4. Len(SubSeq(seq, 1, n - 1)) = n - 1
  BY <1>1, <1>3
<1>5. \A i \in 1..(n - 1) : SubSeq(seq, 1, n - 1)[i] = seq[i]
  BY <1>1, <1>3
<1>6. QED
  BY <1>3, <1>4, <1>5 DEF n

\* What a search from the beginning on finds.
LEMMA SearchFacts ==
    ASSUME NEW n \in Nat, NEW I \in SUBSET (1..n), I # {}
    PROVE  Min(I) \in I
<1>1. \E x \in I : \A y \in I : x <= y
  BY HasLeast
<1>2. QED
  BY <1>1 DEF Min

\* The last of some places.
LEMMA LastFacts ==
    ASSUME NEW n \in Nat, NEW I \in SUBSET (1..n), I # {}
    PROVE  Max(I) \in I /\ \A y \in I : y <= Max(I)
<1> DEFINE U == {u \in 0..n : \A y \in I : y <= u}
<1>1. n \in U
  OBVIOUS
<1>2. PICK u \in U : \A y \in U : u <= y
  <2>1. U \in SUBSET Nat
    OBVIOUS
  <2> HIDE DEF U
  <2> QED
    BY <1>1, <2>1, HasLeast
<1>3. u \in 0..n /\ \A y \in I : y <= u
  BY <1>2
<1>4. u \in I
  <2>1. SUFFICES ASSUME u \notin I PROVE FALSE
    OBVIOUS
  <2>2. PICK y \in I : y \in 1..n
    OBVIOUS
  <2>3. u - 1 \in 0..n /\ ~(u <= u - 1)
    BY <1>3, <2>2
  <2>4. \A z \in I : z <= u - 1
    BY <1>3, <2>1
  <2> QED
    BY <1>2, <2>3, <2>4
<1> HIDE DEF U
<1>5. \E x \in I : \A y \in I : x >= y
  BY <1>3, <1>4
<1>6. Max(I) \in I /\ \A y \in I : Max(I) >= y
  BY <1>5 DEF Max
<1> QED
  BY <1>6

-----------------------------------------------------------------------------
(* Lists of messages in display order.                                    *)

LEMMA SetOfList ==
    ASSUME NEW S, NEW seq \in Seq(S)
    PROVE  /\ \A i \in 1..Len(seq) : seq[i] \in S /\ seq[i] \in ToSet(seq)
           /\ \A x : x \in ToSet(seq) <=> \E i \in 1..Len(seq) : seq[i] = x
           /\ ToSet(seq) \subseteq S
<1>1. DOMAIN seq = 1..Len(seq) /\ \A i \in 1..Len(seq) : seq[i] \in S
  OBVIOUS
<1>2. QED
  BY <1>1 DEF ToSet

LEMMA WiderSeq ==
    ASSUME NEW S, NEW T, S \subseteq T, NEW seq \in Seq(S)
    PROVE  seq \in Seq(T)
<1>1. Len(seq) \in Nat /\ DOMAIN seq = 1..Len(seq) /\ \A i \in 1..Len(seq) : seq[i] \in T
  OBVIOUS
<1>2. seq \in [1..Len(seq) -> T]
  BY <1>1
<1>3. QED
  BY <1>1, <1>2

LEMMA PosFacts ==
    ASSUME NEW S, NEW seq \in Seq(S), NEW m \in ToSet(seq)
    PROVE  Pos(seq, m) \in 1..Len(seq) /\ seq[Pos(seq, m)] = m
<1>1. \E i \in DOMAIN seq : seq[i] = m
  BY DEF ToSet
<1>2. QED
  BY <1>1 DEF Pos

\* A new member put at place i of a list.
LEMMA InsertAtFacts ==
    ASSUME NEW S, NEW seq \in Seq(S), NEW i \in 1..(Len(seq) + 1), NEW m \in S
    PROVE  /\ InsertAt(seq, i, m) \in Seq(S)
           /\ Len(InsertAt(seq, i, m)) = Len(seq) + 1
           /\ \A j \in 1..(Len(seq) + 1) :
                 InsertAt(seq, i, m)[j] = IF j < i THEN seq[j]
                                          ELSE IF j = i THEN m ELSE seq[j - 1]
<1> DEFINE before == SubSeq(seq, 1, i - 1)
           behind == SubSeq(seq, i, Len(seq))
<1>1. /\ before \in Seq(S) /\ Len(before) = i - 1
      /\ \A j \in 1..(i - 1) : before[j] = seq[j]
  OBVIOUS
<1>2. behind \in Seq(S) /\ Len(behind) = Len(seq) - i + 1
  OBVIOUS
<1>3. \A j \in 1..(Len(seq) - i + 1) : behind[j] = seq[i + j - 1]
  OBVIOUS
<1>4. InsertAt(seq, i, m) = before \o <<m>> \o behind
  BY DEF InsertAt
<1>5. <<m>> \in Seq(S) /\ Len(<<m>>) = 1 /\ <<m>>[1] = m
  OBVIOUS
<1> HIDE DEF before, behind
<1>6. /\ before \o <<m>> \in Seq(S) /\ Len(before \o <<m>>) = i
      /\ \A j \in 1..i : (before \o <<m>>)[j] = IF j < i THEN before[j] ELSE m
  BY <1>1, <1>5
<1> DEFINE front == before \o <<m>>
<1>7. /\ front \in Seq(S) /\ Len(front) = i
      /\ \A j \in 1..i : front[j] = IF j < i THEN before[j] ELSE m
  BY <1>6
<1> HIDE DEF front
<1>8. /\ front \o behind \in Seq(S) /\ Len(front \o behind) = Len(seq) + 1
      /\ \A j \in 1..(Len(seq) + 1) :
            (front \o behind)[j] = IF j <= i THEN front[j] ELSE behind[j - i]
  BY <1>2, <1>7
<1>9. InsertAt(seq, i, m) = front \o behind
  BY <1>4 DEF front
<1>10. ASSUME NEW j \in 1..(Len(seq) + 1)
       PROVE  (front \o behind)[j] = IF j < i THEN seq[j]
                                     ELSE IF j = i THEN m ELSE seq[j - 1]
  <2>1. CASE j < i
    <3>1. j \in 1..i /\ j \in 1..(i - 1) /\ j <= i
      BY <2>1
    <3>2. front[j] = seq[j]
      BY <1>1, <1>7, <2>1, <3>1
    <3>3. QED
      BY <1>8, <2>1, <3>1, <3>2
  <2>2. CASE j = i
    <3>1. j \in 1..i /\ j <= i
      BY <2>2
    <3>2. front[j] = m
      BY <1>7, <2>2, <3>1
    <3>3. QED
      BY <1>8, <2>2, <3>1, <3>2
  <2>3. CASE j > i
    <3>1. j - i \in 1..(Len(seq) - i + 1) /\ i + (j - i) - 1 = j - 1
      BY <2>3
    <3>2. behind[j - i] = seq[j - 1]
      BY <1>3, <3>1
    <3>3. QED
      BY <1>8, <2>3, <3>2
  <2>4. j < i \/ j = i \/ j > i
    OBVIOUS
  <2>5. QED
    BY <2>1, <2>2, <2>3, <2>4, Zenon
<1>11. QED
  BY <1>8, <1>9, <1>10

\* Put into a list it is not in, a member is there once and the others stay.
LEMMA InsertedOnce ==
    ASSUME NEW S, NEW seq \in Seq(S), NEW i \in 1..(Len(seq) + 1), NEW m \in S,
           m \notin ToSet(seq), IsInjective(seq)
    PROVE  /\ InsertAt(seq, i, m) \in Seq(S)
           /\ ToSet(InsertAt(seq, i, m)) = ToSet(seq) \cup {m}
           /\ IsInjective(InsertAt(seq, i, m))
<1>0. /\ InsertAt(seq, i, m) \in Seq(S)
      /\ Len(InsertAt(seq, i, m)) = Len(seq) + 1
      /\ \A j \in 1..(Len(seq) + 1) :
            InsertAt(seq, i, m)[j] = IF j < i THEN seq[j]
                                     ELSE IF j = i THEN m ELSE seq[j - 1]
  BY InsertAtFacts
<1> DEFINE new == InsertAt(seq, i, m)
           n == Len(seq)
<1>1. /\ new \in Seq(S) /\ Len(new) = n + 1 /\ n \in Nat
      /\ \A j \in 1..(n + 1) : new[j] = IF j < i THEN seq[j]
                                        ELSE IF j = i THEN m ELSE seq[j - 1]
  <2>1. /\ new \in Seq(S) /\ Len(new) = n + 1
        /\ \A j \in 1..(n + 1) : new[j] = IF j < i THEN seq[j]
                                          ELSE IF j = i THEN m ELSE seq[j - 1]
    BY <1>0
  <2>2. n \in Nat
    OBVIOUS
  <2>3. QED
    BY <2>1, <2>2, Zenon
<1>2. \A j \in 1..n : seq[j] \in ToSet(seq) /\ seq[j] # m
  BY SetOfList
<1>3. \A j, k \in 1..n : seq[j] = seq[k] => j = k
  BY DEF IsInjective
<1>4. \A x : x \in ToSet(seq) <=> \E j \in 1..n : seq[j] = x
  BY SetOfList
<1> HIDE DEF new
<1>5. \A x : x \in ToSet(new) <=> \E j \in 1..(n + 1) : new[j] = x
  BY <1>1, SetOfList
<1> HIDE DEF n
<1>6. i \in 1..(n + 1)
  BY DEF n
<1>7. ASSUME NEW j \in 1..(n + 1)
      PROVE  new[j] \in ToSet(seq) \cup {m}
  <2>1. CASE j < i
    BY <1>1, <1>2, <1>6, <2>1
  <2>2. CASE j = i
    BY <1>1, <2>2
  <2>3. CASE j > i
    <3>1. j - 1 \in 1..n
      BY <1>1, <1>6, <2>3
    <3>2. QED
      BY <1>1, <1>2, <1>6, <2>3, <3>1
  <2>4. QED
    BY <1>6, <2>1, <2>2, <2>3
<1>8. ASSUME NEW j \in 1..n
      PROVE  \E k \in 1..(n + 1) : new[k] = seq[j]
  <2>1. CASE j < i
    <3>1. j \in 1..(n + 1) /\ new[j] = seq[j]
      BY <1>1, <1>6, <2>1
    <3>2. QED
      BY <3>1, Zenon
  <2>2. CASE j >= i
    <3>1. j + 1 \in 1..(n + 1) /\ (j + 1) - 1 = j /\ j + 1 > i
      BY <1>1, <1>6, <2>2
    <3>2. new[j + 1] = seq[j]
      BY <1>1, <1>6, <3>1
    <3>3. QED
      BY <3>1, <3>2, Zenon
  <2>3. QED
    BY <1>6, <2>1, <2>2
<1>9. ToSet(new) = ToSet(seq) \cup {m}
  <2>1. m \in ToSet(new)
    BY <1>1, <1>5, <1>6
  <2>2. \A x \in ToSet(seq) : x \in ToSet(new)
    BY <1>4, <1>5, <1>8
  <2>3. \A x \in ToSet(new) : x \in ToSet(seq) \cup {m}
    BY <1>5, <1>7
  <2>4. QED
    BY <2>1, <2>2, <2>3
<1>10. ASSUME NEW j \in 1..(n + 1), NEW k \in 1..(n + 1), j < k
       PROVE  new[j] # new[k]
  <2>1. CASE j < i /\ k < i
    BY <1>1, <1>3, <1>6, <1>10, <2>1
  <2>2. CASE j < i /\ k = i
    BY <1>1, <1>2, <1>6, <2>2
  <2>3. CASE j < i /\ k > i
    <3>1. k - 1 \in 1..n /\ j \in 1..n /\ j # k - 1
      BY <1>1, <1>6, <2>3
    <3>2. new[j] = seq[j] /\ new[k] = seq[k - 1]
      BY <1>1, <1>6, <2>3
    <3>3. QED
      BY <1>3, <3>1, <3>2
  <2>4. CASE j = i
    <3>1. k - 1 \in 1..n
      BY <1>1, <1>6, <1>10, <2>4
    <3>2. new[j] = m /\ new[k] = seq[k - 1]
      BY <1>1, <1>6, <1>10, <2>4
    <3>3. QED
      BY <1>2, <3>1, <3>2
  <2>5. CASE j > i
    <3>1. k - 1 \in 1..n /\ j - 1 \in 1..n /\ j - 1 # k - 1
      BY <1>1, <1>6, <1>10, <2>5
    <3>2. new[j] = seq[j - 1] /\ new[k] = seq[k - 1]
      BY <1>1, <1>6, <1>10, <2>5
    <3>3. QED
      BY <1>3, <3>1, <3>2
  <2>6. QED
    BY <1>1, <1>6, <1>10, <2>1, <2>2, <2>3, <2>4, <2>5
<1>11. IsInjective(new)
  <2>1. DOMAIN new = 1..(n + 1)
    BY <1>1
  <2>2. \A j, k \in 1..(n + 1) : new[j] = new[k] => j = k
    BY <1>1, <1>10
  <2>3. QED
    BY <2>1, <2>2 DEF IsInjective
<1>12. QED
  BY <1>1, <1>9, <1>11 DEF new

\* A new thread is put first.
LEMMA FirstFacts ==
    ASSUME NEW S, NEW seq \in Seq(S), NEW m \in S
    PROVE  ThreadFirst(seq, m) = InsertAt(seq, 1, m)
<1>1. InsertAt(seq, 1, m) = SubSeq(seq, 1, 0) \o <<m>> \o SubSeq(seq, 1, Len(seq))
  BY DEF InsertAt
<1>2. SubSeq(seq, 1, 0) = << >> /\ SubSeq(seq, 1, Len(seq)) = seq
  OBVIOUS
<1>3. << >> \o <<m>> = <<m>>
  OBVIOUS
<1>4. QED
  BY <1>1, <1>2, <1>3 DEF ThreadFirst

\* Cut out of a list in which it is once, a member is gone.
LEMMA WithoutFacts ==
    ASSUME NEW S, NEW seq \in Seq(S), NEW m \in ToSet(seq), IsInjective(seq)
    PROVE  /\ WithoutMessage(seq, m) \in Seq(S)
           /\ ToSet(WithoutMessage(seq, m)) = ToSet(seq) \ {m}
           /\ IsInjective(WithoutMessage(seq, m))
<1> DEFINE i == Pos(seq, m)
           new == RemoveAt(seq, i)
           n == Len(seq)
<1>1. i \in 1..n /\ seq[i] = m /\ n \in Nat
  BY PosFacts
<1>2. /\ new \in Seq(S) /\ Len(new) = n - 1
      /\ \A j \in 1..(n - 1) : new[j] = IF j < i THEN seq[j] ELSE seq[j + 1]
  BY <1>1, RemoveAtFacts
<1>3. \A j, k \in 1..n : seq[j] = seq[k] => j = k
  BY DEF IsInjective
<1>4. \A x : x \in ToSet(seq) <=> \E j \in 1..n : seq[j] = x
  BY SetOfList
<1> HIDE DEF new
<1>5. \A x : x \in ToSet(new) <=> \E j \in 1..(n - 1) : new[j] = x
  BY <1>2, SetOfList
<1> HIDE DEF n, i
<1>6. ASSUME NEW j \in 1..(n - 1)
      PROVE  new[j] \in ToSet(seq) \ {m}
  <2>1. CASE j < i
    <3>1. j \in 1..n /\ j # i /\ new[j] = seq[j]
      BY <1>1, <1>2, <2>1
    <3>2. QED
      BY <1>1, <1>3, <1>4, <3>1
  <2>2. CASE j >= i
    <3>1. j + 1 \in 1..n /\ j + 1 # i /\ new[j] = seq[j + 1]
      BY <1>1, <1>2, <2>2
    <3>2. QED
      BY <1>1, <1>3, <1>4, <3>1
  <2>3. QED
    BY <1>1, <2>1, <2>2
<1>7. ASSUME NEW j \in 1..n, seq[j] # m
      PROVE  \E k \in 1..(n - 1) : new[k] = seq[j]
  <2>1. CASE j < i
    BY <1>1, <1>2, <2>1
  <2>2. CASE j > i
    <3>1. j - 1 \in 1..(n - 1) /\ (j - 1) + 1 = j /\ ~(j - 1 < i)
      BY <1>1, <2>2
    <3>2. QED
      BY <1>2, <3>1
  <2>3. QED
    BY <1>1, <1>7, <2>1, <2>2
<1>8. ToSet(new) = ToSet(seq) \ {m}
  <2>1. \A x \in ToSet(seq) \ {m} : x \in ToSet(new)
    BY <1>4, <1>5, <1>7
  <2>2. \A x \in ToSet(new) : x \in ToSet(seq) \ {m}
    BY <1>5, <1>6
  <2>3. QED
    BY <2>1, <2>2
<1>9. ASSUME NEW j \in 1..(n - 1), NEW k \in 1..(n - 1), j < k
      PROVE  new[j] # new[k]
  <2>1. PICK x \in 1..n : new[j] = seq[x] /\ x = IF j < i THEN j ELSE j + 1
    BY <1>1, <1>2
  <2>2. PICK y \in 1..n : new[k] = seq[y] /\ y = IF k < i THEN k ELSE k + 1
    BY <1>1, <1>2
  <2>3. x # y
    BY <1>1, <1>9, <2>1, <2>2
  <2>4. QED
    BY <1>3, <2>1, <2>2, <2>3
<1>10. IsInjective(new)
  <2>1. DOMAIN new = 1..(n - 1)
    BY <1>2
  <2>2. \A j, k \in 1..(n - 1) : new[j] = new[k] => j = k
    BY <1>1, <1>9
  <2>3. QED
    BY <2>1, <2>2 DEF IsInjective
<1>11. WithoutMessage(seq, m) = new
  BY DEF WithoutMessage, new, i
<1>12. QED
  BY <1>2, <1>8, <1>10, <1>11

\* The messages selected with a root are shown, each once, and the root is there.
LEMMA WalkFacts ==
    ASSUME NEW S, NEW seq \in Seq(S), NEW level, NEW root \in ToSet(seq),
           IsInjective(seq)
    PROVE  /\ Walk(seq, level, root) \in Seq(S)
           /\ Len(Walk(seq, level, root)) > 0
           /\ \A i \in 1..Len(Walk(seq, level, root)) :
                 Walk(seq, level, root)[i] \in ToSet(seq)
           /\ IsInjective(Walk(seq, level, root))
<1> DEFINE from == Pos(seq, root)
           stop == {i \in (from + 1)..Len(seq) : level[seq[i]] <= level[root]}
           last == IF stop = {} THEN Len(seq) ELSE Min(stop) - 1
<1>1. from \in 1..Len(seq) /\ Len(seq) \in Nat
  BY PosFacts
<1>2. stop \in SUBSET (1..Len(seq))
  BY <1>1
<1>3. stop # {} => Min(stop) \in stop
  BY <1>1, <1>2, SearchFacts
<1>4. last \in from..Len(seq)
  BY <1>1, <1>3
<1> HIDE DEF last, stop
<1>5. Walk(seq, level, root) = SubSeq(seq, from, last)
  BY DEF Walk, last, stop
<1> HIDE DEF from
<1>6. /\ SubSeq(seq, from, last) \in Seq(S)
      /\ Len(SubSeq(seq, from, last)) = last - from + 1
      /\ \A i \in 1..(last - from + 1) : SubSeq(seq, from, last)[i] = seq[from + i - 1]
  <2>1. \A i \in from..last : seq[i] \in S
    BY <1>1, <1>4
  <2>2. QED
    BY <1>1, <1>4, <2>1
<1> DEFINE w == SubSeq(seq, from, last)
           n == last - from + 1
<1>7. /\ w \in Seq(S) /\ Len(w) = n /\ n \in Nat /\ n > 0
      /\ \A i \in 1..n : w[i] = seq[from + i - 1]
  BY <1>1, <1>4, <1>6
<1>8. \A i \in 1..n : from + i - 1 \in 1..Len(seq)
  BY <1>1, <1>4
<1> HIDE DEF w, n
<1>9. \A i \in 1..n : w[i] \in ToSet(seq)
  <2>1. \A k \in 1..Len(seq) : seq[k] \in ToSet(seq)
    BY SetOfList
  <2>2. QED
    BY <1>7, <1>8, <2>1
<1>10. \A j, k \in 1..Len(seq) : seq[j] = seq[k] => j = k
  BY DEF IsInjective
<1>11. ASSUME NEW i \in 1..n, NEW k \in 1..n, w[i] = w[k] PROVE i = k
  <2>1. from + i - 1 = from + k - 1
    BY <1>7, <1>8, <1>10, <1>11
  <2>2. QED
    BY <1>1, <1>7, <2>1
<1>12. IsInjective(w)
  <2>1. DOMAIN w = 1..n
    BY <1>7
  <2>2. QED
    BY <1>11, <2>1 DEF IsInjective
<1>13. Walk(seq, level, root) = w
  BY <1>5 DEF w
<1>14. QED
  BY <1>7, <1>9, <1>12, <1>13

Span(b) == b.index..(b.index + b.size - 1)

-----------------------------------------------------------------------------
(* The forest: what stands above what in display order.                    *)

\* a stands above b.
Before(o, a, b) == \E i, j \in 1..Len(o) : i < j /\ o[i] = a /\ o[j] = b

\* A list without repetitions puts what is on it in an order.
LEMMA BeforeFacts ==
    ASSUME NEW S, NEW o \in Seq(S), IsInjective(o)
    PROVE  /\ \A a, b : Before(o, a, b) => a \in ToSet(o) /\ b \in ToSet(o)
           /\ \A a : ~Before(o, a, a)
           /\ \A a, b, c : Before(o, a, b) /\ Before(o, b, c) => Before(o, a, c)
           /\ \A a, b \in ToSet(o) : a = b \/ Before(o, a, b) \/ Before(o, b, a)
           /\ \A i, j \in 1..Len(o) : Before(o, o[i], o[j]) <=> i < j
<1>1. \A i, j \in 1..Len(o) : o[i] = o[j] => i = j
  BY DEF IsInjective
<1>2. Len(o) \in Nat
  OBVIOUS
<1>3. \A a, b : Before(o, a, b) => a \in ToSet(o) /\ b \in ToSet(o)
  BY SetOfList DEF Before
<1>4. \A a : ~Before(o, a, a)
  BY <1>1, <1>2 DEF Before
<1>5. \A a, b, c : Before(o, a, b) /\ Before(o, b, c) => Before(o, a, c)
  BY <1>1, <1>2 DEF Before
<1>6. ASSUME NEW a \in ToSet(o), NEW b \in ToSet(o), a # b
      PROVE  Before(o, a, b) \/ Before(o, b, a)
  <2>1. PICK i, j \in 1..Len(o) : o[i] = a /\ o[j] = b
    BY SetOfList
  <2>2. i < j \/ j < i
    BY <1>2, <1>6, <2>1
  <2>3. QED
    BY <2>1, <2>2 DEF Before
<1>7. \A i, j \in 1..Len(o) : Before(o, o[i], o[j]) <=> i < j
  BY <1>1 DEF Before
<1>8. QED
  BY <1>3, <1>4, <1>5, <1>6, <1>7

\* Something new is put in at place i: it stands below what was before that
\* place and above what was not.
LEMMA BeforeInserted ==
    ASSUME NEW S, NEW o \in Seq(S), IsInjective(o), NEW i \in 1..(Len(o) + 1),
           NEW m \in S, m \notin ToSet(o), NEW now, now = InsertAt(o, i, m)
    PROVE  /\ \A a, b \in ToSet(o) : Before(now, a, b) <=> Before(o, a, b)
           /\ \A j \in 1..Len(o) : /\ Before(now, o[j], m) <=> j < i
                                   /\ Before(now, m, o[j]) <=> j >= i
<1>1. /\ now \in Seq(S) /\ Len(now) = Len(o) + 1
      /\ \A j \in 1..(Len(o) + 1) :
            now[j] = IF j < i THEN o[j] ELSE IF j = i THEN m ELSE o[j - 1]
  <2>1. /\ InsertAt(o, i, m) \in Seq(S)
        /\ Len(InsertAt(o, i, m)) = Len(o) + 1
        /\ \A j \in 1..(Len(o) + 1) :
              InsertAt(o, i, m)[j] = IF j < i THEN o[j] ELSE IF j = i THEN m ELSE o[j - 1]
    BY ONLY SMTT(90), InsertAtFacts, o \in Seq(S), i \in 1..(Len(o) + 1), m \in S
  <2>2. QED
    BY <2>1, Zenon
<1>2. IsInjective(now)
  BY InsertedOnce
<1>3. Len(o) \in Nat
  OBVIOUS
<1> DEFINE to(j) == IF j < i THEN j ELSE j + 1
<1>4. \A j \in 1..Len(o) : to(j) \in 1..Len(now) /\ now[to(j)] = o[j]
  BY <1>1, <1>3
<1>5. i \in 1..Len(now) /\ now[i] = m
  BY <1>1, <1>3
<1>6. \A j, k \in 1..Len(now) : Before(now, now[j], now[k]) <=> j < k
  BY <1>1, <1>2, BeforeFacts
<1>7. \A j, k \in 1..Len(o) : Before(o, o[j], o[k]) <=> j < k
  BY BeforeFacts
<1>8. \A j, k \in 1..Len(o) : (to(j) < to(k) <=> j < k)
  BY <1>3
<1>9. \A j \in 1..Len(o) : (to(j) < i <=> j < i) /\ (i < to(j) <=> j >= i)
  BY <1>3
<1> HIDE DEF to
<1>10. \A a, b \in ToSet(o) : Before(now, a, b) <=> Before(o, a, b)
  <2>1. \A a \in ToSet(o) : \E j \in 1..Len(o) : o[j] = a
    BY SetOfList
  <2>2. \A j, k \in 1..Len(o) : Before(now, o[j], o[k]) <=> Before(o, o[j], o[k])
    BY <1>4, <1>6, <1>7, <1>8
  <2>3. QED
    BY <2>1, <2>2
<1>11. QED
  BY <1>4, <1>5, <1>6, <1>9, <1>10

\* A reply stands right below the message it answers.
LEMMA BeforeReply ==
    ASSUME NEW S, NEW o \in Seq(S), IsInjective(o), NEW at \in ToSet(o),
           NEW m \in S, m \notin ToSet(o), NEW now, now = ReplyAfter(o, at, m)
    PROVE  /\ \A a, b \in ToSet(o) : Before(now, a, b) <=> Before(o, a, b)
           /\ \A a \in ToSet(o) : /\ Before(now, a, m) <=> a = at \/ Before(o, a, at)
                                  /\ Before(now, m, a) <=> Before(o, at, a)
<1> DEFINE k == Pos(o, at)
<1>1. k \in 1..Len(o) /\ o[k] = at /\ Len(o) \in Nat
  BY PosFacts
<1>2. now = InsertAt(o, k + 1, m)
  BY DEF ReplyAfter
<1> HIDE DEF k
<1>3. k + 1 \in 1..(Len(o) + 1)
  BY <1>1
<1>4. /\ \A a, b \in ToSet(o) : Before(now, a, b) <=> Before(o, a, b)
      /\ \A j \in 1..Len(o) : /\ Before(now, o[j], m) <=> j < k + 1
                              /\ Before(now, m, o[j]) <=> j >= k + 1
  BY <1>2, <1>3, BeforeInserted
<1>5. \A j \in 1..Len(o) : /\ Before(o, o[j], at) <=> j < k
                           /\ Before(o, at, o[j]) <=> k < j
                           /\ o[j] = at <=> j = k
  <2>1. \A i, j \in 1..Len(o) : Before(o, o[i], o[j]) <=> i < j
    BY BeforeFacts
  <2>2. \A i, j \in 1..Len(o) : o[i] = o[j] => i = j
    BY DEF IsInjective
  <2>3. QED
    BY <1>1, <2>1, <2>2
<1>6. ASSUME NEW a \in ToSet(o)
      PROVE  /\ Before(now, a, m) <=> a = at \/ Before(o, a, at)
             /\ Before(now, m, a) <=> Before(o, at, a)
  <2>1. PICK j \in 1..Len(o) : o[j] = a
    BY SetOfList
  <2>2. (j < k + 1 <=> j = k \/ j < k) /\ (j >= k + 1 <=> k < j)
    BY <1>1
  <2>3. QED
    BY <1>4, <1>5, <2>1, <2>2
<1>7. QED
  BY <1>4, <1>6

\* A new thread stands above everything.
LEMMA BeforeThread ==
    ASSUME NEW S, NEW o \in Seq(S), IsInjective(o),
           NEW m \in S, m \notin ToSet(o), NEW now, now = ThreadFirst(o, m)
    PROVE  /\ \A a, b \in ToSet(o) : Before(now, a, b) <=> Before(o, a, b)
           /\ \A a \in ToSet(o) : Before(now, m, a) /\ ~Before(now, a, m)
<1>1. now = InsertAt(o, 1, m) /\ 1 \in 1..(Len(o) + 1)
  BY FirstFacts
<1>2. /\ \A a, b \in ToSet(o) : Before(now, a, b) <=> Before(o, a, b)
      /\ \A j \in 1..Len(o) : /\ Before(now, o[j], m) <=> j < 1
                              /\ Before(now, m, o[j]) <=> j >= 1
  BY <1>1, BeforeInserted
<1>3. \A a \in ToSet(o) : \E j \in 1..Len(o) : o[j] = a
  BY SetOfList
<1>4. QED
  BY <1>2, <1>3

\* Cutting a message out leaves the others in their order.
LEMMA BeforeCut ==
    ASSUME NEW S, NEW o \in Seq(S), IsInjective(o), NEW m \in ToSet(o),
           NEW now, now = WithoutMessage(o, m)
    PROVE  \A a, b \in ToSet(o) \ {m} : Before(now, a, b) <=> Before(o, a, b)
<1> DEFINE k == Pos(o, m)
<1>1. k \in 1..Len(o) /\ o[k] = m /\ Len(o) \in Nat
  BY PosFacts
<1>2. now = RemoveAt(o, k)
  BY DEF WithoutMessage
<1> HIDE DEF k
<1>3. /\ now \in Seq(S) /\ Len(now) = Len(o) - 1
      /\ \A j \in 1..(Len(o) - 1) : now[j] = IF j < k THEN o[j] ELSE o[j + 1]
  BY <1>1, <1>2, RemoveAtFacts
<1>4. IsInjective(now)
  BY WithoutFacts
<1> DEFINE to(j) == IF j < k THEN j ELSE j - 1
<1>5. \A j \in (1..Len(o)) \ {k} : to(j) \in 1..Len(now) /\ now[to(j)] = o[j]
  BY <1>1, <1>3
<1>6. \A i, j \in (1..Len(o)) \ {k} : (to(i) < to(j) <=> i < j)
  BY <1>1
<1> HIDE DEF to
<1>7. \A i, j \in 1..Len(now) : Before(now, now[i], now[j]) <=> i < j
  BY <1>3, <1>4, BeforeFacts
<1>8. \A i, j \in 1..Len(o) : Before(o, o[i], o[j]) <=> i < j
  BY BeforeFacts
<1>9. \A a \in ToSet(o) \ {m} : \E j \in (1..Len(o)) \ {k} : o[j] = a
  <2>1. \A a \in ToSet(o) : \E j \in 1..Len(o) : o[j] = a
    BY SetOfList
  <2>2. QED
    BY <1>1, <2>1
<1>10. \A i, j \in (1..Len(o)) \ {k} : Before(now, o[i], o[j]) <=> Before(o, o[i], o[j])
  BY <1>5, <1>6, <1>7, <1>8
<1>11. QED
  BY <1>9, <1>10

\* What a walk collects: the root, and below it, without a gap, what is deeper.
LEMMA WalkShape ==
    ASSUME NEW S, NEW o \in Seq(S), IsInjective(o), NEW r \in ToSet(o), NEW level,
           \A a \in ToSet(o) : level[a] \in Nat,
           NEW W, W = ToSet(Walk(o, level, r))
    PROVE  /\ r \in W /\ W \subseteq ToSet(o)
           /\ \A a \in W \ {r} : Before(o, r, a) /\ level[a] > level[r]
           /\ \A a \in W : \A b : Before(o, r, b) /\ Before(o, b, a) => b \in W
           /\ \A a \in ToSet(o) \ W : Before(o, r, a) =>
                 \E b \in ToSet(o) \ W : /\ Before(o, r, b) /\ level[b] <= level[r]
                                         /\ b = a \/ Before(o, b, a)
<1> DEFINE from == Pos(o, r)
           stop == {i \in (from + 1)..Len(o) : level[o[i]] <= level[r]}
           last == IF stop = {} THEN Len(o) ELSE Min(stop) - 1
<1>1. from \in 1..Len(o) /\ Len(o) \in Nat /\ o[from] = r
  BY PosFacts
<1>2. stop \in SUBSET (1..Len(o))
  BY <1>1
<1>3. stop # {} => Min(stop) \in stop /\ \A i \in stop : Min(stop) <= i
  <2>1. ASSUME stop # {} PROVE \E x \in stop : \A y \in stop : x <= y
    <3>1. stop \in SUBSET Nat
      BY <1>1
    <3> HIDE DEF stop
    <3>2. QED
      BY <2>1, <3>1, HasLeast
  <2> HIDE DEF stop
  <2>2. QED
    BY <2>1 DEF Min
<1>4. last \in from..Len(o)
  BY <1>1, <1>3
<1>5. \A i : i \in stop <=> i \in (from + 1)..Len(o) /\ level[o[i]] <= level[r]
  OBVIOUS
<1>6. last = IF stop = {} THEN Len(o) ELSE Min(stop) - 1
  OBVIOUS
<1> HIDE DEF last, stop
<1>7. \A i \in 1..Len(o) : o[i] \in ToSet(o) /\ level[o[i]] \in Nat
  BY SetOfList
<1>8. \A i \in (from + 1)..last : level[o[i]] > level[r]
  <2>1. SUFFICES ASSUME NEW i \in (from + 1)..last, i \in stop PROVE FALSE
    <3>1. \A i \in (from + 1)..last : i \in 1..Len(o)
      BY <1>1, <1>4
    <3>2. \A i \in (from + 1)..last : i \notin stop => ~(level[o[i]] <= level[r])
      BY <1>1, <1>4, <1>5
    <3>3. QED
      BY <1>1, <1>7, <3>1, <3>2
  <2>2. stop # {} /\ Min(stop) <= i /\ last = Min(stop) - 1 /\ Min(stop) \in 1..Len(o)
    BY <1>2, <1>3, <1>6, <2>1
  <2>3. QED
    BY <1>1, <1>4, <2>1, <2>2
<1>9. last < Len(o) => level[o[last + 1]] <= level[r]
  <2>1. SUFFICES ASSUME last < Len(o) PROVE level[o[last + 1]] <= level[r]
    OBVIOUS
  <2>2. stop # {} /\ last = Min(stop) - 1 /\ Min(stop) \in stop
    BY <1>1, <1>3, <1>6, <2>1
  <2>3. Min(stop) \in 1..Len(o)
    BY <1>2, <2>2, Zenon
  <2>4. last + 1 = Min(stop)
    BY <1>1, <2>2, <2>3
  <2>5. QED
    BY <1>5, <2>2, <2>4
<1>10. Walk(o, level, r) = SubSeq(o, from, last)
  BY DEF Walk, last, stop
<1> HIDE DEF from
<1>11. /\ SubSeq(o, from, last) \in Seq(S)
      /\ Len(SubSeq(o, from, last)) = last - from + 1
      /\ \A i \in 1..(last - from + 1) : SubSeq(o, from, last)[i] = o[from + i - 1]
  <2>1. \A i \in from..last : o[i] \in S
    BY <1>1, <1>4
  <2>2. QED
    BY <1>1, <1>4, <2>1
<1>12. \A a : a \in W <=> \E i \in from..last : o[i] = a
  <2>1. \A a : a \in W <=> \E i \in 1..(last - from + 1) : SubSeq(o, from, last)[i] = a
    BY ZenonT(40), <1>10, <1>11, SetOfList
  <2>2. \A i \in from..last : i - from + 1 \in 1..(last - from + 1) /\ from + (i - from + 1) - 1 = i
    BY <1>1, <1>4
  <2>3. \A i \in 1..(last - from + 1) : from + i - 1 \in from..last
    BY <1>1, <1>4
  <2>4. ASSUME NEW i \in from..last PROVE o[i] \in W
    <3>1. SubSeq(o, from, last)[i - from + 1] = o[i]
      BY <1>11, <2>2
    <3>2. QED
      BY <2>1, <2>2, <3>1
  <2>5. ASSUME NEW a \in W PROVE \E i \in from..last : o[i] = a
    BY <1>11, <2>1, <2>3
  <2>6. QED
    BY <2>4, <2>5
<1>13. \A i, j \in 1..Len(o) : Before(o, o[i], o[j]) <=> i < j
  BY BeforeFacts
<1>14. \A i, j \in 1..Len(o) : o[i] = o[j] => i = j
  BY DEF IsInjective
<1>15. \A i \in 1..Len(o) : o[i] \in W <=> from <= i /\ i <= last
  BY <1>1, <1>4, <1>12, <1>14
<1>16. /\ \A a \in ToSet(o) : \E i \in 1..Len(o) : o[i] = a
       /\ \A i \in 1..Len(o) : o[i] \in ToSet(o)
  BY SetOfList
<1>17. r \in W /\ W \subseteq ToSet(o)
  BY <1>1, <1>4, <1>12, <1>16
<1>18. \A a \in W \ {r} : Before(o, r, a) /\ level[a] > level[r]
  <2>1. SUFFICES ASSUME NEW a \in W \ {r} PROVE Before(o, r, a) /\ level[a] > level[r]
    OBVIOUS
  <2>2. PICK i \in from..last : o[i] = a
    BY <1>12
  <2>3. i # from /\ i \in 1..Len(o)
    BY <1>1, <1>4, <2>1, <2>2
  <2>4. i \in (from + 1)..last /\ from < i
    BY <1>1, <1>4, <2>3
  <2>5. QED
    BY <1>1, <1>8, <1>13, <2>2, <2>3, <2>4
<1>19. \A a \in W : \A b : Before(o, r, b) /\ Before(o, b, a) => b \in W
  <2>1. SUFFICES ASSUME NEW a \in W, NEW b, Before(o, r, b), Before(o, b, a) PROVE b \in W
    OBVIOUS
  <2>2. PICK i \in from..last : o[i] = a
    BY <1>12
  <2>3. PICK k \in 1..Len(o) : o[k] = b
    BY <1>16, <2>1, BeforeFacts
  <2>4. i \in 1..Len(o) /\ from < k /\ k < i
    BY <1>1, <1>4, <1>13, <2>1, <2>2, <2>3
  <2>5. QED
    BY <1>1, <1>4, <1>15, <2>3, <2>4
<1>20. ASSUME NEW a \in ToSet(o) \ W, Before(o, r, a)
       PROVE  \E b \in ToSet(o) \ W : /\ Before(o, r, b) /\ level[b] <= level[r]
                                      /\ b = a \/ Before(o, b, a)
  <2>1. PICK i \in 1..Len(o) : o[i] = a
    BY <1>16
  <2>2. from < i /\ last < i
    BY <1>1, <1>4, <1>13, <1>15, <1>20, <2>1
  <2>3. /\ last + 1 \in 1..Len(o) /\ from < last + 1 /\ last < Len(o)
        /\ last + 1 = i \/ last + 1 < i
    BY <1>1, <1>4, <2>2
  <2>4. o[last + 1] \in ToSet(o) \ W
    <3>1. ~(last + 1 <= last)
      BY <1>1, <1>4
    <3>2. QED
      BY <1>15, <1>16, <2>3, <3>1
  <2>5. Before(o, r, o[last + 1]) /\ (o[last + 1] = a \/ Before(o, o[last + 1], a))
    BY <1>1, <1>13, <2>1, <2>3
  <2>6. QED
    BY <1>9, <2>3, <2>4, <2>5
<1>21. QED
  BY <1>17, <1>18, <1>19, <1>20

\* The messages of X stand in a forest.  One that is no head is at most one level
\* below the message of X just above it, and names the head of its thread: the
\* last one of level 0 above it.
Rooted(o, h, X, a) ==
    LET head == h[a].thread
    IN  /\ head \in X /\ Before(o, head, a) /\ h[head].level = 0
        /\ \A c \in X : Before(o, head, c) /\ Before(o, c, a) => h[c].level > 0
RightBelow(o, h, X, a) ==
    \E b \in X : /\ Before(o, b, a) /\ h[a].level <= h[b].level + 1
                 /\ \A c \in X : ~(Before(o, b, c) /\ Before(o, c, a))
Forest(o, h, X) ==
    \A a \in X : /\ h[a].level = 0 => h[a].thread = 0
                 /\ h[a].level > 0 => RightBelow(o, h, X, a) /\ Rooted(o, h, X, a)

\* Only the order, the levels and the threads' heads matter.
LEMMA SameForest ==
    ASSUME NEW o, NEW h, NEW X, Forest(o, h, X), NEW now, NEW then,
           \A a, b \in X : Before(now, a, b) <=> Before(o, a, b),
           \A a \in X : then[a].level = h[a].level /\ then[a].thread = h[a].thread
    PROVE  Forest(now, then, X)
<1>1. ASSUME NEW a \in X, RightBelow(o, h, X, a) PROVE RightBelow(now, then, X, a)
  <2>1. PICK b \in X : /\ Before(o, b, a) /\ h[a].level <= h[b].level + 1
                       /\ \A c \in X : ~(Before(o, b, c) /\ Before(o, c, a))
    BY <1>1 DEF RightBelow
  <2>2. QED
    BY <2>1 DEF RightBelow
<1>2. ASSUME NEW a \in X, Rooted(o, h, X, a) PROVE Rooted(now, then, X, a)
  BY <1>2 DEF Rooted
<1>3. QED
  BY <1>1, <1>2 DEF Forest

\* A reply m is shown right below the message it answers.
LEMMA ForestReply ==
    ASSUME NEW o, NEW h, NEW X, Forest(o, h, X), NEW at \in X, NEW m, m \notin X,
           \A a \in X \cup {m} : h[a].level \in Nat,
           \A a : ~Before(o, a, a),
           \A a, b, c : Before(o, a, b) /\ Before(o, b, c) => Before(o, a, c),
           NEW now, ~Before(now, m, m),
           \A a, b \in X : Before(now, a, b) <=> Before(o, a, b),
           \A a \in X : /\ Before(now, a, m) <=> a = at \/ Before(o, a, at)
                        /\ Before(now, m, a) <=> Before(o, at, a),
           h[m].level = h[at].level + 1, h[m].thread = IF h[at].level > 0 THEN h[at].thread ELSE at
    PROVE  Forest(now, h, X \cup {m})
<1> DEFINE Y == X \cup {m}
<1>1. RightBelow(now, h, Y, m)
  <2>1. Before(now, at, m) /\ h[m].level <= h[at].level + 1 /\ at \in Y
    OBVIOUS
  <2>2. \A c \in Y : ~(Before(now, at, c) /\ Before(now, c, m))
    OBVIOUS
  <2>3. QED
    BY <2>1, <2>2 DEF RightBelow
<1>2. Rooted(now, h, Y, m)
  <2>1. CASE h[at].level = 0
    <3>1. h[m].thread = at
      BY <2>1
    <3>2. QED
      BY <2>1, <3>1 DEF Rooted
  <2>2. CASE h[at].level > 0
    <3>1. h[m].thread = h[at].thread
      BY <2>2
    <3>2. Rooted(o, h, X, at)
      BY <2>2 DEF Forest
    <3> DEFINE head == h[at].thread
    <3>3. /\ head \in X /\ Before(o, head, at) /\ h[head].level = 0
          /\ \A c \in X : Before(o, head, c) /\ Before(o, c, at) => h[c].level > 0
      BY <3>2 DEF Rooted
    <3>4. Before(now, head, m) /\ head \in Y
      BY <3>3
    <3>5. ASSUME NEW c \in Y, Before(now, head, c), Before(now, c, m) PROVE h[c].level > 0
      BY <2>2, <3>3, <3>5
    <3> HIDE DEF head
    <3>6. QED
      BY <3>1, <3>3, <3>4, <3>5 DEF Rooted, head
  <2>3. QED
    BY <2>1, <2>2
<1>3. ASSUME NEW a \in X, h[a].level > 0 PROVE RightBelow(now, h, Y, a)
  <2>1. RightBelow(o, h, X, a)
    BY <1>3 DEF Forest
  <2>2. PICK b \in X : /\ Before(o, b, a) /\ h[a].level <= h[b].level + 1
                       /\ \A c \in X : ~(Before(o, b, c) /\ Before(o, c, a))
    BY <2>1 DEF RightBelow
  <2>3. CASE b = at
    <3>1. Before(now, m, a) /\ m \in Y
      BY <2>2, <2>3
    <3>2. h[a].level <= h[m].level + 1
      BY <2>2, <2>3
    <3>3. ASSUME NEW c \in Y, Before(now, m, c), Before(now, c, a) PROVE FALSE
      BY <2>2, <2>3, <3>3
    <3>4. QED
      BY <3>1, <3>2, <3>3 DEF RightBelow
  <2>4. CASE b # at
    <3>1. Before(now, b, a) /\ b \in Y
      BY <2>2
    <3>2. ~(Before(now, b, m) /\ Before(now, m, a))
      BY <2>2, <2>4
    <3>3. \A c \in Y : ~(Before(now, b, c) /\ Before(now, c, a))
      BY <2>2, <3>2
    <3>4. QED
      BY <2>2, <3>1, <3>3 DEF RightBelow
  <2>5. QED
    BY <2>3, <2>4
<1>4. ASSUME NEW a \in X, h[a].level > 0 PROVE Rooted(now, h, Y, a)
  <2>1. Rooted(o, h, X, a)
    BY <1>4 DEF Forest
  <2>2. h[m].level > 0
    OBVIOUS
  <2>3. QED
    BY <2>1, <2>2 DEF Rooted
<1>5. h[m].level > 0 /\ h[m].level # 0
  OBVIOUS
<1>6. \A a \in X : h[a].level = 0 => h[a].thread = 0
  BY DEF Forest
<1>7. QED
  BY <1>1, <1>2, <1>3, <1>4, <1>5, <1>6 DEF Forest

\* A new thread m is shown first.
LEMMA ForestThread ==
    ASSUME NEW o, NEW h, NEW X, Forest(o, h, X), NEW m, m \notin X,
           NEW now, ~Before(now, m, m),
           \A a, b \in X : Before(now, a, b) <=> Before(o, a, b),
           \A a \in X : Before(now, m, a) /\ ~Before(now, a, m),
           h[m].level = 0, h[m].thread = 0
    PROVE  Forest(now, h, X \cup {m})
<1> DEFINE Y == X \cup {m}
<1>1. ASSUME NEW a \in X, RightBelow(o, h, X, a) PROVE RightBelow(now, h, Y, a)
  <2>1. PICK b \in X : /\ Before(o, b, a) /\ h[a].level <= h[b].level + 1
                       /\ \A c \in X : ~(Before(o, b, c) /\ Before(o, c, a))
    BY <1>1 DEF RightBelow
  <2>2. \A c \in Y : ~(Before(now, b, c) /\ Before(now, c, a))
    BY <2>1
  <2>3. QED
    BY <2>1, <2>2 DEF RightBelow
<1>2. ASSUME NEW a \in X, Rooted(o, h, X, a) PROVE Rooted(now, h, Y, a)
  BY <1>2 DEF Rooted
<1>3. \A a \in X : /\ h[a].level = 0 => h[a].thread = 0
                   /\ h[a].level > 0 => RightBelow(now, h, Y, a) /\ Rooted(now, h, Y, a)
  BY <1>1, <1>2 DEF Forest
<1>4. ~(h[m].level > 0)
  OBVIOUS
<1>5. QED
  BY <1>3, <1>4 DEF Forest

\* What is left is a forest when a root r goes with all that stands below it,
\* up to the next message that is not deeper.
LEMMA ForestWithout ==
    ASSUME NEW o, NEW h, NEW X, Forest(o, h, X), NEW W, W \subseteq X, NEW r \in W,
           \A a \in X : h[a].level \in Nat,
           \A a : ~Before(o, a, a),
           \A a, b, c : Before(o, a, b) /\ Before(o, b, c) => Before(o, a, c),
           \A a, b \in X : a = b \/ Before(o, a, b) \/ Before(o, b, a),
           \A a \in W \ {r} : Before(o, r, a) /\ h[a].level > h[r].level,
           \A a \in W : \A b : Before(o, r, b) /\ Before(o, b, a) => b \in W,
           \A a \in X \ W : Before(o, r, a) =>
              \E b \in X \ W : /\ Before(o, r, b) /\ h[b].level <= h[r].level
                               /\ b = a \/ Before(o, b, a)
    PROVE  Forest(o, h, X \ W)
<1> DEFINE Y == X \ W
<1>1. ASSUME NEW a \in Y, h[a].level > 0 PROVE RightBelow(o, h, Y, a)
  <2>1. RightBelow(o, h, X, a)
    BY <1>1 DEF Forest
  <2>2. PICK b \in X : /\ Before(o, b, a) /\ h[a].level <= h[b].level + 1
                       /\ \A c \in X : ~(Before(o, b, c) /\ Before(o, c, a))
    BY <2>1 DEF RightBelow
  <2>3. CASE b \notin W
    BY <2>2, <2>3 DEF RightBelow
  <2>4. CASE b \in W
    <3>1. Before(o, r, a)
      BY <2>2, <2>4
    <3>2. ASSUME NEW c \in X, Before(o, r, c), Before(o, c, a) PROVE c \in W
      <4>1. c = b \/ Before(o, c, b)
        BY <2>2, <3>2
      <4>2. QED
        BY <2>4, <3>2, <4>1
    <3>3. h[a].level <= h[r].level
      BY <3>1, <3>2
    <3>4. r \in X /\ h[r].level > 0
      BY <1>1, <3>3
    <3>5. RightBelow(o, h, X, r)
      BY <3>4 DEF Forest
    <3>6. PICK d \in X : /\ Before(o, d, r) /\ h[r].level <= h[d].level + 1
                         /\ \A c \in X : ~(Before(o, d, c) /\ Before(o, c, r))
      BY <3>5 DEF RightBelow
    <3>7. d \in Y
      BY <3>6
    <3>8. Before(o, d, a) /\ h[a].level <= h[d].level + 1
      BY <3>1, <3>3, <3>4, <3>6
    <3>9. ASSUME NEW c \in Y, Before(o, d, c), Before(o, c, a) PROVE FALSE
      <4>1. c # r /\ ~Before(o, c, r)
        BY <3>6, <3>9
      <4>2. Before(o, r, c)
        BY <3>4, <4>1
      <4>3. QED
        BY <3>2, <3>9, <4>2
    <3>10. QED
      BY <3>7, <3>8, <3>9 DEF RightBelow
  <2>5. QED
    BY <2>3, <2>4
<1>2. ASSUME NEW a \in Y, h[a].level > 0 PROVE Rooted(o, h, Y, a)
  <2> DEFINE head == h[a].thread
  <2>1. Rooted(o, h, X, a)
    BY <1>2 DEF Forest
  <2>2. /\ head \in X /\ Before(o, head, a) /\ h[head].level = 0
        /\ \A c \in X : Before(o, head, c) /\ Before(o, c, a) => h[c].level > 0
    BY <2>1 DEF Rooted
  <2> HIDE DEF head
  <2>3. head \notin W
    <3>1. SUFFICES ASSUME head \in W PROVE FALSE
      OBVIOUS
    <3>2. head = r
      <4>1. head # r => 0 > h[r].level
        BY <2>2, <3>1
      <4>2. QED
        BY <4>1
    <3>3. PICK c \in X \ W : /\ Before(o, r, c) /\ h[c].level <= h[r].level
                             /\ c = a \/ Before(o, c, a)
      BY <2>2, <3>2
    <3>4. QED
      BY <1>2, <2>2, <3>2, <3>3
  <2>4. QED
    BY <2>2, <2>3 DEF Rooted, head
<1>3. QED
  BY <1>1, <1>2 DEF Forest

\* m answers a: a is the last one less deep above m, and below m's thread head.
RepliesTo(o, h, X, a, m) ==
    /\ Before(o, a, m) /\ h[a].level + 1 = h[m].level
    /\ h[m].thread \in X
    /\ a = h[m].thread \/ Before(o, h[m].thread, a)
    /\ \A c \in X : Before(o, a, c) /\ Before(o, c, m) => h[c].level >= h[m].level

\* In a forest every reply answers someone.
LEMMA ParentThere ==
    ASSUME NEW V, NEW o \in Seq(V), IsInjective(o), NEW X \in SUBSET ToSet(o), NEW h,
           \A a \in X : h[a].level \in Nat, Forest(o, h, X), NEW m \in X, h[m].level > 0
    PROVE  \E a \in X : RepliesTo(o, h, X, a, m)
<1>1. /\ Len(o) \in Nat /\ \A k \in 1..Len(o) : o[k] \in ToSet(o)
      /\ \A a \in ToSet(o) : \E k \in 1..Len(o) : o[k] = a
  BY SetOfList
<1>2. \A k, n \in 1..Len(o) : Before(o, o[k], o[n]) <=> k < n
  BY BeforeFacts
<1>3. RightBelow(o, h, X, m) /\ Rooted(o, h, X, m)
  BY DEF Forest
<1>4. PICK head \in X : /\ head = h[m].thread /\ Before(o, head, m) /\ h[head].level = 0
  BY <1>3 DEF Rooted
<1>5. PICK z \in 1..Len(o) : o[z] = m
  BY <1>1
<1>6. PICK C : C = {k \in 1..Len(o) : o[k] \in X /\ k < z /\ h[o[k]].level < h[m].level}
  OBVIOUS
<1>7. PICK hd \in C : o[hd] = head
  <2>1. PICK k \in 1..Len(o) : o[k] = head
    BY <1>1
  <2>2. k < z
    BY <1>2, <1>4, <1>5, <2>1
  <2> QED
    BY <1>4, <1>6, <2>1, <2>2
<1>8. Max(C) \in C /\ \A y \in C : y <= Max(C)
  <2>1. C \in SUBSET (1..Len(o)) /\ C # {}
    BY <1>6, <1>7
  <2> QED
    BY <1>1, <2>1, LastFacts
<1>9. PICK i \in C : i = Max(C)
  BY <1>8
<1>10. i \in 1..Len(o) /\ o[i] \in X /\ i < z /\ h[o[i]].level < h[m].level
  BY <1>6
<1>11. \A k \in 1..Len(o) : i < k /\ k < z /\ o[k] \in X => h[o[k]].level >= h[m].level
  <2>1. SUFFICES ASSUME NEW k \in 1..Len(o), i < k, k < z, o[k] \in X
                 PROVE  h[o[k]].level >= h[m].level
    OBVIOUS
  <2>2. k \notin C
    <3>1. ~(k <= i)
      BY <1>10, <2>1
    <3> QED
      BY <1>8, <1>9, <3>1
  <2>3. ~(h[o[k]].level < h[m].level)
    BY <1>6, <2>1, <2>2
  <2> QED
    BY <2>1, <2>3
<1>12. PICK j \in 1..Len(o) : /\ i < j /\ j <= z /\ o[j] \in X
                              /\ \A k \in 1..Len(o) : i < k /\ o[k] \in X => j <= k
  <2>1. PICK N : N = {k \in 1..Len(o) : i < k /\ o[k] \in X}
    OBVIOUS
  <2>2. N \in SUBSET (1..Len(o)) /\ z \in N
    BY <1>5, <1>10, <2>1
  <2>3. PICK j \in N : \A y \in N : j <= y
    <3>1. N \in SUBSET Nat /\ N # {}
      BY <2>2
    <3> QED
      BY <3>1, HasLeast
  <2>4. j <= z
    BY <2>2, <2>3
  <2> QED
    BY <2>1, <2>3, <2>4
<1>13. h[o[j]].level >= h[m].level /\ h[o[j]].level \in Nat /\ h[m].level \in Nat
       /\ h[o[i]].level \in Nat
  <2>1. j = z \/ j < z
    BY <1>12
  <2>2. CASE j = z
    BY <1>5, <1>10, <2>2
  <2>3. CASE j < z
    BY <1>10, <1>11, <1>12, <2>3
  <2> QED
    BY <2>1, <2>2, <2>3
<1>14. h[o[i]].level + 1 = h[m].level
  <2>1. RightBelow(o, h, X, o[j])
    <3>1. h[o[j]].level > 0
      BY <1>13
    <3> QED
      BY <1>12, <3>1 DEF Forest
  <2>2. PICK b \in X : /\ Before(o, b, o[j]) /\ h[o[j]].level <= h[b].level + 1
                       /\ \A c \in X : ~(Before(o, b, c) /\ Before(o, c, o[j]))
    BY <2>1 DEF RightBelow
  <2>3. PICK k \in 1..Len(o) : o[k] = b
    BY <1>1
  <2>4. k < j
    BY <1>2, <2>2, <2>3
  <2>5. ~(i < k)
    BY <1>12, <2>2, <2>3, <2>4
  <2>6. ~(k < i)
    <3>1. SUFFICES ASSUME k < i PROVE FALSE
      OBVIOUS
    <3>2. Before(o, b, o[i]) /\ Before(o, o[i], o[j])
      BY <1>2, <1>10, <1>12, <2>3, <3>1
    <3> QED
      BY <1>10, <2>2, <3>2
  <2>7. k = i
    BY <1>10, <2>5, <2>6
  <2> QED
    BY <1>10, <1>13, <2>2, <2>3, <2>7, SMTT(40)
<1>15. Before(o, o[i], m)
  BY <1>2, <1>5, <1>10
<1>16. o[i] = head \/ Before(o, head, o[i])
  <2>1. hd \in 1..Len(o) /\ hd <= i
    BY <1>6, <1>7, <1>8, <1>9
  <2>2. hd = i \/ hd < i
    BY <1>10, <2>1
  <2> QED
    BY <1>2, <1>7, <1>10, <2>1, <2>2
<1>17. ASSUME NEW c \in X, Before(o, o[i], c), Before(o, c, m) PROVE h[c].level >= h[m].level
  <2>1. PICK k \in 1..Len(o) : o[k] = c
    BY <1>1
  <2>2. i < k /\ k < z
    BY <1>2, <1>5, <1>10, <1>17, <2>1
  <2> QED
    BY <1>11, <2>1, <2>2
<1> QED
  BY <1>4, <1>10, <1>14, <1>15, <1>16, <1>17 DEF RepliesTo

\* It is the one that getparent finds.
LEMMA ParentSought ==
    ASSUME NEW V, NEW o \in Seq(V), IsInjective(o), NEW a \in ToSet(o), NEW m \in ToSet(o),
           Before(o, a, m), NEW level, level[a] + 1 = level[m],
           \A c \in ToSet(o) : Before(o, a, c) /\ Before(o, c, m) => level[c] + 1 # level[m],
           NEW thread, thread[m] \in ToSet(o), a = thread[m] \/ Before(o, thread[m], a)
    PROVE  ParentOf(o, level, thread, m) = a
<1> DEFINE i == Pos(o, thread[m])
           j == Pos(o, m) - 1
           above == {k \in i..j : level[o[k]] + 1 = level[m]}
<1>1. /\ Len(o) \in Nat /\ \A k \in 1..Len(o) : o[k] \in ToSet(o)
      /\ \A x \in ToSet(o) : \E k \in 1..Len(o) : o[k] = x
      /\ \A x \in ToSet(o) : Pos(o, x) \in 1..Len(o) /\ o[Pos(o, x)] = x
  BY SetOfList, PosFacts
<1>2. \A k, n \in 1..Len(o) : Before(o, o[k], o[n]) <=> k < n
  BY BeforeFacts
<1>3. PICK n \in 1..Len(o) : n = Pos(o, m) /\ o[n] = m
  BY <1>1
<1>4. PICK l \in 1..Len(o) : l = i /\ o[l] = thread[m]
  BY <1>1
<1>5. PICK k \in 1..Len(o) : o[k] = a
  BY <1>1
<1>6. k < n
  BY <1>2, <1>3, <1>5
<1>7. l <= k
  <2>1. CASE a = thread[m]
    <3>1. \A x, y \in 1..Len(o) : o[x] = o[y] => x = y
      BY DEF IsInjective
    <3> QED
      BY <1>4, <1>5, <2>1, <3>1
  <2>2. CASE Before(o, thread[m], a)
    BY <1>2, <1>4, <1>5, <2>2
  <2> QED
    BY <2>1, <2>2
<1>8. k \in above
  BY <1>3, <1>4, <1>5, <1>6, <1>7
<1>9. \A x \in above : x <= k /\ x \in Int
  <2>1. SUFFICES ASSUME NEW x \in above PROVE x <= k /\ x \in Int
    OBVIOUS
  <2>2. x \in 1..Len(o) /\ x < n /\ level[o[x]] + 1 = level[m]
    BY <1>3, <1>4
  <2>3. ~(k < x)
    <3>1. SUFFICES ASSUME k < x PROVE FALSE
      OBVIOUS
    <3>2. Before(o, a, o[x]) /\ Before(o, o[x], m) /\ o[x] \in ToSet(o)
      BY <1>1, <1>2, <1>3, <1>5, <2>2, <3>1
    <3> QED
      BY <2>2, <3>2
  <2> QED
    BY <2>2, <2>3
<1>10. Max(above) = k
  <2> HIDE DEF above
  <2>1. \A y \in above : k >= y
    BY <1>9
  <2>2. ASSUME NEW x \in above, \A y \in above : x >= y PROVE x = k
    BY <1>8, <1>9, <2>2
  <2> QED
    BY <1>8, <2>1, <2>2, Zenon DEF Max
<1>11. ParentOf(o, level, thread, m) = IF above = {} THEN 0 ELSE o[Max(above)]
  BY DEF ParentOf
<1> HIDE DEF above
<1> QED
  BY <1>5, <1>8, <1>10, <1>11

\* The message that getparent finds for m, which is shown right below at.
LEMMA ParentFound ==
    ASSUME NEW S, NEW o \in Seq(S), IsInjective(o),
           NEW at \in ToSet(o), NEW m \in ToSet(o), Before(o, at, m),
           \A c \in ToSet(o) : ~(Before(o, at, c) /\ Before(o, c, m)),
           NEW level, level[at] + 1 = level[m],
           NEW thread, thread[m] \in ToSet(o),
           thread[m] = at \/ Before(o, thread[m], at)
    PROVE  ParentOf(o, level, thread, m) = at
  BY ParentSought

\* Where all that is shown is a forest, the first message heads a thread, and no
\* message is more than one level below the one above it.
LEMMA ForestLevels ==
    ASSUME NEW V, NEW o \in Seq(V), IsInjective(o), NEW h, Forest(o, h, ToSet(o)),
           \A a \in ToSet(o) : h[a].level \in Nat, NEW i \in 1..Len(o)
    PROVE  /\ i = 1 => h[o[i]].level = 0
           /\ i # 1 => h[o[i]].level <= h[o[i - 1]].level + 1
<1>1. /\ Len(o) \in Nat /\ \A k \in 1..Len(o) : o[k] \in ToSet(o)
      /\ \A a \in ToSet(o) : \E k \in 1..Len(o) : o[k] = a
  BY SetOfList
<1>2. \A k, n \in 1..Len(o) : Before(o, o[k], o[n]) <=> k < n
  BY BeforeFacts
<1>3. CASE h[o[i]].level = 0
  <2>1. i # 1 => h[o[i - 1]].level \in Nat
    <3>1. i # 1 => i - 1 \in 1..Len(o)
      BY <1>1
    <3> QED
      BY <1>1, <3>1
  <2> QED
    BY <1>3, <2>1
<1>4. CASE h[o[i]].level # 0
  <2>1. RightBelow(o, h, ToSet(o), o[i])
    <3>1. h[o[i]].level > 0
      BY <1>1, <1>4
    <3> QED
      BY <1>1, <3>1 DEF Forest
  <2>2. PICK b \in ToSet(o) : /\ Before(o, b, o[i]) /\ h[o[i]].level <= h[b].level + 1
                              /\ \A c \in ToSet(o) : ~(Before(o, b, c) /\ Before(o, c, o[i]))
    BY <2>1 DEF RightBelow
  <2>3. PICK k \in 1..Len(o) : o[k] = b
    BY <1>1
  <2>4. k < i
    BY <1>2, <2>2, <2>3
  <2>5. k = i - 1
    <3>1. SUFFICES ASSUME k # i - 1 PROVE FALSE
      OBVIOUS
    <3>2. k + 1 \in 1..Len(o) /\ k < k + 1 /\ k + 1 < i
      BY <1>1, <2>4, <3>1
    <3> QED
      BY <1>1, <1>2, <2>2, <2>3, <3>2
  <2> QED
    BY <2>2, <2>3, <2>4, <2>5
<1> QED
  BY <1>3, <1>4

\* So the i-th message is less than i levels deep.
LEMMA ForestDepth ==
    ASSUME NEW V, NEW o \in Seq(V), IsInjective(o), NEW h, Forest(o, h, ToSet(o)),
           \A a \in ToSet(o) : h[a].level \in Nat, NEW a \in ToSet(o)
    PROVE  h[a].level < Len(o)
<1>1. /\ Len(o) \in Nat /\ \A k \in 1..Len(o) : o[k] \in ToSet(o)
      /\ \A x \in ToSet(o) : \E k \in 1..Len(o) : o[k] = x
  BY SetOfList
<1> DEFINE Deep == {k \in 1..Len(o) : ~(h[o[k]].level < k)}
<1>2. SUFFICES ASSUME Deep # {} PROVE FALSE
  <2>1. PICK k \in 1..Len(o) : o[k] = a
    BY <1>1
  <2>2. Deep = {} => h[o[k]].level < k
    OBVIOUS
  <2>3. h[o[k]].level \in Nat
    BY <1>1
  <2> QED
    BY <1>1, <2>1, <2>2, <2>3
<1>3. PICK i \in Deep : \A k \in Deep : i <= k
  <2>1. Deep \in SUBSET Nat
    OBVIOUS
  <2> HIDE DEF Deep
  <2> QED
    BY <1>2, <2>1, HasLeast
<1>4. i \in 1..Len(o) /\ ~(h[o[i]].level < i) /\ h[o[i]].level \in Nat
  BY <1>1
<1>5. /\ i = 1 => h[o[i]].level = 0
      /\ i # 1 => h[o[i]].level <= h[o[i - 1]].level + 1
  BY <1>4, ForestLevels
<1>6. i # 1 /\ i - 1 \in 1..Len(o) /\ h[o[i - 1]].level \in Nat
  BY <1>1, <1>4, <1>5
<1>7. ~(h[o[i - 1]].level < i - 1)
  BY <1>4, <1>5, <1>6
<1>8. i - 1 \in Deep
  BY <1>6, <1>7
<1> QED
  BY <1>3, <1>4, <1>8

\* A reply's thread is the last head above it.
LEMMA ForestHeads ==
    ASSUME NEW V, NEW o \in Seq(V), IsInjective(o), NEW h, Forest(o, h, ToSet(o)),
           NEW i \in 1..Len(o), h[o[i]].level > 0,
           NEW heads, heads = {j \in 1..i : h[o[j]].level = 0}
    PROVE  heads # {} /\ h[o[i]].thread = o[Max(heads)]
<1>1. /\ Len(o) \in Nat /\ \A k \in 1..Len(o) : o[k] \in ToSet(o)
      /\ \A a \in ToSet(o) : \E k \in 1..Len(o) : o[k] = a
  BY SetOfList
<1>2. \A k, n \in 1..Len(o) : Before(o, o[k], o[n]) <=> k < n
  BY BeforeFacts
<1>3. Rooted(o, h, ToSet(o), o[i])
  BY <1>1 DEF Forest
<1>4. PICK head \in ToSet(o) : /\ head = h[o[i]].thread /\ Before(o, head, o[i])
                               /\ h[head].level = 0
                               /\ \A c \in ToSet(o) : Before(o, head, c) /\ Before(o, c, o[i])
                                                         => h[c].level > 0
  BY <1>3 DEF Rooted
<1>5. PICK k \in 1..Len(o) : o[k] = head
  BY <1>1
<1>6. k < i
  BY <1>2, <1>4, <1>5
<1>7. k \in heads
  BY <1>4, <1>5, <1>6
<1>8. Max(heads) \in heads /\ \A y \in heads : y <= Max(heads)
  <2>1. i \in Nat /\ heads \in SUBSET (1..i) /\ heads # {}
    BY <1>7
  <2> QED
    BY <2>1, LastFacts
<1>9. PICK n \in heads : n = Max(heads)
  BY <1>8
<1>10. n \in 1..Len(o) /\ n <= i /\ h[o[n]].level = 0
  BY <1>1
<1>11. n # i /\ k <= n
  BY <1>7, <1>8, <1>9, <1>10
<1>12. ~(k < n)
  <2>1. SUFFICES ASSUME k < n PROVE FALSE
    OBVIOUS
  <2>2. n < i
    BY <1>10, <1>11
  <2>3. Before(o, head, o[n]) /\ Before(o, o[n], o[i]) /\ o[n] \in ToSet(o)
    BY <1>1, <1>2, <1>5, <1>10, <2>1, <2>2
  <2> QED
    BY <1>4, <1>10, <2>3
<1>13. n = k
  BY <1>10, <1>11, <1>12
<1> QED
  BY <1>4, <1>5, <1>7, <1>9, <1>13

\* getparent finds it also while some messages are going, as what stays below one
\* of them starts a branch of its own.
LEMMA ParentStands ==
    ASSUME NEW V, NEW o \in Seq(V), IsInjective(o), NEW X \in SUBSET ToSet(o), NEW h,
           NEW level, NEW thread,
           \A c \in ToSet(o) : /\ h[c].level = level[c] /\ h[c].thread = thread[c]
                               /\ level[c] \in Nat,
           \A d \in ToSet(o) \ X, x \in X : Before(o, d, x) =>
              \E b \in X : /\ level[b] <= level[d] /\ Before(o, d, b)
                           /\ b = x \/ Before(o, b, x),
           NEW a \in X, NEW m \in X, RepliesTo(o, h, X, a, m)
    PROVE  ParentOf(o, level, thread, m) = a
<1>1. \A b, c, d : Before(o, b, c) /\ Before(o, c, d) => Before(o, b, d)
  BY BeforeFacts
<1>2. /\ Before(o, a, m) /\ level[a] + 1 = level[m] /\ thread[m] \in X
      /\ a = thread[m] \/ Before(o, thread[m], a)
  BY DEF RepliesTo
<1>3. \A c \in X : Before(o, a, c) /\ Before(o, c, m) => level[c] >= level[m]
  BY DEF RepliesTo
<1>4. ASSUME NEW c \in ToSet(o), Before(o, a, c), Before(o, c, m)
      PROVE  level[c] + 1 # level[m]
  <2>1. CASE c \in X
    BY <1>3, <1>4, <2>1
  <2>2. CASE c \notin X
    <3>1. PICK b \in X : /\ level[b] <= level[c] /\ Before(o, c, b)
                         /\ b = m \/ Before(o, b, m)
      BY <1>4, <2>2
    <3>2. level[b] >= level[m]
      <4>1. CASE b = m
        BY <4>1
      <4>2. CASE Before(o, b, m)
        BY <1>1, <1>3, <1>4, <3>1, <4>2
      <4> QED
        BY <3>1, <4>1, <4>2
    <3>3. level[b] \in Nat /\ level[c] \in Nat /\ level[m] \in Nat
      OBVIOUS
    <3> QED
      BY <3>1, <3>2, <3>3
  <2> QED
    BY <2>1, <2>2
<1> QED
  BY <1>2, <1>4, ParentSought

\* Who answers whom is the same where the order and the headers are.
LEMMA SameReplies ==
    ASSUME NEW o, NEW h, NEW X, NEW a \in X, NEW m \in X, RepliesTo(o, h, X, a, m),
           NEW now, \A b, c \in X : Before(now, b, c) <=> Before(o, b, c)
    PROVE  RepliesTo(now, h, X, a, m)
BY DEF RepliesTo

\* Nor does a new message n change it that is shown first, ...
LEMMA RepliesBelowThread ==
    ASSUME NEW o, NEW h, NEW X, NEW a \in X, NEW m \in X, RepliesTo(o, h, X, a, m),
           NEW now, \A b, c \in X : Before(now, b, c) <=> Before(o, b, c),
           NEW n, \A b \in X : Before(now, n, b) /\ ~Before(now, b, n),
           NEW then, \A b \in X : then[b].level = h[b].level /\ then[b].thread = h[b].thread
    PROVE  RepliesTo(now, then, X \cup {n}, a, m)
BY DEF RepliesTo

\* ... or right below the message `at' that it answers.
LEMMA RepliesBesideReply ==
    ASSUME NEW o, NEW h, NEW X, NEW a \in X, NEW m \in X, RepliesTo(o, h, X, a, m),
           \A b \in X : h[b].level \in Nat,
           NEW now, \A b, c \in X : Before(now, b, c) <=> Before(o, b, c),
           NEW n, NEW at \in X,
           \A b \in X : /\ Before(now, b, n) <=> b = at \/ Before(o, b, at)
                        /\ Before(now, n, b) <=> Before(o, at, b),
           NEW then, \A b \in X : then[b].level = h[b].level /\ then[b].thread = h[b].thread,
           then[n].level = h[at].level + 1
    PROVE  RepliesTo(now, then, X \cup {n}, a, m)
<1>1. /\ Before(o, a, m) /\ h[a].level + 1 = h[m].level
      /\ h[m].thread \in X
      /\ a = h[m].thread \/ Before(o, h[m].thread, a)
      /\ \A c \in X : Before(o, a, c) /\ Before(o, c, m) => h[c].level >= h[m].level
  BY DEF RepliesTo
<1>2. ASSUME Before(now, a, n), Before(now, n, m) PROVE then[n].level >= then[m].level
  <2>1. Before(o, at, m) /\ (a = at \/ Before(o, a, at))
    BY <1>2
  <2>2. CASE a = at
    BY <1>1, <2>2
  <2>3. CASE Before(o, a, at)
    <3>1. h[at].level >= h[m].level
      BY <1>1, <2>1, <2>3
    <3> QED
      BY <3>1
  <2> QED
    BY <2>1, <2>2, <2>3
<1>3. \A c \in X : Before(now, a, c) /\ Before(now, c, m) => then[c].level >= then[m].level
  BY <1>1
<1>4. /\ Before(now, a, m) /\ then[a].level + 1 = then[m].level /\ then[m].thread \in X \cup {n}
      /\ a = then[m].thread \/ Before(now, then[m].thread, a)
  BY <1>1
<1> QED
  BY <1>2, <1>3, <1>4 DEF RepliesTo
=============================================================================
