------------------------- MODULE UserRecords_proofs -------------------------
(***************************************************************************)
(* What users' records count, for any number of users, requests, messages  *)
(* and favourites.  A record that was right once stays right: messages are *)
(* only put at the end of the file, and chains lead back.  So it does no   *)
(* harm to what is counted that records are written back that were read    *)
(* long before; what it may lose is shown to be kept while requests come   *)
(* one after the other.                                                    *)
(***************************************************************************)
EXTENDS UserRecords, ListLemmas, FiniteSetTheorems

-----------------------------------------------------------------------------
(***************************************************************************)
(* Chains. They end because every link leads back, and then hold what can  *)
(* be reached, the latest message first.                                   *)
(***************************************************************************)

\* Links that lead back, so that chains end.
Back(links) == links \in Seq(Nat) /\ \A j \in 1..Len(links) : links[j] < j

LEMMA BackFacts ==
    ASSUME NEW links, Back(links)
    PROVE  /\ Len(links) \in Nat /\ DOMAIN links = 1..Len(links)
           /\ \A j \in 1..Len(links) : links[j] \in Nat /\ links[j] < j /\ links[j] \in 0..(j - 1)
<1>1. Len(links) \in Nat /\ DOMAIN links = 1..Len(links)
  BY LenProperties DEF Back
<1>2. ASSUME NEW j \in 1..Len(links)
      PROVE  links[j] \in Nat /\ links[j] < j /\ links[j] \in 0..(j - 1)
  BY <1>1, <1>2, ElementOfSeq DEF Back
<1> QED
  BY <1>1, <1>2

LEMMA ChainIs ==
    ASSUME NEW links, Back(links)
    PROVE  /\ Chain(links, 0) = <<>>
           /\ \A j \in 1..Len(links) : Chain(links, j) = <<j>> \o Chain(links, links[j])
<1> DEFINE n == Len(links)
           step(f, m) == [j \in 0..m |-> IF j = 0 THEN <<>> ELSE <<j>> \o f[links[j]]]
           T == {m \in 0..n : ~ \E f : f = step(f, m)}
<1>1. n \in Nat /\ \A j \in 1..n : links[j] \in 0..(j - 1)
  BY BackFacts
<1>2. T = {}
  <2> SUFFICES ASSUME T # {} PROVE FALSE
    OBVIOUS
  <2>1. PICK m \in T : \A y \in T : m <= y
    <3>1. T \in SUBSET Nat
      BY <1>1
    <3> HIDE DEF T
    <3> QED
      BY <3>1, HasLeast
  <2>2. m # 0
    <3>1. [j \in 0..0 |-> <<>>] = step([j \in 0..0 |-> <<>>], 0)
      OBVIOUS
    <3> QED
      BY <2>1, <3>1
  <2>3. m \in 1..n /\ m - 1 \in 0..n /\ m - 1 \notin T
    <3>1. m \in 1..n /\ m - 1 \in 0..n /\ ~(m <= m - 1)
      BY <1>1, <2>1, <2>2
    <3> HIDE DEF T
    <3> QED
      BY <2>1, <3>1
  <2>4. PICK h : h = step(h, m - 1)
    BY <2>3
  <2> DEFINE g == [j \in 0..m |-> IF j = m THEN <<m>> \o h[links[m]] ELSE h[j]]
  <2>5. ASSUME NEW j \in 0..m PROVE g[j] = step(g, m)[j]
    <3>1. CASE j = 0
      BY <2>3, <2>4, <3>1
    <3>2. CASE j = m
      <4>1. links[m] \in 0..(m - 1) /\ m # 0
        BY <1>1, <2>3
      <4>2. g[links[m]] = h[links[m]]
        BY <2>3, <4>1
      <4> QED
        BY <3>2, <4>1, <4>2
    <3>3. CASE j # 0 /\ j # m
      <4>1. j \in 1..n /\ j \in 1..(m - 1)
        BY <1>1, <2>3, <3>3
      <4>2. links[j] \in 0..(j - 1)
        BY <1>1, <4>1
      <4>3. links[j] \in 0..m /\ links[j] # m
        BY <2>3, <4>1, <4>2
      <4>4. g[j] = h[j] /\ g[links[j]] = h[links[j]]
        BY <3>3, <4>3
      <4>5. step(h, m - 1)[j] = <<j>> \o h[links[j]]
        BY <3>3, <4>1
      <4>6. h[j] = <<j>> \o h[links[j]]
        <5> HIDE DEF step
        <5> QED
          BY <2>4, <4>5
      <4>7. step(g, m)[j] = <<j>> \o g[links[j]]
        BY <3>3
      <4> HIDE DEF g, step
      <4> QED
        BY <4>4, <4>6, <4>7
    <3> QED
      BY <3>1, <3>2, <3>3
  <2>6. g = step(g, m)
    BY <2>5
  <2> QED
    BY <2>1, <2>6
<1> DEFINE from == CHOOSE f : f = step(f, n)
<1>3. from = step(from, n)
  <2>1. n \in 0..n
    BY <1>1
  <2>2. \E f : f = step(f, n)
    <3> HIDE DEF n, step
    <3> QED
      BY <1>2, <2>1
  <2> HIDE DEF step
  <2> QED
    BY <2>2
<1>4. \A i : Chain(links, i) = from[i]
  BY DEF Chain
<1> HIDE DEF from
<1>5. from[0] = <<>> /\ \A j \in 1..n : from[j] = <<j>> \o from[links[j]]
  <2>1. step(from, n)[0] = <<>>
    BY <1>1
  <2>2. ASSUME NEW j \in 1..n PROVE step(from, n)[j] = <<j>> \o from[links[j]]
    <3>1. j \in 0..n /\ j # 0
      BY <1>1
    <3> QED
      BY <3>1
  <2> HIDE DEF step
  <2> QED
    BY <1>3, <2>1, <2>2
<1> QED
  BY <1>4, <1>5

\* A chain goes down.
Falling(s, i) ==
    /\ s \in Seq(Nat)
    /\ \A k \in 1..Len(s) : s[k] \in 1..i
    /\ \A k, l \in 1..Len(s) : k < l => s[k] > s[l]

LEMMA FallingLonger ==
    ASSUME NEW j \in Nat \ {0}, NEW i \in 0..(j - 1), NEW s, Falling(s, i)
    PROVE  /\ Falling(<<j>> \o s, j) /\ Len(<<j>> \o s) = Len(s) + 1
           /\ ToSet(<<j>> \o s) = {j} \cup ToSet(s)
<1>1. s \in Seq(Nat) /\ Len(s) \in Nat /\ DOMAIN s = 1..Len(s)
  BY LenProperties DEF Falling
<1>2. PICK t : t = <<j>> \o s
  OBVIOUS
<1>3. /\ t \in Seq(Nat) /\ Len(t) = Len(s) + 1 /\ DOMAIN t = 1..(Len(s) + 1)
      /\ \A k \in 1..(Len(s) + 1) : t[k] = IF k = 1 THEN j ELSE s[k - 1]
  BY <1>1, <1>2
<1>4. ASSUME NEW k \in 1..Len(t) PROVE t[k] \in 1..j /\ (k # 1 => t[k] < j)
  <2>1. CASE k = 1
    BY <1>1, <1>3, <2>1
  <2>2. CASE k # 1
    <3>1. k - 1 \in 1..Len(s)
      BY <1>1, <1>3, <2>2
    <3>2. s[k - 1] \in 1..i
      BY <3>1 DEF Falling
    <3> QED
      BY <1>1, <1>3, <2>2, <3>2
  <2> QED
    BY <2>1, <2>2
<1>5. ASSUME NEW k \in 1..Len(t), NEW l \in 1..Len(t), k < l PROVE t[k] > t[l]
  <2>1. CASE k = 1
    <3>1. t[l] < j /\ t[k] = j /\ t[l] \in 1..j
      BY <1>1, <1>3, <1>4, <1>5, <2>1
    <3> QED
      BY <3>1
  <2>2. CASE k # 1
    <3>1. k - 1 \in 1..Len(s) /\ l - 1 \in 1..Len(s) /\ k - 1 < l - 1
      BY <1>1, <1>3, <1>5, <2>2
    <3>2. s[k - 1] > s[l - 1]
      BY <3>1 DEF Falling
    <3>3. l # 1
      BY <1>1, <1>3, <1>5
    <3>4. t[k] = s[k - 1] /\ t[l] = s[l - 1]
      BY <1>3, <2>2, <3>3
    <3> QED
      BY <3>2, <3>4
  <2> QED
    BY <2>1, <2>2
<1>6. ToSet(t) = {j} \cup ToSet(s)
  <2>1. ToSet(t) \subseteq {j} \cup ToSet(s)
    <3>1. ASSUME NEW k \in 1..(Len(s) + 1) PROVE t[k] \in {j} \cup ToSet(s)
      <4>1. CASE k = 1
        BY <1>3, <4>1
      <4>2. CASE k # 1
        <5>1. k - 1 \in 1..Len(s)
          BY <1>1, <4>2
        <5> QED
          BY <1>1, <1>3, <4>2, <5>1 DEF ToSet
      <4> QED
        BY <4>1, <4>2
    <3> QED
      BY <1>3, <3>1 DEF ToSet
  <2>2. j \in ToSet(t)
    <3>1. 1 \in 1..(Len(s) + 1) /\ t[1] = j
      BY <1>1, <1>3
    <3> QED
      BY <1>3, <3>1 DEF ToSet
  <2>3. ASSUME NEW k \in 1..Len(s) PROVE s[k] \in ToSet(t)
    <3>1. k + 1 \in 1..(Len(s) + 1) /\ k + 1 # 1 /\ k + 1 - 1 = k
      BY <1>1
    <3>2. t[k + 1] = s[k]
      BY <1>3, <3>1
    <3> QED
      BY <1>3, <3>1, <3>2 DEF ToSet
  <2> QED
    BY <1>1, <2>1, <2>2, <2>3 DEF ToSet
<1> QED
  BY <1>2, <1>3, <1>4, <1>5, <1>6 DEF Falling

LEMMA ChainFalls ==
    ASSUME NEW links, Back(links), NEW i \in 0..Len(links)
    PROVE  Falling(Chain(links, i), i)
<1> DEFINE n == Len(links)
           T == {m \in 0..n : ~Falling(Chain(links, m), m)}
<1>1. n \in Nat /\ \A j \in 1..n : links[j] \in 0..(j - 1)
  BY BackFacts
<1>2. SUFFICES ASSUME T # {} PROVE FALSE
  OBVIOUS
<1>3. PICK m \in T : \A y \in T : m <= y
  <2>1. T \in SUBSET Nat
    BY <1>1
  <2> HIDE DEF T
  <2> QED
    BY <1>2, <2>1, HasLeast
<1>4. m # 0
  <2>1. Chain(links, 0) = <<>>
    BY ChainIs
  <2>2. Falling(<<>>, 0)
    BY DEF Falling
  <2> QED
    BY <1>3, <2>1, <2>2
<1>5. m \in 1..n /\ links[m] \in 0..(m - 1) /\ links[m] \in 0..n
  BY <1>1, <1>3, <1>4
<1>6. links[m] \notin T
  <2>1. ~(m <= links[m])
    BY <1>1, <1>5
  <2> HIDE DEF T
  <2> QED
    BY <1>3, <2>1
<1>7. Falling(Chain(links, links[m]), links[m])
  BY <1>5, <1>6
<1>8. Chain(links, m) = <<m>> \o Chain(links, links[m])
  BY <1>5, ChainIs
<1>9. m \in Nat \ {0}
  BY <1>1, <1>5
<1>10. Falling(Chain(links, m), m)
  BY <1>5, <1>7, <1>8, <1>9, FallingLonger
<1> QED
  BY <1>3, <1>10

\* A chain does not change when the file grows.
LEMMA ChainStays ==
    ASSUME NEW links, Back(links), NEW x \in 0..Len(links), NEW more, more = Append(links, x)
    PROVE  /\ Back(more) /\ Len(more) = Len(links) + 1 /\ more[Len(links) + 1] = x
           /\ \A i \in 0..Len(links) : Chain(more, i) = Chain(links, i)
           /\ Chain(more, Len(links) + 1) = <<Len(links) + 1>> \o Chain(links, x)
<1> DEFINE n == Len(links)
           T == {m \in 0..n : Chain(more, m) # Chain(links, m)}
<1>1. n \in Nat /\ \A j \in 1..n : links[j] \in 0..(j - 1)
  BY BackFacts
<1>2. /\ more \in Seq(Nat) /\ Len(more) = n + 1 /\ more[n + 1] = x
      /\ \A j \in 1..n : more[j] = links[j]
  BY <1>1, AppendProperties DEF Back
<1>3. Back(more)
  <2>1. ASSUME NEW j \in 1..(n + 1) PROVE more[j] < j
    <3>1. CASE j = n + 1
      BY <1>1, <1>2, <3>1
    <3>2. CASE j # n + 1
      <4>1. j \in 1..n
        BY <1>1, <3>2
      <4> QED
        BY <1>1, <1>2, <4>1
    <3> QED
      BY <3>1, <3>2
  <2> QED
    BY <1>2, <2>1 DEF Back
<1>4. T = {}
  <2> SUFFICES ASSUME T # {} PROVE FALSE
    OBVIOUS
  <2>1. PICK m \in T : \A y \in T : m <= y
    <3>1. T \in SUBSET Nat
      BY <1>1
    <3> HIDE DEF T
    <3> QED
      BY <3>1, HasLeast
  <2>2. m # 0
    BY <1>3, <2>1, ChainIs
  <2>3. m \in 1..n /\ m \in 1..(n + 1) /\ links[m] \in 0..(m - 1) /\ links[m] \in 0..n
    BY <1>1, <2>1, <2>2
  <2>4. links[m] \notin T
    <3>1. ~(m <= links[m])
      BY <1>1, <2>3
    <3> HIDE DEF T
    <3> QED
      BY <2>1, <3>1
  <2>5. /\ Chain(links, m) = <<m>> \o Chain(links, links[m])
        /\ Chain(more, m) = <<m>> \o Chain(more, links[m])
    BY ZenonT(40), <1>2, <1>3, <2>3, ChainIs
  <2> QED
    BY <2>1, <2>3, <2>4, <2>5
<1>5. Chain(more, n + 1) = <<n + 1>> \o Chain(more, x)
  <2>1. n + 1 \in 1..Len(more)
    BY <1>1, <1>2
  <2> QED
    BY <1>2, <1>3, <2>1, ChainIs
<1> QED
  BY <1>2, <1>3, <1>4, <1>5

-----------------------------------------------------------------------------
(***************************************************************************)
(* The file of messages and its two sets of links.                         *)
(***************************************************************************)
Prevs(f) == [j \in DOMAIN f |-> f[j].prev]
Posters(f) == [j \in DOMAIN f |-> f[j].posterPrev]

FileRight(f) == f \in Seq(Message) /\ Back(Prevs(f)) /\ Back(Posters(f))

LEMMA LinksOf ==
    ASSUME NEW f \in Seq(Message)
    PROVE  /\ Len(f) \in Nat /\ DOMAIN f = 1..Len(f)
           /\ Prevs(f) \in Seq(Nat) /\ Len(Prevs(f)) = Len(f)
           /\ Posters(f) \in Seq(Nat) /\ Len(Posters(f)) = Len(f)
           /\ \A j \in 1..Len(f) : Prevs(f)[j] = f[j].prev /\ Posters(f)[j] = f[j].posterPrev
           /\ \A j \in 1..Len(f) : f[j] \in Message /\ f[j].prev \in Nat /\ f[j].posterPrev \in Nat
<1>1. Len(f) \in Nat /\ DOMAIN f = 1..Len(f)
  BY LenProperties
<1>2. ASSUME NEW j \in 1..Len(f)
      PROVE  f[j] \in Message /\ f[j].prev \in Nat /\ f[j].posterPrev \in Nat
  <2>1. f[j] \in Message
    BY ElementOfSeq
  <2> QED
    BY <2>1 DEF Message
<1>3. Prevs(f) \in [1..Len(f) -> Nat] /\ Posters(f) \in [1..Len(f) -> Nat]
  BY <1>1, <1>2 DEF Prevs, Posters
<1>4. /\ Prevs(f) \in Seq(Nat) /\ Len(Prevs(f)) = Len(f)
      /\ Posters(f) \in Seq(Nat) /\ Len(Posters(f)) = Len(f)
  <2>1. ASSUME NEW s \in [1..Len(f) -> Nat] PROVE s \in Seq(Nat) /\ Len(s) = Len(f)
    BY <1>1
  <2> QED
    BY <1>3, <2>1
<1>5. \A j \in 1..Len(f) : Prevs(f)[j] = f[j].prev /\ Posters(f)[j] = f[j].posterPrev
  BY <1>1 DEF Prevs, Posters
<1> QED
  BY <1>1, <1>2, <1>4, <1>5

LEMMA LinksAppended ==
    ASSUME NEW f \in Seq(Message), NEW x \in Message
    PROVE  /\ Append(f, x) \in Seq(Message) /\ Len(Append(f, x)) = Len(f) + 1
           /\ Append(f, x)[Len(f) + 1] = x /\ \A i \in 1..Len(f) : Append(f, x)[i] = f[i]
           /\ Prevs(Append(f, x)) = Append(Prevs(f), x.prev)
           /\ Posters(Append(f, x)) = Append(Posters(f), x.posterPrev)
<1>1. PICK g : g = Append(f, x)
  OBVIOUS
<1>2. /\ g \in Seq(Message) /\ Len(g) = Len(f) + 1
      /\ g[Len(f) + 1] = x /\ \A i \in 1..Len(f) : g[i] = f[i]
  BY <1>1, AppendProperties
<1>3. x.prev \in Nat /\ x.posterPrev \in Nat /\ Len(f) \in Nat
  BY LinksOf DEF Message
<1>4. Prevs(g) = Append(Prevs(f), x.prev)
  <2>1. PICK s, t : s = Prevs(g) /\ t = Append(Prevs(f), x.prev)
    OBVIOUS
  <2>2. /\ s \in Seq(Nat) /\ Len(s) = Len(f) + 1
        /\ \A j \in 1..(Len(f) + 1) : s[j] = g[j].prev
    BY <1>2, <2>1, LinksOf
  <2>3. /\ t \in Seq(Nat) /\ Len(t) = Len(f) + 1 /\ t[Len(f) + 1] = x.prev
        /\ \A j \in 1..Len(f) : t[j] = f[j].prev
    BY <1>3, <2>1, LinksOf, AppendProperties
  <2>4. ASSUME NEW j \in 1..(Len(f) + 1) PROVE s[j] = t[j]
    <3>1. CASE j = Len(f) + 1
      BY <1>2, <2>2, <2>3, <3>1
    <3>2. CASE j # Len(f) + 1
      <4>1. j \in 1..Len(f)
        BY <1>3, <3>2
      <4> QED
        BY <1>2, <2>2, <2>3, <4>1
    <3> QED
      BY <3>1, <3>2
  <2>5. s = t
    BY <2>2, <2>3, <2>4, SeqEqual
  <2> QED
    BY <2>1, <2>5
<1>5. Posters(g) = Append(Posters(f), x.posterPrev)
  <2>1. PICK s, t : s = Posters(g) /\ t = Append(Posters(f), x.posterPrev)
    OBVIOUS
  <2>2. /\ s \in Seq(Nat) /\ Len(s) = Len(f) + 1
        /\ \A j \in 1..(Len(f) + 1) : s[j] = g[j].posterPrev
    BY <1>2, <2>1, LinksOf
  <2>3. /\ t \in Seq(Nat) /\ Len(t) = Len(f) + 1 /\ t[Len(f) + 1] = x.posterPrev
        /\ \A j \in 1..Len(f) : t[j] = f[j].posterPrev
    BY <1>3, <2>1, LinksOf, AppendProperties
  <2>4. ASSUME NEW j \in 1..(Len(f) + 1) PROVE s[j] = t[j]
    <3>1. CASE j = Len(f) + 1
      BY <1>2, <2>2, <2>3, <3>1
    <3>2. CASE j # Len(f) + 1
      <4>1. j \in 1..Len(f)
        BY <1>3, <3>2
      <4> QED
        BY <1>2, <2>2, <2>3, <4>1
    <3> QED
      BY <3>1, <3>2
  <2>5. s = t
    BY <2>2, <2>3, <2>4, SeqEqual
  <2> QED
    BY <2>1, <2>5
<1> QED
  BY <1>1, <1>2, <1>4, <1>5

\* A file that has grown by one message: the chains are as they were, but for those
\* that begin with the new one.
Grown(f, x, g) ==
    /\ FileRight(f) /\ FileRight(g) /\ Len(g) = Len(f) + 1 /\ Len(f) \in Nat
    /\ g[Len(f) + 1] = x /\ \A i \in 1..Len(f) : g[i] = f[i]
    /\ \A i \in 0..Len(f) : /\ Chain(Prevs(g), i) = Chain(Prevs(f), i)
                            /\ Chain(Posters(g), i) = Chain(Posters(f), i)
    /\ Chain(Prevs(g), Len(g)) = <<Len(g)>> \o Chain(Prevs(f), x.prev)
    /\ Chain(Posters(g), Len(g)) = <<Len(g)>> \o Chain(Posters(f), x.posterPrev)

LEMMA FileGrows ==
    ASSUME NEW f, FileRight(f), NEW x \in Message, x.prev <= Len(f), x.posterPrev <= Len(f),
           NEW g, g = Append(f, x)
    PROVE  Grown(f, x, g)
<1>1. f \in Seq(Message) /\ Back(Prevs(f)) /\ Back(Posters(f))
  BY DEF FileRight
<1>2. /\ g \in Seq(Message) /\ Len(g) = Len(f) + 1
      /\ g[Len(f) + 1] = x /\ \A i \in 1..Len(f) : g[i] = f[i]
      /\ Prevs(g) = Append(Prevs(f), x.prev)
      /\ Posters(g) = Append(Posters(f), x.posterPrev)
  BY <1>1, LinksAppended
<1>3. Len(Prevs(f)) = Len(f) /\ Len(Posters(f)) = Len(f) /\ Len(f) \in Nat
  BY <1>1, LinksOf
<1>4. x.prev \in 0..Len(f) /\ x.posterPrev \in 0..Len(f)
  BY <1>3 DEF Message
<1>5. /\ Back(Prevs(g)) /\ \A i \in 0..Len(f) : Chain(Prevs(g), i) = Chain(Prevs(f), i)
      /\ Chain(Prevs(g), Len(f) + 1) = <<Len(f) + 1>> \o Chain(Prevs(f), x.prev)
  <2>1. PICK links, more : links = Prevs(f) /\ more = Prevs(g)
    OBVIOUS
  <2>2. Back(links) /\ x.prev \in 0..Len(links) /\ more = Append(links, x.prev)
    BY <1>1, <1>2, <1>3, <1>4, <2>1
  <2>3. /\ Back(more) /\ \A i \in 0..Len(links) : Chain(more, i) = Chain(links, i)
        /\ Chain(more, Len(links) + 1) = <<Len(links) + 1>> \o Chain(links, x.prev)
    BY ONLY ZenonT(40), <2>2, ChainStays
  <2> QED
    BY <1>3, <2>1, <2>3
<1>6. /\ Back(Posters(g)) /\ \A i \in 0..Len(f) : Chain(Posters(g), i) = Chain(Posters(f), i)
      /\ Chain(Posters(g), Len(f) + 1) = <<Len(f) + 1>> \o Chain(Posters(f), x.posterPrev)
  <2>1. PICK links, more : links = Posters(f) /\ more = Posters(g)
    OBVIOUS
  <2>2. Back(links) /\ x.posterPrev \in 0..Len(links) /\ more = Append(links, x.posterPrev)
    BY <1>1, <1>2, <1>3, <1>4, <2>1
  <2>3. /\ Back(more) /\ \A i \in 0..Len(links) : Chain(more, i) = Chain(links, i)
        /\ Chain(more, Len(links) + 1) = <<Len(links) + 1>> \o Chain(links, x.posterPrev)
    BY ONLY <2>2, ChainStays
  <2> QED
    BY <1>3, <2>1, <2>3
<1> QED
  BY <1>2, <1>3, <1>5, <1>6 DEF Grown, FileRight

-----------------------------------------------------------------------------
(***************************************************************************)
(* Favourites. The one pass that makes room for a new one moves all        *)
(* numbers between the place it gets and the first empty place by one,     *)
(* upwards or downwards, and nothing else.                                 *)
(***************************************************************************)
FavLists == [1..Favs -> Threads \cup {0}]

LEMMA FavFacts ==
    ASSUME UserRecordsConstants, NEW favs \in FavLists
    PROVE  /\ Favs \in Nat \ {0} /\ favs \in Seq(Nat) /\ Len(favs) = Favs /\ DOMAIN favs = 1..Favs
           /\ \A i \in 1..Favs : favs[i] \in Threads \cup {0} /\ favs[i] \in Nat
           /\ \A x : x \in ToSet(favs) <=> \E i \in 1..Favs : favs[i] = x
<1>1. Favs \in Nat \ {0} /\ Threads \subseteq Nat
  BY DEF UserRecordsConstants
<1>2. DOMAIN favs = 1..Favs /\ \A i \in 1..Favs : favs[i] \in Threads \cup {0} /\ favs[i] \in Nat
  <2>1. \A x \in Threads \cup {0} : x \in Nat
    BY <1>1
  <2>2. DOMAIN favs = 1..Favs /\ \A i \in 1..Favs : favs[i] \in Threads \cup {0}
    BY DEF FavLists
  <2> QED
    BY <2>1, <2>2
<1>3. favs \in [1..Favs -> Nat]
  <2>1. favs = [i \in 1..Favs |-> favs[i]]
    BY DEF FavLists
  <2> QED
    BY <1>2, <2>1
<1>4. favs \in Seq(Nat) /\ Len(favs) = Favs
  BY <1>1, <1>3
<1> QED
  BY <1>1, <1>2, <1>4 DEF ToSet

\* A set of places has a last one.
LEMMA HasGreatest ==
    ASSUME NEW n \in Nat, NEW I \in SUBSET (1..n), I # {}
    PROVE  Max(I) \in I /\ \A i \in I : i <= Max(I)
<1>1. PICK T : T = {k \in 0..n : n - k \in I}
  OBVIOUS
<1>2. T \in SUBSET Nat /\ T # {}
  <2>1. PICK i : i \in I
    OBVIOUS
  <2>2. i \in 1..n /\ n - i \in 0..n /\ n - (n - i) = i
    BY <2>1
  <2>3. n - i \in T
    BY <1>1, <2>1, <2>2
  <2> QED
    BY <1>1, <2>3
<1>3. PICK k \in T : \A l \in T : k <= l
  BY <1>2, HasLeast
<1>4. k \in 0..n /\ n - k \in I
  BY <1>1, <1>3
<1>5. ASSUME NEW i \in I PROVE n - k >= i
  <2>1. i \in 1..n /\ n - i \in 0..n /\ n - (n - i) = i
    OBVIOUS
  <2>2. n - i \in T
    BY <1>1, <2>1
  <2> QED
    BY <1>3, <1>4, <2>1, <2>2
<1>6. Max(I) \in I /\ \A i \in I : Max(I) >= i
  BY <1>4, <1>5 DEF Max
<1> QED
  BY <1>6

LEMMA EmptyIs ==
    ASSUME UserRecordsConstants, NEW favs \in FavLists, NEW x \in ToSet(favs)
    PROVE  /\ SelectInSeq(favs, LAMBDA f : f = x) \in 1..Favs
           /\ favs[SelectInSeq(favs, LAMBDA f : f = x)] = x
<1>1. PICK I : I = {i \in 1..Len(favs) : favs[i] = x}
  OBVIOUS
<1>2. Favs \in Nat /\ Len(favs) = Favs /\ I \in SUBSET (1..Favs) /\ I # {}
  BY <1>1, FavFacts
<1>3. Min(I) \in I
  BY <1>2, SearchFacts
<1>4. SelectInSeq(favs, LAMBDA f : f = x) = Min(I)
  BY <1>1, <1>2 DEF SelectInSeq
<1> QED
  BY <1>1, <1>2, <1>3, <1>4

LEMMA BelowIs ==
    ASSUME UserRecordsConstants, NEW favs \in FavLists, NEW m \in Nat, NEW b, b = LastBelow(favs, m)
    PROVE  /\ b \in 0..Favs /\ (b > 0 => favs[b] # 0 /\ favs[b] < m)
           /\ \A j \in 1..Favs : favs[j] # 0 /\ favs[j] < m => j <= b
<1>1. PICK I : I = {i \in 1..Len(favs) : favs[i] # 0 /\ favs[i] < m}
  OBVIOUS
<1>2. Favs \in Nat /\ Len(favs) = Favs /\ I \in SUBSET (1..Favs)
  BY <1>1, FavFacts
<1>3. b = IF I # {} THEN Max(I) ELSE 0
  BY <1>1 DEF LastBelow, SelectLastInSeq
<1>4. I # {} => b \in I /\ \A i \in I : i <= b
  BY <1>2, <1>3, HasGreatest
<1>5. \A j \in 1..Favs : favs[j] # 0 /\ favs[j] < m => j \in I
  BY <1>1, <1>2
<1>6. CASE I = {}
  BY <1>2, <1>3, <1>5, <1>6
<1>7. CASE I # {}
  <2>1. b \in 1..Favs /\ favs[b] # 0 /\ favs[b] < m
    BY <1>1, <1>2, <1>4, <1>7
  <2> QED
    BY <1>4, <1>5, <1>7, <2>1
<1> QED
  BY <1>6, <1>7

\* Where every number is after m was put in: between the empty place e, which is
\* filled, and place b or the one behind, all move up by one place.
Moved(favs, m, e, b) ==
    [j \in 1..Favs |->
        IF e > b
            THEN IF j = b + 1 THEN m ELSE IF b + 1 < j /\ j <= e THEN favs[j - 1] ELSE favs[j]
            ELSE IF j = b THEN m ELSE IF e <= j /\ j < b THEN favs[j + 1] ELSE favs[j]]

\* The pass, place by place.
LEMMA PassIs ==
    ASSUME UserRecordsConstants, NEW favs, NEW m
    PROVE  \E pass :
              /\ pass[0] = [favs |-> favs, prev |-> 0, m |-> m, over |-> FALSE]
              /\ \A i \in 1..Favs :
                    pass[i] = PassPlace(FirstEmptyFav(favs), LastBelow(favs, m), pass[i - 1], i)
              /\ AddFav(favs, m) = [pass[Favs].favs EXCEPT ![Favs] = pass[Favs].prev]
<1> DEFINE start == [favs |-> favs, prev |-> 0, m |-> m, over |-> FALSE]
           place(acc, i) == PassPlace(FirstEmptyFav(favs), LastBelow(favs, m), acc, i)
           step(f, n) == [i \in 0..n |-> IF i = 0 THEN start ELSE place(f[i - 1], i)]
           T == {n \in 0..Favs : ~ \E f : f = step(f, n)}
<1>1. Favs \in Nat
  BY DEF UserRecordsConstants
<1> HIDE DEF start, place
<1>2. T = {}
  <2> SUFFICES ASSUME T # {} PROVE FALSE
    OBVIOUS
  <2>1. PICK n \in T : \A y \in T : n <= y
    <3>1. T \in SUBSET Nat
      BY <1>1
    <3> HIDE DEF T
    <3> QED
      BY <3>1, HasLeast
  <2>2. n # 0
    <3>1. [i \in 0..0 |-> start] = step([i \in 0..0 |-> start], 0)
      OBVIOUS
    <3> QED
      BY <2>1, <3>1
  <2>3. n \in 1..Favs /\ n - 1 \in 0..Favs /\ n - 1 \notin T
    <3>1. n \in 1..Favs /\ n - 1 \in 0..Favs /\ ~(n <= n - 1)
      BY <1>1, <2>1, <2>2
    <3> HIDE DEF T
    <3> QED
      BY <2>1, <3>1
  <2>4. PICK h : h = step(h, n - 1)
    BY <2>3
  <2> DEFINE g == [i \in 0..n |-> IF i = n THEN place(h[n - 1], n) ELSE h[i]]
  <2>5. ASSUME NEW i \in 0..n PROVE g[i] = step(g, n)[i]
    <3>1. CASE i = 0
      BY <2>3, <2>4, <3>1
    <3>2. CASE i = n
      BY <2>3, <3>2
    <3>3. CASE i # 0 /\ i # n
      <4>1. i \in 1..(n - 1) /\ i - 1 \in 0..n /\ i - 1 # n
        BY <1>1, <2>3, <3>3
      <4>2. g[i] = h[i] /\ g[i - 1] = h[i - 1]
        BY <3>3, <4>1
      <4>3. step(h, n - 1)[i] = place(h[i - 1], i)
        BY <2>3, <4>1
      <4>4. h[i] = place(h[i - 1], i)
        <5> HIDE DEF step
        <5> QED
          BY <2>4, <4>3
      <4>5. step(g, n)[i] = place(g[i - 1], i)
        BY <3>3
      <4> HIDE DEF g, step
      <4> QED
        BY <4>2, <4>4, <4>5
    <3> QED
      BY <3>1, <3>2, <3>3
  <2>6. g = step(g, n)
    BY <2>5
  <2> QED
    BY <2>1, <2>6
<1> DEFINE pass == CHOOSE f : f = step(f, Favs)
<1>3. pass = step(pass, Favs)
  <2>1. Favs \in 0..Favs
    BY <1>1
  <2>2. \E f : f = step(f, Favs)
    <3> HIDE DEF step
    <3> QED
      BY <1>2, <2>1
  <2> HIDE DEF step
  <2> QED
    BY <2>2
<1>4. AddFav(favs, m) = [pass[Favs].favs EXCEPT ![Favs] = pass[Favs].prev]
  BY DEF AddFav, start, place
<1> HIDE DEF pass
<1>5. pass[0] = start
  BY <1>1, <1>3
<1>6. ASSUME NEW i \in 1..Favs PROVE pass[i] = place(pass[i - 1], i)
  <2>1. i \in 0..Favs /\ i # 0
    BY <1>1
  <2>2. step(pass, Favs)[i] = place(pass[i - 1], i)
    BY <2>1
  <2> HIDE DEF step
  <2> QED
    BY <1>3, <2>2
<1> QED
  BY <1>4, <1>5, <1>6 DEF start, place

\* What is true behind place i: places before it are done, prev is what place i is
\* to have, and m the number that is still to be placed.
Along(acc, i, favs, m, e, b) ==
    /\ acc \in [favs : [1..Favs -> Nat], prev : Nat, m : Nat, over : BOOLEAN]
    /\ acc.over => /\ \A j \in 1..Favs : acc.favs[j] = Moved(favs, m, e, b)[j]
                   /\ acc.prev = Moved(favs, m, e, b)[Favs]
    /\ ~acc.over =>
          /\ \A j \in 1..Favs : acc.favs[j] = IF j < i THEN Moved(favs, m, e, b)[j] ELSE favs[j]
          /\ i > 0 => acc.prev = Moved(favs, m, e, b)[i]
          /\ e > b => (i <= b => acc.m = m) /\ (b < i /\ i <= e => acc.m = favs[i])
          /\ e < b => (i < b => acc.m = m)

LEMMA AlongStep ==
    ASSUME UserRecordsConstants, NEW favs \in FavLists, NEW m \in Nat, NEW e \in 1..Favs,
           NEW b \in 0..Favs, e # b, NEW i \in 1..Favs, NEW acc, Along(acc, i - 1, favs, m, e, b),
           NEW new, new = PassPlace(e, b, acc, i)
    PROVE  Along(new, i, favs, m, e, b)
<1>1. PICK moved : moved = Moved(favs, m, e, b)
  OBVIOUS
<1>2. /\ Favs \in Nat \ {0} /\ \A j \in 1..Favs : favs[j] \in Nat
      /\ \A j \in 1..Favs : moved[j] \in Nat
      /\ e > b => /\ moved[b + 1] = m
                  /\ \A j \in 1..Favs : j <= b \/ j > e => moved[j] = favs[j]
                  /\ \A j \in 1..Favs : b + 1 < j /\ j <= e => moved[j] = favs[j - 1]
      /\ e < b => /\ moved[b] = m
                  /\ \A j \in 1..Favs : j < e \/ j > b => moved[j] = favs[j]
                  /\ \A j \in 1..Favs : e <= j /\ j < b => moved[j] = favs[j + 1]
  <2>1. Favs \in Nat \ {0} /\ \A j \in 1..Favs : favs[j] \in Nat
    BY FavFacts
  <2>2. \A j \in 1..Favs : moved[j] =
            IF e > b
            THEN IF j = b + 1 THEN m ELSE IF b + 1 < j /\ j <= e THEN favs[j - 1] ELSE favs[j]
            ELSE IF j = b THEN m ELSE IF e <= j /\ j < b THEN favs[j + 1] ELSE favs[j]
    BY <1>1 DEF Moved
  <2>3. \A j \in 1..Favs : moved[j] \in Nat
    <3> TAKE j \in 1..Favs
    <3>1. /\ (b + 1 < j => j - 1 \in 1..Favs) /\ (e <= j /\ j < b => j + 1 \in 1..Favs)
      BY <2>1
    <3> QED
      BY <2>1, <2>2, <3>1
  <2>4. e > b => /\ moved[b + 1] = m
                 /\ \A j \in 1..Favs : j <= b \/ j > e => moved[j] = favs[j]
                 /\ \A j \in 1..Favs : b + 1 < j /\ j <= e => moved[j] = favs[j - 1]
    <3>1. e > b => b + 1 \in 1..Favs
      BY <2>1
    <3> QED
      BY <2>1, <2>2, <3>1
  <2>5. e < b => /\ moved[b] = m
                 /\ \A j \in 1..Favs : j < e \/ j > b => moved[j] = favs[j]
                 /\ \A j \in 1..Favs : e <= j /\ j < b => moved[j] = favs[j + 1]
    <3>1. e < b => b \in 1..Favs /\ ~(e > b)
      BY <2>1
    <3> QED
      BY <2>1, <2>2, <3>1
  <2> QED
    BY <2>1, <2>3, <2>4, <2>5
<1>3. /\ acc \in [favs : [1..Favs -> Nat], prev : Nat, m : Nat, over : BOOLEAN]
      /\ acc.over => (\A j \in 1..Favs : acc.favs[j] = moved[j]) /\ acc.prev = moved[Favs]
      /\ ~acc.over =>
            /\ \A j \in 1..Favs : acc.favs[j] = IF j < i - 1 THEN moved[j] ELSE favs[j]
            /\ i - 1 > 0 => acc.prev = moved[i - 1]
            /\ e > b => (i - 1 <= b => acc.m = m)
                        /\ (b < i - 1 /\ i - 1 <= e => acc.m = favs[i - 1])
            /\ e < b => (i - 1 < b => acc.m = m)
  BY <1>1 DEF Along
<1>4. PICK back : back = IF i > 1 THEN [acc.favs EXCEPT ![i - 1] = acc.prev] ELSE acc.favs
  OBVIOUS
<1>5. /\ back \in [1..Favs -> Nat]
      /\ ~acc.over => \A j \in 1..Favs : back[j] = IF j < i THEN moved[j] ELSE favs[j]
  <2>1. CASE i > 1
    <3>1. i - 1 \in 1..Favs /\ i - 1 > 0
      BY <1>2, <2>1
    <3>2. back = [acc.favs EXCEPT ![i - 1] = acc.prev] /\ back \in [1..Favs -> Nat]
      BY <1>3, <1>4, <2>1, <3>1
    <3>3. \A j \in 1..Favs : back[j] = IF j = i - 1 THEN acc.prev ELSE acc.favs[j]
      BY <1>3, <3>1, <3>2
    <3>4. ASSUME ~acc.over, NEW j \in 1..Favs PROVE back[j] = IF j < i THEN moved[j] ELSE favs[j]
      <4>1. CASE j = i - 1
        BY <1>3, <3>1, <3>3, <3>4, <4>1
      <4>2. CASE j # i - 1
        <5>1. j < i - 1 <=> j < i
          BY <4>2
        <5> QED
          BY <1>3, <3>3, <3>4, <4>2, <5>1
      <4> QED
        BY <4>1, <4>2
    <3> QED
      BY <3>2, <3>4
  <2>2. CASE ~(i > 1)
    <3>1. back = acc.favs /\ \A j \in 1..Favs : ~(j < i) /\ ~(j < i - 1)
      BY <1>4, <2>2
    <3> QED
      BY <1>3, <3>1
  <2> QED
    BY <2>1, <2>2
<1>6. SUFFICES
        /\ new \in [favs : [1..Favs -> Nat], prev : Nat, m : Nat, over : BOOLEAN]
        /\ new.over => (\A j \in 1..Favs : new.favs[j] = moved[j]) /\ new.prev = moved[Favs]
        /\ ~new.over =>
              /\ \A j \in 1..Favs : new.favs[j] = IF j < i THEN moved[j] ELSE favs[j]
              /\ i > 0 => new.prev = moved[i]
              /\ e > b => (i <= b => new.m = m) /\ (b < i /\ i <= e => new.m = favs[i])
              /\ e < b => (i < b => new.m = m)
  BY <1>1 DEF Along
<1>7. CASE acc.over
  <2>1. new = acc
    BY <1>7 DEF PassPlace
  <2> QED
    BY <1>3, <1>7, <2>1
<1>8. CASE ~acc.over /\ i - 1 > b /\ i - 1 > e
  <2>1. new = [acc EXCEPT !.prev = acc.favs[Favs], !.over = TRUE]
    BY <1>8 DEF PassPlace
  <2>2. \A j \in 1..Favs : j >= i - 1 => moved[j] = favs[j]
    BY <1>2, <1>8
  <2>3. \A j \in 1..Favs : acc.favs[j] = moved[j]
    BY <1>3, <1>8, <2>2
  <2>4. Favs \in 1..Favs
    BY <1>2
  <2> QED
    BY <1>3, <2>1, <2>3, <2>4
<1>9. CASE ~acc.over /\ ~(i - 1 > b /\ i - 1 > e)
  <2>1. new =
          CASE i + 1 > e /\ i < b -> [acc EXCEPT !.favs = back, !.prev = back[i + 1]]
            [] (i > b /\ i - 1 < e) \/ (i = b /\ i + 1 > e) ->
                  [acc EXCEPT !.favs = back, !.prev = acc.m, !.m = back[i]]
            [] OTHER -> [acc EXCEPT !.favs = back, !.prev = back[i]]
    BY <1>4, <1>9 DEF PassPlace
  <2>2. CASE i + 1 > e /\ i < b
    <3>1. new = [acc EXCEPT !.favs = back, !.prev = back[i + 1]]
      BY <2>1, <2>2
    <3>2. e < b /\ e <= i /\ i + 1 \in 1..Favs
      BY <1>2, <2>2
    <3>3. back[i + 1] = moved[i]
      <4>1. back[i + 1] = favs[i + 1]
        BY <1>5, <1>9, <3>2
      <4>2. moved[i] = favs[i + 1]
        BY <1>2, <2>2, <3>2
      <4> QED
        BY <4>1, <4>2
    <3>4. /\ new.favs = back /\ new.prev = moved[i] /\ new.m = acc.m /\ new.over = acc.over
          /\ new \in [favs : [1..Favs -> Nat], prev : Nat, m : Nat, over : BOOLEAN]
      BY <1>2, <1>3, <1>5, <3>1, <3>3
    <3> QED
      BY <1>3, <1>5, <1>9, <2>2, <3>2, <3>4
  <2>3. CASE (i > b /\ i - 1 < e) \/ (i = b /\ i + 1 > e)
    <3>1. new = [acc EXCEPT !.favs = back, !.prev = acc.m, !.m = back[i]]
      BY <2>1, <2>3
    <3>2. back[i] = favs[i] /\ favs[i] \in Nat
      BY <1>2, <1>5, <1>9
    <3>3. acc.m = moved[i]
      <4>1. CASE i > b /\ i - 1 < e
        <5>1. e > b /\ i <= e
          BY <4>1
        <5>2. CASE i = b + 1
          BY <1>2, <1>3, <1>9, <5>1, <5>2
        <5>3. CASE i # b + 1
          BY SMTT(40), <1>2, <1>3, <1>9, <4>1, <5>1, <5>3
        <5> QED
          BY <5>2, <5>3
      <4>2. CASE i = b /\ i + 1 > e
        <5>1. e < b /\ i - 1 < b
          BY <4>2
        <5> QED
          BY <1>2, <1>3, <1>9, <4>2, <5>1
      <4> QED
        BY <2>3, <4>1, <4>2
    <3>4. /\ new.favs = back /\ new.prev = moved[i] /\ new.m = favs[i] /\ new.over = acc.over
          /\ new \in [favs : [1..Favs -> Nat], prev : Nat, m : Nat, over : BOOLEAN]
      BY <1>2, <1>3, <1>5, <3>1, <3>2, <3>3
    <3>5. ~(i <= b /\ e > b) /\ ~(i < b)
      BY <2>3
    <3> QED
      BY <1>3, <1>5, <1>9, <2>3, <3>4, <3>5
  <2>4. CASE ~(i + 1 > e /\ i < b) /\ ~(i > b /\ i - 1 < e) /\ ~(i = b /\ i + 1 > e)
    <3>1. new = [acc EXCEPT !.favs = back, !.prev = back[i]]
      BY <2>1, <2>4
    <3>2. back[i] = favs[i] /\ favs[i] \in Nat
      BY <1>2, <1>5, <1>9
    <3>3. moved[i] = favs[i]
      <4>1. CASE e > b
        <5>1. i <= b \/ i > e
          BY <2>4
        <5> QED
          BY <1>2, <4>1, <5>1
      <4>2. CASE e < b
        <5>1. i < e \/ i > b
          BY <2>4, <4>2
        <5> QED
          BY <1>2, <4>2, <5>1
      <4> QED
        BY <4>1, <4>2
    <3>4. /\ new.favs = back /\ new.prev = moved[i] /\ new.m = acc.m /\ new.over = acc.over
          /\ new \in [favs : [1..Favs -> Nat], prev : Nat, m : Nat, over : BOOLEAN]
      BY <1>2, <1>3, <1>5, <3>1, <3>2, <3>3
    <3>5. ~(b < i /\ i <= e)
      BY <2>4
    <3>6. e > b /\ i <= b => new.m = m
      BY <1>3, <1>9, <3>4
    <3>7. e < b /\ i < b => new.m = m
      BY <1>3, <1>9, <3>4
    <3> QED
      BY <1>5, <1>9, <3>4, <3>5, <3>6, <3>7
  <2> QED
    BY <2>2, <2>3, <2>4
<1> QED
  BY <1>7, <1>8, <1>9

LEMMA AddFavIs ==
    ASSUME UserRecordsConstants, NEW favs \in FavLists, NEW m \in Nat, 0 \in ToSet(favs)
    PROVE  \E e \in 1..Favs, b \in 0..Favs :
              /\ e # b /\ favs[e] = 0 /\ (b > 0 => favs[b] # 0 /\ favs[b] < m)
              /\ \A j \in 1..Favs : favs[j] # 0 /\ favs[j] < m => j <= b
              /\ AddFav(favs, m) = Moved(favs, m, e, b)
<1>1. PICK e, b : e = FirstEmptyFav(favs) /\ b = LastBelow(favs, m)
  OBVIOUS
<1>2. e \in 1..Favs /\ favs[e] = 0
  BY <1>1, EmptyIs DEF FirstEmptyFav
<1>3. /\ b \in 0..Favs /\ (b > 0 => favs[b] # 0 /\ favs[b] < m)
      /\ \A j \in 1..Favs : favs[j] # 0 /\ favs[j] < m => j <= b
  BY <1>1, BelowIs
<1>4. e # b /\ Favs \in Nat \ {0} /\ \A j \in 1..Favs : favs[j] \in Nat
  BY <1>2, <1>3, FavFacts
<1>5. PICK pass :
        /\ pass[0] = [favs |-> favs, prev |-> 0, m |-> m, over |-> FALSE]
        /\ \A i \in 1..Favs : pass[i] = PassPlace(e, b, pass[i - 1], i)
        /\ AddFav(favs, m) = [pass[Favs].favs EXCEPT ![Favs] = pass[Favs].prev]
  BY <1>1, PassIs
<1>6. Along(pass[0], 0, favs, m, e, b)
  <2>1. favs \in [1..Favs -> Nat]
    <3>1. favs = [j \in 1..Favs |-> favs[j]]
      BY DEF FavLists
    <3> QED
      BY <1>4, <3>1
  <2>2. /\ pass[0] \in [favs : [1..Favs -> Nat], prev : Nat, m : Nat, over : BOOLEAN]
        /\ pass[0].favs = favs /\ pass[0].m = m /\ ~pass[0].over
    BY <1>5, <2>1
  <2> QED
    BY <1>2, <1>3, <1>4, <2>2 DEF Along
<1>7. PICK T : T = {i \in 0..Favs : ~Along(pass[i], i, favs, m, e, b)}
  OBVIOUS
<1>8. T = {}
  <2> SUFFICES ASSUME T # {} PROVE FALSE
    OBVIOUS
  <2>1. PICK i \in T : \A j \in T : i <= j
    <3>1. T \in SUBSET Nat
      BY <1>4, <1>7
    <3> QED
      BY <3>1, HasLeast
  <2>2. i \in 1..Favs /\ i - 1 \in 0..Favs /\ i - 1 \notin T
    BY <1>4, <1>6, <1>7, <2>1
  <2>3. Along(pass[i - 1], i - 1, favs, m, e, b)
    BY <1>7, <2>2
  <2>4. Along(pass[i], i, favs, m, e, b)
    BY <1>2, <1>3, <1>4, <1>5, <2>2, <2>3, AlongStep
  <2> QED
    BY <1>7, <2>1, <2>4
<1>9. Along(pass[Favs], Favs, favs, m, e, b)
  BY <1>4, <1>7, <1>8
<1>10. PICK end, moved : end = pass[Favs] /\ moved = Moved(favs, m, e, b)
  OBVIOUS
<1>11. /\ end.favs \in [1..Favs -> Nat] /\ end.prev = moved[Favs]
       /\ \A j \in 1..Favs : j # Favs => end.favs[j] = moved[j]
  BY <1>4, <1>9, <1>10 DEF Along
<1>12. [end.favs EXCEPT ![Favs] = end.prev] = moved
  <2>1. DOMAIN moved = 1..Favs /\ moved = [j \in 1..Favs |-> moved[j]]
    BY <1>10 DEF Moved
  <2> QED
    BY <1>4, <1>11, <2>1
<1> QED
  BY <1>2, <1>3, <1>4, <1>5, <1>10, <1>12

\* Adding a favourite keeps those there are and their order.
LEMMA AddFavRight ==
    ASSUME UserRecordsConstants, NEW favs \in FavLists, InOrder(favs), NEW m \in Threads,
           m \notin ToSet(favs), 0 \in ToSet(favs), NEW new, new = AddFav(favs, m)
    PROVE  /\ new \in FavLists /\ InOrder(new)
           /\ ToSet(new) \ {0} = (ToSet(favs) \ {0}) \cup {m}
<1>1. m \in Nat \ {0}
  BY DEF UserRecordsConstants
<1>2. PICK e \in 1..Favs, b \in 0..Favs :
              /\ e # b /\ favs[e] = 0 /\ (b > 0 => favs[b] # 0 /\ favs[b] < m)
              /\ \A j \in 1..Favs : favs[j] # 0 /\ favs[j] < m => j <= b
              /\ new = Moved(favs, m, e, b)
  BY <1>1, AddFavIs
<1>3. /\ Favs \in Nat \ {0}
      /\ \A i \in 1..Favs : favs[i] \in Threads \cup {0} /\ favs[i] \in Nat /\ favs[i] # m
      /\ \A x : x \in ToSet(favs) <=> \E i \in 1..Favs : favs[i] = x
  BY FavFacts
<1>4. PICK at, src :
        /\ at = IF e > b THEN b + 1 ELSE b
        /\ src = [j \in 1..Favs |->
                    IF e > b THEN IF b + 1 < j /\ j <= e THEN j - 1 ELSE j
                    ELSE IF e <= j /\ j < b THEN j + 1 ELSE j]
  OBVIOUS
<1>5. \A j \in 1..Favs : src[j] =
          IF e > b THEN IF b + 1 < j /\ j <= e THEN j - 1 ELSE j
          ELSE IF e <= j /\ j < b THEN j + 1 ELSE j
  BY <1>4
<1>6. at \in 1..Favs
  BY <1>2, <1>3, <1>4
<1>7. ASSUME NEW j \in 1..Favs, j # at
      PROVE  /\ src[j] \in 1..Favs /\ src[j] # e
             /\ (j < at => src[j] <= b /\ b > 0) /\ (j > at => src[j] > b)
             /\ \A k \in 1..Favs : k # at /\ j < k => src[j] < src[k]
  <2>1. src[j] \in 1..Favs /\ src[j] # e
    BY <1>2, <1>3, <1>4, <1>5, <1>7
  <2>2. (j < at => src[j] <= b /\ b > 0) /\ (j > at => src[j] > b)
    BY <1>2, <1>3, <1>4, <1>5, <1>7
  <2>3. ASSUME NEW k \in 1..Favs, k # at, j < k PROVE src[j] < src[k]
    BY <1>2, <1>3, <1>4, <1>5, <1>7, <2>3
  <2> QED
    BY <2>1, <2>2, <2>3
<1>8. /\ new[at] = m /\ \A j \in 1..Favs : j # at => new[j] = favs[src[j]]
      /\ DOMAIN new = 1..Favs /\ new = [j \in 1..Favs |-> new[j]]
  BY <1>2, <1>4, <1>5, <1>6 DEF Moved
<1>9. new \in FavLists
  <2>1. \A j \in 1..Favs : new[j] \in Threads \cup {0}
    BY <1>3, <1>7, <1>8
  <2> QED
    BY <1>8, <2>1 DEF FavLists
<1>10. InOrder(new)
  <2>1. SUFFICES ASSUME NEW i \in 1..Favs, NEW j \in 1..Favs, i < j, new[i] # 0, new[j] # 0
                 PROVE  new[i] < new[j]
    BY DEF InOrder
  <2>2. CASE i # at /\ j # at
    <3>1. /\ src[i] \in 1..Favs /\ src[j] \in 1..Favs /\ src[i] < src[j]
          /\ new[i] = favs[src[i]] /\ new[j] = favs[src[j]]
      BY <1>7, <1>8, <2>1, <2>2
    <3> QED
      BY <2>1, <3>1 DEF InOrder
  <2>3. CASE i = at
    <3>1. j # at /\ j > at
      BY <1>6, <2>1, <2>3
    <3>2. src[j] \in 1..Favs /\ src[j] > b /\ new[j] = favs[src[j]]
      BY <1>7, <1>8, <3>1
    <3>3. favs[src[j]] # 0 /\ favs[src[j]] # m /\ favs[src[j]] \in Nat
      BY <1>3, <2>1, <3>2
    <3>4. ~(favs[src[j]] < m)
      BY <1>2, <1>3, <3>2, <3>3
    <3> QED
      BY <1>1, <1>8, <2>3, <3>2, <3>3, <3>4
  <2>4. CASE j = at
    <3>1. i # at /\ i < at
      BY <1>6, <2>1, <2>4
    <3>2. /\ src[i] \in 1..Favs /\ src[i] <= b /\ b \in 1..Favs /\ new[i] = favs[src[i]]
          /\ favs[b] # 0 /\ favs[b] < m /\ favs[b] \in Nat
      BY <1>2, <1>3, <1>7, <1>8, <3>1
    <3>3. favs[src[i]] # 0 /\ favs[src[i]] \in Nat
      BY <1>3, <2>1, <3>2
    <3>4. src[i] = b \/ favs[src[i]] < favs[b]
      BY <3>2, <3>3 DEF InOrder
    <3> QED
      BY <1>1, <1>8, <2>4, <3>2, <3>3, <3>4
  <2> QED
    BY <2>2, <2>3, <2>4
<1>11. ASSUME NEW k \in 1..Favs, k # e PROVE \E j \in 1..Favs : j # at /\ src[j] = k
  <2>1. CASE e > b
    <3>1. CASE b + 1 <= k /\ k < e
      <4>1. k + 1 \in 1..Favs /\ k + 1 # at /\ src[k + 1] = k
        BY <1>3, <1>4, <1>5, <2>1, <3>1
      <4> QED
        BY <4>1
    <3>2. CASE ~(b + 1 <= k /\ k < e)
      <4>1. k # at /\ src[k] = k
        BY <1>3, <1>4, <1>5, <1>11, <2>1, <3>2
      <4> QED
        BY <4>1
    <3> QED
      BY <3>1, <3>2
  <2>2. CASE e < b
    <3>1. CASE e < k /\ k <= b
      <4>1. k - 1 \in 1..Favs /\ k - 1 # at /\ src[k - 1] = k
        BY <1>3, <1>4, <1>5, <2>2, <3>1
      <4> QED
        BY <4>1
    <3>2. CASE ~(e < k /\ k <= b)
      <4>1. k # at /\ src[k] = k
        BY <1>3, <1>4, <1>5, <1>11, <2>2, <3>2
      <4> QED
        BY <4>1
    <3> QED
      BY <3>1, <3>2
  <2> QED
    BY <1>2, <1>3, <2>1, <2>2
<1>12. \A x : x \in ToSet(new) <=> \E i \in 1..Favs : new[i] = x
  BY <1>8 DEF ToSet
<1>13. ASSUME NEW x PROVE x \in ToSet(new) \ {0} <=> x \in ToSet(favs) \ {0} \/ x = m
  <2>1. ASSUME x \in ToSet(new), x # 0, x # m PROVE x \in ToSet(favs)
    <3>1. PICK j \in 1..Favs : new[j] = x
      BY <1>12, <2>1
    <3>2. j # at /\ x = favs[src[j]] /\ src[j] \in 1..Favs
      BY <1>7, <1>8, <2>1, <3>1
    <3> QED
      BY <1>3, <3>2
  <2>2. ASSUME x \in ToSet(favs), x # 0 PROVE x \in ToSet(new)
    <3>1. PICK k \in 1..Favs : favs[k] = x
      BY <1>3, <2>2
    <3>2. PICK j \in 1..Favs : j # at /\ src[j] = k
      BY <1>2, <1>11, <2>2, <3>1
    <3> QED
      BY <1>8, <1>12, <3>1, <3>2
  <2>3. m \in ToSet(new) /\ m # 0
    BY <1>1, <1>6, <1>8, <1>12
  <2> QED
    BY <2>1, <2>2, <2>3
<1> QED
  BY <1>9, <1>10, <1>13

\* Places may be emptied at any time.
LEMMA EmptiedRight ==
    ASSUME UserRecordsConstants, NEW favs \in FavLists, InOrder(favs),
           NEW new, new = [i \in 1..Favs |-> new[i]], \A i \in 1..Favs : new[i] \in {0, favs[i]}
    PROVE  new \in FavLists /\ InOrder(new)
<1>1. \A i \in 1..Favs : new[i] \in Threads \cup {0}
  BY DEF FavLists
<1>2. new \in FavLists
  BY <1>1 DEF FavLists
<1>3. InOrder(new)
  <2>1. SUFFICES ASSUME NEW i \in 1..Favs, NEW j \in 1..Favs, i < j, new[i] # 0, new[j] # 0
                 PROVE  new[i] < new[j]
    BY DEF InOrder
  <2>2. new[i] = favs[i] /\ new[j] = favs[j]
    BY <2>1
  <2> QED
    BY <2>1, <2>2 DEF InOrder
<1> QED
  BY <1>2, <1>3

LEMMA DelFavRight ==
    ASSUME UserRecordsConstants, NEW favs \in FavLists, InOrder(favs), NEW m \in ToSet(favs),
           NEW new, new = [favs EXCEPT ![SelectInSeq(favs, LAMBDA f : f = m)] = 0]
    PROVE  /\ new \in FavLists /\ InOrder(new)
           /\ ToSet(new) \ {0} = ToSet(favs) \ {0, m}
<1>1. PICK at : at = SelectInSeq(favs, LAMBDA f : f = m)
  OBVIOUS
<1>2. at \in 1..Favs /\ favs[at] = m
  BY <1>1, EmptyIs
<1>3. /\ Favs \in Nat /\ DOMAIN favs = 1..Favs /\ favs = [i \in 1..Favs |-> favs[i]]
      /\ \A i \in 1..Favs : favs[i] \in Nat
      /\ \A x : x \in ToSet(favs) <=> \E i \in 1..Favs : favs[i] = x
  BY FavFacts DEF FavLists
<1>4. /\ new = [i \in 1..Favs |-> new[i]] /\ DOMAIN new = 1..Favs
      /\ new[at] = 0 /\ \A i \in 1..Favs : i # at => new[i] = favs[i]
  BY <1>1, <1>2, <1>3
<1>5. new \in FavLists /\ InOrder(new)
  BY <1>4, EmptiedRight
<1>6. \A x : x \in ToSet(new) <=> \E i \in 1..Favs : new[i] = x
  BY <1>4 DEF ToSet
<1>7. \A i \in 1..Favs : favs[i] = m /\ m # 0 => i = at
  BY <1>2, <1>3 DEF InOrder
<1>8. ASSUME NEW x PROVE x \in ToSet(new) \ {0} <=> x \in ToSet(favs) \ {0, m}
  <2>1. ASSUME x \in ToSet(new), x # 0 PROVE x \in ToSet(favs) /\ x # m
    <3>1. PICK i \in 1..Favs : new[i] = x
      BY <1>6, <2>1
    <3>2. i # at /\ favs[i] = x
      BY <1>4, <2>1, <3>1
    <3> QED
      BY <1>3, <1>7, <2>1, <3>2
  <2>2. ASSUME x \in ToSet(favs), x # 0, x # m PROVE x \in ToSet(new)
    <3>1. PICK i \in 1..Favs : favs[i] = x
      BY <1>3, <2>2
    <3>2. i # at
      BY <1>2, <2>2, <3>1
    <3> QED
      BY <1>4, <1>6, <3>1, <3>2
  <2> QED
    BY <2>1, <2>2
<1> QED
  BY <1>5, <1>8

-----------------------------------------------------------------------------
(***************************************************************************)
(* What is true of any record a request has in its memory, however old,    *)
(* and what a request knows at each of its steps.                          *)
(***************************************************************************)

\* A record of user u, as it is now or was once: what it counts is what its chains
\* have, but for the number posted in a record that was mixed (mx), and that is the
\* user's.
Records == [uniq : Users, persmsg : Nat, got : Nat, read : Nat,
            postedpersmsg : Nat, posted : Nat, favs : FavLists]

IsRecord(r) == r \in Records /\ InOrder(r.favs)

GotRight(f, i, n, u) ==
    /\ i \in 0..Len(f) /\ n = Len(Chain(Prevs(f), i))
    /\ \A k \in ToSet(Chain(Prevs(f), i)) : f[k].to = u

PostedRight(f, i, n, u, mx) ==
    /\ i \in 0..Len(f) /\ (u \notin mx => n = Len(Chain(Posters(f), i)))
    /\ \A k \in ToSet(Chain(Posters(f), i)) : f[k].from = u

Right(f, r, u, mx) ==
    /\ IsRecord(r) /\ r.uniq = u /\ r.read <= r.got
    /\ GotRight(f, r.persmsg, r.got, u)
    /\ PostedRight(f, r.postedpersmsg, r.posted, u, mx)

LEMMA ChainsInFile ==
    ASSUME NEW f, FileRight(f), NEW i \in 0..Len(f)
    PROVE  /\ Falling(Chain(Prevs(f), i), i) /\ Falling(Chain(Posters(f), i), i)
           /\ ToSet(Chain(Prevs(f), i)) \subseteq 1..Len(f)
           /\ ToSet(Chain(Posters(f), i)) \subseteq 1..Len(f)
<1>1. Len(Prevs(f)) = Len(f) /\ Len(Posters(f)) = Len(f) /\ Len(f) \in Nat
  BY LinksOf DEF FileRight
<1>2. Falling(Chain(Prevs(f), i), i) /\ Falling(Chain(Posters(f), i), i)
  BY <1>1, ChainFalls DEF FileRight
<1>3. ASSUME NEW s, Falling(s, i) PROVE ToSet(s) \subseteq 1..Len(f)
  <2>1. DOMAIN s = 1..Len(s)
    BY <1>3, LenProperties DEF Falling
  <2> QED
    BY <1>1, <1>3, <2>1 DEF Falling, ToSet
<1> QED
  BY <1>2, <1>3

\* A record stays right when more of them are mixed, and when the file grows.
LEMMA MixedRight ==
    ASSUME NEW f, NEW r, NEW u, NEW mx, NEW my, Right(f, r, u, mx), mx \subseteq my
    PROVE  Right(f, r, u, my)
  BY DEF Right, PostedRight

LEMMA StaysRight ==
    ASSUME NEW f, NEW x, NEW g, NEW mx, Grown(f, x, g), NEW r, NEW u, Right(f, r, u, mx)
    PROVE  Right(g, r, u, mx)
<1>1. FileRight(f) /\ Len(f) \in Nat /\ Len(g) = Len(f) + 1
  BY DEF Grown
<1>2. /\ r.persmsg \in 0..Len(f) /\ r.postedpersmsg \in 0..Len(f)
      /\ r.persmsg \in 0..Len(g) /\ r.postedpersmsg \in 0..Len(g)
  BY <1>1 DEF Right, GotRight, PostedRight
<1>3. /\ Chain(Prevs(g), r.persmsg) = Chain(Prevs(f), r.persmsg)
      /\ Chain(Posters(g), r.postedpersmsg) = Chain(Posters(f), r.postedpersmsg)
  BY <1>2 DEF Grown
<1>4. /\ ToSet(Chain(Prevs(f), r.persmsg)) \subseteq 1..Len(f)
      /\ ToSet(Chain(Posters(f), r.postedpersmsg)) \subseteq 1..Len(f)
  BY <1>1, <1>2, ChainsInFile
<1>5. \A k \in 1..Len(f) : g[k] = f[k]
  BY DEF Grown
<1>6. GotRight(g, r.persmsg, r.got, u)
  BY <1>2, <1>3, <1>4, <1>5 DEF Right, GotRight
<1>7. PostedRight(g, r.postedpersmsg, r.posted, u, mx)
  BY <1>2, <1>3, <1>4, <1>5 DEF Right, PostedRight
<1> QED
  BY <1>6, <1>7 DEF Right

\* The recipient's record, once the message is in the file, and the sender's.
LEMMA DeliveredRight ==
    ASSUME NEW f, NEW x, NEW g, NEW mx, Grown(f, x, g), NEW r, NEW u, Right(f, r, u, mx),
           x.to = u, x.prev = r.persmsg,
           NEW s, IsRecord(s), s.uniq = r.uniq, s.read = r.read, s.got = r.got + 1,
           s.persmsg = Len(f) + 1, s.postedpersmsg = r.postedpersmsg, s.posted = r.posted
    PROVE  Right(g, s, u, mx)
<1>1. /\ FileRight(f) /\ Len(f) \in Nat /\ Len(g) = Len(f) + 1
      /\ Right(g, r, u, mx) /\ IsRecord(r)
      /\ g[Len(f) + 1] = x /\ \A i \in 1..Len(f) : g[i] = f[i]
  <2>1. Right(g, r, u, mx)
    BY StaysRight
  <2> QED
    BY <2>1 DEF Grown, Right
<1>2. /\ IsRecord(s) /\ s.uniq = r.uniq /\ s.read = r.read /\ s.got = r.got + 1
      /\ s.persmsg = Len(g) /\ s.postedpersmsg = r.postedpersmsg /\ s.posted = r.posted
  BY <1>1
<1>3. r.persmsg \in 0..Len(f) /\ r.got = Len(Chain(Prevs(f), r.persmsg)) /\ r.got \in Nat
  BY <1>1 DEF Right, GotRight, IsRecord
<1>4. PICK old, new : old = Chain(Prevs(f), r.persmsg) /\ new = <<Len(g)>> \o old
  OBVIOUS
<1>5. Chain(Prevs(g), Len(g)) = new
  BY <1>4 DEF Grown
<1>6. Falling(old, r.persmsg) /\ ToSet(old) \subseteq 1..Len(f)
  BY <1>1, <1>3, <1>4, ChainsInFile
<1>7. Len(new) = Len(old) + 1 /\ ToSet(new) = {Len(g)} \cup ToSet(old)
  <2>1. Len(g) \in Nat \ {0} /\ r.persmsg \in 0..(Len(g) - 1)
    BY <1>1, <1>3
  <2> QED
    BY <1>4, <1>6, <2>1, FallingLonger
<1>8. \A k \in ToSet(new) : g[k].to = u
  BY <1>1, <1>4, <1>6, <1>7 DEF Right, GotRight
<1>9. GotRight(g, Len(g), r.got + 1, u)
  <2>1. Len(g) \in 0..Len(g) /\ r.got + 1 = Len(new)
    BY <1>1, <1>3, <1>4, <1>7
  <2> QED
    BY <1>5, <1>8, <2>1 DEF GotRight
<1>10. r.uniq = u /\ r.read <= r.got + 1 /\ PostedRight(g, r.postedpersmsg, r.posted, u, mx)
  BY <1>1 DEF Right, IsRecord, Records
<1> QED
  BY <1>2, <1>9, <1>10 DEF Right

LEMMA PostedIsRight ==
    ASSUME NEW g, FileRight(g), NEW r, NEW u, NEW mx, Right(g, r, u, mx), Len(g) > 0,
           g[Len(g)].from = u, NEW o, Right(g, o, u, mx),
           g[Len(g)].posterPrev = o.postedpersmsg,
           u \notin mx => o.postedpersmsg = r.postedpersmsg,
           NEW s, IsRecord(s), s.uniq = r.uniq, s.read = r.read, s.got = r.got,
           s.persmsg = r.persmsg, s.postedpersmsg = Len(g), s.posted = r.posted + 1
    PROVE  Right(g, s, u, mx)
<1>1. /\ Len(g) \in Nat /\ Len(g) \in 1..Len(g) /\ IsRecord(r) /\ Back(Posters(g))
      /\ Posters(g)[Len(g)] = g[Len(g)].posterPrev /\ Len(Posters(g)) = Len(g)
  BY LinksOf DEF FileRight, Right
<1>2. /\ IsRecord(s) /\ s.uniq = r.uniq /\ s.read = r.read /\ s.got = r.got
      /\ s.persmsg = r.persmsg /\ s.postedpersmsg = Len(g) /\ s.posted = r.posted + 1
  OBVIOUS
<1>3. /\ o.postedpersmsg \in 0..(Len(g) - 1)
      /\ u \notin mx => r.posted = Len(Chain(Posters(g), o.postedpersmsg))
  <2>1. Posters(g)[Len(g)] \in 0..(Len(g) - 1)
    BY <1>1, BackFacts
  <2> QED
    BY <1>1, <2>1 DEF Right, PostedRight
<1>4. PICK old, new : old = Chain(Posters(g), o.postedpersmsg) /\ new = <<Len(g)>> \o old
  OBVIOUS
<1>5. Chain(Posters(g), Len(g)) = new
  BY <1>1, <1>4, ChainIs
<1>6. Falling(old, o.postedpersmsg)
  BY <1>1, <1>3, <1>4, ChainsInFile
<1>7. Len(new) = Len(old) + 1 /\ ToSet(new) = {Len(g)} \cup ToSet(old)
  <2>1. Len(g) \in Nat \ {0}
    BY <1>1
  <2> QED
    BY <1>3, <1>4, <1>6, <2>1, FallingLonger
<1>8. \A k \in ToSet(new) : g[k].from = u
  BY <1>4, <1>7 DEF Right, PostedRight
<1>9. PostedRight(g, Len(g), r.posted + 1, u, mx)
  <2>1. Len(g) \in 0..Len(g) /\ (u \notin mx => r.posted + 1 = Len(new))
    BY <1>1, <1>3, <1>4, <1>7
  <2> QED
    BY <1>5, <1>8, <2>1 DEF PostedRight
<1> QED
  BY <1>2, <1>9 DEF Right

-----------------------------------------------------------------------------
\* There is something to do for a request about a favourite.
FavDue(rq, favs) ==
    /\ rq.op \in {"fav", "unfav"}
    /\ IF rq.op = "fav" THEN rq.what \notin ToSet(favs) /\ 0 \in ToSet(favs)
       ELSE rq.what \in ToSet(favs)

\* A request's memory: records that were right when they were read, and are still.
Fit(f, us, pl, p, me, mx) ==
    /\ DOMAIN me = {"pc", "rq", "ui", "to", "own"}
    /\ me.pc \in {"idle", "touch", "to", "from", "deliver", "post", "list", "show",
                  "favs", "setfavs"}
    /\ me.pc # "idle" => me.rq \in pl.may[p] /\ Right(f, me.ui, me.rq.user, mx)
    /\ me.pc \in {"to", "from", "deliver", "post"} => me.rq.op = "message"
    /\ me.pc = "favs" => me.rq.op \in {"fav", "unfav"}
    /\ me.pc = "setfavs" => FavDue(me.rq, me.own.favs)
    /\ me.pc = "idle" => me = Idle
    /\ me.pc \notin {"from", "deliver", "post"} => me.to = <<>>
    /\ me.pc \notin {"deliver", "post", "setfavs"} => me.own = <<>>
    /\ me.pc \in {"from", "deliver", "post"} => Right(f, me.to, me.rq.what, mx)
    /\ me.pc \in {"deliver", "post", "setfavs"} => Right(f, me.own, me.rq.user, mx)
    /\ me.pc = "from" /\ pl.alone => me.to = us[me.rq.what]
    /\ me.pc = "deliver" /\ pl.alone /\ me.rq.what = me.rq.user =>
          me.to.postedpersmsg = me.own.postedpersmsg
    /\ me.pc = "post" =>
          /\ Len(f) > 0 /\ f[Len(f)].from = me.rq.user
          /\ f[Len(f)].posterPrev = me.own.postedpersmsg
          /\ pl.alone \/ me.rq.user \notin mx =>
                me.own.postedpersmsg = Poster(me.to, me.own).postedpersmsg

RecInv ==
    /\ plan \in Plans /\ mixed \subseteq Users
    /\ FileRight(file)
    /\ users \in [Users -> Records] /\ \A u \in Users : Right(file, users[u], u, mixed)
    /\ DOMAIN recLoc = Procs /\ \A p \in Procs : Fit(file, users, plan, p, recLoc[p], mixed)
    /\ \A p \in Procs : mailLock = p <=> recLoc[p].pc = "post"
    /\ mailLock \in Procs \cup {None}
    /\ plan.alone => \A p, q \in Procs : recLoc[p].pc # "idle" /\ recLoc[q].pc # "idle" => p = q

\* Nothing is lost from one file to the next.
Keeps(f, g, mx, my) ==
    /\ FileRight(g)
    /\ \A r, u : Right(f, r, u, mx) => Right(g, r, u, my)
    /\ mx \subseteq my /\ my \subseteq Users

\* One request moves on.
LEMMA Moves ==
    ASSUME RecInv, NEW p \in Procs, NEW me, recLoc' = [recLoc EXCEPT ![p] = me], plan' = plan,
           Keeps(file, file', mixed, mixed'), users' \in [Users -> Records],
           \A u \in Users : Right(file', users'[u], u, mixed'),
           Fit(file', users', plan, p, me, mixed'),
           file' = file \/ (\A q \in Procs : q # p => recLoc[q].pc # "post"),
           plan.alone => \A q \in Procs : q # p => recLoc[q].pc = "idle",
           \A q \in Procs : q # p => (mailLock' = q <=> mailLock = q),
           mailLock' = p <=> me.pc = "post", mailLock' \in Procs \cup {None}
    PROVE  RecInv'
<1>1. DOMAIN recLoc' = Procs /\ recLoc'[p] = me /\ \A q \in Procs : q # p => recLoc'[q] = recLoc[q]
  BY DEF RecInv
<1>2. ASSUME NEW q \in Procs, q # p PROVE Fit(file', users', plan, q, recLoc[q], mixed')
  <2>1. Fit(file, users, plan, q, recLoc[q], mixed)
    BY DEF RecInv
  <2>2. recLoc[q].pc = "post" => file' = file
    BY <1>2
  <2>3. recLoc[q].pc = "from" => ~plan.alone
    BY <1>2
  <2>4. /\ \A r, u : Right(file, r, u, mixed) => Right(file', r, u, mixed')
        /\ mixed \subseteq mixed'
    BY DEF Keeps
  <2> QED
    BY <2>1, <2>2, <2>3, <2>4 DEF Fit
<1>3. \A q \in Procs : Fit(file', users', plan, q, recLoc'[q], mixed')
  BY <1>1, <1>2
<1>4. \A q \in Procs : mailLock' = q <=> recLoc'[q].pc = "post"
  BY <1>1 DEF RecInv
<1>5. plan.alone =>
          \A q, r \in Procs : recLoc'[q].pc # "idle" /\ recLoc'[r].pc # "idle" => q = r
  BY <1>1
<1>6. FileRight(file') /\ plan \in Plans /\ mixed' \subseteq Users
  BY DEF Keeps, RecInv
<1> QED
  BY <1>1, <1>3, <1>4, <1>5, <1>6 DEF RecInv

\* One request moves on, and no message is put into the file.
LEMMA MovesOn ==
    ASSUME RecInv, NEW p \in Procs, NEW me, recLoc' = [recLoc EXCEPT ![p] = me],
           UNCHANGED <<plan, file, mixed>>,
           plan.alone => \A q \in Procs : q # p => recLoc[q].pc = "idle",
           Fit(file, users', plan, p, me, mixed), me.pc # "post",
           \/ users' = users
           \/ \E u \in Users : \E r :
                 users' = [users EXCEPT ![u] = r] /\ Right(file, r, u, mixed),
           IF recLoc[p].pc = "post" THEN mailLock' = None ELSE mailLock' = mailLock,
           None \notin Procs
    PROVE  RecInv'
<1>1. Keeps(file, file', mixed, mixed')
  BY DEF Keeps, RecInv
<1>2. users' \in [Users -> Records] /\ \A u \in Users : Right(file', users'[u], u, mixed')
  <2>1. CASE users' = users
    BY <2>1 DEF RecInv
  <2>2. CASE \E u \in Users : \E r : users' = [users EXCEPT ![u] = r] /\ Right(file, r, u, mixed)
    BY <2>2 DEF RecInv, Right, IsRecord
  <2> QED
    BY <2>1, <2>2
<1>3. Fit(file', users', plan, p, me, mixed')
  OBVIOUS
<1>4. /\ \A q \in Procs : q # p => (mailLock' = q <=> mailLock = q)
  BY DEF RecInv
<1>5. (mailLock' = p <=> me.pc = "post") /\ mailLock' \in Procs \cup {None}
  BY DEF RecInv
<1> QED
  BY <1>1, <1>2, <1>3, <1>4, <1>5, Moves

-----------------------------------------------------------------------------
(***************************************************************************)
(* The steps of requests keep it.                                          *)
(***************************************************************************)

\* What a request under way knows.
LEMMA Under ==
    ASSUME RecInv, PlansRight, NEW p \in Procs, recLoc[p].pc # "idle"
    PROVE  /\ plan.alone => \A q \in Procs : q # p => recLoc[q].pc = "idle"
           /\ Fit(file, users, plan, p, recLoc[p], mixed)
           /\ recLoc[p].rq \in plan.may[p] /\ recLoc[p].rq.user \in Users
           /\ recLoc[p].rq.op = "message" => recLoc[p].rq.what \in Users
           /\ recLoc[p].rq.op \in {"fav", "unfav"} => recLoc[p].rq.what \in Threads
           /\ Right(file, recLoc[p].ui, recLoc[p].rq.user, mixed)
           /\ \A u \in Users : Right(file, users[u], u, mixed)
<1>1. /\ Fit(file, users, plan, p, recLoc[p], mixed) /\ plan \in Plans
      /\ \A u \in Users : Right(file, users[u], u, mixed)
      /\ plan.alone => \A q \in Procs : q # p => recLoc[q].pc = "idle"
  BY DEF RecInv
<1>2. recLoc[p].rq \in plan.may[p] /\ Right(file, recLoc[p].ui, recLoc[p].rq.user, mixed)
  BY <1>1 DEF Fit
<1> QED
  BY <1>1, <1>2 DEF PlansRight, Request

LEMMA IdleFit == \A f, us, pl, p, mx : Fit(f, us, pl, p, Idle, mx) /\ Idle.pc = "idle"
BY DEF Fit, Idle

LEMMA BeginKeeps ==
    ASSUME RecInv, PlansRight, UserRecordsConstants, NEW p \in Procs, CheckSession(p)
    PROVE  RecInv'
<1>1. PICK rq \in plan.may[p] :
          recLoc' = [recLoc EXCEPT ![p].pc = "touch", ![p].rq = rq, ![p].ui = users[rq.user]]
  BY Zenon DEF CheckSession
<1>2. /\ recLoc[p].pc = "idle" /\ UNCHANGED <<users, file, mailLock, plan, mixed>>
      /\ plan.alone => \A q \in Procs : recLoc[q].pc = "idle"
  BY DEF CheckSession, At
<1>3. PICK me : me = [recLoc[p] EXCEPT !.pc = "touch", !.rq = rq, !.ui = users[rq.user]]
  OBVIOUS
<1>4. recLoc' = [recLoc EXCEPT ![p] = me]
  BY <1>1, <1>3 DEF RecInv
<1>5. Fit(file, users, plan, p, recLoc[p], mixed) /\ rq.user \in Users
  BY DEF RecInv, PlansRight, Request
<1>6. Fit(file, users', plan, p, me, mixed) /\ me.pc = "touch"
  <2>1. Right(file, users[rq.user], rq.user, mixed)
    BY <1>5 DEF RecInv
  <2>2. /\ DOMAIN me = {"pc", "rq", "ui", "to", "own"} /\ me.pc = "touch"
        /\ me.rq = rq /\ me.ui = users[rq.user] /\ me.to = <<>> /\ me.own = <<>>
    BY <1>2, <1>3, <1>5 DEF Fit
  <2> QED
    BY <2>1, <2>2 DEF Fit
<1> QED
  BY <1>2, <1>4, <1>6, MovesOn DEF UserRecordsConstants

\* A request that only goes on to its next step, or ends.
LEMMA TouchKeeps ==
    ASSUME RecInv, PlansRight, UserRecordsConstants, NEW p \in Procs, Touch(p)
    PROVE  RecInv'
<1>1. /\ recLoc[p].pc = "touch" /\ UNCHANGED <<file, mailLock, plan, mixed>>
      /\ users' = [users EXCEPT ![recLoc[p].rq.user] = recLoc[p].ui]
      /\ recLoc' = [recLoc EXCEPT ![p].pc = Handler(recLoc[p].rq.op)]
  BY DEF Touch, At, SetUInfo, UserOf
<1>2. /\ plan.alone => \A q \in Procs : q # p => recLoc[q].pc = "idle"
      /\ Fit(file, users, plan, p, recLoc[p], mixed) /\ recLoc[p].rq.user \in Users
      /\ recLoc[p].rq \in plan.may[p] /\ plan \in Plans
      /\ Right(file, recLoc[p].ui, recLoc[p].rq.user, mixed)
  BY <1>1, Under DEF RecInv
<1>3. PICK me : me = [recLoc[p] EXCEPT !.pc = Handler(recLoc[p].rq.op)]
  OBVIOUS
<1>4. recLoc' = [recLoc EXCEPT ![p] = me]
  BY <1>1, <1>3 DEF RecInv
<1>5. /\ DOMAIN me = {"pc", "rq", "ui", "to", "own"} /\ me.pc = Handler(recLoc[p].rq.op)
      /\ me.rq = recLoc[p].rq /\ me.ui = recLoc[p].ui /\ me.to = <<>> /\ me.own = <<>>
  BY <1>1, <1>2, <1>3 DEF Fit
<1>6. /\ me.pc \in {"to", "list", "show", "favs"}
      /\ (me.pc = "to" => me.rq.op = "message")
      /\ (me.pc = "favs" => me.rq.op \in {"fav", "unfav"})
  <2>1. recLoc[p].rq.op \in {"message", "read", "fav", "unfav", "show"}
    BY <1>2 DEF PlansRight, Request
  <2> QED
    BY <1>5, <2>1 DEF Handler
<1>7. Fit(file, users', plan, p, me, mixed)
  BY <1>2, <1>5, <1>6 DEF Fit
<1>8. \E u \in Users : \E r : users' = [users EXCEPT ![u] = r] /\ Right(file, r, u, mixed)
  BY <1>1, <1>2
<1> QED
  BY <1>1, <1>2, <1>4, <1>6, <1>7, <1>8, MovesOn DEF UserRecordsConstants

LEMMA ReadToKeeps ==
    ASSUME RecInv, PlansRight, UserRecordsConstants, NEW p \in Procs, ReadTo(p)
    PROVE  RecInv'
<1>1. /\ recLoc[p].pc = "to" /\ UNCHANGED <<users, file, mailLock, plan, mixed>>
      /\ recLoc' = [recLoc EXCEPT ![p].pc = "from", ![p].to = users[recLoc[p].rq.what]]
  BY DEF ReadTo, At
<1>2. /\ plan.alone => \A q \in Procs : q # p => recLoc[q].pc = "idle"
      /\ Fit(file, users, plan, p, recLoc[p], mixed) /\ recLoc[p].rq \in plan.may[p]
      /\ Right(file, recLoc[p].ui, recLoc[p].rq.user, mixed)
      /\ \A u \in Users : Right(file, users[u], u, mixed)
      /\ recLoc[p].rq.op = "message" => recLoc[p].rq.what \in Users
  BY <1>1, Under
<1>3. PICK me : me = [recLoc[p] EXCEPT !.pc = "from", !.to = users[recLoc[p].rq.what]]
  OBVIOUS
<1>4. recLoc' = [recLoc EXCEPT ![p] = me]
  BY <1>1, <1>3 DEF RecInv
<1>5. /\ DOMAIN me = {"pc", "rq", "ui", "to", "own"} /\ me.pc = "from"
      /\ me.rq = recLoc[p].rq /\ me.ui = recLoc[p].ui /\ me.to = users[recLoc[p].rq.what]
      /\ me.own = <<>>
      /\ recLoc[p].rq.op = "message"
  BY <1>1, <1>2, <1>3 DEF Fit
<1>6. Fit(file, users', plan, p, me, mixed)
  BY <1>1, <1>2, <1>5 DEF Fit
<1> QED
  BY <1>1, <1>2, <1>4, <1>5, <1>6, MovesOn DEF UserRecordsConstants

LEMMA ReadFromKeeps ==
    ASSUME RecInv, PlansRight, UserRecordsConstants, NEW p \in Procs, ReadFrom(p)
    PROVE  RecInv'
<1>1. /\ recLoc[p].pc = "from" /\ UNCHANGED <<users, file, mailLock, plan, mixed>>
      /\ recLoc' = [recLoc EXCEPT ![p].pc = "deliver", ![p].own = users[recLoc[p].rq.user]]
  BY DEF ReadFrom, At, UserOf
<1>2. /\ plan.alone => \A q \in Procs : q # p => recLoc[q].pc = "idle"
      /\ Fit(file, users, plan, p, recLoc[p], mixed) /\ recLoc[p].rq \in plan.may[p]
      /\ Right(file, recLoc[p].ui, recLoc[p].rq.user, mixed)
      /\ \A u \in Users : Right(file, users[u], u, mixed)
      /\ recLoc[p].rq.op = "message" => recLoc[p].rq.what \in Users
      /\ recLoc[p].rq.user \in Users
  BY <1>1, Under
<1>3. PICK me : me = [recLoc[p] EXCEPT !.pc = "deliver", !.own = users[recLoc[p].rq.user]]
  OBVIOUS
<1>4. recLoc' = [recLoc EXCEPT ![p] = me]
  BY <1>1, <1>3 DEF RecInv
<1>5. /\ DOMAIN me = {"pc", "rq", "ui", "to", "own"} /\ me.pc = "deliver"
      /\ me.rq = recLoc[p].rq /\ me.ui = recLoc[p].ui /\ me.to = recLoc[p].to
      /\ me.own = users[recLoc[p].rq.user]
      /\ recLoc[p].rq.op = "message" /\ Right(file, recLoc[p].to, recLoc[p].rq.what, mixed)
      /\ plan.alone => recLoc[p].to = users[recLoc[p].rq.what]
  BY <1>1, <1>2, <1>3 DEF Fit
<1>6. Fit(file, users', plan, p, me, mixed)
  BY <1>1, <1>2, <1>5 DEF Fit
<1> QED
  BY <1>1, <1>2, <1>4, <1>5, <1>6, MovesOn DEF UserRecordsConstants

LEMMA DeliverKeeps ==
    ASSUME RecInv, PlansRight, UserRecordsConstants, NEW p \in Procs, Deliver(p)
    PROVE  RecInv'
<1> DEFINE old == recLoc[p]
           user == old.rq.user
           what == old.rq.what
<1>1. PICK to, x : /\ to = [old.to EXCEPT !.persmsg = Len(file) + 1, !.got = @ + 1]
                   /\ x = MessageOf(old.to, old.own)
  OBVIOUS
<1>2. /\ old.pc = "deliver" /\ mailLock = None /\ UNCHANGED plan /\ mailLock' = p
      /\ file' = Append(file, x) /\ users' = [users EXCEPT ![what] = to]
      /\ recLoc' = [recLoc EXCEPT ![p].pc = "post", ![p].to = to]
      /\ mixed' = IF what = user /\ old.to.postedpersmsg # old.own.postedpersmsg
                  THEN mixed \cup {user} ELSE mixed
  BY <1>1 DEF Deliver, At, SetUInfo, Delivered, Mixes, UserOf
<1>3. /\ plan.alone => \A q \in Procs : q # p => recLoc[q].pc = "idle"
      /\ Fit(file, users, plan, p, old, mixed) /\ old.rq \in plan.may[p]
      /\ Right(file, old.ui, user, mixed)
      /\ \A u \in Users : Right(file, users[u], u, mixed)
      /\ old.rq.op = "message" => what \in Users
      /\ user \in Users
  BY <1>2, Under
<1>4. /\ DOMAIN old = {"pc", "rq", "ui", "to", "own"} /\ old.rq.op = "message"
      /\ Right(file, old.to, what, mixed) /\ Right(file, old.own, user, mixed)
      /\ what = user /\ plan.alone => old.to.postedpersmsg = old.own.postedpersmsg
  BY <1>2, <1>3 DEF Fit
<1>5. /\ x.to = what /\ x.from = user /\ x.prev = old.to.persmsg
      /\ x.posterPrev = old.own.postedpersmsg /\ x \in Message
      /\ x.prev <= Len(file) /\ x.posterPrev <= Len(file)
  <2>1. old.to.uniq = what /\ old.own.uniq = user
    BY <1>4 DEF Right
  <2>2. /\ old.to.persmsg \in Nat /\ old.own.postedpersmsg \in Nat
        /\ old.to.persmsg <= Len(file) /\ old.own.postedpersmsg <= Len(file)
    BY <1>4 DEF Right, IsRecord, GotRight, PostedRight
  <2> QED
    BY <1>1, <1>3, <1>4, <2>1, <2>2 DEF MessageOf, Message
<1>6. FileRight(file) /\ Grown(file, x, file')
  BY <1>2, <1>5, FileGrows DEF RecInv
<1>7. Keeps(file, file', mixed, mixed')
  <2>1. FileRight(file')
    BY <1>6 DEF Grown
  <2>2. mixed \subseteq mixed' /\ mixed' \subseteq Users
    BY <1>2, <1>3 DEF RecInv
  <2>3. ASSUME NEW r, NEW u, Right(file, r, u, mixed) PROVE Right(file', r, u, mixed')
    <3>1. PICK my : my = mixed'
      OBVIOUS
    <3>2. Right(file, r, u, my)
      BY <2>2, <2>3, <3>1, MixedRight
    <3> QED
      BY <1>6, <3>1, <3>2, StaysRight
  <2> QED
    BY <2>1, <2>2, <2>3 DEF Keeps
<1>8. Right(file', to, what, mixed') /\ to.postedpersmsg = old.to.postedpersmsg
  <2>1. PICK f, g, r, u, mx :
           f = file /\ g = file' /\ r = old.to /\ u = what /\ mx = mixed'
    OBVIOUS
  <2>2. /\ Grown(f, x, g) /\ Right(f, r, u, mx) /\ x.to = u /\ x.prev = r.persmsg
        /\ to = [r EXCEPT !.persmsg = Len(f) + 1, !.got = @ + 1]
    <3>1. mixed \subseteq mx
      BY <1>7, <2>1 DEF Keeps
    <3>2. Right(f, r, u, mx)
      BY <1>4, <2>1, <3>1, MixedRight
    <3> QED
      BY <1>1, <1>5, <1>6, <2>1, <3>2
  <2>3. /\ IsRecord(to) /\ to.uniq = r.uniq /\ to.read = r.read /\ to.got = r.got + 1
        /\ to.persmsg = Len(f) + 1 /\ to.postedpersmsg = r.postedpersmsg
        /\ to.posted = r.posted
    <3>1. r \in Records /\ InOrder(r.favs) /\ Len(f) \in Nat
      BY <2>2 DEF Right, IsRecord, Grown
    <3>2. to = [uniq |-> r.uniq, persmsg |-> Len(f) + 1, got |-> r.got + 1, read |-> r.read,
                postedpersmsg |-> r.postedpersmsg, posted |-> r.posted, favs |-> r.favs]
      BY <2>2, <3>1 DEF Records
    <3> QED
      BY <3>1, <3>2 DEF IsRecord, Records
  <2>4. Right(g, to, u, mx)
    BY ONLY ZenonT(40), <2>2, <2>3, DeliveredRight
  <2> QED
    BY <2>1, <2>3, <2>4
<1>9. users' \in [Users -> Records] /\ \A u \in Users : Right(file', users'[u], u, mixed')
  <2>1. users \in [Users -> Records] /\ to \in Records
    BY <1>8 DEF RecInv, Right, IsRecord
  <2>2. \A u \in Users : Right(file', users[u], u, mixed')
    BY <1>3, <1>7 DEF Keeps
  <2> HIDE DEF what
  <2> QED
    BY <1>2, <1>8, <2>1, <2>2
<1>10. PICK me : me = [old EXCEPT !.pc = "post", !.to = to]
  OBVIOUS
<1>11. recLoc' = [recLoc EXCEPT ![p] = me]
  BY <1>2, <1>10 DEF RecInv
<1>12. /\ DOMAIN me = {"pc", "rq", "ui", "to", "own"} /\ me.pc = "post"
       /\ me.rq = old.rq /\ me.ui = old.ui /\ me.to = to /\ me.own = old.own
  BY <1>4, <1>10
<1>13. Right(file', old.ui, user, mixed') /\ Right(file', old.own, user, mixed')
  BY <1>3, <1>4, <1>7 DEF Keeps
<1>14. /\ Len(file') > 0 /\ file'[Len(file')].from = user
       /\ file'[Len(file')].posterPrev = old.own.postedpersmsg
       /\ plan.alone \/ user \notin mixed' =>
             old.own.postedpersmsg = Poster(to, old.own).postedpersmsg
  <2>1. Len(file') > 0 /\ file'[Len(file')] = x
    BY <1>6 DEF Grown
  <2>2. to.uniq = what /\ old.own.uniq = user
    BY <1>4, <1>8 DEF Right
  <2>3. plan.alone \/ user \notin mixed' =>
           old.own.postedpersmsg = Poster(to, old.own).postedpersmsg
    <3>1. (plan.alone \/ user \notin mixed') /\ what = user =>
             old.to.postedpersmsg = old.own.postedpersmsg
      BY <1>2, <1>4
    <3> QED
      BY <1>8, <2>2, <3>1 DEF Poster
  <2> QED
    BY <1>5, <2>1, <2>3
<1>15. Fit(file', users', plan, p, me, mixed')
  BY <1>3, <1>4, <1>8, <1>12, <1>13, <1>14 DEF Fit
<1>16. \A q \in Procs : recLoc[q].pc # "post"
  BY <1>2 DEF RecInv, UserRecordsConstants
<1>17. /\ \A q \in Procs : q # p => (mailLock' = q <=> mailLock = q)
       /\ (mailLock' = p <=> me.pc = "post") /\ mailLock' \in Procs \cup {None}
  BY <1>2, <1>12 DEF UserRecordsConstants
<1> HIDE DEF old, user, what
<1> QED
  BY <1>2, <1>3, <1>7, <1>9, <1>11, <1>15, <1>16, <1>17, Moves

\* The end of a request.
LEMMA Ends ==
    ASSUME RecInv, PlansRight, UserRecordsConstants, NEW p \in Procs, recLoc[p].pc # "idle",
           recLoc' = [recLoc EXCEPT ![p] = Idle], UNCHANGED <<file, plan, mixed>>,
           \/ users' = users
           \/ \E u \in Users : \E r : users' = [users EXCEPT ![u] = r] /\ Right(file, r, u, mixed),
           IF recLoc[p].pc = "post" THEN mailLock' = None ELSE mailLock' = mailLock
    PROVE  RecInv'
<1>1. plan.alone => \A q \in Procs : q # p => recLoc[q].pc = "idle"
  BY Under
<1>2. Fit(file, users', plan, p, Idle, mixed) /\ Idle.pc # "post" /\ None \notin Procs
  BY IdleFit DEF UserRecordsConstants
<1>3. PICK me : me = Idle
  OBVIOUS
<1> QED
  BY <1>1, <1>2, <1>3, MovesOn

LEMMA PostKeeps ==
    ASSUME RecInv, PlansRight, UserRecordsConstants, NEW p \in Procs, Post(p)
    PROVE  RecInv'
<1> DEFINE old == recLoc[p]
           user == old.rq.user
           own == Poster(old.to, old.own)
<1>1. PICK r : r = [own EXCEPT !.postedpersmsg = Len(file), !.posted = @ + 1]
  OBVIOUS
<1>2. /\ old.pc = "post" /\ mailLock' = None /\ UNCHANGED <<file, plan, mixed>>
      /\ users' = [users EXCEPT ![user] = r] /\ recLoc' = [recLoc EXCEPT ![p] = Idle]
  BY <1>1 DEF Post, At, SetUInfo, UserOf
<1>3. Fit(file, users, plan, p, old, mixed) /\ user \in Users
  BY <1>2, Under
<1>4. /\ Right(file, old.to, old.rq.what, mixed) /\ Right(file, old.own, user, mixed)
      /\ Len(file) > 0 /\ file[Len(file)].from = user
      /\ file[Len(file)].posterPrev = old.own.postedpersmsg
      /\ user \notin mixed => old.own.postedpersmsg = own.postedpersmsg
  BY <1>2, <1>3 DEF Fit
<1>5. Right(file, own, user, mixed)
  BY <1>4 DEF Right, Poster
<1>6. Right(file, r, user, mixed)
  <2>1. PICK g, s, u, o, mx : g = file /\ s = own /\ u = user /\ o = old.own /\ mx = mixed
    OBVIOUS
  <2>2. /\ FileRight(g) /\ Right(g, s, u, mx) /\ Len(g) > 0 /\ g[Len(g)].from = u
        /\ Right(g, o, u, mx) /\ g[Len(g)].posterPrev = o.postedpersmsg
        /\ u \notin mx => o.postedpersmsg = s.postedpersmsg
        /\ r = [s EXCEPT !.postedpersmsg = Len(g), !.posted = @ + 1]
    BY <1>1, <1>4, <1>5, <2>1 DEF RecInv
  <2>3. /\ IsRecord(r) /\ r.uniq = s.uniq /\ r.read = s.read /\ r.got = s.got
        /\ r.persmsg = s.persmsg /\ r.postedpersmsg = Len(g) /\ r.posted = s.posted + 1
    <3>1. s \in Records /\ InOrder(s.favs) /\ Len(g) \in Nat
      BY <2>2, LinksOf DEF Right, IsRecord, FileRight
    <3>2. r = [uniq |-> s.uniq, persmsg |-> s.persmsg, got |-> s.got, read |-> s.read,
               postedpersmsg |-> Len(g), posted |-> s.posted + 1, favs |-> s.favs]
      BY <2>2, <3>1 DEF Records
    <3> QED
      BY <3>1, <3>2 DEF IsRecord, Records
  <2>4. Right(g, r, u, mx)
    BY ONLY <2>2, <2>3, PostedIsRight
  <2> QED
    BY <2>1, <2>4
<1> QED
  BY <1>2, <1>3, <1>6, Ends

\* Whatever is changed of a record but what its chains are.
LEMMA OthersChanged ==
    ASSUME NEW f, NEW r, NEW u, NEW mx, Right(f, r, u, mx),
           NEW favs \in FavLists, InOrder(favs)
    PROVE  /\ Right(f, [r EXCEPT !.favs = favs], u, mx)
           /\ Right(f, [r EXCEPT !.read = r.got], u, mx)
<1>1. IsRecord(r)
  BY DEF Right
<1>2. PICK s : s = [r EXCEPT !.favs = favs]
  OBVIOUS
<1>3. /\ IsRecord(s) /\ s.uniq = r.uniq /\ s.read = r.read /\ s.got = r.got
      /\ s.persmsg = r.persmsg /\ s.postedpersmsg = r.postedpersmsg /\ s.posted = r.posted
  BY <1>1, <1>2 DEF IsRecord, Records
<1>4. PICK t : t = [r EXCEPT !.read = r.got]
  OBVIOUS
<1>5. /\ IsRecord(t) /\ t.uniq = r.uniq /\ t.read = r.got /\ t.got = r.got
      /\ t.persmsg = r.persmsg /\ t.postedpersmsg = r.postedpersmsg /\ t.posted = r.posted
  BY <1>1, <1>4 DEF IsRecord, Records
<1>6. r.got <= r.got
  BY <1>1 DEF IsRecord, Records
<1>7. Right(f, s, u, mx)
  BY <1>3 DEF Right
<1>8. Right(f, t, u, mx)
  BY <1>5, <1>6 DEF Right
<1> QED
  BY <1>2, <1>4, <1>7, <1>8

LEMMA PagesKeep ==
    ASSUME RecInv, PlansRight, UserRecordsConstants, NEW p \in Procs,
           MarkRead(p) \/ ShowFavs(p) \/ Die(p)
    PROVE  RecInv'
<1> DEFINE user == recLoc[p].rq.user
<1>1. /\ recLoc[p].pc \in {"list", "show", "post"} /\ recLoc' = [recLoc EXCEPT ![p] = Idle]
      /\ UNCHANGED <<file, plan, mixed>>
      /\ IF recLoc[p].pc = "post" THEN mailLock' = None ELSE mailLock' = mailLock
  BY DEF MarkRead, ShowFavs, Die, At
<1>2. Right(file, recLoc[p].ui, user, mixed) /\ user \in Users
  BY <1>1, Under
<1>3. CASE MarkRead(p)
  <2>1. PICK r : r = [recLoc[p].ui EXCEPT !.read = recLoc[p].ui.got]
    OBVIOUS
  <2>2. users' = [users EXCEPT ![user] = r] /\ Right(file, r, user, mixed)
    <3>1. recLoc[p].ui.favs \in FavLists /\ InOrder(recLoc[p].ui.favs)
      BY <1>2 DEF Right, IsRecord, Records
    <3> QED
      BY <1>2, <1>3, <2>1, <3>1, OthersChanged DEF MarkRead, SetUInfo, UserOf
  <2> QED
    BY <1>1, <1>2, <2>2, Ends
<1>4. CASE ShowFavs(p)
  <2>1. PICK gone : users' = [users EXCEPT ![user] =
              [recLoc[p].ui EXCEPT !.favs = [i \in 1..Favs |-> IF @[i] \in gone THEN 0 ELSE @[i]]]]
    BY <1>4 DEF ShowFavs, SetUInfo, UserOf
  <2>2. PICK favs : favs = [i \in 1..Favs |->
                               IF recLoc[p].ui.favs[i] \in gone THEN 0 ELSE recLoc[p].ui.favs[i]]
    OBVIOUS
  <2>3. PICK r : r = [recLoc[p].ui EXCEPT !.favs = favs]
    OBVIOUS
  <2>4. users' = [users EXCEPT ![user] = r] /\ Right(file, r, user, mixed)
    <3>1. recLoc[p].ui.favs \in FavLists /\ InOrder(recLoc[p].ui.favs)
      BY <1>2 DEF Right, IsRecord, Records
    <3>2. /\ \A i \in 1..Favs : favs[i] \in {0, recLoc[p].ui.favs[i]}
          /\ favs = [i \in 1..Favs |-> favs[i]]
      BY <2>2
    <3>3. favs \in FavLists /\ InOrder(favs)
      BY <3>1, <3>2, EmptiedRight
    <3> QED
      BY <1>2, <2>1, <2>2, <2>3, <3>3, OthersChanged
  <2> QED
    BY <1>1, <1>2, <2>4, Ends
<1>5. CASE Die(p)
  BY <1>1, <1>5, Ends DEF Die
<1> QED
  BY <1>3, <1>4, <1>5

LEMMA ReadFavsKeeps ==
    ASSUME RecInv, PlansRight, UserRecordsConstants, NEW p \in Procs, ReadFavs(p)
    PROVE  RecInv'
<1> DEFINE user == recLoc[p].rq.user
<1>1. /\ recLoc[p].pc = "favs" /\ UNCHANGED <<users, file, mailLock, plan, mixed>>
      /\ \/ /\ \/ recLoc[p].rq.op = "fav" /\ recLoc[p].rq.what \notin ToSet(users[user].favs)
                                       /\ 0 \in ToSet(users[user].favs)
               \/ recLoc[p].rq.op = "unfav" /\ recLoc[p].rq.what \in ToSet(users[user].favs)
            /\ recLoc' = [recLoc EXCEPT ![p].pc = "setfavs", ![p].own = users[user]]
         \/ recLoc' = [recLoc EXCEPT ![p] = Idle]
  BY DEF ReadFavs, At, UserOf
<1>2. /\ plan.alone => \A q \in Procs : q # p => recLoc[q].pc = "idle"
      /\ Fit(file, users, plan, p, recLoc[p], mixed) /\ recLoc[p].rq \in plan.may[p]
      /\ Right(file, recLoc[p].ui, user, mixed)
      /\ user \in Users /\ Right(file, users[user], user, mixed)
  BY <1>1, Under
<1>3. CASE recLoc' = [recLoc EXCEPT ![p] = Idle]
  BY <1>1, <1>3, Ends
<1>4. CASE ~(recLoc' = [recLoc EXCEPT ![p] = Idle])
  <2>1. FavDue(recLoc[p].rq, users[user].favs)
    BY <1>1, <1>4 DEF FavDue
  <2>2. PICK me : me = [recLoc[p] EXCEPT !.pc = "setfavs", !.own = users[user]]
    OBVIOUS
  <2>3. recLoc' = [recLoc EXCEPT ![p] = me]
    BY <1>1, <1>4, <2>2 DEF RecInv
  <2>4. /\ DOMAIN me = {"pc", "rq", "ui", "to", "own"} /\ me.pc = "setfavs"
        /\ me.rq = recLoc[p].rq /\ me.ui = recLoc[p].ui /\ me.own = users[user] /\ me.to = <<>>
    BY <1>1, <1>2, <2>2 DEF Fit
  <2>5. Fit(file, users', plan, p, me, mixed)
    BY <1>1, <1>2, <2>1, <2>4 DEF Fit
  <2> QED
    BY <1>1, <1>2, <2>3, <2>4, <2>5, MovesOn DEF UserRecordsConstants
<1> QED
  BY <1>3, <1>4

\* The favourites a request writes back.
NewFavs(rq, favs) ==
    IF rq.op = "fav" THEN AddFav(favs, rq.what)
    ELSE [favs EXCEPT ![SelectInSeq(favs, LAMBDA f : f = rq.what)] = 0]

LEMMA NewFavsRight ==
    ASSUME UserRecordsConstants, NEW rq, NEW favs \in FavLists, InOrder(favs), FavDue(rq, favs),
           rq.what \in Threads, NEW new, new = NewFavs(rq, favs)
    PROVE  /\ new \in FavLists /\ InOrder(new)
           /\ ToSet(new) \ {0} = IF rq.op = "fav" THEN (ToSet(favs) \ {0}) \cup {rq.what}
                                 ELSE (ToSet(favs) \ {0}) \ {rq.what}
<1>1. PICK m : m = rq.what
  OBVIOUS
<1>2. CASE rq.op = "fav"
  <2>1. m \notin ToSet(favs) /\ 0 \in ToSet(favs) /\ new = AddFav(favs, m) /\ m \in Threads
    BY <1>1, <1>2 DEF FavDue, NewFavs
  <2>2. /\ new \in FavLists /\ InOrder(new)
        /\ ToSet(new) \ {0} = (ToSet(favs) \ {0}) \cup {m}
    BY <2>1, AddFavRight
  <2> QED
    BY <1>1, <1>2, <2>2
<1>3. CASE rq.op # "fav"
  <2>1. m \in ToSet(favs) /\ new = [favs EXCEPT ![SelectInSeq(favs, LAMBDA f : f = m)] = 0]
    BY <1>1, <1>3 DEF FavDue, NewFavs
  <2>2. /\ new \in FavLists /\ InOrder(new)
        /\ ToSet(new) \ {0} = ToSet(favs) \ {0, m}
    BY <2>1, DelFavRight
  <2> QED
    BY <1>1, <1>3, <2>2
<1> QED
  BY <1>2, <1>3

\* What a request does that writes favourites back.
LEMMA FavsSet ==
    ASSUME RecInv, PlansRight, UserRecordsConstants, NEW p \in Procs, SetFavs(p)
    PROVE  \E favs \in FavLists :
              /\ InOrder(favs) /\ favs = NewFavs(recLoc[p].rq, recLoc[p].own.favs)
              /\ ToSet(favs) \ {0} =
                    IF recLoc[p].rq.op = "fav"
                    THEN (ToSet(recLoc[p].own.favs) \ {0}) \cup {recLoc[p].rq.what}
                    ELSE (ToSet(recLoc[p].own.favs) \ {0}) \ {recLoc[p].rq.what}
              /\ Right(file, recLoc[p].own, recLoc[p].rq.user, mixed) /\ recLoc[p].rq.user \in Users
              /\ users' = [users EXCEPT ![recLoc[p].rq.user] = [recLoc[p].own EXCEPT !.favs = favs]]
              /\ recLoc[p].pc = "setfavs" /\ recLoc' = [recLoc EXCEPT ![p] = Idle]
              /\ UNCHANGED <<file, mailLock, plan, mixed>>
<1>1. PICK rq, own : rq = recLoc[p].rq /\ own = recLoc[p].own
  OBVIOUS
<1>2. /\ recLoc[p].pc = "setfavs" /\ UNCHANGED <<file, mailLock, plan, mixed>>
      /\ recLoc' = [recLoc EXCEPT ![p] = Idle]
  BY DEF SetFavs, At
<1>3. /\ Right(file, own, rq.user, mixed) /\ rq.user \in Users /\ FavDue(rq, own.favs)
      /\ rq.op \in {"fav", "unfav"} => rq.what \in Threads
  <2>1. /\ Fit(file, users, plan, p, recLoc[p], mixed) /\ rq.user \in Users
        /\ rq.op \in {"fav", "unfav"} => rq.what \in Threads
    BY <1>1, <1>2, Under
  <2> QED
    BY <1>1, <1>2, <2>1 DEF Fit
<1>4. own \in Records /\ own.favs \in FavLists /\ InOrder(own.favs) /\ rq.what \in Threads
  BY <1>3 DEF Right, IsRecord, Records, FavDue
<1>5. PICK favs : favs = NewFavs(rq, own.favs)
  OBVIOUS
<1>6. /\ favs \in FavLists /\ InOrder(favs)
      /\ ToSet(favs) \ {0} = IF rq.op = "fav" THEN (ToSet(own.favs) \ {0}) \cup {rq.what}
                             ELSE (ToSet(own.favs) \ {0}) \ {rq.what}
  BY <1>3, <1>4, <1>5, NewFavsRight
<1>7. users' = [users EXCEPT ![rq.user] = [own EXCEPT !.favs = favs]]
  <2>1. CASE rq.op = "fav"
    BY <1>1, <1>5, <2>1 DEF SetFavs, SetUInfo, UserOf, NewFavs
  <2>2. CASE rq.op # "fav"
    <3>1. users' = [users EXCEPT ![rq.user] =
              [own EXCEPT !.favs[SelectInSeq(own.favs, LAMBDA f : f = rq.what)] = 0]]
      BY <1>1, <2>2 DEF SetFavs, SetUInfo, UserOf
    <3>2. favs = [own.favs EXCEPT ![SelectInSeq(own.favs, LAMBDA f : f = rq.what)] = 0]
      BY <1>5, <2>2 DEF NewFavs
    <3> QED
      BY <3>1, <3>2
  <2> QED
    BY <2>1, <2>2
<1> QED
  BY <1>1, <1>2, <1>3, <1>5, <1>6, <1>7

LEMMA SetFavsKeeps ==
    ASSUME RecInv, PlansRight, UserRecordsConstants, NEW p \in Procs, SetFavs(p)
    PROVE  RecInv'
<1>1. PICK favs, own, user :
              /\ favs \in FavLists /\ InOrder(favs)
              /\ user = recLoc[p].rq.user /\ own = recLoc[p].own
              /\ Right(file, own, user, mixed) /\ user \in Users
              /\ users' = [users EXCEPT ![user] = [own EXCEPT !.favs = favs]]
              /\ recLoc[p].pc = "setfavs" /\ recLoc' = [recLoc EXCEPT ![p] = Idle]
              /\ UNCHANGED <<file, mailLock, plan, mixed>>
  BY FavsSet
<1>2. PICK r : r = [own EXCEPT !.favs = favs]
  OBVIOUS
<1>3. users' = [users EXCEPT ![user] = r] /\ Right(file, r, user, mixed)
  BY <1>1, <1>2, OthersChanged
<1> QED
  BY <1>1, <1>3, Ends

LEMMA EmptyFile ==
    /\ FileRight(<<>>)
    /\ \A mx : \A u \in Users :
          /\ Right(<<>>, NewUser(u), u, mx)
          /\ \A favs \in FavLists : InOrder(favs) =>
                Right(<<>>, [NewUser(u) EXCEPT !.favs = favs], u, mx)
<1>1. PICK f : f = <<>>
  OBVIOUS
<1>2. f \in Seq(Message) /\ Len(f) = 0
  BY <1>1
<1>3. Prevs(f) \in Seq(Nat) /\ Posters(f) \in Seq(Nat) /\ Len(Prevs(f)) = 0 /\ Len(Posters(f)) = 0
  BY <1>2, LinksOf
<1>4. Back(Prevs(f)) /\ Back(Posters(f))
  BY <1>3 DEF Back
<1>5. FileRight(f)
  BY <1>2, <1>4 DEF FileRight
<1>6. Chain(Prevs(f), 0) = <<>> /\ Chain(Posters(f), 0) = <<>>
  BY <1>4, ChainIs
<1>7. Len(<<>>) = 0 /\ ToSet(<<>>) = {}
  BY DEF ToSet
<1>8. \A u, mx : GotRight(f, 0, 0, u) /\ PostedRight(f, 0, 0, u, mx)
  BY <1>2, <1>6, <1>7 DEF GotRight, PostedRight
<1>9. ASSUME NEW u \in Users, NEW mx PROVE Right(f, NewUser(u), u, mx)
  <2>1. NewUser(u) \in Records /\ InOrder(NewUser(u).favs)
    BY DEF NewUser, Records, FavLists, InOrder
  <2> QED
    BY <1>8, <2>1 DEF Right, NewUser, IsRecord
<1> QED
  BY <1>1, <1>5, <1>9, OthersChanged

LEMMA RecStarts ==
    ASSUME PlansRight, UserRecordsConstants, RecInit
    PROVE  RecInv
<1>1. file = <<>> /\ mailLock = None /\ plan \in Plans /\ mixed = {}
  BY DEF RecInit
<1>2. users \in [Users -> Records] /\ \A u \in Users : Right(file, users[u], u, mixed)
  <2>1. users = [u \in Users |-> NewUser(u)]
    BY DEF RecInit
  <2>2. \A u \in Users : Right(<<>>, NewUser(u), u, mixed)
    BY EmptyFile
  <2> QED
    BY <1>1, <2>1, <2>2 DEF Right, IsRecord
<1>3. DOMAIN recLoc = Procs /\ \A p \in Procs : recLoc[p] = Idle
  BY DEF RecInit
<1>4. \A p \in Procs : Fit(file, users, plan, p, recLoc[p], mixed) /\ recLoc[p].pc = "idle"
  BY <1>3, IdleFit
<1> QED
  BY <1>1, <1>2, <1>3, <1>4, EmptyFile DEF RecInv, UserRecordsConstants

LEMMA RenewKeeps ==
    ASSUME RecInv, RenewMail
    PROVE  RecInv'
<1>1. /\ \A p \in Procs : recLoc[p].pc = "idle"
      /\ file' = <<>> /\ UNCHANGED <<mailLock, plan, mixed, recLoc>>
      /\ users' = [u \in Users |-> [NewUser(u) EXCEPT !.favs = users[u].favs]]
  BY DEF RenewMail, At
<1>2. users' \in [Users -> Records] /\ \A u \in Users : Right(file', users'[u], u, mixed')
  <2>1. ASSUME NEW u \in Users PROVE Right(file', users'[u], u, mixed')
    <3>1. PICK favs : favs = users[u].favs
      OBVIOUS
    <3>2. favs \in FavLists /\ InOrder(favs)
      BY <3>1 DEF RecInv, Right, IsRecord, Records
    <3>3. Right(<<>>, [NewUser(u) EXCEPT !.favs = favs], u, mixed')
      BY <3>2, EmptyFile
    <3> QED
      BY <1>1, <3>1, <3>3
  <2> QED
    BY <1>1, <2>1 DEF Right, IsRecord
<1>3. ASSUME NEW p \in Procs PROVE Fit(file', users', plan', p, recLoc'[p], mixed')
  <2>1. Fit(file, users, plan, p, recLoc[p], mixed)
    BY DEF RecInv
  <2> QED
    BY <1>1, <2>1 DEF Fit
<1>4. FileRight(file')
  BY <1>1, EmptyFile
<1> QED
  BY <1>1, <1>2, <1>3, <1>4 DEF RecInv

LEMMA RecKept ==
    ASSUME PlansRight, UserRecordsConstants, RecInv, [RecNext]_recVars
    PROVE  RecInv'
<1>1. CASE RenewMail
  BY <1>1, RenewKeeps
<1>2. ASSUME NEW p \in Procs,
             \/ CheckSession(p) \/ Touch(p) \/ ReadTo(p) \/ ReadFrom(p) \/ Deliver(p) \/ Post(p)
             \/ Die(p) \/ MarkRead(p) \/ ShowFavs(p) \/ ReadFavs(p) \/ SetFavs(p)
      PROVE  RecInv'
  BY <1>2, BeginKeeps, TouchKeeps, ReadToKeeps, ReadFromKeeps, DeliverKeeps, PostKeeps,
     PagesKeep, ReadFavsKeeps, SetFavsKeeps
<1>3. CASE UNCHANGED recVars
  BY <1>3 DEF recVars, RecInv
<1> QED
  BY <1>1, <1>2, <1>3 DEF RecNext

LEMMA RecInvHolds ==
    ASSUME PlansRight, UserRecordsConstants
    PROVE  RecSpec => []RecInv
<1>1. RecInit => RecInv
  BY RecStarts
<1>2. RecInv /\ [RecNext]_recVars => RecInv'
  BY RecKept
<1> QED
  BY <1>1, <1>2, PTL DEF RecSpec

\* The types of what is in a record and in a request's memory.
LEMMA TypesFollow == ASSUME PlansRight, RecInv PROVE RecTypeOK
<1>1. ASSUME NEW r, NEW u, Right(file, r, u, mixed) PROVE r \in Record
  <2>1. /\ r \in Records /\ r.persmsg \in 0..Len(file) /\ r.postedpersmsg \in 0..Len(file)
    BY <1>1 DEF Right, IsRecord, GotRight, PostedRight
  <2>2. r = [uniq |-> r.uniq, persmsg |-> r.persmsg, got |-> r.got, read |-> r.read,
             postedpersmsg |-> r.postedpersmsg, posted |-> r.posted, favs |-> r.favs]
    BY <2>1 DEF Records
  <2> QED
    BY <2>1, <2>2 DEF Records, Record, FavLists
<1>2. users \in [Users -> Record]
  <2>1. users = [u \in Users |-> users[u]] /\ \A u \in Users : Right(file, users[u], u, mixed)
    BY DEF RecInv
  <2>2. \A u \in Users : users[u] \in Record
    BY <1>1, <2>1
  <2> QED
    BY <2>1, <2>2
<1>3. /\ file \in Seq(Message) /\ mailLock \in Procs \cup {None} /\ plan \in Plans
      /\ mixed \subseteq Users
  BY DEF RecInv, FileRight
<1>4. ASSUME NEW p \in Procs
      PROVE  /\ recLoc[p].pc \in {"idle", "touch", "to", "from", "deliver", "post",
                               "list", "show", "favs", "setfavs"}
             /\ ~At(p, "idle") => recLoc[p].rq \in Request /\ recLoc[p].ui \in Record
             /\ {recLoc[p].to, recLoc[p].own} \subseteq Record \cup {<<>>}
  <2>1. Fit(file, users, plan, p, recLoc[p], mixed)
    BY DEF RecInv
  <2>2. recLoc[p].pc # "idle" =>
           recLoc[p].rq \in Request /\ Right(file, recLoc[p].ui, recLoc[p].rq.user, mixed)
    BY <1>3, <2>1 DEF Fit, PlansRight
  <2>3. recLoc[p].to \in Record \cup {<<>>} /\ recLoc[p].own \in Record \cup {<<>>}
    BY <1>1, <2>1 DEF Fit
  <2> QED
    BY <1>1, <2>1, <2>2, <2>3 DEF Fit, At
<1> QED
  BY <1>2, <1>3, <1>4 DEF RecTypeOK

\* Whatever records are written back, those read at the beginning of a request or
\* in between, a user's record counts as many messages, got and posted, as its
\* chains have, and these are that user's.  Messages to oneself are among them: only
\* the number posted is wrong then, and only once another request has changed the
\* user's record between the two readings of it (PostPersonalMessage, SetUInfo,
\* ReadPersonalMessages).
THEOREM MailStaysCounted ==
    ASSUME PlansRight, UserRecordsConstants
    PROVE  RecSpec => []ChainsCounted
<1>1. RecInv => RecTypeOK
  BY TypesFollow
<1>2. RecInv => ChainsCounted
  BY <1>1 DEF RecInv, Right, GotRight, PostedRight, ChainsCounted, Got, PostedBy, Prevs, Posters
<1> QED
  BY <1>2, RecInvHolds, PTL

-----------------------------------------------------------------------------
(***************************************************************************)
(* Requests one after the other.                                           *)
(***************************************************************************)

\* While requests come one after the other: the chains have all there is, but for
\* a message between the two records that its posting writes ...
HasGot(f, r, u) ==
    \A i \in 1..Len(f) : f[i].to = u => i \in ToSet(Chain(Prevs(f), r.persmsg))

HasPosted(f, r, u, n) ==
    \A i \in 1..n : f[i].from = u => i \in ToSet(Chain(Posters(f), r.postedpersmsg))

AllThere(f, us, n) ==
    \A u \in Users : HasGot(f, us[u], u) /\ HasPosted(f, us[u], u, n)

Whole == IF mailLock = None THEN Len(file) ELSE Len(file) - 1

\* ... and a request has the records as they are.
Fresh(us, me) ==
    /\ me.pc \notin {"idle", "post"} => me.ui = us[me.rq.user]
    /\ me.pc \in {"from", "deliver", "post"} => me.to = us[me.rq.what]
    /\ me.pc \in {"deliver", "setfavs"} => me.own = us[me.rq.user]
    /\ me.pc = "post" /\ me.rq.user # me.rq.what => me.own = us[me.rq.user]

KeptInv ==
    plan.alone => AllThere(file, users, Whole) /\ \A p \in Procs : Fresh(users, recLoc[p])

\* The heads of the chains stay, and so does the file.
Heads(us, vs) ==
    \A u \in Users : /\ vs[u].persmsg = us[u].persmsg
                     /\ vs[u].postedpersmsg = us[u].postedpersmsg

LEMMA KeptMoves ==
    ASSUME RecInv, KeptInv, NEW p \in Procs, NEW me, recLoc' = [recLoc EXCEPT ![p] = me],
           UNCHANGED plan, plan.alone => \A q \in Procs : q # p => recLoc[q].pc = "idle",
           plan.alone => Fresh(users', me) /\ AllThere(file', users', Whole')
    PROVE  KeptInv'
<1>1. recLoc'[p] = me /\ \A q \in Procs : q # p => recLoc'[q] = recLoc[q]
  BY DEF RecInv
<1>2. ASSUME plan.alone, NEW q \in Procs PROVE Fresh(users', recLoc'[q])
  BY <1>1, <1>2 DEF Fresh
<1> QED
  BY <1>2 DEF KeptInv

LEMMA KeptOn ==
    ASSUME RecInv, KeptInv, NEW p \in Procs, NEW me, recLoc' = [recLoc EXCEPT ![p] = me],
           UNCHANGED <<plan, file, mailLock, mixed>>,
           plan.alone => \A q \in Procs : q # p => recLoc[q].pc = "idle",
           plan.alone => Fresh(users', me) /\ Heads(users, users')
    PROVE  KeptInv'
<1>1. Whole' = Whole
  BY DEF Whole
<1>2. plan.alone => AllThere(file', users', Whole')
  BY <1>1 DEF KeptInv, AllThere, HasGot, HasPosted, Heads
<1>3. UNCHANGED plan
  OBVIOUS
<1> QED
  BY <1>2, <1>3, KeptMoves

LEMMA HeadsStay == ASSUME UNCHANGED users PROVE Heads(users, users')
  BY DEF Heads

LEMMA HeadsSet ==
    ASSUME RecInv, NEW u \in Users, NEW r, users' = [users EXCEPT ![u] = r],
           r.persmsg = users[u].persmsg, r.postedpersmsg = users[u].postedpersmsg
    PROVE  Heads(users, users')
  BY DEF Heads, RecInv

LEMMA BeginFresh ==
    ASSUME RecInv, KeptInv, PlansRight, NEW p \in Procs, CheckSession(p)
    PROVE  KeptInv'
<1>1. PICK rq \in plan.may[p] :
          recLoc' = [recLoc EXCEPT ![p].pc = "touch", ![p].rq = rq, ![p].ui = users[rq.user]]
  BY Zenon DEF CheckSession
<1>2. /\ recLoc[p].pc = "idle" /\ UNCHANGED <<users, file, mailLock, plan, mixed>>
      /\ plan.alone => \A q \in Procs : recLoc[q].pc = "idle"
  BY DEF CheckSession, At
<1>3. PICK me : me = [recLoc[p] EXCEPT !.pc = "touch", !.rq = rq, !.ui = users[rq.user]]
  OBVIOUS
<1>4. recLoc' = [recLoc EXCEPT ![p] = me]
  BY <1>1, <1>3 DEF RecInv
<1>5. Fit(file, users, plan, p, recLoc[p], mixed)
  BY DEF RecInv
<1>6. me.pc = "touch" /\ me.rq = rq /\ me.ui = users[rq.user]
  BY <1>3, <1>5 DEF Fit
<1>7. Fresh(users', me)
  BY <1>2, <1>6 DEF Fresh
<1> QED
  BY <1>2, <1>4, <1>7, KeptOn, HeadsStay

LEMMA TouchFresh ==
    ASSUME RecInv, KeptInv, PlansRight, NEW p \in Procs, Touch(p)
    PROVE  KeptInv'
<1>1. /\ recLoc[p].pc = "touch" /\ UNCHANGED <<file, mailLock, plan, mixed>>
      /\ users' = [users EXCEPT ![recLoc[p].rq.user] = recLoc[p].ui]
      /\ recLoc' = [recLoc EXCEPT ![p].pc = Handler(recLoc[p].rq.op)]
  BY DEF Touch, At, SetUInfo, UserOf
<1>2. /\ plan.alone => \A q \in Procs : q # p => recLoc[q].pc = "idle"
      /\ Fit(file, users, plan, p, recLoc[p], mixed) /\ recLoc[p].rq.user \in Users
      /\ recLoc[p].rq \in plan.may[p] /\ plan \in Plans
  BY <1>1, Under DEF RecInv
<1>3. PICK me : me = [recLoc[p] EXCEPT !.pc = Handler(recLoc[p].rq.op)]
  OBVIOUS
<1>4. recLoc' = [recLoc EXCEPT ![p] = me]
  BY <1>1, <1>3 DEF RecInv
<1>5. me.pc = Handler(recLoc[p].rq.op) /\ me.rq = recLoc[p].rq /\ me.ui = recLoc[p].ui
  BY <1>2, <1>3 DEF Fit
<1>6. me.pc \in {"to", "list", "show", "favs"}
  <2>1. recLoc[p].rq.op \in {"message", "read", "fav", "unfav", "show"}
    BY <1>2 DEF PlansRight, Request
  <2> QED
    BY <1>5, <2>1 DEF Handler
<1>7. ASSUME plan.alone PROVE Fresh(users', me) /\ Heads(users, users')
  <2>1. recLoc[p].ui = users[recLoc[p].rq.user]
    BY <1>1, <1>7 DEF KeptInv, Fresh
  <2>2. Heads(users, users')
    BY <1>1, <1>2, <2>1, HeadsSet
  <2>3. me.ui = users'[me.rq.user]
    BY <1>1, <1>2, <1>5 DEF RecInv
  <2> QED
    BY <1>6, <2>2, <2>3 DEF Fresh
<1> QED
  BY <1>1, <1>2, <1>4, <1>7, KeptOn

LEMMA ReadsFresh ==
    ASSUME RecInv, KeptInv, PlansRight, NEW p \in Procs, ReadTo(p) \/ ReadFrom(p)
    PROVE  KeptInv'
<1>1. CASE ReadTo(p)
  <2>1. /\ recLoc[p].pc = "to" /\ UNCHANGED <<users, file, mailLock, plan, mixed>>
        /\ recLoc' = [recLoc EXCEPT ![p].pc = "from", ![p].to = users[recLoc[p].rq.what]]
    BY <1>1 DEF ReadTo, At
  <2>2. /\ plan.alone => \A q \in Procs : q # p => recLoc[q].pc = "idle"
        /\ Fit(file, users, plan, p, recLoc[p], mixed)
    BY <2>1, Under
  <2>3. PICK me : me = [recLoc[p] EXCEPT !.pc = "from", !.to = users[recLoc[p].rq.what]]
    OBVIOUS
  <2>4. recLoc' = [recLoc EXCEPT ![p] = me]
    BY <2>1, <2>3 DEF RecInv
  <2>5. /\ me.pc = "from" /\ me.rq = recLoc[p].rq /\ me.ui = recLoc[p].ui
        /\ me.to = users[recLoc[p].rq.what]
    BY <2>2, <2>3 DEF Fit
  <2>6. plan.alone => Fresh(users', me)
    BY <2>1, <2>5 DEF KeptInv, Fresh
  <2> QED
    BY <2>1, <2>2, <2>4, <2>6, KeptOn, HeadsStay
<1>2. CASE ReadFrom(p)
  <2>1. /\ recLoc[p].pc = "from" /\ UNCHANGED <<users, file, mailLock, plan, mixed>>
        /\ recLoc' = [recLoc EXCEPT ![p].pc = "deliver", ![p].own = users[recLoc[p].rq.user]]
    BY <1>2 DEF ReadFrom, At, UserOf
  <2>2. /\ plan.alone => \A q \in Procs : q # p => recLoc[q].pc = "idle"
        /\ Fit(file, users, plan, p, recLoc[p], mixed)
    BY <2>1, Under
  <2>3. PICK me : me = [recLoc[p] EXCEPT !.pc = "deliver", !.own = users[recLoc[p].rq.user]]
    OBVIOUS
  <2>4. recLoc' = [recLoc EXCEPT ![p] = me]
    BY <2>1, <2>3 DEF RecInv
  <2>5. /\ me.pc = "deliver" /\ me.rq = recLoc[p].rq /\ me.ui = recLoc[p].ui
        /\ me.to = recLoc[p].to /\ me.own = users[recLoc[p].rq.user]
    BY <2>2, <2>3 DEF Fit
  <2>6. plan.alone => Fresh(users', me)
    BY <2>1, <2>5 DEF KeptInv, Fresh
  <2> QED
    BY <2>1, <2>2, <2>4, <2>6, KeptOn, HeadsStay
<1> QED
  BY <1>1, <1>2

LEMMA IdleFresh == \A us : Fresh(us, Idle)
BY DEF Fresh, Idle

LEMMA PagesFresh ==
    ASSUME RecInv, KeptInv, PlansRight, NEW p \in Procs, MarkRead(p) \/ ShowFavs(p)
    PROVE  KeptInv'
<1> DEFINE user == recLoc[p].rq.user
           ui == recLoc[p].ui
<1>1. /\ recLoc[p].pc \in {"list", "show"} /\ recLoc' = [recLoc EXCEPT ![p] = Idle]
      /\ UNCHANGED <<file, mailLock, plan, mixed>>
  BY DEF MarkRead, ShowFavs, At
<1>2. /\ plan.alone => \A q \in Procs : q # p => recLoc[q].pc = "idle"
      /\ user \in Users /\ Right(file, ui, user, mixed)
  BY <1>1, Under
<1>3. PICK r : /\ users' = [users EXCEPT ![user] = r]
               /\ r.persmsg = ui.persmsg /\ r.postedpersmsg = ui.postedpersmsg
  <2>1. CASE MarkRead(p)
    <3>1. PICK r : r = [ui EXCEPT !.read = ui.got]
      OBVIOUS
    <3>2. users' = [users EXCEPT ![user] = r]
      BY <2>1, <3>1 DEF MarkRead, SetUInfo, UserOf
    <3>3. r.persmsg = ui.persmsg /\ r.postedpersmsg = ui.postedpersmsg
      BY <1>2, <3>1 DEF Right, IsRecord
    <3> QED
      BY <3>2, <3>3
  <2>2. CASE ShowFavs(p)
    <3>1. PICK gone : users' = [users EXCEPT ![user] =
              [ui EXCEPT !.favs = [i \in 1..Favs |-> IF @[i] \in gone THEN 0 ELSE @[i]]]]
      BY <2>2 DEF ShowFavs, SetUInfo, UserOf
    <3>2. PICK favs : favs = [i \in 1..Favs |-> IF ui.favs[i] \in gone THEN 0 ELSE ui.favs[i]]
      OBVIOUS
    <3>3. PICK r : r = [ui EXCEPT !.favs = favs]
      OBVIOUS
    <3>4. r.persmsg = ui.persmsg /\ r.postedpersmsg = ui.postedpersmsg
      BY <1>2, <3>3 DEF Right, IsRecord
    <3>5. users' = [users EXCEPT ![user] = r]
      BY <3>1, <3>2, <3>3
    <3> QED
      BY <3>4, <3>5
  <2> QED
    BY <2>1, <2>2
<1>4. plan.alone => Heads(users, users')
  <2>1. plan.alone => ui = users[user]
    BY <1>1 DEF KeptInv, Fresh
  <2> QED
    BY <1>2, <1>3, <2>1, HeadsSet
<1>5. PICK me : me = Idle
  OBVIOUS
<1> QED
  BY <1>1, <1>2, <1>4, <1>5, IdleFresh, KeptOn

LEMMA FavsFresh ==
    ASSUME RecInv, KeptInv, PlansRight, NEW p \in Procs, ReadFavs(p) \/ SetFavs(p)
    PROVE  KeptInv'
<1> DEFINE user == recLoc[p].rq.user
<1>1. CASE ReadFavs(p)
  <2>1. /\ recLoc[p].pc = "favs" /\ UNCHANGED <<users, file, mailLock, plan, mixed>>
        /\ \/ recLoc' = [recLoc EXCEPT ![p].pc = "setfavs", ![p].own = users[user]]
           \/ recLoc' = [recLoc EXCEPT ![p] = Idle]
    BY <1>1 DEF ReadFavs, At, UserOf
  <2>2. /\ plan.alone => \A q \in Procs : q # p => recLoc[q].pc = "idle"
        /\ Fit(file, users, plan, p, recLoc[p], mixed)
    BY <2>1, Under
  <2>3. CASE recLoc' = [recLoc EXCEPT ![p].pc = "setfavs", ![p].own = users[user]]
    <3>1. PICK me : me = [recLoc[p] EXCEPT !.pc = "setfavs", !.own = users[user]]
      OBVIOUS
    <3>2. recLoc' = [recLoc EXCEPT ![p] = me]
      BY <2>3, <3>1 DEF RecInv
    <3>3. /\ me.pc = "setfavs" /\ me.rq = recLoc[p].rq /\ me.ui = recLoc[p].ui
          /\ me.own = users[user]
      BY <2>2, <3>1 DEF Fit
    <3>4. plan.alone => Fresh(users', me)
      BY <2>1, <3>3 DEF KeptInv, Fresh
    <3> QED
      BY <2>1, <2>2, <3>2, <3>4, KeptOn, HeadsStay
  <2>4. CASE recLoc' = [recLoc EXCEPT ![p] = Idle]
    <3>1. PICK me : me = Idle
      OBVIOUS
    <3> QED
      BY <2>1, <2>2, <2>4, <3>1, IdleFresh, KeptOn, HeadsStay
  <2> QED
    BY <2>1, <2>3, <2>4
<1>2. CASE SetFavs(p)
  <2> DEFINE own == recLoc[p].own
             m == recLoc[p].rq.what
  <2>1. /\ recLoc[p].pc = "setfavs" /\ UNCHANGED <<file, mailLock, plan, mixed>>
        /\ recLoc' = [recLoc EXCEPT ![p] = Idle]
    BY <1>2 DEF SetFavs, At
  <2>2. /\ plan.alone => \A q \in Procs : q # p => recLoc[q].pc = "idle"
        /\ Right(file, own, user, mixed) /\ user \in Users
    <3>1. /\ Fit(file, users, plan, p, recLoc[p], mixed) /\ user \in Users
          /\ plan.alone => \A q \in Procs : q # p => recLoc[q].pc = "idle"
      BY <2>1, Under
    <3> QED
      BY <2>1, <3>1 DEF Fit
  <2>3. \E favs : users' = [users EXCEPT ![user] = [own EXCEPT !.favs = favs]]
    <3>1. CASE recLoc[p].rq.op = "fav"
      BY <1>2, <3>1 DEF SetFavs, SetUInfo, UserOf
    <3>2. CASE recLoc[p].rq.op # "fav"
      <4>1. users' = [users EXCEPT ![user] =
                [own EXCEPT !.favs[SelectInSeq(own.favs, LAMBDA f : f = m)] = 0]]
        BY <1>2, <3>2 DEF SetFavs, SetUInfo, UserOf
      <4> QED
        BY <4>1
    <3> QED
      BY <3>1, <3>2
  <2>4. PICK favs : users' = [users EXCEPT ![user] = [own EXCEPT !.favs = favs]]
    BY <2>3
  <2>5. PICK r : r = [own EXCEPT !.favs = favs]
    OBVIOUS
  <2>6. /\ users' = [users EXCEPT ![user] = r]
        /\ r.persmsg = own.persmsg /\ r.postedpersmsg = own.postedpersmsg
    BY <2>2, <2>4, <2>5 DEF Right, IsRecord
  <2>7. plan.alone => own = users[user]
    BY <2>1 DEF KeptInv, Fresh
  <2>8. plan.alone => Heads(users, users')
    BY <2>2, <2>6, <2>7, HeadsSet
  <2>9. PICK me : me = Idle
    OBVIOUS
  <2> QED
    BY <2>1, <2>2, <2>8, <2>9, IdleFresh, KeptOn
<1> QED
  BY <1>1, <1>2

HeadsIn(f, us) ==
    \A v \in Users : us[v].persmsg \in 0..Len(f) /\ us[v].postedpersmsg \in 0..Len(f)

\* A new message begins the chains it is put on.
LEMMA LongerHas ==
    ASSUME NEW f, NEW x, NEW g, Grown(f, x, g), NEW us,
           AllThere(f, us, Len(f)), HeadsIn(f, us),
           NEW u \in Users, x.to = u, x.prev = us[u].persmsg,
           NEW vs, \A v \in Users : v # u => vs[v] = us[v],
           vs[u].persmsg = Len(g), vs[u].postedpersmsg = us[u].postedpersmsg
    PROVE  AllThere(g, vs, Len(g) - 1)
<1>1. /\ FileRight(f) /\ Len(f) \in Nat /\ Len(g) = Len(f) + 1
      /\ g[Len(f) + 1] = x /\ \A i \in 1..Len(f) : g[i] = f[i]
      /\ \A i \in 0..Len(f) : /\ Chain(Prevs(g), i) = Chain(Prevs(f), i)
                              /\ Chain(Posters(g), i) = Chain(Posters(f), i)
      /\ Chain(Prevs(g), Len(g)) = <<Len(g)>> \o Chain(Prevs(f), x.prev)
  BY DEF Grown
<1>2. \A v \in Users : us[v].persmsg \in 0..Len(f) /\ us[v].postedpersmsg \in 0..Len(f)
  BY DEF HeadsIn
<1>3. ToSet(Chain(Prevs(g), Len(g))) = {Len(g)} \cup ToSet(Chain(Prevs(f), us[u].persmsg))
  <2>1. PICK old, new : old = Chain(Prevs(f), us[u].persmsg) /\ new = <<Len(g)>> \o old
    OBVIOUS
  <2>2. Chain(Prevs(g), Len(g)) = new
    BY <1>1, <2>1
  <2>3. Falling(old, us[u].persmsg)
    BY <1>1, <1>2, <2>1, ChainsInFile
  <2>4. Len(g) \in Nat \ {0} /\ us[u].persmsg \in 0..(Len(g) - 1)
    BY <1>1, <1>2
  <2>5. ToSet(new) = {Len(g)} \cup ToSet(old)
    BY <2>1, <2>3, <2>4, FallingLonger
  <2> QED
    BY <2>1, <2>2, <2>5
<1>4. ASSUME NEW v \in Users PROVE HasGot(g, vs[v], v)
  <2>1. SUFFICES ASSUME NEW i \in 1..Len(g), g[i].to = v
                 PROVE  i \in ToSet(Chain(Prevs(g), vs[v].persmsg))
    BY DEF HasGot
  <2>2. HasGot(f, us[v], v)
    BY DEF AllThere
  <2>3. CASE v = u
    <3>1. i = Len(g) \/ i \in 1..Len(f)
      BY <1>1
    <3>2. i \in 1..Len(f) => i \in ToSet(Chain(Prevs(f), us[u].persmsg))
      BY <1>1, <2>1, <2>2, <2>3 DEF HasGot
    <3> QED
      BY <1>3, <2>3, <3>1, <3>2
  <2>4. CASE v # u
    <3>1. i \in 1..Len(f)
      BY <1>1, <2>1, <2>4
    <3>2. i \in ToSet(Chain(Prevs(f), us[v].persmsg))
      BY <1>1, <2>1, <2>2, <3>1 DEF HasGot
    <3> QED
      BY <1>1, <1>2, <2>4, <3>2
  <2> QED
    BY <2>3, <2>4
<1>5. ASSUME NEW v \in Users PROVE HasPosted(g, vs[v], v, Len(g) - 1)
  <2>1. SUFFICES ASSUME NEW i \in 1..(Len(g) - 1), g[i].from = v
                 PROVE  i \in ToSet(Chain(Posters(g), vs[v].postedpersmsg))
    BY DEF HasPosted
  <2>2. HasPosted(f, us[v], v, Len(f))
    BY DEF AllThere
  <2>3. i \in 1..Len(f) /\ g[i] = f[i]
    BY <1>1
  <2>4. i \in ToSet(Chain(Posters(f), us[v].postedpersmsg))
    BY <2>1, <2>2, <2>3 DEF HasPosted
  <2>5. vs[v].postedpersmsg = us[v].postedpersmsg
    OBVIOUS
  <2> QED
    BY <1>1, <1>2, <2>4, <2>5
<1> QED
  BY <1>4, <1>5 DEF AllThere

LEMMA PostedHas ==
    ASSUME NEW f, FileRight(f), NEW us, AllThere(f, us, Len(f) - 1), Len(f) > 0,
           NEW u \in Users, f[Len(f)].from = u, f[Len(f)].posterPrev = us[u].postedpersmsg,
           NEW vs, \A v \in Users : v # u => vs[v] = us[v],
           vs[u].persmsg = us[u].persmsg, vs[u].postedpersmsg = Len(f)
    PROVE  AllThere(f, vs, Len(f))
<1>1. /\ Len(f) \in Nat /\ Len(f) \in 1..Len(f) /\ Back(Posters(f)) /\ Len(Posters(f)) = Len(f)
      /\ Posters(f)[Len(f)] = us[u].postedpersmsg
  BY LinksOf DEF FileRight
<1>2. us[u].postedpersmsg \in 0..(Len(f) - 1)
  BY <1>1, BackFacts
<1>3. Chain(Posters(f), Len(f)) = <<Len(f)>> \o Chain(Posters(f), us[u].postedpersmsg)
  BY <1>1, ChainIs
<1>4. ToSet(Chain(Posters(f), Len(f))) =
          {Len(f)} \cup ToSet(Chain(Posters(f), us[u].postedpersmsg))
  <2>1. Falling(Chain(Posters(f), us[u].postedpersmsg), us[u].postedpersmsg)
    BY <1>1, <1>2, ChainsInFile
  <2>2. Len(f) \in Nat \ {0}
    BY <1>1
  <2> QED
    BY <1>2, <1>3, <2>1, <2>2, FallingLonger
<1>5. ASSUME NEW v \in Users PROVE HasGot(f, vs[v], v)
  <2>1. vs[v].persmsg = us[v].persmsg
    OBVIOUS
  <2> QED
    BY <2>1 DEF AllThere, HasGot
<1>6. ASSUME NEW v \in Users PROVE HasPosted(f, vs[v], v, Len(f))
  <2>1. SUFFICES ASSUME NEW i \in 1..Len(f), f[i].from = v
                 PROVE  i \in ToSet(Chain(Posters(f), vs[v].postedpersmsg))
    BY DEF HasPosted
  <2>2. i = Len(f) \/ i \in 1..(Len(f) - 1)
    BY <1>1
  <2>3. i \in 1..(Len(f) - 1) => i \in ToSet(Chain(Posters(f), us[v].postedpersmsg))
    BY <2>1 DEF AllThere, HasPosted
  <2>4. CASE v = u
    BY <1>4, <2>2, <2>3, <2>4
  <2>5. CASE v # u
    BY <2>1, <2>2, <2>3, <2>5
  <2> QED
    BY <2>4, <2>5
<1> QED
  BY <1>5, <1>6 DEF AllThere

LEMMA DeliverFresh ==
    ASSUME RecInv, KeptInv, PlansRight, UserRecordsConstants, NEW p \in Procs, Deliver(p)
    PROVE  KeptInv'
<1> DEFINE old == recLoc[p]
           user == old.rq.user
           what == old.rq.what
<1>1. PICK to, x : /\ to = [old.to EXCEPT !.persmsg = Len(file) + 1, !.got = @ + 1]
                   /\ x = MessageOf(old.to, old.own)
  OBVIOUS
<1>2. /\ old.pc = "deliver" /\ mailLock = None /\ UNCHANGED plan /\ mailLock' = p
      /\ file' = Append(file, x) /\ users' = [users EXCEPT ![what] = to]
      /\ recLoc' = [recLoc EXCEPT ![p].pc = "post", ![p].to = to]
  BY <1>1 DEF Deliver, At, SetUInfo, Delivered
<1>3. /\ plan.alone => \A q \in Procs : q # p => recLoc[q].pc = "idle"
      /\ Fit(file, users, plan, p, old, mixed)
      /\ \A u \in Users : Right(file, users[u], u, mixed)
      /\ old.rq.op = "message" => what \in Users
      /\ user \in Users
  BY <1>2, Under
<1>4. /\ old.rq.op = "message" /\ Right(file, old.to, what, mixed) /\ Right(file, old.own, user, mixed)
      /\ DOMAIN old = {"pc", "rq", "ui", "to", "own"}
  BY <1>2, <1>3 DEF Fit
<1>5. /\ x.to = what /\ x.from = user /\ x.prev = old.to.persmsg
      /\ x.posterPrev = old.own.postedpersmsg /\ x \in Message
      /\ x.prev <= Len(file) /\ x.posterPrev <= Len(file)
  <2>1. old.to.uniq = what /\ old.own.uniq = user
    BY <1>4 DEF Right
  <2>2. /\ old.to.persmsg \in Nat /\ old.own.postedpersmsg \in Nat
        /\ old.to.persmsg <= Len(file) /\ old.own.postedpersmsg <= Len(file)
    BY <1>4 DEF Right, IsRecord, GotRight, PostedRight
  <2> QED
    BY <1>1, <1>3, <1>4, <2>1, <2>2 DEF MessageOf, Message
<1>6. Grown(file, x, file')
  BY <1>2, <1>5, FileGrows DEF RecInv
<1>7. Len(file') = Len(file) + 1 /\ Whole = Len(file) /\ Whole' = Len(file') - 1
  BY <1>2, <1>6 DEF Grown, Whole, UserRecordsConstants
<1>8. to.persmsg = Len(file') /\ to.postedpersmsg = old.to.postedpersmsg
  BY <1>1, <1>4, <1>7 DEF Right, IsRecord
<1>9. /\ \A v \in Users : v # what => users'[v] = users[v]
      /\ users'[what] = to
  BY <1>2, <1>3, <1>4 DEF RecInv
<1>10. PICK me : me = [old EXCEPT !.pc = "post", !.to = to]
  OBVIOUS
<1>11. recLoc' = [recLoc EXCEPT ![p] = me]
  BY <1>2, <1>10 DEF RecInv
<1>12. me.pc = "post" /\ me.rq = old.rq /\ me.to = to /\ me.own = old.own
  BY <1>4, <1>10
<1>13. ASSUME plan.alone PROVE Fresh(users', me) /\ AllThere(file', users', Whole')
  <2>1. /\ old.to = users[what] /\ old.own = users[user]
        /\ AllThere(file, users, Len(file))
    BY <1>2, <1>7, <1>13 DEF KeptInv, Fresh
  <2>2. AllThere(file', users', Len(file') - 1)
    <3>4. HeadsIn(file, users)
      BY <1>3 DEF HeadsIn, Right, GotRight, PostedRight
    <3>1. PICK f, g, us, vs, u : f = file /\ g = file' /\ us = users /\ vs = users' /\ u = what
      OBVIOUS
    <3>2. /\ Grown(f, x, g) /\ AllThere(f, us, Len(f)) /\ HeadsIn(f, us)
          /\ u \in Users /\ x.to = u /\ x.prev = us[u].persmsg
          /\ \A v \in Users : v # u => vs[v] = us[v]
          /\ vs[u].persmsg = Len(g) /\ vs[u].postedpersmsg = us[u].postedpersmsg
      BY <1>3, <1>4, <1>5, <1>6, <1>8, <1>9, <2>1, <3>1, <3>4
    <3>3. AllThere(g, vs, Len(g) - 1)
      BY ONLY <3>2, LongerHas
    <3> QED
      BY <3>1, <3>3
  <2>3. user # what => old.own = users'[user]
    BY <1>3, <1>9, <2>1
  <2>4. Fresh(users', me)
    BY <1>9, <1>12, <2>3 DEF Fresh
  <2> QED
    BY <1>7, <2>2, <2>4
<1> HIDE DEF old, user, what
<1> QED
  BY <1>2, <1>3, <1>11, <1>13, KeptMoves

LEMMA PostFresh ==
    ASSUME RecInv, KeptInv, PlansRight, UserRecordsConstants, NEW p \in Procs, Post(p)
    PROVE  KeptInv'
<1> DEFINE old == recLoc[p]
           user == old.rq.user
           own == Poster(old.to, old.own)
<1>1. PICK r : r = [own EXCEPT !.postedpersmsg = Len(file), !.posted = @ + 1]
  OBVIOUS
<1>2. /\ old.pc = "post" /\ mailLock' = None /\ UNCHANGED <<file, plan, mixed>>
      /\ users' = [users EXCEPT ![user] = r] /\ recLoc' = [recLoc EXCEPT ![p] = Idle]
  BY <1>1 DEF Post, At, SetUInfo, UserOf
<1>3. /\ Fit(file, users, plan, p, old, mixed) /\ user \in Users
      /\ plan.alone => \A q \in Procs : q # p => recLoc[q].pc = "idle"
  BY <1>2, Under
<1>4. /\ Right(file, old.to, old.rq.what, mixed) /\ Right(file, old.own, user, mixed)
      /\ Len(file) > 0 /\ file[Len(file)].from = user
      /\ file[Len(file)].posterPrev = old.own.postedpersmsg
      /\ plan.alone => old.own.postedpersmsg = own.postedpersmsg
  BY <1>2, <1>3 DEF Fit
<1>5. Right(file, own, user, mixed) /\ mailLock = p /\ mailLock # None
  BY SMTT(40), <1>2, <1>4 DEF Right, Poster, RecInv, UserRecordsConstants
<1>6. r.persmsg = own.persmsg /\ r.postedpersmsg = Len(file)
  BY <1>1, <1>5 DEF Right, IsRecord
<1>7. \A v \in Users : users'[v] = IF v = user THEN r ELSE users[v]
  BY <1>2, <1>3 DEF RecInv
<1>8. ASSUME plan.alone PROVE AllThere(file', users', Whole')
  <2>1. /\ old.to = users[old.rq.what]
        /\ user # old.rq.what => old.own = users[user]
        /\ AllThere(file, users, Len(file) - 1)
    BY <1>2, <1>5, <1>8 DEF KeptInv, Fresh, Whole
  <2>2. own = users[user]
    <3>1. old.to.uniq = old.rq.what /\ old.own.uniq = user
      BY <1>4 DEF Right
    <3> QED
      BY <2>1, <3>1 DEF Poster
  <2>3. AllThere(file, users', Len(file))
    <3>1. PICK f, us, vs, u : f = file /\ us = users /\ vs = users' /\ u = user
      OBVIOUS
    <3>2. /\ FileRight(f) /\ AllThere(f, us, Len(f) - 1) /\ Len(f) > 0 /\ u \in Users
          /\ f[Len(f)].from = u /\ f[Len(f)].posterPrev = us[u].postedpersmsg
          /\ \A v \in Users : v # u => vs[v] = us[v]
          /\ vs[u].persmsg = us[u].persmsg /\ vs[u].postedpersmsg = Len(f)
      BY <1>3, <1>4, <1>6, <1>7, <1>8, <2>1, <2>2, <3>1 DEF RecInv
    <3>3. AllThere(f, vs, Len(f))
      BY ONLY <3>2, PostedHas
    <3> QED
      BY <3>1, <3>3
  <2> QED
    BY <1>2, <2>3 DEF Whole
<1>9. PICK me : me = Idle
  OBVIOUS
<1> HIDE DEF old, user, own
<1> QED
  BY <1>2, <1>3, <1>8, <1>9, IdleFresh, KeptMoves

LEMMA NothingThere == \A us, n : n \in {0, Len(<<>>)} => AllThere(<<>>, us, n)
<1>1. Len(<<>>) = 0 /\ \A i : i \notin 1..0
  OBVIOUS
<1> QED
  BY <1>1 DEF AllThere, HasGot, HasPosted

LEMMA KeptStarts ==
    ASSUME RecInit
    PROVE  KeptInv
<1>1. file = <<>> /\ mailLock = None /\ \A p \in Procs : recLoc[p] = Idle
  BY DEF RecInit
<1>2. Whole = Len(<<>>)
  BY <1>1 DEF Whole
<1> QED
  BY <1>1, <1>2, NothingThere, IdleFresh DEF KeptInv

LEMMA KeptKept ==
    ASSUME PlansRight, UserRecordsConstants, RecInv, KeptInv, [RecNext]_recVars
    PROVE  KeptInv'
<1>1. CASE RenewMail
  <2>1. /\ \A p \in Procs : recLoc[p].pc = "idle"
        /\ file' = <<>> /\ UNCHANGED <<mailLock, plan, mixed, recLoc>>
    BY <1>1 DEF RenewMail, At
  <2>2. mailLock = None
    BY <2>1 DEF RecInv
  <2>3. AllThere(file', users', Whole')
    BY <2>1, <2>2, NothingThere DEF Whole
  <2>4. \A p \in Procs : Fresh(users', recLoc'[p])
    BY <2>1 DEF Fresh
  <2> QED
    BY <2>3, <2>4 DEF KeptInv
<1>2. ASSUME NEW p \in Procs,
             \/ CheckSession(p) \/ Touch(p) \/ ReadTo(p) \/ ReadFrom(p) \/ Deliver(p) \/ Post(p)
             \/ MarkRead(p) \/ ShowFavs(p) \/ ReadFavs(p) \/ SetFavs(p)
      PROVE  KeptInv'
  BY <1>2, BeginFresh, TouchFresh, ReadsFresh, DeliverFresh, PostFresh, PagesFresh, FavsFresh
<1>3. ASSUME NEW p \in Procs, Die(p) PROVE KeptInv'
  BY <1>3 DEF Die, KeptInv
<1>4. CASE UNCHANGED recVars
  BY <1>4 DEF recVars, KeptInv, AllThere, HasGot, HasPosted, Fresh, Whole
<1> QED
  BY <1>1, <1>2, <1>3, <1>4 DEF RecNext

LEMMA KeptInvHolds ==
    ASSUME PlansRight, UserRecordsConstants
    PROVE  RecSpec => [](RecInv /\ KeptInv)
<1>1. RecInit => RecInv /\ KeptInv
  BY RecStarts, KeptStarts
<1>2. RecInv /\ KeptInv /\ [RecNext]_recVars => RecInv' /\ KeptInv'
  BY RecKept, KeptKept
<1> QED
  BY <1>1, <1>2, PTL DEF RecSpec

\* All messages are on the chains they belong on, between requests.
LEMMA BetweenRequests ==
    ASSUME UserRecordsConstants, RecInv, KeptInv, plan.alone, \A p \in Procs : At(p, "idle")
    PROVE  /\ AllThere(file, users, Len(file))
           /\ \A i : Got(i) = Chain(Prevs(file), i) /\ PostedBy(i) = Chain(Posters(file), i)
           /\ \A i \in 1..Len(file) : file[i].to \in Users /\ file[i].from \in Users
           /\ DOMAIN file = 1..Len(file)
<1>1. mailLock = None
  BY DEF RecInv, At
<1>2. AllThere(file, users, Len(file))
  BY <1>1 DEF KeptInv, Whole
<1>3. \A i : Got(i) = Chain(Prevs(file), i) /\ PostedBy(i) = Chain(Posters(file), i)
  BY DEF Got, PostedBy, Prevs, Posters
<1>4. \A i \in 1..Len(file) : file[i] \in Message /\ DOMAIN file = 1..Len(file)
  BY LinksOf DEF RecInv, FileRight
<1>5. DOMAIN file = 1..Len(file)
  BY LinksOf DEF RecInv, FileRight
<1> QED
  BY <1>2, <1>3, <1>4, <1>5 DEF Message

LEMMA KeptFollows == ASSUME UserRecordsConstants, RecInv, KeptInv PROVE OnBothChains
<1>1. SUFFICES ASSUME plan.alone, \A p \in Procs : At(p, "idle"), NEW i \in DOMAIN file
               PROVE  /\ i \in ToSet(Got(users[file[i].to].persmsg))
                      /\ i \in ToSet(PostedBy(users[file[i].from].postedpersmsg))
  BY DEF OnBothChains
<1>2. /\ AllThere(file, users, Len(file))
      /\ \A k : Got(k) = Chain(Prevs(file), k) /\ PostedBy(k) = Chain(Posters(file), k)
      /\ i \in 1..Len(file) /\ file[i].to \in Users /\ file[i].from \in Users
  BY <1>1, BetweenRequests
<1>3. i \in ToSet(Chain(Prevs(file), users[file[i].to].persmsg))
  BY <1>2 DEF AllThere, HasGot
<1>4. i \in ToSet(Chain(Posters(file), users[file[i].from].postedpersmsg))
  BY <1>2 DEF AllThere, HasPosted
<1> QED
  BY <1>2, <1>3, <1>4

\* The first n of a falling sequence are those down to the nth.
LEMMA DownTo ==
    ASSUME NEW i, NEW s, Falling(s, i), NEW n \in 1..Len(s), i \in Nat,
           NEW page, page = SubSeq(s, 1, n)
    PROVE  /\ page # <<>> /\ Last(page) = s[n] /\ s[n] \in Nat \ {0}
           /\ \A x : x \in ToSet(page) <=> x \in ToSet(s) /\ x >= s[n]
<1>1. /\ s \in Seq(Nat) /\ Len(s) \in Nat /\ \A k \in 1..Len(s) : s[k] \in 1..i
      /\ \A k, l \in 1..Len(s) : k < l => s[k] > s[l]
  BY DEF Falling
<1>2. page \in Seq(Nat) /\ Len(page) = n /\ \A k \in 1..n : page[k] = s[k]
  BY <1>1
<1>3. DOMAIN page = 1..n /\ DOMAIN s = 1..Len(s)
  BY <1>1, <1>2
<1>4. page # <<>> /\ Last(page) = s[n] /\ s[n] \in Nat \ {0}
  <2>1. Len(page) > 0 /\ page[n] = s[n] /\ s[n] \in 1..i
    BY <1>1, <1>2
  <2>2. page # <<>>
    BY <1>2, <2>1
  <2> QED
    BY <1>2, <2>1, <2>2 DEF Last
<1>5. ASSUME NEW x PROVE x \in ToSet(page) <=> x \in ToSet(s) /\ x >= s[n]
  <2>1. ASSUME x \in ToSet(page) PROVE x \in ToSet(s) /\ x >= s[n]
    <3>1. PICK k \in 1..n : x = page[k]
      BY <1>3, <2>1 DEF ToSet
    <3>2. x = s[k] /\ k \in 1..Len(s) /\ (k < n \/ k = n)
      BY <1>1, <1>2, <3>1
    <3>3. x \in ToSet(s)
      BY <1>3, <3>2 DEF ToSet
    <3> QED
      BY <1>1, <3>2, <3>3
  <2>2. ASSUME x \in ToSet(s), x >= s[n] PROVE x \in ToSet(page)
    <3>1. PICK k \in 1..Len(s) : x = s[k]
      BY <1>3, <2>2 DEF ToSet
    <3>2. k <= n
      BY <1>1, <2>2, <3>1
    <3>3. k \in 1..n /\ x = page[k]
      BY <1>1, <1>2, <3>1, <3>2
    <3> QED
      BY <1>3, <3>3 DEF ToSet
  <2> QED
    BY <2>1, <2>2
<1> QED
  BY <1>4, <1>5

\* A page of posted messages holds those since the oldest one.
LEMMA SinceOldest ==
    ASSUME NEW i, NEW s, Falling(s, i), i \in Nat, NEW oldest \in Nat \ {0}
    PROVE  ToSet(PostedSince(s, oldest)) = {x \in ToSet(s) : x >= oldest}
<1>1. /\ s \in Seq(Nat) /\ Len(s) \in Nat /\ \A k \in 1..Len(s) : s[k] \in 1..i
      /\ \A k, l \in 1..Len(s) : k < l => s[k] > s[l]
  BY DEF Falling
<1>2. PICK more : more = Append(s, 0)
  OBVIOUS
<1>3. /\ more \in Seq(Nat) /\ Len(more) = Len(s) + 1 /\ more[Len(s) + 1] = 0
      /\ \A k \in 1..Len(s) : more[k] = s[k]
  BY <1>1, <1>2
<1>4. PICK I : I = {k \in 1..Len(more) : more[k] < oldest}
  OBVIOUS
<1>5. I \in SUBSET Nat /\ Len(s) + 1 \in I
  BY <1>1, <1>3, <1>4
<1>6. PICK first : first = Min(I)
  OBVIOUS
<1>7. first \in I /\ \A k \in I : first <= k
  <2>1. \E x \in I : \A y \in I : x <= y
    BY <1>5, HasLeast
  <2> QED
    BY <1>6, <2>1 DEF Min
<1>8. PostedSince(s, oldest) = SubSeq(s, 1, first - 1)
  <2>1. SelectInSeq(more, LAMBDA k : k < oldest) = first
    BY <1>4, <1>5, <1>6 DEF SelectInSeq
  <2> QED
    BY <1>2, <2>1 DEF PostedSince
<1>9. PICK page : page = SubSeq(s, 1, first - 1)
  OBVIOUS
<1>10. first \in 1..(Len(s) + 1)
  BY <1>3, <1>4, <1>7
<1>11. page \in Seq(Nat) /\ Len(page) = first - 1 /\ \A k \in 1..(first - 1) : page[k] = s[k]
  BY <1>1, <1>9, <1>10
<1>12. DOMAIN page = 1..(first - 1) /\ DOMAIN s = 1..Len(s)
  BY <1>1, <1>10, <1>11
<1>13. ASSUME NEW x PROVE x \in ToSet(page) <=> x \in ToSet(s) /\ x >= oldest
  <2>1. ASSUME x \in ToSet(page) PROVE x \in ToSet(s) /\ x >= oldest
    <3>1. PICK k \in 1..(first - 1) : x = page[k]
      BY <1>12, <2>1 DEF ToSet
    <3>2. x = s[k] /\ k \in 1..Len(s) /\ k \notin I /\ more[k] = s[k]
      BY SMTT(40), <1>3, <1>7, <1>10, <1>11, <3>1
    <3>3. x >= oldest
      BY <1>1, <1>3, <1>4, <3>2
    <3> QED
      BY <1>12, <3>2, <3>3 DEF ToSet
  <2>2. ASSUME x \in ToSet(s), x >= oldest PROVE x \in ToSet(page)
    <3>1. PICK k \in 1..Len(s) : x = s[k]
      BY <1>12, <2>2 DEF ToSet
    <3>2. CASE first = Len(s) + 1
      <4>1. k \in 1..(first - 1)
        BY <1>1, <3>2
      <4> QED
        BY <1>11, <1>12, <3>1, <4>1 DEF ToSet
    <3>3. CASE first # Len(s) + 1
      <4>1. first \in 1..Len(s) /\ s[first] < oldest
        BY SMTT(40), <1>3, <1>4, <1>7, <1>10, <3>3
      <4>2. s[k] \in Nat /\ s[first] \in Nat
        BY <1>1, <3>1, <4>1, ElementOfSeq
      <4>3. s[k] > s[first] /\ ~(s[first] > s[k]) /\ s[first] # s[k]
        BY <2>2, <3>1, <4>1, <4>2
      <4>4. ~(first < k) /\ first # k
        BY <1>1, <3>1, <4>1, <4>3
      <4>5. k \in 1..(first - 1)
        BY <1>1, <3>1, <4>1, <4>4
      <4> QED
        BY <1>11, <1>12, <3>1, <4>5 DEF ToSet
    <3> QED
      BY <3>2, <3>3
  <2> QED
    BY <2>1, <2>2
<1> QED
  BY <1>8, <1>9, <1>13

\* A page of messages got, with those posted since the oldest of them.
LEMMA PagesFollow == ASSUME UserRecordsConstants, RecInv, KeptInv PROVE PageWhole
<1>1. SUFFICES ASSUME plan.alone, \A p \in Procs : At(p, "idle"),
                      NEW u \in Users, ListedGot(u) # <<>>
               PROVE  ToSet(ListedGot(u)) \cup ToSet(ListedPosted(u)) =
                        {i \in Last(ListedGot(u))..Len(file) : u \in {file[i].to, file[i].from}}
  BY DEF PageWhole
<1>2. PICK s, t, h, k : /\ s = Got(h) /\ t = PostedBy(k)
                        /\ h = users[u].persmsg /\ k = users[u].postedpersmsg
  OBVIOUS
<1>3. /\ AllThere(file, users, Len(file))
      /\ s = Chain(Prevs(file), h) /\ t = Chain(Posters(file), k)
  BY <1>1, <1>2, BetweenRequests
<1>4. /\ h \in 0..Len(file) /\ k \in 0..Len(file) /\ Len(file) \in Nat
      /\ \A i \in ToSet(s) : file[i].to = u
      /\ \A i \in ToSet(t) : file[i].from = u
  <2>1. GotRight(file, h, users[u].got, u) /\ PostedRight(file, k, users[u].posted, u, mixed)
    BY <1>2 DEF RecInv, Right
  <2> QED
    BY <1>3, <2>1, LinksOf DEF RecInv, FileRight, GotRight, PostedRight
<1>5. /\ Falling(s, h) /\ Falling(t, k)
      /\ ToSet(s) \subseteq 1..Len(file) /\ ToSet(t) \subseteq 1..Len(file)
  <2>1. FileRight(file)
    BY DEF RecInv
  <2> QED
    BY <1>3, <1>4, <2>1, ChainsInFile
<1>6. /\ \A i \in 1..Len(file) : file[i].to = u => i \in ToSet(s)
      /\ \A i \in 1..Len(file) : file[i].from = u => i \in ToSet(t)
  <2>1. HasGot(file, users[u], u) /\ HasPosted(file, users[u], u, Len(file))
    BY <1>3 DEF AllThere
  <2> QED
    BY <1>2, <1>3, <2>1 DEF HasGot, HasPosted
<1>7. PICK page, n : /\ page = SubSeq(s, 1, n)
                     /\ n = IF PageLength < Len(s) THEN PageLength ELSE Len(s)
  OBVIOUS
<1>8. ListedGot(u) = page
  BY <1>2, <1>7 DEF ListedGot, FirstOf
<1>9. n \in 1..Len(s)
  <2>1. Len(s) \in Nat /\ PageLength \in Nat \ {0} /\ s \in Seq(Nat)
    BY <1>5 DEF Falling, UserRecordsConstants
  <2>2. Len(s) = 0 => page = <<>>
    BY <1>7, <2>1
  <2> QED
    BY <1>1, <1>7, <1>8, <2>1, <2>2
<1>10. PICK oldest : oldest = s[n]
  OBVIOUS
<1>11. /\ page # <<>> /\ Last(page) = oldest /\ oldest \in Nat \ {0}
       /\ \A x : x \in ToSet(page) <=> x \in ToSet(s) /\ x >= oldest
  <2>1. h \in Nat /\ Falling(s, h) /\ n \in 1..Len(s) /\ page = SubSeq(s, 1, n)
    BY <1>4, <1>5, <1>7, <1>9
  <2>2. /\ page # <<>> /\ Last(page) = s[n] /\ s[n] \in Nat \ {0}
        /\ \A x : x \in ToSet(page) <=> x \in ToSet(s) /\ x >= s[n]
    BY ONLY ZenonT(40), <2>1, DownTo
  <2> QED
    BY <1>10, <2>2
<1>12. ListedPosted(u) = PostedSince(t, oldest)
  BY <1>2, <1>8, <1>11 DEF ListedPosted
<1>13. ToSet(ListedPosted(u)) = {x \in ToSet(t) : x >= oldest}
  BY <1>4, <1>5, <1>11, <1>12, SinceOldest
<1>14. \A x : x \in {i \in oldest..Len(file) : u \in {file[i].to, file[i].from}} <=>
             x \in 1..Len(file) /\ x >= oldest /\ (file[x].to = u \/ file[x].from = u)
  BY <1>4, <1>11
<1>15. \A x : x \in ToSet(page) \/ x \in ToSet(ListedPosted(u)) <=>
             x \in 1..Len(file) /\ x >= oldest /\ (file[x].to = u \/ file[x].from = u)
  BY <1>4, <1>5, <1>6, <1>11, <1>13
<1> QED
  BY <1>8, <1>11, <1>14, <1>15

\* While requests come one after the other every message is on the chains of its
\* recipient and of its sender, also when they are one user, and the page of a
\* user's messages leaves none out, whatever the length of a page
\* (PostPersonalMessage, ReadPersonalMessages, ReadPersonalMessagesByDate).
THEOREM NoMailLost ==
    ASSUME PlansRight, UserRecordsConstants
    PROVE  RecSpec => []MessagesKept
<1>1. RecInv /\ KeptInv => MessagesKept
  BY KeptFollows, PagesFollow DEF MessagesKept
<1> QED
  BY <1>1, KeptInvHolds, PTL

\* However requests overlap, favourites are in ascending order, with any empty
\* places between them, for any number of places (CheckandAddFavsList,
\* DelFavsList, SetUInfo).
THEOREM FavouritesStaySorted ==
    ASSUME PlansRight, UserRecordsConstants
    PROVE  RecSpec => []FavsSorted
<1>1. RecInv => FavsSorted
  BY DEF RecInv, Right, IsRecord, FavsSorted
<1> QED
  BY <1>1, RecInvHolds, PTL

\* Requests one after the other: adding a favourite adds that one to the set of
\* them and removing one removes that one, for any number of places and wherever
\* the empty ones are (CheckandAddFavsList, DelFavsList).
THEOREM FavouritesKept ==
    ASSUME PlansRight, UserRecordsConstants
    PROVE  RecSpec => FavsKept
<1> DEFINE Kept == plan.alone => \A u \in Users, p \in Procs :
                      At(p, "setfavs") /\ ~At(p, "setfavs")' /\ UserOf(p) = u =>
                          /\ FavsSorted'
                          /\ FavSet(u)' = IF recLoc[p].rq.op = "fav"
                                          THEN FavSet(u) \cup {recLoc[p].rq.what}
                                          ELSE FavSet(u) \ {recLoc[p].rq.what}
<1>1. ASSUME RecInv, KeptInv, RecInv', [RecNext]_recVars PROVE Kept
  <2>1. SUFFICES ASSUME plan.alone, NEW u \in Users, NEW p \in Procs,
                        At(p, "setfavs"), ~At(p, "setfavs")', UserOf(p) = u
                 PROVE  /\ FavsSorted'
                        /\ FavSet(u)' = IF recLoc[p].rq.op = "fav"
                                        THEN FavSet(u) \cup {recLoc[p].rq.what}
                                        ELSE FavSet(u) \ {recLoc[p].rq.what}
    OBVIOUS
  <2>2. recLoc[p].pc = "setfavs" /\ recLoc'[p].pc # "setfavs" /\ recLoc[p].rq.user = u
    BY <2>1 DEF At, UserOf
  <2>3. \A q \in Procs : q # p => recLoc[q].pc = "idle"
    BY <1>1, <2>1, <2>2 DEF RecInv
  <2>4. SetFavs(p)
    <3>1. CASE RenewMail
      BY <2>2, <3>1 DEF RenewMail, At
    <3>2. CASE UNCHANGED recVars
      BY <2>2, <3>2 DEF recVars
    <3>3. ASSUME NEW q \in Procs,
                 \/ CheckSession(q) \/ Touch(q) \/ ReadTo(q) \/ ReadFrom(q) \/ Deliver(q) \/ Post(q)
                 \/ Die(q) \/ MarkRead(q) \/ ShowFavs(q) \/ ReadFavs(q) \/ SetFavs(q)
          PROVE  SetFavs(p)
      <4>1. q = p
        <5>1. SUFFICES ASSUME q # p PROVE FALSE
          OBVIOUS
        <5>2. recLoc[q].pc = "idle"
          BY <2>3, <5>1
        <5>3. CheckSession(q)
          BY <3>3, <5>2 DEF Touch, ReadTo, ReadFrom, Deliver, Post, Die, MarkRead, ShowFavs,
                            ReadFavs, SetFavs, At
        <5> QED
          BY <2>1, <2>2, <5>3 DEF CheckSession, At
      <4>2. ~CheckSession(p) /\ ~Touch(p) /\ ~ReadTo(p) /\ ~ReadFrom(p)
        BY <2>2 DEF CheckSession, Touch, ReadTo, ReadFrom, At
      <4>3. ~Deliver(p) /\ ~Post(p) /\ ~Die(p)
        BY <2>2 DEF Deliver, Post, Die, At
      <4>4. ~MarkRead(p) /\ ~ShowFavs(p) /\ ~ReadFavs(p)
        BY <2>2 DEF MarkRead, ShowFavs, ReadFavs, At
      <4> QED
        BY <3>3, <4>1, <4>2, <4>3, <4>4
    <3> QED
      BY <1>1, <3>1, <3>2, <3>3 DEF RecNext
  <2>5. PICK favs \in FavLists :
              /\ ToSet(favs) \ {0} =
                    IF recLoc[p].rq.op = "fav"
                    THEN (ToSet(recLoc[p].own.favs) \ {0}) \cup {recLoc[p].rq.what}
                    ELSE (ToSet(recLoc[p].own.favs) \ {0}) \ {recLoc[p].rq.what}
              /\ Right(file, recLoc[p].own, u, mixed)
              /\ users' = [users EXCEPT ![u] = [recLoc[p].own EXCEPT !.favs = favs]]
    BY <1>1, <2>2, <2>4, FavsSet
  <2>6. recLoc[p].own = users[u]
    BY <1>1, <2>1, <2>2, <2>5 DEF KeptInv, Fresh
  <2>7. users'[u].favs = favs
    <3>1. users \in [Users -> Records] /\ recLoc[p].own \in Records
      BY <1>1, <2>5 DEF RecInv, Right, IsRecord
    <3> QED
      BY <2>5, <3>1 DEF Records
  <2>8. FavsSorted'
    BY <1>1 DEF RecInv, Right, IsRecord, FavsSorted
  <2> QED
    BY <2>5, <2>6, <2>7, <2>8 DEF FavSet
<1>2. RecInv /\ KeptInv /\ RecInv' /\ [RecNext]_recVars => [Kept]_recVars
  BY <1>1
<1>3. RecSpec => [][RecNext]_recVars
  BY DEF RecSpec
<1> HIDE DEF Kept
<1>4. RecSpec => [][Kept]_recVars
  BY <1>2, <1>3, KeptInvHolds, PTL
<1> QED
  BY <1>4 DEF FavsKept, Kept
=============================================================================
