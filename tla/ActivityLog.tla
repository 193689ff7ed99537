---------------------------- MODULE ActivityLog ----------------------------
(***************************************************************************)
(* The activity log (activitylog.cpp): how many hosts and hits there were  *)
(* in a period of ten minutes.  Two files take turns: one collects the     *)
(* hits of the current period, the other has those of the period before    *)
(* and is shown; it is summed up when it is shown first.  When a period    *)
(* has no file yet one of the two is started again for it, and what was    *)
(* summed up in it goes into the archive.  Which file is which is decided  *)
(* by their starting times and the request's time, read before the locks;  *)
(* all the rest is done under the locks of both files, in one order.       *)
(* The files are those that the first request has created.                 *)
(***************************************************************************)
EXTENDS Requests, Integers, FiniteSets, Sequences, SequencesExt

CONSTANTS
    Hosts,          \* addresses
    Period,         \* ACTIVITY_CONTROL_TIME
    MaxLogTime,     \* bound: the clock
    MaxVisits       \* bound: hits

\* What the constants are.
ActivityLogConstants ==
    /\ Period \in Nat \ {0}
    /\ MaxLogTime \in Nat /\ MaxVisits \in Nat

VARIABLES
    logNow,         \* the clock
    files,          \* activitylog1.dat, activitylog2.dat
    archive,        \* activityarch.dat
    visits,         \* history: address and time of each hit registered
    shown,          \* history: the numbers last shown
    logAlone,       \* requests come one after the other
    logLoc          \* the time each request has read, 0 for none

logVars == <<logNow, files, archive, visits, shown, logAlone, logLoc>>

\* hits: a record for each address that came, with how often it did, or when
\* summed is set (the DWORD fin) the two sums.
Hits == Seq([host : Hosts, count : Nat])
File == [start : Nat, summed : BOOLEAN, hits : Hits, sum : Nat, hosts : Nat]

NewFile(start, hits) ==
    [start |-> start, summed |-> FALSE, hits |-> hits, sum |-> 0, hosts |-> 0]

Nothing == [start |-> 0, sum |-> 0, hosts |-> 0, archiving |-> FALSE]

LogInit ==
    /\ logNow = 2 * Period + 1           \* long after the start of a file of zeros
    /\ files = [i \in {1, 2} |-> NewFile(0, <<>>)]
    /\ archive = <<>>
    /\ visits = <<>>
    /\ shown = Nothing
    /\ logAlone \in BOOLEAN
    /\ logLoc = [p \in Procs |-> 0]

Other(i) == 3 - i

\* A file started at s is shown, or collects hits, at time t.
Shows(s, t) == t - 2 * Period <= s /\ s < t - Period

\* Mutant: the file just started collects the hits of its first second, too,
\* but the file of the period before does so no longer.
CollectsFrom(s, t) == t - Period < s /\ s <= t
Collects(s, t) == t - Period <= s /\ s < t

\* The file not shown; 1 if none is.
Free(t) == IF Shows(files[1].start, t) THEN 2 ELSE 1

\* The file that the hit goes to.
Target(t) == IF Collects(files[Other(Free(t))].start, t) THEN Other(Free(t)) ELSE Free(t)

\* hitcnt: the sum of all counts.
Total(hits) ==
    LET upTo[k \in 0..Len(hits)] == IF k = 0 THEN 0 ELSE upTo[k - 1] + hits[k].count
    IN  upTo[Len(hits)]

SummedUp(file) ==
    IF file.summed THEN file
    ELSE [start |-> file.start, summed |-> TRUE, hits |-> <<>>,
          sum |-> Total(file.hits), hosts |-> Len(file.hits)]

\* The record of the address is counted up, or one is put at the end.
Counted(hits, h) ==
    LET i == SelectInSeq(hits, LAMBDA r : r.host = h)
    IN  IF i = 0 THEN Append(hits, [host |-> h, count |-> 1])
        ELSE [hits EXCEPT ![i].count = @ + 1]

\* A hit in a file that has been summed up is lost.
WithHit(file, h) ==
    IF file.summed THEN file ELSE [file EXCEPT !.hits = Counted(@, h)]

\* A new period starts where the one before ended, if that was summed up only
\* now, otherwise with its first hit.
Start(t, before) ==
    IF Shows(files[before].start, t) /\ ~files[before].summed
    THEN files[before].start + Period ELSE t

-----------------------------------------------------------------------------
Tick ==
    /\ logNow < MaxLogTime
    /\ logNow' = logNow + 1
    /\ UNCHANGED <<files, archive, visits, shown, logAlone, logLoc>>

\* A request reads the time.
BeginHit(p) ==
    /\ logLoc[p] = 0
    /\ logAlone => \A q \in Procs : logLoc[q] = 0
    /\ Len(visits) + Cardinality({q \in Procs : logLoc[q] # 0}) < MaxVisits
    /\ logLoc' = [logLoc EXCEPT ![p] = logNow]
    /\ UNCHANGED <<logNow, files, archive, visits, shown, logAlone>>

\* RegisterActivityFrom, when the current period has a file.
Hit(p, h) ==
    LET t == logLoc[p]
        f == Target(t)
        g == Other(f)
        before == IF Shows(files[g].start, t) THEN SummedUp(files[g]) ELSE files[g]
    IN  /\ t # 0
        /\ Collects(files[f].start, t)
        /\ files' = [files EXCEPT ![f] = WithHit(@, h), ![g] = before]
        /\ shown' = IF Shows(before.start, t)
                    THEN [start |-> before.start, sum |-> before.sum,
                          hosts |-> before.hosts, archiving |-> FALSE]
                    ELSE Nothing
        /\ visits' = Append(visits, [host |-> h, t |-> t])
        /\ logLoc' = [logLoc EXCEPT ![p] = 0]
        /\ UNCHANGED <<logNow, archive, logAlone>>

Archived(file) == [start |-> file.start, sum |-> file.sum, hosts |-> file.hosts]

\* When it has none: a file is started for it.  If that was summed up, its sums
\* are archived, and the variables they are read into are those shown.
StartPeriod(p, h) ==
    LET t == logLoc[p]
        f == Target(t)
        g == Other(f)
        before == IF Shows(files[g].start, t) THEN SummedUp(files[g]) ELSE files[g]
        old == files[f]
    IN  /\ t # 0
        /\ ~Collects(old.start, t)
        /\ files' = [files EXCEPT ![f] = NewFile(Start(t, g), Counted(<<>>, h)), ![g] = before]
        /\ archive' = IF old.summed THEN Append(archive, Archived(old)) ELSE archive
        /\ shown' = CASE old.summed ->
                            [start |-> IF Shows(before.start, t) THEN before.start ELSE 0,
                             sum |-> old.sum, hosts |-> old.hosts, archiving |-> TRUE]
                      [] ~old.summed /\ Shows(before.start, t) ->
                            [start |-> before.start, sum |-> before.sum,
                             hosts |-> before.hosts, archiving |-> FALSE]
                      [] OTHER -> Nothing
        /\ visits' = Append(visits, [host |-> h, t |-> t])
        /\ logLoc' = [logLoc EXCEPT ![p] = 0]
        /\ UNCHANGED <<logNow, logAlone>>

\* Nothing more happens within the bounds.
BoundReached ==
    /\ logNow = MaxLogTime /\ Len(visits) = MaxVisits
    /\ UNCHANGED logVars

LogNext ==
    \/ Tick \/ BoundReached
    \/ \E p \in Procs :
          BeginHit(p) \/ \E h \in Hosts : Hit(p, h) \/ StartPeriod(p, h)

LogSpec == LogInit /\ [][LogNext]_logVars

-----------------------------------------------------------------------------
LogTypeOK ==
    /\ logNow \in Nat
    /\ files \in [{1, 2} -> File]
    /\ \A i \in {1, 2} : files[i].summed => files[i].hits = <<>>
    /\ archive \in Seq([start : Nat, sum : Nat, hosts : Nat])
    /\ visits \in Seq([host : Hosts, t : Nat])
    /\ shown \in [start : Nat, sum : Nat, hosts : Nat, archiving : BOOLEAN]
    /\ logAlone \in BOOLEAN
    /\ logLoc \in [Procs -> 0..logNow]

\* The hits of the period that began at s.
HitsOf(s) == {k \in DOMAIN visits : s < visits[k].t /\ visits[k].t <= s + Period}

\* Numbers of the period that began at s: none but its hits are counted, and a
\* hit at s itself that began it; when requests come one after the other none
\* is missing; as many hosts as different ones among them.
RightFor(s, sum, hosts) ==
    /\ sum <= Cardinality(HitsOf(s)) + 1
    /\ logAlone => Cardinality(HitsOf(s)) <= sum
    /\ hosts <= sum
    /\ logAlone => Cardinality({visits[k].host : k \in HitsOf(s)}) \in {hosts - 1, hosts}

\* The numbers shown are those of the period before, however periods with and
\* without hits follow each other.
ShownRight ==
    shown.start # 0 /\ ~shown.archiving => RightFor(shown.start, shown.sum, shown.hosts)

\* The same at the moment when an older period is archived.
ShownRightAlways ==
    shown.start # 0 => RightFor(shown.start, shown.sum, shown.hosts)

\* A period is archived with its numbers, and, when requests come one after the
\* other, once and after the earlier ones.
ArchivedRight ==
    /\ \A i \in DOMAIN archive :
          RightFor(archive[i].start, archive[i].sum, archive[i].hosts)
    /\ logAlone => \A i, j \in DOMAIN archive : i < j => archive[i].start < archive[j].start

\* Both hold however requests overlap and periods follow each other.
PeriodsRight == LogTypeOK /\ ShownRight /\ ArchivedRight
=============================================================================
