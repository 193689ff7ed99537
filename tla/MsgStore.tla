------------------------------ MODULE MsgStore ------------------------------
(***************************************************************************)
(* The message database (class DB_Base of dbase.cpp) under concurrent CGI  *)
(* requests.  Each request is an operating-system process that handles one *)
(* HTTP request and exits, so a member of Procs is one request.  All they  *)
(* share is files:                                                         *)
(*   index.msg      hdr       message headers, a place per message         *)
(*   freeindex.msg  hfree     its free list                                *)
(*   messages.msg   bodyEnd   message bodies (only their extent matters)   *)
(*   freemess.msg   bfree     its free list                                *)
(*   vra_index.msg  vidx, threads   message number -> place, thread count  *)
(*   ra_index.msg   order     display order (module MsgIndex)              *)
(* flock is taken on single files: fm (index.msg) and fi (ra_index.msg)    *)
(* are held over several steps; the locks on vra_index.msg, messages.msg   *)
(* and the free lists cover one step each.  A step is what no other        *)
(* request can see the inside of.  A request that meets an error calls     *)
(* printhtmlerror(), which exits: the locks go, the rest is not done.      *)
(* Places, bodies and numbers count from 1; a body is one unit or empty.   *)
(***************************************************************************)
EXTENDS FreeList, ThreadWalk

CONSTANTS
    Procs,          \* requests
    Plans,          \* what they ask for, of which database, alone or at once
    Mortal,         \* requests that may be killed between any two steps
    None            \* nobody holds the lock

VARIABLES hdr, hfree, bodyEnd, bfree, vidx, threads, order,
          held,     \* who holds fm and fi
          alone,    \* requests come one after the other
          loc       \* each request's own memory

store == <<hdr, hfree, bodyEnd, bfree, vidx, threads, order>>
vars == <<store, held, alone, loc>>

Gone == 0                       \* NO_MESSAGE_CODE in the virtual index
Pad == 1                        \* written first into an empty body file
Flag == {"closed", "hidden", "rolled"}
Reading == {"view", "xml"}      \* they write back the counter of readers
Single == Reading \cup {"topic"}
ReadModifyWrite == Single \cup {"close", "open", "hide", "unhide", "roll"}
Op == {"post", "edit", "delete"} \cup ReadModifyWrite

\* op applied to message number vi (0: post a new thread); size of the body
\* posted or edited in; su: the user is a superuser.
Request == [op : Op, vi : Nat, size : {0, 1}, su : BOOLEAN]

Header == [level : Nat, thread : Nat, flags : SUBSET Flag,
           vi : Nat, body : Nat, size : {0, 1}]
NewHeader == [level |-> 0, thread |-> 0, flags |-> {},
              vi |-> 0, body |-> 0, size |-> 0]

\* The units a free list says are unused, and a list that says it once.
Units(free) == UNION {f.index..(f.index + f.size - 1) : f \in ToSet(free)}

NoneTwice(free) ==
    \A i, j \in DOMAIN free :
        /\ i # j /\ free[i].size # 0 /\ free[j].size # 0
        => (free[i].index..(free[i].index + free[i].size - 1))
           \cap (free[j].index..(free[j].index + free[j].size - 1)) = {}

Bytes(h) == h.body..(h.body + h.size - 1)

\* No message is more than one level below the one above it; every reply names
\* its thread's head, and nothing from there down to it is a head.
Threaded(list, headers) ==
    \A i \in DOMAIN list :
        LET h == headers[list[i]]
        IN  /\ h.level > 0 =>
                 /\ i > 1 /\ h.level <= headers[list[i - 1]].level + 1
                 /\ h.thread \in ToSet(list) /\ Pos(list, h.thread) < i
                 /\ \A j \in Pos(list, h.thread)..i :
                       headers[list[j]].level = 0 <=> list[j] = h.thread
            /\ h.level = 0 => h.thread = 0

\* The files as requests leave them when none is at work on them.
Settled(db) ==
    LET shown == ToSet(db.order)
    IN  /\ db.hdr \in Seq(Header) /\ db.order \in Seq(1..Len(db.hdr))
        /\ db.hfree \in Seq(Block) /\ db.bfree \in Seq(Block)
        /\ db.bodyEnd \in Nat /\ db.threads \in Nat /\ db.vidx \in Seq(Nat)
        /\ IsInjective(db.order) /\ NoneTwice(db.hfree) /\ NoneTwice(db.bfree)
        /\ shown \cap Units(db.hfree) = {}
        /\ shown \cup Units(db.hfree) = DOMAIN db.hdr
        /\ \A m \in DOMAIN db.hdr : db.hdr[m].vi \in DOMAIN db.vidx
        /\ \A m \in shown :
              /\ db.vidx[db.hdr[m].vi] = m
              /\ Bytes(db.hdr[m]) \cap Units(db.bfree) = {}
              /\ \A other \in shown \ {m} :
                    Bytes(db.hdr[m]) \cap Bytes(db.hdr[other]) = {}
        /\ \A n \in DOMAIN db.vidx :
              db.vidx[n] # Gone => /\ db.vidx[n] \in shown
                                   /\ db.hdr[db.vidx[n]].vi = n
        /\ Pad..(db.bodyEnd - 1)
              = Units(db.bfree) \cup UNION {Bytes(db.hdr[m]) : m \in shown}
        /\ db.threads = Cardinality({m \in shown : db.hdr[m].level = 0})
        /\ Threaded(db.order, db.hdr)

ASSUME MsgStoreAssumption ==
    /\ None \notin Procs
    /\ Mortal \subseteq Procs
    /\ \A plan \in Plans :
          plan.alone \in BOOLEAN /\ plan.asks \in [Procs -> Request] /\ Settled(plan.seed)

\* pc: next step; at: real index of the message at hand; msg: header read or
\* being made; todo: numbers a whole-thread operation has still to treat;
\* code: what DB_ChangeRollMessage is told to do.
Idle(pc, rq) == [pc |-> pc, rq |-> rq, at |-> 0, msg |-> NewHeader,
                 todo |-> <<>>, code |-> 0]
Ended(pc) == Idle(pc, [op |-> "view", vi |-> 0, size |-> 0, su |-> FALSE])

\* TranslateMsgIndex: a number beyond the file reads as NO_MESSAGE_CODE.
Translate(vi) == IF vi \in DOMAIN vidx THEN vidx[vi] ELSE Gone

Init ==
    /\ \E plan \in Plans :
          /\ hdr = plan.seed.hdr /\ hfree = plan.seed.hfree
          /\ bodyEnd = plan.seed.bodyEnd /\ bfree = plan.seed.bfree
          /\ vidx = plan.seed.vidx /\ threads = plan.seed.threads
          /\ order = plan.seed.order
          /\ alone = plan.alone
          /\ loc = [p \in Procs |-> Idle("start", plan.asks[p])]
    /\ held = [lock \in {"fm", "fi"} |-> None]

-----------------------------------------------------------------------------
At(p, pc) == loc[p].pc = pc
Over == {"done", "dead"}
FreeAlways(lock) == TRUE              \* mutant: the lock is not waited for
Free(lock) == held[lock] = None
Take(p, lock) == held' = [held EXCEPT ![lock] = p]
Drop(lock) == held' = [held EXCEPT ![lock] = None]

Goto(p, pc) == loc' = [loc EXCEPT ![p].pc = pc]

\* Mutant: the locks survive the request.
ReleasedNone(p) == held

Released(p) == [lock \in DOMAIN held |->
                   IF held[lock] = p THEN None ELSE held[lock]]

\* The request ends; the kernel releases its locks.
Exit(p) ==
    /\ loc' = [loc EXCEPT ![p] = Ended("done")]
    /\ held' = Released(p)

\* On to the next message of the operation, if there is one; code is what
\* rolling this one returned.
Advance(p, code) ==
    IF Len(loc[p].todo) = 1
    THEN Exit(p)
    ELSE /\ loc' = [loc EXCEPT ![p].todo = Tail(@), ![p].code = code,
                     ![p].pc = IF loc[p].rq.op = "delete" THEN "delete" ELSE "flags"]
         /\ held' = Released(p)

\* AllocFreeSpace on the bodies' list, or the end of messages.msg.
BodySpace(at, n) ==
    \/ /\ \E i \in DOMAIN bfree : /\ TakeFrom(bfree, bfree', i, n, 0)
                                  /\ at = bfree[i].index
       /\ UNCHANGED bodyEnd
    \/ /\ NoFit(bfree, n)
       /\ at = IF bodyEnd = 0 THEN Pad ELSE bodyEnd
       /\ bodyEnd' = at + n
       /\ UNCHANGED bfree

FreeBody(at, n) ==
    MarkFreeSpace(bfree, bfree', [index |-> at, size |-> n], 0)

FreeHeader(at) ==
    MarkFreeSpace(hfree, hfree', [index |-> at, size |-> 1], 0)

\* Mutant: the header goes to the end whether or not an entry was taken.
HeaderSpaceAtEnd(at) ==
    /\ at = Len(hdr) + 1
    /\ \/ \E i \in DOMAIN hfree : TakeFrom(hfree, hfree', i, 1, 1)
       \/ NoFit(hfree, 1) /\ UNCHANGED hfree

\* The same for one header; a place at the end exists once it is written.
HeaderSpace(at) ==
    \/ \E i \in DOMAIN hfree : /\ TakeFrom(hfree, hfree', i, 1, 1)
                               /\ at = hfree[i].index
    \/ NoFit(hfree, 1) /\ at = Len(hdr) + 1 /\ UNCHANGED hfree

WriteHeader(at, h) ==
    hdr' = IF at \in DOMAIN hdr THEN [hdr EXCEPT ![at] = h] ELSE Append(hdr, h)

-----------------------------------------------------------------------------
\* A request arrives.  Numbers are checked when the first file is read.
Begin(p) ==
    /\ At(p, "start")
    /\ alone => \A q \in Procs : At(q, "start") \/ loc[q].pc \in Over
    /\ LET rq == loc[p].rq
       IN  loc' = [loc EXCEPT ![p].pc =
                     CASE rq.op = "post" -> IF rq.vi = 0 THEN "body" ELSE "parent"
                       [] rq.op = "edit" -> "translate"
                       [] rq.op \in Single -> "flags"
                       [] OTHER -> "select",
                     ![p].todo = IF rq.op \in Single THEN <<rq.vi>> ELSE <<>>]
    /\ UNCHANGED <<store, held, alone>>

\* DB_InsertMessage of a reply: real index of the parent.
FindParent(p) ==
    /\ At(p, "parent")
    /\ LET at == Translate(loc[p].rq.vi)
       IN  IF at = Gone
           THEN Exit(p)
           ELSE /\ loc' = [loc EXCEPT ![p].at = at, ![p].pc = "inherit"]
                /\ UNCHANGED held
    /\ UNCHANGED store

Barred(h, rq) == ~rq.su /\ h.flags \cap {"closed", "hidden"} # {}

HeadIsParent(h, at) == at             \* mutant: of any reply, too
HeadOf(h, at) == IF h.level > 0 THEN h.thread ELSE at

\* Mutant: the flags are those of the thread's head.
ReadParentHead(p) ==
    LET h == hdr[loc[p].at]
    IN  /\ At(p, "inherit")
        /\ IF loc[p].at \notin DOMAIN hdr \/ Barred(h, loc[p].rq)
           THEN Exit(p)
           ELSE /\ loc' = [loc EXCEPT
                      ![p].msg.level = h.level + 1,
                      ![p].msg.thread = HeadOf(h, loc[p].at),
                      ![p].msg.flags = hdr[HeadOf(h, loc[p].at)].flags,
                      ![p].pc = "body"]
                /\ UNCHANGED held
        /\ UNCHANGED store

\* The parent's header is read without a lock; level, thread and flags of the
\* reply come from it.
ReadParent(p) ==
    LET h == hdr[loc[p].at]
    IN  /\ At(p, "inherit")
        /\ IF loc[p].at \notin DOMAIN hdr \/ Barred(h, loc[p].rq)
           THEN Exit(p)
           ELSE /\ loc' = [loc EXCEPT
                      ![p].msg.level = h.level + 1,
                      ![p].msg.thread = HeadOf(h, loc[p].at),
                      ![p].msg.flags = h.flags,
                      ![p].pc = "body"]
                /\ UNCHANGED held
        /\ UNCHANGED store

\* Under fb: space for the body is found and the body written.
WriteBody(p) ==
    /\ At(p, "body")
    /\ \E at \in 0..(bodyEnd + Pad) :
          /\ BodySpace(at, loc[p].rq.size)
          /\ loc' = [loc EXCEPT ![p].msg.body = at,
                                ![p].msg.size = loc[p].rq.size,
                                ![p].pc = "number"]
    /\ UNCHANGED <<hdr, hfree, vidx, threads, order, held>>

\* Under fm: space for the header, and (AddMsgIndex) the message's number.
\* For a new thread `at' is the place itself, for a reply the parent's.
TakeNumber(p) ==
    /\ At(p, "number")
    /\ Free("fm")
    /\ \E at \in 1..(Len(hdr) + 1) :
          /\ HeaderSpace(at)
          /\ vidx' = Append(vidx, at)
    /\ loc' = [loc EXCEPT ![p].msg.vi = Len(vidx) + 1, ![p].pc = "header"]
    /\ Take(p, "fm")
    /\ UNCHANGED <<hdr, bodyEnd, bfree, threads, order>>

\* Nobody else writes this entry of the virtual index before the header.
PutHeader(p) ==
    /\ At(p, "header")
    /\ WriteHeader(vidx[loc[p].msg.vi], loc[p].msg)
    /\ Drop("fm")
    /\ Goto(p, "index")
    /\ UNCHANGED <<hfree, bodyEnd, bfree, vidx, threads, order>>

PlaceOf(p) == vidx[loc[p].msg.vi]

Indexed(at) == at \in ToSet(order)

\* Under fi, a reply: right below its parent if the place it had is still in
\* the index, otherwise printhtmlerror(): header and number stay behind.
IndexReply(p) ==
    /\ At(p, "index") /\ loc[p].rq.vi # 0
    /\ Free("fi")
    /\ order' = IF Indexed(loc[p].at)
                THEN ReplyAfter(order, loc[p].at, PlaceOf(p)) ELSE order
    /\ Exit(p)
    /\ UNCHANGED <<hdr, hfree, bodyEnd, bfree, vidx, threads>>

\* Mutant: a new thread is not counted.
CountThreadNot(p) ==
    /\ At(p, "index") /\ loc[p].rq.vi = 0
    /\ Free("fi") /\ Take(p, "fi")
    /\ Goto(p, "append")
    /\ UNCHANGED store

\* Under fi, a new thread: it is counted, then shown first.
CountThread(p) ==
    /\ At(p, "index") /\ loc[p].rq.vi = 0
    /\ Free("fi")
    /\ threads' = threads + 1
    /\ Take(p, "fi")
    /\ Goto(p, "append")
    /\ UNCHANGED <<hdr, hfree, bodyEnd, bfree, vidx, order>>

IndexThread(p) ==
    /\ At(p, "append")
    /\ order' = ThreadFirst(order, PlaceOf(p))
    /\ Exit(p)
    /\ UNCHANGED <<hdr, hfree, bodyEnd, bfree, vidx, threads>>

-----------------------------------------------------------------------------
\* SelectMessageThreadtoBuf, no lock: the root's place, then one look at the
\* index and the headers.  Messages are selected by number.
FindRoot(p) ==
    /\ At(p, "select")
    /\ LET at == Translate(loc[p].rq.vi)
       IN  IF at = Gone
           THEN Exit(p)
           ELSE /\ loc' = [loc EXCEPT ![p].at = at, ![p].pc = "walk"]
                /\ UNCHANGED held
    /\ UNCHANGED store

SelectThread(p) ==
    LET at == loc[p].at
        level == [m \in DOMAIN hdr |-> hdr[m].level]
        thread == IF Indexed(at) /\ hdr[at].vi = loc[p].rq.vi
                  THEN Walk(order, level, at) ELSE <<>>
    IN  /\ At(p, "walk")
        /\ IF thread = <<>>
           THEN Exit(p)
           ELSE /\ loc' = [loc EXCEPT
                      ![p].todo = [i \in DOMAIN thread |-> hdr[thread[i]].vi],
                      ![p].pc = IF loc[p].rq.op = "delete" THEN "delete" ELSE "flags"]
                /\ UNCHANGED held
        /\ UNCHANGED store

-----------------------------------------------------------------------------
\* DB_DeleteMessage, for each message of the thread: translate its number ...
FindDoomed(p) ==
    /\ At(p, "delete")
    /\ LET at == Translate(Head(loc[p].todo))
       IN  IF at = Gone
           THEN Advance(p, 0)
           ELSE /\ loc' = [loc EXCEPT ![p].at = at, ![p].pc = "unindex"]
                /\ UNCHANGED held
    /\ UNCHANGED store

\* Mutant: the entry is addressed by the place, not by the number.
DropNumberOfPlace(p) ==
    /\ At(p, "unindex")
    /\ vidx' = [vidx EXCEPT ![loc[p].at] = Gone]
    /\ Goto(p, "read")
    /\ UNCHANGED <<hdr, hfree, bodyEnd, bfree, threads, order, held>>

\* ... take the number out (DeleteMsgIndex) ...
DropNumber(p) ==
    /\ At(p, "unindex")
    /\ vidx' = [vidx EXCEPT ![Head(loc[p].todo)] = Gone]
    /\ Goto(p, "read")
    /\ UNCHANGED <<hdr, hfree, bodyEnd, bfree, threads, order, held>>

Uncounted(h) == IF h.level = 0 /\ threads > 0 THEN threads - 1 ELSE threads

\* Mutant: the body is handed back before the message is cut out.
ReadDoomedFreeing(p) ==
    LET at == loc[p].at
    IN  /\ At(p, "read")
        /\ loc' = [loc EXCEPT ![p].msg = [hdr[at] EXCEPT !.size = 0], ![p].pc = "cut"]
        /\ FreeBody(hdr[at].body, hdr[at].size)
        /\ threads' = Uncounted(hdr[at])
        /\ UNCHANGED <<hdr, hfree, bodyEnd, vidx, order, held>>

\* ... read the header and take a thread out of the count ...
ReadDoomed(p) ==
    LET at == loc[p].at
    IN  /\ At(p, "read")
        /\ IF at \notin DOMAIN hdr
           THEN Exit(p) /\ UNCHANGED threads
           ELSE /\ loc' = [loc EXCEPT ![p].msg = hdr[at], ![p].pc = "cut"]
                /\ threads' = Uncounted(hdr[at])
                /\ UNCHANGED held
        /\ UNCHANGED <<hdr, hfree, bodyEnd, bfree, vidx, order>>

\* ... under fi, cut the place out of the index ...
CutMessage(p) ==
    /\ At(p, "cut")
    /\ Free("fi")
    /\ IF Indexed(loc[p].at)
       THEN /\ order' = WithoutMessage(order, loc[p].at)
            /\ Goto(p, "freeheader")
            /\ UNCHANGED held
       ELSE Exit(p) /\ UNCHANGED order
    /\ UNCHANGED <<hdr, hfree, bodyEnd, bfree, vidx, threads>>

\* ... and hand back header and body.
FreeDoomedHeader(p) ==
    /\ At(p, "freeheader")
    /\ FreeHeader(loc[p].at)
    /\ Goto(p, "freebody")
    /\ UNCHANGED <<hdr, bodyEnd, bfree, vidx, threads, order, held>>

FreeDoomedBody(p) ==
    /\ At(p, "freebody")
    /\ FreeBody(loc[p].msg.body, loc[p].msg.size)
    /\ Advance(p, 0)
    /\ UNCHANGED <<hdr, hfree, bodyEnd, vidx, threads, order>>

-----------------------------------------------------------------------------
\* DB_ChangeMessage: place and header are read before fm is locked.
FindEdited(p) ==
    /\ At(p, "translate")
    /\ LET at == Translate(loc[p].rq.vi)
       IN  IF at = Gone
           THEN Exit(p)
           ELSE /\ loc' = [loc EXCEPT ![p].at = at, ![p].pc = "check"]
                /\ UNCHANGED held
    /\ UNCHANGED store

ReadEdited(p) ==
    LET at == loc[p].at
    IN  /\ At(p, "check")
        /\ IF at \notin DOMAIN hdr \/ Barred(hdr[at], loc[p].rq)
           THEN Exit(p)
           ELSE /\ loc' = [loc EXCEPT ![p].msg = hdr[at], ![p].pc = "resize"]
                /\ UNCHANGED held
        /\ UNCHANGED store

\* Under fm: a longer body gives its space back and looks for more, a shorter
\* one gives its tail back.
ResizeBody(p) ==
    LET old == loc[p].msg
        size == loc[p].rq.size
    IN  /\ At(p, "resize")
        /\ Free("fm")
        /\ \/ size > old.size /\ FreeBody(old.body, old.size) /\ Goto(p, "realloc")
           \/ size = old.size /\ UNCHANGED bfree /\ Goto(p, "rewrite")
           \/ /\ size < old.size
              /\ FreeBody(old.body + size, old.size - size)
              /\ loc' = [loc EXCEPT ![p].msg.size = size, ![p].pc = "rewrite"]
        /\ Take(p, "fm")
        /\ UNCHANGED <<hdr, hfree, bodyEnd, vidx, threads, order>>

MoveBody(p) ==
    /\ At(p, "realloc")
    /\ \E at \in 0..(bodyEnd + Pad) :
          /\ BodySpace(at, loc[p].rq.size)
          /\ loc' = [loc EXCEPT ![p].msg.body = at,
                                ![p].msg.size = loc[p].rq.size,
                                ![p].pc = "rewrite"]
    /\ UNCHANGED <<hdr, hfree, vidx, threads, order, held>>

RewriteHeader(p) ==
    /\ At(p, "rewrite")
    /\ WriteHeader(loc[p].at, loc[p].msg)
    /\ Exit(p)
    /\ UNCHANGED <<hfree, bodyEnd, bfree, vidx, threads, order>>

-----------------------------------------------------------------------------
\* The operations on flags, the counter of readers and the topic translate the
\* number, read the whole header, and write the whole header.  When the number
\* is gone closing and opening stop with an error, the others skip it.
FindFlagged(p) ==
    /\ At(p, "flags")
    /\ LET at == Translate(Head(loc[p].todo))
       IN  \/ /\ at # Gone
              /\ loc' = [loc EXCEPT ![p].at = at, ![p].pc = "update"]
              /\ UNCHANGED held
           \/ at = Gone /\ loc[p].rq.op \in {"close", "open"} /\ Exit(p)
           \/ at = Gone /\ loc[p].rq.op \notin {"close", "open"} /\ Advance(p, 0)
    /\ UNCHANGED store

LockingView(op) == op = "view"               \* mutant: closing does not lock
LockingClose(op) == op \in {"close", "open"}  \* mutant: a view does not lock

\* DB_ChangeCloseMessage and DB_PrintMessageBody lock fm from reading to writing,
\* DB_ChangeInvisibilityFlag, DB_ChangeRollMessage, the XML page of a message and
\* the change of its topic do not.
Locking(op) == op \in {"close", "open", "view"}

NewFlags(flags, op, code) ==
    CASE op = "close" -> flags \cup {"closed"}
      [] op = "open" -> flags \ {"closed"}
      [] op = "hide" -> flags \cup {"hidden"}
      [] op = "unhide" -> flags \ {"hidden"}
      [] op \in Single -> flags
      [] op = "roll" /\ (code = 1 \/ (code = 0 /\ "rolled" \notin flags)) ->
            flags \cup {"rolled"}
      [] OTHER -> flags \ {"rolled"}

\* DB_ChangeRollMessage returns 1 or 2, which tells the next message what to do.
Rolled(flags) == IF "rolled" \in flags THEN 1 ELSE 2

\* A reader is counted once (CheckReadValidity), a superuser never: the message
\* is only read.
OnlyRead(p) ==
    /\ At(p, "update") /\ loc[p].rq.op \in Reading
    /\ Exit(p)
    /\ UNCHANGED store

ReadFlagged(p) ==
    LET op == loc[p].rq.op
        at == loc[p].at
        flags == NewFlags(hdr[at].flags, op, loc[p].code)
    IN  /\ At(p, "update")
        /\ Locking(op) => Free("fm")
        /\ IF at \notin DOMAIN hdr
           THEN IF op = "roll" THEN Advance(p, 0) ELSE Exit(p)
           ELSE IF op = "roll" /\ flags = hdr[at].flags
           THEN Advance(p, Rolled(flags))
           ELSE /\ op \in Reading => ~loc[p].rq.su
                /\ op = "xml" => "hidden" \notin hdr[at].flags
                /\ loc' = [loc EXCEPT ![p].msg = [hdr[at] EXCEPT !.flags = flags],
                                      ![p].pc = "store"]
                /\ IF Locking(op) THEN Take(p, "fm") ELSE UNCHANGED held
        /\ UNCHANGED store

\* WriteDBMessage waits for fm, the routines that have not locked do not.
StoreFlagged(p) ==
    /\ At(p, "store")
    /\ loc[p].rq.op \in {"xml", "topic"} => Free("fm")
    /\ WriteHeader(loc[p].at, loc[p].msg)
    /\ Advance(p, Rolled(loc[p].msg.flags))
    /\ UNCHANGED <<hfree, bodyEnd, bfree, vidx, threads, order>>

-----------------------------------------------------------------------------
\* The process is killed: its locks go, what it has written stays.
Die(p) ==
    /\ loc[p].pc \notin {"start"} \cup Over
    /\ loc' = [loc EXCEPT ![p] = Ended("dead")]
    /\ held' = Released(p)
    /\ UNCHANGED <<store, alone>>

Post(p) ==
    \/ FindParent(p) \/ ReadParent(p) \/ WriteBody(p) \/ TakeNumber(p)
    \/ PutHeader(p) \/ IndexReply(p) \/ CountThread(p) \/ IndexThread(p)

Delete(p) ==
    \/ FindDoomed(p) \/ DropNumber(p) \/ ReadDoomed(p) \/ CutMessage(p)
    \/ FreeDoomedHeader(p) \/ FreeDoomedBody(p)

Edit(p) ==
    \/ FindEdited(p) \/ ReadEdited(p) \/ ResizeBody(p) \/ MoveBody(p)
    \/ RewriteHeader(p)

ChangeFlags(p) ==
    FindFlagged(p) \/ OnlyRead(p) \/ ReadFlagged(p) \/ StoreFlagged(p)

Serve(p) ==
    /\ \/ Post(p) \/ FindRoot(p) \/ SelectThread(p)
       \/ Delete(p) \/ Edit(p) \/ ChangeFlags(p)
    /\ UNCHANGED alone

AllServed == (\A p \in Procs : loc[p].pc \in Over) /\ UNCHANGED vars

Next ==
    \/ \E p \in Procs : Begin(p) \/ Serve(p)
    \/ \E p \in Mortal : Die(p)
    \/ AllServed

Spec == Init /\ [][Next]_vars

\* A process that can run does run, and a lock that stays free is got: each
\* request takes a lock a bounded number of times, so none stays contended.
FairSpec == Spec /\ \A p \in Procs : WF_vars(Serve(p))

-----------------------------------------------------------------------------
Shown == ToSet(order)
Live == {n \in DOMAIN vidx : vidx[n] # Gone}
FreePlaces == Units(hfree)
FreeBytes == Units(bfree)
NobodyDied == \A p \in Procs : ~At(p, "dead")
Quiet == \A p \in Procs : loc[p].pc \in {"start", "done"}   \* and none has died
Rewritten == {loc[p].at : p \in {q \in Procs : loc[q].pc \in {"realloc", "rewrite"}}}
Unwritten == {loc[p].msg.vi : p \in {q \in Procs : At(q, "header")}}

Pc == {"start", "parent", "inherit", "body", "number", "header", "index",
       "append", "select", "walk", "delete", "unindex", "read", "cut",
       "freeheader", "freebody", "translate", "check", "resize", "realloc",
       "rewrite", "flags", "update", "store", "done", "dead"}

TypeOK ==
    /\ hdr \in Seq(Header)
    /\ hfree \in Seq(Block) /\ bfree \in Seq(Block)
    /\ bodyEnd \in Nat /\ threads \in Nat
    /\ vidx \in Seq(Nat)
    /\ order \in Seq(1..Len(hdr))
    /\ held \in [{"fm", "fi"} -> Procs \cup {None}]
    /\ alone \in BOOLEAN
    /\ loc \in [Procs -> [pc : Pc, rq : Request, at : Nat, msg : Header,
                         todo : Seq(Nat), code : 0..2]]

\* A place that is shown is never at the same time free to be given to a new
\* message, and none is shown or free twice: deleting (DB_DeleteMessage) cuts
\* the place out of the index before it hands it back, posting
\* (DB_InsertMessage) takes it off the list before it is indexed.
PlacesNotShared ==
    /\ Shown \cap FreePlaces = {}
    /\ IsInjective(order)
    /\ NoneTwice(hfree)

\* What is shown under a number is the message that was given that number:
\* the header at a number's place names the number, and two numbers never have
\* one place, although headers are written back whole.  (A post that dies
\* before its header is written leaves a number for a header yet to come.)
NumberNamesItsMessage ==
    NobodyDied => \A n \in Live \ Unwritten :
        /\ vidx[n] \in DOMAIN hdr /\ hdr[vidx[n]].vi = n
        /\ \A m \in Live : vidx[m] = vidx[n] => m = n

\* The bodies of two shown messages never overlap, nor does one overlap space
\* that may be handed out, except while the message itself is being edited;
\* and no space is handed back twice.
BodiesNotShared ==
    /\ NoneTwice(bfree)
    /\ \A m \in Shown \ Rewritten :
          /\ Bytes(hdr[m]) \cap FreeBytes = {}
          /\ \A other \in Shown \ (Rewritten \cup {m}) :
                Bytes(hdr[m]) \cap Bytes(hdr[other]) = {}

\* Everything is of its type, and neither the places of headers nor the bytes of
\* bodies are given out twice.
NothingShared == TypeOK /\ PlacesNotShared /\ BodiesNotShared

\* Between requests the number of threads kept in place 0 of the virtual index,
\* which the pages of the index are computed from, is the number of threads.
ThreadCount ==
    Quiet => threads = Cardinality({m \in Shown : hdr[m].level = 0})

\* Between requests index and numbers agree: what is shown has a number and
\* what has a number is shown.
IndexAgrees ==
    Quiet => {vidx[n] : n \in Live} = Shown

\* Between requests nothing has leaked: each place is shown or free, each byte
\* of the body file belongs to a shown message or is free.
NothingLeaks ==
    Quiet =>
        /\ DOMAIN hdr = Shown \cup FreePlaces
        /\ Pad..(bodyEnd - 1) = FreeBytes \cup UNION {Bytes(hdr[m]) : m \in Shown}

\* Between requests the index is a forest and every reply names its thread's
\* head: what the printing routines and getparent assume.
ForestShape == Quiet => Threaded(order, hdr)

\* A closed message is opened by a request to open it and by nothing else:
\* reading a message and closing it write its whole header back, so one of
\* them could undo what was done meanwhile (DB_ChangeCloseMessage,
\* DB_PrintMessageBody).
ClosedStaysClosed ==
    [][\A n \in (Live \cap Live') \ Unwritten :
          /\ NobodyDied /\ vidx[n] \in DOMAIN hdr
          /\ "closed" \in hdr[vidx[n]].flags
          /\ \A p \in Procs : ~(At(p, "store") /\ loc[p].rq.op = "open")
          => "closed" \in hdr'[vidx[n]].flags]_vars

\* A reply arrives with the flags of the message it stands under (DB_Insert-
\* Message tunes them by inheritance): none is open in a closed thread, or
\* shown in a hidden one.  The parent is read long before the reply is indexed,
\* so this holds when requests come one after the other only.
RepliesInherit ==
    [][alone => \A m \in (Shown' \ Shown) :
          hdr'[m].level > 0 =>
              hdr'[m].flags = hdr'[ParentOf(order',
                    [n \in Shown' |-> hdr'[n].level],
                    [n \in Shown' |-> hdr'[n].thread], m)].flags]_vars

\* No request waits for ever for fm or fi.
EveryRequestEnds ==
    \A p \in Procs : loc[p].pc # "start" ~> loc[p].pc \in Over
=============================================================================
