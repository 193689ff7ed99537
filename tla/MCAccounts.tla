----------------------------- MODULE MCAccounts -----------------------------
(* Databases and requests for the runs of Accounts. *)
EXTENDS Accounts, TLC

CONSTANTS p1, p2, p3, ann, bob

Symmetry == Permutations(Procs)

Empty == [auth |-> <<>>, issued |-> 0, now |-> 1,
          index |-> [n \in Names |-> 0], users |-> <<>>, ufree |-> <<>>,
          bodies |-> <<>>, bfree |-> <<>>, lastUniq |-> 0, count |-> 0]

\* ann has registered and is logged in twice, once not bound to her address.
Used == [auth |-> <<[id |-> 1, uniq |-> 1, unbound |-> FALSE, at |-> 1, expire |-> 1 + TTL],
                    [id |-> 2, uniq |-> 1, unbound |-> TRUE, at |-> 1, expire |-> 1 + TTL]>>,
         issued |-> 2, now |-> 1,
         index |-> [n \in Names |-> IF n = ann THEN 1 ELSE 0],
         users |-> <<[name |-> ann, uniq |-> 1, full |-> 1]>>, ufree |-> <<>>,
         bodies |-> <<1>>, bfree |-> <<>>, lastUniq |-> 1, count |-> 1]

\* ann has been removed; the session that was not bound goes on.
Left == [Used EXCEPT !.auth[1].expire = 0, !.index[ann] = 0,
                     !.ufree = <<1>>, !.bfree = <<1>>, !.count = 0]

Ask(op, name, unbound) == [op |-> op, name |-> name, unbound |-> unbound]
Own(ops) == {Ask(op, NoName, FALSE) : op \in ops}
On(ops, names) == {Ask(op, name, FALSE) : op \in ops, name \in names}

Alone(seeds, kinds) == [alone : {TRUE}, seed : seeds, rq : [Procs -> kinds]]
Together(seeds, rqs) == [alone : {FALSE}, seed : seeds, rq : rqs]

Anything == Own(OwnOp) \cup On({"remove", "purge"}, {ann})
            \cup On({"login"}, {ann}) \cup On({"register"}, {ann, bob})

\* Two requests at once that remove nobody; three of which one may remove.
Coming == Own({"visit", "logout", "closeown"}) \cup {Ask("closeany", NoName, FALSE)}
          \cup On({"login"}, {ann}) \cup On({"register"}, {ann, bob})
Staying == Own({"visit", "logout"}) \cup On({"remove"}, {ann})
Few(n) == {some \in SUBSET Procs : Cardinality(some) = n}

Some == Alone({Empty, Used, Left}, Anything)
        \cup Together({Empty, Used}, UNION {[some -> Coming] : some \in Few(2)})
        \cup Together({Used}, {rq \in [Procs -> Staying] :
                Cardinality({p \in Procs : rq[p].op = "remove"}) = 1})

Removals == Alone({Used}, On({"remove"}, {ann}) \cup Own({"visit"}))
=============================================================================
