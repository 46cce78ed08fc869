----------------------------- MODULE MCDmlRebase -----------------------------
(***************************************************************************)
(* Instances of DmlRebase for TLC: every choice of jobs, up to the order   *)
(* of the operations, on a table of two files and three rows.              *)
(***************************************************************************)
EXTENDS DmlRebase

CONSTANTS k1, k2

MCOp == 1..3

Start(k, n) == [key |-> k, from |-> n, by |-> n]

\* One file holds rows of both keys, the other a row of the first.
MCInitial == {[name |-> <<0, 1>>, rows |-> {Start(k1, 11), Start(k2, 12)}, dead |-> {}, vector |-> None],
              [name |-> <<0, 2>>, rows |-> {Start(k1, 13)}, dead |-> {}, vector |-> None]}

Job(kind, key) == [kind |-> kind, key |-> key, pinned |-> FALSE]

MCChoices == <<Job("append", k1), Job("delete", k1), Job("update", k1), Job("upsert", k2),
               Job("replace", k1), Job("optimize", AnyKey), Job("delete", AnyKey),
               Job("alter", k1), [Job("delete", k2) EXCEPT !.pinned = TRUE]>>

\* Every multiset of jobs.
MCJobs ==
    {[o \in Op |-> MCChoices[i[o]]] :
        i \in {c \in [Op -> DOMAIN MCChoices] : \A a, b \in Op : a < b => c[a] <= c[b]}}

\* One DELETE, for the answer that is lost.
MCOneOp == {1}
MCOneDelete == {[o \in Op |-> Job("delete", k2)]}
=============================================================================
