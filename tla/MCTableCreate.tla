----------------------------- MODULE MCTableCreate -----------------------------
(***************************************************************************)
(* Instances of TableCreate for TLC.                                       *)
(***************************************************************************)
EXTENDS TableCreate, TLC

CONSTANTS j1, j2

Kinds == {"local", "object", "external", "managed"}
Calls == ({"plan_write", "write_table"} \X {"append", "overwrite", "error", "ignore"})
         \cup {<<"create_table", "error">>, <<"create_table", "ignore">>}

Setting(kind, first, second, layout, keep, faults) ==
    [kind |-> kind, api |-> (j1 :> first[1] @@ j2 :> second[1]),
     mode |-> (j1 :> first[2] @@ j2 :> second[2]),
     layout |-> (j1 :> "wide" @@ j2 :> layout @@ Other :> "wide"),
     keep |-> keep, faults |-> faults]

Appends == {<<"plan_write", "append">>, <<"write_table", "append">>}

Answers == {"applied", "lost", "ask", "refuse", "cancel", "fail", "drop"}
Leftovers == {"applied", "late", "delete", "cancel"}

\* Every kind of call beside a planned or a plain append, with lost answers; plans
\* beside each other with late requests and failing deletions; plans whose files
\* do not fit the other's table, or are kept when the commit fails.
Apart ==
    {Setting(k, c, d, "wide", {}, Answers) : k \in {"local", "managed"}, c \in Calls, d \in Appends}
    \cup {Setting("external", c, <<"plan_write", "append">>, "wide", {}, Answers) :
              c \in {<<"plan_write", "ignore">>, <<"write_table", "ignore">>,
                     <<"write_table", "overwrite">>}}
    \cup {Setting("object", c, d, "wide", {}, {"lost", "fail"}) : c \in Calls, d \in Appends}
    \cup {Setting(k, <<"plan_write", m>>, <<"plan_write", "append">>, "wide", {}, Leftovers) :
              k \in {"external", "managed"}, m \in {"append", "ignore"}}
    \cup {Setting("external", c, d, "narrow", {}, {"lost"}) : c \in Appends, d \in Appends}
    \cup {Setting(k, <<"plan_write", m>>, <<"plan_write", "append">>, "wide", {j1}, {"lost", "cancel"}) :
              k \in {"object", "managed"}, m \in {"append", "ignore", "error"}}

\* Every kind of call that may undo its table beside a planned or a plain append, and the
\* other writer, all of whose steps may fall between an undo's look and its deletion.
Overlapping ==
    {Setting(k, c, d, "wide", {}, {"overlap", "cancel", "fail", "lost", "drop"}) :
         k \in {"local", "external", "managed"}, c \in {"plan_write", "write_table"} \X {"append", "error"},
         d \in Appends}

MCSettings == Apart \cup Overlapping

\* Of these, plans beside plans.
MCPlanOverlaps == {s \in Overlapping : \A j \in Job : s.api[j] = "plan_write"}
=============================================================================
