----------------------------- MODULE MCWarehouse -----------------------------
(* Every kind of call on tables of plain, VARIANT, interval and geometry     *)
(* values.                                                                   *)
EXTENDS Warehouse, TLC

Row(k, p, v) == [k |-> k, p |-> p, v |-> v]
MCTables ==
    {[holds |-> h, rows |-> {Row(1, "x", <<h, 1>>), Row(2, "null", <<h, 2>>)}] :
        h \in {"plain", "variant", "duration", "geo"}}
\* Data for a table of each type; a "time" cannot be staged.
Data(h) == {Row(2, "empty", <<h, 7>>), Row(3, "y", <<h, 8>>)}
Clause(on, if, do) == [on |-> on, if |-> if, do |-> do]
Clauses ==
    <<Clause("not_matched", {3}, "insert"), Clause("matched", {2}, "update"),
      Clause("by_source", {1}, "delete"), Clause("matched", {1, 2}, "delete")>>

MCCalls ==
    {[kind |-> "append", data |-> Data(h)] : h \in {"duration", "time"}}
    \cup {[kind |-> "overwrite", data |-> Data("geo"), mode |-> "dynamic", where |-> {}],
          [kind |-> "overwrite", data |-> {}, mode |-> "dynamic", where |-> {}],
          [kind |-> "overwrite", data |-> Data("plain"), mode |-> "static", where |-> {"y", "null"}],
          [kind |-> "overwrite", data |-> Data("variant"), mode |-> "static", where |-> {}],
          [kind |-> "overwrite", data |-> Data("plain"), mode |-> "dynamic", where |-> {"y"}],
          [kind |-> "merge", data |-> Data("plain"), clauses |-> Clauses],
          [kind |-> "delete", keys |-> {1}], [kind |-> "scan"], [kind |-> "set_tags"],
          [kind |-> "vacuum", contradicts |-> TRUE]}
\* What EffectsExact assumes, for every list of up to three clauses: in the order of the
\* statement they decide as in the order they were added.
ASSUME ClausesDecide ==
    LET Listed == {Clause(on, if, do) : on \in ToSet(ClauseKinds), if \in SUBSET {1, 2},
                                        do \in {"update", "delete"}}
    IN  \A clauses \in BoundedSeq(Listed, 3), kind \in ToSet(ClauseKinds), k \in 1..3 :
            LET r == Row(k, "x", <<"plain", 1>>)
            IN  Decides(Ordered(clauses), kind, r) = Decides(clauses, kind, r)

Symmetry == Permutations(Callers)
===============================================================================
