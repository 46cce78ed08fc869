------------------------------ MODULE MCMetadata ------------------------------
(* Two tables create writes, four another writer left, and the calls that  *)
(* meet one another on them.                                                *)
EXTENDS Metadata, TLC

Col(n, t) == [name |-> n, id |-> 0, phys |-> <<n, 0>>, null |-> TRUE, type |-> t, gen |-> "none",
              hwm |-> NotIdentity, explicit |-> FALSE, birth |-> 0]
A == Col("a", "int")
B == Col("b", "date")
Number == [Col("k", "long") EXCEPT !.hwm = 0]
Default == [Number EXCEPT !.explicit = TRUE]
Copy == [Col("g", "int") EXCEPT !.gen = "a"]

MCCreated ==
    {[cols |-> <<A, B>>, parts |-> {}, on |-> {"columnMapping", "typeWidening"}, keys |-> {"b"}],
     [cols |-> <<A, B>>, parts |-> {"b"}, on |-> {"columnMapping", "changeDataFeed"}, keys |-> {}]}

Old(cols, reader, writer) ==
    [reader |-> reader, writer |-> writer, rf |-> {}, wf |-> {}, cols |-> cols, parts |-> {},
     clus |-> {}, cons |-> {}, stats |-> {}, cfg |-> {}, mode |-> "none", maxId |-> 0, files |-> {}]
MCForeign ==
    {Old(<<A, B>>, 1, 2), Old(<<A, Copy>>, 1, 4), Old(<<Number>>, 1, 6), Old(<<Default>>, 1, 6)}

Field(n, t, v) == [name |-> n, type |-> t, val |-> v]
MCOps ==
    {[kind |-> "add_column", name |-> n, type |-> "ntz"] : n \in {"c", Reserved}}
    \cup {[kind |-> "drop_column", name |-> n] : n \in {"b", "c"}}
    \cup {[kind |-> "rename_column", name |-> "b", to |-> n] : n \in {"c", Reserved}}
    \cup {[kind |-> "set_nullability", name |-> "a", null |-> FALSE],
          [kind |-> "alter_column_type", name |-> "a", type |-> "long"],
          [kind |-> "add_constraint", name |-> "b"],
          [kind |-> "cluster_by", keys |-> {"b"}],
          [kind |-> "set_properties", on |-> {"columnMapping"}, stats |-> {}],
          [kind |-> "set_properties", on |-> {"changeDataFeed"}, stats |-> {"a"}],
          [kind |-> "unset_properties", off |-> {"changeDataFeed", "stats"}],
          [kind |-> "drop_constraint", name |-> "b"],
          [kind |-> "add_feature", feature |-> "vacuumProtocolCheck"],
          [kind |-> "append", batch |-> {Field("a", "int", "good"), Field("b", "date", "bad")},
           merge |-> FALSE],
          [kind |-> "append", batch |-> {Field("a", "long", "null"), Field("c", "int", "good")},
           merge |-> TRUE],
          [kind |-> "append", batch |-> {Field("a", "int", "good"), Field("k", "long", "good")},
           merge |-> TRUE],
          [kind |-> "append", batch |-> {Field("a", "int", "bad")}, merge |-> FALSE],
          [kind |-> "reserve", count |-> 3],
          [kind |-> "restore", target |-> 0]}

MCTasks == 0..1
Symmetry == Permutations(Clients)
===============================================================================
