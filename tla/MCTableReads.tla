------------------------------ MODULE MCTableReads ------------------------------
(* Reads of every kind of table, and one consumer of what was added.           *)
EXTENDS TableReads

MCShapes == {[part |-> "a", counted |-> FALSE], [part |-> "null", counted |-> TRUE]}
Scan(version, limit, p) == [kind |-> "scan", version |-> version, limit |-> limit, p |-> p]
Count(p) == [kind |-> "count", p |-> p]
Dataset == [kind |-> "dataset", p |-> "none"]
Plan == [kind |-> "plan", p |-> "none"]
AddedSinceLast(any) == [kind |-> "added", only_appends |-> any]
Scene(kind, calls, writes) == [kind |-> kind, calls |-> calls, writes |-> writes]

MCScenes ==
    {Scene("path", <<Scan(None, None, "data"), Scan(None, 3, "none")>>, 2),
     Scene("path", <<Scan(0, None, "none"), Scan(0, None, "none")>>, 0),
     Scene("path", <<Count("none"), Count("partition")>>, 0),
     Scene("path", <<Dataset>>, 0),
     Scene("path", <<Plan>>, 0),
     Scene("path", <<AddedSinceLast(TRUE), AddedSinceLast(TRUE)>>, 0),
     Scene("external", <<Count("data")>>, 1),
     Scene("external", <<AddedSinceLast(FALSE), AddedSinceLast(FALSE)>>, 0),
     Scene("managed", <<Scan(None, None, "none"), Scan(None, None, "none")>>, 1),
     Scene("managed", <<Count("none"), Dataset>>, 0)}

\* One call and one write, of a table whose log is in storage and of a catalog-managed one; and a
\* dataset of a path.
MCClaims ==
    {Scene("path", <<Scan(None, None, "none")>>, 1), Scene("managed", <<Scan(None, None, "none")>>, 1),
     Scene("path", <<Dataset>>, 0)}
================================================================================
