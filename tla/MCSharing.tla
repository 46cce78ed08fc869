------------------------------- MODULE MCSharing -------------------------------
(* A table of three files with numbers, a NaN and a NULL; scans, change      *)
(* feeds and listings against servers of each kind.                          *)
EXTENDS Sharing

MCContent ==
    [double |-> <<<<1, 3>>, <<2, NaN>>, <<Null, 2>>>>, long |-> <<<<1, 3>>, <<2>>, <<Null, 2>>>>]
None1 == [op |-> "none"]
Leaf(op, x) == [op |-> op, x |-> x]
Both == [op |-> "and", args |-> {Leaf("ge", 2), Leaf("lt", 5)}]
Either == [op |-> "or", args |-> {Leaf("eq", 3), Leaf("gt", 2)}]
Scan(p, version, timestamp, limit) ==
    [kind |-> "scan", p |-> p, version |-> version, timestamp |-> timestamp, limit |-> limit]
Cdf(p, start, end) == [kind |-> "cdf", p |-> p, start |-> start, end |-> end]

MCCalls ==
    {Scan(p, None, None, None) : p \in {None1, Both, Either, Leaf("gt", 2), Leaf("is_null", 0)}}
    \cup {Scan(None1, 1, None, None), Scan(None1, None, 2, None), Scan(None1, 1, 2, None),
          Scan(None1, None, None, 0), Scan(None1, None, None, 3), Scan(Leaf("ne", 1), None, None, 2)}
    \cup {Cdf(None1, None, None), Cdf(Leaf("gt", 1), 1, 2), Cdf(None1, 3, None), Cdf(None1, 2, 1)}
    \cup {[kind |-> "list", p |-> None1]}

Pages(next) == [t \in 1..3 |-> [items |-> <<t>>, next |-> next[t]]]
Server(type, history, skips, plain, mapped, links, pages, versions) ==
    [type |-> type, history |-> history, skips |-> skips, plain |-> plain, mapped |-> mapped,
     links |-> links, pages |-> pages, versions |-> versions]
Good == Pages(<<2, 3, 0>>)
MCServers ==
    {Server("double", TRUE, TRUE, "parquet", "lines", "https", Good, 2),
     Server("double", FALSE, TRUE, "parquet", "parquet", "https", Pages(<<2, 3, 2>>), 2),
     Server("long", TRUE, TRUE, "parquet", "parquet", "https", Good, 3),
     Server("long", TRUE, TRUE, "lines", "lines", "https", Pages(<<2, 2, 0>>), 2),
     Server("long", TRUE, TRUE, "parquet", "refuse", "https", Pages(<<0, 0, 0>>), 2),
     Server("long", TRUE, FALSE, "parquet", "lines", "redirects_to_private", Good, 2),
     Server("long", TRUE, FALSE, "parquet", "lines", "http", Good, 2)}
===============================================================================
