------------------------------ MODULE MCChangeFeed ------------------------------
(* Feeds, followers and plans over a table whose columns are added, retyped   *)
(* and taken back.                                                            *)
EXTENDS ChangeFeed

MCSchemas == <<{"a int"}, {"a int", "b int"}, {"a long"}>>
MCEngines ==
    {<<"kernel">>, <<"kernel", "deltars">>, <<"kernel", "sql">>, <<"deltars">>}
Cdf(start, end) == [kind |-> "cdf", start |-> start, end |-> end]
Follow(start, snapshot, polling) ==
    [kind |-> "follow", start |-> start, end |-> None, snapshot |-> snapshot, polling |-> polling]
MCCalls ==
    {Cdf(None, None), Cdf(0, None), Cdf(1, 3), Cdf(2, 1), Follow(0, FALSE, TRUE),
     Follow(1, TRUE, TRUE), Follow(1, FALSE, FALSE)}
    \cup {[kind |-> "plan", start |-> 0, end |-> None]}
===============================================================================
