------------------------------ MODULE MCRouting ------------------------------
(***************************************************************************)
(* Instances of Routing for TLC: tables of every kind the router and the   *)
(* engines tell apart by type, reference, protocol, storage or columns,    *)
(* and calls of every operation with the options that decide a need.       *)
(***************************************************************************)
EXTENDS Routing

Plain ==
    [ref |-> "uc", type |-> "TABLE", format |-> "DELTA", reader |-> 1, writer |-> 2,
     rf |-> {}, wf |-> {}, props |-> {}, mode |-> "none", schema |-> {}, cons |-> {},
     files |-> {}, extRead |-> "yes", extWrite |-> "yes", flags |-> {}]
Both(t, S) == [t EXCEPT !.reader = 3, !.writer = 7, !.rf = @ \cup (S \cap ReaderWriterFeature),
                        !.wf = @ \cup S]

Vectors == [Both(Plain, {"deletionVectors", "changeDataFeed"}) EXCEPT
               !.props = {"deletionVectors", "changeDataFeed"}]
Tracked == [Both(Plain, {"rowTracking", "domainMetadata", "deletionVectors"}) EXCEPT
               !.props = {"rowTracking", "deletionVectors"}]
CatalogManaged ==
    [Both(Plain, {"catalogManaged", "inCommitTimestamp", "vacuumProtocolCheck", "deletionVectors"})
        EXCEPT !.props = {"inCommitTimestamp", "ucTableId", "deletionVectors"}, !.flags = {"tail"}]
Legacy == [Plain EXCEPT !.ref = "path", !.writer = 4, !.props = {"changeDataFeed"},
                        !.schema = {"partitioned", "decimalPartition"}]
Constrained == [Plain EXCEPT !.writer = 3, !.cons = {"spark"}, !.schema = {"char"},
                             !.extWrite = "no"]
MappedTable == [Plain EXCEPT !.reader = 2, !.writer = 5, !.mode = "name"]
Dated == [Plain EXCEPT !.ref = "path", !.schema = {"datetime"}, !.files = {"legacyCalendar"}]
AppendOnlyTable == [Plain EXCEPT !.props = {"appendOnly"}, !.schema = {"interval"}]
Collated == [Both(Plain, {"collations", "domainMetadata"}) EXCEPT !.schema = {"collated"}]
Identity == [Plain EXCEPT !.writer = 6, !.schema = {"identity", "always"}]
Variant == [Both(Plain, {"variantType", "variantShredding"}) EXCEPT !.props = {"shredding"},
                                                                    !.schema = {"variant"}]
Shared == [Plain EXCEPT !.flags = {"shared"}, !.rf = {"deletionVectors"}, !.reader = 3,
                        !.props = {"changeDataFeed"}]
ManagedIceberg == [Plain EXCEPT !.format = "ICEBERG", !.flags = {"rest"}]
View == [Plain EXCEPT !.type = "MATERIALIZED_VIEW", !.extRead = "no", !.flags = {"nowhere"}]
Hive == [Plain EXCEPT !.ref = "legacy"]
Policy == [Plain EXCEPT !.flags = {"policy"}, !.files = {"early"}, !.schema = {"datetime"}]
Hostile == [Plain EXCEPT !.ref = "path", !.flags = {"hostile"}]
Unsafe == [Plain EXCEPT !.ref = "path", !.flags = {"unsafe"}]
Bearer == [Plain EXCEPT !.flags = {"bearer"}, !.schema = {"partitioned", "binaryPartition"}]
Unopened == [Plain EXCEPT !.flags = {"openError"}]
Glue == [Plain EXCEPT !.ref = "hms", !.schema = {"partitioned", "binaryPartition", "char"}]
Foreign == [Plain EXCEPT !.type = "FOREIGN"]
Metric == [Plain EXCEPT !.type = "METRIC_VIEW", !.extRead = "no", !.flags = {"nowhere"}]
Clone == [Plain EXCEPT !.type = "SHALLOW_CLONE", !.files = {"borrowed"}]

MCTables ==
    {Plain, Vectors, Tracked, CatalogManaged, Legacy, Constrained, MappedTable, Dated,
     AppendOnlyTable, Collated, Identity, Variant, Shared, ManagedIceberg, View, Hive, Policy, Clone,
     Hostile, Unsafe, Bearer, Unopened, Glue, Foreign, Metric}

All == [engines |-> Engine, fallback |-> TRUE, workspace |-> TRUE, staging |-> TRUE]
MCConnections ==
    {All, [All EXCEPT !.fallback = FALSE],
     [engines |-> {"deltars", "sharing"}, fallback |-> FALSE, workspace |-> FALSE, staging |-> FALSE]}

Do(op) ==
    [op |-> op, opts |-> {}, sql |-> "none", on |-> {}, data |-> {}, clauses |-> {},
     pinned |-> FALSE, props |-> {}, feats |-> {}, con |-> "none"]
Where(op, sql, on) == [Do(op) EXCEPT !.sql = sql, !.on = on]
Opt(op, S) == [Do(op) EXCEPT !.opts = S]

Reads ==
    {Do("scan"), Do("cdf"), Do("history"), Do("files"),
     Where("scan", "duckdb", {"char"}), Where("scan", "simple", {"char"}),
     Where("scan", "simple", {"collated"}),
     Where("scan", "simple", {}), Where("cdf", "spark", {}),
     [Opt("scan", {"columns"}) EXCEPT !.on = {"interval"}],
     Opt("scan", {"version", "timestamp"}), Opt("scan", {"distributed", "incremental"}),
     Opt("cdf", {"allow_out_of_range"}), [Do("scan") EXCEPT !.pinned = TRUE]}
Writes_ ==
    {Do("append"), Opt("append", {"schema_merge"}), Opt("append", {"distributed", "txn"}),
     [Do("append") EXCEPT !.data = {"early", "negDecimal", "omitsDefault"}],
     [Do("append") EXCEPT !.data = {"identity"}],
     Do("overwrite"), Opt("overwrite", {"schema_overwrite"}),
     [Where("overwrite", "simple", {}) EXCEPT !.opts = {"predicate"}],
     [Where("overwrite", "simple", {"char"}) EXCEPT !.opts = {"predicate"}],
     Opt("overwrite", {"dynamic"}),
     Where("delete", "simple", {}), Where("delete", "simple", {"char"}),
     Where("delete", "duckdb", {"char"}),
     Where("update", "duckdb", {}), Where("update", "other", {"interval"}),
     [Where("delete", "spark", {}) EXCEPT !.pinned = TRUE],
     [Do("merge") EXCEPT !.clauses = {"update_all", "insert_all"}, !.data = {"identity"}],
     [Do("merge") EXCEPT !.clauses = {"update"}],
     [Where("merge", "simple", {"char"}) EXCEPT !.clauses = {"update"}],
     [Do("merge") EXCEPT !.clauses = {"conditional_insert"}]}
Maintenances ==
    {Opt("optimize", {"full"}), Opt("optimize", {"zorder_by"}), Do("vacuum"),
     Opt("vacuum", {"dry_run"}), Do("restore"), Do("checkpoint"), Do("cleanup_metadata"),
     Do("generate"), Opt("clone", {"shallow"}), Do("analyze"), Do("repair")}
Alters ==
    {[Do("set_properties") EXCEPT !.props = {"changeDataFeed"}],
     [Do("set_properties") EXCEPT !.props = {"typeWidening"}],
     [Do("set_properties") EXCEPT !.props = {"columnMapping"}],
     [Do("set_properties") EXCEPT !.props = {"rowTracking"}],
     [Do("add_feature") EXCEPT !.feats = {"deletionVectors"}],
     [Do("add_constraint") EXCEPT !.con = "duckdb"],
     [Do("drop_feature") EXCEPT !.feats = {"deletionVectors"}],
     Do("cluster_by"), Do("add_column"), Do("rename_column"), Do("drop_constraint"),
     Do("alter_column_type")}
MCCalls == Reads \cup Writes_ \cup Maintenances \cup Alters

MCChanges ==
    {[feats |-> {"deletionVectors"}, props |-> {"deletionVectors"}, schema |-> {}],
     [feats |-> {"rowTracking"}, props |-> {"rowTracking"}, schema |-> {}],
     [feats |-> {"icebergCompatV2"}, props |-> {"uniform"}, schema |-> {}],
     [feats |-> {"generatedColumns", "changeDataFeed"}, props |-> {"changeDataFeed"},
      schema |-> {"generated"}],
     [feats |-> {}, props |-> {"appendOnly"}, schema |-> {}]}
==============================================================================
