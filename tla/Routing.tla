------------------------------- MODULE Routing -------------------------------
(***************************************************************************)
(* Which engine serves a call: _request.py derives what the call needs,    *)
(* router.py asks the engines in order, and table.py goes on to the next   *)
(* engine when a read is declined or an engine breaks.                     *)
(*                                                                         *)
(* A handle keeps the table as it last looked (view), while Databricks     *)
(* changes the table under it. A write looks again before it is routed, a  *)
(* read does not. What an engine does that it should not have done is      *)
(* recorded in harm: the engines are external, and WriteHarm and ReadHarm  *)
(* say what they do where the code must not let them.                      *)
(*                                                                         *)
(* A call is a record: op; opts, its options; sql, the kind of its         *)
(* predicate ("none", "simple": deltaswamp's own grammar, "duckdb",        *)
(* "other", "spark"); on, the kinds of columns its SQL and column list     *)
(* name; data, facts of the rows given; clauses, of a MERGE; pinned;       *)
(* props, feats, con as in a request.                                      *)
(***************************************************************************)
EXTENDS EngineSupport, FiniteSetsExt

CONSTANTS
    Tables,       \* the tables a behaviour may start from
    Connections,  \* the connections a behaviour may start from
    Calls,        \* the calls a client may make
    Changes,      \* the properties and features Databricks may turn on
    MaxChanges    \* bound: changes of one behaviour

VARIABLES
    conn,     \* fixed for good
    table,    \* the table as it is
    view,     \* the table as the handle last saw it
    changes,  \* who changed the table, in order
    call,     \* the read under way, or NoCall
    tried,    \* the engines that read has been through
    harm      \* what engines did to the table or to an answer

vars == <<conn, table, view, changes, call, tried, harm>>

NoCall == [op |-> "none"]

Direct == {"kernel", "deltars"}

ASSUME BoundsAssumption == MaxChanges \in Nat /\ \A c \in Calls : c.op \in Operation

-----------------------------------------------------------------------------
(* _request.py: the operation and needs of a call, and its refusal.         *)

\* What the call's SQL text asks of an engine.
expression_needs(c) ==
    CASE c.sql = "spark" -> {"sql_expressions", "spark_sql"}
      [] c.sql \in {"duckdb", "other"} -> {"sql_expressions"}
      [] OTHER -> {}
dml_expression_needs(c) ==
    expression_needs(c) \cup (IF c.sql = "duckdb" THEN {"duckdb_sql"} ELSE {})
\* The columns are read off text in deltaswamp's own grammar; other text names none.
char_needs(c) == IF c.sql = "simple" /\ "char" \in c.on THEN {"char_padding"} ELSE {}
interval_needs(c) == IF "interval" \in c.on THEN {"interval_columns"} ELSE {}
predicate_needs(c, t) ==
    {"predicates"} \cup char_needs(c)
        \cup (IF c.sql = "spark" THEN {"spark_sql"} ELSE {})
        \cup (IF "collations" \in features(t) /\ c.sql = "simple" /\ "collated" \notin c.on
              THEN {"collation_free"} ELSE {})
\* Only a call that lists its columns can be known to read no VARIANT.
variant_needs(c, t) ==
    IF /\ On(t, "shredding") /\ "columns" \in c.opts
       /\ c.sql \in {"none", "simple"} /\ "variant" \notin c.on
    THEN {"variant_free"} ELSE {}

read_needs(c, t) ==
    (IF "distributed" \in c.opts THEN {"distributed_scan"} ELSE variant_needs(c, t))
        \cup (IF "incremental" \in c.opts THEN {"incremental_files"} ELSE {})
        \cup (IF c.sql = "none" THEN {}
              ELSE predicate_needs(c, t) \cup interval_needs(c) \cup expression_needs(c))
        \cup (IF "timestamp" \in c.opts THEN {"timestamp_travel"} ELSE {})
feed_needs(c, t) ==
    (IF c.sql = "none" THEN {}
     ELSE predicate_needs(c, t) \cup interval_needs(c) \cup expression_needs(c))
        \cup variant_needs(c, t)
        \cup (IF "allow_out_of_range" \in c.opts THEN {"out_of_range_feed"} ELSE {})

\* Table._write_needs
commit_needs(c) ==
    (c.opts \cap {"schema_merge", "schema_overwrite", "commit_metadata", "writer_properties"})
        \cup (IF "txn" \in c.opts THEN {"idempotent_txn"} ELSE {})
        \cup (IF "dynamic" \in c.opts THEN {"dynamic_overwrite"} ELSE {})
\* Table._data_needs, _default_needs, _identity_needs and _calendar_needs of the rows given.
data_needs(c, t) ==
    (IF "negDecimal" \in c.data /\ "decimalPartition" \in t.schema
     THEN {"negative_decimal_partition_values"} ELSE {})
        \cup (IF "early" \in c.data THEN {"early_datetimes"} ELSE {})
default_needs(c, t) ==
    IF "omitsDefault" \in c.data /\ "allowColumnDefaults" \in t.wf
    THEN {"sql_column_defaults"} ELSE {}
identity_needs(c, t) ==
    IF "identity" \in c.data /\ "identityColumns" \in t.wf
    THEN (IF "always" \in t.schema /\ (c.op # "merge" \/ "insert_all" \in c.clauses)
          THEN {"identity_insert"} ELSE {})
             \cup (IF c.op = "merge" /\ "update_all" \in c.clauses THEN {"identity_update"} ELSE {})
    ELSE {}
write_needs(c, t) ==
    commit_needs(c) \cup data_needs(c, t) \cup identity_needs(c, t)
        \cup (IF "distributed" \in c.opts THEN {"distributed_write"} ELSE {})
        \cup (IF "schema_overwrite" \in c.opts THEN {} ELSE default_needs(c, t))
        \cup (IF c.op = "overwrite" /\ {"predicate", "dynamic"} \cap c.opts # {}
              THEN dml_expression_needs(c) \cup interval_needs(c) ELSE {})
\* _assignment_needs: a SET value before 1582 or 1900, as far as the text tells.
assignment_needs(c) == IF "early" \in c.data THEN {"early_datetimes"} ELSE {}
delete_needs(c) ==
    dml_expression_needs(c) \cup commit_needs(c) \cup char_needs(c) \cup interval_needs(c)
update_needs(c, t) == delete_needs(c) \cup assignment_needs(c) \cup data_needs(c, t)
merge_needs(c, t) ==
    data_needs(c, t) \cup identity_needs(c, t) \cup interval_needs(c) \cup assignment_needs(c)
        \cup (c.opts \cap {"schema_merge"})
        \cup (IF {"update", "delete", "update_all"} \cap c.clauses # {} THEN {"removes_rows"} ELSE {})
        \cup (IF "conditional_insert" \in c.clauses /\ On(t, "changeDataFeed")
              THEN {"conditional_insert_with_feed"} ELSE {})
optimize_needs(c) ==
    (IF "full" \in c.opts THEN {"optimize_full"} ELSE {})
        \cup (IF "predicate" \in c.opts THEN {"optimize_predicate"} ELSE {})

\* The operation the router is asked about.
Asked(c) ==
    CASE c.op = "scan" /\ (c.pinned \/ {"version", "timestamp"} \cap c.opts # {}) -> "time_travel"
      [] c.op = "append" /\ "schema_merge" \in c.opts -> "merge_schema"
      [] c.op = "overwrite" /\ {"predicate", "dynamic"} \cap c.opts # {} -> "replace_where"
      [] c.op = "optimize" /\ "zorder_by" \in c.opts -> "zorder"
      [] OTHER -> c.op

PINNED_DML == {"delete", "update", "merge"}

\* derive: the rule of the operation, and the pinned read of a DELETE, UPDATE or MERGE.
derive(c, t) ==
    [op |-> Asked(c), shape |-> c.opts, props |-> c.props, feats |-> c.feats, con |-> c.con,
     needs |-> (CASE c.op = "scan" -> read_needs(c, t)
                  [] c.op = "cdf" -> feed_needs(c, t)
                  [] c.op \in {"append", "overwrite"} -> write_needs(c, t)
                  [] c.op = "delete" -> delete_needs(c)
                  [] c.op = "update" -> update_needs(c, t)
                  [] c.op = "merge" -> merge_needs(c, t)
                  [] c.op = "optimize" -> optimize_needs(c)
                  [] c.op = "cluster_by" ->
                        IF "auto" \in c.opts THEN {"auto_clustering"} ELSE {}
                  [] OTHER -> {})
               \cup (IF c.pinned /\ c.op \in PINNED_DML THEN {"pinned_read"} ELSE {})]

PINNED_REFUSED ==
    {"overwrite", "replace_where", "merge_schema", "optimize", "zorder", "restore",
     "drop_feature", "reorg"} \cup METADATA_OPERATIONS

\* refusal: what no engine may do, whatever the router says.
refusal(c, q, t) ==
    \/ /\ q.op = "overwrite" /\ "schema_overwrite" \in q.shape
       /\ t.cons # {} \/ {"generated", "identity"} \cap t.schema # {}
    \/ q.op = "vacuum" /\ "dry_run" \notin q.shape /\ "borrowed" \in t.files
    \/ c.pinned /\ (q.op \in PINNED_REFUSED \/ (q.op = "append" /\ "distributed" \in q.shape))

-----------------------------------------------------------------------------
(* router.py: what stands between a request and every direct engine.        *)

WarehouseCanName(t) == t.ref \in {"uc", "legacy"}
NoLogYet == {"create", "convert"}
CatalogManagedAlters == METADATA_OPERATIONS \cup {"drop_feature", "merge_schema"}

DirectRefused(op, t) ==
    /\ ~is_shared(t)
    /\ \/ ~is_delta(t)
       \/ is_view_like(t) /\ ~(t.extRead = "yes" /\ "nowhere" \notin t.flags)
       \/ t.type = "FOREIGN" \/ t.ref = "legacy"
       \/ is_catalog_managed(t) /\ op \in CatalogManagedAlters
       \/ "openError" \in t.flags /\ op \notin NoLogYet

Vendable(op, t) == t.extRead # "no" /\ (op \in READ_OPERATIONS \/ t.extWrite # "no")

\* _warehouse_only
WarehouseOnly(op, t) ==
    t.type = "FOREIGN" \/ t.ref = "legacy" \/ (is_catalog_managed(t) /\ op \in CatalogManagedAlters)

\* _catalog_level_block up to the table's type and properties: no engine will do.
BlockedByType(op, t, fallback) ==
    \/ is_shared(t) /\ "sharing" \notin conn.engines
    \/ /\ ~is_shared(t) /\ ~is_delta(t) /\ ~fallback
       /\ ~(is_iceberg(t) /\ "iceberg" \in conn.engines /\ "rest" \in t.flags)
    \/ /\ is_delta(t)
       /\ \/ t.type \in NotWritableTypes /\ op \in DATA_WRITES \cup {"restore"}
          \/ is_view_like(t) /\ ~(t.extRead = "yes" /\ "nowhere" \notin t.flags) /\ ~fallback
          \/ On(t, "appendOnly") /\ op \in {"delete", "update", "overwrite", "replace_where"}
          \/ "policy" \in t.flags /\ op \in {"time_travel", "cdf", "restore"}

\* _catalog_level_block from the catalog's manifest to the Databricks-only operations.
BlockedByCatalog(op, t, fallback) ==
    \/ /\ ~fallback
       /\ \/ WarehouseOnly(op, t)
          \/ t.extRead = "no"
          \/ op \notin READ_OPERATIONS /\ t.extWrite = "no"
          \/ "openError" \in t.flags /\ op \notin NoLogYet
    \/ /\ op \in DATABRICKS_ONLY_OPERATIONS
       /\ \/ t.ref # "path" /\ ~conn.workspace
          \/ ~WarehouseCanName(t)
          \/ ~conn.fallback

CatalogLevelBlock(op, t) ==
    LET fallback == conn.fallback /\ conn.workspace /\ "sql" \in conn.engines IN
    \/ BlockedByType(op, t, fallback)
    \/ ~is_shared(t) /\ is_delta(t) /\ BlockedByCatalog(op, t, fallback)

\* The features a metadata operation turns on, with what they depend on.
FeaturesAdded(q) ==
    WithDependencies(
        CASE q.op = "cluster_by" -> {"clustering"}
          [] q.op = "add_constraint" -> {"checkConstraints"}
          [] q.op = "add_feature" -> q.feats
          [] q.op = "set_properties" ->
                q.feats \cup (q.props \cap {"changeDataFeed", "deletionVectors", "typeWidening",
                                            "inCommitTimestamp", "rowTracking", "v2Checkpoint",
                                            "columnMapping"})
          [] OTHER -> {})

\* _writes: the engine writes every feature, by the matrix alone.
Writes(S, e, t) ==
    \A f \in S \ (IF e = "kernel" /\ "generated" \notin t.schema THEN {"generatedColumns"} ELSE {}) :
        /\ Known(f)
        /\ (IF e = "kernel" THEN FEATURE_SUPPORT(f).kernel_write
            ELSE FEATURE_SUPPORT(f).deltars_write) # "no"

StrandsFeatureTable(q, t) ==
    LET current == effective_writer_features(t)
        after == current \cup FeaturesAdded(q)
    IN  /\ after # current
        /\ Writes(current, "kernel", t) \/ Writes(current, "deltars", t)
        /\ ~Writes(after, "kernel", t) /\ ~Writes(after, "deltars", t)

StrandsLegacyTable(q, t) ==
    LET implied == ImpliedWriter(t.writer)
        added == FeaturesAdded(q) \ implied
    IN  /\ q.op \in METADATA_OPERATIONS
        /\ CASE t.writer >= 7 -> StrandsFeatureTable(q, t)
             [] t.writer \in 3..6 ->
                   /\ ~(added # {} /\ Writes(implied \cup added, "kernel", t))
                   /\ \E f \in added : ~Known(f) \/ FEATURE_SUPPORT(f).deltars_write = "no"
             [] OTHER -> FALSE

-----------------------------------------------------------------------------
(* router.py: the engines in turn.                                          *)

FileRewrites == {"delete", "update", "merge", "replace_where", "optimize", "zorder"}
DataReads == {"scan", "time_travel", "cdf"}

OperationBlockedForDeltaRs(e, op, t) ==
    /\ e = "deltars"
    /\ \/ op \in APPEND_ONLY_FORBIDDEN /\ On(t, "appendOnly")
       \/ op \in UNIFORM_STALE_WRITES /\ On(t, "uniform")
       \/ OPERATION_FEATURE_BLOCKERS(e, op) \cap Active(t) # {}

\* _operation_blocker: what the table's properties forbid a direct engine.
OperationBlocked(e, op, t) ==
    \/ /\ e \in Direct
       /\ \/ op \in APPEND_ONLY_FORBIDDEN /\ On(t, "appendOnly")
          \/ op \in UNIFORM_STALE_WRITES /\ On(t, "uniform")
          \/ op \in COLUMN_MAPPING_REQUIRED /\ "columnMapping" \notin Active(t)
          \/ op = "alter_column_type" /\ ~On(t, "typeWidening")
    \/ OPERATION_FEATURE_BLOCKERS(e, op) \cap Active(t) # {}
    \/ /\ e = "kernel" /\ op = "checkpoint"
       /\ \E f \in t.wf : ~Known(f) \/ ( /\ f \notin VALUE_CONSTRAINT_FEATURES
                                         /\ FEATURE_SUPPORT(f).kernel_write = "no" )

\* _exempted: the table as delta-rs is asked about it.
Exempted(e, q, t) ==
    LET exempt == DELTARS_OPERATION_EXEMPTIONS(q.op)
                      \cup (IF q.op \in {"vacuum", "repair"} /\ "dry_run" \in q.shape
                            THEN DryRunExempt ELSE {})
    IN  IF e = "deltars" THEN [t EXCEPT !.rf = @ \ exempt, !.wf = @ \ exempt] ELSE t

\* _calendar_refusal: files delta-rs would read, or copy, with shifted dates.
CalendarRefused(q, t) ==
    /\ "datetime" \in t.schema /\ "kernel" \in conn.engines
    /\ \/ "legacyCalendar" \in t.files
       \/ q.op \in FileRewrites /\ "unreadableFooter" \in t.files

\* _footerless_rewrite: early dates delta-rs would copy into files without a writer version.
FooterlessRewrite(q, t) ==
    /\ "datetime" \in t.schema /\ "kernel" \in conn.engines
    /\ q.op \notin {"optimize", "zorder"}
    /\ {"early", "unreadableFooter"} \cap t.files # {}

KernelFiltersSql(e, q, t) ==
    /\ e = "kernel" /\ q.op \in {"scan", "time_travel"} /\ "distributed_scan" \notin q.needs
    /\ CalendarRefused(q, t)
KernelEvaluatesSql(e, q) ==
    /\ e = "kernel" /\ q.op \in {"delete", "update", "replace_where"}
    /\ "duckdb_sql" \in q.needs /\ "spark_sql" \notin q.needs

\* The needs no attribute of the engine covers.
MissingNeeds(e, q, t) ==
    LET missing == q.needs \ (RouterHints \cup Provides(e)) IN
    IF missing = {"sql_expressions"} /\ (KernelFiltersSql(e, q, t) \/ KernelEvaluatesSql(e, q))
    THEN {} ELSE missing

\* _preference: tables for which the kernel goes first.
KernelFirst(op, t) ==
    \/ op \in {"delete", "update", "replace_where", "merge"} /\ DeletionVectorsWritable(t)
    \/ op = "vacuum" /\ ( \/ "deletionVectors" \in effective_reader_features(t)
                          \/ ~Writes(effective_features(t), "deltars", t) )
    \/ op = "restore" /\ Mapped(t)
    \/ op \in {"append", "overwrite"} /\ On(t, "statsColumns")
Preference(op, t) ==
    LET chain == OPERATION_ENGINES(op)
        NotKernel(e) == e # "kernel"
    IN  IF KernelFirst(op, t) /\ Implements("kernel", op)
        THEN <<"kernel">> \o SelectSeq(chain, NotKernel) ELSE chain

\* The loop body of _capability, for a direct engine and for the others.
DirectAccepts(e, q, t) ==
    /\ ~DirectRefused(q.op, t) /\ ~StrandsLegacyTable(q, t)
    /\ Vendable(q.op, t)
    /\ ~("predicates" \in q.needs /\ "collation_free" \notin q.needs /\ "collations" \in features(t))
    /\ ~(q.op \in DataReads /\ "variant_free" \notin q.needs /\ On(t, "shredding"))
    /\ e = "deltars" /\ q.op \in FileRewrites \cup DataReads => ~CalendarRefused(q, t)
    /\ e = "deltars" /\ q.op \in FileRewrites => ~FooterlessRewrite(q, t)

Accepts(e, q, t) ==
    /\ e \in conn.engines
    /\ e = "sql" => conn.workspace /\ WarehouseCanName(t) /\ conn.fallback
    /\ e \in Direct => DirectAccepts(e, q, t)
    /\ MissingNeeds(e, q, t) = {} /\ NeedsMet(e, q, t)
    /\ ~OperationBlocked(e, q.op, t)
    /\ Supports(e, q, Exempted(e, q, t), conn)

\* _capability: the first engine that accepts, or "none".
Capability(q, t, exclude) ==
    LET chain == Preference(q.op, t)
        willing == {i \in DOMAIN chain : chain[i] \notin exclude /\ Accepts(chain[i], q, t)}
    IN  IF \/ CatalogLevelBlock(q.op, t)
           \/ {"identity_insert", "identity_update"} \cap q.needs # {}
           \/ "removes_rows" \in q.needs /\ On(t, "appendOnly")
        THEN "none"
        ELSE IF is_shared(t)
        THEN IF /\ q.needs \ RouterHints \subseteq Provides("sharing")
                /\ SharingSupports(q, t, conn) THEN "sharing" ELSE "none"
        ELSE IF willing = {} THEN "none" ELSE chain[Min(willing)]

-----------------------------------------------------------------------------
(* What the engines do. delta-rs, Databricks and storage are external: this *)
(* is their behaviour as the code's own notes record it.                    *)

\* A predicate on a CHAR(n) column that the code looks for: a DELETE's, an UPDATE's or a read's, in
\* deltaswamp's own grammar.
PaddingLookedFor(c, op) == c.sql = "simple" /\ op \in {"delete", "update"} \cup DataReads

\* An engine commits c on t; what it should not have done to the table.
WriteHarm(e, c, op, t) ==
    LET rewrites == op \in {"delete", "update", "merge", "replace_where"}
        moves == op \in {"update", "merge", "replace_where"}
        wf == effective_writer_features(t)
        If(name, condition) == IF condition THEN {name} ELSE {}
    IN  If("iceberg", e \in Direct /\ op \in DATA_WRITES /\ has_iceberg_compat(t)
                          /\ (e = "deltars" \/ On(t, "uniform")))
        \cup If("removed", e \in Direct /\ On(t, "appendOnly") /\
                           (op \in {"overwrite", "replace_where", "delete", "update", "restore"}
                            \/ {"update", "delete", "update_all"} \cap c.clauses # {}))
        \cup If("rowIds", RowTrackingEnabled(t) /\ "rowTracking" \in wf /\
                          \/ e = "deltars" /\ op \in DATA_WRITES
                          \/ e = "kernel" /\ moves /\ ~On(t, "rowIdColumn"))
        \cup If("values", \/ e = "kernel" /\ op \in DATA_WRITES /\ "spark" \in t.cons
                          \/ /\ e = "kernel" /\ op \in DATA_WRITES \ {"append", "overwrite"}
                             /\ op # "delete"
                             /\ {"generated", "identity", "invariants"} \cap t.schema # {}
                          \/ e = "deltars" /\ op \in DATA_WRITES /\ "identity" \in t.schema)
        \cup If("changeRows", On(t, "changeDataFeed") /\
                              \/ e = "kernel" /\ moves
                              \/ e = "kernel" /\ op = "delete" /\ ~DeletionVectorsWritable(t)
                              \/ e = "deltars" /\ "conditional_insert" \in c.clauses)
        \cup If("dates", e = "deltars" /\ op \in DATA_WRITES /\ "datetime" \in t.schema /\
                         "kernel" \in conn.engines /\
                         \/ rewrites /\ {"legacyCalendar", "early"} \cap t.files # {}
                         \/ "early" \in c.data)
        \cup If("columns", e = "deltars" /\ Mapped(t) /\
                           (op \in {"merge_schema", "add_column"} \/ "schema_overwrite" \in c.opts))
        \cup If("protocol", e = "deltars" /\ op = "set_properties" /\ t.reader >= 3)
        \cup If("partitions", e = "deltars" /\ op \in DATA_WRITES /\
                              \/ "binaryPartition" \in t.schema
                              \/ "negDecimal" \in c.data /\ "decimalPartition" \in t.schema)
        \cup If("wrongRows", e \in Direct /\ rewrites /\ c.sql # "none" /\
                             (\/ "interval" \in c.on \/ c.sql = "spark"
                              \/ "char" \in c.on /\ PaddingLookedFor(c, op)))
        \cup If("padding", e \in Direct /\ rewrites /\ c.sql # "none" /\ "char" \in c.on
                           /\ ~PaddingLookedFor(c, op))
        \cup If("overwritten", e \in Direct /\ op \in DATA_WRITES \cup METADATA_OPERATIONS
                               /\ "unsafe" \in t.flags /\ ~is_catalog_managed(t))

\* An engine answers the read c of t; what the answer gets wrong.
ReadHarm(e, c, op, t) ==
    LET If(name, condition) == IF condition THEN {name} ELSE {}
        filtered == c.sql # "none"
    IN  If("collation", e \in Direct /\ filtered /\ "collated" \in c.on
                            /\ "collations" \in features(t))
        \cup If("wrongRows", /\ e \in Direct /\ filtered
                             /\ \/ "interval" \in c.on
                                \/ "char" \in c.on /\ PaddingLookedFor(c, op))
        \cup If("padding", e \in Direct /\ filtered /\ "char" \in c.on /\ ~PaddingLookedFor(c, op))
        \cup If("dates", e = "deltars" /\ op \in DataReads /\ "datetime" \in t.schema
                             /\ "legacyCalendar" \in t.files /\ "kernel" \in conn.engines)
        \cup If("feed", op = "cdf" /\ ~is_shared(t) /\ e \in Direct /\ ~On(t, "changeDataFeed"))
        \cup If("policy", "policy" \in t.flags /\ op \in {"time_travel", "cdf"})
        \cup If("tail", e = "kernel" /\ op = "cdf" /\ is_catalog_managed(t))

\* delta-rs raises a legacy version, or lists the feature of a property it sets.
DeltaRsRaises(t, S) ==
    IF t.writer >= 7 THEN [t EXCEPT !.wf = @ \cup S]
    ELSE [t EXCEPT !.writer = Max({@} \cup (IF "changeDataFeed" \in S THEN {4} ELSE {})
                                      \cup (IF "checkConstraints" \in S THEN {3} ELSE {})
                                      \cup (IF "appendOnly" \in S THEN {2} ELSE {}))]

\* metadata.set_properties and unset_properties refuse what needs more than metadata.
KernelSetsProperties(c, t) ==
    /\ {"rowTracking", "uniform"} \cap c.props = {} /\ c.feats \subseteq ADDABLE_FEATURES
    /\ "columnMapping" \in c.props => t.mode \in {"none", "name"}

\* The table after engine e served the metadata call c. Databricks turns on anything.
AfterMetadata(e, c, t) ==
    LET enabled == (c.props \cap (Feature \ {"rowTracking"})) \cup c.feats
        set == [t EXCEPT !.props = @ \cup (c.props \ {"columnMapping"}),
                         !.mode = IF "columnMapping" \in c.props THEN "name" ELSE @]
    IN  CASE c.op \in {"set_properties", "add_feature"} ->
                IF e = "deltars" THEN DeltaRsRaises(set, enabled)
                ELSE IF e = "sql" THEN with_features(set, enabled \cup (c.props \cap {"rowTracking"}))
                ELSE with_features(set, enabled)
          [] c.op = "add_constraint" ->
                LET with == [t EXCEPT !.cons = @ \cup {c.con}] IN
                IF e = "deltars" \/ t.writer < 7 THEN DeltaRsRaises(with, {"checkConstraints"})
                ELSE with_features(with, {"checkConstraints"})
          [] c.op = "drop_constraint" -> [t EXCEPT !.cons = {}]
          [] c.op = "cluster_by" -> with_features(t, {"clustering"})
          [] c.op = "drop_feature" -> [t EXCEPT !.rf = @ \ c.feats, !.wf = @ \ c.feats,
                                                !.props = @ \ c.feats]
          [] OTHER -> t

-----------------------------------------------------------------------------
Init ==
    /\ conn \in Connections /\ table \in Tables /\ view = table
    /\ changes = <<>> /\ call = NoCall /\ tried = {} /\ harm = {}

\* Databricks turns on properties and features of the table.
Databricks(ch) ==
    /\ Len(changes) < MaxChanges /\ table.ref = "uc" /\ table.type = "TABLE" /\ is_delta(table)
    /\ changes' = Append(changes, "databricks")
    /\ table' = [with_features(table, ch.feats) EXCEPT !.props = @ \cup ch.props,
                                                       !.schema = @ \cup ch.schema]
    /\ UNCHANGED <<conn, view, call, tried, harm>>

\* The request of a write is derived from the handle's view; execute() of a MERGE derives the
\* needs of its clauses again, after build() has looked at the table.
Requested(c) ==
    [derive(c, view) EXCEPT !.needs = @ \cup (IF c.op = "merge" THEN merge_needs(c, table) ELSE {})]

\* The engine the router names for the table as it is serves the write; it may raise without
\* effect.
Write(c) ==
    /\ call = NoCall /\ c.op \notin READ_OPERATIONS /\ c.op # "create"
    /\ LET q == Requested(c)
           e == Capability(q, table, {})
           metadata == c.op \in METADATA_OPERATIONS \cup {"drop_feature"}
           raises == e = "kernel" /\ c.op = "set_properties" /\ ~KernelSetsProperties(c, table)
       IN  /\ ~refusal(c, q, table) /\ e # "none" /\ ~raises
           /\ metadata => Len(changes) < MaxChanges
           /\ changes' = IF metadata THEN Append(changes, e) ELSE changes
           /\ table' = IF metadata THEN AfterMetadata(e, c, table) ELSE table
           /\ harm' = harm \cup WriteHarm(e, c, q.op, table)
    /\ view' = table'
    /\ UNCHANGED <<conn, call, tried>>

BeginRead(c) ==
    /\ call = NoCall /\ c.op \in READ_OPERATIONS /\ ~refusal(c, derive(c, view), view)
    /\ call' = c /\ tried' = {}
    /\ UNCHANGED <<conn, table, view, changes, harm>>

\* Table._read: the engine answers, or declines or breaks and the next one is asked; when none
\* is left the call raises.
ReadStep ==
    /\ call # NoCall
    /\ LET q == derive(call, view)
           e == Capability(q, view, tried)
       IN  \/ /\ e = "none"
              /\ call' = NoCall /\ tried' = {} /\ UNCHANGED harm
           \/ /\ e # "none"
              /\ call' = NoCall /\ tried' = {}
              /\ harm' = harm \cup (IF view = table THEN ReadHarm(e, call, q.op, table) ELSE {})
           \/ /\ e # "none"
              /\ tried' = tried \cup {e} /\ UNCHANGED <<call, harm>>
    /\ UNCHANGED <<conn, table, view, changes>>

\* refresh(), and every write of the handle, look at the table again.
Refresh ==
    /\ call = NoCall /\ view # table
    /\ view' = table
    /\ UNCHANGED <<conn, table, changes, call, tried, harm>>

Next ==
    \/ \E ch \in Changes : Databricks(ch)
    \/ \E c \in Calls : Write(c) \/ BeginRead(c)
    \/ ReadStep
    \/ Refresh

Spec == Init /\ [][Next]_vars

-----------------------------------------------------------------------------
(* Properties.                                                              *)

\* No engine the router names for a write does to the table what the code's notes say it would:
\* stale Iceberg metadata, rows removed from an append-only table, lost row ids, unchecked
\* values, missing change rows, shifted dates, broken column mapping, a feature nobody asked
\* for, values in the wrong partition, a commit that another writer's can replace, or a predicate
\* that selects other rows; nor does one answer a read, or copy dates, by rules that are not the
\* table's. All but one: a comparison with a CHAR(n) column in a replaceWhere, in a MERGE, or in
\* SQL beyond deltaswamp's own grammar, is by the bytes stored.
EnginesDoNoHarm == harm \subseteq {"padding"}

\* Comparisons with a CHAR(n) column pad its values: "only the warehouse evaluates it"
\* (table.py Table._char_needs).
CharsPadded == "padding" \notin harm

PlainAppend ==
    [op |-> "append", needs |-> {}, shape |-> {}, props |-> {}, feats |-> {}, con |-> "none"]
LocallyWritable(t) == \E e \in Direct : Accepts(e, PlainAppend, t)

\* A metadata change made by a local engine never leaves a table that no local engine can append
\* to, when one could before (router._strands_legacy_table), on tables whose constraints and
\* column values DuckDB evaluates.
NeverStranded ==
    [][/\ Len(changes') > Len(changes) /\ changes'[Len(changes')] \in Direct
       /\ "spark" \notin table'.cons /\ "sparkValues" \notin table.schema
       /\ LocallyWritable(table)
       => LocallyWritable(table')]_vars
==============================================================================
