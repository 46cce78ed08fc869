---------------------------- MODULE TableFeatures ----------------------------
(***************************************************************************)
(* What capability.py and catalog/base.py say of Delta tables: the feature *)
(* matrix, the features a legacy protocol implies, and the record a        *)
(* resolved table is routed and written by.                                *)
(*                                                                         *)
(* A table is a record. Of its properties and schema it keeps the facts    *)
(* some engine or the router decides by.                                   *)
(*   ref      "path", "uc", "hms" (or Glue), "legacy" (hive_metastore)     *)
(*   type     "TABLE", "VIEW", "MATERIALIZED_VIEW", "METRIC_VIEW",         *)
(*            "STREAMING_TABLE", "FOREIGN", "SHALLOW_CLONE"                *)
(*   format   "DELTA", "ICEBERG", "OTHER"                                  *)
(*   reader, writer, rf, wf   the protocol action                          *)
(*   props    the table properties that are on                             *)
(*   mode     delta.columnMapping.mode                                     *)
(*   schema   what the columns declare                                     *)
(*   cons     the CHECK constraints, each by who can evaluate it           *)
(*   files    what the data files hold besides rows                        *)
(*   extRead, extWrite        the catalog's capability manifest            *)
(*   flags    shared, policy, openError, rest (an Iceberg REST endpoint),  *)
(*            tail (the catalog serves commits), nowhere (no location),    *)
(*            unsafe (storage without put-if-absent), bearer (a GCS token),*)
(*            hostile (a local path delta-rs cannot write)                 *)
(* A preview feature has the rows of the feature it previews.              *)
(***************************************************************************)
EXTENDS Integers, Sequences, FiniteSets

Engine == {"kernel", "deltars", "sharing", "iceberg", "sql"}

\* The features that bind writers only, and those that bind readers too.
WriterFeature ==
    {"appendOnly", "invariants", "checkConstraints", "changeDataFeed", "generatedColumns",
     "identityColumns", "inCommitTimestamp", "rowTracking", "domainMetadata", "icebergCompatV1",
     "icebergCompatV2", "icebergCompatV3", "icebergWriterCompatV1", "icebergWriterCompatV3",
     "clustering", "materializePartitionColumns", "allowColumnDefaults", "collations",
     "checkpointProtection"}
ReaderWriterFeature ==
    {"catalogManaged", "columnMapping", "deletionVectors", "timestampNtz", "typeWidening",
     "v2Checkpoint", "vacuumProtocolCheck", "variantType", "variantShredding",
     "adaptiveMetadata-preview", "geospatial", "timestampNanos"}
Feature == WriterFeature \cup ReaderWriterFeature

Support(kr, kw, dr, dw) ==
    [kernel_read |-> kr, kernel_write |-> kw, deltars_read |-> dr, deltars_write |-> dw]

\* The rows of the matrix for features that bind writers only.
WriterRow(f) ==
    CASE f \in {"appendOnly", "changeDataFeed"} -> Support("yes", "yes", "yes", "yes")
      [] f \in {"invariants", "checkConstraints", "generatedColumns"} ->
            Support("yes", "partial", "yes", "yes")
      [] f \in {"identityColumns", "rowTracking", "checkpointProtection"} ->
            Support("yes", "partial", "yes", "no")
      [] f \in {"icebergCompatV1", "icebergCompatV2", "icebergWriterCompatV1",
                "icebergWriterCompatV3"} -> Support("yes", "no", "yes", "no")
      [] f = "collations" -> Support("partial", "no", "partial", "no")
      [] OTHER -> Support("yes", "yes", "yes", "no")

\* The rows of the matrix for features that bind readers and writers.
ReaderWriterRow(f) ==
    CASE f \in {"columnMapping", "timestampNtz", "v2Checkpoint", "variantType"} ->
            Support("yes", "yes", "yes", "yes")
      [] f = "deletionVectors" -> Support("yes", "yes", "yes", "partial")
      [] f = "variantShredding" -> Support("partial", "yes", "no", "no")
      [] f \in {"adaptiveMetadata-preview", "geospatial"} -> Support("no", "no", "no", "no")
      [] f = "timestampNanos" -> Support("no", "no", "yes", "yes")
      [] OTHER -> Support("yes", "yes", "no", "no")

FEATURE_SUPPORT(f) == IF f \in WriterFeature THEN WriterRow(f) ELSE ReaderWriterRow(f)

\* feature_from_wire answers None for a name outside Feature.
Known(f) == f \in Feature

FEATURE_DEPENDENCIES(f) ==
    CASE f \in {"rowTracking", "clustering"} -> {"domainMetadata"}
      [] f = "catalogManaged" -> {"inCommitTimestamp"}
      [] f = "variantShredding" -> {"variantType"}
      [] f \in {"icebergCompatV1", "icebergCompatV2"} -> {"columnMapping"}
      [] f = "icebergCompatV3" -> {"columnMapping", "rowTracking"}
      [] f = "adaptiveMetadata-preview" ->
            {"columnMapping", "rowTracking", "domainMetadata", "deletionVectors",
             "inCommitTimestamp"}
      [] OTHER -> {}

\* S with what its features depend on; no dependency is more than two deep.
WithDependencies(S) ==
    LET One(T) == T \cup UNION {FEATURE_DEPENDENCIES(f) : f \in T} IN One(One(S))

LEGACY_READER_FEATURES(v) == IF v <= 1 THEN {} ELSE {"columnMapping"}

LEGACY_WRITER_FEATURES(v) ==
    (IF v >= 2 THEN {"appendOnly", "invariants"} ELSE {})
        \cup (IF v >= 3 THEN {"checkConstraints"} ELSE {})
        \cup (IF v >= 4 THEN {"changeDataFeed", "generatedColumns"} ELSE {})
        \cup (IF v >= 5 THEN {"columnMapping"} ELSE {})
        \cup (IF v >= 6 THEN {"identityColumns"} ELSE {})

\* implied_features: below the feature protocols the version is the list.
ImpliedReader(v) == IF v < 3 THEN LEGACY_READER_FEATURES(v) ELSE {}
ImpliedWriter(v) == IF v < 7 THEN LEGACY_WRITER_FEATURES(v) ELSE {}

\* metadata.py, with_features: the protocol p with the features S and what they depend on.
\* A legacy protocol becomes a list of the features its version stood for; readers are asked
\* for more only when a feature added binds them.
with_features(p, S) ==
    LET have == p.wf \cup ImpliedWriter(p.writer)
        One(T) == T \cup UNION {FEATURE_DEPENDENCIES(f) : f \in T}
        wanted == One(One(S))
        all == have \cup wanted
        binding == all \cap ReaderWriterFeature
    IN  IF wanted \subseteq have THEN p
        ELSE IF p.reader >= 3 THEN [p EXCEPT !.writer = 7, !.wf = all, !.rf = @ \cup binding]
        ELSE IF (binding \cap wanted) \subseteq ImpliedReader(p.reader)
        THEN [p EXCEPT !.writer = 7, !.wf = all]
        ELSE [p EXCEPT !.reader = 3, !.writer = 7, !.wf = all, !.rf = binding]

\* What metadata.py can add to the protocol of an existing table, and what it never does.
ADDABLE_FEATURES ==
    {"appendOnly", "invariants", "checkConstraints", "changeDataFeed", "deletionVectors",
     "domainMetadata", "timestampNtz", "typeWidening", "v2Checkpoint", "vacuumProtocolCheck",
     "variantType", "inCommitTimestamp", "allowColumnDefaults"}

-----------------------------------------------------------------------------
(* The table types and the facts of a resolved table.                       *)

features(t) == t.rf \cup t.wf
effective_reader_features(t) == t.rf \cup ImpliedReader(t.reader)
effective_writer_features(t) == t.wf \cup ImpliedWriter(t.writer)
effective_features(t) == effective_reader_features(t) \cup effective_writer_features(t)

On(t, p) == p \in t.props
Mapped(t) == t.mode \in {"name", "id"}

is_catalog_managed(t) == "catalogManaged" \in features(t)
is_shallow_clone(t) == t.type = "SHALLOW_CLONE"
is_delta(t) == t.format = "DELTA"
is_shared(t) == "shared" \in t.flags
is_iceberg(t) == t.format = "ICEBERG"
is_managed_iceberg(t) == is_iceberg(t) \/ (is_catalog_managed(t) /\ On(t, "writerCompat"))
is_view_like(t) == t.type \in {"VIEW", "MATERIALIZED_VIEW", "METRIC_VIEW", "STREAMING_TABLE"}
has_iceberg_compat(t) ==
    \/ features(t) \cap {"icebergCompatV1", "icebergCompatV2", "icebergCompatV3"} # {}
    \/ On(t, "uniform")

\* _active_features: a listed feature that a property has switched off does not count.
Active(t) ==
    LET known == features(t) \cap Feature
        mapped == IF Mapped(t) THEN known \cup {"columnMapping"} ELSE known \ {"columnMapping"}
    IN  IF On(t, "rowTrackingSuspended") THEN mapped \ {"rowTracking"} ELSE mapped

-----------------------------------------------------------------------------
(* The operations and the engines that serve each, in order of preference.  *)

ReadChain(op) ==
    CASE op \in {"scan", "time_travel", "detail"} ->
            <<"kernel", "deltars", "sharing", "iceberg", "sql">>
      [] op = "cdf" -> <<"kernel", "deltars", "sharing", "sql">>
      [] op = "history" -> <<"deltars", "iceberg", "sql">>
      [] op = "files" -> <<"deltars", "kernel">>

DataChain(op) ==
    CASE op \in {"append", "overwrite"} -> <<"deltars", "kernel", "iceberg", "sql">>
      [] op = "replace_where" -> <<"deltars", "iceberg", "sql", "kernel">>
      [] op = "merge_schema" -> <<"deltars", "kernel", "sql">>
      [] op \in {"delete", "update", "merge"} -> <<"deltars", "sql", "kernel">>

MetadataChain(op) ==
    CASE op \in {"add_column", "set_properties", "add_feature", "add_constraint",
                 "drop_constraint", "set_comment", "set_column_comment", "drop_not_null"} ->
            <<"deltars", "kernel", "sql">>
      [] op \in {"unset_properties", "alter_column_type", "set_not_null", "cluster_by",
                 "drop_column", "rename_column"} -> <<"kernel", "sql">>
      [] op = "drop_feature" -> <<"sql">>

MaintenanceChain(op) ==
    CASE op \in {"optimize", "zorder"} -> <<"kernel", "deltars", "sql">>
      [] op \in {"vacuum", "restore", "repair"} -> <<"deltars", "kernel", "sql">>
      [] op \in {"create", "generate", "checkpoint"} -> <<"deltars", "kernel">>
      [] op \in {"convert", "log_compaction"} -> <<"deltars">>
      [] op = "cleanup_metadata" -> <<"kernel", "deltars">>
      [] op = "publish" -> <<"kernel">>
      [] op = "clone" -> <<"kernel", "sql">>
      [] op \in {"reorg", "analyze", "sync_iceberg", "refresh"} -> <<"sql">>

READ_OPERATIONS == {"scan", "time_travel", "cdf", "history", "detail", "files"}
METADATA_OPERATIONS ==
    {"add_column", "drop_column", "rename_column", "set_properties", "unset_properties",
     "add_feature", "add_constraint", "drop_constraint", "set_comment", "set_column_comment",
     "alter_column_type", "set_not_null", "drop_not_null", "cluster_by"}
DATA_WRITES ==
    {"append", "overwrite", "replace_where", "merge_schema", "delete", "update", "merge"}
DATABRICKS_ONLY_OPERATIONS == {"drop_feature", "reorg", "analyze", "sync_iceberg", "refresh"}
MAINTENANCE_OPERATIONS ==
    {"optimize", "zorder", "vacuum", "restore", "repair", "create", "generate", "checkpoint",
     "convert", "log_compaction", "cleanup_metadata", "publish", "clone", "reorg", "analyze",
     "sync_iceberg", "refresh"}
Operation == READ_OPERATIONS \cup DATA_WRITES \cup METADATA_OPERATIONS \cup {"drop_feature"}
                \cup MAINTENANCE_OPERATIONS

OPERATION_ENGINES(op) ==
    CASE op \in READ_OPERATIONS -> ReadChain(op)
      [] op \in DATA_WRITES -> DataChain(op)
      [] op \in METADATA_OPERATIONS \cup {"drop_feature"} -> MetadataChain(op)
      [] OTHER -> MaintenanceChain(op)

Implements(e, op) == \E i \in DOMAIN OPERATION_ENGINES(op) : OPERATION_ENGINES(op)[i] = e

OPERATION_FEATURE_BLOCKERS(e, op) ==
    CASE e = "deltars" /\ op \in {"optimize", "zorder", "add_column"} -> {"columnMapping"}
      [] e \in {"deltars", "kernel"} /\ op = "generate" -> {"deletionVectors", "columnMapping"}
      [] OTHER -> {}

APPEND_ONLY_FORBIDDEN == {"overwrite", "replace_where", "delete", "update", "restore"}
COLUMN_MAPPING_REQUIRED == {"rename_column", "drop_column"}
UNIFORM_STALE_WRITES == DATA_WRITES
VALUE_CONSTRAINT_FEATURES ==
    {"checkConstraints", "generatedColumns", "identityColumns", "invariants"}

LogOnlyExempt ==
    {"domainMetadata", "clustering", "rowTracking", "typeWidening", "variantShredding",
     "identityColumns", "generatedColumns", "checkConstraints", "invariants",
     "allowColumnDefaults", "materializePartitionColumns"}

\* The features delta-rs may ignore in operations that touch only the log.
DELTARS_OPERATION_EXEMPTIONS(op) ==
    CASE op = "history" -> {"typeWidening", "vacuumProtocolCheck", "variantShredding"}
      [] op = "cleanup_metadata" -> LogOnlyExempt
      [] op = "log_compaction" -> LogOnlyExempt \cup {"inCommitTimestamp"}
      [] OTHER -> {}
DryRunExempt == LogOnlyExempt \cup {"inCommitTimestamp", "vacuumProtocolCheck"}
==============================================================================
