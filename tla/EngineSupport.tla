---------------------------- MODULE EngineSupport ----------------------------
(***************************************************************************)
(* What each engine says of a request on a table: supports() of the        *)
(* kernel, delta-rs, SQL, Iceberg and sharing engines, and the needs they  *)
(* declare. An engine accepts or refuses; the wording of a refusal is left *)
(* out. The native extension, deltalake, DuckDB and pyiceberg are          *)
(* installed.                                                              *)
(*                                                                         *)
(* A request is a record: op; needs, what the router derived from the      *)
(* call; shape, the options the call gives; props and feats, the           *)
(* properties set to true and the features added; con, who can evaluate a  *)
(* constraint being added. A connection is a record: engines, fallback     *)
(* (allow_sql_fallback), workspace (its catalog is the warehouse's),       *)
(* staging (a volume for the data of staged statements).                   *)
(***************************************************************************)
EXTENDS TableFeatures

\* Needs that only describe the request to the router.
RouterHints ==
    {"collation_free", "variant_free", "removes_rows", "conditional_insert_with_feed",
     "early_datetimes", "duckdb_sql"}

\* The supports_<need> attributes of each engine.
Provides(e) ==
    CASE e = "kernel" ->
            {"predicates", "distributed_scan", "distributed_write", "incremental_files",
             "schema_merge", "idempotent_txn", "commit_metadata", "optimize_full",
             "negative_decimal_partition_values", "timestamp_travel", "pinned_read",
             "read_sql_expressions", "dml_sql_expressions"}
      [] e = "deltars" ->
            {"predicates", "sql_expressions", "timestamp_travel", "schema_merge",
             "schema_overwrite", "idempotent_txn", "commit_metadata", "writer_properties",
             "dynamic_overwrite", "out_of_range_feed"}
      [] e = "sql" ->
            {"predicates", "sql_expressions", "spark_sql", "char_padding", "interval_columns",
             "timestamp_travel", "schema_merge", "sql_column_defaults",
             "negative_decimal_partition_values", "dynamic_overwrite", "optimize_full",
             "optimize_predicate", "auto_clustering"}
      [] e = "iceberg" -> {"predicates", "timestamp_travel", "commit_metadata",
                           "dynamic_overwrite"}
      [] e = "sharing" -> {"predicates", "timestamp_travel"}

\* The properties delta-rs sets on a table, and those it takes at create.
DeltaRsSets == {"appendOnly", "changeDataFeed", "statsColumns", "statsAsJson"}
DeltaRsCreates == DeltaRsSets \cup {"columnMapping"}
KernelCreates ==
    DeltaRsCreates \cup {"deletionVectors", "v2Checkpoint", "rowTracking", "inCommitTimestamp",
                         "typeWidening", "custom"}

\* delta.feature.* signals that the kernel's create accepts.
KernelCreateFeatures ==
    {"domainMetadata", "columnMapping", "inCommitTimestamp", "vacuumProtocolCheck",
     "catalogManaged", "deletionVectors", "v2Checkpoint", "appendOnly", "changeDataFeed",
     "typeWidening", "rowTracking", "variantType", "variantShredding", "invariants",
     "materializePartitionColumns", "icebergCompatV3"}

\* effect_for(key, engine, operation).usable() for every key of the request.
PropertiesUsable(e, q) ==
    CASE e = "kernel" -> q.props \subseteq KernelCreates /\ q.feats \subseteq KernelCreateFeatures
      [] e = "deltars" ->
            /\ q.props \subseteq (IF q.op = "create" THEN DeltaRsCreates ELSE DeltaRsSets)
            /\ q.op \in {"create", "set_properties"} => q.feats = {}
      [] OTHER -> TRUE

\* checkpoint_drops_stats: statsAsJson is off and nothing asks for the struct form.
CheckpointDropsStats(t) == On(t, "statsAsJsonOff") /\ ~On(t, "statsAsStruct")

\* unpartitioned_dynamic_overwrite
DynamicOverwriteMet(q, t) == "dynamic_overwrite" \in q.needs => "partitioned" \in t.schema

-----------------------------------------------------------------------------
(* The kernel engine.                                                       *)

WriteOps == DATA_WRITES \cup {"create"}
AddingOps == {"append", "merge_schema"}
RewriteOps == {"replace_where", "delete", "update"}
ValueWrites == {"append", "overwrite"}
MetadataBlockers == {"collations", "catalogManaged", "adaptiveMetadata-preview", "geospatial"}

KernelImplements(op) ==
    op \in {"scan", "time_travel", "detail", "cdf", "files", "publish", "create", "checkpoint",
            "optimize", "zorder", "vacuum", "cleanup_metadata", "generate", "repair", "restore",
            "clone"} \cup DATA_WRITES \cup METADATA_OPERATIONS

UnimplementedOptions(op) ==
    CASE op \in {"append", "merge_schema"} ->
            {"target_file_size", "writer_properties", "partition_by"}
      [] op = "overwrite" -> {"target_file_size", "writer_properties"}
      [] op = "replace_where" ->
            {"target_file_size", "writer_properties", "schema_merge", "schema_overwrite",
             "max_commit_retries"}
      [] op = "delete" -> {"writer_properties", "max_commit_retries"}
      [] op = "update" -> {"writer_properties", "max_commit_retries", "error_on_type_mismatch"}
      [] op = "add_constraint" -> {"commit_metadata", "commit_properties", "post_commithook"}
      [] OTHER -> {}

SchemaModeImplemented(q) ==
    /\ "schema_overwrite" \notin q.shape
    /\ "schema_merge" \in q.shape => q.op \in {"merge_schema", "overwrite"}

RowTrackingEnabled(t) == On(t, "rowTracking")

KeepsRowIds(t) == RowTrackingEnabled(t) => On(t, "rowIdColumn")

RowTrackingDml(t) ==
    /\ "rowTracking" \in effective_writer_features(t)
    /\ RowTrackingEnabled(t) => On(t, "rowIdColumn")

DeletionVectorsWritable(t) ==
    /\ "deletionVectors" \in t.rf /\ "deletionVectors" \in t.wf
    /\ On(t, "deletionVectors")

FileRewritePath(t) ==
    /\ ~DeletionVectorsWritable(t)
    /\ "rowTracking" \in effective_writer_features(t) => RowTrackingDml(t)

\* What Unity Catalog's committer checks of every commit.
UcCommits(t) ==
    /\ {"vacuumProtocolCheck", "inCommitTimestamp"} \subseteq effective_writer_features(t)
    /\ "vacuumProtocolCheck" \in effective_reader_features(t)
    /\ On(t, "ucTableId") /\ On(t, "inCommitTimestamp")

\* need_refusal: a pinned DELETE, UPDATE or MERGE takes the deletion-vector path.
KernelNeedsMet(q, t) ==
    "pinned_read" \in q.needs =>
        DeletionVectorsWritable(t) /\ (is_catalog_managed(t) => "tail" \in t.flags)

\* DuckDB evaluates every constraint of the table.
ConstraintsEnforced(t) == "spark" \notin t.cons

ValuesComputed(t) == "sparkValues" \notin t.schema

MergeAccepted(t) ==
    /\ ~is_shallow_clone(t)
    /\ "rowTracking" \in effective_writer_features(t) =>
           IF DeletionVectorsWritable(t) THEN KeepsRowIds(t) ELSE RowTrackingDml(t)

\* Row ids of the rows a commit removes or moves are kept.
RowIdsKept(q, t) ==
    \/ "rowTracking" \notin effective_writer_features(t)
    \/ q.op \notin RewriteOps \cup {"overwrite"}
    \/ q.op = "overwrite" /\ "predicate" \notin q.shape
    \/ q.op \in RewriteOps /\ DeletionVectorsWritable(t) /\ KeepsRowIds(t)
    \/ q.op \in RewriteOps /\ FileRewritePath(t)

\* _rewrite_refusal: what is not rewritten file by file is rewritten whole, up to a size.
RewriteAccepted(q, t) ==
    /\ ~is_shallow_clone(t)
    /\ DeletionVectorsWritable(t) \/ FileRewritePath(t) \/ "large" \notin t.files

\* The matrix lists the kernel's support of these as partial.
WriteBlockersPartial(q, t) ==
    {f \in effective_writer_features(t) :
        IF q.op \in METADATA_OPERATIONS THEN ~Known(f) \/ f \in MetadataBlockers
        ELSE ~Known(f) \/ f = "checkConstraints" \/ FEATURE_SUPPORT(f).kernel_write = "no"}
\* The writer features that bar a commit of the kernel, for rows and for metadata.
WriteBlockers(q, t) ==
    LET metadata == q.op \in METADATA_OPERATIONS
        values == {"generatedColumns", "identityColumns", "invariants"}
        Blocks(f) ==
            \/ ~Known(f)
            \/ f # "checkpointProtection" /\
               IF metadata
               THEN \/ f \in MetadataBlockers
                    \/ FEATURE_SUPPORT(f).kernel_read = "no" /\ FEATURE_SUPPORT(f).kernel_write = "no"
               ELSE ~(f \in values /\ q.op \in ValueWrites) /\
                    CASE f = "identityColumns" -> "identity" \in t.schema
                      [] f = "invariants" -> FALSE
                      [] f = "generatedColumns" -> "generated" \in t.schema
                      [] f = "checkConstraints" -> FALSE
                      [] OTHER -> FEATURE_SUPPORT(f).kernel_write = "no"
    IN  {f \in effective_writer_features(t) : Blocks(f)}

\* What the rows themselves would have to satisfy, which not every write evaluates.
UsageBlocked(q, t) ==
    LET wf == effective_writer_features(t) IN
    \/ "checkConstraints" \in wf /\ ~ConstraintsEnforced(t)
    \/ q.op \notin ValueWrites /\ "invariants" \in wf /\ "invariants" \in t.schema
    \/ /\ q.op \in ValueWrites /\ ~ValuesComputed(t)
       /\ wf \cap {"generatedColumns", "identityColumns", "invariants"} # {}

\* _data_write_refusal
DataWriteAccepted(q, t) ==
    /\ On(t, "appendOnly") => q.op \in AddingOps
    /\ On(t, "changeDataFeed") =>
           \/ q.op \in AddingOps \cup {"overwrite"}
           \/ q.op = "delete" /\ DeletionVectorsWritable(t)
    /\ q.op \notin ValueWrites =>
           /\ "generated" \notin t.schema
           /\ (t.writer = 2 \/ "invariants" \in t.wf) => "invariants" \notin t.schema

\* _metadata_refusal
MetadataAccepted(q, t) ==
    /\ ~is_catalog_managed(t) /\ ~has_iceberg_compat(t)
    /\ q.op \in COLUMN_MAPPING_REQUIRED =>
           Mapped(t) /\ "columnMapping" \in effective_writer_features(t)
    /\ q.op = "cluster_by" => "partitioned" \notin t.schema

\* _add_feature_refusal
KernelAdds(q, t) ==
    q.op = "add_feature" => q.feats \subseteq effective_features(t) \cup ADDABLE_FEATURES

\* _compaction_capability
CompactionAccepted(q, t) ==
    LET wf == effective_writer_features(t)
        clustered == "clustering" \in wf
    IN  /\ {"predicate", "writer_properties", "min_commit_interval", "app_transactions"}
              \cap q.shape = {}
        /\ ~({"sort_by", "zorder_by"} \subseteq q.shape)
        /\ IF clustered THEN {"zorder_by", "sort_by"} \cap q.shape = {} ELSE "full" \notin q.shape
        /\ ~is_shallow_clone(t) /\ ~On(t, "shredding")
        /\ "rowTracking" \in wf =>
               "domainMetadata" \in wf /\ (RowTrackingEnabled(t) => On(t, "rowIdColumn"))
        /\ \A f \in wf \ (VALUE_CONSTRAINT_FEATURES \cup {"rowTracking", "catalogManaged"}) :
               /\ Known(f) /\ f \notin MetadataBlockers
               /\ FEATURE_SUPPORT(f).kernel_write # "no"

\* _file_operation_refusal
FileOperationAccepted(t) == ~is_shallow_clone(t) /\ \A f \in effective_features(t) : Known(f)

VacuumAccepted(q, t) ==
    /\ FileOperationAccepted(t) /\ "keep_versions" \notin q.shape
    /\ is_catalog_managed(t) => {"dry_run", "allow_catalog_managed"} \cap q.shape # {}

CleanupAccepted(t) ==
    /\ ~is_catalog_managed(t) /\ "checkpointProtection" \notin effective_writer_features(t)
    /\ \A f \in effective_features(t) : Known(f)

GenerateAccepted(t) ==
    ~is_catalog_managed(t) /\ ~Mapped(t) /\ "deletionVectors" \notin features(t)

RepairAccepted(q, t) ==
    /\ FileOperationAccepted(t)
    /\ "dry_run" \notin q.shape => ~On(t, "appendOnly") /\ ~has_iceberg_compat(t)

\* _restore_capability; "unrestorable": a target version the current protocol cannot carry.
RestoreAccepted(q, t) ==
    /\ FileOperationAccepted(t) /\ ~has_iceberg_compat(t)
    /\ {"protocol_downgrade", "unrestorable"} \cap q.shape = {}

CloneAccepted(q, t) ==
    /\ {"catalog_target", "replace"} \cap q.shape = {}
    /\ {"rowTracking", "catalogManaged"} \cap (features(t) \cup effective_writer_features(t)) = {}
    /\ "shallow" \in q.shape => t.ref = "path" /\ ~is_shallow_clone(t)

\* supports() from the unimplemented options to the end: rows, metadata and versions.
KernelWrites(q, t) ==
    /\ q.op \in METADATA_OPERATIONS => MetadataAccepted(q, t) /\ KernelAdds(q, t)
    /\ q.shape \cap UnimplementedOptions(q.op) = {} /\ SchemaModeImplemented(q)
    /\ "schema_merge" \in q.shape => ~is_catalog_managed(t)
    /\ q.op = "add_constraint" => q.con # "spark"
    /\ is_catalog_managed(t) /\ q.op # "create" => UcCommits(t)
    /\ q.op = "merge" => MergeAccepted(t)
    /\ RowIdsKept(q, t)
    /\ q.op \in RewriteOps => RewriteAccepted(q, t)
    /\ WriteBlockers(q, t) = {}
    /\ q.op \in WriteOps => ~UsageBlocked(q, t)
    /\ q.op \in DATA_WRITES => DataWriteAccepted(q, t)

\* supports(): what every operation needs first, then what its own needs.
KernelSupports(q, t) ==
    /\ KernelImplements(q.op) /\ is_delta(t) /\ "nowhere" \notin t.flags
    /\ q.op = "checkpoint" => ~CheckpointDropsStats(t)
    /\ q.op \notin READ_OPERATIONS \cup {"clone"} => is_catalog_managed(t) \/ "unsafe" \notin t.flags
    /\ q.op # "clone" => \A f \in effective_reader_features(t) :
                             Known(f) /\ FEATURE_SUPPORT(f).kernel_read # "no"
    /\ CASE q.op = "clone" -> CloneAccepted(q, t)
         [] q.op \in {"optimize", "zorder"} -> CompactionAccepted(q, t)
         [] q.op = "vacuum" -> VacuumAccepted(q, t)
         [] q.op = "cleanup_metadata" -> CleanupAccepted(t)
         [] q.op = "generate" -> GenerateAccepted(t)
         [] q.op = "repair" -> RepairAccepted(q, t)
         [] q.op = "restore" -> RestoreAccepted(q, t)
         [] q.op \in WriteOps \cup METADATA_OPERATIONS -> KernelWrites(q, t)
         [] q.op = "cdf" -> On(t, "changeDataFeed") /\ ~is_catalog_managed(t)
         [] q.op \in {"scan", "time_travel"} -> ~is_shallow_clone(t)
         [] OTHER -> TRUE
    /\ q.op = "create" => PropertiesUsable("kernel", q) /\ {"generated", "identity", "default",
                                                            "invariants"} \cap t.schema = {}

-----------------------------------------------------------------------------
(* The delta-rs engine.                                                     *)

DeltaRsReadOnly == READ_OPERATIONS

DeltaRsFeatures ==
    {"appendOnly", "changeDataFeed", "checkConstraints", "columnMapping", "deletionVectors",
     "domainMetadata", "generatedColumns", "icebergCompatV1", "identityColumns", "invariants",
     "rowTracking", "timestampNanos", "timestampNtz", "v2Checkpoint", "variantType"}

\* need_refusal
DeltaRsNeedsMet(q, t) ==
    /\ q.needs \cap {"schema_merge", "schema_overwrite"} # {} => ~Mapped(t)
    /\ "early_datetimes" \notin q.needs
    /\ "conditional_insert_with_feed" \notin q.needs
    /\ DynamicOverwriteMet(q, t)

\* _guard_cdf
DeltaRsReadsFeed(t) ==
    On(t, "changeDataFeed") /\ ~Mapped(t) /\ ~On(t, "shortRetention")

\* _add_feature_refusal
DeltaRsAdds(q, t) ==
    /\ t.writer >= 7
    /\ \A f \in q.feats :
          /\ Known(f) /\ f \in DeltaRsFeatures
          /\ FEATURE_SUPPORT(f).deltars_write = "yes"
          /\ FEATURE_DEPENDENCIES(f) \subseteq features(t) \cup q.feats

\* The features of the table delta-rs can neither read nor, for a write, write.
DeltaRsBlockers(q, t) ==
    {f \in effective_reader_features(t) : ~Known(f) \/ FEATURE_SUPPORT(f).deltars_read = "no"}
        \cup (IF q.op \in DeltaRsReadOnly THEN {}
              ELSE {f \in effective_writer_features(t) :
                        ~Known(f) \/ FEATURE_SUPPORT(f).deltars_write = "no"})

\* supports() up to the features: where the table is and who commits to it.
DeltaRsReaches(q, t) ==
    /\ Implements("deltars", q.op)
    /\ q.op = "checkpoint" => ~CheckpointDropsStats(t)
    /\ {"nowhere", "bearer"} \cap t.flags = {}
    /\ q.op \in DATA_WRITES => "hostile" \notin t.flags
    /\ is_delta(t) /\ ~is_catalog_managed(t) /\ ~is_shallow_clone(t)
    /\ q.op \notin DeltaRsReadOnly => "unsafe" \notin t.flags /\ ~has_iceberg_compat(t)

\* delta-rs never commits a compaction: the kernel does, so the kernel answers for it.
DeltaRsSupports(q, t) ==
    IF q.op \in {"optimize", "zorder"} THEN CompactionAccepted(q, t)
    ELSE /\ DeltaRsReaches(q, t)
         /\ DeltaRsBlockers(q, t) = {}
         /\ q.op \in DATA_WRITES => "binaryPartition" \notin t.schema
         /\ q.op = "create" =>
                {"clustered", "identity", "default"} \cap (q.shape \cup t.schema) = {}
         /\ q.op = "merge_schema" => ~Mapped(t)
         /\ q.op = "files" => "deletionVectors" \notin effective_reader_features(t)
         /\ q.op = "cdf" => DeltaRsReadsFeed(t)
         /\ q.op = "restore" => "deletionVectors" \notin t.rf
         /\ q.op = "set_properties" => t.reader < 3
         /\ q.op = "add_feature" => DeltaRsAdds(q, t)
         /\ PropertiesUsable("deltars", q)

-----------------------------------------------------------------------------
(* The SQL, Iceberg and sharing engines.                                    *)

NotWritableTypes == {"VIEW", "METRIC_VIEW", "MATERIALIZED_VIEW"}
StagedOperations == {"append", "overwrite", "replace_where", "merge", "merge_schema"}
NonRemovable ==
    {"appendOnly", "invariants", "changeDataFeed", "generatedColumns", "identityColumns",
     "timestampNtz", "allowColumnDefaults"}

\* _table_type_refusal
TableTypeAccepted(q, t) ==
    LET known == effective_features(t) IN
    /\ q.op = "refresh" => t.type \in {"MATERIALIZED_VIEW", "STREAMING_TABLE"}
    /\ t.type \in NotWritableTypes => q.op \notin {"time_travel", "cdf", "history", "detail"}
    /\ q.op = "alter_column_type" /\ known # {} => "typeWidening" \in known \/ On(t, "typeWidening")
    /\ q.op \in COLUMN_MAPPING_REQUIRED /\ known # {} => Mapped(t)
    /\ q.op = "zorder" => "clustering" \notin features(t)
    /\ q.op = "cluster_by" => "partitioned" \notin t.schema
    /\ q.op = "cdf" /\ (known # {} \/ t.props # {}) =>
           On(t, "changeDataFeed") \/ On(t, "rowTracking")
    /\ t.type \in NotWritableTypes /\ q.op # "refresh" => q.op \in READ_OPERATIONS

\* _drop_feature_refusal
DropFeatureAccepted(q, t) ==
    q.op = "drop_feature" =>
        \A f \in q.feats : /\ f \notin NonRemovable
                           /\ features(t) # {} => f \in features(t)
                           /\ f = "checkConstraints" => t.cons = {}

\* sql.py's _iceberg_refusal
SqlIcebergAccepted(q, t) ==
    LET writerCompat == {"icebergWriterCompatV1", "icebergWriterCompatV3"} \cap features(t) # {}
        compat == {"icebergCompatV1", "icebergCompatV2", "icebergCompatV3"} \cap features(t) # {}
    IN  /\ (compat \/ writerCompat) /\ q.op = "cdf" =>
               "rowTracking" \in features(t) /\ On(t, "rowTracking")
        /\ writerCompat =>
               /\ q.op = "clone" => "shallow" \notin q.shape
               /\ q.op \notin {"add_constraint", "drop_constraint"}
               /\ q.op = "add_feature" => q.feats \cap {"deletionVectors", "checkConstraints",
                                                        "generatedColumns", "identityColumns"} = {}
               /\ q.op = "set_properties" => q.props \cap {"appendOnly", "columnMapping",
                                                           "statsColumns", "statsAsJson",
                                                           "v2Checkpoint", "uniform"} = {}
               /\ q.op = "cluster_by" => ~On(t, "deletionVectors") /\ ~On(t, "rowTracking")

SqlSupports(q, t, conn) ==
    /\ Implements("sql", q.op) /\ t.ref # "path"
    /\ q.op \in StagedOperations => conn.staging
    /\ TableTypeAccepted(q, t) /\ DropFeatureAccepted(q, t) /\ SqlIcebergAccepted(q, t)

IcebergSupports(q, t) ==
    /\ q.op \in {"scan", "time_travel", "history", "detail", "append", "overwrite",
                 "replace_where"}
    /\ "rest" \in t.flags
    /\ is_managed_iceberg(t) \/ has_iceberg_compat(t)
    /\ t.extRead # "no" /\ "variant" \notin t.schema
    /\ q.op = "history" => is_iceberg(t)
    /\ q.op \in {"append", "overwrite", "replace_where"} =>
           /\ is_managed_iceberg(t) /\ t.extWrite # "no"
           /\ q.op = "append" \/ is_iceberg(t)

SharingSupports(q, t, conn) ==
    /\ q.op \in {"scan", "time_travel", "cdf", "detail"} /\ is_shared(t)
    /\ t.rf \cap {"deletionVectors", "columnMapping"} # {} => "kernel" \in conn.engines
    /\ q.op = "cdf" => On(t, "changeDataFeed")

Supports(e, q, t, conn) ==
    CASE e = "kernel" -> KernelSupports(q, t)
      [] e = "deltars" -> DeltaRsSupports(q, t)
      [] e = "sql" -> SqlSupports(q, t, conn)
      [] e = "iceberg" -> IcebergSupports(q, t)
      [] e = "sharing" -> SharingSupports(q, t, conn)

NeedsMet(e, q, t) ==
    CASE e = "kernel" -> KernelNeedsMet(q, t)
      [] e = "deltars" -> DeltaRsNeedsMet(q, t)
      [] e = "sql" -> DynamicOverwriteMet(q, t)
      [] OTHER -> TRUE
==============================================================================
