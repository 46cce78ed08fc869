------------------------------- MODULE Metadata -------------------------------
(***************************************************************************)
(* Commits that change what a table is: engine/metadata.py computes a new  *)
(* protocol and metadata from the latest version, and                      *)
(* KernelEngine._commit_metadata puts them at the next version if nobody   *)
(* else has, or computes them again. Appends that evolve the schema or     *)
(* number identity columns, RESTORE, and the identity values a distributed *)
(* write reserves go the same way.                                         *)
(*                                                                         *)
(* A version is a record: the protocol (reader, writer, rf, wf); cols, a   *)
(* sequence of columns; parts, the partition columns; clus, {} or the set  *)
(* of the set of physical clustering columns; cons, the columns a CHECK    *)
(* constraint names (one constraint for each); stats, the columns of       *)
(* delta.dataSkippingStatsColumns, {} when unset; cfg, the properties that *)
(* are on; mode and maxId of column mapping; files, the live data files.   *)
(* A column is a record: name; id and phys, its field id and its name in   *)
(* Parquet; null, whether it is nullable; type; gen, the column its        *)
(* generation expression reads; hwm, the identity high-water mark or       *)
(* NotIdentity; explicit, whether the data may give values of its own for  *)
(* an identity column (GENERATED BY DEFAULT); birth, a ghost: the version  *)
(* that first had this column. A file is the set of its column chunks,     *)
(* each with the value of its one row: "good", "null" or "bad", which       *)
(* violates any constraint.                                                *)
(***************************************************************************)
EXTENDS TableFeatures, FiniteSetsExt

CONSTANTS
    Clients,     \* handles that change the table
    Tasks,       \* the worker tasks of a distributed write, 0..n-1
    Created,     \* the tables create may write at version 0
    Foreign,     \* version 0 of the tables another writer created
    Ops,         \* the calls a client may make
    MaxVersion,  \* bound: the last version of the log
    MaxAttempts, \* metadata_commit_attempts
    MaxWrites    \* bound: writes of one task

VARIABLES
    log,   \* log[n + 1] is version n
    job,   \* the call each client has under way
    plan,  \* the identity values each client has reserved
    rows   \* the identity values generated, each with the write it came from

vars == <<log, job, plan, rows>>

NotIdentity == -1
Idle == [op |-> [kind |-> "none"], base |-> 0, left |-> 0]
Block(at, first, count) ==
    [at |-> at, first |-> first, count |-> count, used |-> [t \in Tasks |-> 0],
     writes |-> [t \in Tasks |-> 0], kept |-> [t \in Tasks |-> {}]]
NoPlan == Block(0, 0, 0)

\* The change data feed's own column names, as one.
Reserved == "_change_type"

ASSUME BoundsAssumption ==
    /\ MaxVersion \in Nat /\ MaxAttempts \in Nat \ {0} /\ MaxWrites \in Nat
    /\ IsFiniteSet(Tasks) /\ Tasks = 0..(Cardinality(Tasks) - 1) /\ Tasks # {}

\* A column, and a version of a table.
IsColumn(c) ==
    /\ c = [name |-> c.name, id |-> c.id, phys |-> c.phys, null |-> c.null, type |-> c.type,
            gen |-> c.gen, hwm |-> c.hwm, explicit |-> c.explicit, birth |-> c.birth]
    /\ c.hwm \in Nat \cup {NotIdentity}

IsVersion(v) ==
    v = [reader |-> v.reader, writer |-> v.writer, rf |-> v.rf, wf |-> v.wf, cols |-> v.cols,
         parts |-> v.parts, clus |-> v.clus, cons |-> v.cons, stats |-> v.stats, cfg |-> v.cfg,
         mode |-> v.mode, maxId |-> v.maxId, files |-> v.files]

\* The columns of a version 0: names and Parquet names tell them apart, and one of them
\* at most is numbered by the table (with several, each would be numbered so).
FirstColumns(cols) ==
    /\ cols \in Seq({cols[i] : i \in DOMAIN cols})
    /\ \A i \in DOMAIN cols : IsColumn(cols[i]) /\ cols[i].phys = <<cols[i].phys[1], 0>>
    /\ \A i, j \in DOMAIN cols : i # j =>
          /\ cols[i].name # cols[j].name /\ cols[i].phys # cols[j].phys
          /\ cols[i].hwm = NotIdentity \/ cols[j].hwm = NotIdentity

-----------------------------------------------------------------------------
(* The schema and what refers to it.                                        *)

names(v) == {v.cols[i].name : i \in DOMAIN v.cols}
Column(v, n) == v.cols[CHOOSE i \in DOMAIN v.cols : v.cols[i].name = n]
WithColumn(v, n, c) == [v EXCEPT !.cols = [i \in DOMAIN @ |-> IF @[i].name = n THEN c ELSE @[i]]]
MappedColumns(v) == v.mode \in {"name", "id"}

\* What names the column in an expression or a property.
dependents(v, n) ==
    (v.cons \cap {n}) \cup (v.stats \cap {n})
        \cup {c.name : c \in {v.cols[i] : i \in {j \in DOMAIN v.cols : v.cols[j].gen = n}}}
ExpressionsOn(v, n) == dependents(v, n) \ (v.stats \ v.cons)

type_features(t) == IF t = "ntz" THEN {"timestampNtz"} ELSE {}
column_features(c) ==
    (IF c.gen # "none" THEN {"generatedColumns"} ELSE {})
        \cup (IF c.hwm # NotIdentity THEN {"identityColumns"} ELSE {})

max_column_id(v) == Max({v.maxId} \cup {v.cols[i].id : i \in DOMAIN v.cols})

\* assign_ids: the next id and a Parquet name nobody has had.
NewColumn(v, n, t, at) ==
    [name |-> n, null |-> TRUE, type |-> t, gen |-> "none", hwm |-> NotIdentity,
     explicit |-> FALSE, birth |-> at,
     id |-> IF MappedColumns(v) THEN max_column_id(v) + 1 ELSE 0,
     phys |-> IF MappedColumns(v) THEN <<"col", at>> ELSE <<n, 0>>]

widening_allowed(old, new) == <<old, new>> \in {<<"int", "long">>, <<"date", "ntz">>}

\* What a row of file f holds in column c.
Value(f, c) ==
    IF \E k \in f : k.phys = c.phys THEN (CHOOSE k \in f : k.phys = c.phys).val ELSE "null"

clustering_columns(v) == UNION v.clus
has_stats(stats, n) == stats = {} \/ n \in stats
\* check_clustering_stats: the clustering columns keep their statistics.
ClusteringKeepsStats(v, stats) ==
    \A i \in DOMAIN v.cols : v.cols[i].phys \in clustering_columns(v) => has_stats(stats, v.cols[i].name)

-----------------------------------------------------------------------------
(* The changes: whether one is refused, and the version it leads to. A call *)
(* is a record with a kind and its arguments.                               *)

add_columns_allowed(v, o) ==
    /\ o.name \notin names(v)
    /\ ~("changeDataFeed" \in v.cfg /\ o.name = Reserved)
add_columns_reused(v, o, at) ==
    with_features([v EXCEPT !.cols = Append(@, [NewColumn(v, o.name, o.type, at) EXCEPT
                                                    !.id = Len(v.cols) + 1,
                                                    !.phys = <<o.name, 0>>])],
                  type_features(o.type))
add_columns(v, o, at) ==
    LET c == NewColumn(v, o.name, o.type, at) IN
    with_features([v EXCEPT !.cols = Append(@, c), !.maxId = IF MappedColumns(v) THEN c.id ELSE @],
                  type_features(o.type))

require_column_mapping(v) ==
    v.mode # "none" /\ "columnMapping" \in effective_writer_features(v)

drop_column_allowed(v, o) ==
    LET others == names(v) \ {o.name} IN
    /\ require_column_mapping(v) /\ o.name \in names(v) \ v.parts
    /\ others # {} /\ ~(others \subseteq v.parts)
    /\ Column(v, o.name).phys \notin clustering_columns(v)
    /\ dependents(v, o.name) = {}
drop_column(v, o) ==
    LET index == CHOOSE i \in DOMAIN v.cols : v.cols[i].name = o.name
    IN  [v EXCEPT !.cols = [i \in 1..(Len(@) - 1) |-> @[IF i < index THEN i ELSE i + 1]]]

rename_column_allowed_any(v, o) ==
    require_column_mapping(v) /\ o.name \in names(v) /\ o.to \notin names(v)
rename_column_allowed(v, o) ==
    /\ require_column_mapping(v) /\ o.name \in names(v) /\ o.to \notin names(v)
    /\ ~("changeDataFeed" \in v.cfg /\ o.to = Reserved)
    /\ dependents(v, o.name) = {}
rename_column(v, o) ==
    [WithColumn(v, o.name, [Column(v, o.name) EXCEPT !.name = o.to]) EXCEPT
        !.parts = {IF p = o.name THEN o.to ELSE p : p \in @}]

\* set_not_null reads every row of the version first; drop_not_null reads none.
set_nullability_allowed(v, o) ==
    /\ o.name \in names(v)
    /\ ~o.null => \A f \in v.files : Value(f, Column(v, o.name)) # "null"
set_nullability(v, o) == WithColumn(v, o.name, [Column(v, o.name) EXCEPT !.null = o.null])

alter_column_type_allowed(v, o) ==
    /\ o.name \in names(v) /\ "typeWidening" \in v.cfg
    /\ widening_allowed(Column(v, o.name).type, o.type)
    /\ ~(o.name \in v.parts /\ Column(v, o.name).type = "date")
    /\ ExpressionsOn(v, o.name) = {}
alter_column_type(v, o) ==
    with_features(WithColumn(v, o.name, [Column(v, o.name) EXCEPT !.type = o.type]),
                  {"typeWidening"} \cup type_features(o.type))

\* KernelEngine.add_constraint evaluates it over every row of the version first.
add_constraints_allowed(v, o) ==
    /\ o.name \in names(v) \ v.cons
    /\ \A f \in v.files : Value(f, Column(v, o.name)) # "bad"
add_constraints(v, o) ==
    LET with == [v EXCEPT !.cons = @ \cup {o.name}] IN
    CASE v.writer >= 7 -> with_features(with, {"checkConstraints"})
      [] v.writer < 3 -> [with EXCEPT !.writer = 3]
      [] OTHER -> with

drop_constraint_allowed(v, o) == o.name \in v.cons
drop_constraint(v, o) == [v EXCEPT !.cons = @ \ {o.name}]

\* cluster_by; the same keys again, or none on a table that has none, change nothing.
cluster_by_allowed(v, o) ==
    /\ v.parts = {} /\ o.keys \subseteq names(v)
    /\ \A n \in o.keys : has_stats(v.stats, n)
PhysicalKeys(v, o) == {Column(v, n).phys : n \in o.keys}
cluster_by(v, o) ==
    IF (v.clus = {} /\ o.keys = {}) \/ v.clus = {PhysicalKeys(v, o)} THEN v
    ELSE with_features([v EXCEPT !.clus = {PhysicalKeys(v, o)}], {"clustering", "domainMetadata"})

\* _ENABLING and checkpointPolicy: the features of properties that are turned on.
Enabling == {"appendOnly", "changeDataFeed", "deletionVectors", "typeWidening", "inCommitTimestamp",
             "v2Checkpoint"}

\* enable_column_mapping: only from none to name, the Parquet names become the physical names.
enable_column_mapping(v) ==
    IF v.mode = "name" THEN v
    ELSE with_features([v EXCEPT !.mode = "name", !.maxId = Len(v.cols),
                                 !.cols = [i \in DOMAIN @ |-> [@[i] EXCEPT !.id = i]]],
                       {"columnMapping"})

set_properties_allowed(v, o) ==
    /\ o.on \subseteq Enabling \cup {"columnMapping"} /\ o.stats \subseteq names(v)
    /\ "columnMapping" \in o.on => v.mode # "id"
    /\ "changeDataFeed" \in o.on => Reserved \notin names(v)
    /\ ClusteringKeepsStats(v, IF o.stats = {} THEN v.stats ELSE o.stats)
set_properties(v, o) ==
    LET mapped == IF "columnMapping" \in o.on THEN enable_column_mapping(v) ELSE v IN
    with_features([mapped EXCEPT !.cfg = @ \cup (o.on \ {"columnMapping"}),
                                 !.stats = IF o.stats = {} THEN @ ELSE o.stats],
                  o.on \cap Enabling)

\* A feature the protocol has changes nothing.
add_feature_allowed(v, o) == o.feature \in ADDABLE_FEATURES \cup effective_writer_features(v)
add_feature(v, o) == with_features(v, {o.feature})

\* unset_properties refuses what the protocol or the files need.
unset_properties_allowed(v, o) ==
    /\ "columnMapping" \notin o.off
    /\ ClusteringKeepsStats(v, IF "stats" \in o.off THEN {} ELSE v.stats)
unset_properties(v, o) ==
    [v EXCEPT !.cfg = @ \ o.off, !.stats = IF "stats" \in o.off THEN {} ELSE @]

\* values.reserve_identity: the mark moves past the values reserved.
IdentityColumn(v) == {i \in DOMAIN v.cols : v.cols[i].hwm # NotIdentity}
reserve_identity(v, count) ==
    [v EXCEPT !.cols = [i \in DOMAIN @ |->
        IF i \in IdentityColumn(v) THEN [v.cols[i] EXCEPT !.hwm = @ + count] ELSE @[i]]]
FirstFree(v) == v.cols[CHOOSE i \in IdentityColumn(v) : TRUE].hwm + 1

\* _restored_protocol_check and _restored_metadata: what a RESTORE cannot put back.
restore_allowed(v, past) ==
    /\ past.rf \cup past.wf \subseteq v.rf \cup v.wf
    /\ past.reader <= v.reader /\ past.writer <= v.writer
    /\ past.parts = v.parts /\ past.mode = v.mode
    /\ past.cols # v.cols => IdentityColumn(v) \cup IdentityColumn(past) = {}
\* The protocol, the column ids handed out and _RESTORE_KEEPS stay as they are.
restored(v, past) ==
    [past EXCEPT !.reader = v.reader, !.writer = v.writer, !.rf = v.rf, !.wf = v.wf,
                 !.maxId = v.maxId,
                 !.cfg = (@ \ {"inCommitTimestamp"}) \cup (v.cfg \cap {"inCommitTimestamp"})]

-----------------------------------------------------------------------------
(* Appends: KernelEngine.append, metadata.merge_schema and the ValueWriter. *)

BatchNames(o) == {f.name : f \in o.batch}
BatchValue(o, n) == IF n \in BatchNames(o) THEN (CHOOSE f \in o.batch : f.name = n).val ELSE "null"

\* The fields of the batch that are wider than their columns.
Widened(v, o) ==
    {f \in o.batch : f.name \in names(v) /\ widening_allowed(Column(v, f.name).type, f.type)}

merge_schema_allowed(v, o) ==
    /\ \A f \in Widened(v, o) : /\ "typeWidening" \in v.cfg /\ f.name \notin v.parts
                                /\ ExpressionsOn(v, f.name) = {}
    /\ "changeDataFeed" \in v.cfg => Reserved \notin BatchNames(o) \ names(v)
merge_schema(v, o, at) ==
    LET wide == [v EXCEPT !.cols = [i \in DOMAIN @ |->
                    IF \E f \in Widened(v, o) : f.name = @[i].name
                    THEN [@[i] EXCEPT !.type = (CHOOSE f \in o.batch : f.name = v.cols[i].name).type]
                    ELSE @[i]]]
        new == {f \in o.batch : f.name \notin names(v)}
        wanted == (IF Widened(v, o) = {} THEN {} ELSE {"typeWidening"})
                      \cup UNION {type_features(f.type) : f \in Widened(v, o)}
        evolved == with_features(wide, wanted)
    IN  IF new = {} THEN evolved ELSE add_columns(evolved, CHOOSE f \in new : TRUE, at)

\* The identity columns the data leaves out, which the append numbers.
generates_identity(v, o) == {i \in IdentityColumn(v) : v.cols[i].name \notin BatchNames(o)}

\* ValueWriter.shape: identity columns the data leaves out numbered, generated columns computed,
\* the rest as given.
Written(v, o, c) ==
    IF c.hwm # NotIdentity /\ c.name \notin BatchNames(o) THEN "good"
    ELSE BatchValue(o, IF c.gen # "none" THEN c.gen ELSE c.name)
NewFile(v, o) ==
    {[phys |-> c.phys, birth |-> c.birth, type |-> c.type, val |-> Written(v, o, c)] :
        c \in {v.cols[i] : i \in DOMAIN v.cols}}

\* ConstraintCheck: a row passes where the expression is true or null.
ConstraintsHold(v, o) ==
    \A i \in DOMAIN v.cols : v.cols[i].name \in v.cons => Written(v, o, v.cols[i]) # "bad"

\* The checks of the rows on the version they are committed on: NOT NULL, the constraints, no
\* value given for a GENERATED ALWAYS AS IDENTITY column, and the computed one given for a
\* generated column.
ValuesAllowed(v, o) ==
    /\ ConstraintsHold(v, o)
    /\ \A i \in DOMAIN v.cols :
          LET c == v.cols[i] IN
          /\ ~c.null => Written(v, o, c) # "null"
          /\ c.name \in BatchNames(o) =>
                /\ c.hwm = NotIdentity \/ c.explicit
                /\ c.gen # "none" => BatchValue(o, c.name) = Written(v, o, c)

append_allowed(v, o) ==
    /\ ValuesAllowed(v, o)
    /\ IF o.merge THEN generates_identity(v, o) = {} /\ merge_schema_allowed(v, o)
       ELSE BatchNames(o) \subseteq names(v) /\ Widened(v, o) = {}
append(v, o, at) ==
    LET evolved == IF o.merge THEN merge_schema(v, o, at) ELSE v
        numbered == IF generates_identity(v, o) = {} THEN evolved ELSE reserve_identity(evolved, 1)
    IN  [numbered EXCEPT !.files = @ \cup {NewFile(numbered, o)}]

-----------------------------------------------------------------------------
(* create, and the commit of a change.                                      *)

\* initial_actions: version 0 of a table created with the columns and properties of d. A new
\* table always lists its features.
initial_actions(d) ==
    LET mapped == "columnMapping" \in d.on
        types == UNION {type_features(d.cols[i].type) \cup column_features(d.cols[i]) :
                            i \in DOMAIN d.cols}
        empty == [reader |-> 1, writer |-> 1, rf |-> {}, wf |-> {}, parts |-> d.parts, cons |-> {},
                  stats |-> {}, cfg |-> d.on \ {"columnMapping"}, clus |-> {}, files |-> {},
                  mode |-> IF mapped THEN "name" ELSE "none",
                  maxId |-> IF mapped THEN Len(d.cols) ELSE 0,
                  cols |-> [i \in DOMAIN d.cols |->
                              IF mapped THEN [d.cols[i] EXCEPT !.id = i] ELSE d.cols[i]]]
        p == with_features(empty, (d.on \cap (Enabling \cup {"columnMapping"})) \cup types
                                  \cup (IF d.keys = {} THEN {} ELSE {"clustering", "domainMetadata"}))
    IN  [p EXCEPT !.reader = 3, !.writer = 7, !.rf = p.wf \cap ReaderWriterFeature,
                  !.clus = IF d.keys = {} THEN {} ELSE {PhysicalKeys(empty, d)}]

\* What a version says of its columns names columns it has: partition columns, clustering
\* columns, constraints, statistics and generation expressions; and the change data feed's own
\* names are free.
Resolves(v) ==
    /\ v.parts \cup v.cons \cup v.stats \subseteq names(v)
    /\ \A i \in DOMAIN v.cols : v.cols[i].gen \in names(v) \cup {"none"}
    /\ clustering_columns(v) \subseteq {v.cols[i].phys : i \in DOMAIN v.cols}
    /\ ClusteringKeepsStats(v, v.stats)
    /\ "changeDataFeed" \in v.cfg => Reserved \notin names(v)

\* The features a version uses, and those of its writers that its readers must know too.
Required(v) ==
    v.cfg \cup (IF v.mode = "name" THEN {"columnMapping"} ELSE {})
        \cup (IF v.cons # {} THEN {"checkConstraints"} ELSE {})
        \cup (IF v.clus # {} THEN {"clustering", "domainMetadata"} ELSE {})
        \cup UNION {type_features(v.cols[i].type) \cup column_features(v.cols[i]) :
                       i \in DOMAIN v.cols}
Binding(v) == effective_writer_features(v) \cap ReaderWriterFeature

ASSUME TablesAssumption ==
    /\ \A d \in Created :
          /\ FirstColumns(d.cols) /\ \A i \in DOMAIN d.cols : d.cols[i].phys = <<d.cols[i].name, 0>>
          /\ d.on \subseteq Enabling \cup {"columnMapping"}
          /\ LET ns == {d.cols[i].name : i \in DOMAIN d.cols} IN
             /\ d.parts \cup d.keys \subseteq ns
             /\ \A i \in DOMAIN d.cols : d.cols[i].gen \in ns \cup {"none"}
             /\ "changeDataFeed" \in d.on => Reserved \notin ns
    /\ \A v \in Foreign :
          /\ IsVersion(v) /\ FirstColumns(v.cols) /\ v.mode \in {"none", "name", "id"}
          /\ v.mode = "none" => \A i \in DOMAIN v.cols : v.cols[i].phys = <<v.cols[i].name, 0>>
          /\ v.mode = "name" =>
                /\ v.maxId \in Nat /\ \A i \in DOMAIN v.cols : v.cols[i].id \in 0..v.maxId
                /\ \A i, j \in DOMAIN v.cols : i # j => v.cols[i].id # v.cols[j].id
          /\ v.reader \in Nat /\ v.writer \in Nat
          /\ Resolves(v) /\ Required(v) \subseteq effective_writer_features(v)
          /\ v.writer \in {5, 6} \/ Binding(v) \subseteq effective_reader_features(v)
          /\ v.writer \in {5, 6} => Binding(v) \subseteq effective_reader_features(v) \cup {"columnMapping"}
          /\ \A f \in v.files : \A i \in DOMAIN v.cols :
                /\ ~v.cols[i].null => Value(f, v.cols[i]) # "null"
                /\ v.cols[i].name \in v.cons => Value(f, v.cols[i]) # "bad"
          /\ \A f \in v.files : \A k \in f : \E i \in DOMAIN v.cols :
                k.phys = v.cols[i].phys /\ k.birth = v.cols[i].birth /\ k.type = v.cols[i].type

ASSUME CallsAssumption ==
    \A o \in Ops :
        /\ o.kind \in {"add_column", "drop_column", "rename_column", "set_nullability",
                       "alter_column_type", "add_constraint", "drop_constraint", "cluster_by",
                       "set_properties", "add_feature", "unset_properties", "reserve", "append",
                       "restore"}
        /\ o.kind = "reserve" => o.count \in Nat
        /\ o.kind = "restore" => o.target \in Nat
        /\ o.kind = "append" => \A f, g \in o.batch : f.name = g.name => f = g

Latest == log[Len(log)]

\* Whether the change o is refused on the version v.
Allowed(v, o) ==
    CASE o.kind = "add_column" -> add_columns_allowed(v, o)
      [] o.kind = "drop_column" -> drop_column_allowed(v, o)
      [] o.kind = "rename_column" -> rename_column_allowed(v, o)
      [] o.kind = "set_nullability" -> set_nullability_allowed(v, o)
      [] o.kind = "alter_column_type" -> alter_column_type_allowed(v, o)
      [] o.kind = "add_constraint" -> add_constraints_allowed(v, o)
      [] o.kind = "drop_constraint" -> drop_constraint_allowed(v, o)
      [] o.kind = "cluster_by" -> cluster_by_allowed(v, o)
      [] o.kind = "set_properties" -> set_properties_allowed(v, o)
      [] o.kind = "add_feature" -> add_feature_allowed(v, o)
      [] o.kind = "unset_properties" -> unset_properties_allowed(v, o)
      [] o.kind = "reserve" -> IdentityColumn(v) # {}
      [] o.kind = "append" -> append_allowed(v, o)
      [] o.kind = "restore" -> o.target < Len(log) - 1 /\ restore_allowed(v, log[o.target + 1])

\* The version it leads to; at is the version it would be.
Mutate(v, o, at) ==
    CASE o.kind = "add_column" -> add_columns(v, o, at)
      [] o.kind = "drop_column" -> drop_column(v, o)
      [] o.kind = "rename_column" -> rename_column(v, o)
      [] o.kind = "set_nullability" -> set_nullability(v, o)
      [] o.kind = "alter_column_type" -> alter_column_type(v, o)
      [] o.kind = "add_constraint" -> add_constraints(v, o)
      [] o.kind = "drop_constraint" -> drop_constraint(v, o)
      [] o.kind = "cluster_by" -> cluster_by(v, o)
      [] o.kind = "set_properties" -> set_properties(v, o)
      [] o.kind = "add_feature" -> add_feature(v, o)
      [] o.kind = "unset_properties" -> unset_properties(v, o)
      [] o.kind = "reserve" -> reserve_identity(v, o.count)
      [] o.kind = "append" -> append(v, o, at)
      [] o.kind = "restore" -> restored(v, log[o.target + 1])

Init ==
    /\ \E v \in Foreign \cup {initial_actions(d) : d \in Created} : log = <<v>>
    /\ job = [c \in Clients |-> Idle] /\ plan = [c \in Clients |-> NoPlan] /\ rows = {}

\* A call reads the latest version, runs its precheck and computes its change; a change that
\* changes nothing commits nothing.
Begin(c, o) ==
    /\ job[c] = Idle /\ Len(log) <= MaxVersion
    /\ Allowed(Latest, o)
    /\ o.kind \in {"append", "restore", "reserve"} \/ Mutate(Latest, o, Len(log)) # Latest
    /\ o.kind = "reserve" => plan[c] = NoPlan
    /\ job' = [job EXCEPT ![c] = [op |-> o, base |-> Len(log), left |-> MaxAttempts - 1]]
    /\ UNCHANGED <<log, plan, rows>>

\* commit_raw puts the next version unless it exists. The answer may be lost, and then the
\* caller raises and hands out nothing.
Commit(c) ==
    LET o == job[c].op
        base == log[job[c].base]
    IN  /\ job[c] # Idle /\ Len(log) = job[c].base
        /\ log' = Append(log, Mutate(base, o, Len(log)))
        /\ job' = [job EXCEPT ![c] = Idle]
        /\ rows' = IF o.kind = "append" /\ generates_identity(base, o) # {}
                   THEN rows \cup {<<FirstFree(base), Len(log), 0, 0>>} ELSE rows
        /\ \/ /\ o.kind = "reserve"
              /\ plan' = [plan EXCEPT ![c] = Block(Len(log), FirstFree(base), o.count)]
           \/ UNCHANGED plan

\* A lost race: everything is computed again on the version the winner left, prechecks included.
RetryAsComputed(c) ==
    /\ job[c] # Idle /\ Len(log) > job[c].base /\ job[c].left > 0 /\ Len(log) <= MaxVersion
    /\ job' = [job EXCEPT ![c] = [@ EXCEPT !.base = Len(log), !.left = @ - 1]]
    /\ UNCHANGED <<log, plan, rows>>
Retry(c) ==
    /\ job[c] # Idle /\ Len(log) > job[c].base /\ Len(log) <= MaxVersion
    /\ job' = [job EXCEPT ![c] =
                  IF @.left > 0 /\ Allowed(Latest, @.op)
                  THEN [@ EXCEPT !.base = Len(log), !.left = job[c].left - 1] ELSE Idle]
    /\ UNCHANGED <<log, plan, rows>>

-----------------------------------------------------------------------------
(* Identity values of a distributed write: values.py, distributed.py.       *)

\* IdentityBlock.slot: the part of the block that task t numbers its rows from.
slot_whole(p, t) == [first |-> p.first, size |-> p.count]
slot(p, t) ==
    LET size == p.count \div Cardinality(Tasks) IN [first |-> p.first + t * size, size |-> size]

\* One write of a task: IdentityCursor.take, refused when the slot has run out.
TaskWrite(c, t) ==
    LET p == plan[c]
        s == slot(p, t)
    IN  /\ p.at > 0 /\ p.writes[t] < MaxWrites /\ p.used[t] < s.size
        /\ plan' = [plan EXCEPT ![c].used[t] = @ + 1, ![c].writes[t] = @ + 1,
                                ![c].kept[t] = @ \cup {<<s.first + p.used[t], p.at, t + 1,
                                                         p.writes[t]>>}]
        /\ UNCHANGED <<log, job, rows>>

\* The task is run again by another process, whose cursors start anew; what the first attempt
\* wrote is not given to the driver.
TaskRestart(c, t) ==
    /\ plan[c].kept[t] # {} /\ plan[c].writes[t] < MaxWrites
    /\ plan' = [plan EXCEPT ![c].used[t] = 0, ![c].kept[t] = {}]
    /\ UNCHANGED <<log, job, rows>>

\* The driver commits the fragments (DistributedWrite), or gives them up.
PlanEnds(c) ==
    /\ plan[c].at > 0
    /\ rows' \in {rows, rows \cup UNION {plan[c].kept[t] : t \in Tasks}}
    /\ plan' = [plan EXCEPT ![c] = NoPlan]
    /\ UNCHANGED <<log, job>>

Next ==
    \E c \in Clients :
        \/ \E o \in Ops : Begin(c, o)
        \/ Commit(c)
        \/ Retry(c)
        \/ \E t \in Tasks : TaskWrite(c, t) \/ TaskRestart(c, t)
        \/ PlanEnds(c)

Spec == Init /\ [][Next]_vars

-----------------------------------------------------------------------------
(* Properties.                                                              *)

Versions == {log[i] : i \in DOMAIN log}
Columns(v) == {v.cols[i] : i \in DOMAIN v.cols}

\* A column never reads what was written for another: whatever was added, dropped, renamed,
\* widened and restored, a chunk found under a column's Parquet name was written for that column,
\* in a type it has been widened from; and in all versions of a mapped table an id means one column.
ReadsOwnColumn ==
    /\ \A v \in Versions : \A f \in v.files : \A k \in f : \A c \in Columns(v) :
          k.phys = c.phys => /\ k.birth = c.birth
                             /\ k.type = c.type \/ widening_allowed(k.type, c.type)
    /\ \A v, w \in Versions : \A c \in Columns(v), d \in Columns(w) :
          v.mode = "name" /\ w.mode = "name" /\ c.id = d.id => c.birth = d.birth

\* What a version says of its columns names columns it has.
ReferencesResolve == \A v \in Versions : Resolves(v)

\* Every live row satisfies every constraint and NOT NULL of its version, although a constraint
\* is checked against the rows, and rows against the constraints, before either is committed.
RowsSatisfy ==
    \A v \in Versions : \A f \in v.files : \A c \in Columns(v) :
        /\ ~c.null => Value(f, c) # "null"
        /\ c.name \in v.cons => Value(f, c) # "bad"

\* No value is generated twice for the table's identity column: by appends that raced, by tasks
\* that ran again, by drivers that reserved one after the other. A value the data gives for a
\* GENERATED BY DEFAULT column is the caller's own, and moves no mark.
IdentityUnique == \A r, s \in rows : r[1] = s[1] => r = s

\* A property, type, column or clustering that needs a feature is never in a version whose
\* protocol does not list it, so that no older client ignores it. Column mapping turned on where
\* version 0 was of reader 1 and writer 5 or 6 is left out: with_features keeps that reader version.
EnabledIsListed ==
    \A v \in Versions :
        /\ Required(v) \subseteq effective_writer_features(v)
        /\ Binding(v) \subseteq effective_reader_features(v)
                         \cup (IF log[1].writer \in {5, 6} THEN {"columnMapping"} ELSE {})

\* What a version says of itself can be relied on by whoever reads it (metadata.py).
MetadataSound == ReferencesResolve /\ EnabledIsListed
==============================================================================
