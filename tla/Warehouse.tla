------------------------------- MODULE Warehouse -------------------------------
(***************************************************************************)
(* Calls served by a SQL warehouse (engine/sql.py, engine/sql_backend.py).  *)
(* A call is a short program: statements that look something up, an upload  *)
(* of its data to the staging volume, the statement that does it, and the   *)
(* removal of the upload. SdkStatementBackend submits a statement, polls it *)
(* until it ends or the deadline passes, cancels what it stops watching and *)
(* downloads the result chunk by chunk over links that expire.              *)
(*                                                                         *)
(* The warehouse and the volume are external. A row is a record of its key  *)
(* k, its partition p and its value v, a pair of a representation and a     *)
(* number; a statement is what its text says: kind, the representation its  *)
(* SELECT list gives the staged values, the partitions of its REPLACE WHERE *)
(* and its WHEN clauses.                                                    *)
(***************************************************************************)
EXTENDS Naturals, Sequences, FiniteSets, SequencesExt

CONSTANTS
    Callers,    \* threads that share one SqlEngine
    Calls,      \* the calls they may make
    Tables,     \* the tables there may be: [rows, holds], holds the value column's type
    MaxDynamicPartitions, \* max_dynamic_partitions
    MaxFaults   \* bound: pointers, links and requests of the warehouse API that go wrong, and
                \* results it closes

VARIABLES
    table,      \* the table in the warehouse
    stmts,      \* the statements submitted, by id
    volume,     \* the callers with a file in the staging volume
    workspace,  \* whether it has a warehouse that is not being deleted: "none" or "some"
    engine,     \* SqlEngine: the warehouse in use, "auto" or "given" before its first use,
                \* "refused" once there is a reason to use none
    job,        \* what each caller is doing
    faults      \* how much has gone wrong

vars == <<table, stmts, volume, workspace, engine, job, faults>>

NoCall == [kind |-> "none"]
Idle == [call |-> NoCall, todo |-> <<>>, at |-> "step", sid |-> 0, main |-> 0, seen |-> "PENDING",
         next |-> 0, got |-> <<>>, err |-> "none", out |-> "none", undeleted |-> FALSE]
TERMINAL == {"SUCCEEDED", "FAILED", "CANCELED", "CLOSED"}
EndOfResult == 99

-----------------------------------------------------------------------------
(* What the engine makes of a call.                                         *)

\* What the staged file can hold of a value: a duration its microseconds, a value bound for a
\* VARIANT column its JSON text, a geometry its EWKT, as reads give it.
DurationStaged(v) == IF v[1] = "duration" THEN <<"micros", v[2]>> ELSE v
VariantStaged(holds, v) == IF holds = "variant" /\ v[1] = "variant" THEN <<"text", v[2]>> ELSE v
GeoStaged(v) == IF v[1] = "geo" THEN <<"ewkt", v[2]>> ELSE v
StagedAs(holds, v) == DurationStaged(VariantStaged(holds, GeoStaged(v)))

\* _staged_select: what the SELECT list does to a staged value bound for a column whose type
\* holds, by DESCRIBE, a VARIANT or a geometry.
GeoSelected(holds, v) == IF holds = "geo" THEN "st_geomfromtext" ELSE "none"
VariantSelected(holds, v) == IF holds = "variant" /\ v[1] = "text" THEN "parse_json" ELSE "none"
SelectPlain(holds, v) == "none"
Select(holds, v) ==
    CASE holds = "geo" -> GeoSelected(holds, v)
      [] holds # "geo" /\ v[1] = "micros" -> "interval"
      [] OTHER -> VariantSelected(holds, v)

\* _parquet_bytes, _stageable: the data is refused before anything is uploaded.
Unstageable(o) == \E r \in o.data : r.v[1] = "time"

\* _dynamic_predicate: one term for each partition of the data; the empty string is stored as null.
DynamicPredicate(o) == {IF r.p = "empty" THEN "null" ELSE r.p : r \in o.data}

\* SqlMerger.statement: the clauses by kind, those of a kind in the order they were added.
ClauseKinds == <<"matched", "not_matched", "by_source">>
Ordered(clauses) ==
    LET Of(k) == SelectSeq(clauses, LAMBDA c : c.on = k)
    IN  FoldLeft(LAMBDA acc, k : acc \o Of(k), <<>>, ClauseKinds)

\* Whether the arguments are refused before any statement: they have no SQL equivalent or
\* contradict one another.
Refused(o) ==
    \/ "contradicts" \in DOMAIN o
    \/ o.kind = "overwrite" /\ o.mode = "dynamic" /\ o.where # {}
    \/ o.kind = "merge" /\ o.clauses = <<>>

WritesData == {"append", "overwrite", "merge"}
\* One statement each, whose answer is read:
Reads == {"scan", "history", "detail", "describe_extended", "cdf"}
Changes == {"delete", "update"}
Maintains == {"optimize", "zorder", "vacuum", "restore", "repair", "clone"}
\* and one statement each without an answer:
Commands == {"reorg", "analyze", "sync_iceberg_metadata", "refresh", "create_managed",
             "create_table_as"}
Alters == {"add_columns", "drop_column", "rename_column", "set_properties", "unset_properties",
           "add_feature", "drop_feature", "add_constraint", "drop_constraint", "set_comment",
           "set_column_comment", "alter_column_type", "set_not_null", "drop_not_null", "cluster_by"}
Governs == {"undrop", "set_row_filter", "drop_row_filter", "set_column_mask", "drop_column_mask",
            "set_tags", "unset_tags", "set_owner", "grant", "revoke"}
ASSUME CallsAssumption ==
    \A o \in Calls : o.kind \in WritesData \cup Reads \cup Changes \cup Maintains \cup Commands
                                  \cup Alters \cup Governs
\* The data of a call is rows whose value is a pair; no column has the type of a staged duration.
ASSUME DataAssumption ==
    \A o \in Calls :
        /\ o.kind \in WritesData => "data" \in DOMAIN o
        /\ "data" \in DOMAIN o =>
              \A r \in o.data : DOMAIN r = {"k", "p", "v"} /\ r.v = <<r.v[1], r.v[2]>>
ASSUME TablesAssumption ==
    \A t \in Tables : DOMAIN t = {"rows", "holds"} /\ t.holds # "micros"
\* DELETE, UPDATE and MERGE report the rows they touched.
Fetches(o) == o.kind \in Reads \cup Changes \cup Maintains \cup {"merge"}

\* The steps of a call. _variant_columns asks DESCRIBE only of a table with the feature.
Describe(holds) == IF holds \in {"variant", "geo"} THEN <<"lookup">> ELSE <<>>
Steps(o, holds) ==
    CASE o.kind = "append" -> Describe(holds) \o <<"stage", "main", "unstage">>
      [] o.kind = "overwrite" ->
            Describe(holds) \o (IF o.mode = "static" /\ o.where = {} THEN <<"stage", "main", "unstage">>
                                ELSE <<"stage", "predicate", "lookup", "main", "unstage">>)
      [] o.kind = "merge" -> Describe(holds) \o <<"lookup", "stage", "main", "unstage">>
      [] OTHER -> <<"main">>

\* The statement of a step.
Statement(c) ==
    LET o == job[c].call
        lookup == [kind |-> "lookup", by |-> c, o |-> o, where |-> {}, clauses |-> <<>>]
    IN  IF Head(job[c].todo) = "lookup" THEN lookup
        ELSE CASE o.kind = "overwrite" /\ (o.mode = "dynamic" \/ o.where # {}) ->
                    [lookup EXCEPT !.kind = "replace_where",
                                   !.where = IF o.where = {} THEN DynamicPredicate(o) ELSE o.where]
               [] o.kind = "merge" -> [lookup EXCEPT !.kind = "merge", !.clauses = Ordered(o.clauses)]
               [] OTHER -> [lookup EXCEPT !.kind = o.kind]

-----------------------------------------------------------------------------
(* External: what the warehouse does.                                       *)

Fault == faults < MaxFaults /\ faults' = faults + 1

\* A value of the staged file as the column stores it: text put into a VARIANT is a string, a
\* number put into an interval counts seconds.
Stored(holds, v, f) ==
    CASE f = "interval" -> <<"duration", v[2]>>
      [] f = "parse_json" -> <<"variant", v[2]>>
      [] f = "st_geomfromtext" -> <<"geo", v[2]>>
      [] f = "none" /\ v[1] = "text" /\ holds = "variant" -> <<"variant string", v[2]>>
      [] f = "none" /\ v[1] = "micros" -> <<"duration", v[2] * 1000>>
      [] OTHER -> v
StoredRow(r, holds) ==
    LET v == StagedAs(holds, r.v)
    IN  [r EXCEPT !.p = IF @ = "empty" THEN "null" ELSE @, !.v = Stored(holds, v, Select(holds, v))]

\* The first clause of a kind whose condition holds of the row decides.
Decides(clauses, kind, r) == SelectSeq(clauses, LAMBDA c : c.on = kind /\ r.k \in c.if)
Verb(clauses, kind, r) ==
    LET d == Decides(clauses, kind, r) IN IF d = <<>> THEN "keep" ELSE Head(d).do
Merged(rows, data, clauses) ==
    LET Matches(r) == {s \in data : s.k = r.k}
        kept == {r \in rows : Verb(clauses, IF Matches(r) = {} THEN "by_source" ELSE "matched", r)
                                = "keep"}
        updated == UNION {Matches(r) : r \in {q \in rows : Verb(clauses, "matched", q) = "update"}}
        inserted == {s \in data : /\ \A r \in rows : r.k # s.k
                                  /\ Verb(clauses, "not_matched", s) = "insert"}
    IN  kept \cup updated \cup inserted

\* The rows after a statement, its data as it is stored.
Applied(st, rows, data) ==
    CASE st.kind = "append" -> rows \cup data
      [] st.kind = "overwrite" -> data
      [] st.kind = "replace_where" -> {r \in rows : r.p \notin st.where} \cup data
      [] st.kind = "merge" -> Merged(rows, data, st.clauses)
      [] st.kind = "delete" -> {r \in rows : r.k \notin st.o.keys}
      [] OTHER -> rows

Rank(kind) == CHOOSE i \in 1..3 : ClauseKinds[i] = kind
\* What the warehouse refuses: a file that is gone, clauses out of order, rows outside the
\* predicate they replace.
Executes(st, data) ==
    /\ st.kind \in WritesData \cup {"replace_where"} => st.by \in volume
    /\ st.kind = "replace_where" => \A r \in data : r.p \in st.where
    /\ st.kind = "merge" => \A i, j \in DOMAIN st.clauses : i < j =>
                                Rank(st.clauses[i].on) <= Rank(st.clauses[j].on)

\* A result has two chunks, of one row each. Its manifest may count the rows and number the
\* chunks, and say that the warehouse cut it short, which is refused whatever else it says.
Whole == {"counted", "numbered"}
Manifests(st) == IF st.kind = "scan" THEN SUBSET Whole \cup {{"truncated"}} ELSE {Whole}

\* A statement that runs ends: it takes effect in one transaction, or it fails.
RunStatement(s) ==
    LET st == stmts[s].st
        data == IF "data" \in DOMAIN st.o THEN {StoredRow(r, table.holds) : r \in st.o.data} ELSE {}
    IN  /\ stmts[s].state = "RUNNING"
        /\ \/ /\ Executes(st, data)
              /\ \E m \in Manifests(st) :
                    stmts' = [stmts EXCEPT ![s].state = "SUCCEEDED", ![s].before = table.rows,
                                           ![s].after = Applied(st, table.rows, data),
                                           ![s].manifest = m]
              /\ table' = [table EXCEPT !.rows = Applied(st, @, data)]
           \/ stmts' = [stmts EXCEPT ![s].state = "FAILED"] /\ UNCHANGED table
        /\ UNCHANGED <<volume, workspace, engine, job, faults>>

\* A cancellation that was asked for reaches the statement, if it has not ended.
CancelArrives(s) ==
    /\ stmts[s].state = "RUNNING" /\ stmts[s].cancel
    /\ stmts' = [stmts EXCEPT ![s].state = "CANCELED"]
    /\ UNCHANGED <<table, volume, workspace, engine, job, faults>>

\* The warehouse closes the result of a statement that succeeded, and gives its state as CLOSED.
CloseResult(s) ==
    /\ stmts[s].state = "SUCCEEDED" /\ ~stmts[s].closed
    /\ Fault
    /\ stmts' = [stmts EXCEPT ![s].closed = TRUE]
    /\ UNCHANGED <<table, volume, workspace, engine, job>>
Reported(st) == IF st.closed THEN "CLOSED" ELSE st.state

\* Warehouses come and go.
WorkspaceChanges ==
    /\ workspace = "none" /\ workspace' = "some"
    /\ UNCHANGED <<table, stmts, volume, engine, job, faults>>

-----------------------------------------------------------------------------
(* A call.                                                                  *)

\* The call ends with err, once its staged file is gone.
Failed(j, c, err) ==
    IF c \in volume THEN [j EXCEPT !.err = err, !.todo = <<"unstage">>, !.at = "step"]
    ELSE [j EXCEPT !.out = err, !.todo = <<>>, !.at = "step"]
\* The step is done.
Advanced(j) ==
    [j EXCEPT !.todo = Tail(@), !.at = "step", !.out = IF Len(j.todo) = 1 THEN "ok" ELSE @]

\* A call gives values of the column's type, or of one that no column here takes.
GivesType(o) == "data" \in DOMAIN o => \A r \in o.data : r.v[1] \in {table.holds, "time"}

Begin(c, o) ==
    /\ job[c] = Idle /\ GivesType(o)
    /\ job' = [job EXCEPT ![c] = IF Refused(o) THEN [@ EXCEPT !.call = o, !.out = "refused"]
                                 ELSE [@ EXCEPT !.call = o, !.todo = Steps(o, table.holds)]]
    /\ UNCHANGED <<table, stmts, volume, workspace, engine, faults>>

AtStep(c, steps) == job[c].at = "step" /\ job[c].todo # <<>> /\ Head(job[c].todo) \in steps

\* _statement_backend and _resolve_warehouse: one is chosen, or the one given is checked. A
\* listing that fails is asked for again, a check that fails lets the id through; a workspace
\* without a warehouse, and an id it does not have, are remembered.
Resolve(c) ==
    /\ AtStep(c, {"lookup", "main"}) /\ engine \in {"auto", "given"}
    /\ \/ /\ workspace # "none"
          /\ engine' = workspace /\ UNCHANGED <<job, faults>>
       \/ /\ workspace = "none"
          /\ engine' = "refused" /\ UNCHANGED <<job, faults>>
       \/ /\ Fault
          /\ \/ engine = "given" /\ engine' = "unchecked" /\ UNCHANGED job
             \/ engine = "auto" /\ job' = [job EXCEPT ![c] = Failed(@, c, "refused")] /\ UNCHANGED engine
    /\ UNCHANGED <<table, stmts, volume, workspace>>
NoWarehouse(c) ==
    /\ AtStep(c, {"lookup", "main"}) /\ engine = "refused"
    /\ job' = [job EXCEPT ![c] = Failed(@, c, "refused")]
    /\ UNCHANGED <<table, stmts, volume, workspace, engine, faults>>

\* execute_statement. The request may be refused, and its answer may be lost, with the id in it.
Submit(c) ==
    LET id == Len(stmts) + 1
        new == [st |-> Statement(c), state |-> "RUNNING", cancel |-> FALSE, closed |-> FALSE,
                manifest |-> Whole, before |-> {}, after |-> {}]
        main == IF Head(job[c].todo) = "main" THEN id ELSE 0
    IN  /\ AtStep(c, {"lookup", "main"}) /\ engine \in {"some", "unchecked"}
        /\ \/ /\ stmts' = Append(stmts, new)
              /\ job' = [job EXCEPT ![c] = [@ EXCEPT !.at = "waiting", !.sid = id, !.main = main,
                                                     !.seen = "PENDING"]]
              /\ UNCHANGED faults
           \/ /\ Fault /\ stmts' = Append(stmts, new)
              /\ job' = [job EXCEPT ![c] = Failed([@ EXCEPT !.main = main], c, "unknown")]
           \/ /\ Fault /\ UNCHANGED stmts
              /\ job' = [job EXCEPT ![c] = Failed(@, c, "refused")]
        /\ UNCHANGED <<table, volume, workspace, engine>>

\* _wait: one poll.
Poll(c) ==
    /\ job[c].at = "waiting" /\ job[c].seen \notin TERMINAL
    /\ Reported(stmts[job[c].sid]) # job[c].seen
    /\ job' = [job EXCEPT ![c].seen = Reported(stmts[job[c].sid])]
    /\ UNCHANGED <<table, stmts, volume, workspace, engine, faults>>

\* The state of the last poll is terminal. Any but SUCCEEDED is a statement that failed; the
\* error names the state.
EndedUnchecked(c) ==
    /\ job[c].at = "waiting" /\ job[c].seen \in TERMINAL
    /\ job' = [job EXCEPT ![c] =
                  IF Head(@.todo) = "main" /\ ~Fetches(@.call) THEN Advanced(@)
                  ELSE [@ EXCEPT !.at = "fetching", !.next = 0, !.got = <<>>]]
    /\ UNCHANGED <<table, stmts, volume, workspace, engine, faults>>
Ended(c) ==
    /\ job[c].at = "waiting" /\ job[c].seen \in TERMINAL
    /\ job' = [job EXCEPT ![c] =
                  IF @.seen # "SUCCEEDED"
                  THEN Failed(@, c, IF @.seen = "CLOSED" THEN "closed" ELSE "failed")
                  ELSE IF Head(@.todo) = "main" /\ ~Fetches(@.call) THEN Advanced(@)
                  ELSE IF "truncated" \in stmts[@.sid].manifest THEN Failed(@, c, "unread")
                  ELSE [@ EXCEPT !.at = "fetching", !.next = 0, !.got = <<>>]]
    /\ UNCHANGED <<table, stmts, volume, workspace, engine, faults>>

\* The deadline, an interrupt or a poll that failed: the statement is cancelled, best effort,
\* and the caller told so.
GiveUpSilently(c) ==
    /\ job[c].at = "waiting" /\ job[c].seen \notin TERMINAL
    /\ job' = [job EXCEPT ![c] = Failed(@, c, "cancelled")]
    /\ UNCHANGED <<table, stmts, volume, workspace, engine, faults>>
GiveUp(c) ==
    /\ job[c].at = "waiting" /\ job[c].seen \notin TERMINAL
    /\ \E err \in {"cancelled", "unknown"} : job' = [job EXCEPT ![c] = Failed(@, c, err)]
    /\ stmts' = [stmts EXCEPT ![job[c].sid].cancel = TRUE]
    /\ UNCHANGED <<table, volume, workspace, engine, faults>>

\* _arrow: the next chunk. The pointer to the chunk after it may be wrong; a chunk that has a
\* number is refused when it comes again.
Fetch(c) ==
    LET j == job[c]
        right == IF j.next = 1 THEN EndOfResult ELSE j.next + 1
        seen == ToSet(j.got)
    IN  /\ j.at = "fetching" /\ j.next \in {0, 1}
        /\ IF "numbered" \in stmts[j.sid].manifest /\ j.next \in seen
           THEN job' = [job EXCEPT ![c] = Failed(@, c, "unread")] /\ UNCHANGED faults
           ELSE \/ /\ job' = [job EXCEPT ![c] = [@ EXCEPT !.got = Append(j.got, j.next), !.next = right]]
                   /\ UNCHANGED faults
                \/ /\ Fault
                   /\ \E wrong \in {0, 1, EndOfResult} \ {right} :
                         job' = [job EXCEPT ![c] = [@ EXCEPT !.got = Append(j.got, j.next), !.next = wrong]]
        /\ UNCHANGED <<table, stmts, volume, workspace, engine>>

\* _download_fresh: a link that has expired is asked for again, once; the new one fails too, as
\* it does once the result is closed.
DownloadFails(c) ==
    /\ job[c].at = "fetching" /\ job[c].next # EndOfResult
    /\ Fault \/ (stmts[job[c].sid].closed /\ UNCHANGED faults)
    /\ job' = [job EXCEPT ![c] = Failed(@, c, "unread")]
    /\ UNCHANGED <<table, stmts, volume, workspace, engine>>

\* The rows are counted against total_row_count, where the manifest has one.
FetchedUncounted(c) ==
    /\ job[c].at = "fetching" /\ job[c].next = EndOfResult
    /\ job' = [job EXCEPT ![c] = Advanced(@)]
    /\ UNCHANGED <<table, stmts, volume, workspace, engine, faults>>
Fetched(c) ==
    /\ job[c].at = "fetching" /\ job[c].next = EndOfResult
    /\ job' = [job EXCEPT ![c] =
                  IF "counted" \in stmts[@.sid].manifest => Len(@.got) = 2
                  THEN Advanced(@) ELSE Failed(@, c, "unread")]
    /\ UNCHANGED <<table, stmts, volume, workspace, engine, faults>>

\* _staged: the upload. What a failed one left is deleted, best effort.
Stage(c) ==
    /\ AtStep(c, {"stage"})
    /\ \/ /\ ~Unstageable(job[c].call)
          /\ volume' = volume \cup {c}
          /\ job' = [job EXCEPT ![c] = Advanced(@)] /\ UNCHANGED faults
       \/ /\ Unstageable(job[c].call)
          /\ job' = [job EXCEPT ![c] = Failed(@, c, "refused")] /\ UNCHANGED <<volume, faults>>
       \/ /\ ~Unstageable(job[c].call) /\ Fault
          /\ \E left \in SUBSET {c} :
                /\ volume' = volume \cup left
                /\ job' = [job EXCEPT ![c] = [Failed(@, c, "refused") EXCEPT !.undeleted = (left # {})]]
    /\ UNCHANGED <<table, stmts, workspace, engine>>

\* The partitions of the data are worked out once it is staged: none, or too many, are refused.
Predicate(c) ==
    /\ AtStep(c, {"predicate"})
    /\ job' = [job EXCEPT ![c] =
                  IF /\ @.call.where = {}
                     /\ Cardinality(DynamicPredicate(@.call)) \notin 1..MaxDynamicPartitions
                  THEN Failed(@, c, "refused") ELSE Advanced(@)]
    /\ UNCHANGED <<table, stmts, volume, workspace, engine, faults>>

\* Whatever happened, the file is deleted; if that fails the user is warned.
Unstage(c) ==
    /\ AtStep(c, {"unstage"})
    /\ \/ volume' = volume \ {c} /\ UNCHANGED faults
       \/ Fault /\ UNCHANGED volume
    /\ job' = [job EXCEPT ![c] = [@ EXCEPT !.todo = <<>>, !.undeleted = (volume' = volume),
                                           !.out = IF job[c].err = "none" THEN "ok" ELSE job[c].err]]
    /\ UNCHANGED <<table, stmts, workspace, engine>>

Init ==
    /\ table \in Tables
    /\ stmts = <<>> /\ volume = {} /\ faults = 0
    /\ workspace \in {"none", "some"}
    /\ engine \in {"auto", "given"}
    /\ job = [c \in Callers |-> Idle]

CallStep(c) ==
    \/ Resolve(c) \/ NoWarehouse(c) \/ Submit(c) \/ Poll(c) \/ Ended(c) \/ GiveUp(c) \/ Fetch(c)
    \/ DownloadFails(c) \/ Fetched(c) \/ Stage(c) \/ Predicate(c) \/ Unstage(c)

Next ==
    \/ \E c \in Callers : CallStep(c) \/ \E o \in Calls : Begin(c, o)
    \/ \E s \in DOMAIN stmts : RunStatement(s) \/ CancelArrives(s) \/ CloseResult(s)
    \/ WorkspaceChanges

Spec == Init /\ [][Next]_vars

-----------------------------------------------------------------------------
(* Properties.                                                              *)

Over(c) == job[c].out # "none"

\* What a caller is told of its statement is so, and stays so although the warehouse goes on: a
\* call that returned has taken effect, and so has one whose result could not be read or was
\* closed; one that was refused, or whose statement was seen to fail or to be cancelled, has not
\* and never will. Two answers leave it open: that the statement was given up and a
\* cancellation asked for, and that a request to the warehouse failed.
OutcomeTruthful ==
    \A c \in Callers :
        LET m == job[c].main IN
        /\ job[c].out = "ok" => m > 0
        /\ job[c].out \in {"ok", "unread", "closed"} /\ m > 0 => stmts[m].state = "SUCCEEDED"
        /\ job[c].out \in {"refused", "failed"} /\ m > 0 => stmts[m].state \in {"FAILED", "CANCELED"}

\* SqlStatementError: "A statement failed, was cancelled, or timed out on the warehouse". The
\* code raises it of a statement in state CLOSED too, whose effect stands.
FailureHasNoEffect ==
    \A c \in Callers :
        job[c].out \in {"failed", "closed"} /\ job[c].main > 0 => stmts[job[c].main].state # "SUCCEEDED"

\* "the statement did not finish within ... and was cancelled": the cancellation is only asked
\* for, and the statement may finish first.
CancelledHasNoEffect ==
    \A c \in Callers :
        job[c].out = "cancelled" /\ job[c].main > 0 => stmts[job[c].main].state # "SUCCEEDED"

\* A result that is returned has no row twice if its chunks are numbered, and every row once if
\* the rows are counted besides, although chunks repeat, pointers are lost and links expire on
\* the way.
Exact(got, manifest) ==
    "numbered" \in manifest => /\ got \in {<<0>>, <<0, 1>>}
                               /\ "counted" \in manifest => got = <<0, 1>>
ResultExact ==
    \A c \in Callers : job[c].out = "ok" /\ Fetches(job[c].call) =>
                           Exact(job[c].got, stmts[job[c].main].manifest)

\* What a call asks of the table, told without statements, files and types: the values given,
\* the partitions of the data replaced, the first clause added that applies.
Intended(o, rows) ==
    LET data == IF "data" \in DOMAIN o
                THEN {[r EXCEPT !.p = IF @ = "empty" THEN "null" ELSE @] : r \in o.data} ELSE {}
    IN  CASE o.kind = "append" -> rows \cup data
          [] o.kind = "overwrite" /\ o.mode = "dynamic" ->
                {r \in rows : \A d \in data : d.p # r.p} \cup data
          [] o.kind = "overwrite" /\ o.mode # "dynamic" /\ o.where # {} ->
                {r \in rows : r.p \notin o.where} \cup data
          [] o.kind = "overwrite" /\ o.mode # "dynamic" /\ o.where = {} -> data
          [] o.kind = "merge" -> Merged(rows, data, o.clauses)
          [] o.kind = "delete" -> {r \in rows : r.k \notin o.keys}
          [] OTHER -> rows

\* A statement that took effect did to the table what its call asked, through the staged file's
\* types, the generated predicate and the sorted clauses.
EffectExact ==
    \A s \in DOMAIN stmts :
        stmts[s].state = "SUCCEEDED" /\ stmts[s].st.kind # "lookup" =>
            stmts[s].after = Intended(stmts[s].st.o, stmts[s].before)

\* No call leaves anything behind it has not told of: a statement runs on only if it was asked
\* to cancel or its id was lost with the answer, and a staged file stays only where its deletion
\* failed.
NothingLeftBehind ==
    /\ \A c \in Callers : Over(c) /\ c \in volume => job[c].undeleted
    /\ \A s \in DOMAIN stmts :
          LET j == job[stmts[s].st.by] IN
          stmts[s].state = "RUNNING" /\ j.out # "none" /\ j.sid = s => stmts[s].cancel

===============================================================================
