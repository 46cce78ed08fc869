------------------------------- MODULE TableReads -------------------------------
(***************************************************************************)
(* Reads through one table handle (table.py Table, _lazy.py TableDataset;    *)
(* kernel.py snapshot, scan, added_since, metadata_count, plan_scan;         *)
(* distributed.py ScanPlan) while others write, compact, vacuum, drop and    *)
(* re-create the table, a catalog publishes its commits, and another thread  *)
(* writes through the same handle. What a read uses is cached: snapshots by  *)
(* the engine, the catalog's commit tail and the table's features by the     *)
(* handle, the name's check for a second.                                    *)
(*                                                                         *)
(* The handle was opened on the first table. A path or a registered          *)
(* external table is whatever table is at its location; a catalog-managed    *)
(* one has a location of its own and the versions the catalog's tail names.  *)
(* A row is its table, version, number and partition; a file its rows, the   *)
(* ones its deletion vector hides, its partition and whether the log says    *)
(* how many rows it has. Building a snapshot, and revalidating a cached one, *)
(* is one step; files are read one at a time.                                *)
(***************************************************************************)
EXTENDS Integers, Sequences, FiniteSets, FiniteSetsExt, SequencesExt

CONSTANTS
    Scenes,       \* the kind of the table ("path", "external", "managed"), the reads one after the
                  \* other, and how many writes through the handle may land: [kind, calls, writes]
    Shapes,       \* what an appended file may be: [part, counted]
    Tasks,        \* how many groups a plan is read in
    CacheSize,    \* snapshot_cache_size
    MaxCommits,   \* bound: commits to all the tables, after the ones that created them
    MaxTables,    \* bound: tables created under the name or at the path
    MaxEvents     \* bound: maintenance, drops, requests and writes that fail, tasks run again

VARIABLES
    scene,      \* the table and what is asked of it
    tables,     \* every table there has been: its versions, and what was removed of it
    current,    \* the one there is now, 0 when it was dropped
    handle,     \* the Table object
    cache,      \* the engine's snapshots, least recently used first
    tails,      \* the newest commit tail the engine has read itself
    writer,     \* the thread that writes through the handle
    job,        \* the read under way
    work,       \* the tasks of a plan
    consumer,   \* who reads what was added, range after range
    events      \* how many of the bounded events have happened

world == <<tables, current>>
engine == <<cache, tails>>
vars == <<scene, world, handle, engine, writer, job, work, consumer, events>>

None == -1
Managed == scene.kind = "managed"
Latest(i) == Len(tables[i].log) - 1
At(i, v) == tables[i].log[v + 1]
Happens == events < MaxEvents /\ events' = events + 1

Live(f) == f.rows \ f.dead
RowsOf(files) == UNION {Live(f) : f \in files}
NewFile(i, v, s) ==
    [id |-> <<i, v>>, rows |-> {<<i, v, k, s.part>> : k \in {1, 2}}, dead |-> {}, part |-> s.part,
     counted |-> s.counted]
NewTable(i) ==
    [log |-> <<{NewFile(i, 0, [part |-> "a", counted |-> TRUE])}>>, first |-> 0, swept |-> 0,
     gone |-> {}]

\* Partition and data predicates; a null partition value satisfies none.
Satisfies(p, r) ==
    CASE p = "partition" -> r[4] = "a" [] p = "data" -> r[3] = 1 [] OTHER -> TRUE
Answer(p, s) == {r \in RowsOf(At(s.inc, s.v)) : Satisfies(p, r)}

NoCall == [kind |-> "none"]
Idle == [call |-> NoCall, nth |-> 0, at |-> "idle", pin |-> None, tail |-> [max |-> 0, pub |-> 0],
         reads |-> 0, until |-> None, scanning |-> FALSE, gen |-> 0, feat |-> [inc |-> 0, v |-> 0],
         fresh |-> FALSE, judged |-> 0, snap |-> [inc |-> 0, v |-> 0], made |-> [inc |-> 0, v |-> 0],
         floor |-> [inc |-> 0, v |-> 0], todo |-> <<>>, got |-> <<>>, total |-> None, out |-> "none"]

Init ==
    /\ scene \in Scenes
    /\ tables = <<NewTable(1)>> /\ current = 1
    /\ handle = [tail |-> [max |-> 0, pub |-> 0], named |-> FALSE, enriched |-> FALSE, gen |-> 0,
                 judged |-> 0, openError |-> FALSE, feat |-> [inc |-> 0, v |-> 0], own |-> [inc |-> 0, v |-> 0], acked |-> 0]
    /\ cache = <<>> /\ tails = [max |-> 0, pub |-> 0]
    /\ writer = "idle" /\ job = Idle /\ work = <<>>
    /\ consumer = [from |-> 0, last |-> 0, got |-> <<>>, incs |-> {}]
    /\ events = 0

Raise(j) == [j EXCEPT !.at = "done", !.out = "raised"]
Finish(j) == [j EXCEPT !.at = "done", !.out = "ok"]

-----------------------------------------------------------------------------
(* Snapshots.                                                               *)

NoSnapshot == [inc |-> 0, v |-> None]
Exists(i, v) == v \in tables[i].first..Latest(i)

\* _remember, _keep: the newest at the end, the oldest dropped.
Keep(key, s) ==
    LET others == SelectSeq(cache, LAMBDA e : e.key # key)
        kept == Append(others, [key |-> key, snap |-> s])
    IN  SubSeq(kept, Max({1, Len(kept) - CacheSize + 1}), Len(kept))
Cached(key) == {e.snap : e \in {cache[i] : i \in {j \in DOMAIN cache : cache[j].key = key}}}

\* _latest_tail: the newer of the tail the caller holds and the one this engine has read.
LatestTail(t) == IF tails.max > t.max THEN tails ELSE t

\* A catalog-managed table is cached by the catalog's own answer. Resolved afresh, every commit the
\* tail names must still be staged, or published before the tail was read.
TailFor(ver, t) == IF ver = None \/ ver > t.max THEN LatestTail(t) ELSE t
ByTail(ver, t) ==
    LET tail == TailFor(ver, t)
        key == <<1, ver, tail.max, tail.pub>>
        v == IF ver = None THEN tail.max ELSE ver
    IN  [key |-> key,
         snap |-> IF Cached(key) # {} THEN CHOOSE s \in Cached(key) : TRUE
                  ELSE IF v <= tail.max /\ v >= tables[1].first /\ tables[1].swept <= tail.pub
                  THEN [inc |-> 1, v |-> v] ELSE NoSnapshot]

\* Snapshot.resolve of whatever is at the location now.
Resolved(ver) ==
    IF current = 0 THEN NoSnapshot
    ELSE LET v == IF ver = None THEN Latest(current) ELSE ver
         IN  IF Exists(current, v) THEN [inc |-> current, v |-> v] ELSE NoSnapshot

\* commit_identity: the commit file a snapshot ends at is still the one in storage.
SameCommit(s) == current = s.inc /\ tables[s.inc].first <= s.v

ByLocationStale(ver) ==
    LET key == <<0, ver, 0, 0>>
        kept == {s \in Cached(key) : SameCommit(s)}
    IN  [key |-> key, snap |-> IF kept # {} THEN CHOOSE s \in kept : TRUE ELSE Resolved(ver)]
\* Snapshot.refresh: a cached snapshot is revalidated, then reused as it is (a version) or brought
\* up to date (the latest); one that fails is resolved again.
ByLocation(ver) ==
    LET key == <<0, ver, 0, 0>>
        kept == {s \in Cached(key) : SameCommit(s)}
    IN  [key |-> key,
         snap |-> IF kept # {} /\ ver # None THEN CHOOSE s \in kept : TRUE ELSE Resolved(ver)]

\* KernelEngine.snapshot: what it gives, and the cache after it.
Snapshot(ver, t) == IF Managed THEN ByTail(ver, t) ELSE ByLocation(ver)
Remember(r) == cache' = IF r.snap = NoSnapshot THEN cache ELSE Keep(r.key, r.snap)

-----------------------------------------------------------------------------
(* The catalog's tail, the name and the features.                           *)

Catalogued == scene.kind \in {"external", "managed"}
Published == [max |-> Latest(1), pub |-> tables[1].swept]

\* _refresh_commit_tail: the tail the catalog has now.
WithTail(h) == IF Managed THEN [h EXCEPT !.tail = Published] ELSE h

\* A pinned handle reads the version it was asked for, and no other.
Pinned(j) == j.pin # None
TailOf(j) == IF Pinned(j) THEN j.tail ELSE handle.tail

\* A call of the handle. The latest version it may then give is no older than the one there is, or,
\* of a managed table, than the last one whose tail the handle has read after its own write.
Begin ==
    /\ job.at \in {"idle", "done"} /\ job.nth < Len(scene.calls)
    /\ LET c == scene.calls[job.nth + 1]
           now == [inc |-> current, v |-> IF current = 0 THEN 0 ELSE Latest(current)]
       IN  job' = [Idle EXCEPT !.call = c, !.nth = job.nth + 1,
                               !.at = IF c.kind = "plan" THEN "enrich" ELSE "named",
                               !.floor = IF Managed THEN [inc |-> 1, v |-> handle.acked] ELSE now]
    /\ work' = <<>>
    /\ UNCHANGED <<world, handle, engine, writer, consumer, events>>

\* _check_still_named: asked of the catalog, once in a second. A table that is gone or another is
\* an error; a catalog that does not answer is none, unless it refuses.
CheckNamed ==
    /\ job.at = "named"
    /\ IF ~Catalogued \/ Pinned(job) \/ handle.named
       THEN job' = [job EXCEPT !.at = "enrich"] /\ UNCHANGED <<handle, events>>
       ELSE \/ /\ job' = IF current # 1 THEN Raise(job) ELSE [job EXCEPT !.at = "enrich"]
               /\ handle' = IF current # 1 THEN handle ELSE [WithTail(handle) EXCEPT !.named = TRUE]
               /\ UNCHANGED events
            \/ /\ Happens
               /\ \/ job' = [job EXCEPT !.at = "enrich"] /\ handle' = [handle EXCEPT !.named = TRUE]
                  \/ job' = Raise(job) /\ UNCHANGED handle
    /\ UNCHANGED <<world, engine, writer, work, consumer>>

\* _check_identity: a managed table's log must be the one the catalog named.
CheckIdentity(s) == Managed => s.inc = 1

\* A table whose log could not be read is one no direct engine serves; Table.count goes on to scan.
Unreadable(j) ==
    IF j.call.kind = "count" /\ ~j.scanning THEN [j EXCEPT !.scanning = TRUE, !.at = "named"]
    ELSE Raise(j)
Routed(j, openError) == IF openError THEN Unreadable(j) ELSE [j EXCEPT !.at = "snapshot"]

\* _enrich: the features are read from the log by the kernel, unless they are known, and what could
\* not be read last time is still refused then. A pinned handle is another object and reads its own.
Enrich ==
    /\ job.at = "enrich"
    /\ IF handle.enriched /\ ~Pinned(job)
       THEN job' = Routed(job, handle.openError) /\ UNCHANGED cache
       ELSE LET r == Snapshot(job.pin, TailOf(job))
            IN  /\ Remember(r)
                /\ job' = [job EXCEPT !.gen = handle.gen, !.feat = r.snap,
                                      !.at = IF r.snap = NoSnapshot THEN "again" ELSE "enriching"]
    /\ UNCHANGED <<world, handle, tails, writer, work, consumer, events>>

\* ... then by delta-rs, which opens no catalog-managed table ...
EnrichAgain ==
    /\ job.at = "again"
    /\ LET s == IF Managed THEN NoSnapshot ELSE Resolved(job.pin)
       IN  job' = [job EXCEPT !.feat = s, !.at = IF s = NoSnapshot THEN "unread" ELSE "enriching"]
    /\ UNCHANGED <<world, handle, engine, writer, work, consumer, events>>

\* ... and where neither can, that is noted, and the table is routed all the same.
NoteUnread ==
    /\ job.at = "unread"
    /\ job' = Routed(job, TRUE)
    /\ handle' = IF Pinned(job) THEN handle ELSE [handle EXCEPT !.openError = TRUE]
    /\ UNCHANGED <<world, engine, writer, work, consumer, events>>

\* What was read replaces what the handle had, unless the log is not the table's ...
Fill ==
    /\ job.at = "enriching"
    /\ job' = IF ~CheckIdentity(job.feat) THEN Raise(job)
              ELSE [job EXCEPT !.at = IF Pinned(job) THEN "snapshot" ELSE "filled"]
    /\ handle' = IF Pinned(job) \/ ~CheckIdentity(job.feat) THEN handle
                 ELSE [handle EXCEPT !.feat = job.feat, !.openError = FALSE]
    /\ UNCHANGED <<world, engine, writer, work, consumer, events>>

\* ... its generation is compared with the one of the handle ...
GenerationIgnored(g) == TRUE
GenerationHolds(g) == handle.gen = g
Compare ==
    /\ job.at = "filled"
    /\ job' = [job EXCEPT !.at = "comparing", !.fresh = GenerationHolds(job.gen), !.judged = handle.gen]
    /\ UNCHANGED <<world, handle, engine, writer, work, consumer, events>>

\* ... and it is kept, as current if no write had invalidated it by then.
Enriched ==
    /\ job.at = "comparing"
    /\ job' = Routed(job, handle.openError)
    /\ handle' = [handle EXCEPT !.enriched = job.fresh, !.judged = job.judged]
    /\ UNCHANGED <<world, engine, writer, work, consumer, events>>

-----------------------------------------------------------------------------
(* What is read of a snapshot.                                              *)

\* The files a predicate's partition values and statistics leave, in the log's order.
Planned(p, s) ==
    SetToSortSeq({f \in At(s.inc, s.v) : p = "partition" => f.part = "a"},
                 LAMBDA f, g : f.id[2] < g.id[2])

\* metadata_count: the rows the log counts less the hidden ones; None where only a scan can say.
MetadataCount(p, s) ==
    IF p = "data" \/ \E f \in Range(Planned(p, s)) : ~f.counted THEN None
    ELSE FoldLeft(LAMBDA n, f : n + Cardinality(Live(f)), 0, Planned(p, s))

\* incremental_files: the adds after a version still live at the end, and every remove.
Key(f) == <<f.id, f.dead>>
Keys(i, v) == {Key(f) : f \in At(i, v)}
Removed(i, from, to) == UNION {Keys(i, v - 1) \ Keys(i, v) : v \in (from + 1)..to}
Added(i, from, to) ==
    SetToSortSeq({f \in At(i, to) : Key(f) \notin Keys(i, from)}, LAMBDA f, g : f.id[2] < g.id[2])
LogHolds(i, from) == from >= tables[i].first - 1

AddedSinceAny(j, s) ==
    IF consumer.last > s.v THEN Raise(j)
    ELSE IF consumer.last = s.v THEN [j EXCEPT !.at = "reading", !.snap = s]
    ELSE IF ~LogHolds(s.inc, consumer.last) THEN Raise(j)
    ELSE [j EXCEPT !.at = "reading", !.snap = s, !.todo = Added(s.inc, consumer.last, s.v)]
\* KernelEngine.added_since: refused where a file was removed, unless every added file is wanted.
AddedSince(j, s) ==
    IF consumer.last > s.v THEN Raise(j)
    ELSE IF consumer.last = s.v THEN [j EXCEPT !.at = "reading", !.snap = s]
    ELSE IF ~LogHolds(s.inc, consumer.last) THEN Raise(j)
    ELSE IF Removed(s.inc, consumer.last, s.v) # {} /\ ~j.call.only_appends THEN Raise(j)
    ELSE [j EXCEPT !.at = "reading", !.snap = s, !.todo = Added(s.inc, consumer.last, s.v)]

\* balance: the largest first, each to the group with the fewest bytes.
Balance(files, n) ==
    LET items == SetToSortSeq(files, LAMBDA f, g :
                     \/ Cardinality(f.rows) > Cardinality(g.rows)
                     \/ Cardinality(f.rows) = Cardinality(g.rows) /\ f.id[2] < g.id[2])
        Load(bin) == FoldLeft(LAMBDA a, f : a + Cardinality(f.rows), 0, bin)
        Lightest(bins) == CHOOSE i \in DOMAIN bins : \A k \in DOMAIN bins :
                              \/ Load(bins[i]) < Load(bins[k])
                              \/ Load(bins[i]) = Load(bins[k]) /\ i <= k
        Place(bins, f) == [bins EXCEPT ![Lightest(bins)] = Append(@, f)]
    IN  FoldLeft(Place, [i \in 1..Min({n, Len(items)}) |-> <<>>], items)

-----------------------------------------------------------------------------
(* The calls.                                                               *)

\* The version a call asks the engine for.
Version(j) ==
    IF Pinned(j) THEN j.pin
    ELSE CASE j.call.kind = "added" -> j.until
           [] j.call.kind = "scan" -> j.call.version
           [] OTHER -> None

Scanned(j, s) == [j EXCEPT !.at = "reading", !.snap = s, !.todo = Planned(j.call.p, s)]

\* Table.count, _count_from_log: from the log, else by a scan.
Counted(j, s) ==
    LET n == MetadataCount(j.call.p, s)
    IN  IF j.scanning THEN Scanned(j, s)
        ELSE IF n = None THEN [j EXCEPT !.scanning = TRUE, !.at = "named"]
        ELSE Finish([j EXCEPT !.snap = s, !.total = n])

\* _lazy_dataset: the dataset is of the version there is when it is made; each read of it is of that
\* number, whatever table it finds.
DatasetOf(j, s) ==
    IF Pinned(j) THEN Scanned(j, s)
    ELSE [j EXCEPT !.pin = s.v, !.tail = handle.tail, !.snap = s, !.made = s, !.at = "made"]

\* The end of a range is asked for before the range is.
RangeOf(j, s) == IF j.until = None THEN [j EXCEPT !.until = s.v, !.at = "named"] ELSE AddedSince(j, s)

\* The engine resolves the snapshot, and the call goes on with it. Table.count takes a failure to
\* be the log's and scans.
TakeSnapshot ==
    /\ job.at = "snapshot"
    /\ LET r == Snapshot(Version(job), TailOf(job))
           s == r.snap
       IN  /\ Remember(r)
           /\ job' = IF s = NoSnapshot
                     THEN Unreadable(job)
                     ELSE CASE job.call.kind = "scan" -> Scanned(job, s)
                            [] job.call.kind = "count" -> Counted(job, s)
                            [] job.call.kind = "dataset" -> DatasetOf(job, s)
                            [] job.call.kind = "added" -> RangeOf(job, s)
                            [] job.call.kind = "plan" -> [job EXCEPT !.at = "planned", !.snap = s]
           /\ work' = IF s # NoSnapshot /\ job.call.kind = "plan"
                      THEN LET bins == Balance(Range(Planned(job.call.p, s)), Tasks)
                           IN  [i \in DOMAIN bins |-> [files |-> bins[i], pos |-> 1, got |-> <<>>,
                                                       out |-> "none"]]
                      ELSE work
    /\ UNCHANGED <<world, handle, tails, writer, consumer, events>>

\* The rows a file gives: the visible ones the predicate keeps.
Gives(p, f) == SetToSeq({r \in Live(f) : Satisfies(p, r)})
Gone(f) == f.id \in tables[f.id[1]].gone
Predicate(c) == IF c.kind = "added" THEN "none" ELSE c.p

\* Enough rows for head(n), or no file left.
ReadAll(j) ==
    \/ j.todo = <<>>
    \/ j.call.kind = "scan" /\ j.call.limit # None /\ Len(j.got) >= j.call.limit

\* The stream reads its next file, which VACUUM or a drop may have taken.
ReadFile ==
    /\ job.at = "reading" /\ ~ReadAll(job)
    /\ LET f == Head(job.todo)
       IN  job' = IF Gone(f) THEN Raise(job)
                  ELSE [job EXCEPT !.todo = Tail(@), !.got = @ \o Gives(Predicate(job.call), f)]
    /\ UNCHANGED <<world, handle, engine, writer, work, consumer, events>>

\* The end of the stream: head() cuts it to size, count() counts it, a dataset can be read again.
StreamEnds ==
    /\ job.at = "reading" /\ ReadAll(job)
    /\ job' = CASE job.call.kind = "dataset" -> [job EXCEPT !.at = "made", !.reads = @ + 1]
                [] job.call.kind = "count" -> Finish([job EXCEPT !.total = Len(job.got)])
                [] job.call.kind = "scan" /\ job.call.limit # None ->
                       Finish([job EXCEPT !.got = SubSeq(@, 1, Min({Len(@), job.call.limit}))])
                [] OTHER -> Finish(job)
    /\ consumer' = IF job.call.kind # "added" THEN consumer
                   ELSE [consumer EXCEPT !.last = job.until, !.got = @ \o job.got,
                                         !.incs = @ \cup {job.snap.inc}]
    /\ UNCHANGED <<world, handle, engine, writer, work, events>>

\* TableDataset._read: each read is a scan of the pinned handle. Twice is enough.
ReadDataset ==
    /\ job.at = "made" /\ job.reads < 2
    /\ job' = [job EXCEPT !.at = "named", !.got = <<>>]
    /\ UNCHANGED <<world, handle, engine, writer, work, consumer, events>>

DropDataset ==
    /\ job.at = "made"
    /\ job' = Finish(job)
    /\ UNCHANGED <<world, handle, engine, writer, work, consumer, events>>

\* ScanPlan.stream, execute_scan: a task reads the files of its group by the rows of the plan, with
\* no log.
TaskReads(i) ==
    LET w == work[i]
    IN  /\ job.at = "planned" /\ w.out = "none"
        /\ work' = IF w.pos > Len(w.files) THEN [work EXCEPT ![i].out = "ok"]
                   ELSE IF Gone(w.files[w.pos]) THEN [work EXCEPT ![i].out = "raised"]
                   ELSE [work EXCEPT ![i].pos = @ + 1,
                                     ![i].got = @ \o Gives(job.call.p, w.files[w.pos])]
        /\ UNCHANGED <<world, handle, engine, writer, job, consumer, events>>

\* A task that was lost is run again.
TaskRestarts(i) ==
    /\ Happens
    /\ job.at = "planned" /\ work[i].out # "ok"
    /\ work' = [work EXCEPT ![i].pos = 1, ![i].got = <<>>, ![i].out = "none"]
    /\ UNCHANGED <<world, handle, engine, writer, job, consumer>>

PlanDone ==
    /\ job.at = "planned" /\ \A i \in DOMAIN work : work[i].out # "none"
    /\ job' = IF \A i \in DOMAIN work : work[i].out = "ok"
              THEN Finish([job EXCEPT !.got = FoldLeft(LAMBDA a, w : a \o w.got, <<>>, work)])
              ELSE Raise(job)
    /\ UNCHANGED <<world, handle, engine, writer, work, consumer, events>>

-----------------------------------------------------------------------------
(* Writers.                                                                 *)

Part(i, p) == {f \in At(i, Latest(i)) : f.part = p}
\* The table after an append, a DELETE by a deletion vector, and an OPTIMIZE of a partition.
Changes(i) ==
    LET now == At(i, Latest(i))
        v == Latest(i) + 1
    IN  {now \cup {NewFile(i, v, s)} : s \in Shapes}
        \cup {(now \ {f}) \cup {[f EXCEPT !.dead = {r \in f.rows : r[3] = 1}]} :
                 f \in {g \in now : \A r \in g.dead : FALSE}}
        \cup {(now \ Part(i, p)) \cup {[id |-> <<i, v>>, rows |-> RowsOf(Part(i, p)), dead |-> {},
                                        part |-> p, counted |-> TRUE]} :
                 p \in {q \in {"a", "null"} : Cardinality(Part(i, q)) > 1}}

Commit(i, files) == tables' = [tables EXCEPT ![i].log = Append(@, files)]

Commits == FoldLeft(LAMBDA n, t : n + Len(t.log) - 1, 0, tables)

Other ==
    /\ current # 0 /\ Commits < MaxCommits
    /\ \E files \in Changes(current) : Commit(current, files)
    /\ UNCHANGED <<current, handle, engine, writer, job, work, consumer, events>>

\* A write through the handle: the tail and, by _engine, the features are read again, in one step;
\* what interleaves with a write is the enrichment of the reading thread ...
RouteWrite ==
    /\ writer = "idle" /\ handle.gen < scene.writes
    /\ current # 0 /\ (Catalogued => current = 1)
    /\ writer' = "routed"
    /\ handle' = [WithTail(handle) EXCEPT !.enriched = TRUE, !.judged = handle.gen, !.openError = FALSE,
                                          !.feat = [inc |-> current, v |-> Latest(current)]]
    /\ UNCHANGED <<world, engine, job, work, consumer, events>>

\* ... and the commit lands on the latest version, after a lost race (_refresh_tail) if there is one.
Land ==
    /\ writer = "routed"
    /\ current # 0 /\ Commits < MaxCommits /\ (Managed => current = 1)
    /\ writer' = "landed"
    /\ \E files \in Changes(current) : Commit(current, files)
    /\ handle' = [handle EXCEPT !.own = [inc |-> current, v |-> Latest(current) + 1]]
    /\ tails' = IF Managed /\ handle.tail.max < Latest(1) THEN Published ELSE tails
    /\ UNCHANGED <<current, cache, job, work, consumer, events>>

WriteFails ==
    /\ Happens
    /\ writer = "routed"
    /\ writer' = "idle"
    /\ UNCHANGED <<world, handle, engine, job, work, consumer>>

\* _invalidate: what was read before the commit is stale, and so is what is being read.
Invalidate ==
    /\ writer = "landed"
    /\ handle' = [handle EXCEPT !.enriched = FALSE]
    /\ writer' = "cleared"
    /\ UNCHANGED <<world, engine, job, work, consumer, events>>
NextGeneration ==
    /\ writer = "cleared"
    /\ handle' = [handle EXCEPT !.gen = @ + 1]
    /\ writer' = IF Managed THEN "invalidated" ELSE "idle"
    /\ UNCHANGED <<world, engine, job, work, consumer, events>>

\* _refresh_commit_tail after the write: a catalog that does not answer leaves the old tail, and a
\* table that was re-created leaves the handle on its own.
ReadTail ==
    /\ writer = "invalidated"
    /\ \/ /\ current = 1
          /\ handle' = [WithTail(handle) EXCEPT !.acked = handle.own.v]
          /\ UNCHANGED events
       \/ current # 1 /\ UNCHANGED <<handle, events>>
       \/ Happens /\ UNCHANGED handle
    /\ writer' = "idle"
    /\ UNCHANGED <<world, engine, job, work, consumer>>

-----------------------------------------------------------------------------
(* The table's surroundings.                                                *)

Ids(i) == {<<i, v>> : v \in 0..Latest(i)}
InUse(i, v) == {f.id : f \in At(i, v)}

Vacuum ==
    /\ Happens
    /\ current # 0
    /\ tables' = [tables EXCEPT ![current].gone = Ids(current) \ InUse(current, Latest(current))]
    /\ tables' # tables
    /\ UNCHANGED <<current, handle, engine, writer, job, work, consumer>>

\* A checkpoint, and the commits before it cleaned up.
CleanLog ==
    /\ Happens
    /\ current # 0 /\ tables[current].first < Latest(current)
    /\ tables' = [tables EXCEPT ![current].first = Latest(current)]
    /\ UNCHANGED <<current, handle, engine, writer, job, work, consumer>>

\* The catalog's commits are published, and their staged copies removed.
Sweep ==
    /\ Managed /\ current = 1 /\ tables[1].swept < Latest(1)
    /\ tables' = [tables EXCEPT ![1].swept = Latest(1)]
    /\ UNCHANGED <<current, handle, engine, writer, job, work, consumer, events>>

\* Dropping a path or an external table takes its files; a managed one's may stay for a while.
Drop ==
    /\ Happens
    /\ current # 0 /\ current < MaxTables
    /\ current' = 0
    /\ \/ tables' = [tables EXCEPT ![current].gone = Ids(current)]
       \/ Managed /\ UNCHANGED tables
    /\ UNCHANGED <<handle, engine, writer, job, work, consumer>>

Create ==
    /\ current = 0
    /\ current' = Len(tables) + 1
    /\ tables' = Append(tables, NewTable(Len(tables) + 1))
    /\ UNCHANGED <<handle, engine, writer, job, work, consumer, events>>

\* The name's check is a second old.
NameAges ==
    /\ handle.named
    /\ handle' = [handle EXCEPT !.named = FALSE]
    /\ UNCHANGED <<world, engine, writer, job, work, consumer, events>>

-----------------------------------------------------------------------------
Reads ==
    \/ Begin
    \/ CheckNamed \/ Enrich \/ EnrichAgain \/ NoteUnread \/ Fill \/ Compare \/ Enriched
    \/ TakeSnapshot \/ ReadFile \/ StreamEnds
    \/ ReadDataset \/ DropDataset \/ PlanDone
    \/ \E i \in DOMAIN work : TaskReads(i) \/ TaskRestarts(i)
Writes == RouteWrite \/ Land \/ WriteFails \/ Invalidate \/ NextGeneration \/ ReadTail
Surroundings == Other \/ Vacuum \/ CleanLog \/ Sweep \/ Drop \/ Create \/ NameAges

\* Bound: a behaviour ends with its last read.
Going == job.at = "done" => job.nth < Len(scene.calls)

Next == Going /\ (Reads \/ Writes \/ Surroundings) /\ UNCHANGED scene
Spec == Init /\ [][Next]_vars

-----------------------------------------------------------------------------
(* Properties.                                                              *)

Distinct(s) == \A i, j \in DOMAIN s : i # j => s[i] # s[j]

\* No older than what the call could count on when it began.
Recent(j) ==
    /\ Managed => j.snap.inc = 1
    /\ j.snap.inc = j.floor.inc => j.snap.v >= j.floor.v

\* A read that succeeds (table.py scan, head, count, plan_scan, to_pyarrow_dataset) gives the
\* matching rows of one version of one table, each once, although files go, tasks are repeated and
\* the table moves on meanwhile: of the version asked for, or of one no older than the latest when
\* the call began; of a managed table, no older than the handle's own last write. A dataset gives
\* the rows of the version it was made at every time, as long as its table is there; of a table
\* re-created at the path, the rows of the version of that number, or an error.
ReadsExact ==
    LET c == job.call
        all == Answer(c.p, job.snap)
    IN  /\ job.out = "ok" /\ c.kind \in {"scan", "plan"} =>
               /\ Distinct(job.got) /\ Range(job.got) \subseteq all
               /\ Len(job.got) = IF c.kind = "scan" /\ c.limit # None
                                 THEN Min({c.limit, Cardinality(all)}) ELSE Cardinality(all)
               /\ IF Version(job) = None THEN Recent(job) ELSE job.snap.v = Version(job)
        /\ job.out = "ok" /\ c.kind = "count" => job.total = Cardinality(all) /\ Recent(job)
        /\ job.at = "made" => /\ job.snap.v = job.made.v
                              /\ Managed => job.snap = job.made
                              /\ job.reads > 0 => Distinct(job.got) /\ Range(job.got) = all
                              /\ job.reads = 0 => Recent(job)

\* table.py:1910: "Every scan reads the version current when the dataset was made, as a pinned handle
\* does".
DatasetStays == job.at = "made" /\ job.reads > 0 => Range(job.got) = Answer(job.call.p, job.made)

\* Range after range, added_since (table.py added_since) gives a consumer every row appended since
\* it began, once, or refuses; with only_appends it misses none that is still there. A table that
\* was re-created at the path is another one.
IncrementExact ==
    consumer.incs = {1} =>
        LET appended == {r \in UNION {f.rows : f \in UNION {At(1, v) : v \in 0..consumer.last}} :
                             r[2] \in (consumer.from + 1)..consumer.last}
        IN  /\ Range(consumer.got) \subseteq RowsOf(UNION {At(1, v) : v \in 0..consumer.last})
            /\ (\A c \in Range(scene.calls) : ~c.only_appends) =>
                   Distinct(consumer.got) /\ Range(consumer.got) = appended
            /\ appended \cap RowsOf(At(1, consumer.last)) \subseteq Range(consumer.got)

\* Neither a write nor an enrichment is under way.
Settled == writer = "idle" /\ job.at \notin {"filled", "comparing"}
NoOlderThanOwn == handle.feat.inc = handle.own.inc => handle.feat.v >= handle.own.v

\* Of a table whose log is in storage, what the handle takes for current (table.py _enrich,
\* _invalidate) is no older than any write of its own whose generation it was compared with.
JudgedCurrent ==
    ~Managed /\ Settled /\ handle.enriched /\ handle.judged = handle.gen => NoOlderThanOwn

\* table.py:943-945: "An enrichment already in flight on another thread read the log before this
\* commit; the generation stops it marking its stale answer as current." What the handle takes for
\* current is no older than its own last write.
EnrichedCurrent == Settled /\ handle.enriched => NoOlderThanOwn

\* table.py:932-934, of _invalidate: "a Table that kept the cache would keep reporting what was true
\* before the call it just made". Of a catalog-managed table too, what was read after the write's
\* generation is no older than the write.
ManagedCurrent ==
    Managed /\ Settled /\ handle.enriched /\ handle.judged = handle.gen => NoOlderThanOwn

\* table.py:1094: "A failure is not cached: a transient vending or network error used to leave this
\* handle refusing every operation for the rest of its life." A handle that takes what it read for
\* current is not one that refuses every read.
FailureNotKept == Settled /\ handle.enriched => ~handle.openError
================================================================================
