------------------------------- MODULE ChangeFeed -------------------------------
(***************************************************************************)
(* The change data feed (table.py cdf, changes, plan_changes; kernel.py cdf; *)
(* deltars.py cdf; distributed.py ChangesPlan). A range of versions is split *)
(* where the schema changed and read part by part, row by row, while writers *)
(* commit, alter the schema, switch the feed off and on and log retention    *)
(* takes old commits. A follower reads on from the version it has got to, is *)
(* restarted where it stopped, and polls; a plan is read by several workers. *)
(*                                                                         *)
(* The table, delta-kernel's TableChanges and delta-rs's load_cdf are        *)
(* external. A version is a record of its columns (name and type in one),    *)
(* of whether the feed is on at it and of how many rows it changed, all      *)
(* inserts; a row is its version and its place in it. A file the reader      *)
(* needs and retention took is a failure of the stream, and so is a file of  *)
(* a version whose columns do not match the schema it is read under.         *)
(***************************************************************************)
EXTENDS Integers, Sequences, FiniteSets, FiniteSetsExt, SequencesExt

CONSTANTS
    Schemas,        \* the sets of columns the table may have, by their order of appearance
    RowCounts,      \* how many rows a commit may change
    Calls,          \* the calls there may be
    Engines,        \* the engines a feed routes to, in the order they are asked
    FeedSchemaWalk, \* _FEED_SCHEMA_WALK: the longest range compared version by version
    SplitRows,      \* changes_split_bytes
    MaxVersion,     \* bound: the last version
    MaxEvents       \* bound: runs of log retention, restarts of the follower, requests that fail and
                    \* files that do not match

VARIABLES
    log,        \* the table's versions
    oldest,     \* the oldest commit log retention has kept
    engines,    \* the engines the feed routes to
    job,        \* the call under way
    consumer,   \* what the follower's consumer has recorded
    work,       \* what the workers have read of each split of the plan
    events      \* how many of the bounded events have happened

vars == <<log, oldest, engines, job, consumer, work, events>>

None == -1
Latest == Len(log) - 1
At(v) == log[v + 1]
RowsAt(v) == {<<v, i>> : i \in 1..At(v).rows}
RowsIn(s, e) == UNION {RowsAt(v) : v \in s..e}

NoCall == [kind |-> "none"]
Idle == [call |-> NoCall, at |-> "idle", segs |-> <<>>, low |-> 0, high |-> 0, pos |-> <<0, 1>>,
         start |-> None, latest |-> 0, got |-> <<>>, buf |-> <<>>, out |-> "none", first |-> 0,
         last |-> 0, under |-> {}, ready |-> <<>>, splits |-> <<>>, enabled |-> FALSE,
         tried |-> 0, stitched |-> FALSE, by |-> {}]

Raise(j) == [j EXCEPT !.at = "done", !.out = "raised"]
Finish(j) == [j EXCEPT !.at = "done", !.out = "ok"]

-----------------------------------------------------------------------------
(* Where the schema changed.                                                *)

\* _schema_reader: the columns at a version.
Fields(v) == At(v).cols
Readable(v) == v \in oldest..Latest

WalkNone(s, e) == <<<<s, e>>>>
\* The walk: a segment starts at s and at every version whose columns differ from the one before.
Walk(s, e) ==
    LET starts == SetToSortSeq({s} \cup {v \in (s + 1)..e : Fields(v) # Fields(v - 1)}, <)
    IN  [i \in DOMAIN starts |->
            <<starts[i], IF i = Len(starts) THEN e ELSE starts[i + 1] - 1>>]

\* The bisection: the version found in lo..hi when every probe asks whether the columns are those
\* of low.
Bisect(low, hi) ==
    LET Probe[lo \in 0..(MaxVersion + 1), top \in 0..(MaxVersion + 1)] ==
            IF lo >= top THEN lo
            ELSE LET mid == (lo + top) \div 2
                 IN  IF Fields(mid) = Fields(low) THEN Probe[mid + 1, top] ELSE Probe[lo, mid]
    IN  Probe[low + 1, hi]
BisectedFrom(s, e) ==
    LET From[low \in 0..MaxVersion] ==
            IF Fields(e) = Fields(low) THEN <<<<low, e>>>>
            ELSE LET next == Bisect(low, e) IN <<<<low, next - 1>>>> \o From[next]
    IN  From[s]

\* _feed_segments; no segments stands for None, where it could not tell or had nothing to split.
FeedSegments(s, end) ==
    LET e == IF end = None THEN Latest ELSE end
    IN  IF ~Readable(e) \/ ~Readable(s) \/ s >= e THEN <<>>
        ELSE IF e - s <= FeedSchemaWalk THEN Walk(s, e)
        ELSE IF Fields(s) = Fields(e) THEN <<<<s, e>>>>
        ELSE BisectedFrom(s, e)

LosesNothing(segs) == FALSE
\* _stitched_cdf: columns an earlier segment has and the next has not.
Loses(segs) ==
    \E i \in 2..Len(segs) : ~(Fields(segs[i][1] - 1) \subseteq Fields(segs[i][1]))

-----------------------------------------------------------------------------
(* What the engines do with a range.                                        *)

\* TableChanges, load_cdf: what opening the range s..e says. The kernel looks at the two ends,
\* delta-rs at every version.
FirstOff(engine, s, e) == {v \in IF engine = "kernel" THEN {s, e} ELSE s..e : ~At(v).on}
OpenError(engine, s, e) ==
    IF e > Latest \/ s > e THEN "range"
    ELSE IF s < oldest THEN "gone"
    ELSE IF FirstOff(engine, s, e) # {} THEN "off"
    ELSE IF engine = "kernel" /\ Fields(s) # Fields(e) THEN "schema"
    ELSE "none"

\* The stream at version v of a part that starts at s: reading on, or the failure it meets, which
\* may be a file whose columns do not match.
StreamError(engine, s, v, mismatched) ==
    IF v < oldest THEN "missing"
    ELSE IF ~At(v).on THEN "off"
    ELSE IF engine = "kernel" /\ Fields(v) # Fields(s) THEN "schema"
    ELSE IF mismatched THEN "mismatch"
    ELSE "none"
MayMismatch(mismatched) ==
    /\ mismatched => events < MaxEvents /\ At(job.pos[1]).rows > 0
    /\ events' = IF mismatched THEN events + 1 ELSE events

\* _feed_schema_change: the last version of low..high at which the columns changed, where every
\* schema down to it can be read.
LastSchemaChange(low, high) ==
    LET changed == {v \in Max({1, low})..high : Fields(v) # Fields(v - 1)}
    IN  IF changed = {} \/ Max(changed) <= oldest THEN None ELSE Max(changed)

\* The version an error of the stream names, as .version: a gap its own, a failure that reads like
\* a schema mismatch the last change of the schema.
NamedVersion(error, v, low, high) ==
    CASE error = "off" -> v
      [] error \in {"schema", "mismatch"} -> LastSchemaChange(low, high)
      [] OTHER -> None

-----------------------------------------------------------------------------
(* cdf().                                                                   *)

\* _cdf: arguments refused before anything is read.
Call(c) ==
    /\ job.at = "idle"
    /\ job' = LET j == [job EXCEPT !.call = c, !.start = c.start, !.first = c.start,
                                 !.enabled = At(Latest).on]
              IN  IF c.kind = "follow" THEN [j EXCEPT !.at = IF c.snapshot THEN "snapshot" ELSE "poll"]
                  ELSE IF c.start # None /\ c.end # None /\ c.start > c.end THEN Raise(j)
                  ELSE IF c.kind = "plan" THEN [j EXCEPT !.at = "plan"]
                  ELSE IF c.start = None THEN [j EXCEPT !.at = "open", !.segs = <<<<None, c.end>>>>]
                  ELSE [j EXCEPT !.at = "segments"]
    /\ consumer' = IF c.kind = "follow" THEN [consumer EXCEPT !.from = c.start] ELSE consumer
    /\ UNCHANGED <<log, oldest, engines, work, events>>

\* Where the range cannot be read under one schema, the warehouse reads it, or it is refused.
HasWarehouse == Last(engines) = "sql"
AskWarehouse(j) ==
    IF HasWarehouse
    THEN [j EXCEPT !.at = "warehouse", !.segs = <<<<j.call.start, j.call.end>>>>, !.got = <<>>]
    ELSE Raise(j)

\* cdf with a start: one read where there is nothing to split, one read for each segment where
\* only columns were added, and where a column went the warehouse or a refusal.
Segments ==
    /\ job.at = "segments"
    /\ \E failed \in BOOLEAN :
           LET c == job.call
               found == IF failed THEN <<>> ELSE FeedSegments(c.start, c.end)
           IN  /\ failed => events < MaxEvents
               /\ events' = IF failed THEN events + 1 ELSE events
               /\ job' = IF Len(found) <= 1 THEN [job EXCEPT !.at = "open", !.segs = <<<<c.start, c.end>>>>]
                         ELSE IF Loses(found) THEN AskWarehouse(job)
                         ELSE [job EXCEPT !.at = "open", !.segs = found, !.stitched = TRUE]
    /\ UNCHANGED <<log, oldest, engines, consumer, work>>

\* The part has been read to its end, and the next is opened, by the first engine.
NextPart(j) ==
    IF Len(j.segs) = 1 THEN [j EXCEPT !.segs = <<>>, !.at = "parts_done"]
    ELSE [j EXCEPT !.segs = Tail(@), !.at = "open", !.tried = 0]

\* _by_version: the rows of each version, in order.
ByVersion(rows) ==
    LET versions == SetToSortSeq({r[1] : r \in Range(rows)}, <)
    IN  [i \in DOMAIN versions |->
            [v |-> versions[i], rows |-> {r \in Range(rows) : r[1] = versions[i]}]]

\* table_changes() reads the range itself, under the latest schema, and may refuse one in which a
\* column went.
Warehouse ==
    /\ job.at = "warehouse"
    /\ LET seg == job.segs[1]
           s == IF seg[1] = None THEN 0 ELSE seg[1]
           e == IF seg[2] = None THEN Latest ELSE seg[2]
           rows == SetToSortSeq(RowsIn(s, e),
                                LAMBDA a, b : a[1] < b[1] \/ (a[1] = b[1] /\ a[2] < b[2]))
           read == [job EXCEPT !.first = s, !.last = e, !.under = {Fields(Latest)}, !.by = @ \cup {"sql"}]
       IN  \/ /\ e > Latest \/ (\E v \in s..e : v < oldest \/ ~At(v).on) \/ Loses(Walk(s, e))
              /\ job' = Raise(job)
           \/ /\ e <= Latest /\ s <= e /\ \A v \in s..e : v >= oldest /\ At(v).on
              /\ job' = IF job.call.kind = "follow"
                        THEN NextPart([read EXCEPT !.ready = ByVersion(rows), !.start = e + 1])
                        ELSE NextPart([read EXCEPT !.got = rows])
    /\ UNCHANGED <<log, oldest, engines, consumer, work, events>>

\* _cdf_enabled_since: the first version of the latest run with the feed on, None while it is off.
EnabledSince ==
    LET off == {v \in oldest..Latest : ~At(v).on}
    IN  IF off = {} THEN oldest ELSE IF Max(off) = Latest THEN None ELSE Max(off) + 1

\* Where a read without a start is tried again after an error: at the oldest commit kept, and
\* where the feed came on. Both engines go version by version while the feed is off, so that a gap
\* after it was on is refused; delta-rs words some of these errors as a table whose feed is off
\* at version 0, and the log is then searched from its end.
OffAtLow(engine, low, e, error) ==
    /\ error = "off" /\ job.call.start = None
    /\ low = Min(FirstOff(engine, low, e))
    /\ job.call.end = None \/ low + 1 <= e
KernelRetry(low, e, error) ==
    CASE error = "gone" /\ job.start = None -> oldest
      [] OffAtLow("kernel", low, e, error) -> low + 1
      [] OTHER -> None
DeltaRsRetry(low, e, error) ==
    CASE error = "gone" /\ job.start = None -> oldest
      [] OffAtLow("deltars", low, e, error) -> low + 1
      [] error = "unrecorded" /\ job.start = None -> EnabledSince
      [] OTHER -> None
Words(engine, error) ==
    IF engine = "deltars" /\ error = "off" THEN {"off", "unrecorded"} ELSE {error}

\* The feed must be on in the properties the handle has.
GuardCdf == ~job.enabled

\* _read: an engine that reaches a limit of its own leaves the range to the next, and the warehouse
\* is asked the range itself.
NextEngine(j) ==
    IF j.tried + 1 >= Len(engines) THEN Raise(j)
    ELSE [j EXCEPT !.tried = @ + 1, !.start = IF j.call.kind = "follow" THEN @ ELSE j.call.start,
                   !.at = IF engines[j.tried + 2] = "sql" THEN "warehouse" ELSE "open"]
Serving == engines[job.tried + 1]

\* cdf of the engines: the range is opened, and a version of it the feed is off at is refused.
Open ==
    /\ job.at = "open" /\ job.ready = <<>>
    /\ LET seg == job.segs[1]
           e == IF seg[2] = None THEN Latest ELSE seg[2]
           low == IF seg[1] # None THEN seg[1] ELSE IF job.start # None THEN job.start ELSE 0
       IN  \E error \in Words(Serving, OpenError(Serving, low, e)) :
               LET retry == IF Serving = "kernel" THEN KernelRetry(low, e, error)
                            ELSE DeltaRsRetry(low, e, error)
               IN  job' = IF GuardCdf THEN Raise(job)
                          ELSE IF error = "none"
                          THEN [job EXCEPT !.at = "stream", !.low = low, !.high = e, !.last = e,
                                    !.first = IF seg[1] = None THEN low ELSE @, !.pos = <<low, 1>>,
                                    !.under = @ \cup {Fields(e)}, !.by = @ \cup {Serving}]
                          ELSE IF error = "schema" THEN NextEngine(job)
                          ELSE IF seg[1] = None /\ retry # None THEN [job EXCEPT !.start = retry]
                          ELSE Raise(job)
    /\ UNCHANGED <<log, oldest, engines, consumer, work, events>>

\* One batch of the feed: a row, or a version that changed none. A stitched feed is read here, and
\* goes to the warehouse where a part turns out not to be readable under its schema.
Advance(pos) == IF pos[2] < At(pos[1]).rows THEN <<pos[1], pos[2] + 1>> ELSE <<pos[1] + 1, 1>>
StreamCdf ==
    /\ job.at = "stream" /\ job.call.kind = "cdf"
    /\ IF job.pos[1] > job.high
       THEN job' = NextPart(job) /\ UNCHANGED events
       ELSE \E mismatched \in BOOLEAN :
                LET v == job.pos[1]
                    error == StreamError(Serving, job.low, v, mismatched)
                    changed == NamedVersion(error, v, job.low, job.high)
                IN  /\ MayMismatch(mismatched)
                    /\ job' = IF error = "none"
                              THEN [job EXCEPT !.got = IF At(v).rows > 0 THEN Append(@, job.pos) ELSE @,
                                               !.pos = Advance(@)]
                              ELSE IF job.stitched /\ error \in {"schema", "mismatch"} /\ changed # None
                              THEN AskWarehouse(job)
                              ELSE Raise(job)
    /\ UNCHANGED <<log, oldest, engines, consumer, work>>

CdfDone ==
    /\ job.at = "parts_done" /\ job.call.kind = "cdf"
    /\ job' = Finish(job)
    /\ UNCHANGED <<log, oldest, engines, consumer, work, events>>

-----------------------------------------------------------------------------
(* changes(): a follower.                                                   *)

\* _snapshot_as_inserts: the table as of the start, every row an insert of that version.
Snapshot ==
    /\ job.at = "snapshot"
    /\ job' = IF Readable(job.start)
              THEN [job EXCEPT !.at = "poll", !.start = @ + 1,
                        !.ready = <<[v |-> job.start, rows |-> RowsIn(0, job.start)]>>]
              ELSE Raise(job)
    /\ consumer' = [consumer EXCEPT !.booted = Readable(job.start)]
    /\ UNCHANGED <<log, oldest, engines, work, events>>

\* One turn of the loop: the latest version, and the segments up to it.
Poll ==
    /\ job.at = "poll" /\ job.ready = <<>>
    /\ Latest >= job.start \/ ~job.call.polling
    /\ \E failed \in BOOLEAN :
           LET found == IF failed THEN <<>> ELSE FeedSegments(job.start, Latest)
           IN  /\ failed => events < MaxEvents
               /\ events' = IF failed THEN events + 1 ELSE events
               /\ job' = IF Latest < job.start THEN Finish(job)
                         ELSE [job EXCEPT !.at = "open", !.latest = Latest, !.enabled = At(Latest).on,
                                   !.tried = 0,
                                   !.segs = IF found = <<>> THEN <<<<job.start, Latest>>>> ELSE found]
    /\ UNCHANGED <<log, oldest, engines, consumer, work>>

\* _stream_by_version over the kernel's feed: a version is complete once a row of a later one
\* comes or the part ends, and is taken to be so by a failure that names a version after it; any
\* other failure may have cut it. delta-rs's feed is read whole before its versions are yielded.
FlushAlways(named, top) == TRUE
FlushOn(named, top) == named > top
StreamFails(error, v) ==
    LET top == IF job.buf = <<>> THEN None ELSE Last(job.buf)[1]
        flushed == /\ Serving = "kernel" /\ job.buf # <<>>
                   /\ FlushOn(NamedVersion(error, v, job.low, job.high), top)
    IN  /\ job' = [job EXCEPT !.at = "raising", !.buf = <<>>,
                             !.ready = IF flushed THEN ByVersion(job.buf) ELSE <<>>]
        /\ consumer' = IF flushed /\ error = "mismatch" /\ top = v
                       THEN [consumer EXCEPT !.cut = @ \cup {v}] ELSE consumer
StreamReads(v) ==
    /\ job' = LET read == [job EXCEPT !.pos = Advance(@)]
              IN  IF At(v).rows = 0 THEN read
                  ELSE IF Serving = "kernel" /\ job.buf # <<>> /\ v > Last(job.buf)[1]
                  THEN [read EXCEPT !.ready = ByVersion(job.buf), !.buf = <<job.pos>>]
                  ELSE [read EXCEPT !.buf = Append(@, job.pos)]
    /\ UNCHANGED consumer
PartEnds ==
    /\ job' = NextPart([job EXCEPT !.ready = ByVersion(job.buf), !.buf = <<>>, !.start = job.high + 1])
    /\ UNCHANGED <<consumer, events>>
StreamFollow ==
    /\ job.at = "stream" /\ job.call.kind = "follow" /\ job.ready = <<>>
    /\ LET v == job.pos[1]
       IN  \/ v > job.high /\ PartEnds
           \/ /\ v <= job.high
              /\ \E mismatched \in BOOLEAN :
                     LET error == StreamError(Serving, job.low, v, mismatched)
                     IN  /\ MayMismatch(mismatched)
                         /\ IF error = "none" THEN StreamReads(v) ELSE StreamFails(error, v)
    /\ UNCHANGED <<log, oldest, engines, work>>

\* The generator hands over one version; the consumer records it with its work.
Yield ==
    /\ job.ready # <<>>
    /\ consumer' = [consumer EXCEPT !.yields = Append(@, job.ready[1]), !.last = job.ready[1].v]
    /\ job' = [job EXCEPT !.ready = Tail(@)]
    /\ UNCHANGED <<log, oldest, engines, work, events>>

FollowRaises ==
    /\ job.at = "raising" /\ job.ready = <<>>
    /\ job' = Raise(job)
    /\ UNCHANGED <<log, oldest, engines, consumer, work, events>>

TurnDone ==
    /\ job.at = "parts_done" /\ job.call.kind = "follow" /\ job.ready = <<>>
    /\ job' = LET j == [job EXCEPT !.start = job.latest + 1]
              IN  IF job.call.polling THEN [j EXCEPT !.at = "poll"] ELSE Finish(j)
    /\ UNCHANGED <<log, oldest, engines, consumer, work, events>>

\* The consumer's process dies, or gives up on an error, and resumes after the last version it
\* recorded.
ResumeAt(c) == IF consumer.last = None THEN c.start ELSE consumer.last + 1
Restart ==
    /\ job.call.kind = "follow"
    /\ events < MaxEvents
    /\ events' = events + 1
    /\ job' = [Idle EXCEPT !.call = job.call, !.start = ResumeAt(job.call),
                   !.at = IF job.call.snapshot /\ consumer.last = None THEN "snapshot" ELSE "poll"]
    /\ UNCHANGED <<log, oldest, engines, consumer, work>>

-----------------------------------------------------------------------------
(* plan_changes(): a feed read by workers.                                  *)

\* Runs of whole commits: a run is closed once it holds enough, and at the end.
Splits(s, e) ==
    LET Weight(v) == IF v = 0 THEN SplitRows ELSE At(v).rows
        Add(acc, v) ==
            LET held == acc.held + Weight(v)
            IN  IF held >= SplitRows \/ v = e
                THEN [done |-> Append(acc.done, <<acc.low, v>>), low |-> v + 1, held |-> 0]
                ELSE [acc EXCEPT !.held = held]
    IN  FoldLeft(Add, [done |-> <<>>, low |-> s, held |-> 0],
                 [i \in 1..(e - s + 1) |-> s + i - 1]).done
Unread == [done |-> FALSE, rows |-> {}]
\* _commit_weights reads every commit of the range, and refuses one that leaves the feed off.
OffWithin(s, e) == \E v \in s..e : ~At(v).on

\* An engine that opens the range: a limit of the kernel's leaves it to the next.
Opens(s, e) ==
    CASE OpenError("kernel", s, e) = "none" -> TRUE
      [] OpenError("kernel", s, e) = "schema" ->
             Len(engines) > 1 /\ (engines[2] = "deltars" => OpenError("deltars", s, e) = "none")
      [] OTHER -> FALSE

\* The end is pinned; a range over a schema change, or with the feed off in it, is refused here.
Plan ==
    /\ job.at = "plan"
    /\ \E failed \in BOOLEAN :
           LET s == job.call.start
               e == IF job.call.end = None THEN Latest ELSE job.call.end
               found == IF failed THEN <<>> ELSE FeedSegments(s, e)
               refused == \/ engines[1] # "kernel" \/ e > Latest \/ s > e
                          \/ Len(found) > 1
                          \/ GuardCdf \/ ~Opens(s, e)
                          \/ OffWithin(s, e)
           IN  /\ failed => events < MaxEvents
               /\ events' = IF failed THEN events + 1 ELSE events
               /\ job' = IF refused THEN Raise(job)
                         ELSE [job EXCEPT !.at = "planned", !.last = e, !.splits = Splits(s, e)]
               /\ work' = IF refused THEN work ELSE [i \in DOMAIN Splits(s, e) |-> Unread]
    /\ UNCHANGED <<log, oldest, engines, consumer>>

\* ChangesPlan.read: a worker reads a run of commits, again after a failure.
WorkerReads(i) ==
    /\ job.at = "planned" /\ ~work[i].done
    /\ LET low == job.splits[i][1]
           high == job.splits[i][2]
           fails == \/ OpenError("kernel", low, high) # "none"
                    \/ \E v \in low..high : StreamError("kernel", low, v, FALSE) # "none"
       IN  work' = IF fails THEN work ELSE [work EXCEPT ![i] = [done |-> TRUE, rows |-> RowsIn(low, high)]]
    /\ UNCHANGED <<log, oldest, engines, job, consumer, events>>

-----------------------------------------------------------------------------
(* The table.                                                               *)

Commit(cols, on, rows) ==
    /\ Latest < MaxVersion
    /\ log' = Append(log, [cols |-> cols, on |-> on, rows |-> rows])
    /\ UNCHANGED <<oldest, engines, job, consumer, work, events>>
CommitRows(n) == Commit(At(Latest).cols, At(Latest).on, n)
AlterSchema(cols) == cols # At(Latest).cols /\ Commit(cols, At(Latest).on, 0)
SwitchFeed == Commit(At(Latest).cols, ~At(Latest).on, 0)
CleanUpLog(v) ==
    /\ events < MaxEvents
    /\ v > oldest /\ v <= Latest
    /\ oldest' = v
    /\ events' = events + 1
    /\ UNCHANGED <<log, engines, job, consumer, work>>

Init ==
    /\ \E on \in BOOLEAN : log = <<[cols |-> Schemas[1], on |-> on, rows |-> 1]>>
    /\ oldest = 0
    /\ engines \in Engines
    /\ job = Idle
    /\ consumer = [from |-> 0, booted |-> FALSE, yields |-> <<>>, last |-> None,
                   cut |-> {}]
    /\ work = <<>>
    /\ events = 0

Reader ==
    \/ Segments \/ Warehouse \/ Open \/ StreamCdf \/ CdfDone
    \/ Snapshot \/ Poll \/ StreamFollow \/ Yield \/ FollowRaises \/ TurnDone
    \/ Plan \/ \E i \in DOMAIN work : WorkerReads(i)
Next ==
    \/ Reader
    \/ \E c \in Calls : Call(c)
    \/ Restart
    \/ \E n \in RowCounts : CommitRows(n)
    \/ \E cols \in Range(Schemas) : AlterSchema(cols)
    \/ SwitchFeed
    \/ \E v \in 0..MaxVersion : CleanUpLog(v)

\* The caller's thread runs on: it reads, and polls again after each interval.
Spec == Init /\ [][Next]_vars /\ WF_vars(Reader)

-----------------------------------------------------------------------------
(* Properties.                                                              *)

\* A feed that is returned (table.py _cdf, _stitched_cdf, kernel.py cdf) has the changes of every
\* version of its range once, in order, with the feed on throughout, and the kernel's has every
\* row's columns as they were written, under the schema of the end of the range. A feed asked for
\* without a start leaves out nothing the kernel could have read.
FeedExact ==
    job.call.kind = "cdf" /\ job.out = "ok" =>
        /\ Range(job.got) = RowsIn(job.first, job.last)
        /\ Len(job.got) = Cardinality(RowsIn(job.first, job.last))
        /\ \A i \in 1..(Len(job.got) - 1) : job.got[i][1] <= job.got[i + 1][1]
        /\ \A v \in job.first..job.last : At(v).on
        /\ job.by = {"kernel"} =>
               /\ UNION job.under = Fields(job.last)
               /\ \A r \in Range(job.got) : Fields(r[1]) \subseteq Fields(job.last)
               /\ job.call.start = None => \A v \in oldest..(job.first - 1) : ~At(v).on

\* A consumer that applies every version the follower yields (table.py changes,
\* _stream_by_version) has the table as of the last one: versions come in order and once, none that
\* changed rows is left out and each is whole, over errors, restarts, gaps of the feed and changes
\* of the schema. What can be missing is the rest of a version whose stream broke within it on
\* columns that do not match, in a range whose schema changes later on: the case VersionsWhole
\* speaks of.
FollowerExact ==
    LET yields == consumer.yields
        from == IF consumer.booted THEN 0 ELSE consumer.from
        applied == UNION {yields[i].rows : i \in DOMAIN yields}
    IN  /\ \A i \in 1..(Len(yields) - 1) : yields[i].v < yields[i + 1].v
        /\ yields # <<>> =>
               /\ applied \subseteq RowsIn(from, consumer.last)
               /\ \A r \in RowsIn(from, consumer.last) \ applied : r[1] \in consumer.cut

\* Every version the follower yields is complete (table.py:5714, "every commit before it: those are
\* complete"): its consumer never records a version of which it has only a part.
VersionsWhole ==
    \A i \in DOMAIN consumer.yields :
        LET y == consumer.yields[i]
        IN  y.rows = IF i = 1 /\ consumer.booted THEN RowsIn(0, y.v) ELSE RowsAt(y.v)

\* The runs of a plan (table.py plan_changes) hold every commit of the range once, so workers that
\* have each read their own have read what one reader would have.
PlanExact ==
    job.at = "planned" =>
        /\ \A v \in job.call.start..job.last :
               Cardinality({i \in DOMAIN job.splits : v \in job.splits[i][1]..job.splits[i][2]}) = 1
        /\ (\A i \in DOMAIN work : work[i].done) =>
               UNION {work[i].rows : i \in DOMAIN work} = RowsIn(job.call.start, job.last)

\* A feed, read by one reader (Table.cdf) or by the workers of a plan (plan_changes), is exact.
FeedsExact == FeedExact /\ PlanExact

\* A polling follower gets past every change of the schema (table.py changes): while the feed stays
\* on, the log is kept and no schema comes back, each version that changed rows is yielded.
SchemaComesBack ==
    \E u, v, w \in 0..Latest :
        u < v /\ v < w /\ At(u).cols = At(w).cols /\ At(u).cols # At(v).cols
Healthy ==
    /\ oldest = 0 /\ events = 0
    /\ \A v \in 0..Latest : At(v).on
    /\ ~SchemaComesBack
Following == job.call.kind = "follow" /\ job.call.polling /\ job.out = "none"
FollowerCatchesUp ==
    \A n \in 1..MaxVersion :
        (Following /\ Healthy /\ n \in consumer.from..Latest /\ At(n).rows > 0)
            ~> (consumer.last >= n \/ ~Healthy)
===============================================================================
