-------------------------------- MODULE Sharing --------------------------------
(***************************************************************************)
(* Reads of a shared table (engine/sharing.py, catalog/sharing.py).         *)
(* SharingEngine asks the provider's server for the files of a version or   *)
(* for the changes of a range, downloads them one by one over presigned     *)
(* links and filters what they hold. The table moves on meanwhile, links    *)
(* expire and are issued again by the same query, and the server may answer *)
(* with Delta log lines, which are downloaded whole and replayed.           *)
(*                                                                         *)
(* The server, its table and the object store are external. A version is a  *)
(* record of its files, of the rows its deletion vectors delete, of the     *)
(* files whose columns are named physically and of the changes it made; a   *)
(* link is the number of the query that issued it; a row is its file and    *)
(* its place there. A timestamp is the number of the version it names.      *)
(***************************************************************************)
EXTENDS Integers, Sequences, FiniteSets, FiniteSetsExt, SequencesExt

CONSTANTS
    Content,    \* the values of the column filtered on, by its Delta type ("long" or "double"),
                \* by file and by place
    Calls,      \* the calls there may be
    Servers,    \* the servers there may be, each with the bound on the versions of its table
    MaxExpiries,\* bound: how often the links issued so far expire
    MaxFaults   \* bound: downloads and requests that fail on the way

VARIABLES
    server,     \* the server: the column's type, what it shares and how it answers
    log,        \* the versions of the shared table
    gone,       \* the files the provider has vacuumed
    issued,     \* how many queries have issued links
    dead,       \* links of this and of earlier queries have expired
    resolved,   \* ResolvedTable: whether the table needs the delta format
    job,        \* the call under way
    faults,     \* how many downloads and requests have failed
    expiries    \* how often links have expired

vars == <<server, log, gone, issued, dead, resolved, job, faults, expiries>>

None == -1
\* A NaN is above every number; NULL compares with nothing.
NaN == 1000
Null == -1000
\* The width of the integer column.
IntMin == -4
IntMax == 3
Wrapped(x) == ((x - IntMin) % (IntMax - IntMin + 1)) + IntMin

ColumnType == server.type
Values == Content[ColumnType]
Latest == Len(log)
Rows(fs) == UNION {{<<f, i>> : i \in DOMAIN Values[f]} : f \in fs}
ValueOf(r) == Values[r[1]][r[2]]

-----------------------------------------------------------------------------
(* Predicates: a leaf compares the column with a literal; and, or join      *)
(* leaves.                                                                  *)

Compare(op, v, x) ==
    CASE op = "eq" -> v = x
      [] op = "ne" -> v # x
      [] op = "lt" -> v < x
      [] op = "le" -> v <= x
      [] op = "gt" -> v > x
      [] op = "ge" -> v >= x
LeafTrue(leaf, v) ==
    CASE leaf.op = "is_null" -> v = Null
      [] leaf.op = "is_not_null" -> v # Null
      [] OTHER -> v # Null /\ Compare(leaf.op, v, leaf.x)

\* filter_arrow_exact: whether the predicate is TRUE of the value; there may be no predicate.
Matches(p, v) ==
    CASE p.op = "none" -> TRUE
      [] p.op = "and" -> \A leaf \in p.args : LeafTrue(leaf, v)
      [] p.op = "or" -> \E leaf \in p.args : LeafTrue(leaf, v)
      [] OTHER -> LeafTrue(p, v)

\* _conjuncts: the top-level terms.
Conjuncts(p) == IF p.op = "and" THEN p.args ELSE {p}

\* _hint_leaf: the conjuncts a server may skip files by. Statistics leave NaN out, so a double
\* gives no hint a NaN would satisfy; an integer literal must fit the column.
HintLeafNaN(leaf) ==
    \/ leaf.op \in {"is_null", "is_not_null"}
    \/ /\ leaf.op \in {"eq", "ne", "lt", "le", "gt", "ge"}
       /\ ColumnType = "long" => leaf.x \in IntMin..IntMax
HintLeaf(leaf) ==
    \/ leaf.op \in {"is_null", "is_not_null"}
    \/ /\ leaf.op \in {"eq", "ne", "lt", "le", "gt", "ge"}
       /\ ColumnType = "long" => leaf.x \in IntMin..IntMax
       /\ ColumnType = "double" => leaf.op \notin {"ne", "gt", "ge"}

\* json_predicate_hints
JsonPredicateHints(p) == IF p.op = "none" THEN {} ELSE {leaf \in Conjuncts(p) : HintLeaf(leaf)}

\* Whether the statistics of a file show that no row of it satisfies the hint.
StatsRefute(f, leaf) ==
    LET all == {Values[f][i] : i \in DOMAIN Values[f]}
        known == all \ {Null, NaN}
        x == IF ColumnType = "long" THEN Wrapped(leaf.x) ELSE leaf.x
    IN  CASE leaf.op = "is_null" -> Null \notin all
          [] leaf.op = "is_not_null" -> all = {Null}
          [] OTHER -> \/ all = {Null}
                      \/ /\ known # {}
                         /\ CASE leaf.op = "eq" -> x < Min(known) \/ x > Max(known)
                              [] leaf.op = "ne" -> known = {x}
                              [] leaf.op = "lt" -> Min(known) >= x
                              [] leaf.op = "le" -> Min(known) > x
                              [] leaf.op = "gt" -> Max(known) <= x
                              [] leaf.op = "ge" -> Max(known) < x

-----------------------------------------------------------------------------
(* The server's answers.                                                    *)

Sorted(S) == SetToSortSeq(S, <)
NeedsDelta(v) == log[v].dv # {} \/ log[v].physical # {}

\* The version a request names; the latest if none.
Named(version, timestamp) ==
    IF version # None THEN version ELSE IF timestamp # None THEN timestamp ELSE Latest

\* A version the table does not have, or an earlier one where history is not shared, is refused.
Refuses(version, timestamp) ==
    LET v == Named(version, timestamp)
    IN  v \notin 1..Latest \/ (~server.history /\ v # Latest)

\* The files of version v: all, less those it may skip, and no more than the limit hint needs.
FilesHinted(v, hints, limitHint) ==
    LET kept == {f \in log[v].files : ~(server.skips /\ \E h \in hints : StatsRefute(f, h))}
        order == Sorted(kept)
        RowsTo(n) == Cardinality(Rows({order[i] : i \in 1..n}) \ log[v].dv)
        enough == {n \in 0..Len(order) : limitHint # None /\ server.skips /\ RowsTo(n) >= limitHint}
    IN  IF enough = {} THEN order ELSE SubSeq(order, 1, Min(enough))

\* How a request for parquet is answered: with files, with Delta log lines, or not at all.
\* No list of files can say what a deletion vector deletes.
FormatFor(v) ==
    IF log[v].dv # {} /\ server.mapped = "parquet" THEN "refuse"
    ELSE IF log[v].dv # {} \/ log[v].physical # {} THEN server.mapped
    ELSE server.plain

\* The changes of the versions from s to e, in order.
ChangesOf(s, e) ==
    LET Of(v) == Sorted({a[2] : a \in log[v].changes})
        Kind(v, f) == (CHOOSE a \in log[v].changes : a[2] = f)[1]
    IN  FoldLeft(LAMBDA acc, v :
                     acc \o [i \in DOMAIN Of(v) |-> [kind |-> Kind(v, Of(v)[i]), id |-> Of(v)[i],
                                                    version |-> v]],
                 <<>>, [i \in 1..(e - s + 1) |-> s + i - 1])

-----------------------------------------------------------------------------
(* The call under way.                                                      *)

NoCall == [kind |-> "none"]
Idle == [call |-> NoCall, at |-> "idle", hints |-> {}, todo |-> <<>>, link |-> 0, pinned |-> 0,
         book |-> [k \in {} |-> 0], here |-> {}, got |-> <<>>, pages |-> <<>>, seen |-> {},
         token |-> 1, streaming |-> FALSE, out |-> "none", causes |-> {}]

\* Everything of a call ends it, with what went wrong outside of it. An error inside the stream
\* reaches the caller as ArrowInvalid.
Raise(j, cause) ==
    [j EXCEPT !.at = "done", !.out = IF j.streaming THEN "arrow_invalid" ELSE "raised",
              !.causes = @ \cup cause]
Finish(j) == [j EXCEPT !.at = "done", !.out = "ok"]

\* scan, cdf: the arguments refused before any request.
BadArguments(c) ==
    CASE c.kind = "scan" ->
             (c.version # None /\ c.timestamp # None) \/ c.limit < None \/ c.version < None
      [] c.kind = "cdf" -> c.start # None /\ c.end # None /\ c.start > c.end
      [] OTHER -> FALSE

Call(c) ==
    /\ job.at = "idle"
    /\ job' = LET j == [job EXCEPT !.call = c]
              IN  IF BadArguments(c) THEN Raise(j, {"arguments"})
                  ELSE [j EXCEPT !.at = CASE c.kind = "list" -> "page"
                                          [] c.kind = "cdf" -> "list_changes"
                                          [] OTHER -> IF c.p.op # "none" THEN "hints" ELSE "list"]
    /\ UNCHANGED <<server, log, gone, issued, dead, resolved, faults, expiries>>

\* _hints: the types come from the metadata, and a failure costs only the hints.
Hints ==
    /\ job.at = "hints"
    /\ \/ /\ job' = [job EXCEPT !.at = "list", !.hints = JsonPredicateHints(job.call.p)]
          /\ UNCHANGED faults
       \/ /\ faults < MaxFaults
          /\ faults' = faults + 1
          /\ job' = [job EXCEPT !.at = "list"]
    /\ UNCHANGED <<server, log, gone, issued, dead, resolved, expiries>>

\* The limit is sent as a hint only where no predicate picks the rows.
LimitHint(c) == IF c.p.op = "none" THEN c.limit ELSE None

\* _check_url
LinkRefused == server.links \in {"http", "private", "file"}
\* _refuse_private_peer, _CheckedRedirect: what only the connection shows.
PeerRefused == server.links \in {"name_of_private", "redirects_to_private"}

\* The one query of a scan: list_files_in_table, asked for the delta format where the table as
\* resolved needs it.
List ==
    /\ job.at = "list"
    /\ LET c == job.call
           v == Named(c.version, c.timestamp)
           files == FilesHinted(v, job.hints, LimitHint(c))
           listed == [job EXCEPT !.pinned = v, !.link = issued + 1,
                          !.todo = [i \in DOMAIN files |->
                                       [kind |-> "add", id |-> files[i], version |-> v]]]
       IN  \/ /\ Refuses(c.version, c.timestamp)
              /\ job' = Raise(job, {"refused"})
              /\ UNCHANGED issued
           \/ /\ ~Refuses(c.version, c.timestamp)
              /\ issued' = issued + 1
              /\ job' = IF ~resolved /\ FormatFor(v) = "refuse" THEN Raise(job, {"refused"})
                        ELSE IF LinkRefused /\ files # <<>> THEN Raise(job, {"link"})
                        ELSE [listed EXCEPT !.at = IF resolved \/ FormatFor(v) = "lines"
                                                   THEN "localize" ELSE "read"]
    /\ UNCHANGED <<server, log, gone, dead, resolved, faults, expiries>>

\* list_table_changes. With neither start given the feed is read from the first version on.
Start(c) == IF c.start = None THEN 1 ELSE c.start
ListChanges ==
    /\ job.at = "list_changes"
    /\ LET c == job.call
           e == IF c.end = None THEN Latest ELSE c.end
           listed == [job EXCEPT !.pinned = e, !.link = issued + 1, !.todo = ChangesOf(Start(c), e)]
       IN  IF ~server.history \/ Start(c) \notin 1..Latest \/ e > Latest
           THEN job' = Raise(job, {"refused"}) /\ UNCHANGED issued
           ELSE /\ issued' = issued + 1
                /\ job' = IF ~resolved /\ FormatFor(Latest) = "refuse" THEN Raise(job, {"refused"})
                          ELSE IF LinkRefused /\ listed.todo # <<>> THEN Raise(job, {"link"})
                          ELSE [listed EXCEPT !.at = IF resolved \/ FormatFor(Latest) = "lines"
                                                     THEN "localize" ELSE "read"]
    /\ UNCHANGED <<server, log, gone, dead, resolved, faults, expiries>>

-----------------------------------------------------------------------------
(* Downloads.                                                               *)

\* _action_key: the same file is added in one version and removed in a later one. The files of
\* a scan go by their ids.
KeyOf(a) == IF job.call.kind = "scan" THEN <<a.id>> ELSE <<a.kind, a.id, a.version>>
\* _UrlBook.url
UrlOf(a) == IF KeyOf(a) \in DOMAIN job.book THEN job.book[KeyOf(a)] ELSE job.link

\* What one action gives: the rows of its file, with the change and the version in a change feed.
RowsOf(j, a) ==
    [i \in DOMAIN Values[a.id] |->
        IF j.call.kind = "scan" THEN <<a.id, i>> ELSE <<a.id, i, a.kind, a.version>>]

\* _read_file: a file that holds none of the table's columns is refused, its names are physical.
\* The file of a cdc action holds _change_type at least; _conform fills its other columns with
\* nulls.
IsPhysical(a) == a.id \in log[a.version].physical
NamesAreStrange(a) == a.kind # "cdc" /\ IsPhysical(a)
Conform(a, rows) ==
    IF IsPhysical(a) THEN [i \in DOMAIN rows |-> <<a.id, 0, a.kind, a.version>>] ELSE rows

Filtered(p, rows) ==
    SelectSeq(rows, LAMBDA r : Matches(p, IF r[2] = 0 THEN Null ELSE ValueOf(r)))
Limited(c, got) ==
    IF c.kind = "scan" /\ c.limit # None THEN SubSeq(got, 1, Min({c.limit, Len(got)})) ELSE got

\* The next file of the stream has been downloaded. The reader is returned with its first rows.
Deliver(j, a) ==
    LET got == Limited(j.call, j.got \o Filtered(j.call.p, Conform(a, RowsOf(j, a))))
        next == [j EXCEPT !.todo = Tail(@), !.got = got, !.at = "read",
                          !.streaming = j.call.kind = "scan" /\ got # <<>>]
    IN  IF NamesAreStrange(a) THEN Raise(j, {"columns"}) ELSE next

StreamDone(j) ==
    \/ j.todo = <<>>
    \/ j.call.kind = "scan" /\ j.call.limit # None /\ Len(j.got) >= j.call.limit

Refused(a) == PeerRefused \/ LinkRefused \/ a.id \in gone
Download(a, link, expired) ==
    \/ /\ link <= dead
       /\ job' = expired
       /\ UNCHANGED faults
    \/ /\ link > dead /\ Refused(a)
       /\ job' = Raise(job, {"download"})
       /\ UNCHANGED faults
    \/ /\ link > dead /\ ~Refused(a)
       /\ job' = Deliver(job, a)
       /\ UNCHANGED faults
    \/ /\ faults < MaxFaults
       /\ faults' = faults + 1
       /\ job' = Raise(job, {"download"})

Read ==
    /\ job.at = "read"
    /\ IF StreamDone(job)
       THEN job' = Finish(job) /\ UNCHANGED faults
       ELSE LET a == job.todo[1]
            IN  Download(a, UrlOf(a), [job EXCEPT !.at = "renew"])
    /\ UNCHANGED <<server, log, gone, issued, dead, resolved, expiries>>

\* _UrlBook.renew with the answer to the refreshing query: none of it, an exception of the query
\* included, means the expiry is raised.
Renewed(j, keys) ==
    IF KeyOf(j.todo[1]) \in keys
    THEN [j EXCEPT !.at = "reread", !.book = [k \in keys |-> issued + 1]]
    ELSE Raise(j, {})
NotRenewed(j, cause) == Raise(j, cause)
RenewalFails ==
    /\ faults < MaxFaults /\ faults' = faults + 1
    /\ job' = NotRenewed(job, {"request"})
    /\ UNCHANGED <<server, log, gone, issued, dead, resolved, expiries>>

FileKeys(v, c) ==
    LET files == FilesHinted(v, job.hints, LimitHint(c)) IN {<<files[i]>> : i \in DOMAIN files}

\* refresh of a scan: the same query again. If the table has moved on it answers for another
\* version, and then the one being read is asked for; if it is refused that version
\* ("moved"), nothing more is asked.
RenewUnpinned ==
    /\ job.at = "renew" /\ job.call.kind = "scan"
    /\ LET c == job.call
           v == Named(c.version, c.timestamp)
       IN  IF Refuses(c.version, c.timestamp)
           THEN job' = NotRenewed(job, {"refused"}) /\ UNCHANGED issued
           ELSE /\ issued' = issued + 1
                /\ job' = Renewed(job, FileKeys(v, c))
    /\ UNCHANGED <<server, log, gone, dead, resolved, faults, expiries>>
Renew ==
    /\ job.at = "renew" /\ job.call.kind = "scan"
    /\ LET c == job.call
           v == Named(c.version, c.timestamp)
       IN  IF Refuses(c.version, c.timestamp)
           THEN job' = NotRenewed(job, {"refused"}) /\ UNCHANGED issued
           ELSE /\ issued' = issued + 1
                /\ job' = IF FormatFor(v) = "refuse" THEN NotRenewed(job, {"moved"})
                          ELSE IF v = job.pinned THEN Renewed(job, FileKeys(v, c))
                          ELSE [job EXCEPT !.at = "renew_pinned"]
    /\ UNCHANGED <<server, log, gone, dead, resolved, faults, expiries>>
RenewFails == job.at \in {"renew", "renew_pinned"} /\ RenewalFails
RenewPinned ==
    /\ job.at = "renew_pinned"
    /\ IF Refuses(job.pinned, None)
       THEN job' = NotRenewed(job, {"refused"}) /\ UNCHANGED issued
       ELSE /\ issued' = issued + 1
            /\ job' = Renewed(job, FileKeys(job.pinned, job.call))
    /\ UNCHANGED <<server, log, gone, dead, resolved, faults, expiries>>

\* refresh of a change feed: the same range again, which has grown if it has no end. An answer in
\* Delta lines has no actions to iterate, and the TypeError is swallowed like a refusal.
RenewChanges ==
    /\ job.at = "renew" /\ job.call.kind = "cdf"
    /\ LET c == job.call
           again == ChangesOf(Start(c), IF c.end = None THEN Latest ELSE c.end)
       IN  /\ issued' = issued + 1
           /\ job' = IF FormatFor(Latest) # "parquet" THEN NotRenewed(job, {"moved"})
                     ELSE Renewed(job, {KeyOf(again[i]) : i \in DOMAIN again})
    /\ UNCHANGED <<server, log, gone, dead, resolved, faults, expiries>>

\* _read_file with the renewed link; it may have expired as well.
Reread ==
    /\ job.at = "reread"
    /\ LET a == job.todo[1] IN Download(a, UrlOf(a), Raise(job, {"expired again"}))
    /\ UNCHANGED <<server, log, gone, issued, dead, resolved, expiries>>

-----------------------------------------------------------------------------
(* Delta log lines.                                                         *)

\* _localize: the files are downloaded by several threads, in any order, and no link is renewed.
Localize(i) ==
    /\ job.at = "localize"
    /\ i \in DOMAIN job.todo \ job.here
    /\ \/ /\ job.link > dead /\ ~Refused(job.todo[i])
          /\ job' = [job EXCEPT !.here = @ \cup {i}]
          /\ UNCHANGED faults
       \/ /\ job.link <= dead \/ Refused(job.todo[i])
          /\ job' = Raise(job, {"download"})
          /\ UNCHANGED faults
       \/ /\ faults < MaxFaults
          /\ faults' = faults + 1
          /\ job' = Raise(job, {"download"})
    /\ UNCHANGED <<server, log, gone, issued, dead, resolved, expiries>>

\* _replay_cdf_lines: the commits written for the replay, from the first version it has or was
\* asked for to the last.
ReplayFirst(c, todo) ==
    LET versions == {todo[i].version : i \in DOMAIN todo}
    IN  IF c.start = None THEN Min(versions \cup {1}) ELSE Min(versions \cup {c.start})
ReplayedChanges(c, todo) ==
    LET Replayed(v) == SelectSeq(todo, LAMBDA a : a.version = v)
        first == ReplayFirst(c, todo)
        last == Max({todo[i].version : i \in DOMAIN todo})
    IN  IF todo = <<>> THEN <<>>
        ELSE FoldLeft(LAMBDA acc, v : acc \o Replayed(v), <<>>,
                      [i \in 1..(last - first + 1) |-> first + i - 1])

\* _replay_delta_log: the kernel reads the copies and applies the deletion vectors.
ReplayedScan(j) ==
    FoldLeft(LAMBDA acc, a :
                 acc \o SelectSeq(RowsOf(j, a), LAMBDA r : r \notin log[j.pinned].dv),
             <<>>, j.todo)

\* _finish: the predicate, then the limit.
Replay ==
    /\ job.at = "localize" /\ job.here = DOMAIN job.todo
    /\ LET c == job.call
           rows == IF c.kind = "scan" THEN ReplayedScan(job)
                   ELSE FoldLeft(LAMBDA acc, a : acc \o RowsOf(job, a), <<>>,
                                 ReplayedChanges(c, job.todo))
       IN  job' = Finish([job EXCEPT !.got = Limited(c, Filtered(c.p, rows))])
    /\ UNCHANGED <<server, log, gone, issued, dead, resolved, faults, expiries>>

-----------------------------------------------------------------------------
(* Listings and the world around.                                           *)

\* SharingCatalog._paged: pages are followed by their tokens, and a token met before is refused.
\* The server's pages are a function from a token to its items and the next token, 0 after the last.
PageUnseen ==
    /\ job.at = "page"
    /\ LET page == server.pages[job.token]
           j == [job EXCEPT !.pages = IF Len(@) < 4 THEN @ \o page.items ELSE @, !.token = page.next]
       IN  job' = IF page.next = 0 THEN Finish(j) ELSE j
    /\ UNCHANGED <<server, log, gone, issued, dead, resolved, faults, expiries>>
Page ==
    /\ job.at = "page"
    /\ LET page == server.pages[job.token]
           j == [job EXCEPT !.pages = @ \o page.items, !.seen = @ \cup {page.next},
                            !.token = page.next]
       IN  job' = IF page.next = 0 THEN Finish(j)
                  ELSE IF page.next \in job.seen THEN Raise(j, {"repeated"}) ELSE j
    /\ UNCHANGED <<server, log, gone, issued, dead, resolved, faults, expiries>>

\* SharingCatalog.resolve, _delta_format_features: the features the server reports.
Resolve ==
    /\ job.at = "idle"
    /\ resolved' = NeedsDelta(Latest)
    /\ UNCHANGED <<server, log, gone, issued, dead, job, faults, expiries>>

\* The provider commits.
Commit(version) ==
    /\ Latest < server.versions
    /\ log' = Append(log, version)
    /\ UNCHANGED <<server, gone, issued, dead, resolved, job, faults, expiries>>
\* Files written to a column-mapped table name their columns physically.
NowPhysical(f) == IF log[Latest].physical = {} THEN {} ELSE log[Latest].physical \cup {f}
AppendFile(f) ==
    /\ f \notin log[Latest].files
    /\ Commit([log[Latest] EXCEPT !.files = @ \cup {f}, !.physical = NowPhysical(f),
                   !.changes = {<<"add", f>>}])
RemoveFile(f) ==
    /\ f \in log[Latest].files
    /\ Commit([log[Latest] EXCEPT !.files = @ \ {f}, !.changes = {<<"remove", f>>}])
UpdateFile(f, g) ==
    /\ f \in log[Latest].files /\ g \notin log[Latest].files
    /\ Commit([log[Latest] EXCEPT !.files = (@ \ {f}) \cup {g}, !.physical = NowPhysical(g),
                   !.changes = {<<"cdc", g>>}])
\* Rows deleted by a deletion vector, with the cdc file of the delete.
DeleteRow(r) ==
    /\ r \in Rows(log[Latest].files) \ log[Latest].dv
    /\ Commit([log[Latest] EXCEPT !.dv = @ \cup {r}, !.changes = {<<"cdc", r[1]>>}])
\* The table is replaced by a column-mapped one.
ReplaceMapped(f) ==
    /\ f \notin log[Latest].files
    /\ Commit([log[Latest] EXCEPT !.files = {f}, !.physical = {f}, !.dv = {},
                   !.changes = {<<"add", f>>} \cup {<<"remove", g>> : g \in log[Latest].files}])
ProviderCommits ==
    \E f \in DOMAIN Values :
        \/ AppendFile(f)
        \/ RemoveFile(f)
        \/ \E g \in DOMAIN Values : UpdateFile(f, g)
        \/ DeleteRow(<<f, 1>>)
        \/ ReplaceMapped(f)

\* The provider's VACUUM takes a file no shared version after the one being read needs.
Vacuum(f) ==
    /\ f \notin log[Latest].files \cup gone
    /\ \E v \in 1..Latest : f \in log[v].files
    /\ gone' = gone \cup {f}
    /\ UNCHANGED <<server, log, issued, dead, resolved, job, faults, expiries>>

LinksExpire ==
    /\ dead < issued /\ expiries < MaxExpiries
    /\ dead' = issued
    /\ expiries' = expiries + 1
    /\ UNCHANGED <<server, log, gone, issued, resolved, job, faults>>

Init ==
    /\ server \in Servers
    /\ log = <<[files |-> {1, 2}, dv |-> {}, physical |-> {}, changes |-> {<<"add", 1>>, <<"add", 2>>}]>>
    /\ gone = {} /\ issued = 0 /\ dead = 0 /\ resolved = FALSE /\ job = Idle
    /\ faults = 0 /\ expiries = 0

Engine ==
    \/ Hints \/ List \/ ListChanges \/ Read \/ Renew \/ RenewPinned \/ RenewChanges
    \/ RenewFails \/ Reread
    \/ (\E i \in DOMAIN job.todo : Localize(i)) \/ Replay \/ Page
Next ==
    \/ Engine
    \/ Resolve
    \/ \E c \in Calls : Call(c)
    \/ ProviderCommits \/ (\E f \in DOMAIN Values : Vacuum(f)) \/ LinksExpire

\* A call runs in the caller's thread and every request has a timeout, so a step of it is
\* eventually taken.
Spec == Init /\ [][Next]_vars /\ WF_vars(Engine)

-----------------------------------------------------------------------------
(* Properties.                                                              *)

Distinct(s) == \A i, j \in DOMAIN s : i # j => s[i] # s[j]
Answer(c, v) == {r \in Rows(log[v].files) \ log[v].dv : Matches(c.p, ValueOf(r))}

\* A scan (sharing.py scan, _scan_delta_format) gives the matching rows of one version of the
\* table, each once, however the table moves on, links expire or the server skips files by the
\* hints: all of them, or as many as the limit asks for. What a broken stream gave is part of them.
ScanExact ==
    job.call.kind = "scan" /\ job.pinned # 0 =>
        LET answer == Answer(job.call, job.pinned)
        IN  /\ Distinct(job.got) /\ Range(job.got) \subseteq answer
            /\ job.out = "ok" =>
                   IF job.call.limit = None THEN Range(job.got) = answer
                   ELSE Len(job.got) = Min({job.call.limit, Cardinality(answer)})

\* A change feed (sharing.py cdf) that is answered holds the matching changes of every version of
\* the range and no other, each once and under its own version, by both response formats; but for
\* the cdc files of a column-mapped table that is answered in parquet, whose rows come as nulls.
Lost(r) == job.here = {} /\ r[3] = "cdc" /\ r[1] \in log[r[4]].physical
CdfExact ==
    job.call.kind = "cdf" /\ job.out = "ok" =>
        LET c == job.call
            changed == UNION {{<<r[1], r[2], a[1], v>> : a \in {b \in log[v].changes : b[2] = r[1]}} :
                                  v \in Start(c)..job.pinned, r \in Rows(DOMAIN Values)}
            told == SelectSeq(job.got, LAMBDA r : ~Lost(r))
        IN  /\ Distinct(told)
            /\ Range(told) = {r \in changed : ~Lost(r) /\ Matches(c.p, ValueOf(r))}

\* _read_file: conforming a physically named file to the logical schema "null-filled every column,
\* a wrong answer the caller could not tell from a table of NULLs", so such a file is refused. A
\* cdc file is not, for its _change_type column.
NothingNullFilled == job.out = "ok" => \A i \in DOMAIN job.got : job.got[i][2] # 0

\* What a read of a shared table gives, by scan or by feed.
ReadsExact == ScanExact /\ CdfExact

\* A read fails only for a cause outside of it: a link that expired, and a file that the version
\* the table has moved on to no longer has, are not enough, since _UrlBook asks again. A table
\* that moved on is enough only where it has taken up deletion vectors or column mapping since,
\* and the query that would renew the link is answered otherwise than in parquet.
Failed == job.out \in {"raised", "arrow_invalid"}
FailsForCause ==
    Failed => /\ job.causes # {}
              /\ job.causes = {"moved"} => \E v \in (job.pinned + 1)..Latest : NeedsDelta(v)

\* _UrlBook: "On an expiry the book re-runs the query pinned to the same table version and
\* continues with the new URLs": a read fails only for what the version being read meets.
RenewsPinned == Failed => job.causes \ {"moved"} # {}

\* Every call ends: one renewal for each file, and a listing whose server repeats a page token is
\* given up (SharingCatalog._paged).
CallsEnd == []<>(job.at \in {"idle", "done"})
===============================================================================
