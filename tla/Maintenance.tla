----------------------------- MODULE Maintenance -----------------------------
(***************************************************************************)
(* What deletes files of a table on storage, beside what still needs them: *)
(* VACUUM (full and LITE) of data files and deletion vectors, cleanup of   *)
(* the log and of checkpoint sidecars, RESTORE, FSCK REPAIR, checkpoints,  *)
(* and writers (engine/kernel.py; crates/native/src/vacuum.rs and          *)
(* logclean.rs).                                                           *)
(*                                                                         *)
(* A data file, a deletion vector file and a change data file are names    *)
(* with a modification time. A version is the set of its live entries: a   *)
(* data file and the vector that hides rows of it. Time is counted in      *)
(* ticks; a writer, a restore, a repair or a checkpoint takes at most      *)
(* OpTime from its first step to its commit.                               *)
(***************************************************************************)
EXTENDS Integers, Sequences, FiniteSets, TLC

CONSTANTS
    Writer,        \* the writes, one each
    Cleaner,       \* the calls of cleanup_metadata
    Initial,       \* the data files of the first version
    None,          \* no deletion vector
    Retention,     \* delta.deletedFileRetentionDuration
    Asked,         \* the retentions VACUUM is called with
    LogRetention,  \* delta.logRetentionDuration
    OpTime,        \* the longest operation
    MaxTime,       \* bound on time
    MaxVersion,    \* bound on the history
    MaxCheckpoints,\* bound on the checkpoints present
    MaxLost,       \* bound on the data files lost by hand
    Attempts,      \* metadata_commit_attempts
    Interval,      \* delta.checkpointInterval
    Batch,         \* BATCH: the log files deleted at once
    Overlap,       \* TRUE: a restore may run beside a VACUUM
    Scenes         \* what runs beside what: [parts, writes]

Parts == {"fix", "vacuum", "checkpoint", "v2", "cleanup", "loss"}
Writes == {"append", "rewrite", "vectors"}

ASSUME ConstantsAssumption ==
    /\ Retention \in Nat /\ LogRetention \in Nat /\ OpTime \in Nat
    /\ OpTime <= Retention /\ OpTime <= LogRetention
    /\ Asked \subseteq Nat /\ MaxTime \in Nat
    /\ Batch \in Nat \ {0} /\ Interval \in Nat \ {0} /\ Attempts \in Nat \ {0}
    /\ Overlap \in BOOLEAN
    /\ Scenes \subseteq [parts : SUBSET Parts, writes : SUBSET Writes]

\* What a write stores has a name of its own (a random one).
ASSUME NamesAssumption == Initial \cap (Writer \X (Writes \cup {"change"})) = {}

VARIABLES
    scene,
    now,
    log,          \* every version committed, whether its files are kept or not
    stored,       \* data, vector and change data files in storage -> modified
    lost,         \* the data files lost by hand
    commits,      \* the versions whose commit file is in the log
    checkpoints,  \* the checkpoints in the log: [version, at, sidecars]
    sidecars,     \* the sidecar files in the log -> modified
    writer,       \* writer -> what it is about to commit
    fix,          \* the RESTORE or REPAIR
    vacuum,       \* the VACUUM
    cleaner,      \* cleanup call -> what it is about to delete
    saving        \* the checkpoint being written

ops == <<scene, writer, fix, vacuum, cleaner, saving>>
logFiles == <<commits, checkpoints, sidecars>>
vars == <<scene, now, log, stored, lost, commits, checkpoints, sidecars,
          writer, fix, vacuum, cleaner, saving>>

-----------------------------------------------------------------------------
(* The table *)

LastVersion == Len(log)

Live(v) == log[v].live

\* The files an entry needs.
FilesOf(entries) == {e.file : e \in entries} \cup ({e.vector : e \in entries} \ {None})

\* Storage without the files fs.
Without(files, fs) == [f \in DOMAIN files \ fs |-> files[f]]

\* Storage with the files fs, new or written over, at time t.
With(files, fs, t) == [f \in fs \cup DOMAIN files |-> IF f \in fs THEN t ELSE files[f]]

Newest(S) == CHOOSE m \in S : \A x \in S : x <= m

\* complete: every sidecar a checkpoint references is there.
Complete(c) == c.sidecars \subseteq DOMAIN sidecars

\* A version can be built from a complete checkpoint, or the first commit, and
\* the commits since.
Readable(v) ==
    \/ 1..v \subseteq commits
    \/ \E c \in checkpoints : c.version <= v /\ Complete(c) /\ c.version+1..v \subseteq commits

\* The commit file of a version is put if absent; its predecessor must exist.
Commit(entry) ==
    /\ LastVersion < MaxVersion
    /\ LastVersion \in commits
    /\ log' = Append(log, entry)
    /\ commits' = commits \cup {LastVersion + 1}

Entry(by, live, removes, cdc, target) ==
    [by |-> by, time |-> now, live |-> live, removes |-> removes, cdc |-> cdc, target |-> target]

Tombs(entries, at) == {[file |-> e.file, vector |-> e.vector, at |-> at] : e \in entries}

-----------------------------------------------------------------------------
IdleWriter == [pc |-> "idle", base |-> 0, began |-> 0, adds |-> {}, drops |-> {}, cdc |-> {}]
IdleFix == [pc |-> "idle", kind |-> "none", target |-> 0, base |-> 0, began |-> 0,
            adds |-> {}, drops |-> {}, tries |-> 0]
IdleVacuum == [pc |-> "idle", lite |-> FALSE, version |-> 0, cutoff |-> 0, doomed |-> {}]
IdleCleaner == [pc |-> "idle", keys |-> {}, batch |-> {}, failed |-> FALSE]
IdleSaving == [pc |-> "idle", version |-> 0, began |-> 0, sidecars |-> {}]

Init ==
    /\ scene \in Scenes
    /\ now = 0
    /\ log = <<[by |-> "write", time |-> 0, removes |-> {}, cdc |-> {}, target |-> 0,
                live |-> {[file |-> f, vector |-> None] : f \in Initial}]>>
    /\ stored = [f \in Initial |-> 0]
    /\ lost = {}
    /\ commits = {1} /\ checkpoints = {} /\ sidecars = <<>>
    /\ writer = [i \in Writer |-> IdleWriter]
    /\ fix = IdleFix /\ vacuum = IdleVacuum /\ saving = IdleSaving
    /\ cleaner = [c \in Cleaner |-> IdleCleaner]

InFlight(p) == p.pc \notin {"idle", "done"}

\* Time passes, but no operation lasts longer than OpTime.
Tick ==
    /\ now < MaxTime
    /\ \A p \in {writer[i] : i \in Writer} \cup {fix, saving} :
          InFlight(p) => now + 1 - p.began <= OpTime
    /\ now' = now + 1
    /\ UNCHANGED <<log, stored, lost, logFiles, ops>>

\* A data file is deleted by hand.
LoseFile ==
    /\ "loss" \in scene.parts /\ Cardinality(lost) < MaxLost
    /\ \E e \in Live(LastVersion) :
          /\ e.file \in DOMAIN stored
          /\ stored' = Without(stored, {e.file})
          /\ lost' = lost \cup {e.file}
    /\ UNCHANGED <<now, log, logFiles, ops>>

-----------------------------------------------------------------------------
(* Writers *)

\* The writes of this system on a version: an append, a rewrite of a file with
\* its change data, and a DELETE that stores the vectors of several files in
\* one file. Each uploads what is new first.
StageWrite(i) ==
    /\ writer[i].pc = "idle"
    /\ \E how \in scene.writes, drops \in SUBSET Live(LastVersion) :
          /\ Cardinality(drops) \in CASE how = "append" -> {0}
                                      [] how = "rewrite" -> {1}
                                      [] OTHER -> 1..Cardinality(drops)
          /\ LET new  == {<<i, how>>}
                 cdc  == IF how = "rewrite" THEN {<<i, "change">>} ELSE {}
                 adds == IF how = "vectors" THEN {[e EXCEPT !.vector = <<i, how>>] : e \in drops}
                         ELSE {[file |-> <<i, how>>, vector |-> None]}
             IN /\ stored' = With(stored, new \cup cdc, now)
                /\ writer' = [writer EXCEPT ![i] =
                      [pc |-> "commit", base |-> LastVersion, began |-> now,
                       adds |-> adds, drops |-> drops, cdc |-> cdc]]
    /\ UNCHANGED <<scene, now, log, lost, logFiles, fix, vacuum, cleaner, saving>>

\* The removes carry the time the write began, which is not the commit's.
CommitWrite(i) ==
    LET w == writer[i] IN
    /\ w.pc = "commit"
    /\ IF LastVersion = w.base
       THEN Commit(Entry("write", (Live(w.base) \ w.drops) \cup w.adds,
                         Tombs(w.drops, w.began), w.cdc, 0))
       ELSE UNCHANGED <<log, commits>>
    /\ writer' = [writer EXCEPT ![i] = [IdleWriter EXCEPT !.pc = "done"]]
    /\ UNCHANGED <<scene, now, stored, lost, checkpoints, sidecars, fix, vacuum, cleaner, saving>>

-----------------------------------------------------------------------------
(* RESTORE and FSCK REPAIR: planned, committed on the version planned on, and *)
(* planned again when another writer was first.                               *)

BeginFix ==
    /\ fix.pc = "idle" /\ "fix" \in scene.parts
    /\ Overlap \/ ~InFlight(vacuum)
    /\ \E kind \in {"restore", "restore_present", "repair"}, t \in 1..LastVersion :
          /\ kind = "repair" => t = LastVersion
          /\ fix' = [IdleFix EXCEPT !.pc = "plan", !.kind = kind, !.began = now,
                                    !.target = IF kind = "repair" THEN 0 ELSE t]
    /\ UNCHANGED <<scene, now, log, stored, lost, logFiles, writer, vacuum, cleaner, saving>>

Gone(entries) == FilesOf(entries) \ DOMAIN stored

\* _restore_change: what the target has and the table has not comes back, with
\* the vector it had; what only the table has goes. A file missing from storage
\* refuses the restore, or is left out (ignore_missing_files).
PlanRestore ==
    LET past == Live(fix.target)
        live == Live(LastVersion)
        back == past \ live
    IN IF \/ fix.target = LastVersion
          \/ ~Readable(fix.target)
          \/ fix.kind = "restore" /\ Gone(back) # {}
       THEN fix' = [IdleFix EXCEPT !.pc = "done"]
       ELSE fix' = [fix EXCEPT !.pc = "commit", !.base = LastVersion, !.began = now,
                               !.drops = live \ past,
                               !.adds = {e \in back : Gone({e}) = {}}]

\* repair: the live files whose data file is gone are removed.
PlanRepair ==
    LET missing == {e \in Live(LastVersion) : e.file \notin DOMAIN stored} IN
    fix' = IF missing = {} THEN [IdleFix EXCEPT !.pc = "done"]
           ELSE [fix EXCEPT !.pc = "commit", !.base = LastVersion, !.began = now,
                            !.drops = missing]

PlanFix ==
    /\ fix.pc = "plan"
    /\ IF fix.kind = "repair" THEN PlanRepair ELSE PlanRestore
    /\ UNCHANGED <<scene, now, log, stored, lost, logFiles, writer, vacuum, cleaner, saving>>

\* A faulty variant (Bug...) is never used by the specification: each replaces
\* one definition in a run that shows which property would notice.

\* What was planned is committed over what others committed meanwhile.
BugCommitStalePlan ==
    /\ fix.pc = "commit"
    /\ Commit(Entry(fix.kind, (Live(LastVersion) \ fix.drops) \cup fix.adds,
                    Tombs(fix.drops, fix.began), {}, fix.target))
    /\ fix' = [IdleFix EXCEPT !.pc = "done"]
    /\ UNCHANGED <<scene, now, stored, lost, checkpoints, sidecars, writer, vacuum, cleaner, saving>>

CommitFix ==
    /\ fix.pc = "commit"
    /\ IF LastVersion = fix.base
       THEN /\ Commit(Entry(fix.kind, (Live(fix.base) \ fix.drops) \cup fix.adds,
                            Tombs(fix.drops, fix.began), {}, fix.target))
            /\ fix' = [IdleFix EXCEPT !.pc = "done"]
       ELSE /\ fix' = [fix EXCEPT !.pc = IF fix.tries + 1 < Attempts THEN "plan" ELSE "done",
                                  !.tries = @ + 1, !.began = now, !.adds = {}, !.drops = {}]
            /\ UNCHANGED <<log, commits>>
    /\ UNCHANGED <<scene, now, stored, lost, checkpoints, sidecars, writer, vacuum, cleaner, saving>>

-----------------------------------------------------------------------------
(* VACUUM *)

VacuumAt(l) == [(IF l = "done" THEN IdleVacuum ELSE vacuum) EXCEPT !.pc = l]

\* The latest snapshot and the cutoff. A retention below the table's is refused.
BeginVacuum ==
    /\ vacuum.pc = "idle" /\ "vacuum" \in scene.parts
    /\ Overlap \/ ~InFlight(fix)
    /\ \E asked \in Asked, lite \in BOOLEAN :
          /\ asked >= Retention
          /\ vacuum' = [IdleVacuum EXCEPT !.pc = "plan", !.lite = lite,
                                          !.version = LastVersion, !.cutoff = now - asked]
    /\ UNCHANGED <<scene, now, log, stored, lost, logFiles, writer, fix, cleaner, saving>>

\* The checkpoint a snapshot of version v starts from: none or one.
SegmentStart(v) ==
    LET cs == {c \in checkpoints : c.version <= v /\ Complete(c)}
    IN {c \in cs : \A d \in cs : d.version <= c.version}

Since(v) == {u \in 1..v : \A c \in SegmentStart(v) : u > c.version}

\* tombstones: the removes in the log segment of version v. A checkpoint keeps
\* only those that had not expired when it was written.
Tombstones(v) ==
    UNION {{t \in log[u].removes :
               u \in Since(v) \/ \A c \in SegmentStart(v) : t.at >= c.at - Retention} : u \in 1..v}

\* recent_change_data: that of the segment's commits within the retention.
RecentChangeData(v, cutoff) == UNION {log[u].cdc : u \in {w \in Since(v) : log[w].time >= cutoff}}

\* A deletion vector is protected by live files alone.
BugRemovedVectorsUnprotected(v, cutoff) ==
    FilesOf(Live(v))
        \cup {t.file : t \in {u \in Tombstones(v) : u.at >= cutoff}}
        \cup RecentChangeData(v, cutoff)

\* What nothing may delete: live files and their vectors, those a remove within
\* the retention protects, and the change data of recent commits.
Referenced(v, cutoff) ==
    FilesOf(Live(v))
        \cup FilesOf({t \in Tombstones(v) : t.at >= cutoff})
        \cup RecentChangeData(v, cutoff)

\* Full: what is listed, old and unreferenced. LITE: what expired removes name.
PlanVacuum ==
    LET v       == vacuum.version
        expired == FilesOf({t \in Tombstones(v) : t.at < vacuum.cutoff})
        listed  == {f \in DOMAIN stored : stored[f] < vacuum.cutoff}
        doomed  == (IF vacuum.lite THEN expired \cap DOMAIN stored ELSE listed)
                      \ Referenced(v, vacuum.cutoff)
    IN /\ vacuum.pc = "plan"
       /\ vacuum' = IF doomed = {} THEN VacuumAt("done")
                    ELSE [VacuumAt("start") EXCEPT !.doomed = doomed]
       /\ UNCHANGED <<scene, now, log, stored, lost, logFiles, writer, fix, cleaner, saving>>

\* VACUUM START and VACUUM END are versions of their own; too many lost races
\* end the call, before anything is deleted or after everything was.
Announce(from, to) ==
    /\ vacuum.pc = from
    /\ \/ /\ Commit(Entry("vacuum", Live(LastVersion), {}, {}, 0))
          /\ vacuum' = VacuumAt(to)
       \/ /\ \E i \in Writer : writer[i].pc # "idle"
          /\ vacuum' = VacuumAt("done")
          /\ UNCHANGED <<log, commits>>
    /\ UNCHANGED <<scene, now, stored, lost, checkpoints, sidecars, writer, fix, cleaner, saving>>

StartVacuum == Announce("start", "delete")

\* The deletes run unordered; a failed one does not stop the rest.
DeleteFile ==
    /\ vacuum.pc = "delete"
    /\ \E f \in vacuum.doomed :
          /\ vacuum' = [vacuum EXCEPT !.doomed = @ \ {f},
                                      !.pc = IF vacuum.doomed = {f} THEN "end" ELSE @]
          /\ stored' \in {stored, Without(stored, {f})}
    /\ UNCHANGED <<scene, now, log, lost, logFiles, writer, fix, cleaner, saving>>

EndVacuum == Announce("end", "done")

-----------------------------------------------------------------------------
(* Checkpoints and the cleanup of the log *)

\* checkpoint at the latest version, and _maybe_checkpoint at a version just
\* committed, which others may have followed. A v2 checkpoint's sidecars are
\* written before the file that names them.
BeginCheckpoint ==
    /\ saving.pc = "idle" /\ "checkpoint" \in scene.parts
    /\ Cardinality(checkpoints) < MaxCheckpoints
    /\ \E v \in 1..LastVersion, v2 \in {FALSE, "v2" \in scene.parts} :
          /\ v = LastVersion \/ v % Interval = 0
          /\ Readable(v) /\ \A c \in checkpoints : c.version # v
          /\ saving' = [pc |-> "put", version |-> v, began |-> now,
                        sidecars |-> IF v2 THEN {v} ELSE {}]
    /\ sidecars' = With(sidecars, saving'.sidecars, now)
    /\ UNCHANGED <<scene, now, log, stored, lost, commits, checkpoints, writer, fix, vacuum, cleaner>>

PutCheckpoint ==
    /\ saving.pc = "put"
    /\ checkpoints' = checkpoints \cup
          {[version |-> saving.version, at |-> now, sidecars |-> saving.sidecars]}
    /\ saving' = IdleSaving
    /\ UNCHANGED <<scene, now, log, stored, lost, commits, sidecars, writer, fix, vacuum, cleaner>>

\* The latest version at the boundary, by commit time.
ExpiredAt(cutoff) == {v \in 1..LastVersion : log[v].time <= cutoff}

\* The newest complete checkpoint at or below it; 0 if there is none.
Kept(cutoff) ==
    LET old == {c.version : c \in {d \in checkpoints : Complete(d) /\ d.version \in ExpiredAt(cutoff)}}
    IN IF old = {} THEN 0 ELSE Newest(old)

\* What lies below the kept checkpoint, and old sidecars that no retained
\* checkpoint references.
Doomed(kept, cutoff) ==
    LET inUse == UNION {c.sidecars : c \in {d \in checkpoints : d.version >= kept}}
    IN {[kind |-> "checkpoint", version |-> c.version] : c \in {d \in checkpoints : d.version < kept}}
       \cup {[kind |-> "commit", version |-> v] : v \in {u \in commits : u < kept}}
       \cup {[kind |-> "sidecar", version |-> s] :
                s \in {t \in DOMAIN sidecars : sidecars[t] < cutoff /\ t \notin inUse}}

\* A plan without a file ends the call and changes nothing.
PlanCleanup(c) ==
    LET cutoff == now - LogRetention IN
    /\ Doomed(Kept(cutoff), cutoff) # {}
    /\ cleaner[c].pc = "idle" /\ "cleanup" \in scene.parts
    /\ cleaner' = [cleaner EXCEPT ![c] = [IdleCleaner EXCEPT
                      !.pc = "delete", !.keys = Doomed(Kept(cutoff), cutoff)]]
    /\ UNCHANGED <<scene, now, log, stored, lost, logFiles, writer, fix, vacuum, saving>>

\* The order of deletion: by name, so by version and a checkpoint before its
\* commit, and the sidecars last.
Before(j, k) ==
    \/ j.kind # "sidecar" /\ k.kind = "sidecar"
    \/ /\ (j.kind = "sidecar") = (k.kind = "sidecar")
       /\ \/ j.version < k.version
          \/ j.version = k.version /\ j.kind = "checkpoint" /\ k.kind = "commit"

\* The next batch, once the one before it is done without a failure.
NextBatch(c) ==
    LET p     == cleaner[c]
        first == {k \in p.keys : Cardinality({j \in p.keys : Before(j, k)}) < Batch}
    IN /\ p.pc = "delete" /\ p.batch = {}
       /\ cleaner' = [cleaner EXCEPT ![c] =
             IF p.failed \/ first = {} THEN [IdleCleaner EXCEPT !.pc = "done"]
             ELSE [p EXCEPT !.batch = first, !.keys = @ \ first]]
       /\ UNCHANGED <<scene, now, log, stored, lost, logFiles, writer, fix, vacuum, saving>>

\* The files of a batch are deleted in any order; one that fails stays.
DeleteLogFile(c) ==
    \E k \in cleaner[c].batch, ok \in BOOLEAN :
        /\ cleaner' = [cleaner EXCEPT ![c].batch = @ \ {k}, ![c].failed = @ \/ ~ok]
        /\ commits' = IF ok /\ k.kind = "commit" THEN commits \ {k.version} ELSE commits
        /\ checkpoints' = IF ok /\ k.kind = "checkpoint"
                          THEN {d \in checkpoints : d.version # k.version} ELSE checkpoints
        /\ sidecars' = IF ok /\ k.kind = "sidecar" THEN Without(sidecars, {k.version}) ELSE sidecars
        /\ UNCHANGED <<scene, now, log, stored, lost, writer, fix, vacuum, saving>>

-----------------------------------------------------------------------------
Next ==
    \/ Tick \/ LoseFile
    \/ \E i \in Writer : StageWrite(i) \/ CommitWrite(i)
    \/ BeginFix \/ PlanFix \/ CommitFix
    \/ BeginVacuum \/ PlanVacuum \/ StartVacuum \/ DeleteFile \/ EndVacuum
    \/ BeginCheckpoint \/ PutCheckpoint
    \/ \E c \in Cleaner : PlanCleanup(c) \/ NextBatch(c) \/ DeleteLogFile(c)

Spec == Init /\ [][Next]_vars

-----------------------------------------------------------------------------
(* Properties *)

\* The variables keep their types: checkpoints are of versions that exist, and a
\* restore or repair is planned at most Attempts times.
TypeOK ==
    /\ now \in 0..MaxTime
    /\ commits \subseteq 1..LastVersion
    /\ DOMAIN sidecars \subseteq 1..LastVersion
    /\ \A c \in checkpoints : c.version \in 1..LastVersion
    /\ fix.tries \in 0..Attempts
    /\ vacuum.doomed \subseteq DOMAIN stored \cup lost

SupersededAt(v) == IF v = LastVersion THEN now ELSE log[v + 1].time

\* Every version that was the latest within the retention (less the time a write
\* takes) still has its data files and deletion vectors, and the change data of
\* every commit as recent is there: whatever VACUUM, RESTORE and REPAIR did.
RetainedFiles ==
    \A v \in 1..LastVersion :
        /\ now - SupersededAt(v) <= Retention - OpTime
              => FilesOf(Live(v)) \subseteq DOMAIN stored \cup lost
        /\ now - log[v].time <= Retention - OpTime => log[v].cdc \subseteq DOMAIN stored

\* VACUUM deletes no live file, nor its deletion vector.
LiveFilesStored == FilesOf(Live(LastVersion)) \subseteq DOMAIN stored \cup lost

\* Every version since the latest one at the log retention's boundary can be
\* built, while a cleanup runs, after one that failed half-way, and beside
\* others.
RetainedHistory ==
    \A v \in 1..LastVersion :
        (v < LastVersion => log[v + 1].time > now - LogRetention) => Readable(v)

\* The next commit finds its predecessor's commit file.
CommitPossible == LastVersion \in commits

\* Whatever VACUUM, log cleanup, checkpoints, RESTORE and REPAIR do beside each
\* other and writers, the retained versions can be built and read and the table
\* can be written.
HistoryKept == TypeOK /\ RetainedFiles /\ RetainedHistory /\ CommitPossible

\* A restore gives exactly the target's files, less missing ones where that was
\* asked; a repair removes only what is lost; VACUUM's versions change nothing.
FixExact ==
    \A v \in 2..LastVersion :
        LET c == log[v] IN
        /\ c.by = "restore" => c.live = Live(c.target)
        /\ c.by = "restore_present" => c.live \subseteq Live(c.target)
        /\ c.by = "repair" => /\ c.live \subseteq Live(v - 1)
                              /\ \A e \in Live(v - 1) \ c.live : e.file \in lost
        /\ c.by = "vacuum" => c.live = Live(v - 1)

=============================================================================
