--------------------------- MODULE DistributedWrite ---------------------------
(***************************************************************************)
(* The driver side of a distributed write (distributed.py, WritePlan).     *)
(*                                                                         *)
(* A plan is made on the driver, workers write its data files, and the     *)
(* driver commits all of them as one version, or aborts them. A commit     *)
(* reported as failed may have taken effect, a driver may die and be       *)
(* restarted with its saved fragments, and a request whose answer was lost *)
(* may reach the table later, so every attempt first looks for its files   *)
(* in the commits made since the plan.                                     *)
(*                                                                         *)
(* The files of one plan land together or not at all, so one token, the    *)
(* plan itself, stands for them. Calls of one plan follow each other: only *)
(* requests, not drivers, outlive a call.                                  *)
(***************************************************************************)
EXTENDS Integers, Sequences, FiniteSets

CONSTANTS
    Plan,             \* the distributed writes
    Overwrites,       \* the plans with mode="overwrite"
    NoTxn,            \* no (app_id, version) pair was given
    Settings,         \* the settings a run starts from
    Retries,          \* the retries= of commit()
    MaxCalls,         \* bound: commit() calls made for one plan
    MaxOthers,        \* bound: commits by writers outside the plans
    Other             \* stands for such a writer in the log

(***************************************************************************)
(* "applied": a commit took effect and its answer was lost. "late": a      *)
(* request whose answer was lost is still under way and takes effect, if   *)
(* it can, at any later time. "cleaned": a commit since the plan can no    *)
(* longer be read. "detail": the version could not be read. "catalog": the *)
(* catalog does not give the commit tail, or gives a re-created table's.   *)
(* "cancel": the job is given up before it commits.                        *)
(***************************************************************************)
FaultKinds == {"applied", "late", "crash", "delete", "cleaned", "detail", "catalog",
               "publish", "schema", "cancel"}

(***************************************************************************)
(* A setting is the table and what the caller asked for:                   *)
(*   managed         the table is catalog-managed                          *)
(*   cap             ratified commits the catalog holds before it wants    *)
(*                   them published                                        *)
(*   catalog         the plans with plan.catalog set, so that the commit   *)
(*                   tail can be read again                                *)
(*   lastWriterWins  the overwrites with allow_concurrent_overwrite=True   *)
(*   empty           the plans whose workers wrote no file                 *)
(*   keep            the plans committed with abort_on_failure=False       *)
(*   txn             plan -> the txn it was given, or NoTxn                *)
(*   faults          the failures the environment may produce              *)
(***************************************************************************)
ASSUME ConstantsAssumption ==
    /\ Overwrites \subseteq Plan
    /\ Retries \in Nat /\ MaxCalls \in Nat /\ MaxOthers \in Nat
    /\ Other \notin Plan
    /\ \A s \in Settings :
          /\ s.managed \in BOOLEAN /\ s.cap \in Nat \ {0}
          /\ s.catalog \subseteq Plan /\ s.empty \subseteq Plan /\ s.keep \subseteq Plan
          /\ s.lastWriterWins \subseteq Overwrites
          /\ DOMAIN s.txn = Plan
          /\ s.faults \subseteq FaultKinds

VARIABLES
    setting,    \* fixed for good
    log,        \* the commits; log[v] is version v
    published,  \* managed: the newest version copied into _delta_log
    store,      \* the plans whose files are in storage
    inflight,   \* requests whose answer was lost and that may still take effect
    pc,         \* where the driver of each plan is
    version,    \* WritePlan.version: the planned version
    tail,       \* managed: the catalog version the driver's table carries
    base,       \* the version of the snapshot commit_files builds on
    attempt,    \* completed attempts of this call
    calls,      \* commit() calls so far
    backfilled, \* this attempt has published already
    result      \* what the last call returned or raised

vars == <<setting, log, published, store, inflight, pc, version, tail, base, attempt, calls,
          backfilled, result>>
world == <<log, published, store, inflight>>

-----------------------------------------------------------------------------
managed == setting.managed
Empty == setting.empty
KeepFiles == setting.keep
TxnOf == setting.txn
Faults == setting.faults

LastVersion == Len(log)

Max2(a, b) == IF a >= b THEN a ELSE b

\* An overwrite that refuses to discard a writer it did not plan on.
Guarded(p) == p \in Overwrites \ setting.lastWriterWins

\* The catalog's tail can be read again (_with_fresh_tail does not return None).
Rereads(p) == managed /\ p \in setting.catalog

FreshTail(p) == IF Rereads(p) THEN LastVersion ELSE tail[p]

\* What a snapshot of the latest version sees, given the tail the table carries.
Latest(t) == IF managed THEN t ELSE LastVersion

Recorded(txn, v) == txn # NoTxn /\ \E i \in 1..v : log[i].txn = txn

\* The layout (schema, partitioning, column mapping) at version v, as the
\* number of incompatible changes made to it.
Layout(v) == Cardinality({i \in 1..v : log[i].layout})

\* _refuse_changed_layout: the fragments, if there are any, were written for the
\* layout that version v has.
Fits(p, v) == p \in Empty \/ Layout(v) = Layout(version[p])

\* commits_adding: the versions after the plan, up to v, that add p's files.
Landings(p, v) == {i \in (version[p] + 1)..v : log[i].adds = {p}}

\* A faulty variant (Bug...) is never used by the specification: each replaces
\* one definition in a run that shows which property would notice.
BugNeverLanded(p, v) == FALSE

\* _landed_version: an earlier commit already landed these files.
Landed(p, v) == Landings(p, v) # {}

AtCap == managed /\ LastVersion - published >= setting.cap

Files(p) == IF p \in Empty THEN {} ELSE {p}

Request(p) == [plan |-> p, at |-> base[p] + 1]

Record(p) == [by |-> p, txn |-> TxnOf[p], adds |-> Files(p), layout |-> FALSE]

Goto(p, l) == pc' = [pc EXCEPT ![p] = l] /\ UNCHANGED result

\* The call returns or raises r.
Finish(p, r) ==
    /\ pc' = [pc EXCEPT ![p] = "idle"]
    /\ result' = [result EXCEPT ![p] = r]

-----------------------------------------------------------------------------
Init ==
    /\ setting \in Settings
    /\ log = <<>> /\ published = 0 /\ store = {} /\ inflight = {}
    /\ pc = [p \in Plan |-> "new"]
    /\ version = [p \in Plan |-> 0]
    /\ tail = [p \in Plan |-> 0]
    /\ base = [p \in Plan |-> 0]
    /\ attempt = [p \in Plan |-> 0]
    /\ calls = [p \in Plan |-> 0]
    /\ backfilled = [p \in Plan |-> FALSE]
    /\ result = [p \in Plan |-> "none"]

\* Table.plan_write: refused when the txn is already recorded.
PlanWrite(p) ==
    /\ pc[p] = "new"
    /\ version' = [version EXCEPT ![p] = LastVersion]
    /\ tail' = [tail EXCEPT ![p] = LastVersion]
    /\ Goto(p, IF Recorded(TxnOf[p], LastVersion) THEN "refused" ELSE "write")
    /\ UNCHANGED <<world, base, attempt, calls, backfilled>>

\* The workers' WritePlan.write calls: the files are durable, no version has them.
WriteFiles(p) ==
    /\ pc[p] = "write"
    /\ store' = store \cup Files(p)
    /\ Goto(p, "idle")
    /\ UNCHANGED <<log, published, inflight, version, tail, base, attempt, calls, backfilled>>

\* WritePlan.commit up to its first attempt. A caller commits once, and again
\* only when it was told that the outcome is unknown or that the files were kept.
CommitCall(p) ==
    /\ pc[p] = "idle" /\ calls[p] < MaxCalls
    /\ \/ result[p] \in {"none", "unknown", "unreachable", "crashed", "backfill"}
       \/ result[p] = "failed" /\ p \in KeepFiles
    /\ calls' = [calls EXCEPT ![p] = @ + 1]
    /\ attempt' = [attempt EXCEPT ![p] = 0]
    /\ IF p \in Empty /\ (p \in Overwrites \/ TxnOf[p] = NoTxn)
       THEN Finish(p, IF p \in Overwrites THEN "refused" ELSE "empty")
       ELSE /\ pc' = [pc EXCEPT ![p] = "attempt"]
            /\ result' = [result EXCEPT ![p] = "none"]
    /\ UNCHANGED <<world, version, tail, base, backfilled>>

\* The head of _commit's loop: the tail is read again, and files that an earlier
\* commit landed end the call with success; files in two versions with an error.
Attempt(p) ==
    /\ pc[p] = "attempt"
    /\ tail' = [tail EXCEPT ![p] = FreshTail(p)]
    /\ backfilled' = [backfilled EXCEPT ![p] = FALSE]
    /\ IF Landed(p, Latest(tail'[p]))
       THEN Finish(p, IF Cardinality(Landings(p, Latest(tail'[p]))) = 1
                      THEN "committed" ELSE "unreachable")
       ELSE Goto(p, IF Guarded(p) THEN "moved" ELSE "snapshot")
    /\ UNCHANGED <<world, version, base, attempt, calls>>

\* Whether the files landed cannot be told, for a commit since the plan that can no
\* longer be read or a catalog that does not give the tail (_with_fresh_tail): the
\* error goes to the caller as it is; nothing is committed, nothing deleted.
CannotTell(p) ==
    /\ \/ /\ "cleaned" \in Faults /\ p \notin Empty
          /\ pc[p] \in {"attempt", "abort"} /\ LastVersion > version[p]
       \/ /\ "catalog" \in Faults /\ Rereads(p)
          /\ pc[p] \in {"attempt", "reread", "abort"}
    /\ Finish(p, IF pc[p] = "abort" THEN "failed" ELSE "unreachable")
    /\ UNCHANGED <<world, version, tail, base, attempt, calls, backfilled>>

\* _refuse_if_the_table_moved; a version that cannot be read refuses nothing.
CheckMoved(p) ==
    /\ pc[p] = "moved"
    /\ \/ Goto(p, IF Latest(tail[p]) # version[p] THEN "certain" ELSE "snapshot")
       \/ "detail" \in Faults /\ Goto(p, "snapshot")
    /\ UNCHANGED <<world, version, tail, base, attempt, calls, backfilled>>

\* A guarded overwrite is built on the newest snapshot like any other commit.
BugUnpinned(p) ==
    /\ pc[p] = "snapshot"
    /\ LET v == Latest(tail[p])
       IN /\ base' = [base EXCEPT ![p] = v]
          /\ IF ~Fits(p, v) THEN Goto(p, "certain")
             ELSE IF Recorded(TxnOf[p], v) THEN Finish(p, "refused") ELSE Goto(p, "send")
    /\ UNCHANGED <<world, version, tail, attempt, calls, backfilled>>

\* KernelEngine.commit_files takes its own snapshot -- the planned one for a
\* guarded overwrite -- and refuses another layout (MetadataChangedError) or a
\* txn already recorded on it.
Snapshot(p) ==
    /\ pc[p] = "snapshot"
    /\ LET v == IF Guarded(p) THEN version[p] ELSE Latest(tail[p])
       IN /\ base' = [base EXCEPT ![p] = v]
          /\ IF ~Fits(p, v) THEN Goto(p, "certain")
             ELSE IF Recorded(TxnOf[p], v) THEN Finish(p, "refused") ELSE Goto(p, "send")
    /\ UNCHANGED <<world, version, tail, attempt, calls, backfilled>>

\* finish_commit_as, and the version is this commit's.
SendCommits(p) ==
    /\ pc[p] = "send"
    /\ LastVersion = base[p] /\ ~AtCap
    /\ log' = Append(log, Record(p))
    /\ \/ Finish(p, "committed")
       \/ "applied" \in Faults /\ Goto(p, "unknown")
    /\ UNCHANGED <<published, store, inflight, version, tail, base, attempt, calls, backfilled>>

\* Another commit has the version, or the catalog demands a publish.
SendRefused(p) ==
    /\ pc[p] = "send"
    /\ \/ LastVersion > base[p] /\ Goto(p, "conflict")
       \/ LastVersion = base[p] /\ AtCap /\ Goto(p, "publish")
    /\ UNCHANGED <<world, version, tail, base, attempt, calls, backfilled>>

\* A 5xx or a timeout; what was sent may still be on its way.
SendUnanswered(p) ==
    /\ pc[p] = "send"
    /\ \/ UNCHANGED inflight
       \/ "late" \in Faults /\ inflight' = inflight \cup {Request(p)}
    /\ {"applied", "late"} \cap Faults # {}
    /\ Goto(p, "unknown")
    /\ UNCHANGED <<log, published, store, version, tail, base, attempt, calls, backfilled>>

\* A request nobody waits for any more takes effect.
LandLate(r) ==
    /\ r \in inflight
    /\ LastVersion + 1 = r.at /\ ~AtCap
    /\ log' = Append(log, Record(r.plan))
    /\ inflight' = inflight \ {r}
    /\ UNCHANGED <<published, store, pc, version, tail, base, attempt, calls, backfilled, result>>

\* WritePlan._backfilled: publish what the tail names, then read the tail again
\* and commit once more; a plan without its catalog, a publish that fails and a
\* second demand are the caller's.
Publish(p) ==
    /\ pc[p] = "publish"
    /\ \/ /\ Rereads(p) /\ ~backfilled[p]
          /\ published' = Max2(published, tail[p])
          /\ Goto(p, "reread")
       \/ /\ ~Rereads(p) \/ backfilled[p] \/ "publish" \in Faults
          /\ Finish(p, "backfill")
          /\ UNCHANGED published
    /\ UNCHANGED <<log, store, inflight, version, tail, base, attempt, calls, backfilled>>

\* The tail after the publish, for the second commit.
Reread(p) ==
    /\ pc[p] = "reread"
    /\ tail' = [tail EXCEPT ![p] = FreshTail(p)]
    /\ backfilled' = [backfilled EXCEPT ![p] = TRUE]
    /\ Goto(p, "snapshot")
    /\ UNCHANGED <<world, version, base, attempt, calls>>

\* A timeout counts as a lost race.
BugUnknownIsCertain(p) ==
    /\ pc[p] = "unknown"
    /\ \/ /\ attempt[p] < Retries /\ (managed => Rereads(p))
          /\ Goto(p, "attempt") /\ attempt' = [attempt EXCEPT ![p] = @ + 1]
       \/ Goto(p, "certain") /\ UNCHANGED attempt
    /\ UNCHANGED <<world, version, tail, base, calls, backfilled>>

\* TransientCommitError: tried again where the next attempt can tell whether
\* this one landed. It is the caller's after the last attempt and for a tail that
\* cannot be read again; any other storage error always is.
Unanswered(p) ==
    /\ pc[p] = "unknown"
    /\ \/ /\ attempt[p] < Retries /\ (managed => Rereads(p))
          /\ Goto(p, "attempt") /\ attempt' = [attempt EXCEPT ![p] = @ + 1]
       \/ Finish(p, "unknown") /\ UNCHANGED attempt
    /\ UNCHANGED <<world, version, tail, base, calls, backfilled>>

\* CommitConflictError: another attempt, unless none is left or the tail cannot
\* be read again.
Conflict(p) ==
    /\ pc[p] = "conflict"
    /\ IF attempt[p] < Retries /\ (managed => Rereads(p))
       THEN Goto(p, "attempt") /\ attempt' = [attempt EXCEPT ![p] = @ + 1]
       ELSE Goto(p, "certain") /\ UNCHANGED attempt
    /\ UNCHANGED <<world, version, tail, base, calls, backfilled>>

\* _CertainFailure: the files are aborted unless the caller keeps them.
CertainFailure(p) ==
    /\ pc[p] = "certain"
    /\ IF p \in KeepFiles THEN Finish(p, "failed") ELSE Goto(p, "abort")
    /\ UNCHANGED <<world, version, tail, base, attempt, calls, backfilled>>

\* WritePlan.abort: refused where the catalog's newest commits cannot be read,
\* and when the files were committed.
AbortCheck(p) ==
    /\ pc[p] = "abort"
    /\ tail' = [tail EXCEPT ![p] = FreshTail(p)]
    /\ IF p \in Empty \/ (managed /\ ~Rereads(p)) \/ Landed(p, Latest(tail'[p]))
       THEN Finish(p, "failed") ELSE Goto(p, "delete")
    /\ UNCHANGED <<world, version, base, attempt, calls, backfilled>>

\* delete_uncommitted; a file that cannot be deleted stays for VACUUM.
Delete(p) ==
    /\ pc[p] = "delete"
    /\ \/ store' = store \ {p}
       \/ "delete" \in Faults /\ UNCHANGED store
    /\ Finish(p, "failed")
    /\ UNCHANGED <<log, published, inflight, version, tail, base, attempt, calls, backfilled>>

\* The caller aborts a write it never committed (a cancelled job) or whose
\* commit certainly failed.
AbortCall(p) ==
    /\ "cancel" \in Faults
    /\ pc[p] = "idle" /\ result[p] \in {"none", "failed"}
    /\ p \in store
    /\ calls' = [calls EXCEPT ![p] = MaxCalls]
    /\ Goto(p, "abort")
    /\ UNCHANGED <<world, version, tail, base, attempt, backfilled>>

\* The driver dies, except between deleting files and saying so; another one is
\* started with the saved fragments. What was sent may still be on its way.
Crash(p) ==
    /\ "crash" \in Faults
    /\ pc[p] \in {"attempt", "moved", "snapshot", "send", "publish", "reread", "unknown",
                "conflict"}
    /\ \/ UNCHANGED inflight
       \/ pc[p] = "send" /\ "late" \in Faults /\ inflight' = inflight \cup {Request(p)}
    /\ Finish(p, "crashed")
    /\ UNCHANGED <<log, published, store, version, tail, base, attempt, calls, backfilled>>

\* A writer outside the plans commits; "schema" lets it change the layout.
OtherCommit ==
    /\ Cardinality({i \in 1..LastVersion : log[i].by = Other}) < MaxOthers
    /\ ~AtCap
    /\ \E l \in IF "schema" \in Faults THEN BOOLEAN ELSE {FALSE} :
          log' = Append(log, [by |-> Other, txn |-> NoTxn, adds |-> {}, layout |-> l])
    /\ UNCHANGED <<published, store, inflight, pc, version, tail, base, attempt, calls,
                   backfilled, result>>

Step(p) ==
    \/ PlanWrite(p) \/ WriteFiles(p) \/ CommitCall(p) \/ Attempt(p) \/ CheckMoved(p)
    \/ Snapshot(p) \/ SendCommits(p) \/ SendRefused(p) \/ Publish(p) \/ Reread(p)
    \/ Unanswered(p) \/ Conflict(p) \/ CertainFailure(p) \/ AbortCheck(p) \/ Delete(p)

Fail(p) == CannotTell(p) \/ SendUnanswered(p) \/ Crash(p)

Next ==
    /\ UNCHANGED setting
    /\ \/ \E p \in Plan : Step(p) \/ Fail(p) \/ AbortCall(p)
       \/ \E r \in inflight : LandLate(r)
       \/ OtherCommit

Spec == Init /\ [][Next]_vars

-----------------------------------------------------------------------------
(* Properties *)

CommitRecord == [by : Plan \cup {Other}, txn : {TxnOf[p] : p \in Plan} \cup {NoTxn},
                 adds : SUBSET Plan, layout : BOOLEAN]

\* The variables keep their types.
TypeOK ==
    /\ log \in Seq(CommitRecord)
    /\ published \in Nat
    /\ store \subseteq Plan
    /\ inflight \subseteq [plan : Plan, at : Nat]
    /\ pc \in [Plan -> {"new", "refused", "write", "idle", "attempt", "moved", "snapshot",
                        "send", "publish", "reread", "unknown", "conflict", "certain", "abort",
                        "delete"}]
    /\ version \in [Plan -> Nat] /\ tail \in [Plan -> Nat] /\ base \in [Plan -> Nat]
    /\ attempt \in [Plan -> 0..Retries]
    /\ calls \in [Plan -> 0..MaxCalls]
    /\ backfilled \in [Plan -> BOOLEAN]
    /\ result \in [Plan -> {"none", "committed", "empty", "refused", "unreachable", "unknown",
                            "backfill", "failed", "crashed"}]

\* What an outside observer sees of the plans: whose files each version adds, and
\* whose files were deleted.
landed == [v \in 1..LastVersion |-> log[v].adds]
discarded == {p \in Plan \ Empty : pc[p] \notin {"new", "refused", "write"} /\ p \notin store}

\* The plans that only the look at the head of an attempt keeps from landing twice:
\* requests outlive their answer, and the plan has neither a txn, which a second
\* landing would repeat, nor a version that it commits on or not at all.
Repeatable ==
    {p \in Plan : /\ "late" \in Faults /\ TxnOf[p] = NoTxn /\ ~Guarded(p)
                  /\ managed => p \in setting.catalog}

Abstract == INSTANCE LandOrDiscard
            WITH Job <- Plan, again <- Repeatable, history <- landed, gone <- discarded

\* Whatever is retried, restarted, lost or late, a plan's files are committed or
\* deleted, and never both, and committed once unless the plan is Repeatable: the
\* driver implements LandOrDiscard.
LandsOnceOrDiscarded == Abstract!Spec

\* A plan's files are in one version at most, as WritePlan.commit says: "When they
\* did land, the version they landed at is returned and nothing is committed again."
\* The look that says so is over before the commit takes its snapshot (_commit), and
\* the second commit after a publish has no look of its own (_backfilled).
FragmentsLandOnce ==
    \A u, v \in 1..LastVersion : log[u].by = log[v].by /\ log[u].by \notin Empty \cup {Other} => u = v

\* No abort deletes files that a version names or that a request still under way
\* could make it name.
CommittedFilesExist == \A v \in 1..LastVersion : log[v].adds \subseteq store

\* commit() returns a version only if the files are in one, and raises a failure
\* ("nothing was committed") only if they are in none, unless a request of its
\* own may still take effect after it returned.
OutcomeTruthful ==
    "late" \notin Faults =>
    \A p \in Plan \ Empty :
        LET in_log == \E v \in 1..LastVersion : log[v].adds = {p}
        IN /\ result[p] = "committed" => in_log
           /\ result[p] \in {"failed", "refused"} => ~in_log

\* A guarded overwrite lands on the very version it was planned at, so it never
\* removes the files of a writer that came later.
OverwriteDiscardsNobody ==
    \A v \in 1..LastVersion :
        log[v].by \in Overwrites \ setting.lastWriterWins => v = version[log[v].by] + 1

\* Files land only in a table that still has the layout they were written for.
LayoutFits ==
    \A v \in 1..LastVersion :
        log[v].adds # {} => Layout(v) = Layout(version[log[v].by])

\* Two runs of one job leave one commit of its txn, an empty batch included.
TxnCommittedOnce ==
    \A u, v \in 1..LastVersion : log[u].txn # NoTxn /\ log[u].txn = log[v].txn => u = v

\* What commit() may put in the log: files that exist and fit, once per txn, and
\* never an overwrite of what its plan had not seen.
CommitsSound ==
    TypeOK /\ CommittedFilesExist /\ TxnCommittedOnce /\ OverwriteDiscardsNobody /\ LayoutFits
=============================================================================
