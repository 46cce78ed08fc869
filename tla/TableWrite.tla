------------------------------ MODULE TableWrite ------------------------------
(***************************************************************************)
(* Writers that append to, or overwrite, one Delta table.                  *)
(*                                                                         *)
(* One writer is one call of Table.append or Table.overwrite (table.py):   *)
(* the handle's txn check, the kernel engine's loop of attempts            *)
(* (engine/kernel.py), each of which reads a snapshot, stages data files   *)
(* and commits them (crates/native/src/commit.rs), the classification of   *)
(* what the log answered, the removal of files that no commit will name,   *)
(* and the publish-and-retry a catalog may demand.                         *)
(*                                                                         *)
(* The log is either _delta_log itself (a put-if-absent per version) or,   *)
(* on a catalog-managed table, the catalog that ratifies the next version. *)
(***************************************************************************)
EXTENDS Integers, Sequences, FiniteSets

CONSTANTS
    Writer,          \* the calls, each made once
    Overwriter,      \* the writers that overwrite; the others append
    Streaming,       \* the writers whose data can be read only once
    TxnOf,           \* writer -> the (app_id, version) pair it was given, or NoTxn
    NoTxn,
    Kinds,           \* the kinds of table a run starts from (see TableKinds)
    KernelAttempts,  \* 1 + append_commit_retries of the kernel engine
    TableAttempts,   \* 1 + the retries of Table._raced_append
    UnpublishedCap,  \* ratified commits the catalog holds before it wants them published
    Faults           \* the failures the environment may produce

(***************************************************************************)
(* A fault "x_applied" is a reply lost after the commit took effect: the   *)
(* caller gets the same error as for "x", and the version exists.          *)
(***************************************************************************)
FaultKinds == {"stage", "delete", "io", "io_applied", "server", "server_applied",
               "denied", "missing", "rejected", "tail", "publish", "crash"}

\* A path-based table; a catalog-managed one; and a catalog-managed one whose
\* handle came pickled to a worker, without the means to read the tail again.
TableKinds == {"path", "managed", "tailless"}

ASSUME ConstantsAssumption ==
    /\ Overwriter \subseteq Writer
    /\ Streaming \subseteq Writer
    /\ Kinds \subseteq TableKinds
    /\ KernelAttempts \in Nat \ {0}
    /\ TableAttempts \in Nat \ {0}
    /\ UnpublishedCap \in Nat \ {0}
    /\ Faults \subseteq FaultKinds

VARIABLES
    kind,       \* the kind of table; fixed for good
    log,        \* the commits, log[v] being version v (version 0 created the table)
    published,  \* managed: the newest version copied into _delta_log
    store,      \* the data files in storage
    pc,         \* where each call is
    round,      \* completed rounds of Table._raced_append
    attempt,    \* completed attempts of the kernel loop in this round
    tail,       \* managed: the catalog version the handle holds
    known,      \* managed: the newest catalog version the engine has read
    base,       \* the version of the snapshot the attempt commits on
    writes,     \* stagings so far: names the next data file
    staged,     \* the data files of the attempt in hand
    reply,      \* what the log answered
    error,      \* the error that was raised
    backfilled, \* this _backfilled call has published already
    result      \* what the call returned or raised

handleVars == <<round, tail, backfilled>>
engineVars == <<attempt, known, base>>
vars == <<kind, log, published, store, pc, round, attempt, tail, known, base, writes,
          staged, reply, error, backfilled, result>>

-----------------------------------------------------------------------------
(* The log *)

managed == kind # "path"

LastVersion == Len(log)

Max2(a, b) == IF a >= b THEN a ELSE b

\* The data files live at version v: added by then and not removed since.
LiveAt(v) ==
    {f \in UNION {log[i].adds : i \in 1..v} :
        \E i \in 1..v : f \in log[i].adds /\ \A j \in (i+1)..v : f \notin log[j].removes}

\* Snapshot.app_id_version: the commits up to version v record this txn.
Recorded(txn, v) == txn # NoTxn /\ \E i \in 1..v : log[i].txn = txn

\* The version a snapshot of the latest sees: the newer of the two catalog
\* tails the call holds, or the log's own last version.
View(w) == IF managed THEN Max2(tail[w], known[w]) ELSE LastVersion

Commit(w) == [by |-> w, txn |-> TxnOf[w], adds |-> staged[w],
              removes |-> IF w \in Overwriter THEN LiveAt(base[w]) ELSE {}]

\* The catalog holds as many unpublished commits as it will.
AtCap == managed /\ LastVersion - published >= UnpublishedCap

-----------------------------------------------------------------------------
(* Errors *)

\* classify_commit_error and classify_kernel_commit_error, by what the log said.
Classify ==
    [exists |-> "CommitConflict", cap |-> "BackfillRequired", server |-> "Retryable",
     denied |-> "CatalogPermission", missing |-> "CatalogNotFound",
     rejected |-> "CatalogRejected", io |-> "Kernel"]

\* Faulty variants (Bug...) are never used by the specification: each replaces
\* one definition in a run that shows which property would notice.
BugUnknownIsNever(err) ==
    err \in {"CommitConflict", "Retryable", "BackfillRequired", "CatalogPermission",
             "CatalogNotFound", "Kernel"}

BugConflictKeepsFiles(err) ==
    err \in {"Retryable", "BackfillRequired", "CatalogPermission", "CatalogNotFound"}

never_committed(err) ==
    err \in {"CommitConflict", "Retryable", "BackfillRequired", "CatalogPermission",
             "CatalogNotFound"}

Errors == {"none", "TxnCommitted"} \cup {Classify[r] : r \in DOMAIN Classify}

\* CommitConflictError as the handle catches it: the log's, or the engine's own
\* "transaction was committed by a concurrent writer".
IsConflict(err) == err \in {"CommitConflict", "TxnCommitted"}

\* Data that can be read again is re-staged, if the catalog's tail can be read again.
Attempts(w) ==
    IF w \in Overwriter \cup Streaming \/ kind = "tailless" THEN 1 ELSE KernelAttempts

\* Table._refresh_commit_tail: the tail the handle holds after it. When the
\* catalog fails in one of these ways, it keeps the one it had.
TailAfter(w, failures) ==
    {LastVersion} \cup (IF managed /\ failures \cap Faults # {} THEN {tail[w]} ELSE {})

\* remove_written reports a file it could not delete and goes on.
Undeletable(files) == IF "delete" \in Faults THEN files ELSE {}

Finish(w, r) ==
    /\ pc' = [pc EXCEPT ![w] = "done"]
    /\ result' = [result EXCEPT ![w] = r]

Goto(w, l) == pc' = [pc EXCEPT ![w] = l] /\ UNCHANGED result

-----------------------------------------------------------------------------
(* The call's own steps *)

Init ==
    /\ kind \in Kinds
    /\ log = <<>>
    /\ published = 0
    /\ store = {}
    /\ pc = [w \in Writer |-> "open"]
    /\ round = [w \in Writer |-> 0]
    /\ attempt = [w \in Writer |-> 0]
    /\ tail = [w \in Writer |-> 0]
    /\ known = [w \in Writer |-> 0]
    /\ base = [w \in Writer |-> 0]
    /\ writes = [w \in Writer |-> 0]
    /\ staged = [w \in Writer |-> {}]
    /\ reply = [w \in Writer |-> "none"]
    /\ error = [w \in Writer |-> "none"]
    /\ backfilled = [w \in Writer |-> FALSE]
    /\ result = [w \in Writer |-> "none"]

\* Table.append / Table.overwrite up to the engine call: _check_writable re-reads
\* a catalog's tail, and a txn the table already records ends the call.
Open(w) ==
    /\ pc[w] = "open"
    /\ \E t \in TailAfter(w, {"tail"}) :
          /\ tail' = [tail EXCEPT ![w] = t]
          /\ IF Recorded(TxnOf[w], IF managed THEN Max2(t, known[w]) ELSE LastVersion)
             THEN Finish(w, "skipped") ELSE Goto(w, "read")
    /\ UNCHANGED <<log, published, store, round, engineVars, writes, staged, reply,
                   error, backfilled>>

\* The txn is looked up by Table.append only, before the snapshot is read.
BugNoTxnCheck(w) ==
    /\ pc[w] = "read"
    /\ LET seen == IF managed /\ attempt[w] > 0 THEN LastVersion ELSE known[w]
       IN /\ known' = [known EXCEPT ![w] = seen]
          /\ base' = [base EXCEPT ![w] = IF managed THEN Max2(tail[w], seen) ELSE LastVersion]
    /\ Goto(w, "stage")
    /\ UNCHANGED <<log, published, store, handleVars, attempt, writes, staged, reply, error>>

\* The head of KernelEngine.append's loop: from the second attempt on, a
\* catalog's tail is read again; then a fresh snapshot, and the txn is looked up
\* on the very snapshot the commit will be built on.
ReadSnapshot(w) ==
    /\ pc[w] = "read"
    /\ LET seen == IF managed /\ attempt[w] > 0 THEN LastVersion ELSE known[w]
           v    == IF managed THEN Max2(tail[w], seen) ELSE LastVersion
       IN /\ known' = [known EXCEPT ![w] = seen]
          /\ base' = [base EXCEPT ![w] = v]
          /\ IF Recorded(TxnOf[w], v)
             THEN Goto(w, "raised") /\ error' = [error EXCEPT ![w] = "TxnCommitted"]
             ELSE Goto(w, "stage") /\ UNCHANGED error
    /\ UNCHANGED <<log, published, store, handleVars, attempt, writes, staged, reply>>

\* The catalog's tail could not be read again: the append gives up.
TailUnreadable(w) ==
    /\ {"tail", "denied", "missing"} \cap Faults # {} /\ managed
    /\ pc[w] = "read" /\ attempt[w] > 0
    /\ Finish(w, "unreachable")
    /\ UNCHANGED <<log, published, store, handleVars, engineVars, writes, staged, reply,
                   error>>

\* stage_batches: the rows go to data files of fresh names, which the
\* transaction will add.
Stage(w) ==
    /\ pc[w] = "stage"
    /\ LET f == <<w, writes[w] + 1>>
       IN /\ store' = store \cup {f}
          /\ staged' = [staged EXCEPT ![w] = {f}]
    /\ writes' = [writes EXCEPT ![w] = @ + 1]
    /\ Goto(w, "commit")
    /\ UNCHANGED <<log, published, handleVars, engineVars, reply, error>>

\* Staging failed part way: stage_and_commit removes what it had written, and
\* a removal that fails leaves an orphan.
StageFails(w) ==
    /\ "stage" \in Faults
    /\ pc[w] = "stage"
    /\ writes' = [writes EXCEPT ![w] = @ + 1]
    /\ \E left \in SUBSET Undeletable({<<w, writes[w] + 1>>}) : store' = store \cup left
    /\ Finish(w, "failed")
    /\ UNCHANGED <<log, published, handleVars, engineVars, staged, reply, error>>

\* The commit goes to whatever version is next, not to the one after its snapshot.
BugRatifyAnyVersion(w) ==
    /\ pc[w] = "commit"
    /\ ~AtCap
    /\ log' = Append(log, Commit(w))
    /\ reply' = [reply EXCEPT ![w] = "ok"]
    /\ Goto(w, "settle")
    /\ UNCHANGED <<published, store, handleVars, engineVars, writes, staged, error>>

\* txn.commit takes effect: the next version is this commit. The caller may
\* still be told otherwise.
Ratify(w) ==
    /\ pc[w] = "commit"
    /\ LastVersion = base[w] /\ ~AtCap
    /\ log' = Append(log, Commit(w))
    /\ \E r \in {"ok"} \cup (IF ~managed /\ "io_applied" \in Faults THEN {"io"} ELSE {})
                       \cup (IF managed /\ "server_applied" \in Faults THEN {"server"} ELSE {}) :
          reply' = [reply EXCEPT ![w] = r]
    /\ Goto(w, "settle")
    /\ UNCHANGED <<published, store, handleVars, engineVars, writes, staged, error>>

\* txn.commit takes no effect: the version exists, the catalog wants a publish
\* first (it looks at the version before it counts) or refuses, or the request
\* failed before it got there.
Refuse(w) ==
    /\ pc[w] = "commit"
    /\ \E r \in (IF LastVersion > base[w] THEN {"exists"} ELSE IF AtCap THEN {"cap"} ELSE {})
                \cup ({"io"} \cap Faults)
                \cup (IF managed THEN {"server", "denied", "missing", "rejected"} \cap Faults
                      ELSE {}) :
          reply' = [reply EXCEPT ![w] = r]
    /\ Goto(w, "settle")
    /\ UNCHANGED <<log, published, store, handleVars, engineVars, writes, staged, error>>

\* finish_commit_as succeeded: the version goes back to the caller.
Committed(w) ==
    /\ pc[w] = "settle" /\ reply[w] = "ok"
    /\ Finish(w, "committed")
    /\ UNCHANGED <<log, published, store, handleVars, engineVars, writes, staged, reply,
                   error>>

\* finish_commit_as failed: stage_and_commit deletes the staged files when the
\* error says that the commit never landed (a delete may fail too).
Failed(w) ==
    /\ pc[w] = "settle" /\ reply[w] # "ok"
    /\ error' = [error EXCEPT ![w] = Classify[reply[w]]]
    /\ IF never_committed(error'[w])
       THEN \E left \in SUBSET Undeletable(staged[w]) : store' = (store \ staged[w]) \cup left
       ELSE UNCHANGED store
    /\ Goto(w, "raised")
    /\ UNCHANGED <<log, published, handleVars, engineVars, writes, staged, reply>>

\* Every failure is retried, the ones whose outcome is unknown included.
BugRetryUnknown(w) ==
    /\ pc[w] = "raised"
    /\ IF attempt[w] + 1 < Attempts(w) /\ ~Recorded(TxnOf[w], View(w))
       THEN Goto(w, "read") /\ attempt' = [attempt EXCEPT ![w] = @ + 1]
       ELSE Goto(w, "table") /\ UNCHANGED attempt
    /\ UNCHANGED <<log, published, store, handleVars, known, base, writes, staged, reply,
                   error>>

\* The conflict handler of KernelEngine.append's loop: re-stage on the next
\* attempt's snapshot, unless the attempts are spent or the winner recorded
\* this very txn; any other error leaves the loop.
NextAttempt(w) ==
    /\ pc[w] = "raised"
    /\ IF /\ error[w] = "CommitConflict"
          /\ attempt[w] + 1 < Attempts(w)
          /\ ~Recorded(TxnOf[w], View(w))
       THEN Goto(w, "read") /\ attempt' = [attempt EXCEPT ![w] = @ + 1]
       ELSE Goto(w, "table") /\ UNCHANGED attempt
    /\ UNCHANGED <<log, published, store, handleVars, known, base, writes, staged, reply,
                   error>>

\* The 429 is taken for a rate limit: tried again without a publish.
BugBackfillOnlyRetries(w) ==
    /\ pc[w] = "table" /\ error[w] = "BackfillRequired"
    /\ IF backfilled[w] THEN Finish(w, "backfill") ELSE Goto(w, "reread")
    /\ UNCHANGED <<log, published, store, handleVars, engineVars, writes, staged, reply, error>>

\* Table._backfilled on BackfillRequiredError: publish what this handle's tail
\* names, unless that was done already.
Backfill(w) ==
    /\ pc[w] = "table" /\ error[w] = "BackfillRequired"
    /\ \/ /\ ~backfilled[w]
          /\ published' = Max2(published, View(w))
          /\ Goto(w, "reread")
       \/ /\ backfilled[w] \/ "publish" \in Faults
          /\ Finish(w, "backfill")
          /\ UNCHANGED published
    /\ UNCHANGED <<log, store, handleVars, engineVars, writes, staged, reply, error>>

\* ... then read the tail again, or keep the one it has when the catalog does not
\* answer, and run the write once more, unless its data was a stream.
Reread(w) ==
    /\ pc[w] = "reread"
    /\ \E t \in TailAfter(w, {"tail", "missing"}) : tail' = [tail EXCEPT ![w] = t]
    /\ backfilled' = [backfilled EXCEPT ![w] = TRUE]
    /\ attempt' = [attempt EXCEPT ![w] = 0]
    /\ IF w \in Streaming THEN Finish(w, "backfill") ELSE Goto(w, "read")
    /\ UNCHANGED <<log, published, store, round, known, base, writes, staged, reply, error>>

\* Table._raced_append on CommitConflictError, on a path table: the race was
\* lost to this very batch, or the conflict is the caller's.
SurfaceConflict(w) ==
    /\ pc[w] = "table" /\ IsConflict(error[w])
    /\ ~managed \/ w \in Overwriter
    /\ Finish(w, IF Recorded(TxnOf[w], View(w)) THEN "skipped" ELSE "conflict")
    /\ UNCHANGED <<log, published, store, handleVars, engineVars, writes, staged, reply,
                   error>>

\* The same on a catalog-managed table: read the tail again and start the
\* write over, unless the winner was this very batch.
ManagedConflict(w) ==
    /\ pc[w] = "table" /\ IsConflict(error[w])
    /\ managed /\ w \notin Overwriter
    /\ \/ /\ round[w] + 1 >= TableAttempts \/ w \in Streaming
          /\ Finish(w, "conflict")
          /\ UNCHANGED <<tail, round, attempt, backfilled>>
       \/ /\ round[w] + 1 < TableAttempts /\ w \notin Streaming
          /\ \E t \in TailAfter(w, {"tail"}) :
                /\ tail' = [tail EXCEPT ![w] = t]
                /\ IF Recorded(TxnOf[w], Max2(t, known[w]))
                   THEN Finish(w, "skipped") ELSE Goto(w, "read")
          /\ round' = [round EXCEPT ![w] = @ + 1]
          /\ attempt' = [attempt EXCEPT ![w] = 0]
          /\ backfilled' = [backfilled EXCEPT ![w] = FALSE]
    /\ UNCHANGED <<log, published, store, known, base, writes, staged, reply, error>>

\* _refresh_commit_tail raises: the catalog refuses the caller or, before a write,
\* no longer has the table. Whatever was committed before was refused.
TailRefused(w) ==
    /\ managed
    /\ \/ pc[w] = "open" /\ {"denied", "missing"} \cap Faults # {}
       \/ pc[w] = "reread" /\ "denied" \in Faults
       \/ /\ pc[w] = "table" /\ IsConflict(error[w]) /\ {"denied", "missing"} \cap Faults # {}
          /\ w \notin Overwriter \cup Streaming /\ round[w] + 1 < TableAttempts
    /\ Finish(w, "unreachable")
    /\ UNCHANGED <<log, published, store, handleVars, engineVars, writes, staged, reply,
                   error>>

\* An unknown outcome is reported as a refusal.
BugUnknownIsRefusal(w) ==
    /\ pc[w] = "table"
    /\ ~IsConflict(error[w]) /\ error[w] # "BackfillRequired"
    /\ Finish(w, "refused")
    /\ UNCHANGED <<log, published, store, handleVars, engineVars, writes, staged, reply,
                   error>>

\* Any other error reaches the caller.
GiveUp(w) ==
    /\ pc[w] = "table"
    /\ ~IsConflict(error[w]) /\ error[w] # "BackfillRequired"
    /\ Finish(w, CASE error[w] = "Retryable" -> "transient"
                   [] error[w] = "Kernel" -> "storage"
                   [] OTHER -> "refused")
    /\ UNCHANGED <<log, published, store, handleVars, engineVars, writes, staged, reply,
                   error>>

\* The process dies; what it wrote stays where it is.
Crash(w) ==
    /\ "crash" \in Faults
    /\ pc[w] # "done"
    /\ Finish(w, "crashed")
    /\ UNCHANGED <<log, published, store, handleVars, engineVars, writes, staged, reply,
                   error>>

Step(w) ==
    \/ Open(w) \/ ReadSnapshot(w) \/ Stage(w) \/ Ratify(w) \/ Refuse(w)
    \/ Committed(w) \/ Failed(w) \/ NextAttempt(w)
    \/ Backfill(w) \/ Reread(w) \/ SurfaceConflict(w) \/ ManagedConflict(w) \/ GiveUp(w)

Fail(w) == TailUnreadable(w) \/ TailRefused(w) \/ StageFails(w) \/ Crash(w)

Terminated == (\A w \in Writer : pc[w] = "done") /\ UNCHANGED vars

Next == ((\E w \in Writer : Step(w) \/ Fail(w)) /\ UNCHANGED kind) \/ Terminated

Spec == Init /\ [][Next]_vars

\* Every call runs in a thread of its own that keeps running.
FairSpec == Spec /\ \A w \in Writer : WF_vars(Step(w) /\ UNCHANGED kind)

-----------------------------------------------------------------------------
(* Properties *)

File == Writer \X Nat

CommitRecord == [by : Writer, txn : {TxnOf[w] : w \in Writer},
                 adds : SUBSET File, removes : SUBSET File]

\* The variables keep their types.
TypeOK ==
    /\ log \in Seq(CommitRecord)
    /\ published \in Nat
    /\ store \subseteq File
    /\ pc \in [Writer -> {"open", "read", "stage", "commit", "settle", "raised",
                          "table", "reread", "done"}]
    /\ round \in [Writer -> Nat] /\ attempt \in [Writer -> Nat]
    /\ tail \in [Writer -> Nat] /\ known \in [Writer -> Nat] /\ base \in [Writer -> Nat]
    /\ writes \in [Writer -> Nat]
    /\ staged \in [Writer -> SUBSET File]
    /\ reply \in [Writer -> {"none", "ok"} \cup DOMAIN Classify]
    /\ \A w \in Writer : pc[w] = "settle" => reply[w] # "none"
    /\ error \in [Writer -> Errors]
    /\ backfilled \in [Writer -> BOOLEAN]
    /\ result \in [Writer -> {"none", "committed", "skipped", "conflict", "backfill",
                              "transient", "storage", "refused", "failed", "unreachable",
                              "crashed"}]

\* No cleanup ever deletes a data file that a commit names: stage_and_commit
\* removes files only when their commit certainly did not land.
CommittedFilesExist == \A v \in 1..LastVersion : log[v].adds \subseteq store

\* txn= makes the write exactly-once: two runs of one job, in whatever order
\* their checks, lost races and crashes fall, leave one commit of that txn.
TxnCommittedOnce ==
    \A u, v \in 1..LastVersion : log[u].txn # NoTxn /\ log[u].txn = log[v].txn => u = v

\* An append re-staged after lost races and publishes lands once at most.
LandsOnce == \A u, v \in 1..LastVersion : log[u].by = log[v].by => u = v

\* What the caller is told is what happened: "committed" names a version that
\* is in the log, "skipped" means that its txn is, and an error that says that
\* nothing was committed is right about it.
OutcomeTruthful ==
    \A w \in Writer :
        LET landed == \E v \in 1..LastVersion : log[v].by = w
        IN /\ result[w] = "committed" => landed
           /\ result[w] = "skipped" => ~landed /\ Recorded(TxnOf[w], LastVersion)
           /\ result[w] \in {"conflict", "backfill", "refused", "failed", "unreachable"}
                 => ~landed

\* An overwrite replaces exactly the table its version follows: no file that a
\* concurrent writer committed first outlives it, and none is removed unseen.
OverwriteReplacesAll ==
    \A v \in 1..LastVersion : log[v].by \in Overwriter => LiveAt(v) = log[v].adds

\* What a version of the log is: a well-formed commit, and the table it should be.
VersionsSound == TypeOK /\ OverwriteReplacesAll

\* Where deletions succeed, a file that no version names is of its call's last
\* attempt, and that attempt is still at its commit, crashed, had an open outcome
\* (the caller was told so), or was rejected. What lost races, demands to publish
\* and the other refusals leave behind is gone. A rejection is a certain failure
\* too, and keeps its files all the same: see RefusedLeavesNothing.
NoOrphans ==
    "delete" \notin Faults =>
    \A f \in store :
        \/ \E v \in 1..LastVersion : f \in log[v].adds
        \/ /\ f \in staged[f[1]]
           /\ \/ pc[f[1]] \in {"commit", "settle"}
              \/ error[f[1]] \in {"Kernel", "CatalogRejected"}
              \/ result[f[1]] = "crashed"

\* What the comment on never_committed says: the files of a commit that the catalog
\* refused are deleted. The code does not do so for every refusal: an answer like
\* a 400 reaches the caller as "the catalog refused the commit", and the files stay.
RefusedLeavesNothing ==
    "delete" \notin Faults =>
    \A f \in store :
        result[f[1]] = "refused" => \E v \in 1..LastVersion : f \in log[v].adds

\* A re-readable append never fails for contention alone: with as many attempts
\* as there are writers, each lost race is another writer's one commit, so under
\* the scheduler's fairness every append lands (or finds its batch landed),
\* publishing along the way, unless a fault struck this very call (its process,
\* its staging, its request, its catalog or its publish failed), or the tail it read
\* once it had published, which it does once, was not the newest: others had
\* filled the catalog again, or the catalog had not answered. Where the engine
\* cannot read the tail itself, one that the handle kept may cost every round.
EveryAppendLands ==
    \A w \in Writer \ (Overwriter \cup Streaming) :
        <>(\/ result[w] \in {"committed", "skipped", "crashed", "failed", "storage",
                             "transient", "refused", "unreachable"}
           \/ result[w] = "backfill" /\ (~backfilled[w] \/ tail[w] < LastVersion)
           \/ result[w] = "conflict" /\ kind = "tailless" /\ tail[w] < LastVersion)
=============================================================================
