------------------------------ MODULE TableCreate ------------------------------
(***************************************************************************)
(* Calls that create their table: Connection.plan_write of a new name      *)
(* (_create.py, pending.rs), Connection.write_table and create_table       *)
(* (connection.py).                                                        *)
(*                                                                         *)
(* Several calls and another writer meet under one name. A table is        *)
(* version 0 at a location, then commits. The name is a path (then the     *)
(* table at the shared location is the table), an external table (the log  *)
(* at the shared location is written first, the name registered after) or  *)
(* a managed table (every creator writes version 0 to a staging location   *)
(* of its own, and the catalog registers one of them). The metaData id of  *)
(* a version 0 is its creator. A call's data files land together, so the   *)
(* call itself stands for them.                                            *)
(***************************************************************************)
EXTENDS Integers, Sequences, FiniteSets

CONSTANTS
    Job,        \* the calls
    Other,      \* a writer outside these calls, and its table's location
    Shared,     \* the location of a path or external table
    None,       \* no version 0, or no registration
    Settings,   \* the settings a run starts from
    Retries,    \* the retries= of commit()
    MaxCalls,   \* bound: commit() calls for one plan
    MaxOthers   \* bound: steps of the other writer

(***************************************************************************)
(* "applied": a request took effect and its answer was lost. "lost": it    *)
(* failed without effect, and the caller cannot tell. "late": a finalize   *)
(* request without an answer takes effect later. "ask": the catalog cannot *)
(* say whether a name exists. "refuse": planning refuses the write.        *)
(* "cancel": abort() is called. "delete": a deletion fails. "fail": the    *)
(* first append of write_table fails. "drop": the other writer drops the   *)
(* name. "overlap": what others do falls between an undo's look at the     *)
(* table and its deletion.                                                 *)
(***************************************************************************)
FaultKinds == {"applied", "lost", "late", "ask", "refuse", "cancel", "delete", "fail", "drop",
               "overlap"}

(***************************************************************************)
(* A setting: the kind of name, each call's method and save mode, the      *)
(* layout each creator gives the table, the plans committed with           *)
(* abort_on_failure=False, and the failures that occur.                    *)
(***************************************************************************)
ASSUME ConstantsAssumption ==
    /\ Other \notin Job /\ Shared \notin Job \cup {Other} /\ None \notin Job \cup {Other, Shared}
    /\ Retries \in Nat /\ MaxCalls \in Nat /\ MaxOthers \in Nat
    /\ \A s \in Settings :
          /\ s.kind \in {"local", "object", "external", "managed"}
          /\ s.api \in [Job -> {"plan_write", "write_table", "create_table"}]
          /\ s.mode \in [Job -> {"append", "overwrite", "error", "ignore"}]
          /\ \A j \in Job : s.api[j] = "create_table" => s.mode[j] \in {"error", "ignore"}
          /\ DOMAIN s.layout = Job \cup {Other}
          /\ s.keep \subseteq Job
          /\ s.faults \subseteq FaultKinds

VARIABLES
    setting,   \* fixed for good
    zero,      \* location -> whose version 0 is there
    commits,   \* location -> the commits after version 0
    logDir,    \* the shared location has a _delta_log directory
    name,      \* the location the catalog has registered, or None
    late,      \* finalize requests still under way
    files,     \* the calls whose data files are in storage
    template,  \* the plans whose template is under _deltaswamp_pending
    pc, calls, attempt,
    target,    \* the location a call commits into
    identity,  \* the metaData id it expects there
    base,      \* commits in the snapshot it commits on
    existed,   \* write_table: a log directory was there before
    result,    \* what the last call returned or raised
    others,    \* steps of the other writer so far
    met        \* the undos that others' steps came into, after their look (history)

vars == <<setting, zero, commits, logDir, name, late, files, template, pc, calls, attempt,
          target, identity, base, existed, result, others, met>>
tables == <<zero, commits, logDir>>
caller == <<calls, attempt, target, identity, base, existed>>

-----------------------------------------------------------------------------
Faults == setting.faults
Mode(j) == setting.mode[j]
Keeps(j) == j \in setting.keep
Managed == setting.kind = "managed"
Catalogued == setting.kind \in {"external", "managed"}
Location == Job \cup {Other, Shared}

\* Where a call creates its table.
Home(j) == IF Managed THEN j ELSE Shared

\* Connection.table_exists: the catalog is asked about a name, storage about a path.
Exists == IF Catalogued THEN name # None ELSE zero[Shared] # None

\* The table at l can be opened and committed to.
Live(l) == zero[l] # None /\ (Managed => name = l)

LandedIn(j, l) == \E i \in DOMAIN commits[l] : commits[l][i] = j

Fits(j, l) == setting.layout[j] = setting.layout[zero[l]]

Without(S, j) == {S \ {j}} \cup (IF "delete" \in Faults THEN {S} ELSE {})

Fails(kind) == kind \in Faults

\* put-if-absent of version 0.
PutZero(l, j) ==
    /\ zero' = IF zero[l] = None THEN [zero EXCEPT ![l] = j] ELSE zero
    /\ logDir' = (logDir \/ l = Shared)
    /\ UNCHANGED commits

\* The catalog registers the table at l unless the name is taken.
Claim(l) == name = None /\ name' = l

Goto(j, l) == pc' = [pc EXCEPT ![j] = l] /\ UNCHANGED result

Ending(j, l, r) == pc' = [pc EXCEPT ![j] = l] /\ result' = [result EXCEPT ![j] = r]

\* The call returns or raises r.
Finish(j, r) == Ending(j, "idle", r)

\* No undo is between its check and its deletion.
Undisturbed == Fails("overlap") \/ \A k \in Job : pc[k] \notin {"drop", "rmtree"}

\* No other call is between its snapshot and its commit.
Quiet(j) == Fails("overlap") \/ \A k \in Job \ {j} : pc[k] # "put"

-----------------------------------------------------------------------------
Init ==
    /\ setting \in Settings
    /\ zero = [l \in Location |-> None] /\ commits = [l \in Location |-> <<>>]
    /\ logDir = FALSE /\ name = None /\ late = {} /\ files = {} /\ template = {}
    /\ pc = [j \in Job |-> "new"]
    /\ calls = [j \in Job |-> 0] /\ attempt = [j \in Job |-> 0]
    /\ target = [j \in Job |-> Shared] /\ identity = [j \in Job |-> None]
    /\ base = [j \in Job |-> 0] /\ existed = [j \in Job |-> FALSE]
    /\ result = [j \in Job |-> "none"]
    /\ others = 0 /\ met = {}

\* What a save mode makes of a table that is already there.
SaveMode(j) ==
    Finish(j, CASE Mode(j) = "error" -> "refused"
                [] Mode(j) = "ignore" -> "ignored"
                [] OTHER -> "existing")

(* Connection.plan_write *)

\* _plan_managed stages version 0 where nothing can see it yet; a path or external
\* table's is composed and kept for the commit.
Stage(j) == IF Managed THEN PutZero(j, j) ELSE UNCHANGED tables

WriteTemplate(j) == template' = template \cup {j}

\* plan_create_write: an existing table is planned into as any other; for a new
\* one the template is written, and a managed table's version 0 is staged.
PlanWrite(j) ==
    /\ pc[j] = "new" /\ setting.api[j] = "plan_write"
    /\ IF Exists
       THEN SaveMode(j) /\ UNCHANGED <<tables, template>>
       ELSE Stage(j) /\ WriteTemplate(j) /\ Goto(j, "planned")
    /\ UNCHANGED <<name, late, files, caller, others>>

\* The checks a write into the table would get refuse it: the template goes.
PlanRefused(j) ==
    /\ pc[j] = "planned" /\ Fails("refuse")
    /\ template' \in Without(template, j)
    /\ Finish(j, "refused")
    /\ UNCHANGED <<tables, name, late, files, caller, others>>

\* The workers write the data files under the location the table will have.
WriteFiles(j) ==
    /\ pc[j] = "planned"
    /\ files' = files \cup {j}
    /\ Goto(j, "idle")
    /\ UNCHANGED <<tables, name, late, template, caller, others>>

\* A caller commits, and commits again unless it was told how the write ended.
MayCall(j) ==
    /\ pc[j] = "idle" /\ setting.api[j] = "plan_write"
    /\ \/ result[j] \in {"none", "unknown", "error", "unregistered"}
       \/ result[j] = "failed" /\ Keeps(j)

CommitCall(j) ==
    /\ MayCall(j) /\ calls[j] < MaxCalls
    /\ calls' = [calls EXCEPT ![j] = @ + 1]
    /\ attempt' = [attempt EXCEPT ![j] = 0]
    /\ Ending(j, IF Managed THEN "finalize" ELSE "publish", "none")
    /\ UNCHANGED <<tables, name, late, files, template, target, identity, base, existed, others>>

\* _published: version 0 is put, a conflict is passed over. A put whose answer is
\* lost raises.
Publish(j) ==
    /\ pc[j] = "publish"
    /\ \/ PutZero(Shared, j) /\ Goto(j, "open")
       \/ Fails("applied") /\ PutZero(Shared, j) /\ Finish(j, "unknown")
       \/ Fails("lost") /\ UNCHANGED tables /\ Finish(j, "unknown")
    /\ UNCHANGED <<name, late, files, template, caller, others>>

\* The files' deletion through an open table: refused when a commit took them.
AbortFiles(j, l) == files' \in IF LandedIn(j, l) THEN {files} ELSE Without(files, j)

Retarget(j, l) ==
    /\ target' = [target EXCEPT ![j] = l]
    /\ identity' = [identity EXCEPT ![j] = zero[l]]
    /\ Goto(j, "attempt")

\* _joined: the files of an append go into the other writer's table if they fit it.
Joins(j) == Mode(j) = "append" /\ Fits(j, Shared)

\* _opened, and _joined when the version 0 found there is another writer's.
Open(j) ==
    /\ pc[j] = "open"
    /\ \/ zero[Shared] = None /\ Finish(j, "error")
          /\ UNCHANGED <<target, identity, files, template>>
       \/ /\ zero[Shared] # None
          /\ zero[Shared] = j \/ Joins(j)
          /\ Retarget(j, Shared) /\ UNCHANGED <<files, template>>
       \/ /\ zero[Shared] \notin {None, j} /\ ~Joins(j)
          /\ IF Keeps(j) /\ Mode(j) # "ignore" THEN UNCHANGED files ELSE AbortFiles(j, Shared)
          /\ template' \in Without(template, j)
          /\ Finish(j, IF Mode(j) = "ignore" THEN "ignored" ELSE "refused")
          /\ UNCHANGED <<target, identity>>
    /\ UNCHANGED <<tables, name, late, calls, attempt, base, existed, others>>

\* _finalized: the catalog registers the staged table unless the name is taken.
Finalize(j) ==
    /\ pc[j] = "finalize"
    /\ \/ Claim(j) /\ Goto(j, "resolve") /\ UNCHANGED late
       \/ Fails("applied") /\ Claim(j) /\ Goto(j, "registered") /\ UNCHANGED late
       \/ (name # None \/ Fails("lost")) /\ Goto(j, "registered") /\ UNCHANGED <<name, late>>
       \/ Fails("late") /\ late' = late \cup {j} /\ Goto(j, "registered") /\ UNCHANGED name
    /\ UNCHANGED <<tables, files, template, caller, others>>

\* A finalize request whose answer was lost takes effect.
FinalizeLate(j) ==
    /\ j \in late
    /\ late' = late \ {j}
    /\ name' = IF name = None THEN j ELSE name
    /\ UNCHANGED <<tables, files, template, pc, caller, result, others>>

\* _registered_anyway: a finalize that failed may have registered the table, or
\* another writer has the name. An answer the catalog does not give counts as no.
RegisteredAnyway(j) ==
    /\ pc[j] = "registered"
    /\ \/ name # None /\ Goto(j, "resolve")
       \/ (name = None \/ Fails("ask")) /\ Goto(j, "absent")
    /\ UNCHANGED <<tables, name, late, files, template, caller, others>>

\* The files go only when the catalog says, again, that the name is free.
CertainlyAbsent(j) ==
    /\ pc[j] = "absent"
    /\ \/ /\ ~Keeps(j) /\ name = None
          /\ files' \in Without(files, j) /\ template' \in Without(template, j)
          /\ Finish(j, "refused")
       \/ /\ Keeps(j) \/ name # None \/ Fails("ask")
          /\ Finish(j, "error") /\ UNCHANGED <<files, template>>
    /\ UNCHANGED <<tables, name, late, caller, others>>

\* The name resolves to this plan's table, or to another writer's (_lost_managed:
\* the files are in this plan's own staging location, so they are deleted unchecked).
Resolve(j) ==
    /\ pc[j] = "resolve"
    /\ \/ name = None /\ Finish(j, "error") /\ UNCHANGED <<target, identity, files>>
       \/ name = j /\ Retarget(j, j) /\ UNCHANGED files
       \/ /\ name \notin {None, j}
          /\ IF Keeps(j) /\ Mode(j) # "ignore" THEN UNCHANGED files
                                               ELSE files' \in Without(files, j)
          /\ Finish(j, IF Mode(j) = "ignore" THEN "ignored" ELSE "refused")
          /\ UNCHANGED <<target, identity>>
    /\ UNCHANGED <<tables, name, late, template, calls, attempt, base, existed, others>>

BugNotLanded(j) == FALSE

\* _landed_version, in the commits after the files were written.
AlreadyLanded(j) == LandedIn(j, target[j])

\* The head of WritePlan._commit's loop and commit_files up to its snapshot. A
\* table that is gone or was created again is an error of another kind than a
\* certain failure: nothing is deleted.
Attempt(j) ==
    /\ pc[j] = "attempt" /\ Undisturbed
    /\ \/ ~Live(target[j]) /\ Finish(j, "error") /\ UNCHANGED base
       \/ Live(target[j]) /\ AlreadyLanded(j) /\ Goto(j, "landed") /\ UNCHANGED base
       \/ /\ Live(target[j]) /\ ~AlreadyLanded(j)
          /\ IF zero[target[j]] # identity[j]
             THEN Finish(j, "error") /\ UNCHANGED base
             ELSE /\ base' = [base EXCEPT ![j] = Len(commits[target[j]])]
                  /\ Goto(j, "put")
    /\ UNCHANGED <<tables, name, late, files, template, calls, attempt, target, identity,
                   existed, others>>

AddCommit(j, l) == commits' = [commits EXCEPT ![l] = Append(@, j)] /\ UNCHANGED <<zero, logDir>>

\* The version after the snapshot is free; a managed table must be registered still.
Current(j) == Len(commits[target[j]]) = base[j] /\ (Managed => name = target[j])

\* An attempt is left after this one.
AttemptsLeft(j) == attempt[j] < Retries

\* The commit of the data: it lands, loses its version, or finds its table dropped.
Put(j) ==
    /\ pc[j] = "put" /\ Undisturbed
    /\ \/ Current(j) /\ AddCommit(j, target[j]) /\ Goto(j, "landed") /\ UNCHANGED attempt
       \/ Managed /\ name # target[j] /\ Finish(j, "error") /\ UNCHANGED <<tables, attempt>>
       \/ /\ Len(commits[target[j]]) # base[j] /\ (Managed => name = target[j])
          /\ UNCHANGED tables
          /\ IF AttemptsLeft(j)
             THEN attempt' = [attempt EXCEPT ![j] = @ + 1] /\ Goto(j, "attempt")
             ELSE UNCHANGED attempt /\ Ending(j, IF Keeps(j) THEN "idle" ELSE "abort", "failed")
    /\ UNCHANGED <<name, late, files, template, calls, target, identity, base, existed, others>>

BugUnknownFails(j) == Ending(j, IF Keeps(j) THEN "idle" ELSE "abort", "failed")

\* TransientCommitError on the last attempt: nothing is deleted.
UnknownOutcome(j) == Finish(j, "unknown")

PutUnanswered(j) ==
    /\ pc[j] = "put" /\ Undisturbed
    /\ \/ Fails("applied") /\ Current(j) /\ AddCommit(j, target[j])
       \/ Fails("lost") /\ UNCHANGED tables
    /\ IF AttemptsLeft(j)
       THEN attempt' = [attempt EXCEPT ![j] = @ + 1] /\ Goto(j, "attempt")
       ELSE UNCHANGED attempt /\ UnknownOutcome(j)
    /\ UNCHANGED <<name, late, files, template, calls, target, identity, base, existed, others>>

\* The data is in: the template goes, and an external table is still to register.
Landed(j) ==
    /\ pc[j] = "landed"
    /\ template' \in Without(template, j)
    /\ IF setting.kind = "external" THEN Goto(j, "register") ELSE Finish(j, "committed")
    /\ UNCHANGED <<tables, name, late, files, caller, others>>

\* _register: a name registered already at this very location is what was asked for.
Register(j) ==
    /\ pc[j] = "register"
    /\ Claim(Shared) \/ ((name # None \/ Fails("lost")) /\ UNCHANGED name)
    /\ Finish(j, IF name' = Shared THEN "committed" ELSE "unregistered")
    /\ UNCHANGED <<tables, late, files, template, caller, others>>

BugForgetsCreate(j) == FALSE

\* The version 0 there is this plan's.
Own(j) == zero[Home(j)] = j

\* _commit_data after a certain failure.
CertainFailure(j) ==
    /\ pc[j] = "abort"
    /\ AbortFiles(j, target[j])
    /\ Goto(j, IF identity[j] = j THEN "undo" ELSE "discard")
    /\ UNCHANGED <<tables, name, late, template, caller, others>>

BugUndoesAny(j) == Own(j)

\* The table this plan created has no version but 0.
StillEmpty(j) == Own(j) /\ commits[Home(j)] = <<>>

\* _undo: rollback_create reads version 1, then version 0; a managed table's
\* version is read.
UndoCheck(j) ==
    /\ pc[j] = "undo" /\ Quiet(j)
    /\ Goto(j, IF StillEmpty(j) THEN "drop" ELSE "discard")
    /\ UNCHANGED <<tables, name, late, files, template, caller, others>>

\* Version 0 is deleted, or whatever the name stands for is dropped; best effort.
UndoDrop(j) ==
    /\ pc[j] = "drop"
    /\ \/ Fails("delete") /\ UNCHANGED <<zero, name>>
       \/ IF Managed THEN name' = None /\ UNCHANGED zero
                     ELSE zero' = [zero EXCEPT ![Shared] = None] /\ UNCHANGED name
    /\ Goto(j, "discard")
    /\ UNCHANGED <<commits, logDir, late, files, template, caller, others>>

Discard(j) ==
    /\ pc[j] = "discard"
    /\ template' \in Without(template, j)
    /\ Goto(j, "idle")
    /\ UNCHANGED <<tables, name, late, files, caller, others>>

\* _current: no table of this plan's name exists yet, as far as it is concerned.
Uncreated(j) == IF Managed THEN name # j ELSE zero[Shared] = None

\* abort(): the files are deleted unchecked only when no table is there.
AbortCall(j) ==
    /\ MayCall(j) /\ Fails("cancel")
    /\ \/ Uncreated(j) /\ files' \in Without(files, j) /\ Ending(j, "discard", "aborted")
       \/ ~Uncreated(j) /\ LandedIn(j, Home(j)) /\ Finish(j, "landed") /\ UNCHANGED files
       \/ /\ ~Uncreated(j) /\ ~LandedIn(j, Home(j))
          /\ files' \in Without(files, j)
          /\ Ending(j, IF Own(j) THEN "undo" ELSE "discard", "aborted")
    /\ UNCHANGED <<tables, name, late, template, caller, others>>

(* Connection.write_table and create_table *)

\* The existence check, and write_table's look for a local log directory.
CheckExists(j) ==
    /\ pc[j] = "new" /\ setting.api[j] # "plan_write"
    /\ existed' = [existed EXCEPT ![j] = logDir]
    /\ IF ~Exists THEN Goto(j, "create")
       ELSE IF Mode(j) \in {"error", "ignore"} THEN SaveMode(j)
       ELSE Goto(j, "existing")
    /\ UNCHANGED <<tables, name, late, files, template, calls, attempt, target, identity, base,
                   others>>

\* create_table, up to version 0: at the path, at the external location or staged.
CreateLog(j) ==
    /\ pc[j] = "create"
    /\ \/ /\ Exists \/ (~Managed /\ zero[Shared] # None)
          /\ Goto(j, "raised") /\ UNCHANGED tables
       \/ /\ ~Exists /\ zero[Home(j)] = None
          /\ PutZero(Home(j), j) /\ Goto(j, IF Catalogued THEN "enroll" ELSE "created")
       \/ /\ Fails("applied") /\ ~Exists /\ zero[Home(j)] = None
          /\ PutZero(Home(j), j) /\ Finish(j, "unknown")
    /\ UNCHANGED <<name, late, files, template, caller, others>>

\* _create_external's register_table, _create_managed's finalize_managed_table: any
\* failure is raised as UnreachableTableError, a lost answer included.
Enroll(j) ==
    /\ pc[j] = "enroll"
    /\ \/ Claim(Home(j)) /\ Goto(j, "created")
       \/ Fails("applied") /\ Claim(Home(j)) /\ Goto(j, "raised")
       \/ (name # None \/ Fails("lost")) /\ UNCHANGED name /\ Goto(j, "raised")
    /\ UNCHANGED <<tables, late, files, template, caller, others>>

\* The create raised UnreachableTableError: if the table exists now, the mode decides.
CreateRaised(j) ==
    /\ pc[j] = "raised"
    /\ IF setting.api[j] = "create_table"
       THEN Finish(j, IF Exists /\ Mode(j) = "ignore" /\ ~Catalogued THEN "ignored" ELSE "refused")
       ELSE IF Exists /\ Mode(j) = "ignore" THEN Finish(j, "ignored")
       ELSE IF Exists /\ Mode(j) # "error" THEN Goto(j, "existing")
       ELSE Finish(j, "refused")
    /\ UNCHANGED <<tables, name, late, files, template, caller, others>>

Created(j) ==
    /\ pc[j] = "created"
    /\ IF setting.api[j] = "create_table" THEN Finish(j, "created") ELSE Goto(j, "append")
    /\ target' = [target EXCEPT ![j] = Home(j)]
    /\ identity' = [identity EXCEPT ![j] = j]
    /\ UNCHANGED <<tables, name, late, files, template, calls, attempt, base, existed, others>>

\* _write_existing: create-time layout that differs from the table's is refused.
WriteExisting(j) ==
    /\ pc[j] = "existing"
    /\ \E l \in {IF Catalogued THEN name ELSE Shared} :
          IF l # None /\ Live(l) /\ Fits(j, l)
          THEN /\ target' = [target EXCEPT ![j] = l]
               /\ identity' = [identity EXCEPT ![j] = zero[l]]
               /\ Goto(j, "append")
          ELSE Finish(j, "refused") /\ UNCHANGED <<target, identity>>
    /\ UNCHANGED <<tables, name, late, files, template, calls, attempt, base, existed, others>>

\* Table.append (module TableWrite): it lands with its files, or fails; then
\* write_table looks whether to remove the table it created.
AppendData(j) ==
    /\ pc[j] = "append" /\ Undisturbed
    /\ \/ /\ Live(target[j]) /\ AddCommit(j, target[j]) /\ files' = files \cup {j}
          /\ Finish(j, "committed") \/ (Fails("applied") /\ Ending(j, "cleanup", "unknown"))
       \/ /\ ~Live(target[j]) \/ Fails("fail")
          /\ UNCHANGED <<tables, files>> /\ Ending(j, "cleanup", "failed")
    /\ UNCHANGED <<name, late, template, caller, others>>

\* A local log this call created goes if it holds nothing but version 0.
CleanupCheck(j) ==
    /\ pc[j] = "cleanup" /\ Quiet(j)
    /\ Goto(j, IF /\ setting.kind = "local" /\ identity[j] = j /\ ~existed[j]
                  /\ logDir /\ commits[Shared] = <<>>
               THEN "rmtree" ELSE "idle")
    /\ UNCHANGED <<tables, name, late, files, template, caller, others>>

RemoveLog(j) ==
    /\ pc[j] = "rmtree"
    /\ zero' = [zero EXCEPT ![Shared] = None]
    /\ commits' = [commits EXCEPT ![Shared] = <<>>]
    /\ logDir' = FALSE
    /\ Goto(j, "idle")
    /\ UNCHANGED <<name, late, files, template, caller, others>>

(* Another writer *)

OtherStep ==
    /\ others < MaxOthers /\ Undisturbed
    /\ others' = others + 1
    /\ UNCHANGED <<late, files, template, pc, caller, result>>

\* It creates a table: at the shared location, where it may register it, or under
\* the name at a location of its own.
OtherCreate ==
    /\ OtherStep
    /\ \/ /\ ~Managed /\ zero[Shared] = None /\ PutZero(Shared, Other)
          /\ name' \in {name} \cup (IF setting.kind = "external" /\ name = None THEN {Shared} ELSE {})
       \/ /\ Catalogued /\ name = None /\ zero[Other] = None
          /\ PutZero(Other, Other) /\ name' = Other

\* It commits to the table.
OtherCommit ==
    /\ OtherStep
    /\ \E l \in Location : Live(l) /\ (l # Shared => name = l) /\ AddCommit(Other, l)
    /\ UNCHANGED name

\* It drops the name, not while an undo is about to drop what it found there.
OtherDrop ==
    /\ OtherStep /\ Fails("drop") /\ name # None
    /\ Fails("overlap") \/ \A k \in Job : pc[k] \notin {"abort", "undo"}
    /\ name' = None
    /\ UNCHANGED tables

PlanStep(j) ==
    \/ PlanWrite(j) \/ PlanRefused(j) \/ WriteFiles(j) \/ CommitCall(j) \/ Publish(j) \/ Open(j)
    \/ Finalize(j) \/ FinalizeLate(j) \/ RegisteredAnyway(j) \/ CertainlyAbsent(j) \/ Resolve(j)
    \/ Attempt(j) \/ Put(j) \/ PutUnanswered(j) \/ Landed(j) \/ Register(j) \/ CertainFailure(j)
    \/ UndoCheck(j) \/ UndoDrop(j) \/ Discard(j) \/ AbortCall(j)

WriteStep(j) ==
    \/ CheckExists(j) \/ CreateLog(j) \/ Enroll(j) \/ CreateRaised(j) \/ Created(j)
    \/ WriteExisting(j) \/ AppendData(j) \/ CleanupCheck(j) \/ RemoveLog(j)

\* From its look at what it removes (a managed call's: at the name, then at the table) to
\* the removal.
Window(j) == IF Managed THEN {"abort", "undo", "drop"} ELSE {"drop", "rmtree"}

\* An undo in its window meets what is done to the tables and the name meanwhile.
Meet ==
    met' = {j \in Job : /\ {pc[j], pc'[j]} \subseteq Window(j)
                        /\ j \in met \/ (pc'[j] = pc[j] /\ <<tables, name>>' # <<tables, name>>)}

Next ==
    /\ UNCHANGED setting
    /\ (\E j \in Job : PlanStep(j) \/ WriteStep(j)) \/ OtherCreate \/ OtherCommit \/ OtherDrop
    /\ Meet

Spec == Init /\ [][Next]_vars

-----------------------------------------------------------------------------
(* Properties *)

\* The variables keep their types.
TypeOK ==
    /\ zero \in [Location -> Job \cup {Other, None}]
    /\ commits \in [Location -> Seq(Job \cup {Other})]
    /\ logDir \in BOOLEAN
    /\ name \in Location \cup {None}
    /\ late \subseteq Job /\ files \subseteq Job /\ template \subseteq Job
    /\ pc \in [Job -> {"new", "planned", "idle", "publish", "open", "finalize", "registered",
                       "absent", "resolve", "attempt", "put", "landed", "register", "abort",
                       "undo", "drop", "discard", "create", "enroll", "raised", "created",
                       "existing", "append", "cleanup", "rmtree"}]
    /\ calls \in [Job -> 0..MaxCalls] /\ attempt \in [Job -> 0..Retries]
    /\ target \in [Job -> Location] /\ identity \in [Job -> Job \cup {Other, None}]
    /\ base \in [Job -> Nat] /\ existed \in [Job -> BOOLEAN]
    /\ result \in [Job -> {"none", "refused", "ignored", "existing", "unknown", "error",
                           "committed", "unregistered", "failed", "aborted", "landed",
                           "created"}]
    /\ others \in 0..MaxOthers /\ met \subseteq Job

Planned(j) == setting.api[j] = "plan_write"

\* The table at l was not dropped, or never had a name.
Stands(l) == Managed => name = l

\* Nobody acts between the moment an undo looks at a table and the moment it deletes.
Uninterrupted == "overlap" \notin Faults

\* Data the caller was told is committed stays in a table that can be opened (its
\* version 0 is never undone under it), and a call that raised or gave way has
\* committed none to a table that stands, as long as undos are not interrupted (what
\* they remove otherwise, UndoSparesOthers says); it gives way ("ignore") to another
\* writer's table only, unless it is write_table and the table of its own is one
\* whose registration took effect and lost its answer, or an external one that
\* another call registered (a plan recognizes its own).
OutcomeTruthful ==
    \A j \in Job : pc[j] = "idle" =>
        /\ Uninterrupted /\ result[j] \in {"committed", "unregistered", "landed"} =>
              LandedIn(j, target[j]) /\ zero[target[j]] # None
        /\ Uninterrupted /\ result[j] \in {"refused", "ignored", "failed", "aborted"} =>
              \A l \in Location : LandedIn(j, l) => ~Stands(l)
        /\ result[j] = "ignored" /\ "late" \notin Faults
           /\ (Planned(j) \/ ("applied" \notin Faults /\ setting.kind # "external")) =>
              \A l \in Location : zero[l] = j => ~Live(l)

\* However often commit() is called, and whoever created the table in between, a
\* call's files are in one commit of one table at most, and are there then, as long
\* as undos are not interrupted.
FilesLandOnce ==
    Uninterrupted => \A j \in Job :
        LET landings == {at \in Location \X (1..(Cardinality(Job) + MaxOthers)) :
                            at[2] \in DOMAIN commits[at[1]] /\ commits[at[1]][at[2]] = j}
        IN Cardinality(landings) <= 1 /\ \A at \in landings : Stands(at[1]) => j \in files

\* A creating write writes into a table that another writer created meanwhile only
\* as an append of files that fit it; "error" and "overwrite" (of a plan) and
\* "ignore" write into their own table or not at all.
ModeHonoured ==
    \A j \in Job, l \in Location :
        LandedIn(j, l) /\ zero[l] # j =>
            /\ zero[l] # None => setting.layout[j] = setting.layout[zero[l]]
            /\ Mode(j) = "append" \/ (Mode(j) = "overwrite" /\ ~Planned(j))

\* A call's files land at most once, and only where its save mode allows.
LandsAsAsked == TypeOK /\ FilesLandOnce /\ ModeHonoured

\* A planned create that was refused, failed for certain or was aborted leaves no
\* file, no template, and no empty table of its own that anyone can see, unless
\* deletions fail, a finalize request takes effect after all, or the files were to
\* be kept. (The template of a managed plan that lost the name stays.)
NothingLeft ==
    Faults \cap {"delete", "late"} = {} =>
    \A j \in Job :
        Planned(j) /\ ~Keeps(j) /\ pc[j] = "idle"
        /\ result[j] \in {"refused", "ignored", "failed", "aborted"} =>
            /\ j \notin files
            /\ j \in template => Managed /\ calls[j] > 0 /\ result[j] \in {"refused", "ignored"}
            /\ \A l \in Location : zero[l] = j /\ Live(l) => commits[l] # <<>>

\* The removal of a call's step.
Removes(j) == pc[j] \in {"drop", "rmtree"} /\ pc'[j] # pc[j]

\* What an undo removes is an empty table, which it found to be its own (write_table looks
\* for commits only), unless others came to the table or the name after it looked there,
\* which nothing in the code prevents. So a table with data, or another's, goes only then.
UndoSparesOthers ==
    [][/\ \A l \in Location : zero[l] # None /\ zero'[l] = None =>
             \E j \in Job : /\ Removes(j)
                            /\ j \in met \/ (commits[l] = <<>> /\ (pc[j] = "drop" => zero[l] = j))
       /\ name # None /\ name' = None /\ pc' # pc =>
             \E j \in Job : Removes(j) /\ (j \in met \/ (name = j /\ commits[j] = <<>>))]_vars

\* "Version 0 is removed while it is still the only version, and a managed table this plan
\* registered is dropped while it is still empty" (_create.py:20), whoever else is at work.
UndoneWhileEmpty ==
    [][/\ \A l \in Location : zero[l] # None /\ zero'[l] = None => commits[l] = <<>>
       /\ name # None /\ name' = None /\ pc' # pc =>
             name \in Job /\ commits[name] = <<>>]_vars
=============================================================================
